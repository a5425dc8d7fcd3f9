--------------------------- MODULE Daemon_proofs ----------------------------
(***************************************************************************)
(* What is loaded, built, taught and put in force, for every directory,    *)
(* every number of concurrent reloads and every edit between two reads:    *)
(* what a refused and a granted reload change, what the redactor knows     *)
(* before anything can be written, and what the validator's word is worth  *)
(* to the builders and to the runtime.                                     *)
(***************************************************************************)
EXTENDS Daemon, FiniteSetTheorems, WellFoundedInduction, TLAPS

Answer == {"none", "unauthorized", "reloaded", "rejected"}

\* The parts of the state the argument is about are what they should be.
Shape ==
    /\ proc \in {"down", "starting", "seeding", "serving"}
    /\ disk \in Revisions
    /\ overlay \subseteq EnvFile
    /\ generation \in Nat
    /\ told \in [Reloads -> Answer]
    /\ job = [b \in Builders |-> job[b]]
    /\ cached = [p \in Places0 |-> cached[p]]

\* A reload under way has not been answered, and only a serving process has one.
Asked == \A r \in Reloads : job[r].at # "idle" => told[r] = "none" /\ proc = "serving"

\* The start is under way only before there is a runtime.
Starting == job["startup"].at # "idle" => proc = "starting"

\* Nothing is held before the seeding, and then only what is known.
Held ==
    /\ proc \in {"down", "starting"} => \A p \in Places0 : cached[p] = {}
    /\ proc = "seeding" => \A p \in Places0 : cached[p] \subseteq known

IInv == Shape /\ Asked /\ Starting /\ Held

LEMMA InitIInv == Init => IInv
  BY DEF Init, IInv, Shape, Asked, Starting, Held, Idle, Answer, Builders

LEMMA GoneIInv ==
    ASSUME IInv, Gone, UNCHANGED <<disk, told>>
    PROVE  IInv'
  BY ReloadsAssumption DEF Gone, IInv, Shape, Asked, Starting, Held, Idle, Answer, Builders

\* A builder goes on: nothing the invariant speaks of changes but its own job.
LEMMA MoveIInv ==
    ASSUME IInv, NEW b \in Builders, NEW j, job[b].at # "idle", Goes(b, j), known \subseteq known',
           UNCHANGED <<disk, proc, overlay, generation, cached, told>>
    PROVE  IInv'
  <1>1. Shape'
    BY DEF IInv, Shape, Goes, Builders, Answer
  <1>2. Asked'
    BY DEF IInv, Shape, Asked, Goes, Builders
  <1>3. Starting'
    BY DEF IInv, Shape, Starting, Goes, Builders
  <1>4. Held'
    BY DEF IInv, Held
  <1> QED
    BY <1>1, <1>2, <1>3, <1>4 DEF IInv

\* A reload is answered, one way or the other, and its builder is idle again.
LEMMA AnswerIInv ==
    ASSUME IInv, NEW r \in Reloads, NEW j, j.at = "idle", Goes(r, j), NEW a \in Answer,
           told' = [told EXCEPT ![r] = a], known \subseteq known',
           UNCHANGED <<disk, proc, overlay, generation, cached>>
    PROVE  IInv'
  <1>1. Shape'
    BY DEF IInv, Shape, Goes, Builders, Answer
  <1>2. Asked'
    BY DEF IInv, Shape, Asked, Goes, Builders
  <1>3. Starting'
    BY ReloadsAssumption DEF IInv, Shape, Starting, Goes, Builders
  <1>4. Held'
    BY DEF IInv, Held
  <1> QED
    BY <1>1, <1>2, <1>3, <1>4 DEF IInv

\* A build that fails ends the process or is answered.
LEMMA FailsIInv ==
    ASSUME IInv, NEW b \in Builders, NEW why, Fails(b, why)
    PROVE  IInv'
  <1>1. CASE b = "startup"
    BY <1>1, GoneIInv DEF Fails
  <1>2. CASE b # "startup"
    <2>1. b \in Reloads
      BY <1>2 DEF Builders
    <2>2. [Idle EXCEPT !.why = why].at = "idle"
      BY DEF Idle
    <2>3. /\ Goes(b, [Idle EXCEPT !.why = why])
          /\ told' = [told EXCEPT ![b] = "rejected"]
          /\ UNCHANGED <<disk, proc, overlay, generation, cached, known>>
      BY <1>2 DEF Fails
    <2> QED
      BY <2>1, <2>2, <2>3, AnswerIInv DEF Answer
  <1> QED
    BY <1>1, <1>2

LEMMA JobOnlyIInv ==
    ASSUME IInv, NEW b \in Builders, NEW j, job[b].at # "idle", JobOnly(b, j)
    PROVE  IInv'
  BY MoveIInv DEF JobOnly

\* The steps of a build, wherever it stands and whoever it is for.
LEMMA StepsIInv ==
    ASSUME IInv, NEW b \in Builders, Steps(b)
    PROVE  IInv'
  <1>1. CASE ReadBase(b)
    BY <1>1, FailsIInv, JobOnlyIInv DEF ReadBase, At
  <1>2. CASE ReadDir(b)
    BY <1>2, FailsIInv, JobOnlyIInv DEF ReadDir, At
  <1>3. CASE Accept(b)
    <2>1. CASE Fails(b, {"validate"})
      BY <2>1, FailsIInv
    <2>2. CASE ~Fails(b, {"validate"})
      <3> DEFINE j == [job[b] EXCEPT !.at = "build", !.left = DOMAIN job[b].cfg.profiles]
      <3>1. /\ Goes(b, j)
            /\ UNCHANGED <<disk, proc, overlay, generation, cached, told, known>>
        BY <1>3, <2>2 DEF Accept
      <3>2. job[b].at # "idle"
        BY <1>3 DEF Accept, At
      <3> HIDE DEF j
      <3> QED
        BY <3>1, <3>2, MoveIInv
    <2> QED
      BY <2>1, <2>2
  <1>4. CASE BuildProfile(b)
    <2> DEFINE errors == BuildOne(job[b].cfg, Profile(b), World)
    <2>1. CASE errors # {} /\ b = "startup"
      BY <1>4, <2>1, FailsIInv DEF BuildProfile
    <2>2. CASE ~(errors # {} /\ b = "startup")
      <3>1. /\ Learn(Profile(b))
            /\ UNCHANGED <<disk, proc, overlay, generation, cached>>
        BY <1>4, <2>2 DEF BuildProfile
      <3>2. known \subseteq known'
        BY <3>1 DEF Learn
      <3>3. CASE errors # {}
        <4>1. /\ Goes(b, [Idle EXCEPT !.why = errors])
              /\ told' = [told EXCEPT ![b] = "rejected"]
          BY <1>4, <2>2, <3>3 DEF BuildProfile
        <4>2. [Idle EXCEPT !.why = errors].at = "idle"
          BY DEF Idle
        <4>3. b \in Reloads
          BY <2>2, <3>3 DEF Builders
        <4> HIDE DEF errors
        <4> QED
          BY <3>1, <3>2, <4>1, <4>2, <4>3, AnswerIInv DEF Answer
      <3>4. CASE errors = {}
        <4>1. PICK j : Goes(b, j) /\ UNCHANGED told
          BY <1>4, <2>2, <3>4 DEF BuildProfile
        <4>2. job[b].at # "idle"
          BY <1>4 DEF BuildProfile, At
        <4> QED
          BY <3>1, <3>2, <4>1, <4>2, MoveIInv
      <3> QED
        BY <3>3, <3>4
    <2> QED
      BY <2>1, <2>2
  <1>5. CASE Finish(b)
    BY <1>5, FailsIInv, JobOnlyIInv DEF Finish, At
  <1> QED
    BY <1>1, <1>2, <1>3, <1>4, <1>5 DEF Steps
LEMMA StartIInv ==
    ASSUME IInv, Start
    PROVE  IInv'
  <1>1. CASE LoadEnvFile = {}
    BY <1>1 DEF Start, IInv, Shape, Asked, Starting, Held
  <1>2. CASE LoadEnvFile # {}
    <2>1. /\ proc' = "starting" /\ proc = "down"
          /\ overlay' = UNION LoadEnvFile
          /\ job' = [job EXCEPT !["startup"] = [Idle EXCEPT !.at = "base"]]
          /\ UNCHANGED <<disk, generation, known, cached, told>>
      BY <1>2 DEF Start
    <2>2. overlay' \subseteq EnvFile
      <3>1. Requested \in {"default", "disabled", "missing"}
        <4>1. disk \in Revisions
          BY DEF IInv, Shape
        <4>2. CASE disk.base = {}
          BY <4>2 DEF Requested
        <4>3. CASE disk.base # {}
          <5>1. (CHOOSE c \in disk.base : TRUE) \in disk.base
            BY <4>3
          <5> QED
            BY <4>1, <4>3, <5>1, EnvFileAssumption DEF Requested
        <4> QED
          BY <4>2, <4>3
      <3>2. LoadEnvFile \in {{EnvFile}, {{}}, {}}
        BY <3>1 DEF LoadEnvFile
      <3> QED
        BY <2>1, <3>2
    <2>3. Shape'
      BY <2>1, <2>2 DEF IInv, Shape, Builders
    <2>4. Asked'
      BY <2>1, ReloadsAssumption DEF IInv, Shape, Asked, Builders
    <2>5. Starting' /\ Held'
      BY <2>1 DEF IInv, Held, Starting
    <2> QED
      BY <2>3, <2>4, <2>5 DEF IInv
  <1> QED
    BY <1>1, <1>2

LEMMA InstallIInv ==
    ASSUME IInv, Install
    PROVE  IInv'
  <1>1. /\ proc = "starting" /\ proc' = "seeding"
        /\ job' = [job EXCEPT !["startup"] = Idle]
        /\ UNCHANGED <<disk, overlay, generation, known, cached, told>>
    BY DEF Install, At, IInv, Starting
  <1>2. Shape'
    BY <1>1 DEF IInv, Shape, Builders
  <1>3. Asked'
    BY <1>1, ReloadsAssumption DEF IInv, Shape, Asked, Builders
  <1>4. Starting'
    BY <1>1 DEF IInv, Shape, Starting, Idle, Builders
  <1>5. Held'
    BY <1>1 DEF IInv, Held
  <1> QED
    BY <1>2, <1>3, <1>4, <1>5 DEF IInv

LEMMA SeedIInv ==
    ASSUME IInv, Seed
    PROVE  IInv'
  <1>1. PICK place :
            /\ cached' = [cached EXCEPT ![place] = {ValueAt(place)}]
            /\ known' = known \cup {ValueAt(place)}
    BY DEF Seed
  <1>2. proc = "seeding" /\ UNCHANGED <<disk, proc, overlay, job, generation, told>>
    BY DEF Seed
  <1>3. Shape' /\ Asked' /\ Starting'
    BY <1>1, <1>2 DEF IInv, Shape, Asked, Starting
  <1>4. Held'
    BY <1>1, <1>2 DEF IInv, Shape, Held
  <1> QED
    BY <1>3, <1>4 DEF IInv

LEMMA ServeIInv ==
    ASSUME IInv, Serve
    PROVE  IInv'
  <1>1. CASE Gone /\ UNCHANGED <<disk, told>>
    BY <1>1, GoneIInv
  <1>2. CASE proc' = "serving"
             /\ UNCHANGED <<disk, overlay, job, generation, known, cached, told>>
    <2>1. proc = "seeding"
      BY DEF Serve
    <2> QED
      BY <1>2, <2>1 DEF IInv, Shape, Asked, Starting, Held
  <1> QED
    BY <1>1, <1>2 DEF Serve

LEMMA InjectIInv ==
    ASSUME IInv, NEW p \in Places0, Inject(p)
    PROVE  IInv'
  <1>1. /\ proc = "serving"
        /\ cached' = [cached EXCEPT ![p] = {ValueAt(p)}]
        /\ UNCHANGED <<disk, proc, overlay, job, generation, known, told>>
    BY DEF Inject
  <1> QED
    BY <1>1 DEF IInv, Shape, Asked, Starting, Held

LEMMA RequestIInv ==
    ASSUME IInv, NEW r \in Reloads, NEW good \in BOOLEAN, ReloadRequest(r, good)
    PROVE  IInv'
  <1>1. /\ proc = "serving" /\ told[r] = "none"
        /\ UNCHANGED <<disk, proc, overlay, generation, known, cached>>
    BY DEF ReloadRequest
  <1>2. CASE Goes(r, [Idle EXCEPT !.at = "base"]) /\ UNCHANGED told
    BY <1>1, <1>2, ReloadsAssumption DEF IInv, Shape, Asked, Starting, Held, Goes, Builders
  <1>3. CASE told' = [told EXCEPT ![r] = "unauthorized"] /\ UNCHANGED job
    <2>1. job[r].at = "idle"
      BY DEF ReloadRequest
    <2> QED
      BY <1>1, <1>3, <2>1 DEF IInv, Shape, Asked, Starting, Held, Answer
  <1> QED
    BY <1>2, <1>3 DEF ReloadRequest

LEMMA SwapIInv ==
    ASSUME IInv, NEW r \in Reloads, Swap(r)
    PROVE  IInv'
  <1>1. /\ job[r].at # "idle"
        /\ generation' = generation + 1
        /\ cached' = [p \in Places0 |-> {}]
        /\ told' = [told EXCEPT ![r] = "reloaded"]
        /\ job' = [job EXCEPT ![r] = Idle]
        /\ UNCHANGED <<disk, proc, overlay, known>>
    BY DEF Swap, At, Goes
  <1>2. Idle.at = "idle"
    BY DEF Idle
  <1>3. Shape'
    <2>1. generation' \in Nat
      BY <1>1 DEF IInv, Shape
    <2>2. told' \in [Reloads -> Answer]
      BY <1>1 DEF IInv, Shape, Answer
    <2>3. job' = [b \in Builders |-> job'[b]] /\ cached' = [p \in Places0 |-> cached'[p]]
      BY <1>1 DEF IInv, Shape
    <2> QED
      BY <1>1, <2>1, <2>2, <2>3 DEF IInv, Shape
  <1>4. Asked'
    BY <1>1, <1>2 DEF IInv, Shape, Asked, Builders
  <1>5. Starting'
    BY <1>1, ReloadsAssumption DEF IInv, Shape, Starting, Builders
  <1>6. Held'
    BY <1>1 DEF IInv, Held
  <1> QED
    BY <1>3, <1>4, <1>5, <1>6 DEF IInv

\* Every step keeps the invariant.
LEMMA NextIInv == IInv /\ [Next]_vars => IInv'
  <1> SUFFICES ASSUME IInv, [Next]_vars PROVE IInv'
    OBVIOUS
  <1>1. CASE Edit
    BY <1>1, EditedAssumption DEF Edit, IInv, Shape, Asked, Starting, Held
  <1>2. ASSUME NEW p \in Paths0, Rotate(p) PROVE IInv'
    BY <1>2 DEF Rotate, IInv, Shape, Asked, Starting, Held
  <1>3. CASE Start
    BY <1>3, StartIInv
  <1>4. CASE Stop
    BY <1>4, GoneIInv DEF Stop
  <1>5. ASSUME NEW b \in Builders, Steps(b) PROVE IInv'
    BY <1>5, StepsIInv
  <1>6. CASE Install
    BY <1>6, InstallIInv
  <1>7. CASE Seed
    BY <1>7, SeedIInv
  <1>8. CASE Serve
    BY <1>8, ServeIInv
  <1>9. ASSUME NEW p \in Places0, Inject(p) PROVE IInv'
    BY <1>9, InjectIInv
  <1>10. ASSUME NEW r \in Reloads, NEW good \in BOOLEAN, ReloadRequest(r, good) PROVE IInv'
    BY <1>10, RequestIInv
  <1>11. ASSUME NEW r \in Reloads, Swap(r) PROVE IInv'
    BY <1>11, SwapIInv
  <1>12. CASE UNCHANGED vars
    BY <1>12 DEF vars, IInv, Shape, Asked, Starting, Held
  <1> QED
    BY <1>1, <1>2, <1>3, <1>4, <1>5, <1>6, <1>7, <1>8, <1>9, <1>10, <1>11, <1>12 DEF Next

-----------------------------------------------------------------------------
\* What a step of a serving process may do to what is in force.
ChangesNothing ==
    proc = "serving" /\ proc' = "serving" =>
        /\ (generation' # generation => generation' = generation + 1)
        /\ (runtime' # runtime => generation' # generation)
        /\ (generation' # generation <=>
              \E r \in Reloads : told'[r] = "reloaded" /\ told[r] # "reloaded")

\* Nothing is put in force and nobody is told so.
LEMMA QuietStep ==
    ASSUME UNCHANGED <<runtime, generation>>,
           \A r \in Reloads : told'[r] = "reloaded" => told[r] = "reloaded"
    PROVE  ChangesNothing
  BY DEF ChangesNothing

LEMMA RefusedQuiet ==
    ASSUME IInv, NEW r \in Reloads, NEW a \in Answer \ {"reloaded"},
           told' = [told EXCEPT ![r] = a], UNCHANGED <<runtime, generation>>
    PROVE  ChangesNothing
  <1>1. \A q \in Reloads : told'[q] = "reloaded" => told[q] = "reloaded"
    BY DEF IInv, Shape, Answer
  <1> QED
    BY <1>1, QuietStep

LEMMA FailsQuiet ==
    ASSUME IInv, NEW b \in Builders, NEW why, Fails(b, why)
    PROVE  ChangesNothing
  <1>1. CASE b = "startup"
    BY <1>1 DEF Fails, Gone, ChangesNothing
  <1>2. CASE b # "startup"
    <2>1. b \in Reloads /\ "rejected" \in Answer \ {"reloaded"}
      BY <1>2 DEF Builders, Answer
    <2>2. told' = [told EXCEPT ![b] = "rejected"] /\ UNCHANGED <<runtime, generation>>
      BY <1>2 DEF Fails
    <2> QED
      BY <2>1, <2>2, RefusedQuiet
  <1> QED
    BY <1>1, <1>2

LEMMA JobOnlyQuiet ==
    ASSUME NEW b, NEW j, JobOnly(b, j)
    PROVE  ChangesNothing
  BY QuietStep DEF JobOnly

LEMMA StepsQuiet ==
    ASSUME IInv, NEW b \in Builders, Steps(b)
    PROVE  ChangesNothing
  <1>1. CASE ReadBase(b)
    BY <1>1, FailsQuiet, JobOnlyQuiet DEF ReadBase
  <1>2. CASE ReadDir(b)
    BY <1>2, FailsQuiet, JobOnlyQuiet DEF ReadDir
  <1>3. CASE Accept(b)
    <2>1. Fails(b, {"validate"}) \/ UNCHANGED <<runtime, generation, told>>
      BY <1>3 DEF Accept
    <2> QED
      BY <2>1, FailsQuiet, QuietStep
  <1>4. CASE BuildProfile(b)
    <2> DEFINE errors == BuildOne(job[b].cfg, Profile(b), World)
    <2>1. \/ Fails(b, errors)
          \/ UNCHANGED <<runtime, generation, told>>
          \/ /\ b # "startup" /\ told' = [told EXCEPT ![b] = "rejected"]
             /\ UNCHANGED <<runtime, generation>>
      BY <1>4 DEF BuildProfile
    <2>2. CASE Fails(b, errors)
      BY <2>2, FailsQuiet
    <2>3. CASE UNCHANGED <<runtime, generation, told>>
      BY <2>3, QuietStep
    <2>4. CASE /\ b # "startup" /\ told' = [told EXCEPT ![b] = "rejected"]
               /\ UNCHANGED <<runtime, generation>>
      <3>1. b \in Reloads /\ "rejected" \in Answer \ {"reloaded"}
        BY <2>4 DEF Builders, Answer
      <3> QED
        BY <2>4, <3>1, RefusedQuiet
    <2> QED
      BY <2>1, <2>2, <2>3, <2>4
  <1>5. CASE Finish(b)
    BY <1>5, FailsQuiet, JobOnlyQuiet DEF Finish
  <1> QED
    BY <1>1, <1>2, <1>3, <1>4, <1>5 DEF Steps

LEMMA NextChangesNothing == IInv /\ [Next]_vars => ChangesNothing
  <1> SUFFICES ASSUME IInv, [Next]_vars PROVE ChangesNothing
    OBVIOUS
  <1>1. CASE UNCHANGED <<runtime, generation, told>>
    BY <1>1, QuietStep
  <1>2. CASE Edit \/ Seed \/ Start \/ UNCHANGED vars
    BY <1>2, <1>1 DEF Edit, Seed, Start, vars
  <1>3. ASSUME NEW p, Rotate(p) \/ Inject(p) PROVE ChangesNothing
    BY <1>3, <1>1 DEF Rotate, Inject
  <1>4. CASE Stop \/ Install
    BY <1>4 DEF Stop, Gone, Install, ChangesNothing
  <1>5. CASE Serve
    BY <1>5 DEF Serve, ChangesNothing
  <1>6. ASSUME NEW b \in Builders, Steps(b) PROVE ChangesNothing
    BY <1>6, StepsQuiet
  <1>7. ASSUME NEW r \in Reloads, NEW good \in BOOLEAN, ReloadRequest(r, good)
        PROVE  ChangesNothing
    <2>1. "unauthorized" \in Answer \ {"reloaded"}
      BY DEF Answer
    <2>2. UNCHANGED <<runtime, generation>>
          /\ (UNCHANGED told \/ told' = [told EXCEPT ![r] = "unauthorized"])
      BY <1>7 DEF ReloadRequest
    <2> QED
      BY <1>1, <2>1, <2>2, RefusedQuiet
  <1>8. ASSUME NEW r \in Reloads, Swap(r) PROVE ChangesNothing
    <2>1. told[r] = "none"
      BY <1>8 DEF Swap, At, IInv, Asked
    <2>2. told'[r] = "reloaded"
      BY <1>8 DEF Swap, IInv, Shape
    <2>3. generation' = generation + 1 /\ generation' # generation
      BY <1>8 DEF Swap, IInv, Shape
    <2> QED
      BY <2>1, <2>2, <2>3 DEF ChangesNothing
  <1> QED
    BY <1>2, <1>3, <1>4, <1>5, <1>6, <1>7, <1>8 DEF Next

\* management.rs, reload: whatever the files hold and however many reloads run
\* at once, a refused one changes neither the runtime nor the generation, and
\* one that succeeds is counted once and told so.
THEOREM DaemonRejectedChangesNothing == Spec => RejectedChangesNothing
  <1>1. IInv /\ [Next]_vars => ChangesNothing
    BY NextChangesNothing
  <1> QED
    BY InitIInv, NextIInv, <1>1, PTL DEF Spec, RejectedChangesNothing, ChangesNothing

\* The step that opens the listeners: the guard of Serve has every source
\* resolved, and what is held by then is known.
LEMMA NextSeeded ==
    ASSUME IInv, [Next]_vars, proc # "serving", proc' = "serving",
           NEW cfg \in runtime', NEW place \in Injected(cfg), Resolvable(place)
    PROVE  cached'[place] # {} /\ cached'[place] \subseteq known'
  <1>1. Serve
    <2>1. proc' # proc
      OBVIOUS
    <2>2. ASSUME NEW b \in Builders, Steps(b) PROVE FALSE
      BY <2>1, <2>2 DEF Steps, ReadBase, ReadDir, Accept, BuildProfile, Finish, JobOnly, Fails, Gone
    <2> QED
      BY <2>1, <2>2 DEF Next, vars, Edit, Rotate, Start, Stop, Gone, Install, Seed, Inject,
                        ReloadRequest, Swap
  <1>2. /\ proc = "seeding" /\ UNCHANGED <<runtime, cached, known>>
        /\ \A c \in runtime : \A p \in Seeds(c) : Resolvable(p) => cached[p] # {}
    BY <1>1 DEF Serve, Gone
  <1>3. place \in Places0
    BY DEF IInv, Shape, Resolvable, World, Places0
  <1> QED
    BY <1>2, <1>3 DEF IInv, Held, Seeds

\* serve: before the listeners open, the redactor knows the value of every
\* secret that some profile of the runtime would inject and that can be read,
\* whatever was edited or rotated while it started.
THEOREM DaemonSeededBeforeServing == Spec => SeededBeforeServing
  <1>1. IInv /\ [Next]_vars =>
          (proc # "serving" /\ proc' = "serving" =>
             \A cfg \in runtime' : \A place \in Injected(cfg) :
                Resolvable(place) => cached'[place] # {} /\ cached'[place] \subseteq known')
    BY NextSeeded
  <1> QED
    BY InitIInv, NextIInv, <1>1, PTL DEF Spec, SeededBeforeServing

-----------------------------------------------------------------------------
(* What validation and building return. *)

\* A set of numbers with 0 and with every successor of its own is Nat.
LEMMA Inductive ==
    ASSUME NEW S \in SUBSET Nat, 0 \in S, \A k \in S : k + 1 \in S
    PROVE  S = Nat
  <1> DEFINE R == OpToRel(<, Nat)
             T == Nat \ S
  <1>1. \A x, y \in Nat : x < y => <<x, y>> \in R
    BY DEF OpToRel
  <1>2. IsWellFoundedOn(R, Nat)
    BY NatLessThanWellFounded
  <1> HIDE DEF R
  <1>3. SUFFICES ASSUME T # {} PROVE FALSE
    OBVIOUS
  <1>4. PICK x \in T : \A y \in T : ~(<<y, x>> \in R)
    BY <1>2, <1>3, WFMin
  <1>5. x \in Nat /\ x # 0 /\ x - 1 \in Nat /\ x - 1 < x
    BY <1>4
  <1>6. x - 1 \in S
    BY <1>1, <1>4, <1>5
  <1> QED
    BY <1>4, <1>5, <1>6

\* A list has a last index with a property that some index has.
LEMMA LastExists ==
    ASSUME NEW n \in Nat, NEW S \in SUBSET (1 .. n), S # {}
    PROVE  \E i \in S : \A j \in S : j <= i
  <1> DEFINE T == {k \in Nat : S \cap (1 .. k) # {} => \E i \in S : i <= k /\ \A j \in S : j <= k => j <= i}
  <1>1. 0 \in T
    OBVIOUS
  <1>2. ASSUME NEW k \in T PROVE k + 1 \in T
    <2>1. CASE k + 1 \in S
      BY <2>1
    <2>2. CASE k + 1 \notin S
      <3>1. S \cap (1 .. k + 1) = S \cap (1 .. k)
        BY <2>2
      <3>2. \A j \in S : j <= k + 1 <=> j <= k
        BY <2>2
      <3> QED
        BY <1>2, <3>1, <3>2
    <2> QED
      BY <2>1, <2>2
  <1>3. n \in T
    <2> HIDE DEF T
    <2>1. T \in SUBSET Nat
      BY DEF T
    <2> QED
      BY <1>1, <1>2, <2>1, Inductive
  <1>4. \A j \in S : j \in 1 .. n /\ j <= n
    OBVIOUS
  <1>5. S \cap (1 .. n) = S
    OBVIOUS
  <1> QED
    BY <1>3, <1>4, <1>5

\* A first one as well.
LEMMA FirstExists ==
    ASSUME NEW n \in Nat, NEW S \in SUBSET (1 .. n), S # {}
    PROVE  \E i \in S : \A j \in 1 .. i - 1 : j \notin S
  <1> DEFINE T == {n + 1 - i : i \in S}
  <1>1. T \in SUBSET (1 .. n) /\ T # {}
    <2>1. \A i \in S : i \in 1 .. n /\ n + 1 - i \in 1 .. n
      OBVIOUS
    <2> QED
      BY <2>1
  <1>2. PICK t \in T : \A u \in T : u <= t
    BY <1>1, LastExists
  <1>3. PICK i \in S : t = n + 1 - i
    BY <1>2
  <1>4. ASSUME NEW j \in 1 .. i - 1, j \in S PROVE FALSE
    <2>1. n + 1 - j \in T
      BY <1>4
    <2>2. n + 1 - j <= t
      BY <1>2, <2>1
    <2> QED
      BY <1>3, <2>2
  <1> QED
    BY <1>4

\* The last bundle that sets a field has it.
LEMMA LatestIs ==
    ASSUME NEW n \in Nat, NEW bundles, DOMAIN bundles = 1 .. n, NEW field,
           \E i \in DOMAIN bundles : bundles[i][field] # {}
    PROVE  \E i \in DOMAIN bundles :
              bundles[i][field] # {} /\ Latest(bundles, field) = bundles[i][field]
  <1> DEFINE S == {i \in DOMAIN bundles : bundles[i][field] # {}}
             m == CHOOSE i \in S : \A j \in S : j <= i
  <1>1. m \in S
    <2>1. S \in SUBSET (1 .. n) /\ S # {}
      OBVIOUS
    <2>2. \E i \in S : \A j \in S : j <= i
      BY <2>1, LastExists
    <2> QED
      BY <2>2
  <1>2. Latest(bundles, field) = bundles[m][field]
    BY DEF Latest
  <1> HIDE DEF m
  <1> QED
    BY <1>1, <1>2

LEMMA LatestIsNone ==
    ASSUME NEW bundles, NEW field, ~\E i \in DOMAIN bundles : bundles[i][field] # {}
    PROVE  Latest(bundles, field) = {}
  BY DEF Latest

\* A header that some bundle sets is set to what some bundle sets it to.
LEMMA MergedNames ==
    ASSUME NEW bundles, NEW i \in DOMAIN bundles
    PROVE  DOMAIN bundles[i].set \subseteq DOMAIN MergedHeaders(bundles)
  <1>1. DOMAIN MergedHeaders(bundles) = UNION {DOMAIN bundles[j].set : j \in DOMAIN bundles}
    BY DEF MergedHeaders
  <1> QED
    BY <1>1

LEMMA MergedTo ==
    ASSUME NEW n \in Nat, NEW bundles, DOMAIN bundles = 1 .. n,
           NEW h \in DOMAIN MergedHeaders(bundles)
    PROVE  \E i \in DOMAIN bundles :
              h \in DOMAIN bundles[i].set /\ MergedHeaders(bundles)[h] = bundles[i].set[h]
  <1> DEFINE names == UNION {DOMAIN bundles[i].set : i \in DOMAIN bundles}
             last(g) == CHOOSE i \in DOMAIN bundles :
                          /\ g \in DOMAIN bundles[i].set
                          /\ \A j \in DOMAIN bundles : g \in DOMAIN bundles[j].set => j <= i
  <1>1. MergedHeaders(bundles) = [g \in names |-> bundles[last(g)].set[g]]
    BY DEF MergedHeaders
  <1>2. h \in names
    BY <1>1
  <1>3. last(h) \in DOMAIN bundles /\ h \in DOMAIN bundles[last(h)].set
    <2> DEFINE S == {i \in DOMAIN bundles : h \in DOMAIN bundles[i].set}
    <2>1. S \in SUBSET (1 .. n) /\ S # {}
      BY <1>2
    <2>2. \E i \in S : \A j \in S : j <= i
      BY <2>1, LastExists
    <2>3. \E i \in DOMAIN bundles :
              /\ h \in DOMAIN bundles[i].set
              /\ \A j \in DOMAIN bundles : h \in DOMAIN bundles[j].set => j <= i
      BY <2>2
    <2> QED
      BY <2>3
  <1> HIDE DEF last
  <1> QED
    BY <1>1, <1>2, <1>3

\* The lists of all bundles, one after the other, have what each of them has.
LEMMA ConcatenatedHas ==
    ASSUME NEW n \in Nat, NEW bundles, bundles \in Seq(Elems(bundles)), NEW field,
           \A i \in DOMAIN bundles : bundles[i][field] \in Seq(Elems(bundles[i][field])),
           NEW i \in DOMAIN bundles
    PROVE  Elems(bundles[i][field]) \subseteq Elems(Concatenated(bundles, field))
  <1> DEFINE N == Len(bundles)
             b(k) == bundles[k][field]
             U == UNION {Elems(b(k)) : k \in DOMAIN bundles}
             upTo == CHOOSE f : f = [k \in 0 .. N |-> IF k = 0 THEN << >> ELSE f[k - 1] \o b(k)]
             Sums(f, m) == f = [k \in 0 .. m |-> IF k = 0 THEN << >> ELSE f[k - 1] \o b(k)]
  <1>0. N \in Nat /\ DOMAIN bundles = 1 .. N
    OBVIOUS
  <1>1. Concatenated(bundles, field) = upTo[N]
    BY DEF Concatenated
  <1>2. Sums(upTo, N)
    <2> DEFINE T == {m \in Nat : \E f : Sums(f, m)}
    <2>1. 0 \in T
      <3>1. Sums([k \in {0} |-> << >>], 0)
        OBVIOUS
      <3> QED
        BY <3>1
    <2>2. ASSUME NEW m \in T PROVE m + 1 \in T
      <3>1. PICK f : Sums(f, m)
        BY <2>2
      <3> DEFINE g == [k \in 0 .. m + 1 |-> IF k <= m THEN f[k] ELSE f[m] \o b(m + 1)]
                 F == [k \in 0 .. m + 1 |-> IF k = 0 THEN << >> ELSE g[k - 1] \o b(k)]
      <3>2. ASSUME NEW k \in 0 .. m + 1 PROVE g[k] = F[k]
        <4>1. CASE k = 0
          <5>1. g[k] = f[0] /\ F[k] = << >>
            BY <4>1
          <5>2. f[0] = << >>
            BY <3>1
          <5> QED
            BY <5>1, <5>2
        <4>2. CASE k \in 1 .. m
          <5>1. k \in 0 .. m /\ k # 0 /\ k - 1 \in 0 .. m + 1 /\ k - 1 <= m /\ k <= m
            BY <4>2
          <5>2. f[k] = f[k - 1] \o b(k)
            BY <3>1, <5>1
          <5>3. g[k] = f[k] /\ g[k - 1] = f[k - 1]
            BY <5>1
          <5>4. F[k] = g[k - 1] \o b(k)
            BY <5>1
          <5> QED
            BY <5>2, <5>3, <5>4
        <4>3. CASE k = m + 1
          <5>1. k # 0 /\ m \in 0 .. m + 1 /\ k - 1 = m /\ ~(k <= m) /\ m <= m
            BY <4>3
          <5>2. g[m] = f[m] /\ g[k] = f[m] \o b(m + 1)
            BY <5>1
          <5>3. F[k] = g[m] \o b(m + 1)
            BY <4>3, <5>1
          <5> QED
            BY <5>2, <5>3
        <4> QED
          BY <4>1, <4>2, <4>3
      <3>3. g = F
        <4> HIDE DEF b
        <4>1. DOMAIN g = 0 .. m + 1 /\ DOMAIN F = 0 .. m + 1
          OBVIOUS
        <4>2. g = [k \in 0 .. m + 1 |-> g[k]] /\ F = [k \in 0 .. m + 1 |-> F[k]]
          OBVIOUS
        <4> HIDE DEF g, F
        <4> QED
          BY <3>2, <4>2
      <3> HIDE DEF g
      <3>4. Sums(g, m + 1)
        BY <3>3
      <3>5. m + 1 \in Nat
        OBVIOUS
      <3> HIDE DEF Sums
      <3> QED
        BY <3>4, <3>5
    <2>3. N \in T
      <3> HIDE DEF T
      <3>1. T \in SUBSET Nat
        BY DEF T
      <3> QED
        BY <1>0, <2>1, <2>2, <3>1, Inductive
    <2>4. \E f : Sums(f, N)
      BY <2>3
    <2> QED
      BY <2>4
  <1> HIDE DEF upTo
  <1>3. upTo[0] = << >> /\ \A k \in 1 .. N : upTo[k] = upTo[k - 1] \o b(k)
    <2>1. upTo[0] = << >>
      BY <1>0, <1>2
    <2>2. ASSUME NEW k \in 1 .. N PROVE upTo[k] = upTo[k - 1] \o b(k)
      <3>1. k \in 0 .. N /\ k # 0
        BY <1>0
      <3> QED
        BY <1>2, <3>1
    <2> QED
      BY <2>1, <2>2
  <1>4. \A k \in 1 .. N : b(k) \in Seq(U)
    <2> SUFFICES ASSUME NEW k \in 1 .. N PROVE b(k) \in Seq(U)
      OBVIOUS
    <2>1. b(k) \in Seq(Elems(b(k))) /\ Elems(b(k)) \subseteq U
      BY <1>0
    <2> QED
      BY <2>1
  <1> DEFINE Has(m) == upTo[m] \in Seq(U) /\ \A k \in 1 .. m : Elems(b(k)) \subseteq Elems(upTo[m])
             T == {m \in Nat : m <= N => Has(m)}
  <1>5. 0 \in T
    <2>1. << >> \in Seq(U) /\ \A k \in 1 .. 0 : FALSE
      OBVIOUS
    <2> HIDE DEF U, b
    <2> QED
      BY <1>3, <2>1
  <1>6. ASSUME NEW m \in T PROVE m + 1 \in T
    <2> HIDE DEF b, U
    <2> SUFFICES ASSUME m + 1 <= N PROVE Has(m + 1)
      OBVIOUS
    <2>1. Has(m) /\ m + 1 \in 1 .. N /\ (m + 1) - 1 = m
      BY <1>0, <1>6
    <2>2. upTo[m + 1] = upTo[m] \o b(m + 1)
      BY <1>3, <2>1
    <2>3. upTo[m] \in Seq(U) /\ b(m + 1) \in Seq(U)
      BY <1>4, <2>1
    <2>4. upTo[m + 1] \in Seq(U)
      BY <2>2, <2>3
    <2>5. Elems(upTo[m]) \subseteq Elems(upTo[m + 1]) /\ Elems(b(m + 1)) \subseteq Elems(upTo[m + 1])
      <3> DEFINE p == upTo[m]
                 q == b(m + 1)
      <3>1. p \in Seq(U) /\ q \in Seq(U)
        BY <2>3
      <3> HIDE DEF p, q
      <3>2. Elems(p) \subseteq Elems(p \o q)
        <4> SUFFICES ASSUME NEW j \in DOMAIN p PROVE p[j] \in Elems(p \o q)
          BY DEF Elems
        <4>1. j \in DOMAIN (p \o q) /\ (p \o q)[j] = p[j]
          BY <3>1
        <4> QED
          BY <4>1 DEF Elems
      <3>3. Elems(q) \subseteq Elems(p \o q)
        <4> SUFFICES ASSUME NEW j \in DOMAIN q PROVE q[j] \in Elems(p \o q)
          BY DEF Elems
        <4>1. Len(p) + j \in DOMAIN (p \o q) /\ (p \o q)[Len(p) + j] = q[j]
          BY <3>1
        <4> QED
          BY <4>1 DEF Elems
      <3> QED
        BY <2>2, <3>2, <3>3 DEF p, q
    <2>6. ASSUME NEW k \in 1 .. m + 1 PROVE Elems(b(k)) \subseteq Elems(upTo[m + 1])
      <3>1. CASE k = m + 1
        BY <2>5, <3>1
      <3>2. CASE k \in 1 .. m
        BY <2>1, <2>5, <3>2
      <3> QED
        BY <3>1, <3>2
    <2> QED
      BY <2>4, <2>6
  <1>7. Has(N)
    <2>1. N \in T
      <3> HIDE DEF T
      <3>1. T \in SUBSET Nat
        BY DEF T
      <3> QED
        BY <1>0, <1>5, <1>6, <3>1, Inductive
    <2> QED
      BY <1>0, <2>1
  <1> QED
    BY <1>0, <1>1, <1>7

\* What a document is free of when the validator has nothing to say.
LEMMA ValidIs ==
    ASSUME NEW cfg, Validate(cfg) = {}
    PROVE  /\ \A p \in Profiles(cfg) : CheckProfile(cfg, p) = {}
           /\ \A n \in DOMAIN cfg.transforms : CheckTransforms(cfg.transforms[n]) = {}
           /\ \A r \in Elems(cfg.resolvers) : CheckResolver(cfg, r) = {}
  <1>1. ASSUME NEW p \in Profiles(cfg), NEW e \in CheckProfile(cfg, p) PROVE FALSE
    <2>1. e \in UNION {CheckProfile(cfg, q) : q \in Profiles(cfg)}
      BY <1>1
    <2> QED
      BY <2>1 DEF Validate
  <1>2. ASSUME NEW n \in DOMAIN cfg.transforms, NEW e \in CheckTransforms(cfg.transforms[n]) PROVE FALSE
    <2>1. e \in UNION {CheckTransforms(cfg.transforms[m]) : m \in DOMAIN cfg.transforms}
      BY <1>2
    <2>2. e \in Validate(cfg)
      BY <2>1 DEF Validate
    <2> QED
      BY <2>2
  <1>3. ASSUME NEW r \in Elems(cfg.resolvers), NEW e \in CheckResolver(cfg, r) PROVE FALSE
    <2>1. e \in UNION {CheckResolver(cfg, q) : q \in Elems(cfg.resolvers)}
      BY <1>3
    <2>2. e \in Validate(cfg)
      BY <2>1 DEF Validate
    <2> QED
      BY <2>2
  <1> QED
    BY <1>1, <1>2, <1>3

LEMMA FlagIs == ASSUME NEW c, NEW e PROVE Flag(c, e) = {} <=> ~c
  BY DEF Flag

\* And a profile.
LEMMA ValidProfile ==
    ASSUME NEW cfg, NEW p, CheckProfile(cfg, p) = {}
    PROVE  /\ CheckTransforms(p.inline) = {}
           /\ ~AllowsByDefault(p)
           /\ \A l \in Elems(p.policy) : l.layer = "judge" /\ l.dialect = "systemone" => l.confident
           /\ \A l \in Elems(p.policy) :
                 l.layer \in {"allowlist", "denylist"} => l.bundles \subseteq DOMAIN cfg.bundles
           /\ p.transforms # << >> => CheckList(cfg, p) = {}
  <1>1. CheckTransforms(p.inline) = {} /\ (p.transforms # << >> => CheckList(cfg, p) = {})
    BY DEF CheckProfile
  <1>2. Flag(AllowsByDefault(p), "default_allow") = {}
    BY DEF CheckProfile
  <1>3. Flag(\E l \in Elems(p.policy) : l.layer = "judge" /\ l.dialect = "systemone" /\ ~l.confident,
             "min_confidence") = {}
    BY DEF CheckProfile
  <1>4. Flag(\E l \in Elems(p.policy) :
                l.layer \in {"allowlist", "denylist"} /\ ~(l.bundles \subseteq DOMAIN cfg.bundles),
             "unknown_bundle") = {}
    BY DEF CheckProfile
  <1> QED
    BY <1>1, <1>2, <1>3, <1>4, FlagIs

\* Every bundle a profile lists is there, and only one sets what cannot merge.
LEMMA ValidList ==
    ASSUME NEW cfg, NEW p, CheckProfile(cfg, p) = {}
    PROVE  /\ Elems(p.transforms) \subseteq DOMAIN cfg.transforms
           /\ p.transforms # << >> =>
                 \A f \in Unmergeable : ~(Cardinality(Setting(cfg, p, f)) > 1)
  <1>1. CASE p.transforms = << >>
    BY <1>1 DEF Elems
  <1>2. CASE p.transforms # << >>
    <2>1. CheckList(cfg, p) = {}
      BY <1>2, ValidProfile
    <2> QED
      BY <2>1, <1>2 DEF CheckList
  <1> QED
    BY <1>1, <1>2

LEMMA HeadersPass ==
    ASSUME NEW t
    PROVE  CheckRequestHeaders(t) = {} <=> \A h \in DOMAIN t.set : ~BadHeader(h, t.set[h])
  BY DEF CheckRequestHeaders

LEMMA TransformsPass ==
    ASSUME NEW t, CheckTransforms(t) = {}
    PROVE  /\ CheckHeaderFilter(t.headers) = {}
           /\ CheckHeaderFilter(t.respHeaders) = {}
           /\ CheckRequestHeaders(t) = {}
  BY DEF CheckTransforms

LEMMA ListedIs ==
    ASSUME NEW cfg, NEW p, IsProfile(p)
    PROVE  /\ Len(p.transforms) \in Nat
           /\ DOMAIN p.transforms = 1 .. Len(p.transforms)
           /\ DOMAIN Listed(cfg, p) = DOMAIN p.transforms
           /\ Listed(cfg, p) \in Seq(Elems(Listed(cfg, p)))
           /\ \A i \in DOMAIN p.transforms : Listed(cfg, p)[i] = cfg.transforms[p.transforms[i]]
  <1> DEFINE q == p.transforms
             b == Listed(cfg, p)
  <1>1. q \in Seq(Elems(q))
    BY DEF IsProfile
  <1>2. Len(q) \in Nat /\ DOMAIN q = 1 .. Len(q)
    BY <1>1
  <1>3. b = [i \in DOMAIN q |-> cfg.transforms[q[i]]]
    BY DEF Listed
  <1>4. b \in [1 .. Len(q) -> Elems(b)]
    <2>1. b = [i \in 1 .. Len(q) |-> cfg.transforms[q[i]]]
      BY <1>2, <1>3
    <2>2. \A i \in 1 .. Len(q) : b[i] \in Elems(b)
      BY <2>1 DEF Elems
    <2> QED
      BY <2>1, <2>2
  <1> HIDE DEF b, q
  <1>5. b \in Seq(Elems(b))
    BY <1>2, <1>4
  <1> QED
    BY <1>2, <1>3, <1>5 DEF b, q

\* Nothing is the matter with what a profile's bundles amount to.
LEMMA ResolvedIsValid ==
    ASSUME NEW cfg, NEW p, IsProfile(p), CheckProfile(cfg, p) = {},
           \A n \in DOMAIN cfg.transforms : CheckTransforms(cfg.transforms[n]) = {}
    PROVE  LET t == ResolveProfile(cfg, p)
           IN  /\ CheckHeaderFilter(t.headers) = {}
               /\ CheckHeaderFilter(t.respHeaders) = {}
               /\ CheckRequestHeaders(t) = {}
  <1> DEFINE t == ResolveProfile(cfg, p)
             b == Listed(cfg, p)
             n == Len(p.transforms)
  <1>1. CASE p.transforms = << >>
    <2>1. t = p.inline
      BY <1>1 DEF ResolveProfile
    <2>2. CheckTransforms(p.inline) = {}
      BY ValidProfile
    <2> QED
      BY <2>1, <2>2, TransformsPass
  <1>2. CASE p.transforms # << >>
    <2>1. /\ t.headers = Latest(b, "headers") /\ t.respHeaders = Latest(b, "respHeaders")
          /\ t.set = MergedHeaders(b)
      BY <1>2 DEF ResolveProfile
    <2>2. n \in Nat /\ DOMAIN b = 1 .. n
      BY ListedIs
    <2>3. \A i \in DOMAIN b :
             /\ CheckHeaderFilter(b[i]["headers"]) = {}
             /\ CheckHeaderFilter(b[i]["respHeaders"]) = {}
             /\ CheckRequestHeaders(b[i]) = {}
      <3>1. \A i \in DOMAIN p.transforms : p.transforms[i] \in Elems(p.transforms)
        BY DEF Elems
      <3>2. \A i \in DOMAIN p.transforms : p.transforms[i] \in DOMAIN cfg.transforms
        BY <3>1, ValidList
      <3>3. DOMAIN b = DOMAIN p.transforms /\ \A i \in DOMAIN b : b[i] = cfg.transforms[p.transforms[i]]
        BY ListedIs
      <3> HIDE DEF b
      <3>4. ASSUME NEW i \in DOMAIN b PROVE CheckTransforms(b[i]) = {}
        BY <3>2, <3>3
      <3> QED
        BY <3>4, TransformsPass
    <2> HIDE DEF b, t, n
    <2>4. ASSUME NEW f \in {"headers", "respHeaders"}
          PROVE  CheckHeaderFilter(Latest(b, f)) = {}
      <3>1. CASE \E i \in DOMAIN b : b[i][f] # {}
        <4>1. PICK i \in DOMAIN b : Latest(b, f) = b[i][f]
          BY <2>2, <3>1, LatestIs
        <4> QED
          BY <2>3, <4>1
      <3>2. CASE ~\E i \in DOMAIN b : b[i][f] # {}
        <4>1. Latest(b, f) = {}
          BY <3>2, LatestIsNone
        <4> QED
          BY <4>1 DEF CheckHeaderFilter
      <3> QED
        BY <3>1, <3>2
    <2>5. CheckRequestHeaders(t) = {}
      <3> SUFFICES ASSUME NEW h \in DOMAIN t.set, BadHeader(h, t.set[h]) PROVE FALSE
        BY HeadersPass
      <3>0. h \in DOMAIN MergedHeaders(b) /\ t.set[h] = MergedHeaders(b)[h]
        BY <2>1
      <3>1. PICK i \in DOMAIN b : h \in DOMAIN b[i].set /\ t.set[h] = b[i].set[h]
        BY <2>2, <3>0, MergedTo
      <3>2. CheckRequestHeaders(b[i]) = {}
        BY <2>3
      <3> QED
        BY <3>1, <3>2, HeadersPass
    <2> QED
      BY <2>1, <2>4, <2>5 DEF t
  <1> QED
    BY <1>1, <1>2

\* A layer of such a profile fails on nothing the validator has looked at.
LEMMA LayersBuild ==
    ASSUME NEW cfg, NEW p, IsProfile(p), CheckProfile(cfg, p) = {}, NEW world, NEW l \in Elems(p.policy)
    PROVE  LayerErrors(cfg, l, world) \subseteq {"pattern", "layer", "judge_scope", "judge_key"}
  <1>1. l.layer \in {"denylist", "allowlist", "dlp", "rules", "mcp", "judge"}
    BY DEF IsProfile
  <1>2. l.layer \in {"allowlist", "denylist"} => l.bundles \subseteq DOMAIN cfg.bundles
    BY ValidProfile
  <1>3. l.layer = "judge" /\ l.dialect = "systemone" => l.confident
    BY ValidProfile
  <1>4. CASE l.layer \in {"denylist", "allowlist"}
    BY <1>2, <1>4 DEF LayerErrors, Flag
  <1>5. CASE l.layer \in {"dlp", "rules", "mcp"}
    BY <1>5 DEF LayerErrors, Flag
  <1>6. CASE l.layer = "judge"
    BY <1>3, <1>6 DEF LayerErrors, Flag
  <1> QED
    BY <1>1, <1>4, <1>5, <1>6

\* So that a build of it stops on other things only.
LEMMA BuildOfValid ==
    ASSUME NEW cfg, NEW p, IsProfile(p), CheckProfile(cfg, p) = {},
           \A n \in DOMAIN cfg.transforms : CheckTransforms(cfg.transforms[n]) = {}, NEW world
    PROVE  LET t == ResolveProfile(cfg, p)
           IN  BuildOne(cfg, p, world) \subseteq
                  {"pattern", "layer", "judge_scope", "judge_key"}
                      \cup Flag(\E b \in Elems(t.body) : b.transform # "limit", "unimplemented")
                      \cup BuildSecrets(t, world)
  <1> DEFINE t == ResolveProfile(cfg, p)
  <1>1. BuildOne(cfg, p, world) =
           BuildChain(cfg, p, t, world) \cup BuildResponseTransforms(t)
               \cup BuildRequestTransforms(t) \cup BuildSecrets(t, world)
    BY ValidList DEF BuildOne
  <1>2. BuildResponseTransforms(t) = {} /\ BuildRequestTransforms(t) = {}
    BY ResolvedIsValid DEF BuildResponseTransforms, BuildRequestTransforms
  <1>3. UNION {LayerErrors(cfg, l, world) : l \in Elems(p.policy)}
            \subseteq {"pattern", "layer", "judge_scope", "judge_key"}
    BY LayersBuild
  <1> HIDE DEF t
  <1>4. BuildChain(cfg, p, t, world) \subseteq
            {"pattern", "layer", "judge_scope", "judge_key"}
                \cup Flag(\E b \in Elems(t.body) : b.transform # "limit", "unimplemented")
    <2>1. SUFFICES ASSUME NEW e \in BuildChain(cfg, p, t, world)
                   PROVE  \/ e \in {"pattern", "layer", "judge_scope", "judge_key"}
                          \/ e \in Flag(\E b \in Elems(t.body) : b.transform # "limit", "unimplemented")
      OBVIOUS
    <2>2. \/ e \in UNION {LayerErrors(cfg, l, world) : l \in Elems(p.policy)}
          \/ e \in Flag(\E b \in Elems(t.body) : b.transform # "limit", "unimplemented")
      BY <2>1 DEF BuildChain
    <2> QED
      BY <1>3, <2>2
  <1>5. BuildOne(cfg, p, world) \subseteq
            {"pattern", "layer", "judge_scope", "judge_key"}
                \cup Flag(\E b \in Elems(t.body) : b.transform # "limit", "unimplemented")
                \cup BuildSecrets(t, world)
    BY <1>1, <1>2, <1>4
  <1> QED
    BY <1>5 DEF t

\* What ValidatorKeepsItsPromise says of one document.
PromiseKept(cfg, world) ==
    \A p \in Profiles(cfg) :
        LET errors == BuildOne(cfg, p, world)
        IN  /\ errors \cap Promised = {}
            /\ ConfigCheck(cfg, world) => "secrets" \notin errors
            /\ "unimplemented" \in errors /\ p.transforms = << >> => "unimplemented" \in Warnings(cfg)

LEMMA ValidKeepsPromise ==
    ASSUME NEW cfg, IsDocument(cfg), Validate(cfg) = {}, NEW world
    PROVE  PromiseKept(cfg, world)
  <1> SUFFICES ASSUME NEW p \in Profiles(cfg)
               PROVE  LET errors == BuildOne(cfg, p, world)
                      IN  /\ errors \cap Promised = {}
                          /\ ConfigCheck(cfg, world) => "secrets" \notin errors
                          /\ "unimplemented" \in errors /\ p.transforms = << >>
                                => "unimplemented" \in Warnings(cfg)
    BY DEF PromiseKept
  <1> DEFINE errors == BuildOne(cfg, p, world)
             t == ResolveProfile(cfg, p)
             stray == \E b \in Elems(t.body) : b.transform # "limit"
  <1>1. IsProfile(p)
    BY DEF IsDocument, Profiles, Elems
  <1>2. errors \subseteq {"pattern", "layer", "judge_scope", "judge_key"}
            \cup Flag(stray, "unimplemented") \cup BuildSecrets(t, world)
    BY <1>1, ValidIs, BuildOfValid
  <1>3. BuildSecrets(t, world) \subseteq {"secrets"}
    BY DEF BuildSecrets, Flag
  <1>4. ConfigCheck(cfg, world) => BuildSecrets(t, world) = {}
    BY DEF ConfigCheck
  <1>5. ASSUME "unimplemented" \in errors, p.transforms = << >>
        PROVE  "unimplemented" \in Warnings(cfg)
    <2> HIDE DEF errors
    <2>1. stray
      BY <1>2, <1>3, <1>5 DEF Flag
    <2>2. t = p.inline
      BY <1>5 DEF ResolveProfile
    <2>3. Flag(\E b \in Elems(p.inline.body) : b.transform # "limit", "unimplemented") = {"unimplemented"}
      BY <2>1, <2>2 DEF Flag
    <2>4. "unimplemented" \in ProfileWarnings(p)
      BY <2>3 DEF ProfileWarnings
    <2> QED
      BY <2>4 DEF Warnings
  <1> HIDE DEF errors, t, stray
  <1>6. Flag(stray, "unimplemented") \subseteq {"unimplemented"}
    BY DEF Flag
  <1>7. errors \cap Promised = {}
    BY <1>2, <1>3, <1>6 DEF Promised
  <1>8. ConfigCheck(cfg, world) => "secrets" \notin errors
    BY <1>2, <1>4, <1>6
  <1> QED
    BY <1>5, <1>7, <1>8 DEF errors

\* What NothingListedIsLost says of one.
Keeps(t, bundle) ==
    /\ \A f \in Unmergeable : bundle[f] # {} => t[f] = bundle[f]
    /\ Elems(bundle.secrets) \subseteq Elems(t.secrets)
    /\ Elems(bundle.body) \subseteq Elems(t.body)
    /\ \A h \in DOMAIN bundle.set : h \in DOMAIN t.set

Whole(cfg) ==
    \A p \in Profiles(cfg) : \A n \in Elems(p.transforms) :
        Keeps(ResolveProfile(cfg, p), cfg.transforms[n])

\* A set of numbers up to n that has no two elements.
LEMMA AtMostOne ==
    ASSUME NEW n \in Nat, NEW S \in SUBSET (1 .. n), ~(Cardinality(S) > 1), NEW i \in S, NEW j \in S
    PROVE  i = j
  <1>1. IsFiniteSet(S)
    <2>1. IsFiniteSet(1 .. n)
      BY FS_Interval
    <2> QED
      BY <2>1, FS_Subset
  <1>2. SUFFICES ASSUME i # j PROVE FALSE
    OBVIOUS
  <1>3. IsFiniteSet(S \ {i}) /\ Cardinality(S \ {i}) = Cardinality(S) - 1
    BY <1>1, FS_RemoveElement
  <1>4. Cardinality(S \ {i}) \in Nat /\ Cardinality(S) \in Nat
    BY <1>1, <1>3, FS_CardinalityType
  <1>5. Cardinality(S \ {i}) = 0
    BY <1>3, <1>4
  <1>6. S \ {i} = {}
    BY <1>3, <1>5, FS_EmptySet
  <1> QED
    BY <1>2, <1>6

LEMMA ValidIsWhole ==
    ASSUME NEW cfg, IsDocument(cfg), Validate(cfg) = {}
    PROVE  Whole(cfg)
  <1> SUFFICES ASSUME NEW p \in Profiles(cfg), NEW i \in DOMAIN p.transforms
               PROVE  Keeps(ResolveProfile(cfg, p), cfg.transforms[p.transforms[i]])
    BY DEF Whole, Elems
  <1> DEFINE t == ResolveProfile(cfg, p)
             b == Listed(cfg, p)
             n == Len(p.transforms)
             bundle == cfg.transforms[p.transforms[i]]
  <1>1. IsProfile(p) /\ CheckProfile(cfg, p) = {}
    BY ValidIs DEF IsDocument, Profiles, Elems
  <1>2. /\ n \in Nat /\ DOMAIN b = 1 .. n /\ DOMAIN p.transforms = 1 .. n
        /\ b \in Seq(Elems(b)) /\ bundle = b[i]
        /\ \A j \in DOMAIN b : b[j] = cfg.transforms[p.transforms[j]]
    BY <1>1, ListedIs
  <1>3. \A j \in DOMAIN b : p.transforms[j] \in DOMAIN cfg.transforms
    BY <1>1, <1>2, ValidList DEF Elems
  <1>4. p.transforms # << >>
    OBVIOUS
  <1>5. t = [headers     |-> Latest(b, "headers"),
             set         |-> MergedHeaders(b),
             secrets     |-> Concatenated(b, "secrets"),
             router      |-> Latest(b, "router"),
             respHeaders |-> Latest(b, "respHeaders"),
             body        |-> Concatenated(b, "body")]
    BY <1>4 DEF ResolveProfile
  <1>6. \A j \in DOMAIN b : IsTransforms(b[j])
    BY <1>2, <1>3 DEF IsDocument
  <1>7. \A f \in Unmergeable : ~(Cardinality(Setting(cfg, p, f)) > 1)
    BY <1>1, <1>4, ValidList
  <1>8. \A f \in Unmergeable :
           /\ Setting(cfg, p, f) \in SUBSET (1 .. n)
           /\ \A j \in DOMAIN b : b[j][f] # {} => j \in Setting(cfg, p, f)
    BY <1>2, <1>3 DEF Setting
  <1> HIDE DEF t, b, bundle, n
  <1>9. ASSUME NEW f \in Unmergeable, bundle[f] # {} PROVE t[f] = bundle[f]
    <2>1. i \in DOMAIN b /\ b[i][f] # {}
      BY <1>2, <1>9
    <2>2. PICK j \in DOMAIN b : b[j][f] # {} /\ Latest(b, f) = b[j][f]
      BY <1>2, <2>1, LatestIs
    <2>3. i = j
      <3> DEFINE S == Setting(cfg, p, f)
      <3>1. S \in SUBSET (1 .. n) /\ ~(Cardinality(S) > 1) /\ i \in S /\ j \in S
        BY <1>7, <1>8, <2>1, <2>2
      <3> HIDE DEF S
      <3> QED
        BY <1>2, <3>1, AtMostOne
    <2>4. t[f] = Latest(b, f)
      BY <1>5 DEF Unmergeable
    <2> QED
      BY <1>2, <2>2, <2>3, <2>4
  <1>10. ASSUME NEW f \in {"secrets", "body"}
         PROVE  Elems(bundle[f]) \subseteq Elems(t[f])
    <2>1. \A j \in DOMAIN b : b[j][f] \in Seq(Elems(b[j][f]))
      BY <1>6 DEF IsTransforms
    <2>2. Elems(b[i][f]) \subseteq Elems(Concatenated(b, f))
      BY <1>2, <2>1, ConcatenatedHas
    <2>3. t[f] = Concatenated(b, f)
      BY <1>5
    <2> QED
      BY <1>2, <2>2, <2>3
  <1>11. \A h \in DOMAIN bundle.set : h \in DOMAIN t.set
    <2>2. t.set = MergedHeaders(b) /\ i \in DOMAIN b
      BY <1>2, <1>5
    <2>3. DOMAIN b[i].set \subseteq DOMAIN MergedHeaders(b)
      BY <2>2, MergedNames
    <2> QED
      BY <1>2, <2>2, <2>3
  <1> QED
    BY <1>9, <1>10, <1>11 DEF t, bundle, Keeps

-----------------------------------------------------------------------------
(* What is loaded, built and in force. *)

Parsed(cfg) == IsDocument(cfg) /\ DOMAIN cfg.profiles \subseteq Elems(Names)

Approved(cfg) == Parsed(cfg) /\ Validate(cfg) = {}

\* The keys of a profile's judges are among what is known, kn, as far as the
\* environment with the env file's variables, o, has them.
Taught(p, o, kn) ==
    \A l \in Elems(p.policy) : l.layer = "judge" /\ l.dialect = "systemone" =>
        \A k \in l.key : k \in ProcessEnv \cup o => <<k, 0>> \in kn

\* What may be put in force.
Ready(cfg, o, kn) ==
    /\ Approved(cfg)
    /\ Fallback(cfg, Override) \subseteq DOMAIN cfg.profiles
    /\ \A p \in Profiles(cfg) : Taught(p, o, kn)

IsJob(j) == j = [at |-> j.at, cfg |-> j.cfg, dir |-> j.dir, left |-> j.left, why |-> j.why]

\* A builder, by where it is.
JobOk(j, o, kn) ==
    /\ IsJob(j)
    /\ j.at \in {"idle", "base", "dirs", "validate", "build", "swap"}
    /\ j.dir \in 0 .. 5
    /\ j.at = "dirs" => j.dir \in 1 .. 4
    /\ j.at = "validate" => j.dir = 5
    /\ j.at \in {"dirs", "validate"} => Parsed(j.cfg)
    /\ j.at = "build" =>
          /\ Approved(j.cfg)
          /\ j.left \subseteq DOMAIN j.cfg.profiles
          /\ j.dir = 0 => Taught(j.cfg.profile, o, kn)
          /\ \A n \in DOMAIN j.cfg.profiles \ j.left : Taught(j.cfg.profiles[n], o, kn)
    /\ j.at = "swap" => Ready(j.cfg, o, kn)

Jobs == DOMAIN job = Builders /\ \A b \in Builders : JobOk(job[b], overlay, known)

Single(S) == \A x, y \in S : x = y

InForce ==
    /\ Single(runtime) /\ Single(startup)
    /\ proc \in {"down", "starting"} => runtime = {} /\ startup = {}
    /\ \A cfg \in runtime : Ready(cfg, overlay, known)

Reloaded == {r \in Reloads : told[r] = "reloaded"}

Counts ==
    /\ edits \in 0 .. MaxEdits /\ starts \in 0 .. MaxStarts
    /\ value \in [Paths0 -> Nat] /\ \A p \in Paths0 : value[p] <= edits
    /\ persists \in BOOLEAN
    /\ generation <= Cardinality(Reloaded)
    /\ \A p \in DOMAIN cached : Single(cached[p])

Build == Jobs /\ InForce /\ Counts

\* The fields of a builder, and of one made from it.
LEMMA JobFields ==
    ASSUME NEW J, IsJob(J)
    PROVE  /\ DOMAIN J = {"at", "cfg", "dir", "left", "why"}
           /\ \A j : DOMAIN j = DOMAIN J /\ j = [f \in DOMAIN j |-> j[f]] => IsJob(j)
  BY DEF IsJob

\* What is known does not become less, so it stays enough.
LEMMA TaughtStays ==
    ASSUME NEW p, NEW o, NEW kn, NEW kk, kn \subseteq kk, Taught(p, o, kn)
    PROVE  Taught(p, o, kk)
  BY DEF Taught

LEMMA ReadyStays ==
    ASSUME NEW cfg, NEW o, NEW kn, NEW kk, kn \subseteq kk, Ready(cfg, o, kn)
    PROVE  Ready(cfg, o, kk)
  BY TaughtStays DEF Ready

LEMMA JobStays ==
    ASSUME NEW j, NEW o, NEW kn, NEW kk, kn \subseteq kk, JobOk(j, o, kn)
    PROVE  JobOk(j, o, kk)
  <1>1. j.at = "swap" => Ready(j.cfg, o, kk)
    BY ReadyStays DEF JobOk
  <1>2. j.at = "build" =>
          /\ j.dir = 0 => Taught(j.cfg.profile, o, kk)
          /\ \A n \in DOMAIN j.cfg.profiles \ j.left : Taught(j.cfg.profiles[n], o, kk)
    BY TaughtStays DEF JobOk
  <1> QED
    BY <1>1, <1>2 DEF JobOk

\* A builder that does nothing, or has only begun, relies on nothing.
LEMMA IdleOk ==
    ASSUME NEW o, NEW kn, NEW why
    PROVE  /\ JobOk(Idle, o, kn)
           /\ JobOk([Idle EXCEPT !.at = "base"], o, kn)
           /\ JobOk([Idle EXCEPT !.why = why], o, kn)
  BY DEF JobOk, IsJob, Idle

\* One builder goes on, and more may be known.
LEMMA MoveJobs ==
    ASSUME Jobs, NEW b \in Builders, NEW j, Goes(b, j), JobOk(j, overlay, known'),
           overlay' = overlay, known \subseteq known'
    PROVE  Jobs'
  <1>1. DOMAIN job' = Builders
    BY DEF Jobs, Goes
  <1>2. ASSUME NEW c \in Builders PROVE JobOk(job'[c], overlay, known')
    <2>1. CASE c = b
      BY <2>1 DEF Jobs, Goes
    <2>2. CASE c # b
      <3>1. job'[c] = job[c] /\ JobOk(job[c], overlay, known)
        BY <2>2 DEF Jobs, Goes
      <3> QED
        BY <3>1, JobStays
    <2> QED
      BY <2>1, <2>2
  <1> QED
    BY <1>1, <1>2 DEF Jobs

LEMMA SameJobs ==
    ASSUME Jobs, UNCHANGED <<job, overlay>>, known \subseteq known'
    PROVE  Jobs'
  <1>1. \A b \in Builders : JobOk(job[b], overlay, known')
    BY JobStays DEF Jobs
  <1> QED
    BY <1>1 DEF Jobs

LEMMA SameForce ==
    ASSUME InForce, UNCHANGED <<runtime, startup, proc, overlay>>, known \subseteq known'
    PROVE  InForce'
  <1>1. \A cfg \in runtime : Ready(cfg, overlay, known')
    BY ReadyStays DEF InForce
  <1> QED
    BY <1>1 DEF InForce

LEMMA SameCounts ==
    ASSUME Counts, UNCHANGED <<value, persists, generation, cached, told, edits, starts>>
    PROVE  Counts'
  BY DEF Counts, Reloaded

\* An answer that is no success leaves the successes as they are.
LEMMA AnswerCounts ==
    ASSUME Counts, IInv, NEW r \in Reloads, NEW a \in Answer \ {"reloaded"}, told[r] = "none",
           told' = [told EXCEPT ![r] = a],
           UNCHANGED <<value, persists, generation, cached, edits, starts>>
    PROVE  Counts'
  <1>1. Reloaded' = Reloaded
    BY DEF Reloaded, IInv, Shape, Answer
  <1> QED
    BY <1>1 DEF Counts

\* The end of the process.
LEMMA GoneBuild ==
    ASSUME Build, IInv, Gone, UNCHANGED <<value, told, edits, starts>>
    PROVE  Build'
  <1>1. Jobs'
    <2>1. job' = [b \in Builders |-> Idle]
      BY DEF Gone
    <2>2. \A b \in Builders : JobOk(Idle, overlay', known')
      BY IdleOk
    <2> QED
      BY <2>1, <2>2 DEF Jobs
  <1>2. InForce'
    BY DEF Gone, InForce, Single
  <1>3. Counts'
    <2>1. generation' = 0 /\ persists' = FALSE /\ cached' = [p \in Places0 |-> {}]
      BY DEF Gone
    <2>2. Cardinality(Reloaded) \in Nat
      <3>1. IsFiniteSet(Reloaded)
        BY ReloadsAssumption, FS_Subset DEF Reloaded
      <3> QED
        BY <3>1, FS_CardinalityType
    <2>3. Reloaded' = Reloaded
      BY DEF Reloaded
    <2>4. \A p \in DOMAIN cached' : Single(cached'[p])
      BY <2>1 DEF Single
    <2>5. generation' <= Cardinality(Reloaded')
      BY <2>1, <2>2, <2>3
    <2>6. /\ edits' \in 0 .. MaxEdits /\ starts' \in 0 .. MaxStarts /\ persists' \in BOOLEAN
          /\ value' \in [Paths0 -> Nat] /\ \A p \in Paths0 : value'[p] <= edits'
      BY <2>1 DEF Counts, Build
    <2> QED
      BY <2>4, <2>5, <2>6 DEF Counts
  <1> QED
    BY <1>1, <1>2, <1>3 DEF Build

LEMMA FailsBuild ==
    ASSUME Build, IInv, NEW b \in Builders, job[b].at # "idle", NEW why, Fails(b, why)
    PROVE  Build'
  <1>1. CASE b = "startup"
    BY <1>1, GoneBuild DEF Fails
  <1>2. CASE b # "startup"
    <2>1. b \in Reloads /\ told[b] = "none"
      BY <1>2 DEF Builders, IInv, Asked
    <2>2. /\ Goes(b, [Idle EXCEPT !.why = why])
          /\ told' = [told EXCEPT ![b] = "rejected"]
          /\ UNCHANGED <<disk, value, proc, overlay, persists, runtime, startup, generation,
                         known, cached, edits, starts>>
      BY <1>2 DEF Fails
    <2>3. Jobs'
      BY <2>2, IdleOk, MoveJobs DEF Build
    <2>4. InForce'
      BY <2>2, SameForce DEF Build
    <2>5. Counts'
      <3>1. "rejected" \in Answer \ {"reloaded"}
        BY DEF Answer
      <3> QED
        BY <2>1, <2>2, <3>1, AnswerCounts DEF Build
    <2> QED
      BY <2>3, <2>4, <2>5 DEF Build
  <1> QED
    BY <1>1, <1>2

LEMMA JobOnlyBuild ==
    ASSUME Build, NEW b \in Builders, NEW j, JobOnly(b, j), JobOk(j, overlay, known)
    PROVE  Build'
  <1>1. Goes(b, j) /\ UNCHANGED <<disk, value, proc, overlay, persists, runtime, startup, generation,
                                  known, cached, told, edits, starts>>
    BY DEF JobOnly
  <1>2. Jobs'
    BY <1>1, MoveJobs DEF Build
  <1>3. InForce' /\ Counts'
    BY <1>1, SameForce, SameCounts DEF Build
  <1> QED
    BY <1>2, <1>3 DEF Build

\* A file that is read is parsed, and what it is merged into stays a document.
LEMMA BaseIs ==
    ASSUME disk \in Revisions, disk.base # {}
    PROVE  Parsed(CHOOSE c \in disk.base : TRUE)
  <1>1. (CHOOSE c \in disk.base : TRUE) \in disk.base
    OBVIOUS
  <1> QED
    BY <1>1, RevisionsAssumption DEF Parsed

LEMMA MergeIs ==
    ASSUME NEW cfg, Parsed(cfg), disk \in Revisions,
           NEW d \in {"profiles", "bundles", "bind_groups", "transforms"}, ~Garbled(disk[d])
    PROVE  Parsed(Merge(cfg, d, disk[d]))
  <1> DEFINE files == disk[d]
             values == [n \in DOMAIN files |-> CHOOSE v \in files[n] : TRUE]
             m == Merge(cfg, d, files)
  <1>1. \A n \in DOMAIN files : values[n] \in files[n]
    BY DEF Garbled
  <1>2. /\ {"profile", "profiles", "bundles", "bind_groups", "transforms", "state_dir"} \subseteq DOMAIN cfg
        /\ cfg.state_dir \in BOOLEAN
        /\ IsProfile(cfg.profile)
        /\ \A n \in DOMAIN cfg.profiles : IsProfile(cfg.profiles[n])
        /\ \A n \in DOMAIN cfg.transforms : IsTransforms(cfg.transforms[n])
        /\ DOMAIN cfg.profiles \subseteq Elems(Names)
    BY DEF Parsed, IsDocument, Elems
  <1>3. SUFFICES /\ DOMAIN m = DOMAIN cfg
                 /\ m.state_dir = cfg.state_dir
                 /\ m.profile = cfg.profile
                 /\ \A n \in DOMAIN m.profiles : IsProfile(m.profiles[n])
                 /\ \A n \in DOMAIN m.transforms : IsTransforms(m.transforms[n])
                 /\ DOMAIN m.profiles \subseteq Elems(Names)
    <2> HIDE DEF m
    <2>1. \A p \in {m.profile} \cup Elems(m.profiles) :
             p = m.profile \/ \E n \in DOMAIN m.profiles : p = m.profiles[n]
      BY DEF Elems
    <2> QED
      BY <1>2, <1>3, <2>1 DEF Parsed, IsDocument, m
  <1>4. CASE d = "profiles"
    <2>1. m = [cfg EXCEPT !.profiles = values]
      BY <1>4 DEF Merge
    <2>2. DOMAIN values \subseteq Elems(Names) /\ \A n \in DOMAIN values : IsProfile(values[n])
      BY <1>1, <1>4, RevisionsAssumption
    <2> HIDE DEF values, m, files
    <2>3. /\ DOMAIN m = DOMAIN cfg /\ m.profiles = values /\ m.state_dir = cfg.state_dir
          /\ m.profile = cfg.profile /\ m.transforms = cfg.transforms
      BY <1>2, <2>1
    <2> QED
      BY <1>2, <2>2, <2>3
  <1>5. CASE d = "transforms"
    <2>1. m = [cfg EXCEPT !.transforms = values]
      BY <1>5 DEF Merge
    <2>2. \A n \in DOMAIN values : IsTransforms(values[n])
      BY <1>1, <1>5, RevisionsAssumption
    <2> HIDE DEF values, m, files
    <2>3. /\ DOMAIN m = DOMAIN cfg /\ m.transforms = values /\ m.state_dir = cfg.state_dir
          /\ m.profile = cfg.profile /\ m.profiles = cfg.profiles
      BY <1>2, <2>1
    <2> QED
      BY <1>2, <2>2, <2>3
  <1>6. CASE d \in {"bundles", "bind_groups"}
    <2>1. \/ \E v : m = [cfg EXCEPT !.bundles = v]
          \/ \E v : m = [cfg EXCEPT !.bind_groups = v]
      BY <1>6 DEF Merge
    <2> HIDE DEF values, m, files
    <2>2. ASSUME NEW f \in {"bundles", "bind_groups"}, NEW v, m = [cfg EXCEPT ![f] = v]
          PROVE  /\ DOMAIN m = DOMAIN cfg /\ m.transforms = cfg.transforms
                 /\ m.state_dir = cfg.state_dir
                 /\ m.profile = cfg.profile /\ m.profiles = cfg.profiles
      <3>1. \A x \in DOMAIN cfg : x # f => m[x] = cfg[x]
        BY <2>2
      <3> QED
        BY <1>2, <2>2, <3>1
    <2>3. /\ DOMAIN m = DOMAIN cfg /\ m.transforms = cfg.transforms /\ m.state_dir = cfg.state_dir
          /\ m.profile = cfg.profile /\ m.profiles = cfg.profiles
      BY <2>1, <2>2
    <2> QED
      BY <1>2, <2>3
  <1> QED
    BY <1>4, <1>5, <1>6

\* What is learned of a profile are the keys of its judges.
LEMMA KeysAre ==
    ASSUME overlay \subseteq EnvFile, NEW p, NEW l \in Elems(p.policy),
           l.layer = "judge", l.dialect = "systemone", NEW k \in l.key, k \in ProcessEnv \cup overlay
    PROVE  k \in JudgeKeys(p, World) /\ ValueAt(k) = <<k, 0>>
  <1>1. World.vars = ProcessEnv \cup overlay
    BY DEF World
  <1>2. k \in UNION {m.key : m \in {n \in Elems(p.policy) : n.layer = "judge" /\ n.dialect = "systemone"}}
    OBVIOUS
  <1>3. k \notin Paths0
    BY PlacesAssumption
  <1> QED
    BY <1>1, <1>2, <1>3 DEF JudgeKeys, ValueAt

LEMMA LearnTaught ==
    ASSUME overlay \subseteq EnvFile, NEW p, Learn(p)
    PROVE  Taught(p, overlay, known') /\ known \subseteq known'
  <1>1. known' = known \cup {ValueAt(k) : k \in JudgeKeys(p, World)}
    BY DEF Learn
  <1>2. ASSUME NEW l \in Elems(p.policy), l.layer = "judge", l.dialect = "systemone",
               NEW k \in l.key, k \in ProcessEnv \cup overlay
        PROVE  <<k, 0>> \in known'
    <2>1. k \in JudgeKeys(p, World) /\ ValueAt(k) = <<k, 0>>
      BY <1>2, KeysAre
    <2> QED
      BY <1>1, <2>1
  <1> QED
    BY <1>1, <1>2 DEF Taught

\* And all that the property asks of a profile in force.
LEMMA TaughtIs ==
    ASSUME overlay \subseteq EnvFile, NEW p, Taught(p, overlay, known), NEW k \in JudgeKeys(p, World)
    PROVE  ValueAt(k) \in known
  <1>1. k \in ProcessEnv \cup overlay
    BY DEF JudgeKeys, World
  <1>2. PICK l \in Elems(p.policy) : l.layer = "judge" /\ l.dialect = "systemone" /\ k \in l.key
    BY DEF JudgeKeys
  <1>3. ValueAt(k) = <<k, 0>>
    BY <1>1, <1>2, KeysAre
  <1> QED
    BY <1>1, <1>2, <1>3 DEF Taught

\* The name whose turn it is is one of those left.
LEMMA FirstIs ==
    ASSUME NEW left, left # {}, left \subseteq Elems(Names)
    PROVE  FirstOf(left) \in left
  <1> DEFINE S == {i \in DOMAIN Names : Names[i] \in left}
             n == Len(Names)
  <1>1. n \in Nat /\ DOMAIN Names = 1 .. n
    BY NamesAssumption
  <1>2. S \in SUBSET (1 .. n) /\ S # {}
    BY <1>1 DEF Elems
  <1>3. PICK i \in S : \A j \in 1 .. i - 1 : j \notin S
    BY <1>1, <1>2, FirstExists
  <1>4. i \in DOMAIN Names /\ Names[i] \in left /\ \A j \in 1 .. i - 1 : Names[j] \notin left
    <2>1. i \in 1 .. n
      BY <1>2
    <2>2. \A j \in 1 .. i - 1 : j \in DOMAIN Names
      BY <1>1, <2>1
    <2> QED
      BY <1>3, <2>2
  <1> DEFINE c == CHOOSE k \in DOMAIN Names : Names[k] \in left /\ \A j \in 1 .. k - 1 : Names[j] \notin left
  <1>5. Names[c] \in left
    BY <1>4
  <1> QED
    BY <1>5 DEF FirstOf

LEMMA ReadBaseBuild ==
    ASSUME Build, IInv, NEW b \in Builders, ReadBase(b)
    PROVE  Build'
  <1>1. job[b].at = "base"
    BY DEF ReadBase, At
  <1>2. CASE disk.base = {}
    BY <1>1, <1>2, FailsBuild DEF ReadBase
  <1>3. CASE disk.base # {}
    <2> DEFINE c == CHOOSE d \in disk.base : TRUE
               j == [job[b] EXCEPT !.at = "dirs", !.dir = 1, !.cfg = c]
    <2>1. Parsed(c)
      BY <1>3, BaseIs DEF IInv, Shape
    <2>2. JobOnly(b, j)
      BY <1>3 DEF ReadBase
    <2>3. JobOk(job[b], overlay, known)
      BY DEF Build, Jobs
    <2> HIDE DEF c
    <2>4. JobOk(j, overlay, known)
      <3>1. DOMAIN job[b] = {"at", "cfg", "dir", "left", "why"}
        BY <2>3, JobFields DEF JobOk
      <3>2. j.at = "dirs" /\ j.dir = 1 /\ j.cfg = c
        BY <3>1
      <3>3. IsJob(j)
        BY <2>3, <3>1, JobFields DEF JobOk
      <3> HIDE DEF j
      <3> QED
        BY <2>1, <3>2, <3>3 DEF JobOk
    <2> HIDE DEF j
    <2> QED
      BY <2>2, <2>4, JobOnlyBuild
  <1> QED
    BY <1>2, <1>3

LEMMA ReadDirBuild ==
    ASSUME Build, IInv, NEW b \in Builders, ReadDir(b)
    PROVE  Build'
  <1> DEFINE d == Dirs[job[b].dir]
             cfg == Merge(job[b].cfg, d, disk[d])
  <1>1. job[b].at = "dirs"
    BY DEF ReadDir, At
  <1>2. CASE Garbled(disk[d]) \/ Duplicate(job[b].cfg, d, disk[d])
    BY <1>1, <1>2, FailsBuild DEF ReadDir
  <1>3. CASE ~(Garbled(disk[d]) \/ Duplicate(job[b].cfg, d, disk[d]))
    <2> DEFINE j == [job[b] EXCEPT !.cfg = Merge(@, d, disk[d]), !.dir = @ + 1,
                                   !.at = IF job[b].dir = Len(Dirs) THEN "validate" ELSE @]
    <2>1. JobOnly(b, j)
      BY <1>3 DEF ReadDir
    <2>2. JobOk(job[b], overlay, known)
      BY DEF Build, Jobs
    <2>3. job[b].dir \in 1 .. 4 /\ Parsed(job[b].cfg)
      BY <1>1, <2>2 DEF JobOk
    <2>4. Len(Dirs) = 4 /\ d \in {"profiles", "bundles", "bind_groups", "transforms"}
      BY <2>3 DEF Dirs
    <2>5. Parsed(cfg)
      <3> HIDE DEF d
      <3> QED
        BY <1>3, <2>3, <2>4, MergeIs DEF IInv, Shape
    <2>6. /\ j.at = (IF job[b].dir = 4 THEN "validate" ELSE "dirs")
          /\ j.dir = job[b].dir + 1 /\ j.cfg = cfg /\ IsJob(j)
      <3> HIDE DEF d
      <3>1. DOMAIN job[b] = {"at", "cfg", "dir", "left", "why"}
        BY <2>2, JobFields DEF JobOk
      <3>2. IsJob(j)
        BY <2>2, <3>1, JobFields DEF JobOk
      <3> QED
        BY <1>1, <2>4, <3>1, <3>2
    <2> HIDE DEF j, cfg, d
    <2>7. JobOk(j, overlay, known)
      <3>1. CASE job[b].dir = 4
        <4>1. j.at = "validate" /\ j.dir = 5
          BY <2>6, <3>1
        <4> QED
          BY <2>5, <2>6, <4>1 DEF JobOk
      <3>2. CASE job[b].dir # 4
        <4>1. j.at = "dirs" /\ j.dir \in 1 .. 4
          BY <2>3, <2>6, <3>2
        <4> QED
          BY <2>5, <2>6, <4>1 DEF JobOk
      <3> QED
        BY <3>1, <3>2
    <2> QED
      BY <2>1, <2>7, JobOnlyBuild
  <1> QED
    BY <1>2, <1>3

\* Nothing is known of a profile when the building begins.
LEMMA AcceptBuild ==
    ASSUME Build, IInv, NEW b \in Builders, Accept(b)
    PROVE  Build'
  <1> DEFINE cfg == job[b].cfg
             j == [job[b] EXCEPT !.at = "build", !.left = DOMAIN cfg.profiles]
  <1>1. job[b].at = "validate"
    BY DEF Accept, At
  <1>2. CASE Fails(b, {"validate"})
    BY <1>1, <1>2, FailsBuild
  <1>3. CASE ~Fails(b, {"validate"})
    <2>1. /\ Validate(cfg) = {}
          /\ persists' = (IF b = "startup" THEN cfg.state_dir ELSE persists)
          /\ Goes(b, j)
          /\ UNCHANGED <<disk, value, proc, overlay, runtime, startup, generation,
                         known, cached, told, edits, starts>>
      BY <1>3 DEF Accept
    <2>2. JobOk(job[b], overlay, known)
      BY DEF Build, Jobs
    <2>3. Approved(cfg)
      BY <1>1, <2>1, <2>2 DEF JobOk, Approved
    <2>4. persists' \in BOOLEAN
      BY <2>1, <2>3 DEF Build, Counts, Approved, Parsed, IsDocument
    <2>5. j.at = "build" /\ j.dir = 5 /\ j.cfg = cfg /\ j.left = DOMAIN cfg.profiles /\ IsJob(j)
      <3>1. DOMAIN job[b] = {"at", "cfg", "dir", "left", "why"} /\ job[b].dir = 5
        BY <1>1, <2>2, JobFields DEF JobOk
      <3>2. IsJob(j)
        BY <2>2, <3>1, JobFields DEF JobOk
      <3> QED
        BY <3>1, <3>2
    <2>6. JobOk(j, overlay, known)
      <3> HIDE DEF j, cfg
      <3> QED
        BY <2>3, <2>5 DEF JobOk
    <2> HIDE DEF j
    <2>7. Jobs'
      BY <2>1, <2>6, MoveJobs DEF Build
    <2>8. InForce'
      BY <2>1, SameForce DEF Build
    <2>9. Counts'
      BY <2>1, <2>4 DEF Build, Counts, Reloaded
    <2> QED
      BY <2>7, <2>8, <2>9 DEF Build
  <1> QED
    BY <1>2, <1>3

\* One profile is built, and its judges' keys are learned.
LEMMA BuildProfileBuild ==
    ASSUME Build, IInv, NEW b \in Builders, BuildProfile(b)
    PROVE  Build'
  <1> DEFINE errors == BuildOne(job[b].cfg, Profile(b), World)
             J == job[b]
             j == [job[b] EXCEPT !.dir = 0,
                                 !.left = IF job[b].dir = 0 THEN @ \ {FirstOf(@)} ELSE @]
  <1>1. J.at = "build" /\ (J.dir # 0 \/ J.left # {})
    BY DEF BuildProfile, At
  <1>2. CASE errors # {} /\ b = "startup"
    BY <1>1, <1>2, FailsBuild DEF BuildProfile
  <1>3. CASE ~(errors # {} /\ b = "startup")
    <2>1. /\ Learn(Profile(b))
          /\ UNCHANGED <<disk, value, proc, overlay, persists, runtime, startup,
                         generation, cached, edits, starts>>
      BY <1>3 DEF BuildProfile
    <2>2. Taught(Profile(b), overlay, known') /\ known \subseteq known'
      BY <2>1, LearnTaught DEF IInv, Shape
    <2>3. InForce'
      BY <2>1, <2>2, SameForce DEF Build
    <2>4. CASE errors # {}
      <3>1. /\ Goes(b, [Idle EXCEPT !.why = errors])
            /\ told' = [told EXCEPT ![b] = "rejected"]
        BY <1>3, <2>4 DEF BuildProfile
      <3>2. b \in Reloads
        BY <1>3, <2>4 DEF Builders
      <3> HIDE DEF errors
      <3>3. Jobs'
        BY <2>1, <2>2, <3>1, IdleOk, MoveJobs DEF Build
      <3>4. Counts'
        <4>1. "rejected" \in Answer \ {"reloaded"} /\ told[b] = "none"
          BY <1>1, <3>2 DEF Answer, IInv, Asked
        <4> QED
          BY <2>1, <3>1, <3>2, <4>1, AnswerCounts DEF Build
      <3> QED
        BY <2>3, <3>3, <3>4 DEF Build
    <2>5. CASE errors = {}
      <3>1. Goes(b, j) /\ UNCHANGED told
        BY <1>3, <2>5 DEF BuildProfile
      <3> HIDE DEF errors
      <3>2. JobOk(J, overlay, known)
        BY DEF Build, Jobs
      <3>3. /\ Approved(J.cfg) /\ J.left \subseteq DOMAIN J.cfg.profiles
            /\ J.dir = 0 => Taught(J.cfg.profile, overlay, known')
            /\ \A n \in DOMAIN J.cfg.profiles \ J.left : Taught(J.cfg.profiles[n], overlay, known')
        BY <1>1, <2>2, <3>2, TaughtStays DEF JobOk
      <3>4. CASE J.dir # 0
        <4>1. Taught(J.cfg.profile, overlay, known')
          BY <2>2, <3>4 DEF Profile
        <4>2. j = [J EXCEPT !.dir = 0]
          BY <3>2, <3>4 DEF JobOk
        <4> HIDE DEF j
        <4>3. JobOk(j, overlay, known')
          BY <1>1, <3>2, <3>3, <4>1, <4>2 DEF JobOk, IsJob
        <4> QED
          BY <2>1, <2>2, <2>3, <3>1, <4>3, MoveJobs, SameCounts DEF Build
      <3>5. CASE J.dir = 0
        <4> DEFINE f == FirstOf(J.left)
        <4>1. Taught(J.cfg.profiles[f], overlay, known')
          BY <2>2, <3>5 DEF Profile
        <4>2. j = [J EXCEPT !.dir = 0, !.left = J.left \ {f}]
          BY <3>2, <3>5 DEF JobOk
        <4> HIDE DEF j, f
        <4>3. JobOk(j, overlay, known')
          BY <1>1, <3>2, <3>3, <3>5, <4>1, <4>2 DEF JobOk, IsJob
        <4> QED
          BY <2>1, <2>2, <2>3, <3>1, <4>3, MoveJobs, SameCounts DEF Build
      <3> QED
        BY <3>4, <3>5
    <2> QED
      BY <2>4, <2>5
  <1> QED
    BY <1>2, <1>3

\* With no profile left, the document may be put in force.
LEMMA FinishBuild ==
    ASSUME Build, IInv, NEW b \in Builders, Finish(b)
    PROVE  Build'
  <1> DEFINE cfg == job[b].cfg
             j == [job[b] EXCEPT !.at = "swap"]
             errors == BuildFallback(cfg, Override) \cup BuildIdentities(cfg, World)
                          \cup Flag(SecondLoad = {} \/ ~(SecondLoad \subseteq World.files), "ca")
                          \cup Flag(~cfg.passthrough, "passthrough")
  <1>1. job[b].at = "build" /\ job[b].dir = 0 /\ job[b].left = {}
    BY DEF Finish, At
  <1>2. CASE errors # {}
    BY <1>1, <1>2, FailsBuild DEF Finish
  <1>3. CASE errors = {}
    <2>1. JobOnly(b, j)
      BY <1>3 DEF Finish
    <2>2. BuildFallback(cfg, Override) = {}
      BY <1>3
    <2>3. Fallback(cfg, Override) \subseteq DOMAIN cfg.profiles
      BY <2>2, FlagIs DEF BuildFallback
    <2>4. JobOk(job[b], overlay, known)
      BY DEF Build, Jobs
    <2>5. /\ Approved(cfg) /\ Taught(cfg.profile, overlay, known)
          /\ \A n \in DOMAIN cfg.profiles : Taught(cfg.profiles[n], overlay, known)
      BY <1>1, <2>4 DEF JobOk
    <2>6. Ready(cfg, overlay, known)
      BY <2>3, <2>5 DEF Ready, Profiles
    <2>7. JobOk(j, overlay, known)
      BY <2>4, <2>6 DEF JobOk, IsJob
    <2> HIDE DEF j
    <2> QED
      BY <2>1, <2>7, JobOnlyBuild
  <1> QED
    BY <1>2, <1>3

LEMMA StepsBuild ==
    ASSUME Build, IInv, NEW b \in Builders, Steps(b)
    PROVE  Build'
  BY ReadBaseBuild, ReadDirBuild, AcceptBuild, BuildProfileBuild, FinishBuild DEF Steps

-----------------------------------------------------------------------------
(* The other steps.                                                        *)

\* While the process is down nobody builds, and a start is the first to.
LEMMA StartBuild ==
    ASSUME Build, IInv, Start
    PROVE  Build'
  <1>1. /\ proc = "down" /\ starts < MaxStarts /\ starts' = starts + 1
        /\ UNCHANGED <<disk, value, persists, runtime, startup, generation, known, cached,
                       told, edits>>
    BY DEF Start
  <1>2. Counts'
    <2>1. starts' \in 0 .. MaxStarts
      BY <1>1, BoundsAssumption DEF Build, Counts
    <2> QED
      BY <1>1, <2>1 DEF Build, Counts, Reloaded
  <1>3. runtime = {} /\ startup = {}
    BY <1>1 DEF Build, InForce
  <1>4. CASE LoadEnvFile = {}
    <2>1. UNCHANGED <<proc, overlay, job>>
      BY <1>4 DEF Start
    <2> QED
      BY <1>1, <1>2, <2>1, SameJobs, SameForce DEF Build
  <1>5. CASE LoadEnvFile # {}
    <2>1. /\ proc' = "starting" /\ overlay' = UNION LoadEnvFile
          /\ job' = [job EXCEPT !["startup"] = [Idle EXCEPT !.at = "base"]]
      BY <1>5 DEF Start
    <2>2. InForce'
      BY <1>1, <1>3, <2>1 DEF InForce, Single
    <2>3. ASSUME NEW b \in Builders PROVE JobOk(job'[b], overlay', known')
      <3>1. CASE b = "startup"
        BY <2>1, <3>1, IdleOk DEF Build, Jobs
      <3>2. CASE b # "startup"
        <4>1. b \in Reloads /\ job'[b] = job[b]
          BY <2>1, <3>2 DEF Build, Jobs, Builders
        <4>2. job[b].at = "idle"
          BY <1>1, <4>1 DEF IInv, Asked
        <4>3. JobOk(job[b], overlay, known)
          BY DEF Build, Jobs
        <4> QED
          BY <4>1, <4>2, <4>3 DEF JobOk
      <3> QED
        BY <3>1, <3>2
    <2>4. Jobs'
      BY <2>1, <2>3 DEF Build, Jobs
    <2> QED
      BY <1>2, <2>2, <2>4 DEF Build
  <1> QED
    BY <1>4, <1>5

LEMMA InstallBuild ==
    ASSUME Build, IInv, Install
    PROVE  Build'
  <1>1. /\ job["startup"].at = "swap"
        /\ proc' = "seeding"
        /\ runtime' = {job["startup"].cfg} /\ startup' = {job["startup"].cfg}
        /\ Goes("startup", Idle)
        /\ UNCHANGED <<disk, value, overlay, persists, generation, known, cached, told, edits, starts>>
    BY DEF Install, At, Goes
  <1>2. "startup" \in Builders
    BY DEF Builders
  <1>3. Ready(job["startup"].cfg, overlay, known)
    BY <1>1, <1>2 DEF Build, Jobs, JobOk
  <1>4. InForce'
    BY <1>1, <1>3 DEF InForce, Single
  <1>5. Jobs' /\ Counts'
    BY <1>1, <1>2, IdleOk, MoveJobs, SameCounts DEF Build
  <1> QED
    BY <1>4, <1>5 DEF Build

\* A source is resolved: it holds one value.
LEMMA CachedCounts ==
    ASSUME Counts, NEW place, cached' = [cached EXCEPT ![place] = {ValueAt(place)}],
           UNCHANGED <<value, persists, generation, told, edits, starts>>
    PROVE  Counts'
  <1>1. \A p \in DOMAIN cached' : Single(cached'[p])
    BY DEF Counts, Single
  <1>2. /\ edits' \in 0 .. MaxEdits /\ starts' \in 0 .. MaxStarts
        /\ value' \in [Paths0 -> Nat] /\ \A p \in Paths0 : value'[p] <= edits'
        /\ persists' \in BOOLEAN
        /\ generation' <= Cardinality(Reloaded')
    BY DEF Counts, Reloaded
  <1> QED
    BY <1>1, <1>2 DEF Counts

LEMMA SeedBuild ==
    ASSUME Build, Seed
    PROVE  Build'
  <1>1. PICK place : /\ cached' = [cached EXCEPT ![place] = {ValueAt(place)}]
                     /\ known' = known \cup {ValueAt(place)}
    BY DEF Seed
  <1>2. UNCHANGED <<disk, value, proc, overlay, persists, job, runtime, startup, generation,
                    told, edits, starts>>
    BY DEF Seed
  <1>3. Counts'
    BY <1>1, <1>2, CachedCounts DEF Build
  <1> QED
    BY <1>1, <1>2, <1>3, SameJobs, SameForce DEF Build

LEMMA ServeBuild ==
    ASSUME Build, IInv, Serve
    PROVE  Build'
  <1>1. CASE Gone /\ UNCHANGED <<disk, value, told, edits, starts>>
    BY <1>1, GoneBuild
  <1>2. CASE /\ proc' = "serving"
             /\ UNCHANGED <<disk, value, overlay, persists, job, runtime, startup, generation,
                            known, cached, told, edits, starts>>
    <2>1. InForce'
      BY <1>2 DEF Build, InForce, Single
    <2>2. Jobs' /\ Counts'
      BY <1>2, SameJobs, SameCounts DEF Build
    <2> QED
      BY <2>1, <2>2 DEF Build
  <1> QED
    BY <1>1, <1>2 DEF Serve

LEMMA InjectBuild ==
    ASSUME Build, NEW p \in Places0, Inject(p)
    PROVE  Build'
  <1>1. /\ cached' = [cached EXCEPT ![p] = {ValueAt(p)}]
        /\ UNCHANGED <<disk, value, proc, overlay, persists, job, runtime, startup, generation,
                       known, told, edits, starts>>
    BY DEF Inject
  <1>2. Counts'
    BY <1>1, CachedCounts DEF Build
  <1> QED
    BY <1>1, <1>2, SameJobs, SameForce DEF Build

LEMMA RequestBuild ==
    ASSUME Build, IInv, NEW r \in Reloads, NEW good \in BOOLEAN, ReloadRequest(r, good)
    PROVE  Build'
  <1>1. /\ told[r] = "none"
        /\ UNCHANGED <<disk, value, proc, overlay, persists, runtime, startup, generation,
                       known, cached, edits, starts>>
    BY DEF ReloadRequest
  <1>2. r \in Builders
    BY DEF Builders
  <1>3. InForce'
    BY <1>1, SameForce DEF Build
  <1>4. CASE Goes(r, [Idle EXCEPT !.at = "base"]) /\ UNCHANGED told
    <2>1. Jobs'
      BY <1>1, <1>2, <1>4, IdleOk, MoveJobs DEF Build
    <2>2. Counts'
      BY <1>1, <1>4, SameCounts DEF Build
    <2> QED
      BY <1>3, <2>1, <2>2 DEF Build
  <1>5. CASE told' = [told EXCEPT ![r] = "unauthorized"] /\ UNCHANGED job
    <2>1. "unauthorized" \in Answer \ {"reloaded"}
      BY DEF Answer
    <2>2. Counts'
      BY <1>1, <1>5, <2>1, AnswerCounts DEF Build
    <2>3. Jobs'
      BY <1>1, <1>5, SameJobs DEF Build
    <2> QED
      BY <1>3, <2>2, <2>3 DEF Build
  <1> QED
    BY <1>4, <1>5 DEF ReloadRequest

\* A reload succeeds, once: what is counted grows with those told so.
LEMMA SwapBuild ==
    ASSUME Build, IInv, NEW r \in Reloads, Swap(r)
    PROVE  Build'
  <1>1. /\ job[r].at = "swap"
        /\ runtime' = {job[r].cfg}
        /\ generation' = generation + 1
        /\ cached' = [p \in Places0 |-> {}]
        /\ told' = [told EXCEPT ![r] = "reloaded"]
        /\ Goes(r, Idle)
        /\ UNCHANGED <<disk, value, proc, overlay, persists, startup, known, edits, starts>>
    BY DEF Swap, At
  <1>2. r \in Builders
    BY DEF Builders
  <1>3. told[r] = "none" /\ proc = "serving"
    BY <1>1 DEF IInv, Asked
  <1>4. Ready(job[r].cfg, overlay, known)
    BY <1>1, <1>2 DEF Build, Jobs, JobOk
  <1>5. Jobs'
    BY <1>1, <1>2, IdleOk, MoveJobs DEF Build
  <1>6. InForce'
    BY <1>1, <1>3, <1>4 DEF Build, InForce, Single
  <1>7. generation' <= Cardinality(Reloaded')
    <2>1. IsFiniteSet(Reloaded)
      BY ReloadsAssumption, FS_Subset DEF Reloaded
    <2>2. Reloaded' = Reloaded \cup {r} /\ r \notin Reloaded
      BY <1>1, <1>3 DEF Reloaded, IInv, Shape
    <2>3. Cardinality(Reloaded') = Cardinality(Reloaded) + 1
      BY <2>1, <2>2, FS_AddElement
    <2>4. Cardinality(Reloaded) \in Nat /\ generation \in Nat /\ generation <= Cardinality(Reloaded)
      BY <2>1, FS_CardinalityType DEF IInv, Shape, Build, Counts
    <2> QED
      BY <1>1, <2>3, <2>4
  <1>8. \A p \in DOMAIN cached' : Single(cached'[p])
    BY <1>1 DEF Single
  <1>9. Counts'
    BY <1>1, <1>7, <1>8 DEF Build, Counts
  <1> QED
    BY <1>5, <1>6, <1>9 DEF Build

LEMMA EditBuild ==
    ASSUME Build, IInv, Edit
    PROVE  Build'
  <1>1. /\ edits < MaxEdits /\ edits' = edits + 1
        /\ UNCHANGED <<value, proc, overlay, persists, job, runtime, startup, generation,
                       known, cached, told, starts>>
    BY DEF Edit
  <1>2. edits' \in 0 .. MaxEdits /\ \A p \in Paths0 : value[p] <= edits'
    BY <1>1, BoundsAssumption DEF Build, Counts
  <1>3. Counts'
    BY <1>1, <1>2 DEF Build, Counts, Reloaded
  <1> QED
    BY <1>1, <1>3, SameJobs, SameForce DEF Build

LEMMA RotateBuild ==
    ASSUME Build, IInv, NEW p \in Paths0, Rotate(p)
    PROVE  Build'
  <1>1. /\ edits < MaxEdits /\ edits' = edits + 1
        /\ value' = [value EXCEPT ![p] = value[p] + 1]
        /\ UNCHANGED <<proc, overlay, persists, job, runtime, startup, generation,
                       known, cached, told, starts>>
    BY DEF Rotate
  <1>2. /\ edits' \in 0 .. MaxEdits /\ value' \in [Paths0 -> Nat]
        /\ \A q \in Paths0 : value'[q] <= edits'
    BY <1>1, BoundsAssumption DEF Build, Counts
  <1>3. Counts'
    BY <1>1, <1>2 DEF Build, Counts, Reloaded
  <1> QED
    BY <1>1, <1>3, SameJobs, SameForce DEF Build

LEMMA InitBuild == Init => Build
  <1> SUFFICES ASSUME Init PROVE Build
    OBVIOUS
  <1>1. Jobs
    BY IdleOk DEF Init, Jobs
  <1>2. InForce
    BY DEF Init, InForce, Single
  <1>3. Counts
    <2>1. IsFiniteSet(Reloaded)
      BY ReloadsAssumption, FS_Subset DEF Reloaded
    <2>2. Cardinality(Reloaded) \in Nat
      BY <2>1, FS_CardinalityType
    <2>3. generation <= Cardinality(Reloaded)
      BY <2>2 DEF Init
    <2>4. \A p \in DOMAIN cached : Single(cached[p])
      BY DEF Init, Single
    <2>5. value \in [Paths0 -> Nat] /\ \A p \in Paths0 : value[p] <= edits
      <3>1. value = [p \in Paths0 |-> 0] /\ edits = 0
        BY DEF Init
      <3> QED
        BY <3>1
    <2>6. edits \in 0 .. MaxEdits /\ starts \in 0 .. MaxStarts /\ persists \in BOOLEAN
      <3>1. edits = 0 /\ starts = 0 /\ persists = FALSE
        BY DEF Init
      <3>2. edits \in 0 .. MaxEdits /\ starts \in 0 .. MaxStarts
        BY <3>1, BoundsAssumption
      <3> QED
        BY <3>1, <3>2
    <2> QED
      BY <2>3, <2>4, <2>5, <2>6 DEF Counts
  <1> QED
    BY <1>1, <1>2, <1>3 DEF Build

LEMMA NextBuild == IInv /\ Build /\ [Next]_vars => Build'
  <1> SUFFICES ASSUME IInv, Build, [Next]_vars PROVE Build'
    OBVIOUS
  <1>1. ASSUME NEW p \in Paths0, Rotate(p) PROVE Build'
    BY <1>1, RotateBuild
  <1>2. ASSUME NEW b \in Builders, Steps(b) PROVE Build'
    BY <1>2, StepsBuild
  <1>3. ASSUME NEW p \in Places0, Inject(p) PROVE Build'
    BY <1>3, InjectBuild
  <1>4. ASSUME NEW r \in Reloads, NEW good \in BOOLEAN, ReloadRequest(r, good) PROVE Build'
    BY <1>4, RequestBuild
  <1>5. ASSUME NEW r \in Reloads, Swap(r) PROVE Build'
    BY <1>5, SwapBuild
  <1>6. CASE Stop
    BY <1>6, GoneBuild DEF Stop
  <1>7. CASE UNCHANGED vars
    BY <1>7, SameJobs, SameForce, SameCounts DEF vars, Build
  <1> QED
    BY <1>1, <1>2, <1>3, <1>4, <1>5, <1>6, <1>7, EditBuild, StartBuild, InstallBuild, SeedBuild,
       ServeBuild DEF Next

-----------------------------------------------------------------------------
(* What the invariant is for.                                              *)

LEMMA SingleIs ==
    ASSUME NEW S, Single(S)
    PROVE  Cardinality(S) <= 1
  <1>1. CASE S = {}
    BY <1>1, FS_EmptySet
  <1>2. CASE S # {}
    <2>1. PICK x \in S : TRUE
      BY <1>2
    <2>2. S = {x}
      BY <2>1 DEF Single
    <2> QED
      BY <2>2, FS_Singleton
  <1> QED
    BY <1>1, <1>2

LEMMA BuildTypeOK == IInv /\ Build => TypeOK
  <1> SUFFICES ASSUME IInv, Build PROVE TypeOK
    OBVIOUS
  <1>1. value \in [Paths0 -> 0 .. MaxEdits]
    BY BoundsAssumption DEF Build, Counts
  <1>2. generation \in 0 .. Cardinality(Reloads)
    <2>1. Reloaded \subseteq Reloads
      BY DEF Reloaded
    <2>2. Cardinality(Reloaded) <= Cardinality(Reloads)
      BY <2>1, ReloadsAssumption, FS_Subset
    <2>3. IsFiniteSet(Reloaded)
      BY <2>1, ReloadsAssumption, FS_Subset
    <2>4. Cardinality(Reloaded) \in Nat /\ Cardinality(Reloads) \in Nat
      BY <2>3, ReloadsAssumption, FS_CardinalityType
    <2>5. generation \in Nat /\ generation <= Cardinality(Reloaded)
      BY DEF IInv, Shape, Build, Counts
    <2> QED
      BY <2>2, <2>4, <2>5
  <1>3. DOMAIN job = Builders /\ \A b \in Builders :
            job[b].at \in {"idle", "base", "dirs", "validate", "build", "swap"}
               /\ job[b].dir \in 0 .. Len(Dirs) + 1
    <2>1. Len(Dirs) + 1 = 5
      BY DEF Dirs
    <2> QED
      BY <2>1 DEF Build, Jobs, JobOk
  <1>4. Cardinality(runtime) <= 1 /\ Cardinality(startup) <= 1
    BY SingleIs DEF Build, InForce
  <1>5. \A p \in DOMAIN cached : Cardinality(cached[p]) <= 1
    BY SingleIs DEF Build, Counts
  <1>6. /\ disk \in Revisions
        /\ proc \in {"down", "starting", "seeding", "serving"}
        /\ overlay \subseteq EnvFile
        /\ told \in [Reloads -> {"none", "unauthorized", "reloaded", "rejected"}]
    BY DEF IInv, Shape, Answer
  <1>7. edits \in 0 .. MaxEdits /\ starts \in 0 .. MaxStarts /\ persists \in BOOLEAN
    BY DEF Build, Counts
  <1> QED
    BY <1>1, <1>2, <1>3, <1>4, <1>5, <1>6, <1>7 DEF TypeOK

LEMMA BuildWhole == Build => NothingListedIsLost /\ RuntimeIsWhole
  <1> SUFFICES ASSUME Build, NEW cfg \in runtime
               PROVE  /\ \A p \in Profiles(cfg) : \A n \in Elems(p.transforms) :
                            Keeps(ResolveProfile(cfg, p), cfg.transforms[n])
                      /\ \A p \in Profiles(cfg) : p.default_action = "allow" => p.i_understand
                      /\ Fallback(cfg, Override) \subseteq DOMAIN cfg.profiles
                      /\ \A r \in Elems(cfg.resolvers) :
                            r.type # "run" => \A e \in Elems(r.map) : e.profile \in DOMAIN cfg.profiles
    BY DEF NothingListedIsLost, RuntimeIsWhole, Keeps
  <1>1. Ready(cfg, overlay, known)
    BY DEF Build, InForce
  <1>2. IsDocument(cfg) /\ Validate(cfg) = {} /\ Fallback(cfg, Override) \subseteq DOMAIN cfg.profiles
    BY <1>1 DEF Ready, Approved, Parsed
  <1>3. Whole(cfg)
    BY <1>2, ValidIsWhole
  <1>4. ASSUME NEW p \in Profiles(cfg), p.default_action = "allow" PROVE p.i_understand
    <2>1. CheckProfile(cfg, p) = {}
      BY <1>2, ValidIs
    <2>2. ~AllowsByDefault(p)
      BY <2>1, ValidProfile
    <2> QED
      BY <1>4, <2>2 DEF AllowsByDefault
  <1>5. ASSUME NEW r \in Elems(cfg.resolvers), r.type # "run", NEW e \in Elems(r.map)
        PROVE  e.profile \in DOMAIN cfg.profiles
    <2>1. CheckResolver(cfg, r) = {}
      BY <1>2, ValidIs
    <2>2. Flag(r.type # "run" /\ \E f \in Elems(r.map) : f.profile \notin DOMAIN cfg.profiles,
               "unknown_profile") = {}
      BY <2>1 DEF CheckResolver
    <2> QED
      BY <1>5, <2>2, FlagIs
  <1> QED
    BY <1>2, <1>3, <1>4, <1>5 DEF Whole

LEMMA BuildPromise == Build => ValidatorKeepsItsPromise
  <1> SUFFICES ASSUME Build, NEW b \in Builders, job[b].at \in {"build", "swap"}
               PROVE  PromiseKept(job[b].cfg, World)
    BY DEF ValidatorKeepsItsPromise, PromiseKept
  <1>1. Approved(job[b].cfg)
    BY DEF Build, Jobs, JobOk, Ready
  <1> QED
    BY <1>1, ValidKeepsPromise DEF Approved, Parsed

LEMMA BuildKeys == IInv /\ Build => JudgeKeysAreKnown
  <1> SUFFICES ASSUME IInv, Build, NEW cfg \in runtime, NEW p \in Profiles(cfg),
                      NEW k \in JudgeKeys(p, World)
               PROVE  ValueAt(k) \in known
    BY DEF JudgeKeysAreKnown
  <1>1. Taught(p, overlay, known)
    BY DEF Build, InForce, Ready
  <1> QED
    BY <1>1, TaughtIs DEF IInv, Shape

LEMMA SpecInvariant == Spec => [](IInv /\ Build)
  <1>1. Init => IInv /\ Build
    BY InitIInv, InitBuild
  <1>2. (IInv /\ Build) /\ [Next]_vars => (IInv /\ Build)'
    BY NextIInv, NextBuild
  <1> QED
    BY <1>1, <1>2, PTL DEF Spec

\* build_runtime and validate: in the runtime in force every bundle a profile
\* lists has its effect, no chain allows by default unasked, and every profile a
\* resolver or the fallback can name has a chain; whatever was edited between
\* two reads of the load that produced it.
THEOREM DaemonRuntimeIsAsAsked == Spec => []RuntimeIsAsAsked
  <1>1. IInv /\ Build => RuntimeIsAsAsked
    BY BuildTypeOK, BuildWhole DEF RuntimeIsAsAsked
  <1> QED
    BY <1>1, SpecInvariant, PTL

\* validate: no build of a document it accepted, by a start or by any reload,
\* stops on what validate is there to catch, nor on a secret config check passed.
THEOREM DaemonValidatorKeepsItsPromise == Spec => []ValidatorKeepsItsPromise
  BY BuildPromise, SpecInvariant, PTL

\* build_one and serve: the redactor knows the keys of the judges in force at
\* all times, and the secrets of the runtime when the listeners open.
THEOREM DaemonRedactorIsTaught == Spec => RedactorIsTaught
  <1>1. IInv /\ Build => JudgeKeysAreKnown
    BY BuildKeys
  <1> QED
    BY <1>1, SpecInvariant, DaemonSeededBeforeServing, PTL DEF RedactorIsTaught
=============================================================================
