------------------------------- MODULE Daemon -------------------------------
(***************************************************************************)
(* The life of `marshal serve': a process reads its env file, builds a     *)
(* runtime from the files on disk, teaches the redactor the secrets it     *)
(* will inject, and serves; the management API builds a new runtime from   *)
(* whatever is on disk then and swaps it in.  An operator edits the files  *)
(* at any moment, also between two reads of one load, and rotates the      *)
(* secrets; two reloads may run at once, for nothing serialises them.      *)
(*                                                                         *)
(* The document and what is computed from it are in Config.  A file that   *)
(* cannot be read or parsed is the empty set; a file that can is {value}.  *)
(***************************************************************************)
EXTENDS Config

CONSTANTS
    Revisions,     \* the states the configuration directory may be in at first
    Edited,        \* and those an operator changes it to later
    Reloads,       \* requests to /v1/reload
    Names,         \* profile names, in the order a BTreeMap walks them
    Override,      \* the --profile flag, a set of at most one name
    ProcessEnv,    \* variables set in the environment of the process
    EnvFile,       \* the variables the default env file assigns
    Paths0,        \* secret files
    MaxEdits,      \* bound: edits and rotations during one behaviour
    MaxStarts      \* bound: starts of the process

ASSUME ReloadsAssumption == "startup" \notin Reloads /\ IsFiniteSet(Reloads)

ASSUME BoundsAssumption == MaxEdits \in Nat /\ MaxStarts \in Nat

ASSUME NamesAssumption == Names \in Seq(Elems(Names))

\* A secret is read from a variable or from a file.
ASSUME PlacesAssumption == Paths0 \cap (ProcessEnv \cup EnvFile) = {}

ASSUME EditedAssumption == Edited \subseteq Revisions

ASSUME EnvFileAssumption ==
    \A d \in Revisions : \A c \in d.base : c.env_file \in {"default", "disabled", "missing"}

\* What a directory may hold.  Files are parsed into documents, and every name
\* is one of those given.
ASSUME RevisionsAssumption ==
    \A d \in Revisions :
        /\ \A c \in d.base : IsDocument(c) /\ DOMAIN c.profiles \subseteq Elems(Names)
        /\ DOMAIN d.profiles \subseteq Elems(Names)
        /\ \A n \in DOMAIN d.profiles : \A p \in d.profiles[n] : IsProfile(p)
        /\ \A n \in DOMAIN d.transforms : \A t \in d.transforms[n] : IsTransforms(t)

VARIABLES
    disk,          \* the configuration directory
    value,         \* secret file -> the version it holds
    proc,          \* the process: "down", "starting", "seeding", "serving"
    overlay,       \* the variables taken from the env file, once per process
    persists,      \* whether the process's token store has a directory
    job,           \* builder -> what it is doing
    runtime,       \* the runtime in force, a set of at most one document
    startup,       \* the document `serve' took its own settings from
    generation,    \* reloads that succeeded
    known,         \* the values the redactor knows
    cached,        \* secret place -> the value its source holds, at most one
    told,          \* reload -> the answer it got
    edits, starts

vars == <<disk, value, proc, overlay, persists, job, runtime, startup, generation,
          known, cached, told, edits, starts>>

Builders == Reloads \cup {"startup"}

Dirs == <<"profiles", "bundles", "bind_groups", "transforms">>

Idle == [at |-> "idle", cfg |-> DefaultConfig, dir |-> 1, left |-> {}, why |-> {}]

\* What a builder reads beside the document.
World ==
    [vars |-> ProcessEnv \cup overlay, names |-> {"user"}, files |-> {"roots", "ca"},
     persists |-> persists, enrolled |-> {"enrolled"}]

\* A value: what a variable or a version of a file holds.
ValueAt(place) == <<place, IF place \in Paths0 THEN value[place] ELSE 0>>

Resolvable(place) == place \in Paths0 \/ place \in World.vars

TypeOK ==
    /\ disk \in Revisions
    /\ value \in [Paths0 -> 0 .. MaxEdits]
    /\ proc \in {"down", "starting", "seeding", "serving"}
    /\ overlay \subseteq EnvFile /\ persists \in BOOLEAN
    /\ DOMAIN job = Builders
    /\ \A b \in Builders :
          /\ job[b].at \in {"idle", "base", "dirs", "validate", "build", "swap"}
          /\ job[b].dir \in 0 .. Len(Dirs) + 1
    /\ generation \in 0 .. Cardinality(Reloads)
    /\ Cardinality(runtime) <= 1 /\ Cardinality(startup) <= 1
    /\ \A place \in DOMAIN cached : Cardinality(cached[place]) <= 1
    /\ told \in [Reloads -> {"none", "unauthorized", "reloaded", "rejected"}]
    /\ edits \in 0 .. MaxEdits /\ starts \in 0 .. MaxStarts

\* Every place a secret is read from, for the caches of the sources.
Places0 == Paths0 \cup ProcessEnv \cup EnvFile

Init ==
    /\ disk \in Revisions
    /\ value = [p \in Paths0 |-> 0]
    /\ proc = "down" /\ overlay = {} /\ persists = FALSE
    /\ job = [b \in Builders |-> Idle]
    /\ runtime = {} /\ startup = {} /\ generation = 0
    /\ known = {} /\ cached = [p \in Places0 |-> {}]
    /\ told = [r \in Reloads |-> "none"]
    /\ edits = 0 /\ starts = 0

-----------------------------------------------------------------------------
(* The operator.                                                           *)

Edit ==
    /\ edits < MaxEdits
    /\ edits' = edits + 1
    /\ disk' \in Edited \ {disk}
    /\ UNCHANGED <<value, proc, overlay, persists, job, runtime, startup, generation,
                   known, cached, told, starts>>

Rotate(p) ==
    /\ edits < MaxEdits
    /\ edits' = edits + 1
    /\ value' = [value EXCEPT ![p] = @ + 1]
    /\ UNCHANGED <<disk, proc, overlay, persists, job, runtime, startup, generation,
                   known, cached, told, starts>>

\* The env file is read from the base file alone, before anything else; a base
\* file that cannot be parsed asks for none.  A named file that is missing, or
\* one that cannot be parsed, ends the process.
Requested == IF disk.base = {} THEN "disabled"
             ELSE (CHOOSE c \in disk.base : TRUE).env_file

LoadEnvFile ==
    CASE Requested = "default"  -> {EnvFile}
      [] Requested = "disabled" -> {{}}
      [] Requested = "missing"  -> {}

Start ==
    /\ proc = "down" /\ starts < MaxStarts
    /\ starts' = starts + 1
    /\ IF LoadEnvFile = {}
       THEN UNCHANGED <<proc, overlay, job>>
       ELSE /\ proc' = "starting"
            /\ overlay' = UNION LoadEnvFile
            /\ job' = [job EXCEPT !["startup"] = [Idle EXCEPT !.at = "base"]]
    /\ UNCHANGED <<disk, value, persists, runtime, startup, generation, known, cached,
                   told, edits>>

\* Ctrl-C, or the end of a listener: everything the process holds is gone.
Gone ==
    /\ proc' = "down" /\ overlay' = {} /\ persists' = FALSE
    /\ job' = [b \in Builders |-> Idle]
    /\ runtime' = {} /\ startup' = {} /\ generation' = 0
    /\ known' = {} /\ cached' = [p \in Places0 |-> {}]

Stop ==
    /\ proc = "serving"
    /\ Gone
    /\ UNCHANGED <<disk, value, told, edits, starts>>

-----------------------------------------------------------------------------
(* build_runtime, which `serve' and /v1/reload share.                      *)

At(b, at) == proc # "down" /\ job[b].at = at

Goes(b, j) == job' = [job EXCEPT ![b] = j]

\* Mutated form: what could be built is put in force all the same.
FailsHalfway(b, why) ==
    IF b = "startup"
    THEN Gone /\ UNCHANGED <<disk, value, told, edits, starts>>
    ELSE /\ Goes(b, [Idle EXCEPT !.why = why])
         /\ runtime' = {job[b].cfg}
         /\ told' = [told EXCEPT ![b] = "rejected"]
         /\ UNCHANGED <<disk, value, proc, overlay, persists, startup, generation,
                        known, cached, edits, starts>>

\* `serve' returns the error and the process ends; a reload is answered and
\* what was running goes on.
Fails(b, why) ==
    IF b = "startup"
    THEN Gone /\ UNCHANGED <<disk, value, told, edits, starts>>
    ELSE /\ Goes(b, [Idle EXCEPT !.why = why])
         /\ told' = [told EXCEPT ![b] = "rejected"]
         /\ UNCHANGED <<disk, value, proc, overlay, persists, runtime, startup, generation,
                        known, cached, edits, starts>>

JobOnly(b, j) ==
    /\ Goes(b, j)
    /\ UNCHANGED <<disk, value, proc, overlay, persists, runtime, startup, generation,
                   known, cached, told, edits, starts>>

ReadBase(b) ==
    /\ At(b, "base")
    /\ IF disk.base = {} THEN Fails(b, {"load"})
       ELSE JobOnly(b, [job[b] EXCEPT !.at = "dirs", !.dir = 1,
                                      !.cfg = CHOOSE c \in disk.base : TRUE])

\* Merge what a directory holds into the document.  A bundle or a bind group
\* may be inline or a file, not both.
Merge(cfg, d, files) ==
    LET values == [n \in DOMAIN files |-> CHOOSE v \in files[n] : TRUE]
    IN  CASE d = "profiles"    -> [cfg EXCEPT !.profiles = values]
          [] d = "transforms"  -> [cfg EXCEPT !.transforms = values]
          [] d = "bundles"     -> [cfg EXCEPT !.bundles = values @@ @]
          [] d = "bind_groups" -> [cfg EXCEPT !.bind_groups = @ \cup DOMAIN files]

Duplicate(cfg, d, files) ==
    \/ d = "bundles" /\ DOMAIN files \cap DOMAIN cfg.bundles # {}
    \/ d = "bind_groups" /\ DOMAIN files \cap cfg.bind_groups # {}

Garbled(files) == \E n \in DOMAIN files : files[n] = {}

ReadDir(b) ==
    /\ At(b, "dirs")
    /\ LET d == Dirs[job[b].dir]
           files == disk[d]
       IN  IF Garbled(files) \/ Duplicate(job[b].cfg, d, files)
           THEN Fails(b, {"load"})
           ELSE JobOnly(b, [job[b] EXCEPT !.cfg = Merge(@, d, files), !.dir = @ + 1,
                                          !.at = IF job[b].dir = Len(Dirs) THEN "validate" ELSE @])

\* No error may remain; then what the sources need is made.  The token store
\* is the process's, and its directory the first document's.
Accept(b) ==
    /\ At(b, "validate")
    /\ LET cfg == job[b].cfg
       IN  IF Validate(cfg) # {} \/ SecretDeps(cfg, World) # {}
           THEN Fails(b, {"validate"})
           ELSE /\ persists' = (IF b = "startup" THEN cfg.state_dir ELSE persists)
                /\ Goes(b, [job[b] EXCEPT !.at = "build", !.left = DOMAIN cfg.profiles])
                /\ UNCHANGED <<disk, value, proc, overlay, runtime, startup, generation,
                               known, cached, told, edits, starts>>

\* Of the names that are left, the one a BTreeMap walks to first.
FirstOf(left) ==
    Names[CHOOSE i \in DOMAIN Names : Names[i] \in left /\ \A j \in 1 .. i - 1 : Names[j] \notin left]

\* The embedded profile first, then every named one; each teaches the redactor
\* its judge's key before anything of it is built.  `dir' 0 says that the
\* embedded profile is done.
Profile(b) == IF job[b].dir # 0 THEN job[b].cfg.profile ELSE job[b].cfg.profiles[FirstOf(job[b].left)]

\* Mutated form: the key is left to the seeding of the secrets.
LearnLater(p) == UNCHANGED known

Learn(p) == known' = known \cup {ValueAt(k) : k \in JudgeKeys(p, World)}

BuildProfile(b) ==
    /\ At(b, "build")
    /\ job[b].dir # 0 \/ job[b].left # {}
    /\ LET errors == BuildOne(job[b].cfg, Profile(b), World)
           named == job[b].dir = 0
       IN  IF errors # {} /\ b = "startup"
           THEN Fails(b, errors)
           ELSE /\ Learn(Profile(b))
                /\ IF errors # {}
                   THEN /\ Goes(b, [Idle EXCEPT !.why = errors])
                        /\ told' = [told EXCEPT ![b] = "rejected"]
                   ELSE /\ Goes(b, [job[b] EXCEPT !.dir = 0,
                                                  !.left = IF named THEN @ \ {FirstOf(@)} ELSE @])
                        /\ UNCHANGED told
                /\ UNCHANGED <<disk, value, proc, overlay, persists, runtime, startup,
                               generation, cached, edits, starts>>

\* The fallback and the resolvers; then the authority, for which the whole
\* configuration is loaded a second time, and the passthrough list.
SecondLoad ==
    IF disk.base = {} \/ \E d \in Elems(Dirs) : Garbled(disk[d]) THEN {}
    ELSE (CHOOSE c \in disk.base : TRUE).ca

Finish(b) ==
    /\ At(b, "build") /\ job[b].dir = 0 /\ job[b].left = {}
    /\ LET cfg == job[b].cfg
           errors == BuildFallback(cfg, Override) \cup BuildIdentities(cfg, World)
                        \cup Flag(SecondLoad = {} \/ ~(SecondLoad \subseteq World.files), "ca")
                        \cup Flag(~cfg.passthrough, "passthrough")
       IN  IF errors # {} THEN Fails(b, errors)
           ELSE JobOnly(b, [job[b] EXCEPT !.at = "swap"])

-----------------------------------------------------------------------------
(* serve.                                                                  *)

Install ==
    /\ At("startup", "swap")
    /\ proc' = "seeding"
    /\ runtime' = {job["startup"].cfg} /\ startup' = {job["startup"].cfg}
    /\ job' = [job EXCEPT !["startup"] = Idle]
    /\ UNCHANGED <<disk, value, overlay, persists, generation, known, cached, told, edits, starts>>

\* The places whose sources a document's profiles resolve, of all of them: a
\* value may surface in a record of another profile.
Injected(cfg) == UNION {SecretPlaces(ResolveProfile(cfg, p)) : p \in Profiles(cfg)}

\* Mutated form: only the named profiles' secrets are taught.
SeedsNamed(cfg) == UNION {SecretPlaces(ResolveProfile(cfg, cfg.profiles[n])) : n \in DOMAIN cfg.profiles}

Seeds(cfg) == Injected(cfg)

\* One source after another is resolved and its value learned.  A source that
\* cannot be resolved is passed over.
Seed ==
    /\ proc = "seeding"
    /\ \E cfg \in runtime :
          \E place \in Seeds(cfg) :
             /\ Resolvable(place) /\ cached[place] = {}
             /\ cached' = [cached EXCEPT ![place] = {ValueAt(place)}]
             /\ known' = known \cup {ValueAt(place)}
    /\ UNCHANGED <<disk, value, proc, overlay, persists, job, runtime, startup, generation,
                   told, edits, starts>>

\* Mutated form: every source is waited for, also one that has nothing to read.
ServeWhenAllResolve ==
    /\ proc = "seeding"
    /\ \A cfg \in runtime : \A place \in Seeds(cfg) : cached[place] # {}
    /\ proc' = "serving"
    /\ UNCHANGED <<disk, value, overlay, persists, job, runtime, startup, generation,
                   known, cached, told, edits, starts>>

\* Then the listeners open.  A DNS setting that does not parse ends it all.
Serve ==
    /\ proc = "seeding"
    /\ \A cfg \in runtime : \A place \in Seeds(cfg) : Resolvable(place) => cached[place] # {}
    /\ IF \E cfg \in startup : "malformed" \in cfg.dns
       THEN Gone /\ UNCHANGED <<disk, value, told, edits, starts>>
       ELSE /\ proc' = "serving"
            /\ UNCHANGED <<disk, value, overlay, persists, job, runtime, startup, generation,
                           known, cached, told, edits, starts>>

\* A request is served and a secret injected: its source reads the file again
\* when its time to live has passed, or when a reload has made it new.
Inject(place) ==
    /\ proc = "serving"
    /\ \E cfg \in runtime : place \in Injected(cfg)
    /\ Resolvable(place)
    /\ cached' = [cached EXCEPT ![place] = {ValueAt(place)}]
    /\ UNCHANGED <<disk, value, proc, overlay, persists, job, runtime, startup, generation,
                   known, told, edits, starts>>

-----------------------------------------------------------------------------
(* /v1/reload.                                                             *)

\* The token is the one the environment had for the startup document's key;
\* without one nothing is authorised.
Authorised(good) ==
    \E cfg \in startup : good /\ cfg.management # {} /\ cfg.management \subseteq World.vars

Listening == \E cfg \in startup : cfg.management # {}

ReloadRequest(r, good) ==
    /\ proc = "serving" /\ Listening
    /\ told[r] = "none" /\ job[r].at = "idle"
    /\ IF Authorised(good)
       THEN Goes(r, [Idle EXCEPT !.at = "base"]) /\ UNCHANGED told
       ELSE told' = [told EXCEPT ![r] = "unauthorized"] /\ UNCHANGED job
    /\ UNCHANGED <<disk, value, proc, overlay, persists, runtime, startup, generation,
                   known, cached, edits, starts>>

\* Mutated form: the old runtime stays beside the new one.
SwapBeside(r) ==
    /\ r \in Reloads /\ At(r, "swap")
    /\ runtime' = runtime \cup {job[r].cfg}
    /\ generation' = generation + 1
    /\ told' = [told EXCEPT ![r] = "reloaded"]
    /\ Goes(r, Idle)
    /\ UNCHANGED <<disk, value, proc, overlay, persists, startup, known, cached, edits, starts>>

\* Mutated form: a reload waits for the others to be over.
SwapWhenAlone(r) ==
    /\ r \in Reloads /\ At(r, "swap")
    /\ \A q \in Reloads \ {r} : job[q].at = "idle"
    /\ runtime' = {job[r].cfg}
    /\ generation' = generation + 1
    /\ told' = [told EXCEPT ![r] = "reloaded"]
    /\ Goes(r, Idle)
    /\ UNCHANGED <<disk, value, proc, overlay, persists, startup, known, cached, edits, starts>>

\* The builder's injectors are dropped with the document it returns: no source
\* of the new runtime is resolved here.
Swap(r) ==
    /\ r \in Reloads /\ At(r, "swap")
    /\ runtime' = {job[r].cfg}
    /\ generation' = generation + 1
    /\ cached' = [p \in Places0 |-> {}]
    /\ told' = [told EXCEPT ![r] = "reloaded"]
    /\ Goes(r, Idle)
    /\ UNCHANGED <<disk, value, proc, overlay, persists, startup, known, edits, starts>>

-----------------------------------------------------------------------------

Steps(b) ==
    ReadBase(b) \/ ReadDir(b) \/ Accept(b) \/ BuildProfile(b) \/ Finish(b)

Next ==
    \/ Edit \/ \E p \in Paths0 : Rotate(p)
    \/ Start \/ Stop
    \/ \E b \in Builders : Steps(b)
    \/ Install \/ Seed \/ Serve
    \/ \E p \in Places0 : Inject(p)
    \/ \E r \in Reloads, good \in BOOLEAN : ReloadRequest(r, good)
    \/ \E r \in Reloads : Swap(r)

Spec == Init /\ [][Next]_vars

\* The process does not pause in the middle of a build, a seeding or a swap.
Fairness ==
    /\ \A b \in Builders : WF_vars(Steps(b))
    /\ WF_vars(Install) /\ WF_vars(Seed) /\ WF_vars(Serve)
    /\ \A r \in Reloads : WF_vars(Swap(r))

FairSpec == Spec /\ Fairness

-----------------------------------------------------------------------------

\* What a build that got past the validator can no longer fail for: the
\* comments of header_filter_mode and resolve_profile rely on it.
Promised ==
    {"header_filter", "set_headers", "unknown_transforms", "unknown_bundle", "min_confidence"}

(* The validator keeps its promise to the builders.  No build of an         *)
(* accepted document, whichever profile's turn it is and whatever mixture   *)
(* of revisions a torn load produced, stops on something `validate' is      *)
(* there to catch: an unknown bundle, a header filter that is neither or    *)
(* both, a header that cannot be set, an unusable confidence (build.rs).    *)
(* And what `config check' passes does not fail on its secrets when it is   *)
(* served, and a body transform that cannot run was warned about, unless it *)
(* came with a bundle: those are not looked at.                             *)
ValidatorKeepsItsPromise ==
    \A b \in Builders :
        job[b].at \in {"build", "swap"} =>
            \A p \in Profiles(job[b].cfg) :
                LET errors == BuildOne(job[b].cfg, p, World)
                IN  /\ errors \cap Promised = {}
                    /\ ConfigCheck(job[b].cfg, World) => "secrets" \notin errors
                    /\ "unimplemented" \in errors /\ p.transforms = <<>>
                          => "unimplemented" \in Warnings(job[b].cfg)

(* Nothing an operator listed is silently dropped.  In the runtime in       *)
(* force, every header filter and router of every bundle a profile lists is *)
(* the one that applies (resolve_profile keeps only the last), and every    *)
(* secret and body limit of every bundle is there.                          *)
NothingListedIsLost ==
    \A cfg \in runtime : \A p \in Profiles(cfg) : \A n \in Elems(p.transforms) :
        LET t == ResolveProfile(cfg, p)
            bundle == cfg.transforms[n]
        IN  /\ \A f \in Unmergeable : bundle[f] # {} => t[f] = bundle[f]
            /\ Elems(bundle.secrets) \subseteq Elems(t.secrets)
            /\ Elems(bundle.body) \subseteq Elems(t.body)
            /\ \A h \in DOMAIN bundle.set : h \in DOMAIN t.set

(* No chain allows by default unless its profile says it is meant to, and   *)
(* every profile a resolver or the fallback can name has a chain            *)
(* (build_runtime; a torn or repeated load included).                       *)
RuntimeIsWhole ==
    \A cfg \in runtime :
        /\ \A p \in Profiles(cfg) : p.default_action = "allow" => p.i_understand
        /\ Fallback(cfg, Override) \subseteq DOMAIN cfg.profiles
        /\ \A r \in Elems(cfg.resolvers) :
              r.type # "run" => \A e \in Elems(r.map) : e.profile \in DOMAIN cfg.profiles

(* What is put in force is what was asked for, and safe by default.         *)
RuntimeIsAsAsked == TypeOK /\ NothingListedIsLost /\ RuntimeIsWhole

(* A reload that is refused changes nothing, and one that succeeds is       *)
(* counted once: the runtime and the generation change together, and only   *)
(* as some reload is answered `reloaded' (management.rs reload).            *)
RejectedChangesNothing ==
    [][proc = "serving" /\ proc' = "serving" =>
          /\ (generation' # generation => generation' = generation + 1)
          /\ (runtime' # runtime => generation' # generation)
          /\ (generation' # generation <=>
                \E r \in Reloads : told'[r] = "reloaded" /\ told[r] # "reloaded")]_vars

(* The proxy does not open its listeners before the redactor knows every    *)
(* value the runtime would inject, of every profile (serve: ``so the        *)
(* redactor knows every real value before a single record can be            *)
(* written'').                                                              *)
SeededBeforeServing ==
    [][proc # "serving" /\ proc' = "serving" =>
          \A cfg \in runtime' : \A place \in Injected(cfg) :
              Resolvable(place) => cached'[place] # {} /\ cached'[place] \subseteq known']_vars

(* A judge's key is known to the redactor before its chain is in force, on  *)
(* startup and on every reload (build_one).                                 *)
JudgeKeysAreKnown ==
    \A cfg \in runtime : \A p \in Profiles(cfg) :
        \A k \in JudgeKeys(p, World) : ValueAt(k) \in known

(* Before anything can write a value, the redactor knows it: judges' keys   *)
(* at every build, the secrets at the start.                                *)
RedactorIsTaught == SeededBeforeServing /\ []JudgeKeysAreKnown

(* Whatever a source holds to inject, the redactor knows.  ADR-0029 says    *)
(* ``Every code path that obtains a credential at runtime calls `learn'     *)
(* before the value can reach a sink or a socket''.                         *)
InjectedIsKnown == \A place \in Places0 : cached[place] \subseteq known

(* A reload that was let in is answered, whatever is edited meanwhile.      *)
EveryReloadIsAnswered ==
    \A r \in Reloads : job[r].at # "idle" ~> job[r].at = "idle"

(* A start ends in serving or in an exit.                                   *)
StartEnds == proc = "starting" ~> proc \in {"down", "serving"}

(* Every load ends in an answer: a reload's, or the process's own.          *)
EveryLoadEnds == EveryReloadIsAnswered /\ StartEnds
=============================================================================
