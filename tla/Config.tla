------------------------------- MODULE Config -------------------------------
(***************************************************************************)
(* The configuration document and the three pure functions the daemon and  *)
(* the command line apply to it: `validate' (marshal-config), which says   *)
(* what is wrong with it, `resolve_profile' (marshal-policy), which folds  *)
(* the transform bundles a profile lists into one set of transforms, and   *)
(* the builders, which turn every profile into a chain and its transforms  *)
(* or fail.                                                                *)
(*                                                                         *)
(* An optional field is a set of at most one element.  A text is a name;   *)
(* what a parser makes of it is a field beside it (`compiles', `form').    *)
(* The code stops at the first build error; here the errors are a set, and *)
(* a document is refused exactly when the set is not empty.                *)
(***************************************************************************)
EXTENDS Naturals, Sequences, FiniteSets, TLC

Elems(s) == {s[i] : i \in DOMAIN s}

-----------------------------------------------------------------------------
(* The schema, as the values serde fills in for what a file leaves out.    *)

NoTransforms ==
    [headers |-> {}, set |-> <<>>, secrets |-> <<>>, router |-> {},
     respHeaders |-> {}, body |-> <<>>]

DefaultProfile ==
    [default_action |-> "deny", i_understand |-> FALSE, mode |-> "enforce",
     policy |-> <<>>, transforms |-> <<>>, inline |-> NoTransforms,
     bind_groups |-> {}]

DefaultListeners == [listen |-> {}, dns |-> {}, management |-> {}]

DefaultTls == [ca |-> {}, passthrough |-> TRUE, roots |-> {}]

DefaultUpstream == [deny |-> {}, max_response_bytes |-> 0]

DefaultIdentities == [resolvers |-> <<>>, unidentified |-> {}]

DefaultConfig ==
    [profile |-> DefaultProfile, profiles |-> <<>>, bundles |-> <<>>,
     bind_groups |-> {}, transforms |-> <<>>, state_dir |-> FALSE, env_file |-> "default"]
        @@ DefaultListeners @@ DefaultTls @@ DefaultUpstream @@ DefaultIdentities

\* A policy layer: the bundles a host list refers to, what it answers on a
\* match, whether its patterns, rules or scope compile, and a judge's provider.
DefaultLayer ==
    [layer |-> "allowlist", bundles |-> {}, on_match |-> "allow", compiles |-> TRUE,
     dialect |-> "openai", key |-> {}, confident |-> TRUE]

\* A `peer_cred' entry and the resolver that lists it; the other resolvers use
\* the fields they have.
DefaultEntry ==
    [uid |-> {}, username |-> {}, gid |-> {}, groupname |-> {}, cgroup |-> {},
     password_env |-> {}, cidr_ok |-> TRUE, port |-> 0, profile |-> "none"]

DefaultResolver == [type |-> "run", enrich |-> FALSE, map |-> <<>>]

DefaultRouter ==
    [listen |-> <<>>, models |-> <<>>, max_request_bytes |-> 1, max_response_bytes |-> 1]

\* A document as it is parsed: lists are lists, a layer is one of those there are.
IsTransforms(t) == t.secrets \in Seq(Elems(t.secrets)) /\ t.body \in Seq(Elems(t.body))

IsProfile(p) ==
    /\ p.transforms \in Seq(Elems(p.transforms))
    /\ \A l \in Elems(p.policy) :
          l.layer \in {"denylist", "allowlist", "dlp", "rules", "mcp", "judge"}

IsDocument(c) ==
    /\ {"profile", "profiles", "bundles", "bind_groups", "transforms", "state_dir"} \subseteq DOMAIN c
    /\ c.state_dir \in BOOLEAN
    /\ \A p \in {c.profile} \cup Elems(c.profiles) : IsProfile(p)
    /\ \A n \in DOMAIN c.transforms : IsTransforms(c.transforms[n])

DefaultOauth ==
    [grant |-> "client_credentials", client_auth |-> "client_secret_basic",
     client_secret |-> {}, refresh_token |-> {}, private_key |-> {}, algorithm |-> TRUE,
     authorization_endpoint |-> {}, token_endpoint |-> "token", https |-> TRUE,
     redirect_uri |-> FALSE, device_endpoint |-> FALSE, capture |-> "off"]

DefaultSecret ==
    [name |-> {}, schema |-> TRUE, hosts |-> TRUE, inject |-> "bearer",
     header |-> TRUE, source |-> {}, keys |-> <<>>]

DefaultSource ==
    [type |-> "env", at |-> "var", oauth |-> DefaultOauth, of |-> "none", claim |-> TRUE]

\* Headers that belong to routing or framing and cannot be set.
RequestHeaderIsManaged(n) ==
    n \in {"host", "content-length", "connection", "keep-alive", "proxy-authenticate",
           "proxy-authorization", "proxy-connection", "te", "trailer",
           "transfer-encoding", "upgrade"}

-----------------------------------------------------------------------------
(* validate.  Every error is named after what it is about; the text of a   *)
(* diagnostic is left out.                                                 *)

\* `allow' and `deny' are two defaults, not two lists: exactly one is set.
CheckHeaderFilter(filter) ==
    {"header_filter" : f \in {g \in filter : (g.allow = {}) = (g.deny = {})}}

BadHeader(n, v) ==
    \/ n = "not a token"
    \/ RequestHeaderIsManaged(n)
    \/ v = "not a value"

CheckRequestHeaders(t) ==
    {"set_headers" : n \in {m \in DOMAIN t.set : BadHeader(m, t.set[m])}}

\* The places where a router listens: every host of an entry with every path,
\* or with its dialect's own path when it names none.
ChatPath(dialect) == [path |-> dialect, form |-> "plain"]

Paths(l) == IF l.paths = <<>> THEN <<ChatPath(l.dialect)>> ELSE l.paths

Places(r) ==
    UNION {{<<i, j, k>> : j \in DOMAIN r.listen[i].hosts, k \in DOMAIN Paths(r.listen[i])} :
           i \in DOMAIN r.listen}

\* A host is compared without its trailing dot and in lower case.
EndpointAt(r, p) ==
    <<r.listen[p[1]].hosts[p[2]].host, Paths(r.listen[p[1]])[p[3]].path>>

ValidHost(h) == h.form # "malformed"

RouterError(r) ==
    \/ r.listen = <<>>
    \/ \E l \in Elems(r.listen) :
          \/ l.hosts = <<>>
          \/ \E h \in Elems(l.hosts) : ~ValidHost(h)
          \/ \E p \in Elems(l.paths) : p.form # "plain"
    \/ \E p, q \in Places(r) : p # q /\ EndpointAt(r, p) = EndpointAt(r, q)
    \/ DOMAIN r.models = {}
    \/ \E name \in DOMAIN r.models :
          LET target == r.models[name]
          IN  \/ "blank" \in {name, target.model}
              \/ ~ValidHost(target.host)
              \/ \E p \in target.path : p.form \notin {"plain", "query"}
              \/ target.port = 0
    \/ 0 \in {r.max_request_bytes, r.max_response_bytes}

CheckLlmRouter(router) == {"llm_router" : r \in {s \in router : RouterError(s)}}

CheckTransforms(t) ==
    CheckRequestHeaders(t) \cup CheckLlmRouter(t.router)
        \cup CheckHeaderFilter(t.headers) \cup CheckHeaderFilter(t.respHeaders)

\* At most one listed bundle may set a field that does not merge.  A bundle
\* that is listed twice counts twice.
Setting(cfg, p, field) ==
    {i \in DOMAIN p.transforms :
        /\ p.transforms[i] \in DOMAIN cfg.transforms
        /\ cfg.transforms[p.transforms[i]][field] # {}}

Unmergeable == {"headers", "respHeaders", "router"}

\* Mutated form: two bundles may both filter the request's headers.
CheckListLoosely(cfg, p) ==
    {"unknown_transforms" : n \in Elems(p.transforms) \ DOMAIN cfg.transforms}

CheckList(cfg, p) ==
    {"unknown_transforms" : n \in Elems(p.transforms) \ DOMAIN cfg.transforms}
        \cup {"two_bundles" : f \in {g \in Unmergeable : Cardinality(Setting(cfg, p, g)) > 1}}

Flag(condition, error) == IF condition THEN {error} ELSE {}

\* Mutated form: the acknowledgement is only asked for of a profile that does
\* not enforce anyway.
AllowsByDefaultInWarn(p) ==
    p.default_action = "allow" /\ ~p.i_understand /\ p.mode = "warn"

\* Default-deny is given up only by saying so twice.
AllowsByDefault(p) == p.default_action = "allow" /\ ~p.i_understand

CheckProfile(cfg, p) ==
    CheckTransforms(p.inline)
        \cup Flag(AllowsByDefault(p), "default_allow")
        \cup Flag(\E l \in Elems(p.policy) :
                     l.layer = "judge" /\ l.dialect = "systemone" /\ ~l.confident,
                  "min_confidence")
        \cup Flag(\E b \in Elems(p.inline.body) :
                     b.transform = "limit" /\ b.replacement > b.max_bytes,
                  "replacement_too_large")
        \cup Flag(\E l \in Elems(p.policy) :
                     l.layer \in {"allowlist", "denylist"}
                        /\ ~(l.bundles \subseteq DOMAIN cfg.bundles),
                  "unknown_bundle")
        \cup Flag(~(p.bind_groups \subseteq cfg.bind_groups), "unknown_bind_group")
        \cup (IF p.transforms = <<>> THEN {}
              ELSE Flag(p.inline # NoTransforms, "both_ways") \cup CheckList(cfg, p))

Profiles(cfg) == {cfg.profile} \cup {cfg.profiles[n] : n \in DOMAIN cfg.profiles}

\* An entry names one uid, one gid and something to match on.
EntryError(e) ==
    \/ e.uid # {} /\ e.username # {}
    \/ e.gid # {} /\ e.groupname # {}
    \/ e.uid \cup e.username \cup e.gid \cup e.groupname \cup e.cgroup = {}

CheckResolver(cfg, r) ==
    Flag(/\ r.type = "peer_cred"
         /\ \/ ~r.enrich /\ \E e \in Elems(r.map) : e.cgroup # {}
            \/ \E e \in Elems(r.map) : EntryError(e),
         "peer_cred")
        \cup Flag(r.type # "run" /\ \E e \in Elems(r.map) : e.profile \notin DOMAIN cfg.profiles,
                  "unknown_profile")

\* Mutated form: what a transform bundle declares is not looked at, only what
\* a profile declares itself.
ValidateProfiles(cfg) ==
    (UNION {CheckProfile(cfg, p) : p \in Profiles(cfg)})
        \cup (UNION {CheckResolver(cfg, r) : r \in Elems(cfg.resolvers)})

Validate(cfg) ==
    (UNION {CheckProfile(cfg, p) : p \in Profiles(cfg)})
        \cup (UNION {CheckTransforms(cfg.transforms[n]) : n \in DOMAIN cfg.transforms})
        \cup Flag(<<>> \in cfg.listen, "no_listener")
        \cup (UNION {CheckResolver(cfg, r) : r \in Elems(cfg.resolvers)})
        \cup Flag(~(cfg.unidentified \subseteq DOMAIN cfg.profiles), "unknown_profile")

-----------------------------------------------------------------------------
(* Warnings: what `validate' says and no one refuses.                      *)

Cost(l) ==
    CASE l.layer \in {"denylist", "allowlist"} -> 0
      [] l.layer \in {"rules", "mcp"}          -> 1
      [] l.layer = "dlp"                       -> 2
      [] l.layer = "judge"                     -> 3

\* The highest cost seen so far is the highest of the layers before.
ProfileWarnings(p) ==
    Flag(p.mode = "warn", "warn_mode")
        \cup Flag(p.policy = <<>>, "empty_policy")
        \cup Flag(\E i, j \in DOMAIN p.policy : j < i /\ Cost(p.policy[i]) < Cost(p.policy[j]),
                  "cost_order")
        \cup Flag(\E i, j \in DOMAIN p.policy :
                     j < i /\ p.policy[j].layer = "allowlist" /\ p.policy[j].on_match = "allow",
                  "unreachable_layer")
        \cup Flag(\E b \in Elems(p.inline.body) : b.transform # "limit", "unimplemented")
        \cup Flag(\E b \in Elems(p.inline.body) : b.transform = "limit", "buffers")

ResolverWarnings(cfg, r) ==
    Flag(/\ r.type = "peer_cred" /\ ~r.enrich
         /\ \E e \in Elems(r.map) : e.gid \cup e.groupname # {}, "gid_needs_enrich")
        \cup Flag(/\ r.type = "listener_port"
                  /\ \E e \in Elems(r.map) : \A ports \in cfg.listen : e.port \notin Elems(ports),
                  "unbound_port")

Warnings(cfg) ==
    (UNION {ProfileWarnings(p) : p \in Profiles(cfg)})
        \cup (UNION {ResolverWarnings(cfg, r) : r \in Elems(cfg.resolvers)})

-----------------------------------------------------------------------------
(* resolve_profile.                                                        *)

\* The list of bundles a profile names, in order.
Listed(cfg, p) == [i \in DOMAIN p.transforms |-> cfg.transforms[p.transforms[i]]]

\* A later bundle replaces what an earlier one set.
Latest(bundles, field) ==
    LET set == {i \in DOMAIN bundles : bundles[i][field] # {}}
    IN  IF set = {} THEN {}
        ELSE bundles[CHOOSE i \in set : \A j \in set : j <= i][field]

MergedHeaders(bundles) ==
    LET names == UNION {DOMAIN bundles[i].set : i \in DOMAIN bundles}
        last(n) == CHOOSE i \in DOMAIN bundles :
                       /\ n \in DOMAIN bundles[i].set
                       /\ \A j \in DOMAIN bundles : n \in DOMAIN bundles[j].set => j <= i
    IN  [n \in names |-> bundles[last(n)].set[n]]

Concatenated(bundles, field) ==
    LET upTo[n \in 0 .. Len(bundles)] ==
            IF n = 0 THEN <<>> ELSE upTo[n - 1] \o bundles[n][field]
    IN  upTo[Len(bundles)]

ResolveProfile(cfg, p) ==
    IF p.transforms = <<>> THEN p.inline
    ELSE LET bundles == Listed(cfg, p)
         IN  [headers     |-> Latest(bundles, "headers"),
              set         |-> MergedHeaders(bundles),
              secrets     |-> Concatenated(bundles, "secrets"),
              router      |-> Latest(bundles, "router"),
              respHeaders |-> Latest(bundles, "respHeaders"),
              body        |-> Concatenated(bundles, "body")]

-----------------------------------------------------------------------------
(* The builders.  `world' is what they read beside the document: the       *)
(* variables that are set, the names NSS knows, what is enrolled.          *)

LayerErrors(cfg, l, world) ==
    CASE l.layer \in {"denylist", "allowlist"} ->
            Flag(~(l.bundles \subseteq DOMAIN cfg.bundles), "unknown_bundle")
                \cup Flag(\/ ~l.compiles
                          \/ \E b \in l.bundles \cap DOMAIN cfg.bundles : ~cfg.bundles[b],
                          "pattern")
      [] l.layer \in {"dlp", "rules", "mcp"} -> Flag(~l.compiles, "layer")
      [] l.layer = "judge" ->
            Flag(~l.compiles, "judge_scope")
                \cup Flag(~(l.key \subseteq world.vars), "judge_key")
                \cup Flag(l.dialect = "systemone" /\ ~l.confident, "min_confidence")

BuildChain(cfg, p, t, world) ==
    (UNION {LayerErrors(cfg, l, world) : l \in Elems(p.policy)})
        \cup Flag(\E b \in Elems(t.body) : b.transform # "limit", "unimplemented")

BuildRequestTransforms(t) ==
    CheckHeaderFilter(t.headers) \cup CheckRequestHeaders(t)

BuildResponseTransforms(t) == CheckHeaderFilter(t.respHeaders)

-----------------------------------------------------------------------------
(* build_secrets.                                                          *)

\* The name a source keys its tokens on: its own, or its place in the list.
Label(secrets, i) ==
    IF secrets[i].name = {} THEN ToString(i) ELSE CHOOSE n \in secrets[i].name : TRUE

\* A nested source, of a client secret or a key, cannot read a claim.
Nested(source) == \A s \in source : s # "oauth2_claim"

Enrolled(world, label) == world.persists /\ label \in world.enrolled

\* Both interactive grants keep a refresh token, and need a place for it.
EnrolledGrant(o, world) == world.persists /\ o.refresh_token = {}

ClientAuthBuilds(o) ==
    CASE o.client_auth = "none" -> TRUE
      [] o.client_auth = "private_key_jwt" ->
            o.private_key # {} /\ Nested(o.private_key) /\ o.algorithm
      [] OTHER -> o.client_secret # {} /\ Nested(o.client_secret)

GrantBuilds(o, world, label) ==
    CASE o.grant = "client_credentials" -> o.refresh_token = {}
      [] o.grant = "refresh_token" -> o.refresh_token # {} /\ Nested(o.refresh_token)
      [] o.grant = "jwt_bearer" -> o.private_key # {} /\ Nested(o.private_key) /\ o.algorithm
      [] o.grant = "authorization_code" ->
            /\ o.authorization_endpoint # {} \/ Enrolled(world, label)
            /\ o.redirect_uri \/ o.capture = "in_band" \/ Enrolled(world, label)
            /\ EnrolledGrant(o, world)
      [] o.grant = "device_code" -> o.device_endpoint /\ EnrolledGrant(o, world)

BuildOauth2Source(o, world, label) == ClientAuthBuilds(o) /\ GrantBuilds(o, world, label)

BuildBroker(o, world, label) ==
    /\ o.grant = "authorization_code"
    /\ o.authorization_endpoint # {}
    /\ o.https
    /\ BuildOauth2Source(o, world, label)

\* A claim is read from an `oauth2' swap earlier in the list.
BuildSource(secrets, i, s, world) ==
    CASE s.type \in {"env", "file"} -> TRUE
      [] s.type = "oauth2" -> BuildOauth2Source(s.oauth, world, Label(secrets, i))
      [] s.type = "oauth2_claim" ->
            /\ s.claim
            /\ \E j \in 1 .. i - 1 :
                  /\ \E t \in secrets[j].source : t.type = "oauth2"
                  /\ Label(secrets, j) = s.of

SecretBuilds(secrets, i, world) ==
    LET s == secrets[i]
    IN  /\ s.schema /\ s.hosts
        /\ IF s.inject = "sigv4"
           THEN /\ s.source = {}
                /\ \A k \in Elems(s.keys) : BuildSource(secrets, i, k, world)
           ELSE /\ s.source # {}
                /\ \A t \in s.source :
                      /\ BuildSource(secrets, i, t, world)
                      /\ t.type = "oauth2" /\ t.oauth.capture = "in_band"
                            => BuildBroker(t.oauth, world, Label(secrets, i))
                /\ s.inject = "header" => s.header

BuildSecrets(t, world) ==
    Flag(\E i \in DOMAIN t.secrets : ~SecretBuilds(t.secrets, i, world), "secrets")

\* The endpoints a credential must never be injected into: its own.
Exceptions(t) ==
    UNION {UNION {{s.oauth.token_endpoint} \cup s.oauth.authorization_endpoint :
                  s \in {u \in t.secrets[i].source : u.type = "oauth2"}} :
           i \in DOMAIN t.secrets}

\* The sources of a profile's swaps.
Sources(t) ==
    UNION {t.secrets[i].source \cup Elems(t.secrets[i].keys) : i \in DOMAIN t.secrets}

\* Where a profile reads its plain secrets from.
SecretPlaces(t) == {s.at : s \in {u \in Sources(t) : u.type \in {"env", "file"}}}

-----------------------------------------------------------------------------

\* The keys of a profile's own judge, which `build_one' teaches the redactor
\* before it builds anything.
JudgeKeys(p, world) ==
    (UNION {l.key : l \in {m \in Elems(p.policy) : m.layer = "judge" /\ m.dialect = "systemone"}})
        \cap world.vars

BuildOne(cfg, p, world) ==
    IF Elems(p.transforms) \subseteq DOMAIN cfg.transforms
    THEN LET t == ResolveProfile(cfg, p)
         IN  BuildChain(cfg, p, t, world) \cup BuildResponseTransforms(t)
                \cup BuildRequestTransforms(t) \cup BuildSecrets(t, world)
    ELSE {"unknown_transforms"}

\* An unset password or an unknown user is an error, never a skipped entry.
BuildIdentities(cfg, world) ==
    Flag(\E r \in Elems(cfg.resolvers), e \in UNION {Elems(s.map) : s \in Elems(cfg.resolvers)} :
            /\ e \in Elems(r.map)
            /\ \/ r.type = "proxy_auth" /\ ~(e.password_env \subseteq world.vars)
               \/ r.type = "source_ip" /\ ~e.cidr_ok
               \/ /\ r.type = "peer_cred"
                  /\ \/ e.uid = {} /\ ~(e.username \subseteq world.names)
                     \/ e.gid = {} /\ ~(e.groupname \subseteq world.names),
         "identities")

Fallback(cfg, override) == IF override # {} THEN override ELSE cfg.unidentified

BuildFallback(cfg, override) ==
    Flag(~(Fallback(cfg, override) \subseteq DOMAIN cfg.profiles), "unknown_profile")

\* The roots marshal trusts, and the guard of its own calls.
SecretDeps(cfg, world) ==
    Flag(~(cfg.roots \subseteq world.files) \/ "malformed" \in cfg.deny, "deps")

\* `config check': the validator, then every profile's secrets.
ConfigCheck(cfg, world) ==
    /\ Validate(cfg) = {}
    /\ SecretDeps(cfg, world) = {}
    /\ \A p \in Profiles(cfg) : BuildSecrets(ResolveProfile(cfg, p), world) = {}

=============================================================================
