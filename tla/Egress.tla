------------------------------- MODULE Egress -------------------------------
(***************************************************************************)
(* An allowed request on its way out, and the record it leaves behind: the   *)
(* header filter and setter (transforms.rs), the LLM router (router.rs), the *)
(* secret injector (swap.rs) over static and minted credentials, the final   *)
(* touches of mitm.rs and server.rs, and the audit record as the sinks of     *)
(* marshal-audit write it through the shared redactor (redact.rs).            *)
(*                                                                         *)
(* Several requests run at once; they share the redactor and the credentials. *)
(* What the policy decided is in Proxy, how a token is obtained in Oauth.     *)
(***************************************************************************)
EXTENDS Integers, Sequences, FiniteSets, SequencesExt

CONSTANTS
    Reqs,       \* the requests under way
    Ring,       \* LEARNED_PER_LABEL
    Name,       \* what hosts, paths, headers, secrets and swaps are called
    Scenes      \* what is configured, and what the agents may ask

VARIABLES
    scene,      \* this proxy: [profile, arrivals]
    pc,         \* where each request is
    cx,         \* its RequestContext
    at,         \* the swap the injector is at
    token,      \* each minted credential: its current tokens
    lock,       \* who is minting it
    ring,       \* Inner.learned: what each label remembers
    taught,     \* history: all each label was ever taught, in order
    sent,       \* what has left for the upstream
    record,     \* the audit record being written
    written     \* what the sinks have written in the clear

vars == <<scene, pc, cx, at, token, lock, ring, taught, sent, record, written>>

profile == scene.profile

-----------------------------------------------------------------------------
(* Values.  A header's value says who put it there and what it is; `enc`     *)
(* that it is written in another form than its own (base64, percent).        *)

Val(by, of, n) == [by |-> by, of |-> of, n |-> n, enc |-> FALSE]

Client(name) == Val("client", name, 0)
SetTo(name)  == Val("config", name, 0)
\* Host: the bare name, or with the port written out (n = 1).
HostIs(h, n) == Val("host", h, n)
\* What a static source reads; the n-th access or refresh token of a minted
\* one; a signature made with a key pair.
Static(s)     == Val("secret", s, 0)
Access(s, n)  == Val("access", s, n)
Refresh(s, n) == Val("refresh", s, n)
Signature(s)  == Val("signature", s, 0)

IsSecret(v) == v.by \in {"secret", "access", "refresh"}
IsCredential(v) == IsSecret(v) \/ v.by = "signature"

\* SAFE_HEADER_VALUES, the names whose value a record shows; the framing that
\* no filter touches; the headers that describe this hop only.
SafeNames == {"via"}
request_header_is_managed == {"host", "proxy-authorization"}
HOP_BY_HOP == {"proxy-authorization"}

\* What the router takes away: it belongs to the endpoint the client addressed.
ClientCredentials == {"authorization", "x-api-key"}

Insert(f, name, v) == [x \in DOMAIN f \cup {name} |-> IF x = name THEN v ELSE f[x]]
Strip(f, names) == Restrict(f, DOMAIN f \ names)

Minted == {s \in DOMAIN profile.sources : profile.sources[s] = "minted"}
Label(s, purpose) == <<s, purpose>>
Labels == ((DOMAIN profile.sources) \X {"own"}) \cup (Minted \X {"refresh_token", "id_token"})

-----------------------------------------------------------------------------
(* What can be configured and asked. *)

Value == [by : {"client", "config", "host", "secret", "access", "refresh", "signature"},
          of : Name, n : Nat, enc : BOOLEAN]

\* The body: none, one the router cannot use, for a model it maps or not, or
\* what it has made of it.
Content == {"none", "raw", "garbled", "mapped", "unmapped", "translated"}

\* A signing swap's sources are taken to be read ones.  build_source would make
\* a minted one there as well; that is not modelled.
IsSwap(sw, sources) ==
    /\ sw.name \in Name /\ sw.kind \in {"basic", "bearer", "header", "query", "sigv4"}
    /\ sw.header \in Name
    /\ sw.sources \in Seq(DOMAIN sources) /\ sw.sources # << >>
    /\ sw.kind = "sigv4" => \A s \in Range(sw.sources) : sources[s] # "minted"

IsProfile(p) ==
    /\ DOMAIN p.sources \subseteq Name
    /\ p.sources \in [DOMAIN p.sources -> {"static", "minted", "unset"}]
    /\ p.swaps \in Seq(Range(p.swaps))
    /\ \A i \in DOMAIN p.swaps : IsSwap(p.swaps[i], p.sources)
    /\ p.set \subseteq Name
    /\ \A rt \in p.router : rt.to \in Name

\* An agent has none of the proxy's credentials.
IsArrival(a) ==
    /\ {a.plain, a.get, a.dotted} \subseteq BOOLEAN
    /\ {a.host, a.path} \subseteq Name /\ a.content \in Content
    /\ DOMAIN a.hdr \subseteq Name /\ a.hdr \in [DOMAIN a.hdr -> Value] /\ a.query \in Seq(Value)
    /\ \A v \in Range(a.hdr) \cup Range(a.query) : v.by \in {"client", "host"}

\* A ring has room for an access token and the refresh token it arrives with.
\* Secrets that leave no URI are tried on requests with a whole one, which a
\* tunnel may carry and a plain request, cut to its path, is not.
ASSUME ScenesAssumption ==
    /\ Ring \in Nat \ {0, 1}
    /\ {"authorization", "host", "x-amz-security-token"} \subseteq Name
    /\ \A s \in Scenes :
          /\ IsProfile(s.profile)
          /\ \A r \in Reqs : \A a \in s.arrivals[r] :
                IsArrival(a) /\ (s.profile.unfit # {} => ~a.plain)

-----------------------------------------------------------------------------
(* The redactor. *)

\* Mutated form: nothing is dropped.
RememberAll(q, v) == Append(q, v)

\* One label's queue takes a value: most recent last, the oldest dropped.
Remember(q, v) ==
    LET all == Append(q, v) IN
    SubSeq(all, 1 + (IF Len(all) > Ring THEN Len(all) - Ring ELSE 0), Len(all))

\* Redactor::learn: too short a value is not kept, and one that is already
\* there neither takes a slot nor renews the one it has.
Learn(q, v) ==
    IF v.of \in profile.short \/ v \in Range(q) THEN q ELSE Remember(q, v)

\* Redactor::redact finds a value where it is written as itself.
Hidden(v) == ~v.enc /\ \E l \in Labels : v \in Range(ring[l])

\* The values `taught` holds after v, wherever it was taught.
NewerThan(l, v) ==
    Cardinality({i \in DOMAIN taught[l] : \E j \in 1..(i - 1) : taught[l][j] = v})

\* The redactor was told of it, and has since been told of as many newer ones
\* as it keeps, under every label.
Forgotten(v) ==
    /\ \E l \in Labels : v \in Range(taught[l])
    /\ \A l \in Labels : v \in Range(taught[l]) => NewerThan(l, v) >= Ring

\* taught follows learn: a value counts once.
Note(q, v) == IF v \in Range(q) THEN q ELSE Append(q, v)

-----------------------------------------------------------------------------
(* The request transforms that run before the injector, in the order of       *)
(* build_request_transforms and build_runtime.                                *)

\* header_filter_apply: an allow list keeps what it names, a deny list drops it.
header_filter_apply(c) ==
    LET drops == {n \in DOMAIN c.hdr \ request_header_is_managed :
                    (n \in profile.filter.names) # (profile.filter.mode = "allow")}
    IN  [c EXCEPT !.hdr = Strip(@, drops)]

\* RequestHeaderSetter: replaces what the client supplied.
SetHeaders(c) ==
    [c EXCEPT !.hdr = [n \in DOMAIN @ \cup profile.set |->
                          IF n \in profile.set THEN SetTo(n) ELSE @[n]]]

Listens(c) ==
    \E rt \in profile.router : c.authority = rt.host /\ c.path = "/chat"

\* LlmRouter::apply on a model it maps: the body is translated, the client's
\* own credentials go, and the request is aimed at the mapped origin (Host
\* stays until the request is finished).
Routed(c, rt) ==
    [c EXCEPT !.authority = rt.to, !.dotted = FALSE, !.routed = TRUE, !.content = "translated",
              !.hdr = Strip(@, ClientCredentials), !.query = << >>,
              !.facts = @ \cup {<<"routed", rt.to>>}]

\* Whether the router cannot do its job: no buffered body, no model in it, or
\* one it does not map while the profile refuses those.
RouterFails(c) ==
    \E rt \in profile.router :
        /\ Listens(c)
        /\ \/ c.handle # "buffered"
           \/ c.content \in {"none", "raw", "garbled"}
           \/ c.content = "unmapped" /\ rt.unmapped = "deny"

Route(c) ==
    IF Listens(c) /\ c.content = "mapped"
    THEN Routed(c, CHOOSE rt \in profile.router : TRUE)
    ELSE c

\* What the chain and the transforms see of the body: a plain request's is
\* never read, an upgrade has none; it is buffered when the router or a
\* signing swap asks for it, up to the cap.
Handle(a) ==
    LET asked == \/ \E rt \in profile.router : a.host = rt.host /\ a.path = "/chat"
                 \/ \E i \in DOMAIN profile.swaps : profile.swaps[i].kind = "sigv4"
    IN  CASE a.plain -> "empty"
          [] ~a.plain /\ (a.upgrade \/ ~asked) -> "streaming"
          [] OTHER -> IF a.large THEN "overlimit" ELSE "buffered"

Context(a) ==
    [plain |-> a.plain, get |-> a.get, asked |-> a.host, authority |-> a.host, dotted |-> a.dotted,
     path |-> a.path, hdr |-> a.hdr, query |-> a.query, content |-> a.content, handle |-> Handle(a),
     facts |-> {}, routed |-> FALSE, sig |-> {}]

-----------------------------------------------------------------------------
(* The injector. *)

\* SecretInjector::excluded compares the host as it is written, so a trailing
\* dot, which a swap's scope ignores, makes it another one.
Excluded(c) == ~c.dotted /\ <<c.authority, c.path>> \in profile.exceptions

\* Mutated form: the scope is looked up with the host the client named.
MatchesAsked(sw, c) == c.asked \in sw.hosts

Matches(sw, c) == c.authority \in sw.hosts

Swap(r) == profile.swaps[at[r]]

\* The header a swap sets.
Place(sw) == IF sw.kind = "header" THEN sw.header ELSE "authorization"

\* Mutated form: the name is recorded whether or not the header could be set.
try_set_header_recording(c, sw, v) ==
    [c EXCEPT !.hdr = IF ~v.enc /\ v.of \in profile.unusable THEN @ ELSE Insert(@, Place(sw), v),
              !.facts = @ \cup {<<"injected", sw.name>>}]

\* A value no header can hold is not set, and nothing is recorded; in base64 a
\* header holds any.
try_set_header(c, sw, v) ==
    IF ~v.enc /\ v.of \in profile.unusable
    THEN c
    ELSE [c EXCEPT !.hdr = Insert(@, Place(sw), v), !.facts = @ \cup {<<"injected", sw.name>>}]

\* append_query: percent-encoded, after whatever query is there.  With a value
\* that leaves no URI (of a scheme and a host alone there is none), nothing is
\* set and nothing recorded.
append_query(c, sw, v) ==
    IF v.of \in profile.unfit
    THEN c
    ELSE [c EXCEPT !.query = Append(@, [v EXCEPT !.enc = v.of \in profile.odd]),
                   !.facts = @ \cup {<<"injected", sw.name>>}]

\* sign_sigv4 needs the body, of which a plain request has none.
SignFails(c, sw) ==
    c.handle \in {"overlimit", "streaming"} \/ Head(sw.sources) \in profile.unusable

\* Mutated form: what is signed is the target the client named.
sign_sigv4_asked(c, sw) ==
    [c EXCEPT !.hdr = Insert(@, "authorization", Signature(Head(sw.sources))),
              !.sig = {[host |-> HostIs(c.asked, 0), path |-> c.path, query |-> c.query,
                        content |-> "mapped"]},
              !.facts = @ \cup {<<"injected", sw.name>>}]

\* The Host that is there, or else the authority with its port, is what is set
\* and signed, with the path, the query and the body's hash; then the
\* session token and Authorization are set.
sign_sigv4(c, sw) ==
    LET host == IF "host" \in DOMAIN c.hdr THEN c.hdr.host ELSE HostIs(c.authority, 1)
        session == {i \in DOMAIN sw.sources : i = 3 /\ sw.sources[i] \notin profile.unusable}
        dressed == [x \in DOMAIN c.hdr \cup {"host"} |-> IF x = "host" THEN host ELSE c.hdr[x]]
        tokened == IF session = {} THEN dressed
                   ELSE Insert(dressed, "x-amz-security-token", Static(sw.sources[3]))
    IN  [c EXCEPT !.hdr = Insert(tokened, "authorization", Signature(Head(sw.sources))),
                  !.sig = {[host |-> host, path |-> c.path, query |-> c.query,
                            content |-> IF c.handle = "empty" THEN "none" ELSE c.content]},
                  !.facts = @ \cup {<<"injected", sw.name>>}]

\* What one swap does with the value it has resolved.
Apply(c, sw, v) ==
    CASE sw.kind = "basic"  -> try_set_header(c, sw, [v EXCEPT !.enc = TRUE])
      [] sw.kind \in {"bearer", "header"} -> try_set_header(c, sw, v)
      [] sw.kind = "query"  -> append_query(c, sw, v)
      [] sw.kind = "sigv4"  -> sign_sigv4(c, sw)

-----------------------------------------------------------------------------
NoRecord == [action |-> "none", facts |-> {}, path |-> {}, message |-> {}, headers |-> {}]

Init ==
    /\ scene \in Scenes
    /\ pc = [r \in Reqs |-> "new"]
    /\ cx = [r \in Reqs |-> Context(CHOOSE a \in scene.arrivals[r] : TRUE)]
    /\ at = [r \in Reqs |-> 1]
    /\ token = [s \in Minted |-> [access |-> 0, refresh |-> 0, live |-> FALSE,
                                  fresh |-> FALSE]]
    /\ lock = [s \in Minted |-> {}]
    \* resolve_all has taught the redactor what preload returns (see Daemon).
    /\ taught = [l \in Labels |-> IF l[1] \notin Minted THEN <<Static(l[1])>> ELSE << >>]
    /\ ring = [l \in Labels |-> IF l[1] \notin Minted THEN Learn(<< >>, Static(l[1])) ELSE << >>]
    /\ sent = [r \in Reqs |-> {}]
    /\ record = [r \in Reqs |-> NoRecord]
    /\ written = {}

secrets == <<token, lock, ring, taught>>

\* The chain has allowed a request of one of the kinds the agents make.
Arrive(r) ==
    /\ pc[r] = "new"
    /\ \E a \in scene.arrivals[r] : cx' = [cx EXCEPT ![r] = Context(a)]
    /\ pc' = [pc EXCEPT ![r] = "prepare"]
    /\ UNCHANGED <<scene, at, secrets, sent, record, written>>

\* The record's path: a plain request's whole target, query included; of an
\* intercepted one only the path.
PathShown(c) == IF c.plain THEN {v \in Range(c.query) : IsSecret(v)} ELSE {}

\* emit and emit_audit: both halves of the evidence, and headers by name, with
\* the value of the safe ones only.
Record(c, action, message, response) ==
    [action |-> action, facts |-> c.facts, path |-> PathShown(c), message |-> message,
     headers |-> response \cup {v \in {c.hdr[n] : n \in DOMAIN c.hdr \cap SafeNames} : IsSecret(v)}]

\* A transform fails: the request goes no further, and its record says so.
Refuse(r, message) ==
    /\ pc' = [pc EXCEPT ![r] = "tracing"]
    /\ record' = [record EXCEPT ![r] = Record(cx[r], "deny", message, {})]
    /\ UNCHANGED <<scene, cx, at, sent, written>>

\* Filter, setter and router.
Prepare(r) ==
    /\ pc[r] = "prepare"
    /\ LET c == SetHeaders(header_filter_apply(cx[r])) IN
       \/ /\ RouterFails(c)
          /\ Refuse(r, {})
       \/ /\ ~RouterFails(c)
          /\ cx' = [cx EXCEPT ![r] = Route(c)]
          /\ pc' = [pc EXCEPT ![r] = "swap"]
          /\ UNCHANGED <<scene, at, sent, record, written>>
    /\ UNCHANGED secrets

\* An endpoint of the flow itself: no swap applies, and the record says so.
Exclude(r) ==
    /\ pc[r] = "swap" /\ Excluded(cx[r]) /\ at[r] = 1
    /\ cx' = [cx EXCEPT ![r].facts = @ \cup {<<"not_injected", cx[r].authority>>}]
    /\ pc' = [pc EXCEPT ![r] = "send"]
    /\ UNCHANGED <<scene, at, secrets, sent, record, written>>

Injecting(r) ==
    /\ pc[r] = "swap"
    /\ at[r] <= Len(profile.swaps)
    /\ at[r] > 1 \/ ~Excluded(cx[r])

\* The host is out of this swap's scope.
SwapSkips(r) ==
    /\ Injecting(r) /\ ~Matches(Swap(r), cx[r])
    /\ at' = [at EXCEPT ![r] = @ + 1]
    /\ UNCHANGED <<scene, pc, cx, secrets, sent, record, written>>

Applied(r, v) ==
    /\ cx' = [cx EXCEPT ![r] = Apply(@, Swap(r), v)]
    /\ at' = [at EXCEPT ![r] = @ + 1]
    /\ UNCHANGED <<scene, pc, sent, record, written>>

\* Whether a swap's sources are static, minted, or one of them unset.
Kind(sw) ==
    IF \E i \in DOMAIN sw.sources : profile.sources[sw.sources[i]] = "unset"
    THEN "unset" ELSE profile.sources[Head(sw.sources)]

Due(r, kind) == Injecting(r) /\ Matches(Swap(r), cx[r]) /\ Kind(Swap(r)) = kind

\* A static source has its value at once; a signature can fail to be made.
SwapStatic(r) ==
    /\ Due(r, "static")
    /\ IF Swap(r).kind = "sigv4" /\ SignFails(cx[r], Swap(r))
       THEN Refuse(r, {})
       ELSE Applied(r, Static(Head(Swap(r).sources)))
    /\ UNCHANGED secrets

\* Mutated form: a source that fails is passed over.
SwapUnresolvedSkips(r) ==
    /\ Due(r, "unset")
    /\ at' = [at EXCEPT ![r] = @ + 1]
    /\ UNCHANGED <<scene, pc, cx, secrets, sent, record, written>>

\* A variable that is not set, a file that is gone.
SwapUnresolved(r) ==
    /\ Due(r, "unset")
    /\ Refuse(r, {})
    /\ UNCHANGED secrets

\* The cached token is still good.
SwapCached(r) ==
    /\ Due(r, "minted")
    /\ LET s == Head(Swap(r).sources) IN
       /\ token[s].live /\ lock[s] = {}
       /\ Applied(r, Access(s, token[s].access))
    /\ UNCHANGED secrets

Teach(s, purpose, vs) ==
    LET l == Label(s, purpose) IN
    /\ ring' = [ring EXCEPT ![l] = FoldLeft(Learn, @, vs)]
    /\ taught' = [taught EXCEPT ![l] = FoldLeft(Note, @, vs)]

\* It is not: this request takes the lock, reads the grant and teaches the
\* refresh token it is about to present.
MintBegins(r) ==
    /\ Due(r, "minted")
    /\ LET s == Head(Swap(r).sources) IN
       /\ ~token[s].live /\ lock[s] = {}
       /\ lock' = [lock EXCEPT ![s] = {r}]
       /\ Teach(s, "refresh_token", <<Refresh(s, token[s].refresh)>>)
    /\ UNCHANGED <<scene, pc, cx, at, token, sent, record, written>>

\* Mutated form: the id token shares the credential's label.
LearnedTogether(s, n, rt) == <<Access(s, n)>> \o rt \o <<Val("id", s, n)>>

\* post_token: the access token, then the refresh token if there is a new one,
\* under the credential's own label.
Learned(s, n, rt) == <<Access(s, n)>> \o rt

\* The provider answers with a token, the same as before or a new one, and a
\* new refresh token or none.  They are learned before anything else sees them.
MintEnds(r) ==
    \E s \in Minted, same \in BOOLEAN, rotates \in BOOLEAN :
        /\ pc[r] = "swap" /\ lock[s] = {r}
        /\ same => token[s].access > 0
        /\ LET n == IF same THEN token[s].access ELSE token[s].access + 1
               k == token[s].refresh + 1
           IN  /\ token' = [token EXCEPT ![s].access = n, ![s].live = TRUE, ![s].fresh = ~same,
                                         ![s].refresh = IF rotates THEN k ELSE @]
               /\ Teach(s, "own", Learned(s, n, IF rotates THEN <<Refresh(s, k)>> ELSE << >>))
               /\ Applied(r, Access(s, n))
        /\ lock' = [lock EXCEPT ![s] = {}]

\* Mutated form: the early return keeps the lock.
MintFailsHolding(r) ==
    \E s \in Minted, quoted \in BOOLEAN :
        /\ pc[r] = "swap" /\ lock[s] = {r}
        /\ Refuse(r, IF quoted THEN {Refresh(s, token[s].refresh)} ELSE {})
        /\ UNCHANGED secrets

\* It refuses, is out of reach or does not answer in time; the error may quote
\* what was presented.
MintFails(r) ==
    \E s \in Minted, quoted \in BOOLEAN :
        /\ pc[r] = "swap" /\ lock[s] = {r}
        /\ lock' = [lock EXCEPT ![s] = {}]
        /\ Refuse(r, IF quoted THEN {Refresh(s, token[s].refresh)} ELSE {})
        /\ UNCHANGED <<token, ring, taught>>

\* Time passes.
Expire(s) ==
    /\ token[s].live /\ lock[s] = {}
    /\ token' = [token EXCEPT ![s].live = FALSE]
    /\ UNCHANGED <<scene, pc, cx, at, lock, ring, taught, sent, record, written>>

AllSwapped(r) ==
    /\ pc[r] = "swap" /\ at[r] > Len(profile.swaps)
    /\ at[r] > 1 \/ ~Excluded(cx[r])
    /\ pc' = [pc EXCEPT ![r] = "send"]
    /\ UNCHANGED <<scene, cx, at, secrets, sent, record, written>>

\* The router answers the model catalogue itself; only an intercepted request
\* is offered to it.
Catalogue(c) == ~c.plain /\ c.get /\ c.path = "/v1/models" /\ \E rt \in profile.router : c.authority = rt.host

Respond(r) ==
    /\ pc[r] = "send" /\ Catalogue(cx[r])
    /\ pc' = [pc EXCEPT ![r] = "tracing"]
    /\ record' = [record EXCEPT ![r] = Record(cx[r], "allow", {}, {})]
    /\ UNCHANGED <<scene, cx, at, secrets, sent, written>>

\* The finished request: Host says where it goes, and this hop's headers stay.
Finished(c) ==
    [c EXCEPT !.hdr = Strip(Insert(@, "host", HostIs(c.authority, 0)), HOP_BY_HOP)]

\* To the origin; or it cannot be reached, which is recorded as a refusal.
Send(r) ==
    /\ pc[r] = "send" /\ ~Catalogue(cx[r])
    /\ \/ /\ sent' = [sent EXCEPT ![r] = {Finished(cx[r])}]
          /\ pc' = [pc EXCEPT ![r] = "await"]
          /\ UNCHANGED record
       \/ /\ pc' = [pc EXCEPT ![r] = "tracing"]
          /\ record' = [record EXCEPT ![r] = Record(cx[r], "deny", {}, {})]
          /\ UNCHANGED sent
    /\ UNCHANGED <<scene, cx, at, secrets, written>>

SecretsIn(c) == {v \in Range(c.hdr) \cup Range(c.query) : IsSecret(v)}

\* The upstream answers, and may give back in a safe header what it was sent.
\* The record of a plain request is written without waiting for an answer.
Answered(r) ==
    /\ pc[r] = "await"
    /\ \E echo \in BOOLEAN :
        /\ echo => ~cx[r].plain
        /\ record' = [record EXCEPT ![r] =
                         Record(cx[r], "allow", {}, IF echo THEN SecretsIn(cx[r]) ELSE {})]
    /\ pc' = [pc EXCEPT ![r] = "tracing"]
    /\ UNCHANGED <<scene, cx, at, secrets, sent, written>>

\* The exchange breaks off: hyper's error ends the connection, unrecorded.
BreaksOff(r) ==
    /\ pc[r] = "await"
    /\ pc' = [pc EXCEPT ![r] = "done"]
    /\ UNCHANGED <<scene, cx, at, secrets, sent, record, written>>

Written(r, sink, field, vs) ==
    {[req |-> r, sink |-> sink, field |-> field, value |-> v, forgotten |-> Forgotten(v)] : v \in vs}

Clear(vs) == {v \in vs : ~Hidden(v)}

\* RequestTracingSink: the message is redacted, and at audit detail the path
\* is written too, as it is.
EmitTracing(r) ==
    /\ pc[r] = "tracing"
    /\ pc' = [pc EXCEPT ![r] = "json"]
    /\ written' = written
            \cup Written(r, "tracing", "message", Clear(record[r].message))
            \cup (IF profile.detail = "audit" THEN Written(r, "tracing", "path", record[r].path) ELSE {})
    /\ UNCHANGED <<scene, cx, at, secrets, sent, record>>

\* Mutated form: the fields that hold free text are redacted.
EmitJsonMessage(r) ==
    /\ pc[r] = "json"
    /\ pc' = [pc EXCEPT ![r] = "done"]
    /\ written' = written \cup Written(r, "json", "any",
                      Clear(record[r].message) \cup record[r].path \cup record[r].headers)
    /\ UNCHANGED <<scene, cx, at, secrets, sent, record>>

\* JsonSink: the whole document is redacted, with what is known by now.
EmitJson(r) ==
    /\ pc[r] = "json"
    /\ pc' = [pc EXCEPT ![r] = "done"]
    /\ written' = written \cup Written(r, "json", "any",
                      Clear(record[r].message \cup record[r].path \cup record[r].headers))
    /\ UNCHANGED <<scene, cx, at, secrets, sent, record>>

Inject(r) ==
    \/ Exclude(r) \/ SwapSkips(r) \/ SwapStatic(r) \/ SwapUnresolved(r) \/ SwapCached(r)
    \/ MintBegins(r) \/ MintEnds(r) \/ MintFails(r) \/ AllSwapped(r)

\* What this request's task does by itself; the provider is given a timeout.
Step(r) ==
    Prepare(r) \/ Inject(r) \/ Respond(r) \/ Send(r) \/ EmitTracing(r) \/ EmitJson(r)

Next ==
    \/ \E r \in Reqs : Arrive(r) \/ Step(r) \/ Answered(r) \/ BreaksOff(r)
    \/ \E s \in Minted : Expire(s)

Spec == Init /\ [][Next]_vars /\ \A r \in Reqs : WF_vars(Step(r))

-----------------------------------------------------------------------------
(* Properties. *)

TypeOK ==
    /\ scene \in Scenes
    /\ pc \in [Reqs -> {"new", "prepare", "swap", "send", "await", "tracing", "json", "done"}]
    /\ \A r \in Reqs : at[r] \in 1..(Len(profile.swaps) + 1)
    /\ \A s \in Minted : lock[s] \in {{}} \cup {{r} : r \in Reqs}
    /\ \A l \in Labels : Len(ring[l]) <= Ring

\* The swap a credential on the wire came from is for that host.
Owns(sw, v, c) == v.of \in Range(sw.sources) /\ c.authority \in sw.hosts

\* A credential only goes where it belongs, wherever the router has turned the
\* request to: one of the proxy's own to a host in the scope of a swap that
\* holds it and never to an endpoint that is excepted (swap.rs: excluded), the
\* agent's own to the host it addressed.
CredentialStaysInScope ==
    \A r \in Reqs : \A c \in sent[r] :
        /\ \A v \in Range(c.hdr) \cup Range(c.query) :
              IsCredential(v) =>
                  /\ \E i \in DOMAIN profile.swaps : Owns(profile.swaps[i], v, c)
                  /\ ~Excluded(c)
        /\ \A n \in DOMAIN c.hdr \cap ClientCredentials :
              c.hdr[n].by = "client" => c.authority = c.asked

\* A secret that no header can hold as it is, and one that leaves no URI.
Unfit(p, sw) ==
    \/ sw.kind \in {"bearer", "header"} /\ Head(sw.sources) \in p.unusable
    \/ sw.kind = "query" /\ Head(sw.sources) \in p.unfit

\* A request leaves with every credential its host is in scope for, or not at
\* all (mitm.rs: a transform that cannot do its job must not be skipped), also
\* when a later swap fails after an earlier one was set.  The exceptions are
\* the code's: an excepted endpoint, and what cannot be put in its place.
WholeOrNothing ==
    \A r \in Reqs : \A c \in sent[r] : \A i \in DOMAIN profile.swaps :
        LET sw == profile.swaps[i] IN
        c.authority \in sw.hosts =>
            \/ <<"injected", sw.name>> \in c.facts
            \/ Excluded(c)
            \/ Unfit(profile, sw)

\* All of the credentials a request needs, to where they belong, or nothing.
CredentialsGoTogether == TypeOK /\ CredentialStaysInScope /\ WholeOrNothing

\* A header that the finished request gets anew or loses: a swap that sets one
\* is recorded, and what it has set does not go out.
Undone == {"host"} \cup HOP_BY_HOP

\* At the place of a swap there is a credential, in a query one of its own.
Stands(sw, c) ==
    IF sw.kind = "query"
    THEN \E v \in Range(c.query) : IsCredential(v) /\ v.of \in Range(sw.sources)
    ELSE Place(sw) \in DOMAIN c.hdr /\ IsCredential(c.hdr[Place(sw)])

\* The record of a request names the swap of every credential that left with
\* it, and names none that set nothing: at the place of a swap it names there
\* is a credential and not what the agent had put there.  The names are the
\* operator's; nothing makes them differ.
RecordTellsInjection ==
    \A r \in Reqs : \A c \in sent[r] :
        record[r].action = "allow" =>
            /\ \A v \in Range(c.hdr) \cup Range(c.query) :
                  IsCredential(v) =>
                      \E i \in DOMAIN profile.swaps :
                          /\ v.of \in Range(profile.swaps[i].sources)
                          /\ <<"injected", profile.swaps[i].name>> \in record[r].facts
            /\ \A i \in DOMAIN profile.swaps :
                  LET sw == profile.swaps[i] IN
                  /\ <<"injected", sw.name>> \in record[r].facts
                  /\ \A j \in DOMAIN profile.swaps : profile.swaps[j].name = sw.name => j = i
                  /\ sw.kind # "query" => Place(sw) \notin Undone
                  => Stands(sw, c)

\* What the JSON log, or a message in any log, shows of a credential is one
\* the redactor has been told of and has had to forget: since then it was told
\* of as many newer values of that label as it keeps (redact.rs:
\* LEARNED_PER_LABEL).  A token is known from before it is first used.  Values
\* too short to redact, and those written in another form, are not covered;
\* nor is the path that the tracing sink writes as it is.
RecentIsHidden ==
    \A w \in written :
        (w.field # "path" /\ ~w.value.enc /\ w.value.of \notin profile.short) => w.forgotten

\* The token that is in use is hidden, whatever was learned beside it, unless
\* the provider handed out the same one again: learning it again does not
\* renew it.
LiveIsHidden ==
    \A s \in Minted \ profile.short :
        token[s].live /\ token[s].fresh => Hidden(Access(s, token[s].access))

\* The logs show no credential that the redactor ought to know, and the one in
\* use is always among those it knows.
SecretsAreHidden == RecentIsHidden /\ LiveIsHidden

\* What was signed is what is sent (swap.rs: "The signature covers exactly what
\* is sent"): path, query, Host and body, after every rewrite.  Except where
\* the code lets them drift: a Host that is not the one the finished request
\* gets, a query swap after the signing one, the unread body of a plain request.
SignatureCoversWhatIsSent ==
    \A r \in Reqs : \A c \in sent[r] : \A g \in c.sig :
        /\ g.path = c.path
        /\ c.handle # "empty" => g.content = c.content
        /\ ~c.routed /\ g.host = HostIs(c.asked, 0) => g.host = c.hdr.host
        /\ (\A i, j \in DOMAIN profile.swaps :
              profile.swaps[i].kind = "sigv4" /\ profile.swaps[j].kind = "query" => j < i)
              => g.query = c.query

\* A request that has been let through gets an answer or a record in the end:
\* it waits for no other request for ever, only for its upstream.
EveryRequestMovesOn ==
    \A r \in Reqs : (pc[r] \in {"prepare", "swap", "send", "tracing", "json"}) ~>
                        (pc[r] \in {"await", "done"})
=============================================================================
