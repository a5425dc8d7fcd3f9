# bot-marshal, specified

bot-marshal is a proxy that stands between an AI agent and the network. Every
request an agent makes is identified, judged by a chain of policy layers,
possibly rewritten (secrets are put in on the way out), forwarded through a
guarded dialer, and recorded. This directory holds TLA+ models of the parts of
it whose correctness depends on order and interleaving, the TLC configurations
that check them, and TLAPS proofs of the results that matter most. All paths
below are relative to the repository; `crates/` is `src/crates/`.

## 1. Inventory

| part | where | state it keeps | operations | interacts with | what must hold |
|---|---|---|---|---|---|
| policy chain | `marshal-policy/src/chain.rs` | none beyond one evaluation | `evaluate` | layers, decider | nobody's silence becomes an allow; the trail is complete; it always decides |
| policy layers | `marshal-policy/src/layers/`, `hosts.rs`, `patterns.rs` | none | `evaluate` | chain | matching is what the configuration says |
| LLM judge | `marshal-judge/src/judge.rs`, `breaker.rs`, `scope.rs` | verdict cache, semaphore, breaker (a counter and an instant) | `evaluate` | chain, provider | permits come back; outages are not cached; the breaker reopens |
| judge providers | `marshal-judge/src/providers/` | none | `judge` | LLM APIs | answers are parsed |
| listener | `marshal-proxy/src/server.rs`, `socks5.rs`, `httpfront.rs` | one task per connection | CONNECT, absolute-form, SOCKS5 | runtime, chain, guard, audit | nothing upstream before a verdict |
| TLS interception | `marshal-proxy/src/mitm.rs` | the origin slot of a tunnel | `intercept`, `handle_request` | chain, transforms, responders, guard, audit | each request has its own verdict, origin and record |
| runtime and reload | `marshal-proxy/src/runtime.rs`, `management.rs` | the pointer to the current `Runtime` | `load`, `store` | every connection | one set of rules per connection |
| upstream guard | `marshal-http/src/guard.rs` | resolver cache | `connect` | listener, interception | forbidden addresses are not dialled |
| tunnel relay | `marshal-proxy/src/tunnel.rs`, `rewind.rs` | opening bytes | inspect, relay | listener | the SNI is checked before a byte goes out; it is a byte stream; neither half waits for the other |
| identity | `marshal-proxy/src/identity/` | run registry | `resolve` | listener | first resolver that knows wins |
| secrets and swaps | `marshal-secrets/src/source.rs`, `swap.rs` | environment, files | `resolve`, inject | transforms | a secret goes only where its swap says |
| OAuth2 source | `marshal-secrets/src/oauth/source.rs`, `token.rs` | minting lock | `resolve`, `mint`, enrolment | token store, provider | one mint per burst; a credential is never lost |
| OAuth2 token store | `marshal-secrets/src/oauth/store.rs` | access and grant maps, grant file | `grant`, `put_grant`, `put_access` | OAuth2 source, command line | on disk before it is used; never torn |
| OAuth2 capture broker | `marshal-secrets/src/oauth/broker.rs` | table of pending flows | three hooks | OAuth2 source, interception | the agent gets no token for a flow the broker has kept |
| OAuth2 bootstrap | `marshal-secrets/src/oauth/bootstrap.rs` | captured endpoints | hooks | interception | reads one exchange |
| redactor | `marshal-core/src/redact.rs` | bounded rings of learned values | `learn`, `redact` | audit | a live secret is not in a record |
| transforms, responders | `marshal-policy/src/transforms.rs` | the pending part of a stream | `apply`, `filter_sse_chunk`, `respond` | interception | limits hold; listings are filtered however they arrive |
| LLM router | `marshal-llm/src/` | the session of a translated stream | retarget, translate | interception | only mapped origins; a conversation survives translation |
| policy build, configuration | `marshal-policy/src/build.rs`, `marshal-config/src/` | the overlay of the env file | load, merge, validate, build | runtime | what is accepted can be built; a rejected one changes nothing |
| DNS capture | `marshal-dns/src/` | none | answer | agent | |
| TLS authority | `marshal-tls/src/` | leaf cache | `leaf_for` | interception | |
| audit, statistics | `marshal-audit/src/lib.rs`, `stats.rs` | files, counters | `emit` | everyone | a record tells what happened and shows no secret |
| command line, launch | `marshal-cli/src/main.rs`, `marshal-launch/src/` | none | commands | everything | |

Where the difficulty is:

* **Concurrency.** Every connection is a tokio task. They share the runtime
  pointer (replaced by a reload at any moment), the judge's cache, semaphore and
  breaker, the token store and its minting locks, and the brokers' tables. Every
  `await` is a place where another task runs.
* **Failure.** A layer, a transform, a responder, the provider, the disk or the
  dial may fail after earlier steps have had effects; clients hang up, which drops
  the handler's future wherever it waits; the daemon is killed between a
  provider's rotation and the disk.
* **Bytes.** Heads, hellos, bodies and events arrive in pieces, are buffered up to
  a cap, and what was read past an end has to be put back in front of the rest.
* **Order.** An intercepted CONNECT is answered and recorded before its dial; a
  passthrough tunnel is recorded before the SNI is seen; a refresh token must be on
  disk before its access token is used.
* **Time.** The judge's timeout and cooldown, the tokens' expiry, the provider's
  timeout under a lock, the lifetime of a captured flow.

The hazards are listed one by one, each at its line, in `PROJECT.json`.

## 2. Modules

| module | models | kind |
|---|---|---|
| `ChainOps` | the data of a chain and what an evaluation of it amounts to | operators |
| `ChainSpec` | what the chain promises: one decision, of the first layer that has one | abstract specification |
| `PolicyChain` | the loop of `Chain::evaluate` | specification, implements `ChainSpec` |
| `Judge` | `Judge::evaluate` in several tasks over cache, semaphore and breaker | specification |
| `Proxy` | a connection through the listener and the interception path, and reloads | specification, composes `ChainOps` |
| `ByteStream` | what a tunnel promises: each byte once and in order | abstract specification |
| `Wire` | one connection as bytes: sniffing, both front ends, hand-over, relay | specification, implements `ByteStream` |
| `Egress` | a request's transforms, swaps, minting, redaction, sending and records | specification |
| `Sse` | event streams: cutting, parsing, the two dialects' sessions | operators |
| `Mcp` | tool calls, constraints and listings | operators |
| `Translate` | requests and answers between the two LLM dialects | operators |
| `Body` | the bodies of an exchange, both ways, and a conversation | specification, composes `Sse`, `Mcp`, `Translate` |
| `Config` | the configuration document: loading, layering, validating, building | operators |
| `Daemon` | the life of `marshal serve`: start, seed, serve, reload, edits on disk | specification, composes `Config` |
| `Oauth` | one credential: sources, token store, file, provider, command line | specification |
| `Broker` | the capture of an authorization-code flow | specification |
| `Policy_proofs` | theorems about `PolicyChain` and `Judge` | proofs |
| `Proxy_proofs`, `Wire_proofs`, `Oauth_proofs`, `Broker_proofs`, `Daemon_proofs`, `Egress_proofs`, `Body_proofs` | theorems about the module they are named for | proofs |
| `MC*` | small instances for TLC | |

`Proxy`, `Wire`, `Egress` and `Body` are four views of the same path through
`server.rs` and `mitm.rs`: who may speak to whom and what is recorded; how bytes
are read and handed on; which credentials and headers leave; what becomes of the
bodies. Each takes from the others only what its own properties tell apart, as a
nondeterministic input: `Wire` leaves the verdict open, `Egress` and `Body` start
where `Proxy` has let a request in, `Proxy` has no bytes.

Most properties are conjunctions of named parts, each with a comment of its own,
stated next to them at the end of the module: `LogIsTrue`, for example, is
`AnswerIsOnRecord /\ LogTellsTheVerdict /\ RecordsDoNotPileUp`, and one part of one
property per module is the type invariant.

### PolicyChain

`next` is the loop's index, `trail` the evidence, `outcome` what `evaluate`
returns, `asked` the layer that deferred and waits for the decider. What each
layer will say, and what the decider will, are inputs fixed in `Init`, so that
`ChainSpec` (which decides in one step) and the loop talk about the same request.
One action per way through the loop body: a layer is skipped at connect phase, it
errs (and its failure mode answers), decides, passes or defers; the decider
answers; every layer passed. `Terminate` is `Chain::terminate` with warn mode.

### Judge

One `pc` per request. The cache lookup, the breaker's look, the wait for a
permit, the call, and, separately, the two updates of the breaker
(`consecutive_failures`, then `opened_at`) are steps, because other tasks run in
between. A failed call counts (`CountFailure`) and, at the threshold, opens
(`Trip`); a successful one zeroes (`ResetStreak`) and closes (`CloseBreaker`).
Instants are abstracted to closed / cooling / elapsed. `ClientGone` drops the
future at any await and returns its permit. The provider is external.

### Proxy

A connection is a record with a control point. The three front ends share what
they share in the code: parse, load the runtime, resolve the profile, evaluate,
refuse or establish, dial, relay or intercept; each request inside a tunnel then
goes through receive, evaluate, transform, responder, reuse or redial, record,
answer. The verdict is computed by `ChainOps!Decide` from nondeterministic layer
answers, so the chain is the one of `PolicyChain`. `installed` is the history of
runtimes, and a view is an index into it, so that two reads of the pointer can be
told apart. Bytes are abstracted to *which requests reached an upstream*, audit
records to request, action and the `would_deny` flag. A 400 to a request that does
not parse is not counted as an answer, since there is no request to record.

### Wire

The client's bytes are units: a message of the SOCKS5 handshake, a piece of a
request head, a numbered piece of payload. `sock` is the socket, `buf` what the
`BufReader` holds and later `Rewind`'s prefix, `opening` what `read_opening` has
gathered, `got` and `lost` the payload that reached the other side or was dropped.
The client writes whenever it likes, so everything after a head may have been read
ahead with it or not. `GiveUp`, `Establish`, `ConnectDials`, `SocksDials` and
`ForwardHead` are the ways out of the front ends; the relay's two halves are
`ReadOpening`, `Inspect`, `Flush`, `Copy` and `Downstream`. `ClientHello` parsing is
abstracted to the length a record announces, the part of it that the handshake
message takes, and the name. `TunnelIsAByteStream` is the refinement: `ByteStream`
with `written` the payload the client has written and `lossy` true of an
intercepted SOCKS5 tunnel, whose `into_inner` drops a prefix.

### Egress

Values are records that say whose they are (the client's, the configuration's, a
static secret, the n-th access or refresh token, a signature), so that what the
upstream gets can be traced to its source. A request is prepared by the transforms
in the order `build_request_transforms` and `build_runtime` put them (header
filter, set headers, router), then the injector walks its swaps, waiting for the
minting lock where a token has expired, then it is sent, and its record goes to
the tracing and the JSON sink. `ring` is the redactor's bounded list per label and
`taught`, a history variable, all it was ever told, so that "forgotten because
newer ones pushed it out" can be told from "never learned".

### Sse, Mcp, Translate, Body

A body is a sequence of units (brackets, tools, calls, keys, padding, the two
halves of a wide character, newlines); that is what lets a frame end in the middle
of an event, a line or a character. Each frame of a stream is decoded by itself, so a
character it cuts is replaced (`Lossy`), and the member the character belonged to is
from then on another one (`Member` negates its value): a text that was damaged on the
way cannot pass for the one that was sent. `Body` takes one exchange after another: the
request is read frame by frame up to the combined cap (`ReadFrame`, `ReadAll`),
judged (`Decide`, with the `dlp` and `mcp` layers), forwarded with the frames that
were put back in front; the answer is passed on, gathered and transformed
(`GatherAll`, `Finish`), or streamed through the filter and the dialect session
(`StreamFrame`, `StreamEnd`). `torn` remembers what was lost where a frame ended: a
character, or an event that was let go of over the cap, before its blank line. A peer
may break off at every frame. Beside that an
agent holds a conversation through the router: it repeats everything so far, heard
in its own dialect, and the origin is asked in its own. Sampling options and tool
definitions, which are copied field by field, are left out, a routed request
arrives in one piece, and texts that the code joins with a newline
(`translate.rs:366`) stay apart. Of an event's `data:` lines the first counts for a
Chat Completions origin and the last for a Messages origin, readable or not, as
`sse.rs:217` and `sse.rs:351` have it (`parse_sse_event`).

Loops over a body are recursive functions over its places, so that they can be
reasoned about: `At(s, I)` is what `s` has at the places `I`, `Documents` what
each of an event's `data:` lines has, `Strongest`, `Decision`, `Transformed` and
`Steps` the walks over layers and transforms. A profile is one `InOrder`: the router
first, as `build_runtime` inserts it, and the limiters behind the tool filters, as
`build_response_transforms` pushes them.

### Config, Daemon

The document is a record of what the files say, with the defaults serde fills in;
`Validate`, `BuildOne` and `ConfigCheck` return the sets of errors of the
validator, the builders and `config check`. A load reads the base file and then one
directory after the other (`ReadBase`, `ReadDir`), and the operator may `Edit`
between any two reads. Then `Accept` validates, `BuildProfile` builds one profile
after the other and teaches the redactor the judges' keys, and `Swap` or `Install`
puts the result in force. `serve` loads twice (for its own settings and for the
runtime); `Seed` resolves every secret once before `Serve`. `Rotate` changes a
secret file, and a file source looks again after its time to live.

### Oauth

`disk` and `tmp` are the grant file and its one temporary sibling; `grants` and
`access` the two maps of each process's `TokenStore`; `lock` the minting lock of
each `Oauth2Source`. A profile and a reload each build a source of their own over
the one store, and the command line is another process. `put_grant` is open,
fill, rename, cache; a writer's `fd` follows its file when somebody else renames
it, which is what makes two writers of one temporary path interesting. Contents
written through two descriptors are taken to be of one length, so that the last
writer's stand. The provider numbers refresh tokens, retires the presented one
when it rotates, and may revoke everything when a retired one is presented. Only
grants with an enrolled refresh token are modelled; client credentials and the JWT
bearer grant store nothing. A `scene` says which tasks and sources there are,
whether there is a token exchange and a revoking provider, and how many responses,
enrolments, crashes and logouts are left. `durable`, `mislaid` and `crossed` are
history variables: refresh tokens that have been on disk; whether a fault (timeout
after the rotation, crash, full disk, a cancelled request) took away an answer that
nobody can recover; whether two writers had the temporary file open at once.

### Broker

Flows are numbered in the order they enter the tables, so a table is a set of
numbers and its front is the smallest. An authorization request is captured,
captured although the rewritten URI did not fit (the flow is entered, the agent's
own challenge goes out), or left alone. The arrival of a redirect and `take` are
one step, for there is no await between them; the exchange after it is an await,
at which the agent may hang up. `FLOW_TTL` is a flag each entry gets at some time.
A token request that `respond` matches is answered locally (`Respond`). One that it
does not, being no POST or for another host or path of the provider, goes on to the
provider (`Forwarded`), which gives a token for a code of its own whose challenge the
agent can answer. `held` is what the agent was given: 0 the sentinel, n a real token
of flow n. What the exchange stores is `Oauth`'s `Enrol`.

## 3. Runs

Every run is on a small instance; the numbers are distinct states.

| run | instance | shows |
|---|---|---|
| `PolicyChain` (39 thousand) | every chain of up to two of four kinds of layer, both phases, both modes, both defaults, all answers | source of every allow, complete trail, refinement of `ChainSpec`, termination |
| `Judge` (69 thousand) | four requests (one out of scope), two keys, two permits, threshold two | permits add up, the cache and the answers are the provider's, the breaker reopens after a failed probe, every request ends |
| `Proxy` (144 thousand) | one connection of any kind, two requests in its tunnel, three configurations, one reload | only what was allowed is forwarded, and to its origin; log and wire agree; one set of rules; no stall |
| `Wire` (44 thousand) | eight openings, five hellos, five units of payload, buffers of two, openings of three | the name is compared before a byte goes out, the tunnel is a byte stream, neither half of a relay waits for the other |
| `Egress` (24 thousand) | fifteen profiles, two requests each, a ring of two | credentials go only where they belong and all or none; the record tells what was injected; secrets do not show; the signature covers what is sent; every request moves on |
| `Body` (76 thousand) | nine pipelines and five routed ones, fourteen bodies, twelve answers, three turns in seven styles; frames of 1, 3 and 8 units | the body arrives whole; a credential is stopped or said to be unscanned; only permitted calls pass; listings are filtered; caps hold; streams are well formed and say the same; a conversation of three rounds survives; every exchange ends |
| `Daemon` (30 thousand) | 83 directories, one edit, one secret file, two concurrent reloads, two starts | what the validator accepts can be built; what is in force is what was listed; a rejected reload changes nothing; the redactor is taught first; every load ends |
| `Oauth` (292 thousand) | five scenes of two or three tasks: a burst over two exchanging sources with a crash; an enrolment beside a burst; both processes with an enrolment, a crash and a logout; a revoking provider with three tasks on one source, a crash and a logout, and with two sources and an enrolment | a token is on disk before it is used and exchanged before it is handed out, the credential survives, one mint per burst, no task waits for ever |
| `Broker` (3.7 million, up to symmetry) | two tables of two, three requests over two states, two redirects | what is in the tables, what the agent sees, whose verifier is used, for which flows a token request that gets past the broker brings a token |

Why the bounds are enough. Two layers show every pair "earlier layer, later
layer", and the proofs cover longer chains. Two permits with three requests in
scope give queueing and overlap; threshold two is the least at which "a full
streak" and "one failure" differ. Two requests in a tunnel are needed for a pooled
connection to be stale, one reload for two views. In `Wire` a hello can be read
ahead whole, in part or not at all, fit the opening exactly, go on in a second
record or be too long. In `Egress` a renewal teaches up to two values to a ring of
two, so a token can be pushed out while the request that carries it is under way.
Of the two profiles with secrets that cannot be set one refuses the bearer among
three swaps, the other the header, where the agent's own stays, and the query.
In `Body` the caps of the participants lie on both sides of the bodies' lengths, an
event fits the stream's cap of 8 units with room for one wide character, each style
of long events (texts, names of calls, arguments) has those over it, in both
dialects, and three rounds are needed for a translated answer to be
translated back and forth; only the first turn of a conversation is streamed in
pieces. In `Daemon` one edit tears a load wherever it falls, and two reloads and
the start are the most builders that can overlap. Three tasks on two sources give
two tasks queued on one lock and a third on the other. Three flows overflow a table
of two, and with two redirects one flow can be redirected to twice; the states of a
flow are only compared, so their permutations are a symmetry. Deadlock checking is
off where a behaviour ends by itself: all requests answered, all bounds used up.

### Where the code does not do what is said of it

Three runs check a sentence from the repository and find it violated.

| run | sentence | what happens |
|---|---|---|
| `WireSocks` | SOCKS5 gets "exactly the same treatment" (`server.rs:412`); bytes read ahead "have to come first" (`rewind.rs:4`) | an intercepted SOCKS5 tunnel drops what the buffered reader has read ahead |
| `DaemonSecrets` | every path that obtains a credential calls `learn` before it can reach a sink (ADR-0029, line 33) | secrets are taught once, at the start: a rotated file, or one that a reload brings in, is injected unknown to the redactor |
| `BodyPlain` | a layer that scans bodies "applies its own oversize rule rather than seeing nothing" (`server.rs:574`) | a plain absolute-form request is judged with an empty body, which every scanning layer passes |

More was seen while modelling. The properties allow for it, each with the exception
in its comment, and it has no run of its own:

* `server.rs:821`: `mitm_handler` loads the runtime again, so a reload in between
  gives a tunnel the rules and the TLS engine of different runtimes, against
  `runtime.rs:5` ("reads the pointer once").
* `server.rs:377`: a destination no host-level layer has an opinion on is let
  through provisionally over CONNECT and refused over SOCKS5, against
  `server.rs:412`.
* `server.rs:546`, `689`: an unidentified request has no record, an intercepted
  CONNECT whose dial is refused has two, against `marshal-audit/src/lib.rs:3`
  ("exactly one record").
* `server.rs:597`: in warn mode a CONNECT that enforce mode would let through
  provisionally is recorded as `would_deny`, against `docs/troubleshooting.md:75`.
* `oauth/source.rs:323`: overlapping sources are called "a wasted mint, not a
  correctness problem"; with a provider that revokes on reuse, what is on disk is no
  longer accepted (`CredentialSurvives` excuses several sources of a revoking provider, and an
  enrolment beside one).
* `oauth/source.rs:990`: a response that omits the scope erases the stored one,
  against line 394. Scopes are not in the model.
* `oauth/store.rs:155`: two writers share a temporary file and one renames the
  other's contents, against line 10 ("*before* the access token it arrived with is
  handed to anyone"); `crossed` marks it.
* `oauth/store.rs:123-138`: `grant` reads the file and fills the cache without the
  lock in between, so the "write-through cache" (line 70) can keep an older grant
  than the disk has; `put_grant` fills it after the rename (line 160), with the same
  effect. The first is repaired by the next refresh. The second needs an enrolment
  beside a refresh and is fatal if the provider revokes on reuse: the retired token
  is presented from the cache. Found as a step that the invariant of `Oauth_proofs`
  did not survive.
* `oauth/source.rs:924-941`: an enrolment completed in the daemon caches the grant's
  own access token although `token_exchange` is configured, against line 266.
* `main.rs:1640`: `oauth logout` removes the file under a running daemon, whose next
  rotation stores a grant again.
* `breaker.rs:55`: a trip can set `opened_at` after another call's success has
  zeroed the counter; the breaker is then open with an empty streak and a failed
  probe does not reopen it, against the test at `breaker.rs:106`.
  `FailedProbeReopens` is therefore about probes let in on a full streak, until a
  success is recorded.
* `swap.rs:261`: a bearer or header secret that is no legal header value is not set
  and nothing is recorded; the agent's own header, if it sent one, goes out in its
  place. (A basic one is base64 and always legal, `swap.rs:196`.) The same goes for a
  query with which no URI can be built (`swap.rs:285`), the profile's `unfit` secrets.
  `RecordTellsInjection` demands that such a swap is not recorded, and
  `CredentialsGoTogether` excuses exactly these. Without a scheme, as in most
  requests, `http::Uri` accepts the missing path instead, and the request would go to
  `/` with the injection on record; that depends on the library and is not modelled
  (`ScenesAssumption`).
* `swap.rs:108`: exceptions compare the host as it was written, so a trailing dot
  evades an exception that the swap's own host matcher would see through.
* `main.rs:2541-2668` accepts two swaps of one name and a swap that sets `Host` or a
  hop-by-hop header: the record then says that a credential was injected and does not
  tell which, or the header does not go out.
* Signatures cover the `Host` the client sent; a plain or routed request goes out
  with another, and a swap after the signing one may change the query.
* The tracing sink writes the path as it is; a secret in a query is in it, and the
  JSON sink finds it only if percent-encoding has left it alone.
* A provider that reissues an earlier access token does not move it to the end of
  the redactor's ring, so it may be forgotten while it is in use.
* `mitm.rs:559` says that what cannot be filtered is refused; a listing that is over
  the limit, encoded, not JSON or a batch passes unfiltered, and so do multi-line
  events, events that end in CRLF and the tail of a stream.
* `mitm.rs:611`: an event over the cap is said to degrade to "passing through
  unfiltered", but its two pieces go through the router's session, neither parses,
  and both are dropped without a word (`sse.rs:222`, `105`). Where it opened a call,
  the arguments still come. To a Messages agent they go to the index they came with,
  which may be no open block or another one's (`sse.rs:302`), to a Chat Completions
  agent to the first call (`sse.rs:168`). `StreamIsFaithful` allows this of arguments
  once an event over the cap is torn, and of nothing else: no other delta comes
  outside its block, and no text or call is heard that the origin did not say.
* `mitm.rs:668`: each frame is decoded by itself, and a character it cuts is replaced.
  The properties of streams allow that one member to differ, and only if a frame did
  cut a character.
* `broker.rs:301`: a token request that is no POST, or for another host or path,
  is not answered but forwarded. `TokenOnlyForALostFlow` says for which flows the
  provider then gives the agent a token: those whose authorization request could not
  be rewritten.
* A Messages agent's text beside its tool results is put before them in the
  translated request; error events of the Messages API are dropped from a
  translated stream.
* The streaming filter asks for the host of the CONNECT, the buffered one for the
  authority after routing.
* A `dlp` hit in a header with `on_match: pass` leaves the body unscanned without
  the `BodyNotScanned` flag.
* A body transform that is not implemented is warned about by `config check` only if
  it stands in a profile, not if a bundle brings it in; concurrent reloads may leave
  the older of two builds in force.

### Fairness

* `PolicyChain`: the loop goes on (`WF(Next)`); every layer and the decider come
  back, each with an answer or an error.
* `Judge`: the executor polls a task that can run (`WF(Polls)`), which includes the
  timer of a call; tokio's semaphore is first come first served, hence `SF(Acquire)`.
  Nothing is assumed of the provider.
* `Proxy`: `WF(Proceeds)` for the steps that are the proxy's own, among them the
  guard's dial, which has a timeout. Clients and upstreams may stay silent, and
  `NeverStalls` only speaks of control points where neither is waited for.
* `Wire`: `WF(Upstream)` and `WF(Downstream)`, the two futures of the relay, which
  `tokio` polls separately. Neither peer has to write anything.
* `Egress`: `WF(Step)` for every request's own task, which includes the failure of a
  minting call (`bounded` has a timeout). The upstream need not answer.
* `Body`: `WF(Proxys)` and `WF(Frames)`: the proxy's task runs, and a peer that does
  not break off sends the next frame. That a peer does send is an assumption about
  the environment: the code puts no timeout on a body, so `EveryBodyEnds` shows only
  that the proxy itself never stops in the middle of one.
* `Daemon`: `WF` of each builder's steps and of what follows a build; a load only
  waits for the disk.
* `Oauth`: `WF(Proceeds)`, which includes `TimesOut` (`bounded`) and the lock, held
  by one task at a time until its call ends; the provider may never answer.

## 4. Proofs

Checked by TLAPS for every value of the constants. Each module of proofs begins with
its argument and its invariant; TLC checked every inductive invariant on the small
instance first. The assumptions are the named `ASSUME`s of the specifications, which
TLC evaluates on every run; the ones that are more than types are named below.

`Policy_proofs`, of the chain: `ChainTypeCorrect` (`TypeOK`), `ChainAllowHasASource`
(`AllowHasASource`), `ChainTrailIsComplete` (`TrailIsComplete`) and
`ChainImplementsPromise` (the loop implements `ChainSpec`). From the assumptions that
chains are chains over the given layers, that failure modes and needs are functions
of the layers, and that `NoOutcome` is no outcome. `AllowHasASource` is not
inductive: when the loop returns at layer `next`, that nobody before it decided has
to be known. The inductive invariant `IInv == TypeOK /\ LoopInv /\ AllowHasASource`
adds it: every layer behind `next` was skipped or amounts to a pass, a deferral is
pending only at `next`, and an outcome is `Decide` of the inputs. Two lemmas do the
work, `AdvanceIInv` (moving past a layer) and `ReturnIInv` (returning at one);
refinement follows since the outcome is set once and equals `Decide`. The trail is
complete because `Advance` and `Return` append exactly one entry, for the layer at
`next`.

`Policy_proofs`, of the judge (whose specification's names begin with `Judge`, so
that both fit in one module): `JudgeSharedStateIsSound` (`SharedStateIsSound`) and
`JudgeFailedProbeReopens` (the action property `FailedProbeReopens`), for any number
of requests and permits and any threshold. Permits add up because every step moves
at most one request into or out of the part of `evaluate` that holds one; the sum is
the cardinality of that set, hence `Enters`, `Leaves` and `Stays`. Cache and answers
are the provider's because of what a request heard before it writes either
(`HeardFirst`) and because the failure mode it remembers is a configured one. A
failed probe reopens because the streak that opened the breaker still counts while
there is a probe (`StreakStands`): only a success zeroes it, and a success ends the
probes that are spoken of.

`Proxy_proofs`: `ProxyOnlyAllowedIsForwarded`, `ProxyLogIsTrue` and
`ProxyOneSetOfRules`, for any number of connections, requests in a tunnel and
reloads, and any chains. Every action moves one connection, so the invariant is
`\A c : Good(conn[c], installed)`, and most lemmas are about the steps of one record.
`Past` is what has happened on the connection (every verdict was taken under the view
looked up first, everything forwarded was let out, everything dialed is the origin or
mapped from it, the log is ordered and vouched for); `Now` is what each control point
relies on, above all that what goes out has been `Cleared` and that a request under
way has no record yet (`Quiet`). A default deny may still let a CONNECT through
provisionally, so `Cleared` demands more than the default only where nothing will be
decided again (`Firm`). What the chain does is `ChainOps`' `Decide`, whose result is
described by `DecideSound`; that the first deciding layer exists is the least-number
principle (`LeastExists`), from `NatLessThanWellFounded`.

`Wire_proofs`: `WireOpeningIsInspected` (`OpeningIsInspected`) and
`WireTunnelIsAByteStream` (the connection implements `ByteStream`), for every size of
buffer, chunk and limit. Everything in the relay is a stretch of what the client
says, and the invariant says which: what was lost, what went out, what is held back,
what was read ahead and what lies in the socket follow one another without a gap
(`Placed`, `Relayed`). The lemmas on `Stretch` (cut, append, join) carry the proof.
`OpeningsAssumption` says what an opening is: the end of a head is its last unit, and
a SOCKS5 opening begins with its version. Both are what the parsers mean by an
end and a version.

`Oauth_proofs`: `OauthHandedOutIsSound` (`HandedOutIsSound`),
`OauthCredentialSurvives` (`CredentialSurvives`) and `OauthNoWastedMint` (the action
property `NoWastedMint`), for any number of requests, sources, processes and scenes,
with crashes, timeouts and disk faults. `OauthConfig` gives scenes and answers their
types and says that `None` is none of the values. The lock is held by whoever
refreshes (`Locks`), so a source that mints has found no token of its own and none
has come since but by an enrolment (`Needed`); a token is `Sound` from the rename on.
Survival is an argument about who knows a refresh token. One that only its writer
knows cannot be presented, and so is live (`Secret`); it becomes known no earlier
than it is on disk; from then on whoever retires it carries its successor
(`Survives`). A provider that revokes everything on seeing a dead token must never
see one (`Unrevoked`), which is true of one source without an enrolment beside it.
With one, it is false for three tasks: an enrolment that is slow to fill the cache
puts a retired grant back (`store.rs:160`); the property says so since.

`Broker_proofs`: `BrokerTakenOnce` (`TakenOnce`), `BrokerRedeemsItsOwn`
(`RedeemsItsOwn`), `BrokerTableIsSound` (`TableIsSound`) and
`BrokerTokenOnlyForALostFlow` (`TokenOnlyForALostFlow`), from `BoundsAssumption`.
`TakenOnce` needs to know that a taken flow is in no table, and since `take` removes
it from one only, that it was in no other. Hence
`IInv == Shape /\ Tables /\ Took /\ TakenOnce`: what is in a table was entered at that
broker and not taken; what was taken has the redirect's state and broker. That an
agent sees a code only of a flow that is lost is about counting: a flow leaves a full
table only if as many newer ones as the table holds have been entered, and newer ones
do not become fewer (`KeptUntilLost`, `NewestLeavesRoom`, `LostForGood`). For a real
token the challenge has to have been the agent's, which it is only where the rewrite
did not fit; and that flow, if it was entered, was lost when its redirect came, since
what a broker takes it redeems itself and never hands back.

`Daemon_proofs`: `DaemonRejectedChangesNothing` (`RejectedChangesNothing`),
`DaemonSeededBeforeServing` (`SeededBeforeServing`), `DaemonRedactorIsTaught`
(`RedactorIsTaught`, which has it as its first half), `DaemonRuntimeIsAsAsked`
(`RuntimeIsAsAsked`) and `DaemonValidatorKeepsItsPromise`
(`ValidatorKeepsItsPromise`). The first two rest on
`IInv == Shape /\ Asked /\ Starting /\ Held`: that a successful reload is told so
exactly once needs that a reload under way has not been answered; that what is held
at the end of the seeding is known needs that nothing was held before it, hence that
only a serving process has reloads under way and only a starting one has a start.
What validation and building compute does not matter to these, so `Config` is not
expanded.

To the others it is all that matters. `Config`'s operators are described first, for
documents of the shape `IsDocument` gives them: `ValidIs`, `ValidProfile` and
`ValidList` say what an empty list of errors means, `ResolvedIsValid` that merging
accepted bundles gives nothing the validator would refuse, `BuildOfValid` what a
build can still stop on, `ValidIsWhole` that every listed bundle has its effect
(of the bundles that set a part which cannot be merged there is at most one, and
merging keeps the latest). Lists are as long as one likes, so these need induction;
the library's induction theorems cannot be used, and `Inductive` states it for sets
of numbers instead, from `NatLessThanWellFounded`. The invariant is then
`IInv /\ Build`, `Build == Jobs /\ InForce /\ Counts`: a builder past the validator
has an accepted document (`Approved`), and the redactor knows the judges' keys of
the profiles it has built (`Taught`); hence what it hands over, and what is in force,
is accepted, has its fallback, and has all its keys taught (`Ready`); the generation
is at most the number of reloads told of success. Knowing is what makes this hold
beside the other builders: `known` only grows until the process ends, and then all
builders end with it.

The assumptions: `ReloadsAssumption` (finitely many, and none is the startup),
`BoundsAssumption`, `EditedAssumption`, `EnvFileAssumption`, `NamesAssumption` (the
names in the order of the `BTreeMap` are a sequence), `RevisionsAssumption` (a file
that parses is a document of the right shape, as serde sees to), and
`PlacesAssumption` (a secret file is not a variable). Of these only
`RevisionsAssumption` says something of documents, and nothing that `validate` checks.

`Egress_proofs`: `EgressCredentialsGoTogether` (`CredentialsGoTogether`),
`EgressRecordTellsInjection` (`RecordTellsInjection`), `EgressSignatureCovers`
(`SignatureCoversWhatIsSent`) and `EgressSecretsAreHidden` (`SecretsAreHidden`), for
any profiles, arrivals and number of requests. The first three rest on one invariant,
`Base == Typed /\ Requests /\ Mints`: only its own task changes a request, so
`Request` says for each control point what its context has been through. `Clean`
holds until the first swap; `Behind` says of the k-th swap that those before it have
set what they had to, or that their first value cannot be set; `Ready` that all of
them have, or that the endpoint is excepted. Beside that every credential has its
swap, its scope and its record (`Owned`, `Kept`), and whatever was signed has not
changed since (`Covered`). One lemma per way a swap places a value keeps these.
The last needs the redactor as well. Of each label there are two queues, what it was
taught and what it remembers, and `RedactorOf` relates them: what presented refresh
tokens left behind is the end of what was taught (`IsEndOf`); under the credential's
own label, where access and refresh tokens share the ring, a value that is gone has
been followed by a ringful (`OwnRing`). A request shows nothing its label was not
taught first (`Shown`), so what a log shows has been pushed out. What is in use is
the newest access token, after which at most one refresh token is learned: that is
why a ring of two is enough, and `ScenesAssumption` asks for no more (the code has
four, `redact.rs:34`). `ScenesAssumption` also says that an agent arrives with none
of the proxy's credentials, that a secret which leaves no URI is not asked for in a
plain request, and that a signing swap reads sources that are not minted. The last is a restriction of the model: `build_source` (`main.rs:2736`)
would build an `oauth2` source there as well. Two exceptions came out of the proof
and are in `RecordTellsInjection` since: names of swaps need not differ, and a swap
may set a header that the finished request replaces or drops (`Undone`).

`Body_proofs`: `BodiesArrive` (`BodyArrivesWhole`), `CredentialsAreStopped`
(`CredentialIsStoppedOrSaid`), `CallsArePermitted` (`CallIsPermitted`), `CapsAreKept`
(`CapsHold`) and `ListingsAreFiltered` (`ListingIsFiltered`), for any profiles, bodies,
answers, turns and servers and any way of cutting. The first half of the module says
what the operators do: `Recursion` gives every recursive function over the places of
a sequence its values, `UpTo` is the induction that goes with it (for sets of numbers,
from `NatLessThanWellFounded`), and on these rest the lemmas on cutting, on the
dialect session, on the filter, on encodings and on the walks over layers and
transforms.

The inductive invariant is `BInv == Typed /\ Requested /\ Responded /\ HeldBack`, with
`ended` set in the phase `"done"` and no other (`Exchanged`). `Requested` and
`Responded` say where the body is in each phase: what has been read is a front of it
(`Fronts`), a buffered one is all of it, one over the cap is what was read before the
rest; what is passed on is that, followed by what is still to come. On top of it:

* `Judged` (`LetGo`): a request that is being forwarded has been `Granted` by the mcp
  layers and `Scanned` by every dlp layer. It is settled in `Decide` and stays so
  since request, flags and profile do. The walk over the layers only adds flags and
  keeps the first refusal, so what each layer said is still true at the end.
* A limited answer is at most the limit because a limiter is never skipped: its cap
  is part of the combined one, so an answer over the cap of every transform has no
  limiter before it, and limiters come last. A cut leaves no half of a character, and
  neither does what the filters before it leave out.
* A listing shows only what may be shown or what the filter cannot read (`Excusable`).
  Gathered answers follow from the walk over the transforms. For a stream `Streams`
  says where in it the part is that is held back: `Placed(resp.units, pending, rest, x)`,
  what is held is what came from place `x` on, but for halves of characters that
  `from_utf8_lossy` replaced (`Blurred`, `Matched`), and `x` lies inside no event the
  filter can read (`Outside`). So such an event is taken in one chunk, and is a line
  of it (`LineOfEvent`).

The proof of the last found its property wrong as it used to stand: it spoke of
every event a tool occurs in, and took what is a document but for its last two units
for one the filter reads. But a stream may end without a blank line, and its tail is
passed on as it is; an event may have several lines; and the same tool may stand in a
second event that the filter cannot read. `ListingIsFiltered` now says that a
forbidden tool the agent sees is in *some* event that is not `OneLine`. `CapsHold` and
`CredentialIsStoppedOrSaid` lost a simplification each in the same way: characters are
kept whole only if every limiter that cuts does, and a layer that allows a match speaks
for those behind it, so that they are not asked. A profile of the instance now
has two of each.

The assumptions: `SizesAssumption` (frames are not empty, and there are finitely many
sizes of them), `SetupsAssumption` (the transforms of a profile are `InOrder`, and it
has a router if and only if it routes), `UnitsAssumption` (bodies, answers and turns
are sequences of units; what an LLM says is texts and calls) and `HostsAssumption`
("none", where a routed request goes, is no server's host).

Only model-checked: `StreamIsFaithful` and `ConversationSurvives`, which say what
translation makes of a whole stream and of a whole conversation: that needs an
invariant relating the dialect session to everything it has said, an induction over
the data of the stream, which is left; and all liveness (`NeverStalls`,
`EveryResolveEnds`, `EveryBodyEnds`, `EveryLoadEnds` and their like), which needs
fairness and is out of the prover's reach.

## 5. Not modelled, and the plan

Left out for good: judge providers' formats, claims, JWT, PKCE and forms, TLS
handshakes and certificates, the bytes of signatures, process and namespace set-up,
terminal output. Left out because they keep no state and every answer is one lookup:
allowlist, denylist and rules (their verdicts are inputs of `PolicyChain`), the host
matcher's patterns, DNS capture, identity resolvers (their outcome is an input of
`Proxy`). The OAuth2 bootstrap ends in an enrolment, which `Oauth` has. The guard's
filtering of addresses is a refusal or a dial in `Proxy`. Statistics and file
rotation of the audit log are counters nobody reads back. `PROJECT.json` says it
part by part.

Next:

1. proofs that a translated stream is well formed and says the same
   (`StreamIsFaithful`), from an invariant on the dialect session, and that a
   conversation survives (`ConversationSurvives`);
2. the guard's retry over several addresses, and the order of identity resolvers
   with the run registry;
3. host patterns and rules as operators against a reference definition.
