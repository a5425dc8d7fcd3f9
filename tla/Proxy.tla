------------------------------- MODULE Proxy --------------------------------
(***************************************************************************)
(* The listener and the interception path of marshal-proxy: what happens to *)
(* one client connection from the first byte to the last, over HTTP CONNECT,*)
(* absolute-form HTTP and SOCKS5 (server.rs), and to each request inside an *)
(* intercepted tunnel (mitm.rs), while the management API replaces the      *)
(* configuration underneath (runtime.rs).                                   *)
(*                                                                          *)
(* Every await is a step boundary.  A connection is a record; its control   *)
(* point is `pc`.  Clients, upstreams, the DNS and the outcome of a         *)
(* transform are the environment.                                           *)
(***************************************************************************)
EXTENDS ChainOps, FiniteSets

CONSTANTS
  Conn,               \* client connections
  Host,               \* destinations
  Config,             \* the configurations a reload may install
  InitialConfig,      \* the one the daemon starts with
  ChainOf,            \* Config -> Chain
  Passthrough,        \* Config -> set of hosts of tls.passthrough
  DenyUnidentified,   \* Config -> BOOLEAN
  MappedTo,           \* Config -> Host -> hosts the LLM router may send it to
  Says,               \* Layer -> the answers that layer can give
  MaxReloads,         \* bound: reloads in a behaviour
  MaxRequests,        \* bound: requests inside one tunnel
  None                \* no value

ASSUME ProxyConfig ==
  /\ InitialConfig \in Config
  /\ ChainOf \in [Config -> Chain]
  /\ Passthrough \in [Config -> SUBSET Host]
  /\ DenyUnidentified \in [Config -> BOOLEAN]
  /\ MappedTo \in [Config -> [Host -> SUBSET Host]]
  /\ Says \in [Layer -> SUBSET Answer]
  /\ MaxReloads \in Nat /\ MaxRequests \in Nat

VARIABLES
  installed,  \* the configurations stored so far; the last is current
  conn        \* Conn -> the state of its task

vars == <<installed, conn>>

Kind == {"connect", "absolute", "socks5"}

\* RuntimeHandle::load
Load == Len(installed)

Fresh ==
  [ pc        |-> "idle",
    kind      |-> None,    \* which front end parsed it
    host      |-> None,    \* the authority asked for
    view      |-> 0,       \* the Runtime loaded after parsing
    tls       |-> 0,       \* the Runtime the handler's TlsEngine came from
    req       |-> 0,       \* 0: the connection's own request; n: nth in the tunnel
    given     |-> None,    \* what the layers said to the current request
    verdict   |-> None,    \* what the chain decided of it
    target    |-> None,    \* cx.authority after the transforms
    slot      |-> None,    \* the origin the pooled connection goes to
    dialed    |-> {},      \* hosts the guard connected to for this client
    forwarded |-> {},      \* requests whose bytes reached an upstream
    verdicts  |-> {},      \* history: what was decided, of which request, in
                           \* which phase, by the chain of which view
    replies   |-> {},      \* requests the client got an answer to
    log       |-> <<>> ]   \* audit records

\* ------------------------------------------------------------- helpers
Cfg(c)      == installed[conn[c].view]
TheChain(c) == ChainOf[Cfg(c)]

\* Server::intercepts
Intercepts(c) == conn[c].host \notin Passthrough[Cfg(c)]

\* mitm::defers_connect: a transform may send this host somewhere else.
DefersConnect(c) == MappedTo[Cfg(c)][conn[c].host] # {}

\* What the layers of a chain may say, and the production decider denies.
Inputs(chain) == {a \in [Positions(chain) -> Answer] :
                    \A i \in Positions(chain) : a[i] \in Says[chain.layers[i]]}
Approval == "deny"

\* server.rs: a CONNECT is a pre-filter.  A refusal that is only the default's
\* proceeds to interception when request-level layers will decide there.
Provisional(c, outcome) ==
  /\ conn[c].kind = "connect"
  /\ outcome.action = "deny"
  /\ outcome.layer = DefaultAction
  /\ Intercepts(c)
  /\ RequestOnly(TheChain(c)) # {}

PhaseOf(c) == IF conn[c].kind = "absolute" \/ conn[c].req > 0 THEN "request" ELSE "connect"

\* emit_audit and mitm::emit
Record(c, action, would_deny, why) ==
  [req |-> conn[c].req, action |-> action, would_deny |-> would_deny, why |-> why]

Emit(c, rec) == Append(conn[c].log, rec)

Reply(c) == conn[c].replies \union {conn[c].req}

Deny(c, why) == Emit(c, Record(c, "deny", FALSE, why))

\* Mutant: an allow is recorded without the warn-mode flag.
AllowUnflagged(c, why) == Emit(c, Record(c, "allow", FALSE, why))

Allow(c, why) == Emit(c, Record(c, "allow", conn[c].verdict.would_deny, why))

At(c, pcs) == conn[c].pc \in pcs

Set(c, r) == conn' = [conn EXCEPT ![c] = r] /\ UNCHANGED installed

\* The answer of a refused request: on a tunnel the next one may follow,
\* otherwise the connection is over.
After(c) == IF conn[c].req > 0 THEN "serving" ELSE "closed"

-----------------------------------------------------------------------------
Init ==
  /\ installed = <<InitialConfig>>
  /\ conn = [c \in Conn |-> Fresh]

\* The front end parses a request, or does not (a malformed head, a Host
\* header naming another host, a failed SOCKS5 handshake); the 400 it may send
\* then is not counted as the answer to a request.
Parse(c, k, h) ==
  /\ At(c, {"idle"})
  /\ Set(c, [conn[c] EXCEPT !.pc = "parsed", !.kind = k, !.host = h])

BadRequest(c) ==
  /\ At(c, {"idle"})
  /\ Set(c, [conn[c] EXCEPT !.pc = "closed"])

\* Mutant: the view is taken as the one after the current.
LoadRuntimeNext(c) ==
  /\ At(c, {"parsed"})
  /\ Set(c, [conn[c] EXCEPT !.pc = "loaded", !.view = Load + 1])

LoadRuntime(c) ==
  /\ At(c, {"parsed"})
  /\ Set(c, [conn[c] EXCEPT !.pc = "loaded", !.view = Load])

\* Identity resolution failed to name a usable profile, or the connection is
\* unattributed and the configuration refuses those.
NoProfile(c) ==
  /\ At(c, {"loaded"})
  /\ Set(c, [conn[c] EXCEPT !.pc = "closed", !.replies = Reply(c)])

Unidentified(c) ==
  /\ At(c, {"loaded"})
  /\ DenyUnidentified[Cfg(c)]
  /\ Set(c, [conn[c] EXCEPT !.pc = "closed", !.replies = Reply(c)])

\* The chain of the resolved profile decides: on the authority for a tunnel,
\* on the head for absolute-form, on the whole request inside a tunnel.
Evaluate(c) ==
  /\ At(c, {"loaded", "received"})
  /\ \E a \in Inputs(TheChain(c)) :
       LET outcome == Decide(TheChain(c), PhaseOf(c), a, Approval)
           final   == IF conn[c].req = 0 /\ Provisional(c, outcome)
                        THEN [outcome EXCEPT !.action = "allow"] ELSE outcome
       IN  Set(c, [conn[c] EXCEPT !.pc = "judged", !.given = a, !.verdict = final,
                     !.verdicts = @ \union {[req |-> conn[c].req, phase |-> PhaseOf(c),
                                            view |-> conn[c].view, layer |-> outcome.layer,
                                            action |-> final.action,
                                            would_deny |-> final.would_deny]}])

Refused(c)   == At(c, {"judged"}) /\ conn[c].verdict.action = "deny"
Permitted(c) == At(c, {"judged"}) /\ conn[c].verdict.action = "allow"

Refuse(c) ==
  /\ Refused(c)
  /\ Set(c, [conn[c] EXCEPT !.pc = After(c), !.replies = Reply(c), !.log = Deny(c, "chain")])

\* Request transforms run only once the chain has allowed, and only where the
\* request itself is visible.  One may name another origin, or fail.
HasRequest(c) == conn[c].kind = "absolute" \/ conn[c].req > 0

Transform(c) ==
  /\ Permitted(c)
  /\ HasRequest(c)
  /\ \E t \in {conn[c].host} \union MappedTo[Cfg(c)][conn[c].host] :
       Set(c, [conn[c] EXCEPT !.target = t,
                 !.pc = IF conn[c].req > 0 THEN "transformed" ELSE "dialing"])

TransformFails(c) ==
  /\ Permitted(c)
  /\ HasRequest(c)
  /\ Set(c, [conn[c] EXCEPT !.pc = After(c), !.replies = Reply(c),
               !.log = Deny(c, "transform")])

\* CONNECT is answered before the origin is dialled; an intercepted one is
\* also recorded before.
Establish(c) ==
  /\ Permitted(c)
  /\ conn[c].kind = "connect" /\ conn[c].req = 0
  /\ Set(c, [conn[c] EXCEPT !.replies = Reply(c), !.target = conn[c].host,
               !.log = IF Intercepts(c) THEN Allow(c, "chain") ELSE @,
               !.pc = IF Intercepts(c) /\ DefersConnect(c) THEN "dialed" ELSE "dialing"])

\* Mutant: the deferred dial of a mapped host is left to nobody.
SocksAlwaysDials(c) ==
  /\ Permitted(c)
  /\ conn[c].kind = "socks5" /\ conn[c].req = 0
  /\ ~(Intercepts(c) /\ DefersConnect(c))
  /\ Set(c, [conn[c] EXCEPT !.target = conn[c].host, !.pc = "dialing"])

\* SOCKS5 dials first and answers afterwards.
SocksDials(c) ==
  /\ Permitted(c)
  /\ conn[c].kind = "socks5" /\ conn[c].req = 0
  /\ Set(c, [conn[c] EXCEPT !.target = conn[c].host,
               !.pc = IF Intercepts(c) /\ DefersConnect(c) THEN "dialed" ELSE "dialing"])

\* Mutant: the origin is dialled while the chain is still deciding.
GuardConnectsEarly(c) ==
  /\ At(c, {"dialing", "loaded"})
  /\ Set(c, [conn[c] EXCEPT !.pc = IF @ = "dialing" THEN "dialed" ELSE @,
               !.slot = conn[c].target, !.dialed = @ \union {conn[c].host}])

\* UpstreamGuard::connect
GuardConnects(c) ==
  /\ At(c, {"dialing"})
  /\ Set(c, [conn[c] EXCEPT !.pc = "dialed", !.slot = conn[c].target,
               !.dialed = @ \union {conn[c].target}])

\* emit_guard_failure, and the answer where one is still owed.
GuardRefuses(c) ==
  /\ At(c, {"dialing"})
  /\ Set(c, [conn[c] EXCEPT !.pc = "closed", !.replies = Reply(c), !.log = Deny(c, "guard")])

\* Absolute-form: the rebuilt head goes out, then the record, then raw bytes.
ForwardHead(c) ==
  /\ At(c, {"dialed"})
  /\ conn[c].kind = "absolute"
  /\ Set(c, [conn[c] EXCEPT !.pc = "relaying", !.forwarded = @ \union {0},
               !.log = Allow(c, "chain")])

\* Mutant: the relay starts and the SNI is looked at on the side.
StartTunnelRelaying(c) ==
  /\ At(c, {"dialed"})
  /\ conn[c].kind # "absolute"
  /\ ~Intercepts(c)
  /\ Set(c, [conn[c] EXCEPT !.pc = "inspecting", !.log = Allow(c, "chain"),
               !.replies = Reply(c), !.forwarded = @ \union {0}])

\* A tunnel that is not intercepted: recorded, then the first client bytes
\* are inspected before any of them is relayed.
StartTunnel(c) ==
  /\ At(c, {"dialed"})
  /\ conn[c].kind # "absolute"
  /\ ~Intercepts(c)
  /\ Set(c, [conn[c] EXCEPT !.pc = "inspecting", !.log = Allow(c, "chain"),
               !.replies = Reply(c)])

SniMatches(c) ==
  /\ At(c, {"inspecting"})
  /\ Set(c, [conn[c] EXCEPT !.pc = "relaying", !.forwarded = @ \union {0}])

SniMismatch(c) ==
  /\ At(c, {"inspecting"})
  /\ Set(c, [conn[c] EXCEPT !.pc = "closed", !.log = Deny(c, "sni")])

\* An intercepted tunnel.  mitm_handler() loads the runtime again for the
\* TLS engine it will dial origins with; CONNECT was recorded before the dial.
BuildHandler(c) ==
  /\ At(c, {"dialed"})
  /\ conn[c].kind # "absolute"
  /\ Intercepts(c)
  /\ Set(c, [conn[c] EXCEPT !.pc = "handshaking", !.tls = Load,
               !.log = IF conn[c].kind = "socks5" THEN Allow(c, "chain") ELSE @,
               !.replies = Reply(c)])

\* mitm::intercept: TLS with the client, then with the dialled origin.
Handshake(c) ==
  /\ At(c, {"handshaking"})
  /\ Set(c, [conn[c] EXCEPT !.pc = "serving"])

\* ------------------------------------------- a request inside the tunnel
\* Mutant: the first request inside the tunnel rides on the CONNECT's verdict.
ReceiveOnTheConnectVerdict(c) ==
  /\ At(c, {"serving"})
  /\ conn[c].req < MaxRequests
  /\ Set(c, [conn[c] EXCEPT !.pc = "judged", !.req = @ + 1, !.target = None])

\* Mutant: every request looks up the configuration anew.
ReceiveReloading(c) ==
  /\ At(c, {"serving"})
  /\ conn[c].req < MaxRequests
  /\ Set(c, [conn[c] EXCEPT !.pc = "received", !.req = @ + 1, !.verdict = None,
               !.given = None, !.target = None, !.view = Load])

Receive(c) ==
  /\ At(c, {"serving"})
  /\ conn[c].req < MaxRequests
  /\ Set(c, [conn[c] EXCEPT !.pc = "received", !.req = @ + 1, !.verdict = None,
               !.given = None, !.target = None])

\* Mutant: a responder's answer is recorded and the request goes on upstream.
RespondsAndGoesOn(c) ==
  /\ At(c, {"transformed"})
  /\ Set(c, [conn[c] EXCEPT !.replies = Reply(c), !.pc = "awaiting",
               !.log = Allow(c, "responder")])

\* A responder answers in the upstream's place, fails, or has nothing to say.
Responds(c) ==
  /\ At(c, {"transformed"})
  /\ Set(c, [conn[c] EXCEPT !.pc = "serving", !.replies = Reply(c),
               !.log = Allow(c, "responder")])

ResponderFails(c) ==
  /\ At(c, {"transformed"})
  /\ Set(c, [conn[c] EXCEPT !.pc = "serving", !.replies = Reply(c),
               !.log = Deny(c, "responder")])

\* Mutant: any pooled connection will do.
ReuseAny(c) ==
  /\ At(c, {"transformed"})
  /\ conn[c].slot # None
  /\ Set(c, [conn[c] EXCEPT !.pc = "awaiting", !.forwarded = @ \union {conn[c].req}])

\* OriginPool::send: the pooled connection if it goes to this very origin.
Reuse(c) ==
  /\ At(c, {"transformed"})
  /\ conn[c].slot = conn[c].target
  /\ Set(c, [conn[c] EXCEPT !.pc = "awaiting", !.forwarded = @ \union {conn[c].req}])

\* OriginPool::send otherwise (another origin, or a connection not ready):
\* the guard dials, then TLS, and only then is the slot replaced and used.
Redial(c) ==
  /\ At(c, {"transformed"})
  /\ Set(c, [conn[c] EXCEPT !.pc = "redialed", !.dialed = @ \union {conn[c].target}])

HandshakeOrigin(c) ==
  /\ At(c, {"redialed"})
  /\ Set(c, [conn[c] EXCEPT !.pc = "awaiting", !.slot = conn[c].target,
               !.forwarded = @ \union {conn[c].req}])

RedialRefused(c) ==
  /\ At(c, {"transformed"})
  /\ Set(c, [conn[c] EXCEPT !.pc = "serving", !.replies = Reply(c), !.log = Deny(c, "guard")])

\* Mutant: the record waits for the end of the exchange, which may not come.
RecordAnswerLater(c) ==
  /\ At(c, {"awaiting"})
  /\ Set(c, [conn[c] EXCEPT !.pc = "answering"])

\* The upstream's head is here: recorded first, answered afterwards.
RecordAnswer(c) ==
  /\ At(c, {"awaiting"})
  /\ Set(c, [conn[c] EXCEPT !.pc = "answering", !.log = Allow(c, "chain")])

\* The response goes back, transformed; or its transform fails and the client
\* gets a 502 instead.
SendAnswer(c) ==
  /\ At(c, {"answering"})
  /\ Set(c, [conn[c] EXCEPT !.pc = "serving", !.replies = Reply(c)])

\* A 101 turns the tunnel into a relay.
Upgrade(c) ==
  /\ At(c, {"answering"})
  /\ Set(c, [conn[c] EXCEPT !.pc = "relaying", !.replies = Reply(c)])

\* Everything that ends a task early without a record: a write to a client
\* that hung up, a failed TLS handshake on either side, an upstream that
\* breaks off.  hyper drops the request's future when its connection dies.
Breaks(c) ==
  /\ At(c, {"handshaking", "serving", "received", "judged", "transformed", "redialed",
            "awaiting", "answering", "dialed", "inspecting", "relaying"})
  /\ At(c, {"judged"}) =>
       conn[c].req > 0 \/ (conn[c].kind = "connect" /\ conn[c].verdict.action = "allow")
  /\ At(c, {"dialed"}) => conn[c].kind = "absolute"
  /\ Set(c, [conn[c] EXCEPT !.pc = "closed"])

\* POST /v1/reload that built; one that fails to build changes nothing.
Reload(cfg) ==
  /\ Len(installed) <= MaxReloads
  /\ installed' = Append(installed, cfg)
  /\ UNCHANGED conn

-----------------------------------------------------------------------------
Proceeds(c) ==
  \/ LoadRuntime(c) \/ NoProfile(c) \/ Unidentified(c) \/ Evaluate(c) \/ Refuse(c)
  \/ Transform(c) \/ TransformFails(c) \/ Establish(c) \/ SocksDials(c)
  \/ GuardConnects(c) \/ GuardRefuses(c) \/ ForwardHead(c) \/ StartTunnel(c)
  \/ BuildHandler(c) \/ Responds(c) \/ ResponderFails(c) \/ Reuse(c) \/ Redial(c)
  \/ RedialRefused(c) \/ SendAnswer(c) \/ Upgrade(c)

Environment(c) ==
  \/ \E k \in Kind, h \in Host : Parse(c, k, h)
  \/ BadRequest(c) \/ SniMatches(c) \/ SniMismatch(c) \/ Handshake(c) \/ Receive(c)
  \/ HandshakeOrigin(c) \/ RecordAnswer(c) \/ Breaks(c)

Next ==
  \/ \E c \in Conn : Proceeds(c) \/ Environment(c)
  \/ \E cfg \in Config : Reload(cfg)

Spec == Init /\ [][Next]_vars

\* The executor keeps polling a task that can go on.  The guard's dial has a
\* timeout; clients and upstreams are not assumed to say anything.
FairSpec == Spec /\ \A c \in Conn : WF_vars(Proceeds(c))

-----------------------------------------------------------------------------
Records(c, n, action) == {i \in DOMAIN conn[c].log :
                            conn[c].log[i].req = n /\ conn[c].log[i].action = action}

VerdictsOn(c, n) == {v \in conn[c].verdicts : v.req = n}

\* Type invariant: a connection's views exist, its requests are within the
\* bound, and its records are about requests it made.
TypeOK ==
  /\ installed \in Seq(Config) /\ Len(installed) \in 1 .. MaxReloads + 1
  /\ \A c \in Conn :
       /\ conn[c].kind \in Kind \union {None}
       /\ {conn[c].host, conn[c].target, conn[c].slot} \subseteq Host \union {None}
       /\ conn[c].dialed \subseteq Host
       /\ {conn[c].view, conn[c].tls} \subseteq 0 .. Len(installed)
       /\ conn[c].req \in 0 .. MaxRequests
       /\ conn[c].forwarded \union conn[c].replies \subseteq 0 .. conn[c].req
       /\ \A i \in DOMAIN conn[c].log : conn[c].log[i].req \in 0 .. conn[c].req

\* Nothing upstream is contacted before a verdict exists (server.rs, module
\* comment): a connection the guard opened belongs to a client whose own
\* request was let through, and goes to the authority that was asked for or
\* to an origin the configuration maps it to.
NoDialBeforeVerdict ==
  \A c \in Conn : conn[c].dialed # {} =>
    /\ \E v \in VerdictsOn(c, 0) : v.action = "allow"
    /\ conn[c].dialed \subseteq {conn[c].host} \union MappedTo[Cfg(c)][conn[c].host]

\* No request is forwarded before the chain has allowed that very request
\* (server.rs, "default-deny is not weakened"): inside a tunnel and for
\* absolute-form this is a request-phase verdict, whatever was said of the
\* CONNECT, and under an enforced default deny some layer said allow.
ForwardedWasAllowed ==
  \A c \in Conn : \A n \in conn[c].forwarded :
    \E v \in VerdictsOn(c, n) :
      /\ v.action = "allow"
      /\ n > 0 \/ conn[c].kind = "absolute" => v.phase = "request"
      /\ ~TheChain(c).warn_only /\ TheChain(c).default_action = "deny"
           => v.layer # DefaultAction

\* What the audit log calls denied never reached an upstream, whichever of
\* the chain, a transform, a responder, the guard or the SNI check refused,
\* and also when an allow was recorded before.
DeniedNeverForwarded ==
  \A c \in Conn : \A n \in conn[c].forwarded : Records(c, n, "deny") = {}

\* A client never has an upstream's answer that the audit log does not know
\* of: the record is written before the answer is handed over.
AnswerIsOnRecord ==
  \A c \in Conn : \A n \in conn[c].replies \intersect conn[c].forwarded :
    Records(c, n, "allow") # {}

\* The log tells what the chain decided: an allow record is of a request the
\* chain let through, flagged exactly when warn mode overrode a refusal.
LogTellsTheVerdict ==
  \A c \in Conn : \A i \in DOMAIN conn[c].log :
    LET rec == conn[c].log[i] IN
    rec.action = "allow" =>
      \E v \in VerdictsOn(c, rec.req) : v.action = "allow" /\ v.would_deny = rec.would_deny

\* A request inside a tunnel is recorded at most once; a connection's own
\* request at most twice, and then the second record takes the first back.
RecordsDoNotPileUp ==
  \A c \in Conn :
    /\ \A n \in 1 .. MaxRequests :
         Cardinality(Records(c, n, "allow")) + Cardinality(Records(c, n, "deny")) <= 1
    /\ Cardinality(Records(c, 0, "allow")) <= 1
    /\ Cardinality(Records(c, 0, "deny")) <= 1
    /\ \A i \in Records(c, 0, "allow"), j \in Records(c, 0, "deny") : i < j

\* The audit log can be believed: what an agent was given is in it, under the
\* verdict it had, and no request is in it twice but to take an allow back.
LogIsTrue == AnswerIsOnRecord /\ LogTellsTheVerdict /\ RecordsDoNotPileUp

\* The request on the wire is on a connection to the origin the transforms
\* named for it, also when the tunnel's requests go to different origins.
SentToItsOrigin ==
  \A c \in Conn : conn[c].pc = "awaiting" => conn[c].slot = conn[c].target

\* Default deny holds on every path: nothing is dialled, and nothing forwarded,
\* but on a verdict of its own and to the origin it was meant for, and nothing
\* that any check refused goes out.
OnlyAllowedIsForwarded ==
  TypeOK /\ NoDialBeforeVerdict /\ ForwardedWasAllowed /\ DeniedNeverForwarded /\ SentToItsOrigin

\* A reload never changes the rules under a connection: everything decided
\* on it was decided by one and the same configuration (ADR 0020).
OneSetOfRules ==
  \A c \in Conn : \A v, w \in conn[c].verdicts : v.view = w.view

\* The proxy never sits on a connection: as long as it is the proxy's turn,
\* the task goes on until it waits for the client or the upstream, or ends.
ProxysTurn == {"parsed", "loaded", "judged", "dialing", "dialed", "received", "transformed",
               "answering"}
NeverStalls == \A c \in Conn : conn[c].pc \in ProxysTurn ~> conn[c].pc \notin ProxysTurn
=============================================================================
