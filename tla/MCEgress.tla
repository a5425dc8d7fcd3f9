------------------------------ MODULE MCEgress ------------------------------
(***************************************************************************)
(* Egress for TLC: profiles that exercise each transform, and the requests   *)
(* that meet them.  "api" and "origin" are hosts; "evil" is in no scope.     *)
(***************************************************************************)
EXTENDS Egress

CONSTANTS r1, r2

Names == {"authorization", "host", "x-amz-security-token", "x-api-key", "via", "proxy-authorization",
          "api", "origin", "evil", "own", "/", "/chat", "/token", "/v1/models", "none", "oauth", "tok",
          "k", "a", "o", "aws", "id", "key", "session", "q", "b"}

Bare ==
    [filter |-> [mode |-> "deny", names |-> {}], set |-> {}, router |-> {},
     swaps |-> << >>, exceptions |-> {}, sources |-> [none |-> "static"],
     short |-> {}, odd |-> {}, unusable |-> {}, unfit |-> {}, detail |-> "audit"]

Hdrs(own, host) ==
    [n \in {"authorization", "via", "proxy-authorization", "host"} |->
        IF n = "host" THEN HostIs(host, 0) ELSE Client(own)]

Ask(host, path) ==
    [plain |-> FALSE, upgrade |-> FALSE, large |-> FALSE, get |-> FALSE, host |-> host,
     dotted |-> FALSE, path |-> path, hdr |-> Hdrs("own", host), query |-> << >>, content |-> "none"]
Chat(model) == [Ask("api", "/chat") EXCEPT !.content = model]
Plain(a) == [a EXCEPT !.plain = TRUE]
NoHost(a) == [a EXCEPT !.hdr = [n \in {"via"} |-> Client("own")]]
Keyed(a) == [a EXCEPT !.hdr = Insert(@, "x-api-key", Client("own"))]
Ported(a) == [a EXCEPT !.hdr.host = HostIs(a.host, 1)]

Sw(name, kind, source, hosts) ==
    [name |-> name, kind |-> kind, header |-> "x-api-key", sources |-> <<source>>, hosts |-> hosts]
Sign(hosts) == [Sw("aws", "sigv4", "id", hosts) EXCEPT !.sources = <<"id", "key", "session">>]

Router(unmapped) == {[host |-> "api", to |-> "origin", unmapped |-> unmapped]}

\* A minted bearer for the API and its token endpoint, which is excepted, and
\* a static key that follows it or cannot be read.
Minting(second) ==
    [Bare EXCEPT !.swaps = <<Sw("oauth", "bearer", "tok", {"api"}), Sw("key", "header", "k", {"api", "origin"})>>,
                 !.sources = [tok |-> "minted", k |-> second],
                 !.exceptions = {<<"api", "/token">>}]

\* The client's key for the API stays there, the origin's is set on the
\* request that is mapped to it.
Routing(unmapped) ==
    [Bare EXCEPT !.router = Router(unmapped), !.set = {"via"},
                 !.swaps = <<Sw("api", "bearer", "a", {"api"}), Sw("origin", "header", "o", {"origin"})>>,
                 !.sources = [a |-> "static", o |-> "static"]]

Signing(swaps) ==
    [Bare EXCEPT !.swaps = swaps, !.router = Router("pass"), !.unusable = {"session"},
                 !.sources = [id |-> "static", key |-> "static", session |-> "static", q |-> "static"],
                 !.detail = "access"]

\* The value of the basic swap is no header's, but its base64 is.
Query(odd, short) ==
    [Bare EXCEPT !.swaps = <<Sw("q", "query", "q", {"api"}), Sw("b", "basic", "b", {"api"})>>,
                 !.filter = [mode |-> "allow", names |-> {"via"}],
                 !.sources = [q |-> "static", b |-> "static"], !.odd = odd, !.short = short,
                 !.unusable = {"b"}]

\* A bearer, a header and a query secret, some of which cannot be set.
Refusing(unusable, unfit) ==
    [Bare EXCEPT !.swaps = <<Sw("a", "bearer", "a", {"api"}), Sw("o", "header", "o", {"api"}), Sw("q", "query", "q", {"api"})>>,
                 !.sources = [a |-> "static", o |-> "static", q |-> "static"],
                 !.unusable = unusable, !.unfit = unfit]

Scene(p, first, second) == [profile |-> p, arrivals |-> (r1 :> first @@ r2 :> second)]
One == {Ask("evil", "/")}

Api == Ask("api", "/")
Models == [Ask("api", "/v1/models") EXCEPT !.get = TRUE]
Signed == {Chat("mapped"), Chat("unmapped"), NoHost(Api), Ported(Api), Plain([Api EXCEPT !.content = "raw"]),
           [Api EXCEPT !.upgrade = TRUE], [Chat("mapped") EXCEPT !.large = TRUE], Ask("origin", "/")}

SomeScenes ==
    { Scene(Minting("static"), {Api, Ask("api", "/token"), Ask("evil", "/")}, {Api, Plain(Api)}),
      Scene(Minting("unset"), {Api, Ask("api", "/token"), [Ask("api", "/token") EXCEPT !.dotted = TRUE]}, One),
      Scene(Routing("deny"), {Chat("mapped"), Chat("unmapped"), Chat("garbled"), Chat("none"), Plain(Chat("mapped")), Models, Api}, One),
      Scene(Routing("pass"), {Chat("unmapped")}, {Chat("mapped")}),
      Scene(Signing(<<Sign({"api", "origin"})>>), Signed, One),
      Scene([Signing(<<Sign({"api"})>>) EXCEPT !.sources.key = "unset", !.unusable = {}], {Api}, One),
      Scene([Signing(<<Sign({"api"})>>) EXCEPT !.unusable = {"id"}], {NoHost(Api), Chat("mapped")}, One),
      Scene([Signing(<<Sign({"api"})>>) EXCEPT !.unusable = {}], {Api, Chat("unmapped")}, One),
      Scene(Signing(<<Sw("q", "query", "q", {"api", "origin"}), Sign({"api", "origin"})>>), Signed, One),
      Scene(Signing(<<Sign({"api"}), Sw("q", "query", "q", {"api"})>>), Signed, One),
      Scene(Refusing({"a"}, {}), {Api, Plain(Keyed(Api))}, One),
      Scene(Refusing({"o"}, {"q"}), {Keyed(Api), Api}, One),
      Scene(Query({}, {}), {Api, Plain(Api)}, One),
      Scene(Query({"q"}, {}), {Plain(Api)}, One),
      Scene(Query({}, {"q"}), {Plain(Api)}, One) }
=============================================================================
