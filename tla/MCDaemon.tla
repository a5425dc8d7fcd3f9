------------------------------ MODULE MCDaemon ------------------------------
(***************************************************************************)
(* Daemon on a directory with one named profile, a handful of transform    *)
(* bundles and every way this profile can use them, right and wrong, and   *)
(* an operator who changes it to one of four others.                       *)
(***************************************************************************)
EXTENDS Daemon

AllowA == {[allow |-> {"a"}, deny |-> {}]}
DenyB  == {[allow |-> {}, deny |-> {"b"}]}
Both   == {[allow |-> {"a"}, deny |-> {"b"}]}

EnvSecret  == [DefaultSecret EXCEPT !.source = {[DefaultSource EXCEPT !.at = "KEY"]}]
FileSecret == [DefaultSecret EXCEPT !.source = {[DefaultSource EXCEPT !.type = "file", !.at = "file"]}]

\* An interactive grant, a claim read from it, and a client that needs a secret.
Login(name, uri) ==
    [DefaultSecret EXCEPT !.name = {name},
        !.source = {[DefaultSource EXCEPT !.type = "oauth2",
            !.oauth = [DefaultOauth EXCEPT !.grant = "authorization_code", !.client_auth = "none",
                                           !.authorization_endpoint = {"authorize"},
                                           !.redirect_uri = uri]]}]
Claim(of) ==
    [DefaultSecret EXCEPT !.source = {[DefaultSource EXCEPT !.type = "oauth2_claim", !.of = of]}]
Captured ==
    [Login("broker", FALSE) EXCEPT !.source = {[t EXCEPT !.oauth.capture = "in_band"] : t \in @}]
Signed == [DefaultSecret EXCEPT !.inject = "sigv4", !.keys = <<DefaultSource>>]

Host(form) == [host |-> "api", form |-> form]
Listen(form) == [dialect |-> "openai", hosts |-> <<Host(form)>>, paths |-> <<>>]
Target(port) == [model |-> "m", host |-> Host("bare"), path |-> {}, port |-> port]
Router(listen, port) ==
    {[DefaultRouter EXCEPT !.listen = listen, !.models = [m |-> Target(port)]]}

With(t) == [NoTransforms EXCEPT !.secrets = t]

Limit(max, replacement) == [transform |-> "limit", max_bytes |-> max, replacement |-> replacement]

\* Transform bundles: the first four are right, the others are not.
Bundles ==
    [allowA |-> [With(<<EnvSecret>>) EXCEPT !.headers = AllowA, !.set = [x |-> "v"]],
     denyB  |-> [With(<<Login("enrolled", FALSE), Claim("enrolled")>>) EXCEPT !.headers = DenyB],
     limits |-> [NoTransforms EXCEPT !.respHeaders = DenyB, !.body = <<Limit(1, 2)>>,
                                     !.set = [x |-> "w"]],
     router |-> [With(<<FileSecret>>) EXCEPT !.router = Router(<<Listen("dotted")>>, 443)]]
BadBundles ==
    [both   |-> [NoTransforms EXCEPT !.respHeaders = Both],
     host   |-> [NoTransforms EXCEPT !.set = [host |-> "v"]],
     twice  |-> [NoTransforms EXCEPT !.router = Router(<<Listen("bare"), Listen("dotted")>>, 443)],
     strip  |-> [NoTransforms EXCEPT !.body = <<[transform |-> "strip"]>>]]

Lists ==
    {<<>>, <<"allowA">>, <<"allowA", "denyB">>, <<"denyB", "limits", "router">>, <<"allowA", "allowA">>,
     <<"strip">>, <<"router", "limits">>, <<"unknown">>}

Judge(dialect, key, confident) ==
    [DefaultLayer EXCEPT !.layer = "judge", !.dialect = dialect, !.key = key, !.confident = confident]

Policies ==
    {<<>>, <<Judge("systemone", {"KEY"}, TRUE), [DefaultLayer EXCEPT !.bundles = {"hosts"}]>>,
     <<Judge("systemone", {}, FALSE)>>, <<Judge("openai", {"UNSET"}, TRUE)>>,
     <<[DefaultLayer EXCEPT !.layer = "mcp", !.compiles = FALSE]>>}

Inlines ==
    {NoTransforms, With(<<FileSecret, EnvSecret>>), With(<<Captured>>), With(<<Login("new", FALSE)>>),
     With(<<Signed, Claim("enrolled")>>), [NoTransforms EXCEPT !.headers = Both],
     [NoTransforms EXCEPT !.body = <<Limit(1, 2)>>],
     [NoTransforms EXCEPT !.body = <<[transform |-> "strip"]>>],
     [NoTransforms EXCEPT !.router = Router(<<Listen("bare")>>, 0)]}

Agents ==
    {[DefaultProfile EXCEPT !.transforms = l, !.policy = p] : l \in Lists, p \in Policies}
        \cup {[DefaultProfile EXCEPT !.inline = t, !.transforms = l] : t \in Inlines, l \in {<<>>, <<"limits">>}}
        \cup {[DefaultProfile EXCEPT !.default_action = "allow", !.i_understand = u] : u \in BOOLEAN}

PortResolver(profile) ==
    [DefaultResolver EXCEPT !.type = "listener_port",
                            !.map = <<[DefaultEntry EXCEPT !.profile = profile]>>]
UserResolver(e) == [DefaultResolver EXCEPT !.type = "peer_cred", !.map = <<e>>]

Base ==
    [DefaultConfig EXCEPT !.management = {"TOKEN"}, !.ca = {"ca"}, !.state_dir = TRUE,
                          !.profile.inline = With(<<EnvSecret>>)]
\* Without the management API nothing is reloaded: most revisions are only
\* started from, a few are reloaded.
Unmanaged == [Base EXCEPT !.management = {}]

Bases ==
    {Base, [Base EXCEPT !.state_dir = FALSE, !.management = {"UNSET"}],
     [Base EXCEPT !.resolvers = <<PortResolver("agent")>>, !.unidentified = {"agent"}],
     [Unmanaged EXCEPT !.resolvers = <<UserResolver([DefaultEntry EXCEPT !.username = {"user"}, !.uid = {0},
                                                                    !.profile = "agent"])>>],
     [Base EXCEPT !.resolvers = <<UserResolver([DefaultEntry EXCEPT !.username = {"nobody"},
                                                                    !.profile = "agent"])>>],
     [Base EXCEPT !.resolvers = <<PortResolver("other")>>],
     [Base EXCEPT !.env_file = "disabled"],
     [Base EXCEPT !.env_file = "missing"],
     [Base EXCEPT !.dns = {"malformed"}], [Base EXCEPT !.listen = {<<>>}], [Base EXCEPT !.ca = {}],
     [Base EXCEPT !.roots = {"gone"}], [Base EXCEPT !.passthrough = FALSE]}

Disk(base, agent, transforms) ==
    [base |-> base, profiles |-> [agent |-> agent], bundles |-> [hosts |-> {TRUE}],
     bind_groups |-> <<>>, transforms |-> [n \in DOMAIN transforms |-> {transforms[n]}]]

Judged == CHOOSE a \in Agents : a.transforms = <<"allowA">> /\ Len(a.policy) = 2

\* Mixtures of revisions, a file that is half written, a profile that is gone,
\* and one whose only fault is in a bundle.
MCEdited ==
    {Disk({Base}, {[Judged EXCEPT !.transforms = <<"denyB", "router">>]}, Bundles),
     Disk({}, {Judged}, Bundles),
     [Disk({[Base EXCEPT !.resolvers = <<PortResolver("agent")>>]}, {Judged}, Bundles)
         EXCEPT !.bundles = <<>>, !.transforms = [allowA |-> {NoTransforms}]]}

MCNames == <<"agent">>

MCRevisions ==
    MCEdited
        \cup {Disk({Unmanaged}, {a}, Bundles @@ [strip |-> BadBundles.strip]) : a \in Agents}
        \cup {Disk({Unmanaged}, {[Judged EXCEPT !.transforms = <<b>>]}, [n \in {b} |-> BadBundles[n]]) :
                 b \in DOMAIN BadBundles}
        \cup {Disk({b}, {Judged}, Bundles) : b \in Bases}
        \cup {Disk({[Unmanaged EXCEPT !.env_file = "disabled"]}, {DefaultProfile}, Bundles),
              Disk({Base}, {}, Bundles),
              [Disk({Base}, {Judged}, Bundles) EXCEPT !.bind_groups = [tools |-> {}]],
              Disk({[Base EXCEPT !.bundles = [hosts |-> TRUE]]}, {Judged}, Bundles)}

=============================================================================
