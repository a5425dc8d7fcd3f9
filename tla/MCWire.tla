------------------------------- MODULE MCWire -------------------------------
(***************************************************************************)
(* Wire for TLC: the ways a connection can open, and what may follow.       *)
(***************************************************************************)
EXTENDS Wire

H(kind, userpass, units) == [kind |-> kind, userpass |-> userpass, units |-> units]

\* CONNECT and absolute-form heads, one whose last line is too long, one in
\* pieces; SOCKS5 with and without a credential, and its refusals; SOCKS4.
SomeHeads ==
    { H("connect", FALSE, <<"start", "line", "blank">>),
      H("absolute", FALSE, <<"start", "part", "blank">>),
      H("connect", FALSE, <<"start", "part", "part", "part", "line">>),
      H("socks", TRUE, <<"v5", "methods", "credential", "command">>),
      H("socks", FALSE, <<"v5", "methods", "command">>),
      H("socks", FALSE, <<"v5", "methods", "badcommand">>),
      H("socks", FALSE, <<"v5", "nomethod">>),
      H("socks4", FALSE, <<"v4">>) }

T(rec, hs, sni) == [tls |-> TRUE, rec |-> rec, hs |-> hs, sni |-> sni]

\* No TLS; a hello of one and of two units of record with either name; one
\* that goes on in a second record; one that does not fit the opening.
SomeHellos ==
    { [tls |-> FALSE, rec |-> 0, hs |-> 0, sni |-> "none"],
      T(1, 1, "authority"), T(2, 2, "other"), T(1, 2, "other"), T(4, 4, "other") }
=============================================================================
