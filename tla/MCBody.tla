------------------------------- MODULE MCBody -------------------------------
(***************************************************************************)
(* Body for TLC.  "mcp" is a governed host: tool 1 may be called with the    *)
(* argument 1 by one entry and with 2 by another, tool 2 with any, and tool  *)
(* 3 is not listed.                                                          *)
(***************************************************************************)
EXTENDS Body

SomeServers ==
    <<[hosts |-> {"mcp"}, tools |-> <<[names |-> {1}, when |-> <<{1}>>],
                                      [names |-> {1}, when |-> <<{2, 3}, {2}>>]>>],
      [hosts |-> {"mcp"}, tools |-> <<[names |-> {2}, when |-> << >>]>>]>>

Dlp(cap, oversize, on_match) ==
    [is |-> "dlp", cap |-> cap, scan |-> TRUE, oversize |-> oversize, on_match |-> on_match]
McpLayer(cap) == [is |-> "mcp", cap |-> cap]
Filter(cap) == [is |-> "filter", cap |-> cap]
Limit(cap, action, marker, utf8) ==
    [is |-> "limit", cap |-> cap, action |-> action, marker |-> marker, utf8 |-> utf8]
Router(cap) == [is |-> "router", cap |-> cap]
Plain(layers, transforms) == [layers |-> layers, transforms |-> transforms, router |-> {}]
Routed(client, origin, transforms) ==
    [layers |-> << >>, transforms |-> transforms, router |-> {[client |-> client, origin |-> origin]}]

SomeSetups ==
    { Plain(<< >>, << >>),
      Plain(<<Dlp(2, "deny", "deny")>>, << >>),
      Plain(<<Dlp(2, "pass", "deny"), McpLayer(4)>>, <<Filter(4)>>),
      Plain(<<McpLayer(3), Dlp(4, "pass", "pass")>>, <<Filter(3), Limit(5, "truncate", 2, TRUE)>>),
      Plain(<<Dlp(2, "pass", "allow"), McpLayer(4)>>, <<Filter(6), Limit(3, "truncate", 1, FALSE)>>),
      Plain(<<[Dlp(2, "deny", "deny") EXCEPT !.scan = FALSE]>>, <<Limit(3, "fail", 0, FALSE)>>),
      Plain(<< >>, <<Limit(3, "truncate", 4, TRUE)>>),
      Plain(<<Dlp(3, "pass", "allow"), Dlp(2, "deny", "deny")>>,
            <<Limit(3, "truncate", 1, FALSE), Limit(5, "truncate", 1, TRUE)>>),
      Plain(<< >>, <<Limit(3, "replace", 0, FALSE)>>) }
    \cup {Routed(c, o, <<Router(5)>>) : c, o \in {"openai", "anthropic"}}
    \cup {Routed("openai", "anthropic", <<Router(3), Filter(4), Limit(3, "fail", 0, FALSE)>>)}

Call(tool, args) == <<OPEN, U("call", 0, tool)>> \o args \o <<CLOSE>>
Arg(v) == <<U("arg", 0, v)>>
Key == <<U("key", 1, 0), U("key", 2, 0)>>
SomeBodies ==
    { << >>, Key, <<PAD>> \o Key \o <<PAD>>, <<PAD, PAD>> \o Key, Key \o <<Mark("bin")>>,
      <<OPEN, Mark("list"), CLOSE>>, Call(1, << >>), Call(1, Arg(1)), Call(1, Arg(2)), Call(1, Arg(3)),
      Call(2, << >>), Call(3, << >>), Call(3, <<PAD, PAD>>),
      <<OPEN, Mark("batch"), U("call", 0, 3), CLOSE>> }

\* Tools of a listing: i tells the events apart.
Tool(v, i) == U("tool", i, v)
List(ts) == <<OPEN>> \o ts \o <<CLOSE>>
Blank == <<NL, NL>>
Json(s) == [type |-> "json", enc |-> FALSE, units |-> s]
Stream(s) == [type |-> "sse", enc |-> FALSE, units |-> s]
SomeAnswers ==
    { Json(<< >>), Json(List(<<Tool(1, 0), Tool(3, 0)>>)), Json(List(<<Tool(3, 0)>>)),
      Json(List(<<Tool(0, 0), Tool(2, 0), Tool(3, 0)>>)),
      Json(List(<<Mark("batch"), Tool(3, 0)>>)), Json(<<PAD>> \o WIDE \o WIDE \o WIDE),
      [Json(List(<<Tool(3, 0)>>)) EXCEPT !.enc = TRUE],
      [Json(List(<<Tool(1, 0), Tool(2, 0), Tool(3, 0)>>)) EXCEPT !.enc = TRUE],
      Stream(List(<<Tool(2, 1), Tool(3, 1)>>) \o Blank \o List(<<Tool(3, 2)>>) \o Blank),
      Stream(List(<<Tool(1, 1), PAD, PAD, PAD, PAD, PAD, PAD, Tool(3, 1)>>) \o Blank
                \o List(<<Tool(0, 2), Tool(2, 2)>>) \o Blank \o List(<<Tool(3, 3)>>)),
      Stream(<<OPEN, Tool(3, 1), CLOSE, CR, NL, CR, NL>> \o List(<<Tool(3, 2)>>) \o Blank),
      Stream(<<OPEN, Tool(3, 1), NL, Tool(2, 1), CLOSE>> \o Blank \o List(WIDE \o <<Tool(3, 2)>>) \o Blank) }

T(v) == U("text", 0, v)
C(v) == U("call", 0, v)
SomeTurns == { <<T(1)>>, <<T(1), C(1), C(2)>>, <<C(1), T(1), C(2), T(2)>> }
=============================================================================
