-------------------------------- MODULE Body --------------------------------
(***************************************************************************)
(* What happens to the bodies of one exchange at a time: the request's is    *)
(* read up to a cap for the layers that look at it and forwarded, the        *)
(* response's is filtered, limited or translated, whole or event by event    *)
(* (mitm.rs, the dlp and mcp layers, transforms.rs, the LLM router).         *)
(*                                                                           *)
(* A peer sends its body in frames of any of the sizes FrameSizes and may    *)
(* break off.  A setup is a profile: its layers, its response transforms in  *)
(* the order build_runtime puts them, and the router's two dialects if it    *)
(* routes.  In a routed setup the agent holds a conversation; there the      *)
(* request goes in one piece.  The request transforms are Egress's.          *)
(***************************************************************************)
EXTENDS Mcp, Translate

CONSTANTS
    Setups,       \* the profiles
    Hosts,        \* what an agent connects to
    Bodies,       \* request bodies
    Answers,      \* responses of a server that is not a routed origin: [type, enc, units]
    Turns,        \* what a routed origin says, as blocks
    Styles,       \* how a routed origin streams it
    FrameSizes,   \* how many units a frame may have
    SseCap,       \* MAX_PENDING_SSE_EVENT_BYTES
    MaxRounds     \* how often the agent asks in one conversation

Unit == [k : Kinds, i : Int, v : Int]
Dialects == {"openai", "anthropic"}
Layer ==
    [is : {"dlp"}, cap : Nat, scan : BOOLEAN, oversize : {"pass", "deny"}, on_match : {"pass", "deny", "allow"}]
        \cup [is : {"mcp"}, cap : Nat]
Transform ==
    [is : {"router", "filter"}, cap : Nat]
        \cup [is : {"limit"}, cap : Nat, action : {"fail", "truncate", "replace"}, marker : Nat, utf8 : BOOLEAN]

\* build_runtime puts the router first and build_response_transforms the limiters last.
InOrder(transforms) ==
    \A n \in 1..Len(transforms), m \in 1..Len(transforms) :
        n < m => /\ transforms[m].is # "router"
                 /\ transforms[n].is = "limit" => transforms[m].is = "limit"

ASSUME SizesAssumption ==
    /\ FrameSizes \subseteq Nat \ {0} /\ IsFiniteSet(FrameSizes)
    /\ SseCap \in Nat

ASSUME SetupsAssumption ==
    \A s \in Setups :
        /\ s.layers \in Seq(Layer)
        /\ s.transforms \in Seq(Transform) /\ InOrder(s.transforms)
        /\ s.router \subseteq [client : Dialects, origin : Dialects]
        /\ s.router # {} <=> \E n \in 1..Len(s.transforms) : s.transforms[n].is = "router"

ASSUME UnitsAssumption ==
    /\ Bodies \subseteq Seq(Unit)
    /\ Turns \subseteq Seq({u \in Unit : u.k \in {"text", "call"}})
    /\ Answers \subseteq [type : {"json", "sse"}, enc : BOOLEAN, units : Seq(Unit)]

\* "none" is where a routed request goes, which is no server's host.
ASSUME HostsAssumption == \A n \in 1..Len(Servers) : "none" \notin Servers[n].hosts

VARIABLES
    setup,    \* the profile
    phase,    \* where the exchange is
    req,      \* the request: [path, host, hdr, units]
    read,     \* what has been read of the body that is being materialised
    handle,   \* the body as policy sees it: BodyHandle
    flags,    \* the evidence's flags
    sent,     \* what the origin has been sent
    resp,     \* the response: [type, enc, units]
    rest,     \* what has not been read of it
    pending,  \* the part of an event that is held back
    sse,      \* the router's session
    torn,     \* history: what a stream of this conversation was cut in, a "character" or an "event"
    got,      \* what the agent has been given
    ended,    \* how the exchange ended
    talk,     \* the agent's side of the conversation
    asked,    \* the conversation as the origin was asked
    said      \* what the origin has said in it
request == <<req, read, handle, flags, sent>>
response == <<resp, rest, pending, sse, torn, got>>
dialogue == <<talk, asked, said>>
vars == <<setup, phase, ended, request, response, dialogue>>

Frame(s) == {SubSeq(s, 1, Min({n, Len(s)})) : n \in FrameSizes}
After(f, s) == SubSeq(s, Len(f) + 1, Len(s))

-----------------------------------------------------------------------------
\* Body requirements: a cap, or Streaming.
Streaming == -1
Empty == [is |-> "empty", units |-> << >>]
InFlight == [is |-> "streaming", units |-> << >>]
Buffered(s) == [is |-> "buffered", units |-> s]
OverLimit(s, cap) == [is |-> "over", units |-> SubSeq(s, 1, cap)]

\* Mutated form: the smaller cap wins.
combine_least(a, b) ==
    CASE a = Streaming -> b [] b = Streaming -> a [] OTHER -> Min({a, b})

\* Buffering wins over streaming, and the larger cap wins.
combine(a, b) ==
    CASE a = Streaming -> b [] b = Streaming -> a [] OTHER -> Max({a, b})
Strongest(caps) ==
    LET upto[n \in 0..Len(caps)] == IF n = 0 THEN Streaming ELSE combine(upto[n - 1], caps[n])
    IN  upto[Len(caps)]

LayerCap(l) == IF l.is = "dlp" /\ ~l.scan THEN Streaming ELSE l.cap
body_requirement(path) ==
    IF path = "upgrade" THEN Streaming
    ELSE Strongest([n \in 1..Len(setup.layers) |-> LayerCap(setup.layers[n])])
response_body_requirement ==
    Strongest([n \in 1..Len(setup.transforms) |-> setup.transforms[n].cap])

\* A credential is a "key" with its second half after it.
Matches(s) == \E p \in 1..(Len(s) - 1) : s[p] = U("key", 1, 0) /\ s[p + 1] = U("key", 2, 0)

Pass(f) == [is |-> "pass", flags |-> f]
Answered(outcome, f) == [is |-> outcome, flags |-> f]

\* Mutated form: a body that could not be read is not mentioned.
dlp_silent(l, f) ==
    LET body == req.hdr = FALSE /\ l.scan
        hit == req.hdr \/ (body /\ handle.is = "buffered" /\ WellEncoded(handle.units) /\ Matches(handle.units))
    IN  CASE hit -> Answered(l.on_match, IF l.on_match = "pass" THEN f \cup {"annotated"} ELSE f)
          [] ~hit /\ body /\ handle.is \in {"streaming", "over"} /\ l.oversize = "deny" -> Answered("deny", f)
          [] OTHER -> Pass(f)

\* Headers and query first, then the body if it is there as text.
dlp(l, f) ==
    LET body == req.hdr = FALSE /\ l.scan
        hit == req.hdr \/ (body /\ handle.is = "buffered" /\ WellEncoded(handle.units) /\ Matches(handle.units))
    IN  CASE hit -> Answered(l.on_match, IF l.on_match = "pass" THEN f \cup {"annotated"} ELSE f)
          [] ~hit /\ body /\ handle.is \in {"streaming", "over"} ->
                IF l.oversize = "deny" THEN Answered("deny", f) ELSE Pass(f \cup {"BodyNotScanned"})
          [] OTHER -> Pass(f)

mcp(f) ==
    CASE ~governs(req.host) -> Pass(f)
      [] governs(req.host) /\ handle.is \in {"streaming", "over"} -> Answered("deny", f)
      [] governs(req.host) /\ handle.is = "buffered" ->
            LET m == parse_request(handle.units)
            IN  CASE m.is = "list" -> Pass(f \cup {"McpToolsList"})
                  [] m.is = "call" /\ ~check_call(req.host, m.tool, m.args) -> Answered("deny", f)
                  [] OTHER -> Pass(f)
      [] OTHER -> Pass(f)

\* The layers in order, until one decides; a body that none refuses is allowed.
Decision ==
    LET Asked(l, v) == IF v.is # "pass" THEN v ELSE IF l.is = "dlp" THEN dlp(l, v.flags) ELSE mcp(v.flags)
        upto[n \in 0..Len(setup.layers)] ==
            IF n = 0 THEN Pass({}) ELSE Asked(setup.layers[n], upto[n - 1])
    IN  upto[Len(setup.layers)]

-----------------------------------------------------------------------------
NoReq == [path |-> "none", host |-> "none", hdr |-> FALSE, units |-> << >>]
NoResp == [type |-> "none", enc |-> FALSE, units |-> << >>]
NoTalk == [system |-> NoSystem, messages |-> << >>]
Routes == setup.router # {}
Client == (CHOOSE r \in setup.router : TRUE).client
Origin == (CHOOSE r \in setup.router : TRUE).origin

Init ==
    /\ setup \in Setups
    /\ phase = "idle" /\ ended = "no"
    /\ req = NoReq /\ read = << >> /\ handle = Empty /\ flags = {} /\ sent = << >>
    /\ resp = NoResp /\ rest = << >> /\ pending = << >> /\ sse = NewSession /\ torn = {}
    /\ got = << >>
    /\ talk = NoTalk /\ asked = NoTalk /\ said = << >>

\* A request: intercepted, intercepted with an upgrade, or plain absolute-form, where the
\* context is made without a body.
Arrive ==
    /\ phase = "idle" /\ ~Routes
    /\ \E path \in {"mitm", "upgrade", "plain"}, host \in Hosts, hdr \in BOOLEAN, s \in Bodies :
        /\ req' = [path |-> path, host |-> host, hdr |-> hdr, units |-> s]
        /\ handle' = IF path = "plain" THEN Empty ELSE InFlight
        /\ phase' = IF path # "plain" /\ body_requirement(path) # Streaming
                    THEN "reading" ELSE "deciding"
    /\ UNCHANGED <<setup, ended, read, flags, sent, response, dialogue>>

\* Mutated form: the frame that goes over the cap is not kept.
Collected_before(f, cap) == IF Len(read \o f) > cap THEN read ELSE read \o f

\* The frame is kept, then the total is compared with the cap.
Collected(f, cap) == read \o f

\* materialise: one frame.
ReadFrame ==
    /\ phase = "reading" /\ Len(read) < Len(req.units)
    /\ LET cap == body_requirement(req.path)
       IN  \E f \in Frame(After(read, req.units)) :
            /\ read' = Collected(f, cap)
            /\ IF Len(read \o f) > cap
               THEN /\ handle' = OverLimit(read \o f, cap)
                    /\ phase' = "deciding"
                    /\ rest' = After(read \o f, req.units)
               ELSE UNCHANGED <<handle, phase, rest>>
    /\ UNCHANGED <<setup, ended, req, flags, sent, resp, pending, sse, torn, got, dialogue>>

\* Mutated form: a body has at least one frame.
ReadAll_some ==
    /\ phase = "reading" /\ read = req.units /\ read # << >>
    /\ handle' = Buffered(read)
    /\ phase' = "deciding"
    /\ UNCHANGED <<setup, ended, req, read, flags, sent, response, dialogue>>

\* materialise: the body is complete.
ReadAll ==
    /\ phase = "reading" /\ read = req.units
    /\ handle' = Buffered(read)
    /\ phase' = "deciding"
    /\ UNCHANGED <<setup, ended, req, read, flags, sent, response, dialogue>>

\* The verdict; what was read goes ahead of what is still to come.
Decide ==
    /\ phase = "deciding"
    /\ flags' = Decision.flags
    /\ IF Decision.is = "deny"
       THEN /\ phase' = "done" /\ ended' = "refused"
            /\ UNCHANGED <<sent, rest>>
       ELSE /\ phase' = "forwarding"
            /\ sent' = IF handle.is = "buffered" THEN handle.units ELSE read
            /\ rest' = IF handle.is = "over" THEN rest
                       ELSE IF handle.is = "buffered" THEN << >> ELSE req.units
            /\ UNCHANGED ended
    /\ UNCHANGED <<setup, req, read, handle, resp, pending, sse, torn, got, dialogue>>

\* The rest of a body that was not buffered, as it comes.
Forward ==
    /\ phase = "forwarding" /\ rest # << >>
    /\ \E f \in Frame(rest) : sent' = sent \o f /\ rest' = After(f, rest)
    /\ UNCHANGED <<setup, phase, ended, req, read, handle, flags, resp, pending, sse, torn, got, dialogue>>

-----------------------------------------------------------------------------
\* Response transforms: "router", "filter" and "limit", each with the cap it asks for.
supports_streaming(t) == t.is # "limit"
Notice == <<Mark("notice")>>
Marker(n) == [p \in 1..n |-> Mark("mark")]

\* As far as the text is valid.
utf8_prefix_len(s, limit) ==
    Max({n \in 0..Min({Len(s), limit}) : WellEncoded(SubSeq(s, 1, n))})

\* Mutated form: the marker is put after as much as the limit allows.
truncate_marking(t, s) == SubSeq(s, 1, Min({Len(s), t.cap})) \o Marker(t.marker)

\* As much of the body as leaves room for the marker; of the marker, as much as fits.
truncate(t, s) ==
    LET marker == Min({t.marker, t.cap})
        room == t.cap - marker
    IN  SubSeq(s, 1, IF t.utf8 THEN utf8_prefix_len(s, room) ELSE Min({Len(s), room}))
            \o Marker(marker)

\* An answer on its way through the transforms: [h, enc, err].
Replaced(a, s) == [a EXCEPT !.h = Buffered(s), !.enc = FALSE]
response_limit(t, a) ==
    LET over == (a.h.is = "buffered" /\ Len(a.h.units) > t.cap) \/ a.h.is = "over"
    IN  CASE a.enc /\ t.action # "replace" -> Replaced(a, Notice)
          [] ~(a.enc /\ t.action # "replace") /\ ~over -> a
          [] OTHER -> CASE t.action = "truncate" -> Replaced(a, truncate(t, a.h.units))
                        [] OTHER -> Replaced(a, Notice)

Readable(a) == a.h.is = "buffered" /\ ~a.enc /\ IsDoc(a.h.units)

\* Only a document that is all there is filtered; anything else goes by.
mcp_tool_filter(a) ==
    IF governs(req.host) /\ Readable(a)
    THEN [a EXCEPT !.h = Buffered(filter_tools_list(req.host, a.h.units))] ELSE a

\* A routed answer is translated or it is an error.
llm_router(a) ==
    CASE a.h.units = << >> -> a
      [] a.h.units # << >> /\ Readable(a) ->
            Replaced(a, <<OPEN>> \o translate_response(Origin, Client, Members(a.h.units)) \o <<CLOSE>>)
      [] OTHER -> [a EXCEPT !.err = TRUE]

Transformed(h) ==
    LET Apply(t, a) == CASE a.err -> a
                         [] ~a.err /\ t.is = "limit" -> response_limit(t, a)
                         [] ~a.err /\ t.is = "filter" -> mcp_tool_filter(a)
                         [] OTHER -> llm_router(a)
        upto[n \in 0..Len(setup.transforms)] ==
            IF n = 0 THEN [h |-> h, enc |-> resp.enc, err |-> FALSE]
            ELSE Apply(setup.transforms[n], upto[n - 1])
    IN  upto[Len(setup.transforms)]

\* Where an answer goes: straight through, event by event, or gathered first; an event stream
\* that some transform would have to gather is not served.
Routing(type) ==
    CASE req.path = "plain" \/ setup.transforms = << >> -> "passing"
      [] ~(req.path = "plain" \/ setup.transforms = << >>) /\ type = "sse" ->
            IF \A n \in 1..Len(setup.transforms) : supports_streaming(setup.transforms[n])
            THEN "streaming" ELSE "done"
      [] OTHER -> "gathering"

\* With the answer the request is behind: what is left of it is where it went.
Begin(r) ==
    /\ resp' = r /\ rest' = r.units
    /\ phase' = Routing(r.type)
    /\ IF phase' = "done" THEN ended' = "failed" /\ got' = Notice ELSE UNCHANGED <<ended, got>>
    /\ req' = [req EXCEPT !.units = << >>, !.hdr = FALSE]
    /\ read' = << >> /\ handle' = Empty /\ flags' = {} /\ sent' = << >>
    /\ UNCHANGED <<setup, pending, sse, torn>>

\* The server's answer, once it has the request.
Answer ==
    /\ phase = "forwarding" /\ rest = << >>
    /\ \E r \in Answers : Begin(r)
    /\ UNCHANGED dialogue

\* Nothing has to look at it.
PassOn ==
    /\ phase = "passing" /\ rest # << >>
    /\ \E f \in Frame(rest) : got' = got \o f /\ rest' = After(f, rest)
    /\ UNCHANGED <<setup, phase, ended, request, resp, pending, sse, torn, dialogue>>

PassedOn ==
    /\ phase = "passing" /\ rest = << >>
    /\ phase' = "done" /\ ended' = "whole"
    /\ UNCHANGED <<setup, request, response, dialogue>>

\* Mutated form: an answer that could not be transformed ends the exchange without a word.
Finish_unsaid(h, s) ==
    LET a == Transformed(h)
    IN  CASE a.err -> phase' = "done" /\ UNCHANGED <<ended, got>>
          [] ~a.err /\ a.h.is = "buffered" -> phase' = "done" /\ ended' = "whole" /\ got' = a.h.units
          [] OTHER -> phase' = "passing" /\ got' = s /\ UNCHANGED ended

\* The transforms are run on what was gathered: an error is the answer, a buffered body is
\* sent, and any other goes on as it came.
Finish(h, s) ==
    LET a == Transformed(h)
    IN  CASE a.err -> phase' = "done" /\ ended' = "failed" /\ got' = Notice
          [] ~a.err /\ a.h.is = "buffered" -> phase' = "done" /\ ended' = "whole" /\ got' = a.h.units
          [] OTHER -> phase' = "passing" /\ got' = s /\ UNCHANGED ended

GatherFrame ==
    /\ phase = "gathering" /\ rest # << >>
    /\ \E f \in Frame(rest) :
        /\ read' = read \o f
        /\ rest' = After(f, rest)
        /\ IF Len(read \o f) > response_body_requirement
           THEN Finish(OverLimit(read \o f, response_body_requirement), read \o f)
           ELSE UNCHANGED <<phase, ended, got>>
    /\ UNCHANGED <<setup, req, handle, flags, sent, resp, pending, sse, torn, dialogue>>

GatherAll ==
    /\ phase = "gathering" /\ rest = << >>
    /\ Finish(Buffered(read), << >>)
    /\ UNCHANGED <<setup, request, resp, rest, pending, sse, torn, dialogue>>

-----------------------------------------------------------------------------
\* Each transform on a chunk that is ready: the router through its session.
Steps(chunk) ==
    LET Rewritten(t, r) ==
            IF t.is = "router" THEN rewrite(r.s, r.out, Origin, Client)
            ELSE IF governs(req.host) THEN [r EXCEPT !.out = filter_sse_chunk(req.host, @)] ELSE r
        upto[n \in 0..Len(setup.transforms)] ==
            IF n = 0 THEN [s |-> sse, out |-> chunk] ELSE Rewritten(setup.transforms[n], upto[n - 1])
    IN  upto[Len(setup.transforms)]

\* What is lost where a frame ends: the character it cuts, and the event that is let go of
\* before its blank line has come.
Severed(f, ready) ==
    (IF Lossy(f) = f THEN {} ELSE {"character"})
        \cup (IF ready = << >> \/ Len(ready) \in BlankLines(ready) THEN {} ELSE {"event"})

\* filter_event_stream: one frame.
StreamFrame ==
    /\ phase = "streaming" /\ rest # << >>
    /\ \E f \in Frame(rest) :
        /\ rest' = After(f, rest)
        /\ \E cut \in {next_sse_chunk(pending \o Lossy(f), SseCap)} :
            /\ pending' = cut.rest
            /\ torn' = torn \cup Severed(f, cut.ready)
            /\ \E r \in {Steps(cut.ready)} : got' = got \o r.out /\ sse' = r.s
    /\ UNCHANGED <<setup, phase, ended, request, resp, dialogue>>

\* filter_event_stream: the end; what is held back is sent as it is.
StreamEnd ==
    /\ phase = "streaming" /\ rest = << >>
    /\ got' = got \o pending
    /\ pending' = << >>
    /\ phase' = "done" /\ ended' = "whole"
    /\ UNCHANGED <<setup, request, resp, rest, sse, torn, dialogue>>

\* Whoever is sending a body breaks off; what is held back goes with the connection.
BreakOff ==
    /\ \/ phase = "reading"
       \/ phase \in {"forwarding", "passing", "gathering", "streaming"} /\ rest # << >>
    /\ phase' = "done" /\ ended' = "broken"
    /\ UNCHANGED <<setup, request, response, dialogue>>

-----------------------------------------------------------------------------
\* The agent's conversation.  It opens it, or goes on with the results of every call of the
\* turn it heard and with something to say; a Messages agent puts both in one message.
Text(v) == U("text", 0, v)
Opening(dialect) ==
    IF dialect = "openai"
    THEN [system |-> NoSystem, messages |-> <<Msg("system", <<Text(8)>>), Msg("user", <<Text(9)>>)>>]
    ELSE [system |-> <<Text(8)>>, messages |-> <<Msg("user", <<Text(9)>>)>>]

Reply(dialect, turn, more) ==
    LET calls == Only(turn, "call")
        results == [n \in 1..Len(calls) |-> U("result", 0, calls[n].v)]
        tail == IF more \/ calls = << >> THEN <<Text(7)>> ELSE << >>
    IN  IF dialect = "openai"
        THEN [n \in 1..Len(results) |-> Msg("tool", <<results[n]>>)]
                \o [n \in 1..Len(tail) |-> Msg("user", tail)]
        ELSE <<Msg("user", results \o tail)>>

\* The documents in what the agent was given, and the turn they make: by block in one
\* dialect, by kind in the other.  A call with arguments that are not its own has no id,
\* one with its own but for a replaced character the negated one.
Docs(s) == FlattenSeq(Documents(s))
CallOf(es, e, delta) ==
    LET args == SelectSeq(es, LAMBDA d : d.k = delta /\ d.i = e.i)
    IN  U("call", 0, IF Len(args) = 1 /\ args[1].v \in {e.v, -e.v} THEN args[1].v ELSE 0)
Assembled(dialect, s) ==
    LET es == Docs(s)
        Blocks(e) ==
            CASE e.k = (IF dialect = "openai" THEN "text" ELSE "text_delta") -> <<Text(e.v)>>
              [] dialect = "openai" /\ e.k = "call" -> <<CallOf(es, e, "args")>>
              [] dialect = "openai" /\ e.k = "callargs" -> <<U("call", 0, e.v)>>
              [] dialect = "anthropic" /\ e.k = "tool_start" -> <<CallOf(es, e, "json_delta")>>
              [] OTHER -> << >>
        blocks == FlattenSeq([n \in 1..Len(es) |-> Blocks(es[n])])
    IN  IF dialect = "openai" THEN TextThenCalls(blocks) ELSE blocks

\* The events of a routed origin's stream that are longer than the cap.
Padded(e, style) ==
    CASE e.k \in {"text", "text_delta"} -> style = "long text"
      [] e.k \in {"call", "tool_start"} -> style = "long call"
      [] e.k \in {"args", "json_delta"} -> style = "long args"
      [] OTHER -> FALSE

\* Those with a character of more than one byte: the first text, and the arguments of one call.
Broad(e, style) ==
    style = "wide" /\ e.v = 1 /\ e.k \in {"text", "text_delta", "args", "json_delta"}

\* A routed origin's stream of a turn.  Style "together": the calls' arguments after all
\* their names; "at once": with them; "long text", "long call", "long args": those events
\* over the cap; "wide": some with a character of more than one byte.
EventsOf(dialect, turn, style) ==
    LET calls == Only(turn, "call")
        Index(b) == CHOOSE n \in 0..(Len(calls) - 1) : calls[n + 1] = b
        Openai(b) ==
            CASE b.k = "text" -> <<Text(b.v)>>
              [] b.k = "call" /\ style = "at once" -> <<U("callargs", Index(b), b.v)>>
              [] b.k = "call" /\ style = "together" -> <<U("call", Index(b), b.v)>>
              [] OTHER -> <<U("call", Index(b), b.v), U("args", Index(b), b.v)>>
        Late(b) == IF style = "together" /\ b.k = "call" THEN <<U("args", Index(b), b.v)>> ELSE << >>
        Anthropic(n) ==
            LET b == turn[n]
            IN  <<IF b.k = "text" THEN U("text_start", n - 1, 0) ELSE U("tool_start", n - 1, b.v),
                  IF b.k = "text" THEN U("text_delta", n - 1, b.v) ELSE U("json_delta", n - 1, b.v),
                  U("block_stop", n - 1, 0)>>
        Each(Op(_)) == FlattenSeq([n \in 1..Len(turn) |-> Op(turn[n])])
        stop == IF calls = << >> THEN 0 ELSE 1
    IN  IF dialect = "openai"
        THEN <<Mark("role")>> \o Each(Openai) \o Each(Late) \o <<U("finish", 0, stop), Mark("done")>>
        ELSE <<Mark("message_start")>> \o FlattenSeq([n \in 1..Len(turn) |-> Anthropic(n)])
                \o <<U("message_delta", 0, stop), Mark("message_stop")>>

Streamed(dialect, turn, style) ==
    LET es == EventsOf(dialect, turn, style)
        Ev(e) == CASE Padded(e, style) ->
                        <<OPEN, e>> \o [n \in 1..SseCap |-> PAD] \o <<CLOSE, NL, NL>>
                   [] Broad(e, style) -> <<OPEN, e>> \o WIDE \o <<CLOSE, NL, NL>>
                   [] OTHER -> Event(e)
    IN  FlattenSeq([n \in 1..Len(es) |-> Ev(es[n])])

\* The routed request: the conversation so far, translated for the origin.
Ask(c) ==
    /\ phase' = "asking" /\ ended' = "no"
    /\ talk' = c
    /\ asked' = translate_request(Client, Origin, c)
    /\ req' = [NoReq EXCEPT !.path = "mitm"]
    /\ resp' = NoResp /\ rest' = << >> /\ got' = << >> /\ sse' = NewSession
    /\ UNCHANGED <<setup, read, handle, flags, sent, pending, torn, said>>

AskFirst == phase = "idle" /\ Routes /\ Ask(Opening(Client))

\* The origin's turn, or its error, as one document or, the first turn, as a stream.
Turn ==
    /\ phase = "asking"
    /\ \E t \in Turns, style \in (IF said = << >> THEN Styles ELSE {}) \cup {"json", "error"} :
        /\ Begin([type |-> IF style \in Styles THEN "sse" ELSE "json", enc |-> FALSE,
                  units |-> CASE style = "json" -> <<OPEN>> \o t \o <<CLOSE>>
                              [] style = "error" -> <<OPEN, Mark("error"), CLOSE>>
                              [] OTHER -> Streamed(Origin, t, style)])
        /\ said' = IF style = "error" THEN said ELSE Append(said, t)
    /\ UNCHANGED <<talk, asked>>

Heard ==
    IF resp.type = "sse" THEN Assembled(Client, got)
    ELSE SelectSeq(Docs(got), LAMBDA b : b.k \in {"text", "call"})

\* A turn that came through whole is answered.
AskNext ==
    /\ phase = "done" /\ Routes /\ ended = "whole"
    /\ Heard # << >> /\ Len(said) < MaxRounds
    /\ \E more \in BOOLEAN :
        Ask([talk EXCEPT !.messages =
                Append(@, Msg("assistant", Heard)) \o Reply(Client, Heard, more)])

\* The next exchange.
Again ==
    /\ phase = "done"
    /\ phase' = "idle" /\ ended' = "no"
    /\ req' = NoReq /\ read' = << >> /\ handle' = Empty /\ flags' = {} /\ sent' = << >>
    /\ resp' = NoResp /\ rest' = << >> /\ pending' = << >> /\ sse' = NewSession /\ torn' = {}
    /\ got' = << >>
    /\ talk' = NoTalk /\ asked' = NoTalk /\ said' = << >>
    /\ UNCHANGED setup

Agent == Arrive \/ AskFirst \/ AskNext \/ Again
Frames == ReadFrame \/ Forward \/ PassOn \/ GatherFrame \/ StreamFrame
Proxys == ReadAll \/ Decide \/ PassedOn \/ GatherAll \/ StreamEnd
Server == Answer \/ Turn
Next == Agent \/ Frames \/ Proxys \/ Server \/ BreakOff

\* The proxy's tasks run; a peer that does not break off sends the next frame.
Spec == Init /\ [][Next]_vars /\ WF_vars(Frames) /\ WF_vars(Proxys) /\ WF_vars(Server)

-----------------------------------------------------------------------------
\* The types.
TypeOK ==
    /\ setup \in Setups
    /\ phase \in {"idle", "reading", "deciding", "forwarding", "asking",
                  "passing", "gathering", "streaming", "done"}
    /\ ended \in {"no", "refused", "failed", "broken", "whole"}
    /\ (phase = "done") = (ended # "no")
    /\ handle.is \in {"empty", "streaming", "buffered", "over"}
    /\ flags \subseteq {"BodyNotScanned", "annotated", "McpToolsList"}
    /\ torn \subseteq {"character", "event"}
    /\ sse.started \in BOOLEAN /\ sse.text \in Int /\ sse.next \in Nat

\* However a body is cut into frames, and whether or not it went over the cap on the way,
\* what has been passed on followed by what is still to come is the body (materialise puts
\* the frames it has read back in front of the rest).
BodyArrivesWhole ==
    /\ TypeOK
    /\ phase = "forwarding" => sent \o rest = req.units
    /\ phase = "passing" => got \o rest = resp.units

Layers(k) == {setup.layers[n] : n \in {m \in 1..Len(setup.layers) : setup.layers[m].is = k}}
Allows(l) == l.is = "dlp" /\ l.on_match = "allow"
Transforms(k) == {setup.transforms[n] : n \in {m \in 1..Len(setup.transforms) : setup.transforms[m].is = k}}

\* On an intercepted connection a readable body with a credential in it leaves past a layer
\* that denies matches only if it is longer than that layer's own cap, or an upgrade's, the
\* profile forwards what was not scanned, and the trail says so; past one that passes matches
\* on it leaves only with a flag.  (A layer that allows a match speaks for those behind it.)
CredentialIsStoppedOrSaid ==
    \A n \in 1..Len(setup.layers) :
        LET l == setup.layers[n]
        IN  (/\ req.path # "plain" /\ sent # << >> /\ l.is = "dlp" /\ l.scan
             /\ \A m \in 1..(n - 1) : ~Allows(setup.layers[m])
             /\ Matches(req.units) /\ WellEncoded(req.units))
            => CASE l.on_match = "deny" ->
                        /\ Len(req.units) > l.cap \/ req.path = "upgrade"
                        /\ l.oversize = "pass" /\ "BodyNotScanned" \in flags
                 [] l.on_match = "pass" -> flags \cap {"annotated", "BodyNotScanned"} # {}
                 [] OTHER -> TRUE

\* A single call reaches a governed server over an intercepted connection only if some entry
\* names its tool and allows its argument, whatever the other entries say of it.
CallIsPermitted ==
    (/\ req.path # "plain" /\ sent # << >>
     /\ Layers("mcp") # {} /\ governs(req.host)
     /\ \A n \in 1..Len(setup.layers) : ~Allows(setup.layers[n])
     /\ parse_request(req.units).is = "call")
    => LET m == parse_request(req.units)
       IN  \E n \in 1..Len(Entries(req.host)) :
              LET e == Entries(req.host)[n]
              IN  /\ m.tool \in e.names
                  /\ \A c \in 1..Len(e.when) : m.args # << >> /\ m.args[1] \in e.when[c]

HasBatch(s) == \E p \in 1..Len(s) : s[p].k = "batch"

\* An event the filter can read: one line that is a document and no batch, ended by a blank
\* line, within the stream's cap.
OneLine(e) ==
    /\ Len(e) <= SseCap /\ Len(e) \in BlankLines(e)
    /\ IsDoc(SubSeq(e, 1, Len(e) - 2)) /\ ~HasBatch(e)

\* A tool that a governed server may not show is not shown by a listing that fits the mcp
\* layer's own cap, and in a stream only by an event the filter cannot read, wherever the
\* frames cut it and whatever comes before it.
ListingIsFiltered ==
    (/\ req.path # "plain" /\ Transforms("filter") # {} /\ governs(req.host))
    => \A p \in 1..Len(got) :
          (got[p].k = "tool" /\ ~(got[p].v # 0 /\ tool_is_visible(req.host, got[p].v)))
          => IF resp.type = "sse"
             THEN \E n \in 1..Len(Events(resp.units)) :
                    LET e == Events(resp.units)[n]
                    IN  got[p] \in Range(e) /\ ~OneLine(e)
             ELSE \/ resp.enc \/ ~IsDoc(resp.units) \/ HasBatch(resp.units)
                  \/ \A t \in Transforms("filter") : Len(resp.units) > t.cap

\* A limited response that is not a stream is never longer than its limit, or than the one
\* notice that takes its place, and limiters that cut text cut no character in two.
LimitedIsBounded ==
    (/\ phase = "done" /\ ended = "whole" /\ req.path # "plain" /\ resp.type = "json"
     /\ Transforms("limit") # {})
    => /\ \A t \in Transforms("limit") : Len(got) <= Max({t.cap, Len(Notice)})
       /\ /\ \A t \in Transforms("limit") : t.action = "truncate" => t.utf8
          /\ WellEncoded(resp.units)
          => WellEncoded(got)

\* However little of an event has come, no more of it is held than the cap or one frame.
HeldBackIsBounded == Len(pending) <= Max({SseCap} \cup FrameSizes)

\* No event held back takes more room than the stream's cap or one frame, and no limited
\* answer is longer than its limit or the notice in its place.
CapsHold == LimitedIsBounded /\ HeldBackIsBounded

Before(es, n, S) == {m \in 1..(n - 1) : es[m].k \in S}
\* A translated stream is one its dialect allows at every moment.  Messages: one start, first;
\* a block is started once, its deltas come while it is open, and all are stopped before the
\* message says why it stopped, and before it ends.  Chat Completions: the calls are numbered
\* in order, and arguments follow the name of their call.  Only the arguments of a call whose
\* name was in an event that went over the cap are without it (sse.rs falls back to the
\* index they came with, or to the first call's).
StreamIsWellFormed ==
    (Routes /\ resp.type = "sse" /\ Client # Origin /\ phase = "streaming")
    => LET es == Docs(got)
           Starts == {"text_start", "tool_start"}
           Open(n, i) == /\ \E m \in Before(es, n, Starts) : es[m].i = i
                         /\ ~ \E m \in Before(es, n, {"block_stop"}) : es[m].i = i
       IN  \A n \in 1..Len(es) :
             IF Client = "anthropic"
             THEN /\ (es[n].k = "message_start") = (n = 1)
                  /\ es[n].k \in Starts =>
                        ~ \E m \in Before(es, n, Starts) : es[m].i = es[n].i
                  /\ es[n].k \in {"text_delta", "block_stop"} => Open(n, es[n].i)
                  /\ es[n].k = "json_delta" => Open(n, es[n].i) \/ "event" \in torn
                  /\ es[n].k \in {"message_delta", "message_stop"} =>
                        \A m \in Before(es, n, Starts) : ~Open(n, es[m].i)
             ELSE /\ (es[n].k = "role") = (n = 1)
                  /\ es[n].k = "call" => es[n].i = Cardinality(Before(es, n, {"call"}))
                  /\ es[n].k = "args" =>
                        (\E m \in Before(es, n, {"call"}) : es[m].i = es[n].i) \/ "event" \in torn

Fits(s) == \A n \in 1..Len(Events(s)) : Len(Events(s)[n]) <= SseCap
\* Blocks as they were before a character of their own was replaced; a call with arguments
\* that are not its own.
Mended(bs) == [n \in 1..Len(bs) |-> IF bs[n].v < 0 THEN [bs[n] EXCEPT !.v = -@] ELSE bs[n]]
Garbled == U("call", 0, 0)

\* A stream whose events fit says to the agent what the origin said, the same text and the
\* same calls with their own arguments in the same order, wherever the frames cut it, but for
\* a character that a frame cuts in two (each frame is decoded by itself): it is replaced,
\* and nothing else is.  Between two sides of one dialect a stream with nothing cut is the
\* very same.  An event over the cap is lost (of a call, its name or its arguments), and then
\* still nothing is heard that the origin did not say.
StreamSaysTheSame ==
    (Routes /\ phase = "done" /\ ended = "whole" /\ resp.type = "sse")
    => LET heard == TextThenCalls(Heard)
           told == TextThenCalls(Last(said))
       IN  /\ Fits(resp.units) => "event" \notin torn
           /\ IF "event" \in torn
              THEN Range(Mended(heard)) \subseteq Range(told) \cup {Garbled}
              ELSE Mended(heard) = told
           /\ "character" \notin torn => Mended(heard) = heard
           /\ Client = Origin /\ torn = {} => got = resp.units

\* A routed stream can be followed at every moment and means the same at the end.
StreamIsFaithful == StreamIsWellFormed /\ StreamSaysTheSame

Assistant(c) == SelectSeq(c.messages, LAMBDA m : m.role = "assistant")
\* However many rounds, and however each answer came, the origin is asked with its own turns
\* in their order: the calls it made, and nothing as its text that it did not say, but for
\* what was lost on the way to the agent.
TurnsComeBack ==
    phase = "asking"
    => LET turns == Assistant(asked)
       IN  /\ Len(turns) = Len(said)
           /\ \A n \in 1..Len(turns) :
                LET bs == turns[n].blocks
                IN  /\ IF "event" \in torn
                       THEN Range(Mended(Only(bs, "call"))) \subseteq Range(said[n]) \cup {Garbled}
                       ELSE Mended(Only(bs, "call")) = Only(said[n], "call")
                    /\ Range(Mended(Only(bs, "text"))) \subseteq Range(said[n])
                    /\ "character" \notin torn => Mended(bs) = bs

Ids(blocks, k) == {b.v : b \in Range(Only(blocks, k))}
Mixed(c) == \E m \in Range(c.messages) : Only(m.blocks, "text") # << >> /\ Only(m.blocks, "result") # << >>
\* In what the origin is asked every call has its result before the next turn, and directly
\* after the call, unless a Messages agent put text beside the results of a message that goes
\* to a Chat Completions origin: there the text comes first.
ResultsFollowTheirCalls ==
    phase = "asking"
    => LET ms == asked.messages
       IN  \A p \in 1..Len(ms) :
            Ids(ms[p].blocks, "call") # {}
            => \E q \in (p + 1)..Len(ms) :
                 /\ \A r \in (p + 1)..q : ms[r].role # "assistant"
                 /\ Ids(ms[p].blocks, "call") =
                        UNION {Ids(ms[r].blocks, "result") : r \in (p + 1)..q}
                 /\ \/ \A r \in (p + 1)..q : Ids(ms[r].blocks, "result") # {}
                    \/ Client = "anthropic" /\ Origin = "openai" /\ Mixed(talk)

\* A conversation over two dialects stays one the origin can go on with.
ConversationSurvives == TurnsComeBack /\ ResultsFollowTheirCalls

\* Every exchange ends, unless its sender neither goes on nor breaks off.
EveryBodyEnds == (phase # "idle") ~> (phase = "done")

\* What server.rs says of the plain path: a layer that scans bodies applies its own oversize
\* rule to a body that was not read, rather than seeing nothing.
PlainBodyMeetsOversizeRule ==
    \A l \in Layers("dlp") :
        (req.path = "plain" /\ sent # << >> /\ l.scan /\ ~req.hdr)
        => l.oversize = "pass" /\ "BodyNotScanned" \in flags
=============================================================================
