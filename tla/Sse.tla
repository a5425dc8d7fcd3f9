-------------------------------- MODULE Sse --------------------------------
(***************************************************************************)
(* Event streams: how the interceptor cuts one into chunks it can rewrite    *)
(* (mitm.rs) and how the LLM router translates one event at a time between   *)
(* the two chat dialects (marshal-llm sse.rs).                               *)
(*                                                                           *)
(* A byte string is a sequence of units.  A `data:` line that carries a JSON *)
(* document is OPEN, the members the model tells apart, CLOSE; its line ends *)
(* with NL, an event with two of them.  A line that begins with OPEN is a    *)
(* `data:` line, whether or not the rest of the document is there.  WIDE     *)
(* units are the halves of one character, which is in the member they stand  *)
(* after.  The ids and names of messages are left out.                       *)
(***************************************************************************)
EXTENDS Integers, FiniteSets, Sequences, SequencesExt, TLC

\* What s has at the places in I, in order.
At(s, I) ==
    LET upto[n \in 0..Len(s)] ==
            IF n = 0 THEN << >>
            ELSE IF n \in I THEN Append(upto[n - 1], s[n]) ELSE upto[n - 1]
    IN  upto[Len(s)]

\* The kinds of units: punctuation and bytes, members of a message, members of an event.
Kinds ==
    {"open", "close", "nl", "cr", "pad", "wide", "bad", "bin", "key", "mark", "notice",
     "list", "batch", "tool", "call", "arg", "result", "text", "error",
     "role", "args", "callargs", "finish", "done",
     "message_start", "text_start", "tool_start", "text_delta", "json_delta", "block_stop",
     "message_delta", "message_stop"}
U(k, i, v) == [k |-> k, i |-> i, v |-> v]
Mark(k) == U(k, 0, 0)
OPEN == Mark("open")
CLOSE == Mark("close")
NL == Mark("nl")
CR == Mark("cr")
PAD == Mark("pad")
WIDE == <<U("wide", 1, 0), U("wide", 2, 0)>>

\* The text that from_utf8 accepts: no raw byte, both halves of a character.
WellEncoded(s) ==
    \A p \in 1..Len(s) :
        /\ s[p].k # "bin"
        /\ s[p] = WIDE[1] => p < Len(s) /\ s[p + 1] = WIDE[2]
        /\ s[p] = WIDE[2] => p > 1 /\ s[p - 1] = WIDE[1]

\* from_utf8_lossy, on one frame alone: a half without its other half is replaced.
Lossy(frame) ==
    [p \in 1..Len(frame) |->
        IF \/ frame[p] = WIDE[1] /\ (p = Len(frame) \/ frame[p + 1] # WIDE[2])
           \/ frame[p] = WIDE[2] /\ (p = 1 \/ frame[p - 1] # WIDE[1])
        THEN Mark("bad") ELSE frame[p]]

\* A whole JSON document.
IsDoc(s) ==
    /\ Len(s) >= 2 /\ s[1] = OPEN /\ s[Len(s)] = CLOSE
    /\ WellEncoded(s)
    /\ \A p \in 2..(Len(s) - 1) : s[p].k \notin {"open", "close", "nl", "cr"}

\* A member with a character of its own replaced is another: its value, negated.
Spoilt(doc, p) ==
    \E q \in (p + 1)..Len(doc) :
        doc[q].k = "bad" /\ \A r \in (p + 1)..q : doc[r].k \in {"wide", "bad"}
Member(doc, p) == IF Spoilt(doc, p) THEN [doc[p] EXCEPT !.v = -@] ELSE doc[p]

\* The members of a document that matter.
Members(doc) ==
    At([p \in 1..Len(doc) |-> Member(doc, p)],
       {p \in 2..(Len(doc) - 1) : doc[p].k \notin {"pad", "wide", "bad"}})

\* Where a blank line ends.
BlankLines(s) == {p \in 2..Len(s) : s[p] = NL /\ s[p - 1] = NL}

\* The pieces of s that end at these places, and what is left.
Split(s, ends) ==
    LET cuts == ends \cup ({Len(s)} \ {0})
        End(n) == IF n = 0 THEN 0 ELSE CHOOSE p \in cuts : Cardinality({q \in cuts : q <= p}) = n
    IN  [n \in 1..Cardinality(cuts) |-> SubSeq(s, End(n - 1) + 1, End(n))]

\* split_inclusive('\n'), and split("\n\n") with what it splits at.
Lines(s) == Split(s, {p \in 1..Len(s) : s[p] = NL})
Events(s) == Split(s, BlankLines(s))

IsBlank(s) == \A p \in 1..Len(s) : s[p].k \in {"nl", "cr"}

\* trim_end_matches(['\r', '\n']).
Content(s) == SubSeq(s, 1, Max({0} \cup {p \in 1..Len(s) : s[p].k \notin {"nl", "cr"}}))

-----------------------------------------------------------------------------
CutAt(s, p) == [ready |-> SubSeq(s, 1, p), rest |-> SubSeq(s, p + 1, Len(s))]

\* Mutated form: an event is waited for, however long it is.
next_sse_chunk_patient(pending, cap) ==
    LET ends == BlankLines(pending)
    IN  CutAt(pending, IF ends # {} THEN Max(ends) ELSE 0)

\* Up to the last blank line, or all of it once it is over the cap.
next_sse_chunk(pending, cap) ==
    LET ends == BlankLines(pending)
    IN  IF ends # {} THEN CutAt(pending, Max(ends))
        ELSE CutAt(pending, IF Len(pending) > cap THEN Len(pending) ELSE 0)

-----------------------------------------------------------------------------
Event(e) == <<OPEN, e, CLOSE, NL, NL>>
Out(r, e) == [r EXCEPT !.out = @ \o Event(e)]

NoBlock == -1
NewSession ==
    [started |-> FALSE, text |-> NoBlock, next |-> 0, tools |-> << >>, open |-> << >>]

Stops(open) == FlattenSeq([n \in 1..Len(open) |-> Event(U("block_stop", open[n], 0))])

\* Every open block is stopped, in the order of its index.
close_anthropic_blocks(r) ==
    [r EXCEPT !.out = @ \o Stops(r.s.open), !.s.open = << >>, !.s.text = NoBlock]

MessageStart(r) ==
    IF r.s.started THEN r ELSE [Out(r, Mark("message_start")) EXCEPT !.s.started = TRUE]

\* open_anthropic_blocks is an ordered set; indices are handed out in order.
Opened(open, b) == IF b \in Range(open) THEN open ELSE Append(open, b)
NewText(r) ==
    [Out(r, U("text_start", r.s.next, 0)) EXCEPT
        !.s.text = r.s.next, !.s.next = @ + 1, !.s.open = Opened(@, r.s.next)]
TextDelta(r, e) ==
    LET q == IF r.s.text = NoBlock THEN NewText(r) ELSE r
    IN  Out(q, U("text_delta", q.s.text, e.v))

With(table, i, b) == [x \in DOMAIN table \cup {i} |-> IF x = i THEN b ELSE table[x]]

\* Mutated form: the tool's own index is taken as the block's.
ToolStart_own(r, e) ==
    LET q == [r EXCEPT !.s.open = Opened(@, e.i), !.s.tools = With(@, e.i, e.i)]
    IN  Out(q, U("tool_start", e.i, e.v))

\* A named call opens a block of its own.
ToolStart(r, e) ==
    LET known == e.i \in DOMAIN r.s.tools
        block == IF known THEN r.s.tools[e.i] ELSE r.s.next
        q == [r EXCEPT !.s.open = Opened(@, block),
                       !.s.next = IF known THEN @ ELSE @ + 1,
                       !.s.tools = With(@, e.i, block)]
    IN  Out(q, U("tool_start", block, e.v))

\* Mutated form: the arguments go to the block with the call's own index.
ToolDelta_own(r, e) == Out(r, U("json_delta", e.i, e.v))

\* Its arguments go to its block.
ToolDelta(r, e) ==
    Out(r, U("json_delta", IF e.i \in DOMAIN r.s.tools THEN r.s.tools[e.i] ELSE e.i, e.v))

\* The reasons to stop: 0 stop or end_turn, 1 tool_calls or tool_use, 2 length or max_tokens, 3 another.
StopReason(v) == IF v \in {1, 2} THEN v ELSE 0

\* One Chat Completions chunk, as Messages events.
openai_chunk_to_anthropic(r0, e) ==
    IF e.k = "done" THEN Out(close_anthropic_blocks(r0), Mark("message_stop"))
    ELSE LET r == MessageStart(r0)
         IN  CASE e.k = "text" -> TextDelta(r, e)
               [] e.k = "call" -> ToolStart(r, e)
               [] e.k = "args" -> ToolDelta(r, e)
               [] e.k = "callargs" -> ToolDelta(ToolStart(r, e), e)
               [] e.k = "finish" ->
                    Out(close_anthropic_blocks(r), U("message_delta", 0, StopReason(e.v)))
               [] OTHER -> r

\* One Messages event, as Chat Completions chunks.
anthropic_chunk_to_openai(r, e) ==
    CASE e.k = "message_start" -> [Out(r, Mark("role")) EXCEPT !.s.started = TRUE]
      [] e.k = "tool_start" ->
            LET known == e.i \in DOMAIN r.s.tools
                index == IF known THEN r.s.tools[e.i] ELSE r.s.next
                q == [r EXCEPT !.s.next = IF known THEN @ ELSE @ + 1,
                               !.s.tools = With(@, e.i, index)]
            IN  Out(q, U("call", index, e.v))
      [] e.k = "text_delta" -> Out(r, U("text", 0, e.v))
      [] e.k = "json_delta" ->
            Out(r, U("args", IF e.i \in DOMAIN r.s.tools THEN r.s.tools[e.i] ELSE 0, e.v))
      [] e.k = "message_delta" -> Out(r, U("finish", 0, StopReason(e.v)))
      [] e.k = "message_stop" -> Out(r, Mark("done"))
      [] OTHER -> r

\* What each `data:` line has: the members of its document, or none if it does not parse.
Documents(s) ==
    LET Document[line \in Range(Lines(s))] ==
            CASE line[1] # OPEN -> << >>
              [] line[1] = OPEN /\ IsDoc(Content(line)) -> <<Members(Content(line))>>
              [] OTHER -> << << >> >>
        ls == Lines(s)
    IN  FlattenSeq([n \in 1..Len(ls) |-> Document[ls[n]]])

\* Of an event of a Chat Completions origin the first `data:` line counts, of another the last.
parse_sse_event(event, origin) ==
    LET data == Documents(event)
    IN  CASE data = << >> -> << >>
          [] data # << >> /\ origin = "openai" -> data[1]
          [] OTHER -> data[Len(data)]

\* The event again, ended as an event whether or not it was one.
rewrite_model_in_sse(r, event) == [r EXCEPT !.out = @ \o Content(event) \o <<NL, NL>>]

\* One event, with the members of its document, through the session; what does not parse is
\* dropped.
Translated(r, event, m, origin, client) ==
    CASE origin = client -> rewrite_model_in_sse(r, event)
      [] origin # client /\ m = << >> -> r
      [] origin # client /\ m # << >> /\ origin = "openai" -> openai_chunk_to_anthropic(r, m[1])
      [] OTHER -> anthropic_chunk_to_openai(r, m[1])

\* One chunk through the session: every event in it that is not blank, in order.
rewrite(s, chunk, origin, client) ==
    LET es == Events(chunk)
        Doc[e \in Range(es)] == parse_sse_event(e, origin)
        done[n \in 0..Len(es)] ==
            IF n = 0 THEN [s |-> s, out |-> << >>]
            ELSE IF IsBlank(es[n]) THEN done[n - 1]
            ELSE Translated(done[n - 1], es[n], Doc[es[n]], origin, client)
    IN  done[Len(es)]
=============================================================================
