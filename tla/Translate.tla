----------------------------- MODULE Translate -----------------------------
(***************************************************************************)
(* Requests and whole responses between the two chat dialects (marshal-llm   *)
(* translate.rs).                                                            *)
(*                                                                           *)
(* A message is a role and its blocks: pieces of "text", "call"s and         *)
(* "result"s with the call's id as v.  A Chat Completions message has its    *)
(* text, then its calls; there a result is a message of its own, with the    *)
(* role "tool".  A Messages request keeps its system text apart.  The pieces  *)
(* of a text stay apart here, where the code joins them.  Options, tool      *)
(* definitions and token counts, which are copied field by field, are left   *)
(* out.                                                                      *)
(***************************************************************************)
EXTENDS Sse

Only(blocks, k) == At(blocks, {n \in 1..Len(blocks) : blocks[n].k = k})
TextThenCalls(blocks) == Only(blocks, "text") \o Only(blocks, "call")
Msg(role, blocks) == [role |-> role, blocks |-> blocks]
NoSystem == << >>

\* Mutated form: a message with text has only its text.
openai_message_to_anthropic_text(m, role) ==
    Msg(role, IF Only(m.blocks, "text") # << >> THEN Only(m.blocks, "text") ELSE m.blocks)

\* A message's text is gathered, then its calls.
openai_message_to_anthropic(m, role) == Msg(role, TextThenCalls(m.blocks))

openai_request_to_anthropic(c) ==
    LET System(m) == m.role = "system"
        Turn(m) == CASE m.role = "tool" -> Msg("user", m.blocks)
                     [] m.role = "assistant" -> openai_message_to_anthropic(m, "assistant")
                     [] OTHER -> openai_message_to_anthropic(m, "user")
        turns == SelectSeq(c.messages, LAMBDA m : ~System(m))
    IN  [system |-> c.system \o FlattenSeq([n \in 1..Len(c.messages) |->
                       IF System(c.messages[n]) THEN Only(c.messages[n].blocks, "text") ELSE << >>]),
         messages |-> [n \in 1..Len(turns) |-> Turn(turns[n])]]

\* Mutated form: the results are taken only from a message that has nothing else.
anthropic_message_to_openai_dropping(m) ==
    IF TextThenCalls(m.blocks) # << >> THEN <<Msg(m.role, TextThenCalls(m.blocks))>>
    ELSE [n \in 1..Len(Only(m.blocks, "result")) |-> Msg("tool", <<Only(m.blocks, "result")[n]>>)]

\* Each result is a message; text and calls, if there are any, go in front of them.
anthropic_message_to_openai(m) ==
    LET results == Only(m.blocks, "result")
        said == TextThenCalls(m.blocks)
    IN  (IF said # << >> THEN <<Msg(m.role, said)>> ELSE << >>)
            \o [n \in 1..Len(results) |-> Msg("tool", <<results[n]>>)]

anthropic_request_to_openai(c) ==
    [system |-> NoSystem,
     messages |-> (IF c.system = << >> THEN << >> ELSE <<Msg("system", c.system)>>)
                     \o FlattenSeq([n \in 1..Len(c.messages) |->
                                       anthropic_message_to_openai(c.messages[n])])]

translate_request(client, origin, c) ==
    CASE client = origin -> c
      [] client = "openai" -> openai_request_to_anthropic(c)
      [] OTHER -> anthropic_request_to_openai(c)

\* The members of a response: an error keeps its shape's content, a turn its text and calls.
openai_response_to_anthropic(turn) == TextThenCalls(turn)
anthropic_response_to_openai(turn) == TextThenCalls(turn)
IsError(turn) == \E n \in 1..Len(turn) : turn[n].k = "error"

translate_response(origin, client, turn) ==
    CASE origin = client \/ IsError(turn) -> turn
      [] origin = "openai" -> openai_response_to_anthropic(turn)
      [] OTHER -> anthropic_response_to_openai(turn)
=============================================================================
