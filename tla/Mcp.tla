-------------------------------- MODULE Mcp --------------------------------
(***************************************************************************)
(* The MCP policy (marshal-policy mcp.rs, jsonrpc.rs): which tools may be    *)
(* called on a governed server, with which arguments, and which of them a    *)
(* listing may show.                                                         *)
(*                                                                           *)
(* A server is its hosts and its entries; an entry is the tools its glob     *)
(* matches and the sets its constraints allow an argument to be in.  A call  *)
(* is OPEN, a "call" with the tool as v, an "arg" with its value as v if     *)
(* there is one, CLOSE.                                                      *)
(***************************************************************************)
EXTENDS Sse

CONSTANT Servers

governs(host) == \E n \in 1..Len(Servers) : host \in Servers[n].hosts

\* The entries of the servers that govern a host, in the order they are tried.
Entries(host) ==
    FlattenSeq([n \in 1..Len(Servers) |->
                   IF host \in Servers[n].hosts THEN Servers[n].tools ELSE << >>])

\* An argument that was not supplied satisfies no constraint.
check_constraints(entry, args) ==
    \A n \in 1..Len(entry.when) : args # << >> /\ args[1] \in entry.when[n]

no_other_match(host, tool, args, skip) ==
    LET es == Entries(host)
    IN  ~ \E n \in 1..Len(es) \ {skip} : tool \in es[n].names /\ check_constraints(es[n], args)

\* Mutated form: the first entry that names the tool is enough.
check_call_named(host, tool, args) ==
    ~governs(host) \/ \E n \in 1..Len(Entries(host)) : tool \in Entries(host)[n].names

\* Entry by entry: "next" goes on, "ok" and "constraint" are answers; no answer is a refusal.
check_call(host, tool, args) ==
    LET es == Entries(host)
        Names(n) == tool \in es[n].names
        Answer(n) ==
            CASE Names(n) /\ check_constraints(es[n], args) -> "ok"
              [] Names(n) /\ ~check_constraints(es[n], args) /\ no_other_match(host, tool, args, n) ->
                    "constraint"
              [] OTHER -> "next"
    IN  \/ ~governs(host)
        \/ \E n \in 1..Len(es) :
              /\ Answer(n) = "ok"
              /\ \A m \in 1..(n - 1) : Answer(m) = "next"

tool_is_visible(host, tool) ==
    ~governs(host) \/ \E n \in 1..Len(Entries(host)) : tool \in Entries(host)[n].names

\* The message of a body that is one JSON-RPC object; a batch is not.
parse_request(body) ==
    IF ~IsDoc(body) \/ Members(body) = << >> THEN [is |-> "none"]
    ELSE LET m == Members(body)
         IN  CASE m[1].k = "call" ->
                    [is |-> "call", tool |-> m[1].v,
                     args |-> IF Len(m) > 1 /\ m[2].k = "arg" THEN <<m[2].v>> ELSE << >>]
               [] m[1].k = "list" -> [is |-> "list"]
               [] OTHER -> [is |-> "none"]

\* A listing without the tools that may not be seen; a tool without a name (v = 0) is dropped.
\* A batch of answers is no listing.
filter_tools_list(host, doc) ==
    IF \E p \in 1..Len(doc) : doc[p].k = "batch" THEN doc
    ELSE At(doc, {p \in 1..Len(doc) :
                    doc[p].k = "tool" => doc[p].v # 0 /\ tool_is_visible(host, doc[p].v)})

\* Each `data:` line that is a document is filtered by itself; any other line is left alone.
filter_sse_chunk(host, chunk) ==
    LET ls == Lines(chunk)
        Filtered[line \in Range(ls)] ==
            LET doc == Content(line)
                kept == filter_tools_list(host, doc)
            IN  IF IsDoc(doc) /\ kept # doc THEN kept \o <<NL>> ELSE line
    IN  FlattenSeq([n \in 1..Len(ls) |-> Filtered[ls[n]]])
=============================================================================
