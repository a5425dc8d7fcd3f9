------------------------------- MODULE Broker -------------------------------
(***************************************************************************)
(* In-band capture of an authorization-code flow the agent started itself  *)
(* (marshal-secrets/src/oauth/broker.rs).  The authorization request gets  *)
(* marshal's PKCE challenge instead of the agent's; the redirect that      *)
(* brings the code back is recognised by its state, the code is replaced   *)
(* by a sentinel and exchanged by marshal; and the token endpoint is       *)
(* answered locally.  Between request and redirect the flow waits in a     *)
(* bounded table that belongs to one broker; every profile and every       *)
(* reload has a broker of its own, and a tunnel keeps the one it was       *)
(* opened under.                                                           *)
(*                                                                         *)
(* Flows are numbered in the order in which they enter the tables, so a    *)
(* table (a VecDeque) is the set of the numbers in it, oldest = smallest.  *)
(***************************************************************************)
EXTENDS Integers, Sequences, FiniteSets

CONSTANTS
    State,         \* the values of the state parameter agents send
    NoState,       \* an authorization request that carries none
    MaxPending,    \* MAX_PENDING: how many flows one table holds
    MaxFlows,      \* bound: authorization requests in a behaviour
    MaxRedirects,  \* bound: redirects in a behaviour
    MaxBrokers     \* bound: brokers (profiles and reloads) in a behaviour

ASSUME BoundsAssumption ==
    /\ NoState \notin State
    /\ MaxPending \in Nat \ {0}
    /\ MaxFlows \in Nat
    /\ MaxRedirects \in Nat
    /\ MaxBrokers \in Nat \ {0}

VARIABLES
    flow,      \* the authorization requests so far, as the provider knows them
    pending,   \* for each broker, the flows in its table
    redirect,  \* the redirects so far and what became of each
    held       \* the tokens the agent was given: 0 the sentinel, n flow n's real one

vars == <<flow, pending, redirect, held>>

Flows == 1..Len(flow)
Brokers == 1..Len(pending)
Redirects == 1..Len(redirect)

\* An authorization request: its state, whether it has what a capture needs and
\* room for it in its URI, whose challenge the provider saw, the broker whose
\* table it was entered in (0: none), and whether FLOW_TTL has passed since.
Flow == [state : State \cup {NoState}, fits : BOOLEAN, challenge : {"marshal", "agent"},
         at : 0..MaxBrokers, stale : BOOLEAN]

\* A redirect: the request it answers, the broker of the connection it came
\* on, the flow that broker took for it (0: none), and what the agent sees of
\* it: still nothing while the code is being redeemed.
Redirect == [flow : 1..MaxFlows, via : 1..MaxBrokers, took : 0..MaxFlows,
             agent : {"redeeming", "code", "refusal", "sentinel", "gone"}]

Init ==
    /\ flow = << >>
    /\ pending = << {} >>
    /\ redirect = << >>
    /\ held = {}

-----------------------------------------------------------------------------
(* The table. *)

\* table.retain(|p| p.started.elapsed() < FLOW_TTL)
Fresh(table) == {n \in table : ~flow[n].stale}

\* Mutated forms of Newest: room for one more is forgotten; pop_back.
NewestAndOneMore(table) ==
    {n \in table : Cardinality({k \in table : k > n}) < MaxPending}

NewestGoFirst(table) ==
    {n \in table : Cardinality({k \in table : k < n}) < MaxPending - 1}

\* pop_front until there is room for one more.
Newest(table) ==
    {n \in table : Cardinality({k \in table : k > n}) < MaxPending - 1}

\* remember: drop what has expired, then the oldest, then add.
Remember(b, n) == [pending EXCEPT ![b] = Newest(Fresh(@)) \cup {n}]

\* Mutated form of Matching: the comparison is lost.
MatchingAny(b, s) == Fresh(pending[b])

\* The fresh flows of a table that have this state.
Matching(b, s) == {n \in Fresh(pending[b]) : flow[n].state = s}

-----------------------------------------------------------------------------
(* The authorization request. *)

\* With state and redirect_uri the flow is entered and marshal's challenge
\* goes to the provider in place of the agent's.
AuthorizeCaptured(b, s) ==
    /\ Len(flow) < MaxFlows
    /\ flow' = Append(flow, [state |-> s, fits |-> TRUE, challenge |-> "marshal",
                             at |-> b, stale |-> FALSE])
    /\ pending' = Remember(b, Len(flow) + 1)
    /\ UNCHANGED <<redirect, held>>

\* The rewritten query is longer than a URI may be: the flow is entered all
\* the same, and the agent's own challenge goes out.
AuthorizeOversized(b, s) ==
    /\ Len(flow) < MaxFlows
    /\ flow' = Append(flow, [state |-> s, fits |-> FALSE, challenge |-> "agent",
                             at |-> b, stale |-> FALSE])
    /\ pending' = Remember(b, Len(flow) + 1)
    /\ UNCHANGED <<redirect, held>>

\* Not captured, for want of a state or of a redirect_uri: the request goes
\* out untouched.
AuthorizeUntouched(s) ==
    /\ Len(flow) < MaxFlows
    /\ flow' = Append(flow, [state |-> s, fits |-> FALSE, challenge |-> "agent",
                             at |-> 0, stale |-> FALSE])
    /\ UNCHANGED <<pending, redirect, held>>

\* FLOW_TTL passes.  The instant is read before the table is locked, so two
\* entries may expire in either order.  Only what is in a table is timed.
Stales(n) ==
    /\ \E b \in Brokers : n \in pending[b]
    /\ ~flow[n].stale
    /\ flow' = [flow EXCEPT ![n].stale = TRUE]
    /\ UNCHANGED <<pending, redirect, held>>

\* A reload, or the first use of another profile: one more broker, empty.
NewBroker ==
    /\ Len(pending) < MaxBrokers
    /\ pending' = Append(pending, {})
    /\ UNCHANGED <<flow, redirect, held>>

-----------------------------------------------------------------------------
(* The redirect. *)

\* Mutated form of Arrives: take copies the entry and leaves it in the table.
ArrivesCopying(n, b, k, agent) ==
    /\ Len(redirect) < MaxRedirects
    /\ redirect' = Append(redirect,
            [flow |-> n, via |-> b, took |-> k, agent |-> agent])
    /\ pending' = [pending EXCEPT ![b] = Fresh(@)]
    /\ UNCHANGED <<flow, held>>

\* The provider answers an authorization request with a code or a refusal, on
\* any connection, late, and possibly more than once (the user goes back and
\* submits the form again).  There is no await between the response's arrival
\* and the end of take, so both are one step.
Arrives(n, b, k, agent) ==
    /\ Len(redirect) < MaxRedirects
    /\ redirect' = Append(redirect,
            [flow |-> n, via |-> b, took |-> k, agent |-> agent])
    /\ pending' = [pending EXCEPT ![b] = Fresh(@) \ {k}]
    /\ UNCHANGED <<flow, held>>

\* take finds no flow: the response goes to the agent as it is.
PassesUntaken(n, b, agent) ==
    /\ Matching(b, flow[n].state) = {}
    /\ Arrives(n, b, 0, agent)

\* take removes the oldest flow with the redirect's state.
Taking(n, b, k, agent) ==
    /\ k \in Matching(b, flow[n].state)
    /\ \A l \in Matching(b, flow[n].state) : k =< l
    /\ Arrives(n, b, k, agent)

\* The redirect brings a code: the code is replaced and the exchange starts.
Captures(n, b, k) == Taking(n, b, k, "redeeming")

\* The provider refused: the agent sees its own error, and the flow is gone.
Refused(n, b, k) == Taking(n, b, k, "refusal")

\* Mutated form of ExchangeReturns: a code that could not be exchanged is given
\* back to the agent.
ExchangeReturnsHandingBack(r) ==
    /\ redirect[r].agent = "redeeming"
    /\ \E agent \in {"sentinel", "code"} :
          redirect' = [redirect EXCEPT ![r].agent = agent]
    /\ UNCHANGED <<flow, pending, held>>

\* complete_authorization_code returns: the provider answered, refused (the
\* verifier is another flow's, say), could not be reached or ran into the
\* token timeout.  All come to the same here: the agent gets the sentinel.
ExchangeReturns(r) ==
    /\ redirect[r].agent = "redeeming"
    /\ redirect' = [redirect EXCEPT ![r].agent = "sentinel"]
    /\ UNCHANGED <<flow, pending, held>>

\* The agent hangs up during the exchange and the handler is dropped.
AgentHangsUp(r) ==
    /\ redirect[r].agent = "redeeming"
    /\ redirect' = [redirect EXCEPT ![r].agent = "gone"]
    /\ UNCHANGED <<flow, pending, held>>

-----------------------------------------------------------------------------
(* The token endpoint. *)

\* The agent redeems what it was given with a POST to the token endpoint.
\* Whatever that is, the answer is marshal's own and nothing is forwarded.
Respond(r) ==
    /\ redirect[r].agent \in {"code", "sentinel"}
    /\ held' = held \cup {0}
    /\ UNCHANGED <<flow, pending, redirect>>

\* The agent redeems it in a request that is no POST, or goes to another host
\* or path the provider serves tokens at: respond returns None and the request
\* is forwarded.  The provider gives a token for a code of its own whose
\* challenge the agent can answer.
Forwarded(r) ==
    /\ redirect[r].agent \in {"code", "sentinel"}
    /\ LET n == redirect[r].flow IN
       held' = held \cup {m \in {n} : redirect[r].agent = "code"
                                     /\ flow[m].challenge = "agent"}
    /\ UNCHANGED <<flow, pending, redirect>>

Next ==
    \/ \E s \in State :
          \/ \E b \in Brokers : AuthorizeCaptured(b, s) \/ AuthorizeOversized(b, s)
          \/ AuthorizeUntouched(s)
    \/ AuthorizeUntouched(NoState)
    \/ \E n \in Flows : Stales(n)
    \/ NewBroker
    \/ \E n \in Flows, b \in Brokers :
          \/ \E agent \in {"code", "refusal"} : PassesUntaken(n, b, agent)
          \/ \E k \in Flows : Captures(n, b, k) \/ Refused(n, b, k)
    \/ \E r \in Redirects :
          \/ ExchangeReturns(r)
          \/ AgentHangsUp(r)
          \/ Respond(r)
          \/ Forwarded(r)

Spec == Init /\ [][Next]_vars

-----------------------------------------------------------------------------
(* Properties. *)

\* Types, and the bound remember keeps whatever the agent requests: no table
\* ever holds more than MAX_PENDING flows.
TypeOK ==
    /\ flow \in Seq(Flow)
    /\ pending \in Seq(SUBSET Flows)
    /\ redirect \in Seq(Redirect)
    /\ held \subseteq 0..MaxFlows
    /\ \A b \in Brokers : Cardinality(pending[b]) =< MaxPending

\* Flows entered after n in the same table.
NewerThan(n) == {k \in Flows : k > n /\ flow[k].at = flow[n].at}

\* The flow a redirect answers was taken by an earlier one.
TakenBefore(r) == \E q \in 1..(r - 1) : redirect[q].took = redirect[r].flow

\* The flow a redirect answers ran out of time, or came back on another
\* broker's connection, or was taken by an earlier redirect, or was pushed out
\* by MAX_PENDING newer ones.
Lost(r) ==
    LET n == redirect[r].flow IN
    \/ flow[n].stale
    \/ redirect[r].via # flow[n].at
    \/ TakenBefore(r)
    \/ Cardinality(NewerThan(n)) >= MaxPending

\* An agent sees the real code of a flow that was entered only if the flow
\* was lost (the comment on MAX_PENDING; remember and take).
RealCodeOnlyWhenLost ==
    \A r \in Redirects :
        redirect[r].agent = "code" /\ flow[redirect[r].flow].at # 0 => Lost(r)

\* The table of captured flows never holds more than it may, and loses no flow
\* that is still in time before it has to.
TableIsSound == TypeOK /\ RealCodeOnlyWhenLost

\* take removes what it returns: no verifier is used in two exchanges, however
\* many redirects with the same state race for it.
TakenOnce ==
    \A r, q \in Redirects :
        redirect[r].took # 0 /\ redirect[r].took = redirect[q].took => r = q

\* As long as agents do not repeat a state, a code is exchanged with the
\* verifier of the very flow it belongs to, and on the broker that has it.
RedeemsItsOwn ==
    \A r \in Redirects :
        LET n == redirect[r].flow IN
        /\ redirect[r].took # 0
        /\ \A k \in Flows : flow[k].state = flow[n].state => k = n
        => redirect[r].took = n /\ flow[n].at = redirect[r].via

\* A real token reaches the agent, past a respond that does not match its
\* request, only for a flow whose challenge could not be replaced, and of those
\* that were entered only for one the broker had lost: the code of any other is
\* redeemable only by marshal (the head of broker.rs), and is not handed back
\* when marshal cannot redeem it.
TokenOnlyForALostFlow ==
    \A n \in held \ {0} :
        /\ ~flow[n].fits
        /\ flow[n].at # 0 =>
              \E r \in Redirects : /\ redirect[r].flow = n
                                   /\ redirect[r].agent = "code"
                                   /\ Lost(r)
=============================================================================
