---------------------------- MODULE Proxy_proofs ----------------------------
(***************************************************************************)
(* Default deny, the audit log and the one set of rules, for any number of  *)
(* connections, requests, destinations, configurations and reloads.         *)
(*                                                                          *)
(* A connection is a record that only its own task changes, so the          *)
(* invariant is about one record at a time.  It says what is over (Past:    *)
(* what was decided, dialled, forwarded, answered and recorded so far) and  *)
(* what the present control point may rely on (Now: that the current        *)
(* request has an allowing verdict, is not on record yet, is not on its way *)
(* yet), which is what makes the next forward, answer or record safe.       *)
(***************************************************************************)
EXTENDS Proxy, FiniteSetTheorems, WellFoundedInduction, TLAPS

\* The control points, and what the record of a connection may hold.
Control == {"idle", "parsed", "loaded", "received", "judged", "dialing", "dialed", "inspecting",
            "relaying", "handshaking", "serving", "transformed", "redialed", "awaiting",
            "answering", "closed"}

Why == {"chain", "transform", "responder", "guard", "sni"}

Rec == [req : Nat, action : Action, would_deny : BOOLEAN, why : Why]

Decided == [req : Nat, phase : Phase, view : Nat, layer : Nat, action : Action,
            would_deny : BOOLEAN]

Connection ==
  [pc : Control, kind : Kind \union {None}, host : Host \union {None}, view : Nat, tls : Nat,
   req : Nat, given : {None} \union UNION {Inputs(chain) : chain \in Chain},
   verdict : Outcome \union {None}, target : Host \union {None}, slot : Host \union {None},
   dialed : SUBSET Host, forwarded : SUBSET Nat, verdicts : SUBSET Decided,
   replies : SUBSET Nat, log : Seq(Rec)]

-----------------------------------------------------------------------------
(* The audit log of one connection. *)

Within(log, n)  == \A i \in DOMAIN log : log[i].req \in 0 .. n
Quiet(log, n)   == \A i \in DOMAIN log : log[i].req # n
NoDeny(log, n)  == \A i \in DOMAIN log : log[i].req = n => log[i].action = "allow"
Logged(log, n)  == \E i \in DOMAIN log : log[i].req = n /\ log[i].action = "allow"

\* One record a request; the connection's own may be an allow taken back.
Ordered(log) ==
  \A i, j \in DOMAIN log : i < j /\ log[i].req = log[j].req =>
    log[i].req = 0 /\ log[i].action = "allow" /\ log[j].action = "deny"

Vouched(log, verdicts) ==
  \A i \in DOMAIN log : log[i].action = "allow" =>
    \E v \in verdicts : v.req = log[i].req /\ v.action = "allow" /\ v.would_deny = log[i].would_deny

LEMMA Appended ==
  ASSUME NEW log \in Seq(Rec), NEW r \in Rec
  PROVE  /\ Append(log, r) \in Seq(Rec)
         /\ Len(log) \in Nat
         /\ DOMAIN log = 1 .. Len(log)
         /\ DOMAIN Append(log, r) = DOMAIN log \union {Len(log) + 1}
         /\ Append(log, r)[Len(log) + 1] = r
         /\ \A i \in DOMAIN log : Append(log, r)[i] = log[i] /\ i < Len(log) + 1
  <1> HIDE DEF Rec
  <1> QED
    OBVIOUS

\* What every record added to a log keeps.
LEMMA RecordKeeps ==
  ASSUME NEW log \in Seq(Rec), NEW r \in Rec, NEW n \in Nat, r.req \in 0 .. n
  PROVE  LET l == Append(log, r)
         IN  /\ l \in Seq(Rec)
             /\ Within(log, n) => Within(l, n)
             /\ \A m \in Nat : Logged(log, m) => Logged(l, m)
             /\ \A m \in Nat : m # r.req /\ NoDeny(log, m) => NoDeny(l, m)
             /\ \A m \in Nat : m # r.req /\ Quiet(log, m) => Quiet(l, m)
  <1> DEFINE l == Append(log, r)
             k == Len(log) + 1
  <1>1. /\ l \in Seq(Rec) /\ DOMAIN l = DOMAIN log \union {k} /\ l[k] = r
        /\ \A i \in DOMAIN log : l[i] = log[i]
    BY Appended
  <1> HIDE DEF l, k
  <1>2. Within(log, n) => Within(l, n)
    BY <1>1 DEF Within
  <1>3. ASSUME NEW m \in Nat
        PROVE  /\ Logged(log, m) => Logged(l, m)
               /\ m # r.req /\ NoDeny(log, m) => NoDeny(l, m)
               /\ m # r.req /\ Quiet(log, m) => Quiet(l, m)
    BY <1>1 DEF Logged, NoDeny, Quiet
  <1>4. /\ l \in Seq(Rec) /\ Within(log, n) => Within(l, n)
        /\ \A m \in Nat : Logged(log, m) => Logged(l, m)
        /\ \A m \in Nat : m # r.req /\ NoDeny(log, m) => NoDeny(l, m)
        /\ \A m \in Nat : m # r.req /\ Quiet(log, m) => Quiet(l, m)
    BY <1>1, <1>2, <1>3
  <1> QED
    BY <1>4 DEF l

\* An allow, of a request that is not on record.
LEMMA RecordAllow ==
  ASSUME NEW log \in Seq(Rec), NEW r \in Rec, r.action = "allow", Quiet(log, r.req),
         Ordered(log)
  PROVE  LET l == Append(log, r)
         IN  /\ Ordered(l)
             /\ Logged(l, r.req)
             /\ \A m \in Nat : NoDeny(log, m) => NoDeny(l, m)
             /\ NoDeny(l, r.req)
             /\ \A vs : Vouched(log, vs)
                        /\ (\E v \in vs : v.req = r.req /\ v.action = "allow"
                                          /\ v.would_deny = r.would_deny)
                  => Vouched(l, vs)
  <1> DEFINE l == Append(log, r)
             k == Len(log) + 1
  <1>1. /\ DOMAIN l = DOMAIN log \union {k} /\ l[k] = r /\ k \in Nat
        /\ \A i \in DOMAIN log : l[i] = log[i] /\ i < k /\ i \in Nat
    BY Appended
  <1> HIDE DEF l, k
  <1>2. Ordered(l)
    BY <1>1 DEF Ordered, Quiet
  <1>3. Logged(l, r.req) /\ NoDeny(l, r.req)
    BY <1>1 DEF Logged, NoDeny, Quiet
  <1>4. ASSUME NEW m \in Nat, NoDeny(log, m)
        PROVE  NoDeny(l, m)
    BY <1>1, <1>4 DEF NoDeny
  <1>5. ASSUME NEW vs, Vouched(log, vs),
               \E v \in vs : v.req = r.req /\ v.action = "allow" /\ v.would_deny = r.would_deny
        PROVE  Vouched(l, vs)
    BY <1>1, <1>5 DEF Vouched
  <1>6. /\ Ordered(l) /\ Logged(l, r.req) /\ NoDeny(l, r.req)
        /\ \A m \in Nat : NoDeny(log, m) => NoDeny(l, m)
        /\ \A vs : Vouched(log, vs)
                   /\ (\E v \in vs : v.req = r.req /\ v.action = "allow"
                                     /\ v.would_deny = r.would_deny)
             => Vouched(l, vs)
    BY <1>2, <1>3, <1>4, <1>5
  <1> QED
    BY <1>6 DEF l

\* A refusal, of a request that is not on record, or that takes back the allow
\* of the connection's own.
LEMMA RecordDeny ==
  ASSUME NEW log \in Seq(Rec), NEW r \in Rec, r.action = "deny", Ordered(log),
         Quiet(log, r.req) \/ (r.req = 0 /\ NoDeny(log, 0))
  PROVE  LET l == Append(log, r)
         IN  /\ Ordered(l)
             /\ \A vs : Vouched(log, vs) => Vouched(l, vs)
  <1> DEFINE l == Append(log, r)
             k == Len(log) + 1
  <1>1. /\ DOMAIN l = DOMAIN log \union {k} /\ l[k] = r /\ k \in Nat
        /\ \A i \in DOMAIN log : l[i] = log[i] /\ i < k /\ i \in Nat
    BY Appended
  <1> HIDE DEF l, k
  <1>2. Ordered(l)
    BY <1>1 DEF Ordered, Quiet, NoDeny
  <1>3. \A vs : Vouched(log, vs) => Vouched(l, vs)
    BY <1>1 DEF Vouched
  <1> QED
    BY <1>2, <1>3 DEF l

-----------------------------------------------------------------------------
(* What the chain decides. *)

LEMMA LeastExists ==
  ASSUME NEW T \in SUBSET Nat, T # {}
  PROVE  First(T) \in T
  <1> DEFINE R == OpToRel(<, Nat)
  <1>1. \A x, y \in Nat : x < y => <<x, y>> \in R
    BY DEF OpToRel
  <1>2. IsWellFoundedOn(R, Nat)
    BY NatLessThanWellFounded
  <1> HIDE DEF R
  <1>3. PICK x \in T : \A y \in T : ~(<<y, x>> \in R)
    BY <1>2, WFMin
  <1>4. ASSUME NEW y \in T
        PROVE  x <= y
    <2>1. x \in Nat /\ y \in Nat /\ ~(y < x)
      BY <1>1, <1>3
    <2> QED
      BY <2>1
  <1> QED
    BY <1>4 DEF First

\* A decision is an outcome, and an enforced default deny does not allow.
LEMMA DecideSound ==
  ASSUME NEW chain \in Chain, NEW phase, NEW a \in [Positions(chain) -> Answer]
  PROVE  LET o == Decide(chain, phase, a, Approval)
         IN  /\ o \in Outcome
             /\ o.action = "allow" /\ ~chain.warn_only /\ chain.default_action = "deny"
                  => o.layer # DefaultAction
  <1> DEFINE D == Decisive(chain, phase, a, Approval)
             eff(i) == Effective(chain, i, a[i], Approval)
  <1>0. /\ chain.layers \in Seq(Layer) /\ chain.default_action \in Action
        /\ chain.warn_only \in BOOLEAN
    BY DEF Chain
  <1>1. ASSUME NEW act \in Action, NEW l \in Nat
        PROVE  /\ Terminate(chain, act, l) \in Outcome
               /\ Terminate(chain, act, l).layer = l
               /\ Terminate(chain, act, l).action = "allow" /\ ~chain.warn_only => act = "allow"
    BY <1>0 DEF Terminate, Outcome, Action
  <1>2. CASE D = {}
    <2>1. Decide(chain, phase, a, Approval) = Terminate(chain, chain.default_action, DefaultAction)
      BY <1>2 DEF Decide
    <2> QED
      BY <1>0, <1>1, <2>1 DEF DefaultAction
  <1>3. CASE D # {}
    <2>1. D \in SUBSET Positions(chain) /\ \A i \in D : eff(i) # "pass"
      BY DEF Decisive
    <2>2. Positions(chain) \in SUBSET (Nat \ {0})
      BY <1>0 DEF Positions
    <2>3. First(D) \in D
      <3> HIDE DEF D
      <3> QED
        BY <1>3, <2>1, <2>2, LeastExists
    <2>4. eff(First(D)) \in Action
      <3>1. \A i \in Positions(chain) : OnError[chain.layers[i]] \in FailureMode
        BY <1>0, LayerFunctions DEF Positions
      <3>2. \A i \in Positions(chain) : eff(i) \in {"allow", "deny", "pass"}
        BY <3>1 DEF Effective, Answer, FailureMode
      <3> HIDE DEF D, eff
      <3> QED
        BY <2>1, <2>3, <3>2 DEF Action
    <2>5. Decide(chain, phase, a, Approval) = Terminate(chain, eff(First(D)), First(D))
      BY <1>3 DEF Decide
    <2> HIDE DEF D, eff
    <2> QED
      BY <1>1, <2>1, <2>2, <2>3, <2>4, <2>5 DEF DefaultAction
  <1> QED
    BY <1>2, <1>3
-----------------------------------------------------------------------------
(* The invariant.  `s` is a connection's record, `g` the configuration of   *)
(* its view.                                                                *)

Visible(s)     == s.req > 0 \/ s.kind = "absolute"
Reach(s, g)    == {s.host} \union MappedTo[g][s.host]
Tunnelled(s, g) == s.kind = "connect" /\ s.host \notin Passthrough[g] /\ s.req = 0

\* An enforced default deny did not allow.
Firm(v, g) ==
  ~ChainOf[g].warn_only /\ ChainOf[g].default_action = "deny" => v.layer # DefaultAction

LetIn(s) == \E v \in s.verdicts : v.req = 0 /\ v.action = "allow"

\* Request `n` was allowed in the phase that sees it, by more than the default.
LetsOut(s, g, n) ==
  \E v \in s.verdicts :
    /\ v.req = n /\ v.action = "allow"
    /\ n > 0 \/ s.kind = "absolute" => v.phase = "request"
    /\ Firm(v, g)

\* The current request was allowed, flagged as its verdict says; by more than
\* the default unless requests inside the tunnel will be decided again.
Cleared(s, g) ==
  /\ s.verdict \in Outcome
  /\ \E v \in s.verdicts :
       /\ v.req = s.req /\ v.action = "allow" /\ v.would_deny = s.verdict.would_deny
       /\ Visible(s) => v.phase = "request"
       /\ ~Tunnelled(s, g) => Firm(v, g)

\* What has happened on the connection so far.
Past(s, g) ==
  /\ s.host \in Host /\ s.kind \in Kind
  /\ s.kind = "absolute" => s.req = 0
  /\ s.replies \union s.forwarded \subseteq 0 .. s.req
  /\ \A v \in s.verdicts : v.view = s.view /\ v.req \in 0 .. s.req
  /\ s.req > 0 => LetIn(s)
  /\ s.dialed # {} => LetIn(s)
  /\ s.dialed \subseteq Reach(s, g)
  /\ \A n \in s.forwarded : LetsOut(s, g, n) /\ NoDeny(s.log, n)
  /\ \A n \in s.replies \intersect s.forwarded : Logged(s.log, n)
  /\ Within(s.log, s.req) /\ Ordered(s.log) /\ Vouched(s.log, s.verdicts)

Outside == {"loaded", "dialing", "dialed", "inspecting", "handshaking"}
Inside  == {"received", "transformed", "redialed", "awaiting", "answering"}

\* What the control point relies on.
Now(s, g) ==
  /\ s.pc \notin {"idle", "parsed"}
  /\ s.pc \in Outside => s.req = 0
  /\ s.pc \in Inside => s.req > 0
  /\ s.pc \in {"handshaking", "serving"} => LetIn(s) /\ s.kind # "absolute"
  /\ s.pc = "judged" => s.verdict \in Outcome
  /\ \/ s.pc \in {"dialing", "dialed", "inspecting", "transformed", "redialed", "awaiting"}
     \/ s.pc = "judged" /\ s.verdict.action = "allow"
     => Cleared(s, g)
  /\ s.pc \in {"loaded", "received", "judged", "dialing", "dialed", "inspecting", "transformed",
               "redialed"}
       => s.req \notin s.forwarded
  /\ s.pc \in {"received", "judged", "transformed", "redialed"} /\ s.req > 0
       => s.req \notin s.replies
  /\ s.pc \in {"dialing", "transformed", "redialed"} => s.target \in Reach(s, g)
  /\ \/ s.pc \in {"loaded", "received", "judged", "transformed", "redialed", "awaiting"}
     \/ s.pc \in {"dialing", "dialed"} /\ ~Tunnelled(s, g)
     => Quiet(s.log, s.req)
  /\ s.pc \in {"dialing", "dialed", "inspecting"} => NoDeny(s.log, 0)
  /\ s.pc \in {"inspecting", "answering"} => Logged(s.log, s.req)
  /\ s.pc = "inspecting" => ~Tunnelled(s, g) /\ s.kind # "absolute"
  /\ s.pc = "awaiting" => s.slot = s.target

\* A connection that has not looked up a configuration has done nothing.
Blank(s) ==
  /\ s.pc \in {"idle", "parsed", "closed"}
  /\ s.pc = "parsed" => s.host \in Host /\ s.kind \in Kind
  /\ s.req = 0 /\ s.log = <<>>
  /\ s.dialed = {} /\ s.forwarded = {} /\ s.verdicts = {} /\ s.replies = {}

Good(s, inst) ==
  /\ s \in Connection
  /\ s.view \in 0 .. Len(inst) /\ s.tls \in 0 .. Len(inst) /\ s.req \in 0 .. MaxRequests
  /\ s.view = 0 => Blank(s)
  /\ s.view > 0 => Past(s, inst[s.view]) /\ Now(s, inst[s.view])

IInv ==
  /\ installed \in Seq(Config) /\ Len(installed) \in 1 .. MaxReloads + 1
  /\ DOMAIN conn = Conn
  /\ \A c \in Conn : Good(conn[c], installed)
-----------------------------------------------------------------------------
(* The steps of one connection, as steps of its record. *)

LEMMA ProxyParameters ==
  /\ MaxRequests \in Nat /\ MaxReloads \in Nat /\ InitialConfig \in Config
  /\ \A g \in Config :
       /\ ChainOf[g] \in Chain
       /\ \A h \in Host : MappedTo[g][h] \subseteq Host
  BY ProxyConfig

\* Refuse, TransformFails, GuardRefuses, ResponderFails and RedialRefused: a
\* refusal is recorded and answered.
LEMMA Refusal ==
  ASSUME NEW s \in Connection, NEW g \in Config, Past(s, g), Now(s, g),
         s.pc \in {"judged", "dialing", "transformed"},
         NEW p, p = "closed" \/ (p = "serving" /\ s.req > 0),
         NEW r \in Rec, r.req = s.req, r.action = "deny"
  PROVE  LET t == [s EXCEPT !.pc = p, !.replies = s.replies \union {s.req},
                            !.log = Append(s.log, r)]
         IN  t \in Connection /\ Past(t, g) /\ Now(t, g)
  <1> DEFINE l == Append(s.log, r)
             t == [s EXCEPT !.pc = p, !.replies = s.replies \union {s.req}, !.log = l]
  <1>1. /\ s.log \in Seq(Rec) /\ s.req \in Nat /\ s.replies \in SUBSET Nat
        /\ s.forwarded \in SUBSET Nat
    BY DEF Connection
  <1>2. l \in Seq(Rec)
    <2> HIDE DEF Rec
    <2> QED
      BY <1>1
  <1> HIDE DEF l
  <1>3. /\ t \in Connection
        /\ t.pc = p /\ t.kind = s.kind /\ t.host = s.host /\ t.view = s.view /\ t.req = s.req
        /\ t.dialed = s.dialed /\ t.forwarded = s.forwarded /\ t.verdicts = s.verdicts
        /\ t.replies = s.replies \union {s.req} /\ t.log = l
    BY <1>1, <1>2 DEF Connection, Control
  <1> HIDE DEF t
  <1>4. /\ s.req \notin s.forwarded
        /\ Quiet(s.log, s.req) \/ (s.req = 0 /\ NoDeny(s.log, 0))
    BY DEF Now, Tunnelled
  <1>5. /\ Within(l, s.req) /\ Ordered(l) /\ Vouched(l, s.verdicts)
        /\ \A m \in Nat : Logged(s.log, m) => Logged(l, m)
        /\ \A m \in Nat : m # s.req /\ NoDeny(s.log, m) => NoDeny(l, m)
    BY <1>1, <1>4, RecordKeeps, RecordDeny DEF Past, l
  <1>6. Past(t, g)
    BY <1>1, <1>3, <1>4, <1>5 DEF Past, LetIn, LetsOut, Reach
  <1>7. Now(t, g)
    BY <1>3 DEF Now, Past, LetIn, Outside, Inside
  <1> QED
    BY <1>3, <1>6, <1>7 DEF t, l
\* SniMismatch: the allow on record is taken back.
LEMMA Retraction ==
  ASSUME NEW s \in Connection, NEW g \in Config, Past(s, g), Now(s, g), s.pc = "inspecting",
         NEW r \in Rec, r.req = s.req, r.action = "deny"
  PROVE  LET t == [s EXCEPT !.pc = "closed", !.log = Append(s.log, r)]
         IN  t \in Connection /\ Past(t, g) /\ Now(t, g)
  <1> DEFINE l == Append(s.log, r)
             t == [s EXCEPT !.pc = "closed", !.log = l]
  <1>1. s.log \in Seq(Rec) /\ s.req \in Nat /\ s.forwarded \in SUBSET Nat
    BY DEF Connection
  <1>2. l \in Seq(Rec)
    <2> HIDE DEF Rec
    <2> QED
      BY <1>1
  <1> HIDE DEF l
  <1>3. /\ t \in Connection
        /\ t.pc = "closed" /\ t.kind = s.kind /\ t.host = s.host /\ t.view = s.view
        /\ t.req = s.req /\ t.dialed = s.dialed /\ t.forwarded = s.forwarded
        /\ t.verdicts = s.verdicts /\ t.replies = s.replies /\ t.log = l
    BY <1>1, <1>2 DEF Connection, Control
  <1> HIDE DEF t
  <1>4. s.req = 0 /\ s.req \notin s.forwarded /\ NoDeny(s.log, 0)
    BY DEF Now, Outside
  <1>5. /\ Within(l, s.req) /\ Ordered(l) /\ Vouched(l, s.verdicts)
        /\ \A m \in Nat : Logged(s.log, m) => Logged(l, m)
        /\ \A m \in Nat : m # s.req /\ NoDeny(s.log, m) => NoDeny(l, m)
    BY <1>1, <1>4, RecordKeeps, RecordDeny DEF Past, l
  <1>6. Past(t, g)
    BY <1>1, <1>3, <1>4, <1>5 DEF Past, LetIn, LetsOut, Reach
  <1>7. Now(t, g)
    BY <1>3 DEF Now, Outside, Inside
  <1> QED
    BY <1>3, <1>6, <1>7 DEF t, l

\* NoProfile and Unidentified: answered without a record.
LEMMA TurnedAway ==
  ASSUME NEW s \in Connection, NEW g \in Config, Past(s, g), Now(s, g), s.pc = "loaded"
  PROVE  LET t == [s EXCEPT !.pc = "closed", !.replies = s.replies \union {s.req}]
         IN  t \in Connection /\ Past(t, g) /\ Now(t, g)
  <1> DEFINE t == [s EXCEPT !.pc = "closed", !.replies = s.replies \union {s.req}]
  <1>1. /\ t \in Connection
        /\ t.pc = "closed" /\ t.kind = s.kind /\ t.host = s.host /\ t.view = s.view
        /\ t.req = s.req /\ t.dialed = s.dialed /\ t.forwarded = s.forwarded
        /\ t.verdicts = s.verdicts /\ t.replies = s.replies \union {s.req} /\ t.log = s.log
    BY DEF Connection, Control
  <1>2. s.req \in Nat
    BY DEF Connection
  <1> HIDE DEF t
  <1>3. Past(t, g)
    BY <1>1, <1>2 DEF Past, Now, LetIn, LetsOut, Reach
  <1>4. Now(t, g)
    BY <1>1 DEF Now, Outside, Inside
  <1> QED
    BY <1>1, <1>3, <1>4 DEF t

\* Breaks: the task ends without a word.
LEMMA Ending ==
  ASSUME NEW s \in Connection, NEW g \in Config, Past(s, g), Now(s, g)
  PROVE  LET t == [s EXCEPT !.pc = "closed"]
         IN  t \in Connection /\ Past(t, g) /\ Now(t, g)
  <1> DEFINE t == [s EXCEPT !.pc = "closed"]
  <1>1. /\ t \in Connection
        /\ t.pc = "closed" /\ t.kind = s.kind /\ t.host = s.host /\ t.view = s.view
        /\ t.req = s.req /\ t.dialed = s.dialed /\ t.forwarded = s.forwarded
        /\ t.verdicts = s.verdicts /\ t.replies = s.replies /\ t.log = s.log
    BY DEF Connection, Control
  <1> HIDE DEF t
  <1>2. Past(t, g)
    BY <1>1 DEF Past, LetIn, LetsOut, Reach
  <1>3. Now(t, g)
    BY <1>1 DEF Now, Outside, Inside
  <1> QED
    BY <1>1, <1>2, <1>3 DEF t

\* Transform: the target is the authority or what the router maps it to.
LEMMA Transformation ==
  ASSUME NEW s \in Connection, NEW g \in Config, Past(s, g), Now(s, g),
         s.pc = "judged", s.verdict.action = "allow", Visible(s), NEW o \in Reach(s, g)
  PROVE  LET t == [s EXCEPT !.target = o,
                            !.pc = IF s.req > 0 THEN "transformed" ELSE "dialing"]
         IN  t \in Connection /\ Past(t, g) /\ Now(t, g)
  <1> DEFINE p == IF s.req > 0 THEN "transformed" ELSE "dialing"
             t == [s EXCEPT !.target = o, !.pc = p]
  <1>1. o \in Host /\ s.req \in Nat
    BY ProxyParameters DEF Reach, Past, Connection
  <1>2. p \in Control /\ (s.req > 0 => p = "transformed") /\ (s.req = 0 => p = "dialing")
    BY <1>1 DEF Control
  <1> HIDE DEF p
  <1>3. /\ t \in Connection
        /\ t.pc = p /\ t.kind = s.kind /\ t.host = s.host /\ t.view = s.view
        /\ t.req = s.req /\ t.dialed = s.dialed /\ t.forwarded = s.forwarded
        /\ t.verdicts = s.verdicts /\ t.replies = s.replies /\ t.log = s.log
        /\ t.verdict = s.verdict /\ t.target = o
    BY <1>1, <1>2 DEF Connection
  <1> HIDE DEF t
  <1>4. Past(t, g)
    BY <1>3 DEF Past, LetIn, LetsOut, Reach
  <1>5. Cleared(t, g) /\ Quiet(t.log, t.req) /\ t.req \notin t.forwarded
        /\ (t.req > 0 => t.req \notin t.replies)
    BY <1>3 DEF Now, Cleared, Visible, Tunnelled
  <1>6. NoDeny(t.log, t.req)
    BY <1>5 DEF Quiet, NoDeny
  <1>7. Now(t, g)
    BY <1>1, <1>2, <1>3, <1>5, <1>6 DEF Now, Outside, Inside, Reach
  <1> QED
    BY <1>3, <1>4, <1>7 DEF t, p

\* GuardConnects: the target joins the hosts contacted for this client.
LEMMA Dialing ==
  ASSUME NEW s \in Connection, NEW g \in Config, Past(s, g), Now(s, g), s.pc = "dialing"
  PROVE  LET t == [s EXCEPT !.pc = "dialed", !.slot = s.target,
                            !.dialed = s.dialed \union {s.target}]
         IN  t \in Connection /\ Past(t, g) /\ Now(t, g)
  <1> DEFINE t == [s EXCEPT !.pc = "dialed", !.slot = s.target,
                            !.dialed = s.dialed \union {s.target}]
  <1>1. s.target \in Reach(s, g) /\ s.target \in Host /\ s.req = 0 /\ LetIn(s)
    BY ProxyParameters DEF Reach, Past, Now, Connection, Outside, Cleared, LetIn
  <1>2. /\ t \in Connection
        /\ t.pc = "dialed" /\ t.kind = s.kind /\ t.host = s.host /\ t.view = s.view
        /\ t.req = s.req /\ t.dialed = s.dialed \union {s.target} /\ t.forwarded = s.forwarded
        /\ t.verdicts = s.verdicts /\ t.replies = s.replies /\ t.log = s.log
        /\ t.verdict = s.verdict
    BY <1>1 DEF Connection, Control
  <1> HIDE DEF t
  <1>3. Past(t, g)
    BY <1>1, <1>2 DEF Past, LetIn, LetsOut, Reach
  <1>4. Now(t, g)
    BY <1>1, <1>2 DEF Now, Outside, Inside, Cleared, Visible, Tunnelled
  <1> QED
    BY <1>2, <1>3, <1>4 DEF t
\* An allow record of the current request, flagged as its verdict is.
LEMMA Grant ==
  ASSUME NEW s \in Connection, NEW g \in Config, Past(s, g), Cleared(s, g),
         Quiet(s.log, s.req),
         NEW r \in Rec, r.req = s.req, r.action = "allow", r.would_deny = s.verdict.would_deny
  PROVE  LET l == Append(s.log, r)
         IN  /\ l \in Seq(Rec)
             /\ Within(l, s.req) /\ Ordered(l) /\ Vouched(l, s.verdicts)
             /\ Logged(l, s.req) /\ NoDeny(l, s.req)
             /\ \A m \in Nat : Logged(s.log, m) => Logged(l, m)
             /\ \A m \in Nat : NoDeny(s.log, m) => NoDeny(l, m)
             /\ \A m \in Nat : m # s.req /\ Quiet(s.log, m) => Quiet(l, m)
  <1>1. s.log \in Seq(Rec) /\ s.req \in Nat
    BY DEF Connection
  <1>2. r.req \in 0 .. s.req /\ Quiet(s.log, r.req) /\ Ordered(s.log)
        /\ Within(s.log, s.req) /\ Vouched(s.log, s.verdicts)
    BY <1>1 DEF Past
  <1>3. \E v \in s.verdicts : v.req = r.req /\ v.action = "allow" /\ v.would_deny = r.would_deny
    BY DEF Cleared
  <1> QED
    BY <1>1, <1>2, <1>3, RecordKeeps, RecordAllow

\* Establish: a CONNECT is answered, and on record if it is intercepted.
LEMMA Establishing ==
  ASSUME NEW s \in Connection, NEW g \in Config, Past(s, g), Now(s, g),
         s.pc = "judged", s.verdict.action = "allow", s.kind = "connect", s.req = 0,
         NEW r \in Rec, r.req = 0, r.action = "allow", r.would_deny = s.verdict.would_deny,
         NEW p, p \in {"dialing", "dialed"}
  PROVE  LET t == [s EXCEPT !.replies = s.replies \union {s.req}, !.target = s.host,
                     !.log = IF Tunnelled(s, g) THEN Append(s.log, r) ELSE s.log,
                     !.pc = p]
         IN  t \in Connection /\ Past(t, g) /\ Now(t, g)
  <1> DEFINE l == IF Tunnelled(s, g) THEN Append(s.log, r) ELSE s.log
             t == [s EXCEPT !.replies = s.replies \union {s.req}, !.target = s.host,
                     !.log = l, !.pc = p]
  <1>1. Cleared(s, g) /\ Quiet(s.log, s.req) /\ s.req \notin s.forwarded
    BY DEF Now
  <1>2. s.log \in Seq(Rec) /\ NoDeny(s.log, s.req)
    BY <1>1 DEF Connection, Quiet, NoDeny
  <1>3. /\ l \in Seq(Rec)
        /\ Within(l, s.req) /\ Ordered(l) /\ Vouched(l, s.verdicts) /\ NoDeny(l, s.req)
        /\ \A m \in Nat : Logged(s.log, m) => Logged(l, m)
        /\ \A m \in Nat : NoDeny(s.log, m) => NoDeny(l, m)
        /\ ~Tunnelled(s, g) => Quiet(l, s.req)
    <2>1. CASE Tunnelled(s, g)
      BY <1>1, <2>1, Grant
    <2>2. CASE ~Tunnelled(s, g)
      BY <1>1, <1>2, <2>2 DEF Past
    <2> QED
      BY <2>1, <2>2
  <1> HIDE DEF l
  <1>4. /\ t \in Connection
        /\ t.pc = p /\ t.kind = s.kind /\ t.host = s.host /\ t.view = s.view
        /\ t.req = s.req /\ t.dialed = s.dialed /\ t.forwarded = s.forwarded
        /\ t.verdicts = s.verdicts /\ t.replies = s.replies \union {s.req} /\ t.log = l
        /\ t.verdict = s.verdict /\ t.target = s.host
    BY <1>3 DEF Connection, Control, Past
  <1>5. s.forwarded \in SUBSET Nat
    BY DEF Connection
  <1> HIDE DEF t
  <1>6. Past(t, g)
    BY <1>1, <1>3, <1>4, <1>5 DEF Past, LetIn, LetsOut, Reach
  <1>7. Cleared(t, g) /\ (Tunnelled(t, g) <=> Tunnelled(s, g))
    BY <1>1, <1>4 DEF Cleared, Visible, Tunnelled
  <1>8. Now(t, g)
    BY <1>1, <1>3, <1>4, <1>7 DEF Now, Outside, Inside, Reach
  <1> QED
    BY <1>4, <1>6, <1>8 DEF t, l

\* SocksDials: nothing is answered or recorded yet.
LEMMA SocksDialing ==
  ASSUME NEW s \in Connection, NEW g \in Config, Past(s, g), Now(s, g),
         s.pc = "judged", s.verdict.action = "allow", s.kind = "socks5", s.req = 0,
         NEW p, p \in {"dialing", "dialed"}
  PROVE  LET t == [s EXCEPT !.target = s.host, !.pc = p]
         IN  t \in Connection /\ Past(t, g) /\ Now(t, g)
  <1> DEFINE t == [s EXCEPT !.target = s.host, !.pc = p]
  <1>1. /\ t \in Connection
        /\ t.pc = p /\ t.kind = s.kind /\ t.host = s.host /\ t.view = s.view
        /\ t.req = s.req /\ t.dialed = s.dialed /\ t.forwarded = s.forwarded
        /\ t.verdicts = s.verdicts /\ t.replies = s.replies /\ t.log = s.log
        /\ t.verdict = s.verdict /\ t.target = s.host
    BY DEF Connection, Control, Past
  <1> HIDE DEF t
  <1>2. Cleared(s, g) /\ Quiet(s.log, 0) /\ NoDeny(s.log, 0)
    BY DEF Now, Quiet, NoDeny
  <1>3. Past(t, g)
    BY <1>1 DEF Past, LetIn, LetsOut, Reach
  <1>4. Now(t, g)
    BY <1>1, <1>2 DEF Now, Outside, Inside, Cleared, Visible, Tunnelled, Reach
  <1> QED
    BY <1>1, <1>3, <1>4 DEF t

\* ForwardHead: absolute form, sent and recorded.
LEMMA Forwarding ==
  ASSUME NEW s \in Connection, NEW g \in Config, Past(s, g), Now(s, g),
         s.pc = "dialed", s.kind = "absolute",
         NEW r \in Rec, r.req = s.req, r.action = "allow", r.would_deny = s.verdict.would_deny
  PROVE  LET t == [s EXCEPT !.pc = "relaying", !.forwarded = s.forwarded \union {0},
                            !.log = Append(s.log, r)]
         IN  t \in Connection /\ Past(t, g) /\ Now(t, g)
  <1> DEFINE l == Append(s.log, r)
             t == [s EXCEPT !.pc = "relaying", !.forwarded = s.forwarded \union {0}, !.log = l]
  <1>1. s.req = 0 /\ Cleared(s, g) /\ Quiet(s.log, s.req)
        /\ ~Tunnelled(s, g) /\ Visible(s)
    BY DEF Now, Outside, Tunnelled, Visible
  <1>2. /\ l \in Seq(Rec)
        /\ Within(l, s.req) /\ Ordered(l) /\ Vouched(l, s.verdicts)
        /\ Logged(l, s.req) /\ NoDeny(l, s.req)
        /\ \A m \in Nat : Logged(s.log, m) => Logged(l, m)
        /\ \A m \in Nat : NoDeny(s.log, m) => NoDeny(l, m)
    BY <1>1, Grant
  <1> HIDE DEF l
  <1>3. s.forwarded \union {0} \in SUBSET Nat /\ LetsOut(s, g, 0)
    BY <1>1 DEF Connection, Cleared, LetsOut
  <1>4. /\ t \in Connection
        /\ t.pc = "relaying" /\ t.kind = s.kind /\ t.host = s.host /\ t.view = s.view
        /\ t.req = s.req /\ t.dialed = s.dialed /\ t.forwarded = s.forwarded \union {0}
        /\ t.verdicts = s.verdicts /\ t.replies = s.replies /\ t.log = l
    BY <1>2, <1>3 DEF Connection, Control
  <1> HIDE DEF t
  <1>5. Past(t, g)
    BY <1>1, <1>2, <1>3, <1>4 DEF Past, LetIn, LetsOut, Reach
  <1>6. Now(t, g)
    BY <1>4 DEF Now, Outside, Inside
  <1> QED
    BY <1>4, <1>5, <1>6 DEF t, l

\* StartTunnel: recorded and answered; nothing is relayed yet.
LEMMA Opening ==
  ASSUME NEW s \in Connection, NEW g \in Config, Past(s, g), Now(s, g),
         s.pc = "dialed", s.kind # "absolute", ~Tunnelled(s, g),
         NEW r \in Rec, r.req = s.req, r.action = "allow", r.would_deny = s.verdict.would_deny
  PROVE  LET t == [s EXCEPT !.pc = "inspecting", !.log = Append(s.log, r),
                            !.replies = s.replies \union {s.req}]
         IN  t \in Connection /\ Past(t, g) /\ Now(t, g)
  <1> DEFINE l == Append(s.log, r)
             t == [s EXCEPT !.pc = "inspecting", !.log = l,
                            !.replies = s.replies \union {s.req}]
  <1>1. s.req = 0 /\ Cleared(s, g) /\ Quiet(s.log, s.req) /\ s.req \notin s.forwarded
    BY DEF Now, Outside
  <1>2. /\ l \in Seq(Rec)
        /\ Within(l, s.req) /\ Ordered(l) /\ Vouched(l, s.verdicts)
        /\ Logged(l, s.req) /\ NoDeny(l, s.req)
        /\ \A m \in Nat : Logged(s.log, m) => Logged(l, m)
        /\ \A m \in Nat : NoDeny(s.log, m) => NoDeny(l, m)
    BY <1>1, Grant
  <1> HIDE DEF l
  <1>3. /\ t \in Connection
        /\ t.pc = "inspecting" /\ t.kind = s.kind /\ t.host = s.host /\ t.view = s.view
        /\ t.req = s.req /\ t.dialed = s.dialed /\ t.forwarded = s.forwarded
        /\ t.verdicts = s.verdicts /\ t.replies = s.replies \union {s.req} /\ t.log = l
        /\ t.verdict = s.verdict
    BY <1>1, <1>2 DEF Connection, Control
  <1>4. s.forwarded \in SUBSET Nat
    BY DEF Connection
  <1> HIDE DEF t
  <1>5. Past(t, g)
    BY <1>1, <1>2, <1>3, <1>4 DEF Past, LetIn, LetsOut, Reach
  <1>6. Cleared(t, g) /\ ~Tunnelled(t, g)
    BY <1>1, <1>3 DEF Cleared, Visible, Tunnelled
  <1>7. Now(t, g)
    BY <1>1, <1>2, <1>3, <1>6 DEF Now, Outside, Inside
  <1> QED
    BY <1>3, <1>5, <1>7 DEF t, l

\* SniMatches: the tunnel's bytes go out.
LEMMA Matching ==
  ASSUME NEW s \in Connection, NEW g \in Config, Past(s, g), Now(s, g), s.pc = "inspecting"
  PROVE  LET t == [s EXCEPT !.pc = "relaying", !.forwarded = s.forwarded \union {0}]
         IN  t \in Connection /\ Past(t, g) /\ Now(t, g)
  <1> DEFINE t == [s EXCEPT !.pc = "relaying", !.forwarded = s.forwarded \union {0}]
  <1>1. s.req = 0 /\ Cleared(s, g) /\ NoDeny(s.log, 0) /\ Logged(s.log, 0)
        /\ ~Tunnelled(s, g) /\ s.kind # "absolute"
    BY DEF Now, Outside
  <1>2. s.forwarded \union {0} \in SUBSET Nat /\ LetsOut(s, g, 0)
    BY <1>1 DEF Connection, Cleared, LetsOut
  <1>3. /\ t \in Connection
        /\ t.pc = "relaying" /\ t.kind = s.kind /\ t.host = s.host /\ t.view = s.view
        /\ t.req = s.req /\ t.dialed = s.dialed /\ t.forwarded = s.forwarded \union {0}
        /\ t.verdicts = s.verdicts /\ t.replies = s.replies /\ t.log = s.log
    BY <1>2 DEF Connection, Control
  <1> HIDE DEF t
  <1>4. Past(t, g)
    BY <1>1, <1>2, <1>3 DEF Past, LetIn, LetsOut, Reach
  <1>5. Now(t, g)
    BY <1>3 DEF Now, Outside, Inside
  <1> QED
    BY <1>3, <1>4, <1>5 DEF t
\* BuildHandler: a SOCKS5 tunnel is recorded here, a CONNECT was before.
LEMMA Building ==
  ASSUME NEW s \in Connection, NEW g \in Config, Past(s, g), Now(s, g), s.pc = "dialed",
         s.kind # "absolute", NEW n \in Nat,
         NEW r \in Rec, r.req = s.req, r.action = "allow", r.would_deny = s.verdict.would_deny
  PROVE  LET t == [s EXCEPT !.pc = "handshaking", !.tls = n,
                     !.log = IF s.kind = "socks5" THEN Append(s.log, r) ELSE s.log,
                     !.replies = s.replies \union {s.req}]
         IN  t \in Connection /\ Past(t, g) /\ Now(t, g)
  <1> DEFINE l == IF s.kind = "socks5" THEN Append(s.log, r) ELSE s.log
             t == [s EXCEPT !.pc = "handshaking", !.tls = n, !.log = l,
                            !.replies = s.replies \union {s.req}]
  <1>1. s.req = 0 /\ Cleared(s, g) /\ s.req \notin s.forwarded /\ LetIn(s)
        /\ (s.kind = "socks5" => Quiet(s.log, s.req))
    BY DEF Now, Outside, Cleared, LetIn, Tunnelled
  <1>2. /\ l \in Seq(Rec)
        /\ Within(l, s.req) /\ Ordered(l) /\ Vouched(l, s.verdicts)
        /\ \A m \in Nat : Logged(s.log, m) => Logged(l, m)
        /\ \A m \in Nat : NoDeny(s.log, m) => NoDeny(l, m)
    <2>1. CASE s.kind = "socks5"
      BY <1>1, <2>1, Grant
    <2>2. CASE s.kind # "socks5"
      BY <2>2 DEF Past, Connection
    <2> QED
      BY <2>1, <2>2
  <1> HIDE DEF l
  <1>3. /\ t \in Connection
        /\ t.pc = "handshaking" /\ t.kind = s.kind /\ t.host = s.host /\ t.view = s.view
        /\ t.req = s.req /\ t.dialed = s.dialed /\ t.forwarded = s.forwarded
        /\ t.verdicts = s.verdicts /\ t.replies = s.replies \union {s.req} /\ t.log = l
    BY <1>1, <1>2 DEF Connection, Control
  <1>4. s.forwarded \in SUBSET Nat
    BY DEF Connection
  <1> HIDE DEF t
  <1>5. Past(t, g)
    BY <1>1, <1>2, <1>3, <1>4 DEF Past, LetIn, LetsOut, Reach
  <1>6. Now(t, g)
    BY <1>1, <1>3 DEF Now, Outside, Inside, LetIn
  <1> QED
    BY <1>3, <1>5, <1>6 DEF t, l

\* Handshake: the tunnel takes requests.
LEMMA Handshaking ==
  ASSUME NEW s \in Connection, NEW g \in Config, Past(s, g), Now(s, g), s.pc = "handshaking"
  PROVE  LET t == [s EXCEPT !.pc = "serving"]
         IN  t \in Connection /\ Past(t, g) /\ Now(t, g)
  <1> DEFINE t == [s EXCEPT !.pc = "serving"]
  <1>1. /\ t \in Connection
        /\ t.pc = "serving" /\ t.kind = s.kind /\ t.host = s.host /\ t.view = s.view
        /\ t.req = s.req /\ t.dialed = s.dialed /\ t.forwarded = s.forwarded
        /\ t.verdicts = s.verdicts /\ t.replies = s.replies /\ t.log = s.log
    BY DEF Connection, Control
  <1> HIDE DEF t
  <1>2. Past(t, g)
    BY <1>1 DEF Past, LetIn, LetsOut, Reach
  <1>3. Now(t, g)
    BY <1>1 DEF Now, Outside, Inside, LetIn
  <1> QED
    BY <1>1, <1>2, <1>3 DEF t

\* The next request of a tunnel is one nothing is known of.
LEMMA NextIsNew ==
  ASSUME NEW log \in Seq(Rec), NEW n \in Nat, Within(log, n)
  PROVE  Within(log, n + 1) /\ Quiet(log, n + 1)
  <1>1. ASSUME NEW i \in DOMAIN log
        PROVE  log[i].req \in 0 .. n + 1 /\ log[i].req # n + 1
    <2>1. log[i].req \in 0 .. n
      BY DEF Within
    <2> QED
      BY <2>1
  <1> QED
    BY <1>1 DEF Within, Quiet

\* Receive: a request nothing is known of yet.
LEMMA Receiving ==
  ASSUME NEW s \in Connection, NEW g \in Config, Past(s, g), Now(s, g), s.pc = "serving"
  PROVE  LET t == [s EXCEPT !.pc = "received", !.req = s.req + 1, !.verdict = None,
                            !.given = None, !.target = None]
         IN  t \in Connection /\ Past(t, g) /\ Now(t, g)
  <1> DEFINE n == s.req + 1
             t == [s EXCEPT !.pc = "received", !.req = n, !.verdict = None,
                            !.given = None, !.target = None]
  <1>1. s.log \in Seq(Rec) /\ s.req \in Nat /\ n \in Nat /\ n > 0
    BY DEF Connection
  <1>2. Within(s.log, n) /\ Quiet(s.log, n)
    BY <1>1, NextIsNew DEF Past
  <1>3. s.replies \union s.forwarded \subseteq 0 .. n
        /\ n \notin s.replies /\ n \notin s.forwarded
        /\ \A v \in s.verdicts : v.view = s.view /\ v.req \in 0 .. n
    BY <1>1 DEF Past
  <1> HIDE DEF n
  <1>4. /\ t \in Connection
        /\ t.pc = "received" /\ t.kind = s.kind /\ t.host = s.host /\ t.view = s.view
        /\ t.req = n /\ t.dialed = s.dialed /\ t.forwarded = s.forwarded
        /\ t.verdicts = s.verdicts /\ t.replies = s.replies /\ t.log = s.log
    BY <1>1 DEF Connection, Control
  <1> HIDE DEF t
  <1>5. LetIn(s) /\ s.kind # "absolute"
    BY DEF Now
  <1>6. Past(t, g)
    BY <1>1, <1>2, <1>3, <1>4, <1>5 DEF Past, LetIn, LetsOut, Reach
  <1>7. Now(t, g)
    BY <1>1, <1>2, <1>3, <1>4 DEF Now, Outside, Inside
  <1> QED
    BY <1>4, <1>6, <1>7 DEF t, n

\* Responds: answered and recorded, and never sent.
LEMMA Responding ==
  ASSUME NEW s \in Connection, NEW g \in Config, Past(s, g), Now(s, g), s.pc = "transformed",
         NEW r \in Rec, r.req = s.req, r.action = "allow", r.would_deny = s.verdict.would_deny
  PROVE  LET t == [s EXCEPT !.pc = "serving", !.replies = s.replies \union {s.req},
                            !.log = Append(s.log, r)]
         IN  t \in Connection /\ Past(t, g) /\ Now(t, g)
  <1> DEFINE l == Append(s.log, r)
             t == [s EXCEPT !.pc = "serving", !.replies = s.replies \union {s.req}, !.log = l]
  <1>1. Cleared(s, g) /\ Quiet(s.log, s.req) /\ s.req \notin s.forwarded /\ LetIn(s)
        /\ s.kind # "absolute"
    BY DEF Now, Past, Inside
  <1>2. /\ l \in Seq(Rec)
        /\ Within(l, s.req) /\ Ordered(l) /\ Vouched(l, s.verdicts)
        /\ \A m \in Nat : Logged(s.log, m) => Logged(l, m)
        /\ \A m \in Nat : NoDeny(s.log, m) => NoDeny(l, m)
    BY <1>1, Grant
  <1> HIDE DEF l
  <1>3. s.forwarded \in SUBSET Nat /\ s.replies \union {s.req} \in SUBSET Nat
    BY DEF Connection
  <1>4. /\ t \in Connection
        /\ t.pc = "serving" /\ t.kind = s.kind /\ t.host = s.host /\ t.view = s.view
        /\ t.req = s.req /\ t.dialed = s.dialed /\ t.forwarded = s.forwarded
        /\ t.verdicts = s.verdicts /\ t.replies = s.replies \union {s.req} /\ t.log = l
    BY <1>2, <1>3 DEF Connection, Control
  <1>5. s.req \in 0 .. s.req
    BY DEF Connection
  <1> HIDE DEF t
  <1>6. Past(t, g)
    BY <1>1, <1>2, <1>3, <1>4, <1>5 DEF Past, LetIn, LetsOut, Reach
  <1>7. Now(t, g)
    BY <1>1, <1>4 DEF Now, Outside, Inside, LetIn
  <1> QED
    BY <1>4, <1>6, <1>7 DEF t, l

\* Redial: the guard connects for the request's target; nothing is sent yet.
LEMMA Redialing ==
  ASSUME NEW s \in Connection, NEW g \in Config, Past(s, g), Now(s, g), s.pc = "transformed"
  PROVE  LET t == [s EXCEPT !.pc = "redialed", !.dialed = s.dialed \union {s.target}]
         IN  t \in Connection /\ Past(t, g) /\ Now(t, g)
  <1> DEFINE t == [s EXCEPT !.pc = "redialed", !.dialed = s.dialed \union {s.target}]
  <1>1. s.target \in Reach(s, g) /\ s.target \in Host /\ s.req > 0 /\ LetIn(s)
    BY ProxyParameters DEF Reach, Past, Now, Inside
  <1>2. /\ t \in Connection
        /\ t.pc = "redialed" /\ t.kind = s.kind /\ t.host = s.host /\ t.view = s.view
        /\ t.req = s.req /\ t.dialed = s.dialed \union {s.target} /\ t.forwarded = s.forwarded
        /\ t.verdicts = s.verdicts /\ t.replies = s.replies /\ t.log = s.log
        /\ t.verdict = s.verdict /\ t.target = s.target
    BY <1>1 DEF Connection, Control
  <1> HIDE DEF t
  <1>3. Past(t, g)
    BY <1>1, <1>2 DEF Past, LetIn, LetsOut, Reach
  <1>4. Now(t, g)
    BY <1>1, <1>2 DEF Now, Outside, Inside, Cleared, Visible, Tunnelled, Reach
  <1> QED
    BY <1>2, <1>3, <1>4 DEF t

\* Reuse and HandshakeOrigin: the request goes out, on a connection to its
\* target.
LEMMA Sending ==
  ASSUME NEW s \in Connection, NEW g \in Config, Past(s, g), Now(s, g),
         s.pc \in {"transformed", "redialed"}
  PROVE  LET t == [s EXCEPT !.pc = "awaiting", !.slot = s.target,
                            !.forwarded = s.forwarded \union {s.req}]
         IN  t \in Connection /\ Past(t, g) /\ Now(t, g)
  <1> DEFINE t == [s EXCEPT !.pc = "awaiting", !.slot = s.target,
                            !.forwarded = s.forwarded \union {s.req}]
  <1>1. /\ s.req > 0 /\ Cleared(s, g) /\ Quiet(s.log, s.req) /\ s.req \notin s.replies
        /\ s.target \in Host
    BY ProxyParameters DEF Now, Inside, Reach, Past
  <1>2. LetsOut(s, g, s.req) /\ NoDeny(s.log, s.req)
    BY <1>1 DEF Cleared, LetsOut, Visible, Tunnelled, Quiet, NoDeny
  <1>3. s.forwarded \union {s.req} \in SUBSET Nat /\ s.req \in 0 .. s.req
    BY DEF Connection
  <1>4. /\ t \in Connection
        /\ t.pc = "awaiting" /\ t.kind = s.kind /\ t.host = s.host /\ t.view = s.view
        /\ t.req = s.req /\ t.dialed = s.dialed /\ t.forwarded = s.forwarded \union {s.req}
        /\ t.verdicts = s.verdicts /\ t.replies = s.replies /\ t.log = s.log
        /\ t.verdict = s.verdict /\ t.target = s.target /\ t.slot = s.target
    BY <1>1, <1>3 DEF Connection, Control
  <1> HIDE DEF t
  <1>5. Past(t, g)
    BY <1>1, <1>2, <1>3, <1>4 DEF Past, LetIn, LetsOut, Reach
  <1>6. Now(t, g)
    BY <1>1, <1>4 DEF Now, Outside, Inside, Cleared, Visible, Tunnelled
  <1> QED
    BY <1>4, <1>5, <1>6 DEF t

\* RecordAnswer: on record before it is handed over.
LEMMA Recording ==
  ASSUME NEW s \in Connection, NEW g \in Config, Past(s, g), Now(s, g), s.pc = "awaiting",
         NEW r \in Rec, r.req = s.req, r.action = "allow", r.would_deny = s.verdict.would_deny
  PROVE  LET t == [s EXCEPT !.pc = "answering", !.log = Append(s.log, r)]
         IN  t \in Connection /\ Past(t, g) /\ Now(t, g)
  <1> DEFINE l == Append(s.log, r)
             t == [s EXCEPT !.pc = "answering", !.log = l]
  <1>1. s.req > 0 /\ Cleared(s, g) /\ Quiet(s.log, s.req)
    BY DEF Now, Inside
  <1>2. /\ l \in Seq(Rec)
        /\ Within(l, s.req) /\ Ordered(l) /\ Vouched(l, s.verdicts) /\ Logged(l, s.req)
        /\ \A m \in Nat : Logged(s.log, m) => Logged(l, m)
        /\ \A m \in Nat : NoDeny(s.log, m) => NoDeny(l, m)
    BY <1>1, Grant
  <1> HIDE DEF l
  <1>3. /\ t \in Connection
        /\ t.pc = "answering" /\ t.kind = s.kind /\ t.host = s.host /\ t.view = s.view
        /\ t.req = s.req /\ t.dialed = s.dialed /\ t.forwarded = s.forwarded
        /\ t.verdicts = s.verdicts /\ t.replies = s.replies /\ t.log = l
    BY <1>2 DEF Connection, Control
  <1>4. s.forwarded \in SUBSET Nat
    BY DEF Connection
  <1> HIDE DEF t
  <1>5. Past(t, g)
    BY <1>1, <1>2, <1>3, <1>4 DEF Past, LetIn, LetsOut, Reach
  <1>6. Now(t, g)
    BY <1>1, <1>2, <1>3 DEF Now, Outside, Inside
  <1> QED
    BY <1>3, <1>5, <1>6 DEF t, l

\* SendAnswer and Upgrade: what is handed over is on record.
LEMMA Answering ==
  ASSUME NEW s \in Connection, NEW g \in Config, Past(s, g), Now(s, g), s.pc = "answering",
         NEW p, p \in {"serving", "relaying"}
  PROVE  LET t == [s EXCEPT !.pc = p, !.replies = s.replies \union {s.req}]
         IN  t \in Connection /\ Past(t, g) /\ Now(t, g)
  <1> DEFINE t == [s EXCEPT !.pc = p, !.replies = s.replies \union {s.req}]
  <1>1. s.req > 0 /\ Logged(s.log, s.req) /\ LetIn(s) /\ s.kind # "absolute"
    BY DEF Now, Inside, Past
  <1>2. s.replies \union {s.req} \in SUBSET Nat /\ s.req \in 0 .. s.req
    BY DEF Connection
  <1>3. /\ t \in Connection
        /\ t.pc = p /\ t.kind = s.kind /\ t.host = s.host /\ t.view = s.view
        /\ t.req = s.req /\ t.dialed = s.dialed /\ t.forwarded = s.forwarded
        /\ t.verdicts = s.verdicts /\ t.replies = s.replies \union {s.req} /\ t.log = s.log
    BY <1>2 DEF Connection, Control
  <1> HIDE DEF t
  <1>4. Past(t, g)
    BY <1>1, <1>2, <1>3 DEF Past, LetIn, LetsOut, Reach
  <1>5. Now(t, g)
    BY <1>1, <1>3 DEF Now, Outside, Inside, LetIn
  <1> QED
    BY <1>3, <1>4, <1>5 DEF t
\* Evaluate: the request has a verdict of the phase that sees it, and an
\* enforced default deny let through only the CONNECT of a tunnel whose
\* requests will be decided again.
LEMMA Judging ==
  ASSUME NEW s \in Connection, NEW g \in Config, Past(s, g), Now(s, g),
         s.pc \in {"loaded", "received"},
         NEW a \in Inputs(ChainOf[g]), NEW f \in Outcome, NEW v \in Decided,
         v.req = s.req, v.view = s.view, v.action = f.action, v.would_deny = f.would_deny,
         Visible(s) => v.phase = "request",
         f.action = "allow" /\ ~Tunnelled(s, g) => Firm(v, g)
  PROVE  LET t == [s EXCEPT !.pc = "judged", !.given = a, !.verdict = f,
                            !.verdicts = s.verdicts \union {v}]
         IN  t \in Connection /\ Past(t, g) /\ Now(t, g)
  <1> DEFINE t == [s EXCEPT !.pc = "judged", !.given = a, !.verdict = f,
                            !.verdicts = s.verdicts \union {v}]
  <1>1. a \in UNION {Inputs(chain) : chain \in Chain}
    BY ProxyParameters
  <1>2. s.req \in Nat /\ s.verdicts \union {v} \in SUBSET Decided
    BY DEF Connection
  <1>3. /\ t \in Connection
        /\ t.pc = "judged" /\ t.kind = s.kind /\ t.host = s.host /\ t.view = s.view
        /\ t.req = s.req /\ t.dialed = s.dialed /\ t.forwarded = s.forwarded
        /\ t.verdicts = s.verdicts \union {v} /\ t.replies = s.replies /\ t.log = s.log
        /\ t.verdict = f
    <2> HIDE DEF Decided, Rec, Inputs, Chain
    <2> QED
      BY <1>1, <1>2 DEF Connection, Control
  <1> HIDE DEF t
  <1>4. Vouched(t.log, t.verdicts)
    BY <1>3 DEF Past, Vouched
  <1>5. Past(t, g)
    BY <1>2, <1>3, <1>4 DEF Past, LetIn, LetsOut, Reach
  <1>6. f.action = "allow" => Cleared(t, g)
    BY <1>3 DEF Cleared, Visible, Tunnelled
  <1>7. Now(t, g)
    BY <1>3, <1>6 DEF Now, Outside, Inside
  <1> QED
    BY <1>3, <1>5, <1>7 DEF t

\* LoadRuntime: a connection that has done nothing is as its control point
\* says, under whatever configuration it finds.
LEMMA Loading ==
  ASSUME NEW s \in Connection, Blank(s), s.pc = "parsed", NEW n \in Nat, NEW g \in Config
  PROVE  LET t == [s EXCEPT !.pc = "loaded", !.view = n]
         IN  t \in Connection /\ Past(t, g) /\ Now(t, g)
  <1> DEFINE t == [s EXCEPT !.pc = "loaded", !.view = n]
  <1>1. /\ t \in Connection
        /\ t.pc = "loaded" /\ t.kind = s.kind /\ t.host = s.host
        /\ t.req = 0 /\ t.dialed = {} /\ t.forwarded = {}
        /\ t.verdicts = {} /\ t.replies = {} /\ t.log = <<>>
    BY DEF Connection, Control, Blank
  <1>2. s.host \in Host /\ s.kind \in Kind
    BY DEF Blank
  <1> HIDE DEF t
  <1>3. /\ Within(<<>>, 0) /\ Ordered(<<>>) /\ Vouched(<<>>, {})
        /\ Quiet(<<>>, 0) /\ NoDeny(<<>>, 0)
    BY DEF Within, Ordered, Vouched, Quiet, NoDeny
  <1>4. Past(t, g)
    BY <1>1, <1>2, <1>3 DEF Past
  <1>5. Now(t, g)
    BY <1>1, <1>3 DEF Now, Outside, Inside
  <1> QED
    BY <1>1, <1>4, <1>5 DEF t

-----------------------------------------------------------------------------
(* From the record to the system. *)

LEMMA OneMoves ==
  ASSUME IInv, NEW c \in Conn, NEW t, Set(c, t), Good(t, installed)
  PROVE  IInv'
  <1>1. /\ installed' = installed /\ DOMAIN conn' = Conn
        /\ \A d \in Conn : conn'[d] = IF d = c THEN t ELSE conn[d]
    BY DEF Set, IInv
  <1>2. ASSUME NEW d \in Conn
        PROVE  Good(conn'[d], installed)
    <2>1. CASE d = c
      BY <1>1, <2>1
    <2>2. CASE d # c
      BY <1>1, <2>2 DEF IInv
    <2> QED
      BY <2>1, <2>2
  <1> QED
    BY <1>1, <1>2 DEF IInv

\* A connection past its lookup, and the configuration it found.
LEMMA Working ==
  ASSUME IInv, NEW c \in Conn, conn[c].pc \notin {"idle", "parsed", "closed"}
  PROVE  /\ conn[c] \in Connection
         /\ conn[c].view \in 1 .. Len(installed) /\ conn[c].tls \in 0 .. Len(installed)
         /\ conn[c].req \in 0 .. MaxRequests
         /\ Cfg(c) \in Config
         /\ Past(conn[c], Cfg(c)) /\ Now(conn[c], Cfg(c))
  <1>1. Good(conn[c], installed) /\ installed \in Seq(Config) /\ Len(installed) \in Nat
    BY DEF IInv
  <1>2. conn[c].view # 0
    BY <1>1 DEF Good, Blank
  <1>3. conn[c].view \in 1 .. Len(installed)
    BY <1>1, <1>2 DEF Good
  <1>4. Cfg(c) \in Config
    BY <1>1, <1>3 DEF Cfg
  <1> QED
    BY <1>1, <1>3, <1>4 DEF Good, Cfg

\* A step of such a connection that keeps its view.
LEMMA WorkMoves ==
  ASSUME IInv, NEW c \in Conn, conn[c].pc \notin {"idle", "parsed", "closed"},
         NEW t \in Connection, Set(c, t), t.view = conn[c].view,
         t.tls \in 0 .. Len(installed), t.req \in 0 .. MaxRequests,
         Past(t, Cfg(c)), Now(t, Cfg(c))
  PROVE  IInv'
  <1>1. Good(t, installed)
    BY Working DEF Good, Cfg
  <1> QED
    BY <1>1, OneMoves

LEMMA InitIInv == Init => IInv
  <1> SUFFICES ASSUME Init PROVE IInv
    OBVIOUS
  <1>1. Fresh \in Connection
    BY DEF Fresh, Connection, Control
  <1>2. Blank(Fresh) /\ Fresh.view = 0 /\ Fresh.tls = 0 /\ Fresh.req = 0
    BY DEF Blank, Fresh
  <1>3. installed \in Seq(Config) /\ Len(installed) = 1
    BY ProxyParameters DEF Init
  <1>4. Good(Fresh, installed)
    BY <1>1, <1>2, <1>3, ProxyParameters DEF Good
  <1> QED
    BY <1>3, <1>4, ProxyParameters DEF Init, IInv

\* A reload takes nothing from the configurations in use.
LEMMA ReloadIInv ==
  ASSUME IInv, NEW g \in Config, Reload(g)
  PROVE  IInv'
  <1>1. /\ installed' = Append(installed, g) /\ conn' = conn
        /\ installed \in Seq(Config) /\ Len(installed) <= MaxReloads
        /\ Len(installed) \in Nat /\ Len(installed) >= 1
    BY DEF Reload, IInv
  <1>2. /\ installed' \in Seq(Config) /\ Len(installed') = Len(installed) + 1
        /\ \A i \in 1 .. Len(installed) : installed'[i] = installed[i]
    BY <1>1
  <1>3. ASSUME NEW c \in Conn
        PROVE  Good(conn[c], installed')
    <2>1. Good(conn[c], installed)
      BY DEF IInv
    <2>2. conn[c].view \in 0 .. Len(installed') /\ conn[c].tls \in 0 .. Len(installed')
      BY <1>1, <1>2, <2>1 DEF Good
    <2>3. conn[c].view > 0 => installed'[conn[c].view] = installed[conn[c].view]
      BY <1>1, <1>2, <2>1 DEF Good
    <2> QED
      BY <2>1, <2>2, <2>3 DEF Good
  <1>4. Len(installed') \in 1 .. MaxReloads + 1
    BY <1>1, <1>2, ProxyParameters
  <1> QED
    BY <1>1, <1>2, <1>3, <1>4 DEF IInv
-----------------------------------------------------------------------------
(* Every step keeps the invariant. *)

\* The record a step adds, as one of the current request.
LEMMA RecordOf ==
  ASSUME NEW c \in Conn, conn[c] \in Connection, NEW action \in Action,
         NEW would_deny \in BOOLEAN, NEW why \in Why
  PROVE  LET r == Record(c, action, would_deny, why)
         IN  /\ r \in Rec /\ r.req = conn[c].req /\ r.action = action
             /\ r.would_deny = would_deny
  BY DEF Record, Rec, Connection

LEMMA RefusalStep ==
  ASSUME IInv, NEW c \in Conn,
         conn[c].pc \in {"judged", "dialing", "transformed"},
         NEW p, p = "closed" \/ (p = "serving" /\ conn[c].req > 0), NEW why \in Why,
         Set(c, [conn[c] EXCEPT !.pc = p, !.replies = Reply(c), !.log = Deny(c, why)])
  PROVE  IInv'
  <1> DEFINE s == conn[c]
             r == Record(c, "deny", FALSE, why)
             t == [s EXCEPT !.pc = p, !.replies = s.replies \union {s.req},
                            !.log = Append(s.log, r)]
  <1>1. Set(c, t)
    BY DEF Reply, Deny, Emit
  <1>2. /\ s \in Connection /\ Cfg(c) \in Config /\ Past(s, Cfg(c)) /\ Now(s, Cfg(c))
        /\ s.tls \in 0 .. Len(installed) /\ s.req \in 0 .. MaxRequests
    BY Working
  <1>3. r \in Rec /\ r.req = s.req /\ r.action = "deny"
    BY <1>2, RecordOf DEF Action, Why
  <1> HIDE DEF r
  <1>4. t \in Connection /\ Past(t, Cfg(c)) /\ Now(t, Cfg(c))
    BY <1>2, <1>3, Refusal
  <1>5. t.view = s.view /\ t.tls = s.tls /\ t.req = s.req
    BY <1>2 DEF Connection
  <1> HIDE DEF t
  <1> QED
    BY <1>1, <1>2, <1>4, <1>5, WorkMoves

LEMMA EvaluateStep ==
  ASSUME IInv, NEW c \in Conn, Evaluate(c)
  PROVE  IInv'
  <1> DEFINE s == conn[c]
             chain == TheChain(c)
             ph == PhaseOf(c)
  <1>1. s.pc \in {"loaded", "received"}
    BY DEF Evaluate, At
  <1>2. /\ s \in Connection /\ Cfg(c) \in Config /\ Past(s, Cfg(c)) /\ Now(s, Cfg(c))
        /\ s.tls \in 0 .. Len(installed) /\ s.req \in 0 .. MaxRequests
        /\ s.view \in Nat /\ s.req \in Nat
    BY <1>1, Working, ProxyParameters DEF Connection
  <1>3. PICK a \in Inputs(chain) :
          LET outcome == Decide(chain, ph, a, Approval)
              final   == IF s.req = 0 /\ Provisional(c, outcome)
                           THEN [outcome EXCEPT !.action = "allow"] ELSE outcome
          IN  Set(c, [s EXCEPT !.pc = "judged", !.given = a, !.verdict = final,
                       !.verdicts = @ \union {[req |-> s.req, phase |-> ph,
                                              view |-> s.view, layer |-> outcome.layer,
                                              action |-> final.action,
                                              would_deny |-> final.would_deny]}])
    BY DEF Evaluate
  <1> DEFINE o == Decide(chain, ph, a, Approval)
             f == IF s.req = 0 /\ Provisional(c, o) THEN [o EXCEPT !.action = "allow"] ELSE o
             v == [req |-> s.req, phase |-> ph, view |-> s.view, layer |-> o.layer,
                   action |-> f.action, would_deny |-> f.would_deny]
             t == [s EXCEPT !.pc = "judged", !.given = a, !.verdict = f,
                            !.verdicts = s.verdicts \union {v}]
  <1>4. Set(c, t)
    BY <1>3
  <1>5. chain \in Chain /\ chain = ChainOf[Cfg(c)] /\ a \in [Positions(chain) -> Answer]
    BY <1>2, ProxyParameters DEF TheChain, Inputs
  <1>6. /\ o \in Outcome
        /\ o.action = "allow" /\ ~chain.warn_only /\ chain.default_action = "deny"
             => o.layer # DefaultAction
    BY <1>5, DecideSound
  <1>7. ph \in Phase /\ (Visible(s) => ph = "request")
    BY DEF PhaseOf, Phase, Visible
  <1> HIDE DEF o, ph
  <1>8. /\ f \in Outcome
        /\ Provisional(c, o) /\ s.req = 0 => Tunnelled(s, Cfg(c))
        /\ ~(Provisional(c, o) /\ s.req = 0) => f = o
    BY <1>6 DEF Outcome, Action, Provisional, Tunnelled, Intercepts
  <1> HIDE DEF f
  <1>9. /\ v \in Decided /\ v.req = s.req /\ v.view = s.view /\ v.action = f.action
        /\ v.would_deny = f.would_deny /\ v.phase = ph /\ v.layer = o.layer
    BY <1>2, <1>6, <1>7, <1>8 DEF Decided, Outcome
  <1> HIDE DEF v
  <1>10. f.action = "allow" /\ ~Tunnelled(s, Cfg(c)) => Firm(v, Cfg(c))
    BY <1>5, <1>6, <1>8, <1>9 DEF Firm
  <1>11. t \in Connection /\ Past(t, Cfg(c)) /\ Now(t, Cfg(c))
    BY <1>1, <1>2, <1>5, <1>7, <1>8, <1>9, <1>10, Judging
  <1>12. t.view = s.view /\ t.tls = s.tls /\ t.req = s.req
    BY <1>2 DEF Connection
  <1> HIDE DEF t
  <1> QED
    BY <1>1, <1>2, <1>4, <1>11, <1>12, WorkMoves

\* The verdict an allow record is flagged by.
LEMMA AllowOf ==
  ASSUME NEW c \in Conn, conn[c] \in Connection, conn[c].verdict \in Outcome,
         NEW why \in Why
  PROVE  LET r == Record(c, "allow", conn[c].verdict.would_deny, why)
         IN  /\ r \in Rec /\ r.req = conn[c].req /\ r.action = "allow"
             /\ r.would_deny = conn[c].verdict.would_deny
  <1>1. conn[c].verdict.would_deny \in BOOLEAN /\ "allow" \in Action
    BY DEF Outcome, Action
  <1> QED
    BY <1>1, RecordOf
LEMMA TurnAwayStep ==
  ASSUME IInv, NEW c \in Conn, NoProfile(c) \/ Unidentified(c)
  PROVE  IInv'
  <1> DEFINE s == conn[c]
             t == [s EXCEPT !.pc = "closed", !.replies = s.replies \union {s.req}]
  <1>1. s.pc = "loaded" /\ Set(c, t)
    BY DEF NoProfile, Unidentified, At, Reply
  <1>2. /\ s \in Connection /\ Cfg(c) \in Config /\ Past(s, Cfg(c)) /\ Now(s, Cfg(c))
        /\ s.tls \in 0 .. Len(installed) /\ s.req \in 0 .. MaxRequests
    BY <1>1, Working
  <1>3. t \in Connection /\ Past(t, Cfg(c)) /\ Now(t, Cfg(c))
    BY <1>1, <1>2, TurnedAway
  <1>4. t.view = s.view /\ t.tls = s.tls /\ t.req = s.req
    BY <1>2 DEF Connection
  <1> HIDE DEF t
  <1> QED
    BY <1>1, <1>2, <1>3, <1>4, WorkMoves

LEMMA DialStep ==
  ASSUME IInv, NEW c \in Conn, GuardConnects(c)
  PROVE  IInv'
  <1> DEFINE s == conn[c]
             t == [s EXCEPT !.pc = "dialed", !.slot = s.target,
                            !.dialed = s.dialed \union {s.target}]
  <1>1. s.pc = "dialing" /\ Set(c, t)
    BY DEF GuardConnects, At
  <1>2. /\ s \in Connection /\ Cfg(c) \in Config /\ Past(s, Cfg(c)) /\ Now(s, Cfg(c))
        /\ s.tls \in 0 .. Len(installed) /\ s.req \in 0 .. MaxRequests
    BY <1>1, Working
  <1>3. t \in Connection /\ Past(t, Cfg(c)) /\ Now(t, Cfg(c))
    BY <1>1, <1>2, Dialing
  <1>4. t.view = s.view /\ t.tls = s.tls /\ t.req = s.req
    BY <1>2 DEF Connection
  <1> HIDE DEF t
  <1> QED
    BY <1>1, <1>2, <1>3, <1>4, WorkMoves

LEMMA ForwardStep ==
  ASSUME IInv, NEW c \in Conn, ForwardHead(c)
  PROVE  IInv'
  <1> DEFINE s == conn[c]
             r == Record(c, "allow", s.verdict.would_deny, "chain")
             t == [s EXCEPT !.pc = "relaying", !.forwarded = s.forwarded \union {0},
                            !.log = Append(s.log, r)]
  <1>1. s.pc = "dialed" /\ s.kind = "absolute" /\ Set(c, t)
    BY DEF ForwardHead, At, Allow, Emit
  <1>2. /\ s \in Connection /\ Cfg(c) \in Config /\ Past(s, Cfg(c)) /\ Now(s, Cfg(c))
        /\ s.tls \in 0 .. Len(installed) /\ s.req \in 0 .. MaxRequests
    BY <1>1, Working
  <1>3. s.verdict \in Outcome
    BY <1>1, <1>2 DEF Now, Cleared
  <1>4. /\ r \in Rec /\ r.req = s.req /\ r.action = "allow"
        /\ r.would_deny = s.verdict.would_deny
    BY <1>2, <1>3, AllowOf DEF Why
  <1> HIDE DEF r
  <1>5. t \in Connection /\ Past(t, Cfg(c)) /\ Now(t, Cfg(c))
    BY <1>1, <1>2, <1>4, Forwarding
  <1>6. t.view = s.view /\ t.tls = s.tls /\ t.req = s.req
    BY <1>2 DEF Connection
  <1> HIDE DEF t
  <1> QED
    BY <1>1, <1>2, <1>5, <1>6, WorkMoves

LEMMA TunnelStep ==
  ASSUME IInv, NEW c \in Conn, StartTunnel(c)
  PROVE  IInv'
  <1> DEFINE s == conn[c]
             r == Record(c, "allow", s.verdict.would_deny, "chain")
             t == [s EXCEPT !.pc = "inspecting", !.log = Append(s.log, r),
                            !.replies = s.replies \union {s.req}]
  <1>1. s.pc = "dialed" /\ s.kind # "absolute" /\ ~Tunnelled(s, Cfg(c)) /\ Set(c, t)
    BY DEF StartTunnel, At, Allow, Emit, Reply, Intercepts, Tunnelled
  <1>2. /\ s \in Connection /\ Cfg(c) \in Config /\ Past(s, Cfg(c)) /\ Now(s, Cfg(c))
        /\ s.tls \in 0 .. Len(installed) /\ s.req \in 0 .. MaxRequests
    BY <1>1, Working
  <1>3. s.verdict \in Outcome
    BY <1>1, <1>2 DEF Now, Cleared
  <1>4. /\ r \in Rec /\ r.req = s.req /\ r.action = "allow"
        /\ r.would_deny = s.verdict.would_deny
    BY <1>2, <1>3, AllowOf DEF Why
  <1> HIDE DEF r
  <1>5. t \in Connection /\ Past(t, Cfg(c)) /\ Now(t, Cfg(c))
    BY <1>1, <1>2, <1>4, Opening
  <1>6. t.view = s.view /\ t.tls = s.tls /\ t.req = s.req
    BY <1>2 DEF Connection
  <1> HIDE DEF t
  <1> QED
    BY <1>1, <1>2, <1>5, <1>6, WorkMoves

LEMMA MatchStep ==
  ASSUME IInv, NEW c \in Conn, SniMatches(c)
  PROVE  IInv'
  <1> DEFINE s == conn[c]
             t == [s EXCEPT !.pc = "relaying", !.forwarded = s.forwarded \union {0}]
  <1>1. s.pc = "inspecting" /\ Set(c, t)
    BY DEF SniMatches, At
  <1>2. /\ s \in Connection /\ Cfg(c) \in Config /\ Past(s, Cfg(c)) /\ Now(s, Cfg(c))
        /\ s.tls \in 0 .. Len(installed) /\ s.req \in 0 .. MaxRequests
    BY <1>1, Working
  <1>3. t \in Connection /\ Past(t, Cfg(c)) /\ Now(t, Cfg(c))
    BY <1>1, <1>2, Matching
  <1>4. t.view = s.view /\ t.tls = s.tls /\ t.req = s.req
    BY <1>2 DEF Connection
  <1> HIDE DEF t
  <1> QED
    BY <1>1, <1>2, <1>3, <1>4, WorkMoves

LEMMA MismatchStep ==
  ASSUME IInv, NEW c \in Conn, SniMismatch(c)
  PROVE  IInv'
  <1> DEFINE s == conn[c]
             r == Record(c, "deny", FALSE, "sni")
             t == [s EXCEPT !.pc = "closed", !.log = Append(s.log, r)]
  <1>1. s.pc = "inspecting" /\ Set(c, t)
    BY DEF SniMismatch, At, Deny, Emit
  <1>2. /\ s \in Connection /\ Cfg(c) \in Config /\ Past(s, Cfg(c)) /\ Now(s, Cfg(c))
        /\ s.tls \in 0 .. Len(installed) /\ s.req \in 0 .. MaxRequests
    BY <1>1, Working
  <1>3. r \in Rec /\ r.req = s.req /\ r.action = "deny"
    BY <1>2, RecordOf DEF Action, Why
  <1> HIDE DEF r
  <1>4. t \in Connection /\ Past(t, Cfg(c)) /\ Now(t, Cfg(c))
    BY <1>1, <1>2, <1>3, Retraction
  <1>5. t.view = s.view /\ t.tls = s.tls /\ t.req = s.req
    BY <1>2 DEF Connection
  <1> HIDE DEF t
  <1> QED
    BY <1>1, <1>2, <1>4, <1>5, WorkMoves

LEMMA HandshakeStep ==
  ASSUME IInv, NEW c \in Conn, Handshake(c)
  PROVE  IInv'
  <1> DEFINE s == conn[c]
             t == [s EXCEPT !.pc = "serving"]
  <1>1. s.pc = "handshaking" /\ Set(c, t)
    BY DEF Handshake, At
  <1>2. /\ s \in Connection /\ Cfg(c) \in Config /\ Past(s, Cfg(c)) /\ Now(s, Cfg(c))
        /\ s.tls \in 0 .. Len(installed) /\ s.req \in 0 .. MaxRequests
    BY <1>1, Working
  <1>3. t \in Connection /\ Past(t, Cfg(c)) /\ Now(t, Cfg(c))
    BY <1>1, <1>2, Handshaking
  <1>4. t.view = s.view /\ t.tls = s.tls /\ t.req = s.req
    BY <1>2 DEF Connection
  <1> HIDE DEF t
  <1> QED
    BY <1>1, <1>2, <1>3, <1>4, WorkMoves

LEMMA RespondStep ==
  ASSUME IInv, NEW c \in Conn, Responds(c)
  PROVE  IInv'
  <1> DEFINE s == conn[c]
             r == Record(c, "allow", s.verdict.would_deny, "responder")
             t == [s EXCEPT !.pc = "serving", !.replies = s.replies \union {s.req},
                            !.log = Append(s.log, r)]
  <1>1. s.pc = "transformed" /\ Set(c, t)
    BY DEF Responds, At, Allow, Emit, Reply
  <1>2. /\ s \in Connection /\ Cfg(c) \in Config /\ Past(s, Cfg(c)) /\ Now(s, Cfg(c))
        /\ s.tls \in 0 .. Len(installed) /\ s.req \in 0 .. MaxRequests
    BY <1>1, Working
  <1>3. s.verdict \in Outcome
    BY <1>1, <1>2 DEF Now, Cleared
  <1>4. /\ r \in Rec /\ r.req = s.req /\ r.action = "allow"
        /\ r.would_deny = s.verdict.would_deny
    BY <1>2, <1>3, AllowOf DEF Why
  <1> HIDE DEF r
  <1>5. t \in Connection /\ Past(t, Cfg(c)) /\ Now(t, Cfg(c))
    BY <1>1, <1>2, <1>4, Responding
  <1>6. t.view = s.view /\ t.tls = s.tls /\ t.req = s.req
    BY <1>2 DEF Connection
  <1> HIDE DEF t
  <1> QED
    BY <1>1, <1>2, <1>5, <1>6, WorkMoves

LEMMA RedialStep ==
  ASSUME IInv, NEW c \in Conn, Redial(c)
  PROVE  IInv'
  <1> DEFINE s == conn[c]
             t == [s EXCEPT !.pc = "redialed", !.dialed = s.dialed \union {s.target}]
  <1>1. s.pc = "transformed" /\ Set(c, t)
    BY DEF Redial, At
  <1>2. /\ s \in Connection /\ Cfg(c) \in Config /\ Past(s, Cfg(c)) /\ Now(s, Cfg(c))
        /\ s.tls \in 0 .. Len(installed) /\ s.req \in 0 .. MaxRequests
    BY <1>1, Working
  <1>3. t \in Connection /\ Past(t, Cfg(c)) /\ Now(t, Cfg(c))
    BY <1>1, <1>2, Redialing
  <1>4. t.view = s.view /\ t.tls = s.tls /\ t.req = s.req
    BY <1>2 DEF Connection
  <1> HIDE DEF t
  <1> QED
    BY <1>1, <1>2, <1>3, <1>4, WorkMoves

LEMMA SendStep ==
  ASSUME IInv, NEW c \in Conn, HandshakeOrigin(c)
  PROVE  IInv'
  <1> DEFINE s == conn[c]
             t == [s EXCEPT !.pc = "awaiting", !.slot = s.target,
                            !.forwarded = s.forwarded \union {s.req}]
  <1>1. s.pc = "redialed" /\ Set(c, t)
    BY DEF HandshakeOrigin, At
  <1>2. /\ s \in Connection /\ Cfg(c) \in Config /\ Past(s, Cfg(c)) /\ Now(s, Cfg(c))
        /\ s.tls \in 0 .. Len(installed) /\ s.req \in 0 .. MaxRequests
    BY <1>1, Working
  <1>3. t \in Connection /\ Past(t, Cfg(c)) /\ Now(t, Cfg(c))
    BY <1>1, <1>2, Sending
  <1>4. t.view = s.view /\ t.tls = s.tls /\ t.req = s.req
    BY <1>2 DEF Connection
  <1> HIDE DEF t
  <1> QED
    BY <1>1, <1>2, <1>3, <1>4, WorkMoves

LEMMA RecordStep ==
  ASSUME IInv, NEW c \in Conn, RecordAnswer(c)
  PROVE  IInv'
  <1> DEFINE s == conn[c]
             r == Record(c, "allow", s.verdict.would_deny, "chain")
             t == [s EXCEPT !.pc = "answering", !.log = Append(s.log, r)]
  <1>1. s.pc = "awaiting" /\ Set(c, t)
    BY DEF RecordAnswer, At, Allow, Emit
  <1>2. /\ s \in Connection /\ Cfg(c) \in Config /\ Past(s, Cfg(c)) /\ Now(s, Cfg(c))
        /\ s.tls \in 0 .. Len(installed) /\ s.req \in 0 .. MaxRequests
    BY <1>1, Working
  <1>3. s.verdict \in Outcome
    BY <1>1, <1>2 DEF Now, Cleared
  <1>4. /\ r \in Rec /\ r.req = s.req /\ r.action = "allow"
        /\ r.would_deny = s.verdict.would_deny
    BY <1>2, <1>3, AllowOf DEF Why
  <1> HIDE DEF r
  <1>5. t \in Connection /\ Past(t, Cfg(c)) /\ Now(t, Cfg(c))
    BY <1>1, <1>2, <1>4, Recording
  <1>6. t.view = s.view /\ t.tls = s.tls /\ t.req = s.req
    BY <1>2 DEF Connection
  <1> HIDE DEF t
  <1> QED
    BY <1>1, <1>2, <1>5, <1>6, WorkMoves

LEMMA AnswerStep ==
  ASSUME IInv, NEW c \in Conn, NEW p \in {"serving", "relaying"}, conn[c].pc = "answering",
         Set(c, [conn[c] EXCEPT !.pc = p, !.replies = Reply(c)])
  PROVE  IInv'
  <1> DEFINE s == conn[c]
             t == [s EXCEPT !.pc = p, !.replies = s.replies \union {s.req}]
  <1>1. s.pc = "answering" /\ Set(c, t)
    BY DEF Reply
  <1>2. /\ s \in Connection /\ Cfg(c) \in Config /\ Past(s, Cfg(c)) /\ Now(s, Cfg(c))
        /\ s.tls \in 0 .. Len(installed) /\ s.req \in 0 .. MaxRequests
    BY <1>1, Working
  <1>3. t \in Connection /\ Past(t, Cfg(c)) /\ Now(t, Cfg(c))
    BY <1>1, <1>2, Answering
  <1>4. t.view = s.view /\ t.tls = s.tls /\ t.req = s.req
    BY <1>2 DEF Connection
  <1> HIDE DEF t
  <1> QED
    BY <1>1, <1>2, <1>3, <1>4, WorkMoves

LEMMA BreakStep ==
  ASSUME IInv, NEW c \in Conn, Breaks(c)
  PROVE  IInv'
  <1> DEFINE s == conn[c]
             t == [s EXCEPT !.pc = "closed"]
  <1>1. s.pc \notin {"idle", "parsed", "closed"} /\ Set(c, t)
    BY DEF Breaks, At
  <1>2. /\ s \in Connection /\ Cfg(c) \in Config /\ Past(s, Cfg(c)) /\ Now(s, Cfg(c))
        /\ s.tls \in 0 .. Len(installed) /\ s.req \in 0 .. MaxRequests
    BY <1>1, Working
  <1>3. t \in Connection /\ Past(t, Cfg(c)) /\ Now(t, Cfg(c))
    BY <1>1, <1>2, Ending
  <1>4. t.view = s.view /\ t.tls = s.tls /\ t.req = s.req
    BY <1>2 DEF Connection
  <1> HIDE DEF t
  <1> QED
    BY <1>1, <1>2, <1>3, <1>4, WorkMoves
LEMMA TransformStep ==
  ASSUME IInv, NEW c \in Conn, Transform(c)
  PROVE  IInv'
  <1> DEFINE s == conn[c]
  <1>1. s.pc = "judged" /\ s.verdict.action = "allow" /\ Visible(s)
    BY DEF Transform, Permitted, HasRequest, At, Visible
  <1>2. /\ s \in Connection /\ Cfg(c) \in Config /\ Past(s, Cfg(c)) /\ Now(s, Cfg(c))
        /\ s.tls \in 0 .. Len(installed) /\ s.req \in 0 .. MaxRequests
    BY <1>1, Working
  <1>3. PICK o \in Reach(s, Cfg(c)) :
          Set(c, [s EXCEPT !.target = o, !.pc = IF s.req > 0 THEN "transformed" ELSE "dialing"])
    BY DEF Transform, Reach
  <1> DEFINE t == [s EXCEPT !.target = o, !.pc = IF s.req > 0 THEN "transformed" ELSE "dialing"]
  <1>4. t \in Connection /\ Past(t, Cfg(c)) /\ Now(t, Cfg(c))
    BY <1>1, <1>2, Transformation
  <1>5. t.view = s.view /\ t.tls = s.tls /\ t.req = s.req
    BY <1>2 DEF Connection
  <1>6. Set(c, t)
    BY <1>3
  <1> HIDE DEF t
  <1> QED
    BY <1>1, <1>2, <1>4, <1>5, <1>6, WorkMoves

LEMMA EstablishStep ==
  ASSUME IInv, NEW c \in Conn, Establish(c)
  PROVE  IInv'
  <1> DEFINE s == conn[c]
             r == Record(c, "allow", s.verdict.would_deny, "chain")
             p == IF Intercepts(c) /\ DefersConnect(c) THEN "dialed" ELSE "dialing"
             t == [s EXCEPT !.replies = s.replies \union {s.req}, !.target = s.host,
                     !.log = IF Tunnelled(s, Cfg(c)) THEN Append(s.log, r) ELSE s.log,
                     !.pc = p]
  <1>1. s.pc = "judged" /\ s.verdict.action = "allow" /\ s.kind = "connect" /\ s.req = 0
    BY DEF Establish, Permitted, At
  <1>2. /\ s \in Connection /\ Cfg(c) \in Config /\ Past(s, Cfg(c)) /\ Now(s, Cfg(c))
        /\ s.tls \in 0 .. Len(installed) /\ s.req \in 0 .. MaxRequests
    BY <1>1, Working
  <1>3. Tunnelled(s, Cfg(c)) <=> Intercepts(c)
    BY <1>1 DEF Tunnelled, Intercepts
  <1>4. Set(c, [s EXCEPT !.replies = s.replies \union {s.req}, !.target = s.host,
                 !.log = IF Intercepts(c) THEN Append(s.log, r) ELSE s.log, !.pc = p])
    BY DEF Establish, Reply, Allow, Emit
  <1>5. Set(c, t)
    <2>1. CASE Intercepts(c)
      BY <1>3, <1>4, <2>1
    <2>2. CASE ~Intercepts(c)
      BY <1>3, <1>4, <2>2
    <2> QED
      BY <2>1, <2>2
  <1>6. s.verdict \in Outcome
    BY <1>1, <1>2 DEF Now
  <1>7. /\ r \in Rec /\ r.req = s.req /\ r.action = "allow"
        /\ r.would_deny = s.verdict.would_deny
    BY <1>2, <1>6, AllowOf DEF Why
  <1>8. p \in {"dialing", "dialed"}
    OBVIOUS
  <1> HIDE DEF r, p
  <1>9. t \in Connection /\ Past(t, Cfg(c)) /\ Now(t, Cfg(c))
    BY <1>1, <1>2, <1>7, <1>8, Establishing
  <1>10. t.view = s.view /\ t.tls = s.tls /\ t.req = s.req
    BY <1>2 DEF Connection
  <1> HIDE DEF t
  <1> QED
    BY <1>1, <1>2, <1>5, <1>9, <1>10, WorkMoves

LEMMA SocksStep ==
  ASSUME IInv, NEW c \in Conn, SocksDials(c)
  PROVE  IInv'
  <1> DEFINE s == conn[c]
             p == IF Intercepts(c) /\ DefersConnect(c) THEN "dialed" ELSE "dialing"
             t == [s EXCEPT !.target = s.host, !.pc = p]
  <1>1. /\ s.pc = "judged" /\ s.verdict.action = "allow" /\ s.kind = "socks5" /\ s.req = 0
        /\ Set(c, t)
    BY DEF SocksDials, Permitted, At
  <1>2. /\ s \in Connection /\ Cfg(c) \in Config /\ Past(s, Cfg(c)) /\ Now(s, Cfg(c))
        /\ s.tls \in 0 .. Len(installed) /\ s.req \in 0 .. MaxRequests
    BY <1>1, Working
  <1>3. p \in {"dialing", "dialed"}
    OBVIOUS
  <1> HIDE DEF p
  <1>4. t \in Connection /\ Past(t, Cfg(c)) /\ Now(t, Cfg(c))
    BY <1>1, <1>2, <1>3, SocksDialing
  <1>5. t.view = s.view /\ t.tls = s.tls /\ t.req = s.req
    BY <1>2 DEF Connection
  <1> HIDE DEF t
  <1> QED
    BY <1>1, <1>2, <1>4, <1>5, WorkMoves

LEMMA BuildStep ==
  ASSUME IInv, NEW c \in Conn, BuildHandler(c)
  PROVE  IInv'
  <1> DEFINE s == conn[c]
             r == Record(c, "allow", s.verdict.would_deny, "chain")
             n == Len(installed)
             t == [s EXCEPT !.pc = "handshaking", !.tls = n,
                     !.log = IF s.kind = "socks5" THEN Append(s.log, r) ELSE s.log,
                     !.replies = s.replies \union {s.req}]
  <1>1. s.pc = "dialed" /\ s.kind # "absolute" /\ Set(c, t)
    BY DEF BuildHandler, At, Load, Allow, Emit, Reply
  <1>2. /\ s \in Connection /\ Cfg(c) \in Config /\ Past(s, Cfg(c)) /\ Now(s, Cfg(c))
        /\ s.req \in 0 .. MaxRequests
    BY <1>1, Working
  <1>3. s.verdict \in Outcome
    BY <1>1, <1>2 DEF Now, Cleared
  <1>4. /\ r \in Rec /\ r.req = s.req /\ r.action = "allow"
        /\ r.would_deny = s.verdict.would_deny
    BY <1>2, <1>3, AllowOf DEF Why
  <1>5. n \in Nat /\ n \in 0 .. Len(installed)
    BY DEF IInv
  <1> HIDE DEF r, n
  <1>6. t \in Connection /\ Past(t, Cfg(c)) /\ Now(t, Cfg(c))
    BY <1>1, <1>2, <1>4, <1>5, Building
  <1>7. t.view = s.view /\ t.tls = n /\ t.req = s.req
    BY <1>2 DEF Connection
  <1> HIDE DEF t
  <1> QED
    BY <1>1, <1>2, <1>5, <1>6, <1>7, WorkMoves

LEMMA ReceiveStep ==
  ASSUME IInv, NEW c \in Conn, Receive(c)
  PROVE  IInv'
  <1> DEFINE s == conn[c]
             t == [s EXCEPT !.pc = "received", !.req = s.req + 1, !.verdict = None,
                            !.given = None, !.target = None]
  <1>1. s.pc = "serving" /\ s.req < MaxRequests /\ Set(c, t)
    BY DEF Receive, At
  <1>2. /\ s \in Connection /\ Cfg(c) \in Config /\ Past(s, Cfg(c)) /\ Now(s, Cfg(c))
        /\ s.tls \in 0 .. Len(installed) /\ s.req \in 0 .. MaxRequests
    BY <1>1, Working
  <1>3. t \in Connection /\ Past(t, Cfg(c)) /\ Now(t, Cfg(c))
    BY <1>1, <1>2, Receiving
  <1>4. t.view = s.view /\ t.tls = s.tls /\ t.req = s.req + 1
    BY <1>2 DEF Connection
  <1>5. s.req + 1 \in 0 .. MaxRequests
    BY <1>1, <1>2, ProxyParameters
  <1> HIDE DEF t
  <1> QED
    BY <1>1, <1>2, <1>3, <1>4, <1>5, WorkMoves

\* A pooled connection that goes to the request's target is, in its slot, what
\* a fresh one would be.
LEMMA ReuseStep ==
  ASSUME IInv, NEW c \in Conn, Reuse(c)
  PROVE  IInv'
  <1> DEFINE s == conn[c]
             t == [s EXCEPT !.pc = "awaiting", !.slot = s.target,
                            !.forwarded = s.forwarded \union {s.req}]
             u == [s EXCEPT !.pc = "awaiting", !.forwarded = s.forwarded \union {s.req}]
  <1>1. s.pc = "transformed" /\ s.slot = s.target /\ Set(c, u)
    BY DEF Reuse, At
  <1>2. /\ s \in Connection /\ Cfg(c) \in Config /\ Past(s, Cfg(c)) /\ Now(s, Cfg(c))
        /\ s.tls \in 0 .. Len(installed) /\ s.req \in 0 .. MaxRequests
    BY <1>1, Working
  <1>3. u = t
    <2>1. s = [s EXCEPT !.slot = s.target]
      BY <1>1, <1>2 DEF Connection
    <2> QED
      BY <1>2, <2>1 DEF Connection
  <1>4. t \in Connection /\ Past(t, Cfg(c)) /\ Now(t, Cfg(c))
    BY <1>1, <1>2, Sending
  <1>5. t.view = s.view /\ t.tls = s.tls /\ t.req = s.req
    BY <1>2 DEF Connection
  <1> HIDE DEF t, u
  <1> QED
    BY <1>1, <1>2, <1>3, <1>4, <1>5, WorkMoves

\* Before the lookup.
LEMMA ParseStep ==
  ASSUME IInv, NEW c \in Conn, NEW k \in Kind, NEW h \in Host, Parse(c, k, h)
  PROVE  IInv'
  <1> DEFINE s == conn[c]
             t == [s EXCEPT !.pc = "parsed", !.kind = k, !.host = h]
  <1>1. s.pc = "idle" /\ Set(c, t)
    BY DEF Parse, At
  <1>2. Good(s, installed) /\ Blank(s) /\ s \in Connection /\ s.view = 0
    <2>1. Good(s, installed) /\ s \in Connection /\ s.view \in Nat
      BY DEF IInv, Good, Connection
    <2> QED
      BY <1>1, <2>1 DEF Good, Now
  <1>3. /\ t \in Connection /\ t.view = s.view /\ t.tls = s.tls /\ t.req = s.req
        /\ t.pc = "parsed" /\ t.kind = k /\ t.host = h /\ t.dialed = s.dialed
        /\ t.forwarded = s.forwarded /\ t.verdicts = s.verdicts /\ t.replies = s.replies
        /\ t.log = s.log
    BY <1>2 DEF Connection, Control
  <1> HIDE DEF t
  <1>4. Good(t, installed)
    BY <1>2, <1>3 DEF Good, Blank
  <1> QED
    BY <1>1, <1>4, OneMoves

LEMMA BadRequestStep ==
  ASSUME IInv, NEW c \in Conn, BadRequest(c)
  PROVE  IInv'
  <1> DEFINE s == conn[c]
             t == [s EXCEPT !.pc = "closed"]
  <1>1. s.pc = "idle" /\ Set(c, t)
    BY DEF BadRequest, At
  <1>2. Good(s, installed) /\ Blank(s) /\ s \in Connection /\ s.view = 0
    <2>1. Good(s, installed) /\ s \in Connection /\ s.view \in Nat
      BY DEF IInv, Good, Connection
    <2> QED
      BY <1>1, <2>1 DEF Good, Now
  <1>3. /\ t \in Connection /\ t.view = s.view /\ t.tls = s.tls /\ t.req = s.req
        /\ t.pc = "closed" /\ t.dialed = s.dialed
        /\ t.forwarded = s.forwarded /\ t.verdicts = s.verdicts /\ t.replies = s.replies
        /\ t.log = s.log
    BY <1>2 DEF Connection, Control
  <1> HIDE DEF t
  <1>4. Good(t, installed)
    BY <1>2, <1>3 DEF Good, Blank
  <1> QED
    BY <1>1, <1>4, OneMoves

LEMMA LoadStep ==
  ASSUME IInv, NEW c \in Conn, LoadRuntime(c)
  PROVE  IInv'
  <1> DEFINE s == conn[c]
             n == Len(installed)
             t == [s EXCEPT !.pc = "loaded", !.view = n]
  <1>1. s.pc = "parsed" /\ Set(c, t)
    BY DEF LoadRuntime, At, Load
  <1>2. Good(s, installed) /\ Blank(s) /\ s \in Connection
    <2>1. Good(s, installed) /\ s \in Connection /\ s.view \in Nat
      BY DEF IInv, Good, Connection
    <2> QED
      BY <1>1, <2>1 DEF Good, Now
  <1>3. n \in Nat /\ n > 0 /\ installed[n] \in Config
    BY DEF IInv
  <1>4. n \in 0 .. Len(installed)
    BY <1>3
  <1> HIDE DEF n
  <1>5. t \in Connection /\ Past(t, installed[n]) /\ Now(t, installed[n])
    BY <1>1, <1>2, <1>3, Loading
  <1>6. t.view = n /\ t.tls = s.tls /\ t.req = s.req
    BY <1>2 DEF Connection
  <1> HIDE DEF t
  <1>7. Good(t, installed)
    BY <1>2, <1>3, <1>4, <1>5, <1>6 DEF Good
  <1> QED
    BY <1>1, <1>7, OneMoves
LEMMA NextIInv == IInv /\ [Next]_vars => IInv'
  <1> SUFFICES ASSUME IInv, [Next]_vars PROVE IInv'
    OBVIOUS
  <1>1. CASE UNCHANGED vars
    BY <1>1 DEF vars, IInv
  <1>2. ASSUME NEW c \in Conn, Proceeds(c)
        PROVE  IInv'
    <2>1. After(c) = "closed" \/ (After(c) = "serving" /\ conn[c].req > 0)
      BY DEF After
    <2>2. conn[c].pc = "transformed" => conn[c].req > 0
      BY Working DEF Now, Inside
    <2>3. CASE LoadRuntime(c)
      BY <2>3, LoadStep
    <2>4. CASE NoProfile(c) \/ Unidentified(c)
      BY <2>4, TurnAwayStep
    <2>5. CASE Evaluate(c)
      BY <2>5, EvaluateStep
    <2>6. CASE Refuse(c)
      BY <2>1, <2>6, RefusalStep DEF Refuse, Refused, At, Why
    <2>7. CASE Transform(c)
      BY <2>7, TransformStep
    <2>8. CASE TransformFails(c)
      BY <2>1, <2>8, RefusalStep DEF TransformFails, Permitted, At, Why
    <2>9. CASE Establish(c)
      BY <2>9, EstablishStep
    <2>10. CASE SocksDials(c)
      BY <2>10, SocksStep
    <2>11. CASE GuardConnects(c)
      BY <2>11, DialStep
    <2>12. CASE GuardRefuses(c)
      BY <2>12, RefusalStep DEF GuardRefuses, At, Why
    <2>13. CASE ForwardHead(c)
      BY <2>13, ForwardStep
    <2>14. CASE StartTunnel(c)
      BY <2>14, TunnelStep
    <2>15. CASE BuildHandler(c)
      BY <2>15, BuildStep
    <2>16. CASE Responds(c)
      BY <2>16, RespondStep
    <2>17. CASE ResponderFails(c)
      BY <2>2, <2>17, RefusalStep DEF ResponderFails, At, Why
    <2>18. CASE Reuse(c)
      BY <2>18, ReuseStep
    <2>19. CASE Redial(c)
      BY <2>19, RedialStep
    <2>20. CASE RedialRefused(c)
      BY <2>2, <2>20, RefusalStep DEF RedialRefused, At, Why
    <2>21. CASE SendAnswer(c)
      BY <2>21, AnswerStep DEF SendAnswer, At
    <2>22. CASE Upgrade(c)
      BY <2>22, AnswerStep DEF Upgrade, At
    <2> QED
      BY <1>2, <2>3, <2>4, <2>5, <2>6, <2>7, <2>8, <2>9, <2>10, <2>11, <2>12, <2>13, <2>14,
         <2>15, <2>16, <2>17, <2>18, <2>19, <2>20, <2>21, <2>22 DEF Proceeds
  <1>3. ASSUME NEW c \in Conn, Environment(c)
        PROVE  IInv'
    <2>1. ASSUME NEW k \in Kind, NEW h \in Host, Parse(c, k, h)
          PROVE  IInv'
      BY <2>1, ParseStep
    <2>2. CASE BadRequest(c)
      BY <2>2, BadRequestStep
    <2>3. CASE SniMatches(c)
      BY <2>3, MatchStep
    <2>4. CASE SniMismatch(c)
      BY <2>4, MismatchStep
    <2>5. CASE Handshake(c)
      BY <2>5, HandshakeStep
    <2>6. CASE Receive(c)
      BY <2>6, ReceiveStep
    <2>7. CASE HandshakeOrigin(c)
      BY <2>7, SendStep
    <2>8. CASE RecordAnswer(c)
      BY <2>8, RecordStep
    <2>9. CASE Breaks(c)
      BY <2>9, BreakStep
    <2> QED
      BY <1>3, <2>1, <2>2, <2>3, <2>4, <2>5, <2>6, <2>7, <2>8, <2>9 DEF Environment
  <1>4. ASSUME NEW g \in Config, Reload(g)
        PROVE  IInv'
    BY <1>4, ReloadIInv
  <1> QED
    BY <1>1, <1>2, <1>3, <1>4 DEF Next

LEMMA AlwaysIInv == Spec => []IInv
  <1>1. Init => IInv
    BY InitIInv
  <1>2. IInv /\ [Next]_vars => IInv'
    BY NextIInv
  <1> QED
    BY <1>1, <1>2, PTL DEF Spec

-----------------------------------------------------------------------------
(* What the invariant says of the system. *)

LEMMA AtMostOne ==
  ASSUME NEW S, \A x, y \in S : x = y
  PROVE  IsFiniteSet(S) /\ Cardinality(S) \in Nat /\ Cardinality(S) <= 1
         /\ (S = {} => Cardinality(S) = 0)
  <1>1. CASE S = {}
    <2>1. IsFiniteSet({}) /\ Cardinality({}) = 0
      BY FS_EmptySet
    <2> QED
      BY <1>1, <2>1
  <1>2. CASE S # {}
    <2>1. PICK x : x \in S
      BY <1>2
    <2>2. S = {x}
      BY <2>1
    <2>3. IsFiniteSet({x}) /\ Cardinality({x}) = 1
      BY FS_Singleton
    <2> QED
      BY <1>2, <2>2, <2>3
  <1> QED
    BY <1>1, <1>2

LEMMA InvariantTypes == IInv => TypeOK
  <1> SUFFICES ASSUME IInv, NEW c \in Conn
               PROVE  /\ conn[c].kind \in Kind \union {None}
                      /\ {conn[c].host, conn[c].target, conn[c].slot} \subseteq Host \union {None}
                      /\ conn[c].dialed \subseteq Host
                      /\ {conn[c].view, conn[c].tls} \subseteq 0 .. Len(installed)
                      /\ conn[c].req \in 0 .. MaxRequests
                      /\ conn[c].forwarded \union conn[c].replies \subseteq 0 .. conn[c].req
                      /\ \A i \in DOMAIN conn[c].log : conn[c].log[i].req \in 0 .. conn[c].req
    BY DEF TypeOK, IInv
  <1>1. Good(conn[c], installed) /\ conn[c] \in Connection
    BY DEF IInv, Good
  <1>2. /\ conn[c].kind \in Kind \union {None}
        /\ {conn[c].host, conn[c].target, conn[c].slot} \subseteq Host \union {None}
        /\ conn[c].dialed \subseteq Host
    BY <1>1 DEF Connection
  <1>3. /\ {conn[c].view, conn[c].tls} \subseteq 0 .. Len(installed)
        /\ conn[c].req \in 0 .. MaxRequests
    BY <1>1 DEF Good
  <1>4. conn[c].view \in Nat
    BY <1>1 DEF Connection
  <1>5. CASE conn[c].view = 0
    <2>1. conn[c].log = <<>> /\ conn[c].forwarded = {} /\ conn[c].replies = {}
      BY <1>1, <1>5 DEF Good, Blank
    <2> QED
      BY <1>2, <1>3, <2>1
  <1>6. CASE conn[c].view > 0
    <2>1. /\ conn[c].forwarded \union conn[c].replies \subseteq 0 .. conn[c].req
          /\ Within(conn[c].log, conn[c].req)
      BY <1>1, <1>6 DEF Good, Past
    <2> QED
      BY <1>2, <1>3, <2>1 DEF Within
  <1> QED
    BY <1>4, <1>5, <1>6

\* What the invariant says of one connection's past, in the model's own terms.
LEMMA PastOf ==
  ASSUME IInv, NEW c \in Conn
  PROVE  \/ /\ conn[c].dialed = {} /\ conn[c].forwarded = {} /\ conn[c].verdicts = {}
            /\ conn[c].replies = {} /\ conn[c].log = <<>>
            /\ conn[c].pc \in {"idle", "parsed", "closed"}
         \/ Past(conn[c], Cfg(c)) /\ Now(conn[c], Cfg(c))
  <1>1. Good(conn[c], installed) /\ conn[c].view \in Nat
    BY DEF IInv, Good, Connection
  <1> QED
    BY <1>1 DEF Good, Blank, Cfg

LEMMA InvariantForwards == IInv => OnlyAllowedIsForwarded
  <1> SUFFICES ASSUME IInv PROVE OnlyAllowedIsForwarded
    OBVIOUS
  <1>1. TypeOK
    BY InvariantTypes
  <1>2. NoDialBeforeVerdict
    BY PastOf DEF NoDialBeforeVerdict, VerdictsOn, Past, LetIn, Reach
  <1>3. ForwardedWasAllowed
    BY PastOf DEF ForwardedWasAllowed, VerdictsOn, Past, LetsOut, Firm, TheChain
  <1>4. DeniedNeverForwarded
    BY PastOf DEF DeniedNeverForwarded, Records, Past, NoDeny
  <1>5. SentToItsOrigin
    BY PastOf DEF SentToItsOrigin, Now
  <1> QED
    BY <1>1, <1>2, <1>3, <1>4, <1>5 DEF OnlyAllowedIsForwarded

LEMMA InvariantLogs == IInv => LogIsTrue
  <1> SUFFICES ASSUME IInv PROVE LogIsTrue
    OBVIOUS
  <1>1. AnswerIsOnRecord
    BY PastOf DEF AnswerIsOnRecord, Records, Past, Logged
  <1>2. LogTellsTheVerdict
    BY PastOf DEF LogTellsTheVerdict, VerdictsOn, Past, Vouched
  <1>3. ASSUME NEW c \in Conn
        PROVE  Ordered(conn[c].log) /\ conn[c].log \in Seq(Rec)
    BY PastOf DEF Past, Ordered, IInv, Good, Connection
  <1>4. ASSUME NEW c \in Conn, NEW n \in Nat
        PROVE  /\ \A i, j \in Records(c, n, "allow") : i = j
               /\ \A i, j \in Records(c, n, "deny") : i = j
               /\ n > 0 => Records(c, n, "allow") = {} \/ Records(c, n, "deny") = {}
               /\ \A i \in Records(c, n, "allow"), j \in Records(c, n, "deny") : i < j
    <2>1. \A i, j \in DOMAIN conn[c].log :
            i < j /\ conn[c].log[i].req = conn[c].log[j].req =>
              conn[c].log[i].req = 0 /\ conn[c].log[i].action = "allow"
              /\ conn[c].log[j].action = "deny"
      BY <1>3 DEF Ordered
    <2>2. DOMAIN conn[c].log \subseteq Nat
      <3> HIDE DEF Rec
      <3> QED
        BY <1>3
    <2>3. \A i, j \in DOMAIN conn[c].log : i < j \/ j < i \/ i = j
      BY <2>2
    <2> QED
      BY <2>1, <2>3 DEF Records
  <1>5. RecordsDoNotPileUp
    <2> SUFFICES ASSUME NEW c \in Conn
                 PROVE  /\ \A n \in 1 .. MaxRequests :
                             Cardinality(Records(c, n, "allow"))
                             + Cardinality(Records(c, n, "deny")) <= 1
                        /\ Cardinality(Records(c, 0, "allow")) <= 1
                        /\ Cardinality(Records(c, 0, "deny")) <= 1
                        /\ \A i \in Records(c, 0, "allow"), j \in Records(c, 0, "deny") : i < j
      BY DEF RecordsDoNotPileUp
    <2>1. ASSUME NEW n \in 1 .. MaxRequests
          PROVE  Cardinality(Records(c, n, "allow")) + Cardinality(Records(c, n, "deny")) <= 1
      <3> DEFINE A == Records(c, n, "allow")
                 D == Records(c, n, "deny")
      <3>1. /\ \A i, j \in A : i = j
            /\ \A i, j \in D : i = j
            /\ A = {} \/ D = {}
        BY <1>4
      <3> HIDE DEF A, D
      <3>2. /\ Cardinality(A) \in Nat /\ Cardinality(A) <= 1 /\ (A = {} => Cardinality(A) = 0)
            /\ Cardinality(D) \in Nat /\ Cardinality(D) <= 1 /\ (D = {} => Cardinality(D) = 0)
        BY <3>1, AtMostOne
      <3>3. Cardinality(A) + Cardinality(D) <= 1
        BY <3>1, <3>2
      <3> QED
        BY <3>3 DEF A, D
    <2>2. /\ Cardinality(Records(c, 0, "allow")) <= 1
          /\ Cardinality(Records(c, 0, "deny")) <= 1
      BY <1>4, AtMostOne
    <2> QED
      BY <1>4, <2>1, <2>2
  <1> QED
    BY <1>1, <1>2, <1>5 DEF LogIsTrue

LEMMA InvariantRules == IInv => OneSetOfRules
  BY PastOf DEF OneSetOfRules, Past

-----------------------------------------------------------------------------
(* Default deny holds on every path (server.rs, mitm.rs), for any number of *)
(* connections and of requests on each, any configurations and any reloads: *)
(* nothing is dialled, and nothing forwarded, but on a verdict of its own   *)
(* and to the origin it was meant for, and nothing any check refused.       *)
THEOREM ProxyOnlyAllowedIsForwarded == Spec => []OnlyAllowedIsForwarded
  BY AlwaysIInv, InvariantForwards, PTL

(* The audit log can be believed (emit_audit, mitm::emit): what an agent    *)
(* was given is in it, under the verdict it had, and no request is in it    *)
(* twice but to take an allow back.                                         *)
THEOREM ProxyLogIsTrue == Spec => []LogIsTrue
  BY AlwaysIInv, InvariantLogs, PTL

(* A reload never changes the rules under a connection (server.rs loads the *)
(* runtime once, ADR 0020): everything decided on it was decided by one and *)
(* the same configuration.                                                  *)
THEOREM ProxyOneSetOfRules == Spec => []OneSetOfRules
  BY AlwaysIInv, InvariantRules, PTL
=============================================================================
