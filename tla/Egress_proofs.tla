---------------------------- MODULE Egress_proofs ----------------------------
(***************************************************************************)
(* A request on its way out, for any profile, any number of requests at once *)
(* and a redactor with room for two values of a label or more: credentials   *)
(* go where they belong and together, the record tells of them, what was     *)
(* signed is what is sent, and the logs show none that is in use.            *)
(*                                                                         *)
(* The first three are about one request, whose context only its own steps   *)
(* change.  The last is about two queues, what a label was taught and what   *)
(* of it is remembered: a value leaves the second only when a ringful has    *)
(* followed it in the first.                                                *)
(***************************************************************************)
EXTENDS Egress, FiniteSetTheorems, SequenceTheorems, TLAPS

-----------------------------------------------------------------------------
(* The invariant. *)

PC == {"new", "prepare", "swap", "send", "await", "tracing", "json", "done"}

\* Headers by name.
Headers == UNION {[D -> Value] : D \in SUBSET Name}

SignedPart == [host : Value, path : Name, query : Seq(Value), content : Content]

RequestContext ==
    [plain : BOOLEAN, get : BOOLEAN, asked : Name, authority : Name, dotted : BOOLEAN,
     path : Name, hdr : Headers, query : Seq(Value), content : Content,
     handle : {"empty", "streaming", "overlimit", "buffered"},
     facts : SUBSET ({"injected", "not_injected", "routed"} \X Name), routed : BOOLEAN,
     sig : SUBSET SignedPart]

Values(c) == Range(c.hdr) \cup Range(c.query)

Said(p, c, i) == <<"injected", p.swaps[i].name>> \in c.facts

\* Excluded, with the profile as a parameter.
Exempt(p, c) == ~c.dotted /\ <<c.authority, c.path>> \in p.exceptions

\* Every query swap stands before every signing one.
QueriesFirst(p) ==
    \A i, j \in DOMAIN p.swaps :
        p.swaps[i].kind = "sigv4" /\ p.swaps[j].kind = "query" => j < i

\* A credential in the request has its swap, whose scope the host is in, and
\* the swap is on record.
Owned(p, c) ==
    \A v \in Values(c) : IsCredential(v) =>
        /\ \E i \in DOMAIN p.swaps : Owns(p.swaps[i], v, c) /\ Said(p, c, i)
        /\ ~Exempt(p, c)
        /\ v.by # "refresh"

\* The agent's own credentials are for the host it addressed.
ClientsOwn(c) ==
    /\ ~c.routed => c.authority = c.asked
    /\ \A n \in DOMAIN c.hdr \cap ClientCredentials :
          c.hdr[n].by = "client" => c.authority = c.asked

\* A swap on record has set its header or its part of the query.
Kept(p, c) ==
    \A i \in DOMAIN p.swaps :
        /\ Said(p, c, i)
        /\ \A j \in DOMAIN p.swaps : p.swaps[j].name = p.swaps[i].name => j = i
        => Stands(p.swaps[i], c)

\* What was signed is what there is.
Covered(p, c) ==
    \A g \in c.sig :
        /\ g.path = c.path
        /\ c.handle # "empty" => g.content = c.content
        /\ QueriesFirst(p) => g.query = c.query

Good(p, c) == c \in RequestContext /\ Owned(p, c) /\ ClientsOwn(c) /\ Kept(p, c) /\ Covered(p, c)

\* Nothing has been injected.
Clean(p, c) ==
    /\ \A v \in Values(c) : ~IsCredential(v)
    /\ \A i \in DOMAIN p.swaps : ~Said(p, c, i)
    /\ c.sig = {}

\* The swaps before the k-th have done what they had to.
Behind(p, c, k) ==
    /\ \A i \in DOMAIN p.swaps :
          i < k /\ c.authority \in p.swaps[i].hosts =>
            \/ Said(p, c, i)
            \/ Unfit(p, p.swaps[i])
    /\ c.sig # {} => \E i \in DOMAIN p.swaps : i < k /\ p.swaps[i].kind = "sigv4"
    /\ k = 1 => Clean(p, c)
    /\ k > 1 => ~Exempt(p, c)

Ready(p, c) == Exempt(p, c) \/ Behind(p, c, Len(p.swaps) + 1)

\* One request, by where it is.
Request(p, w, c, k, out, rec) ==
    /\ w # "new" => Good(p, c)
    /\ w \in {"new", "prepare"} => k = 1
    /\ w = "prepare" => Clean(p, c)
    /\ w = "swap" => Behind(p, c, k)
    /\ w \in {"send", "await"} => Ready(p, c)
    /\ w \in {"new", "prepare", "swap", "send", "await"} => rec = NoRecord
    /\ out # {} => w \in {"await", "tracing", "json", "done"} /\ out = {Finished(c)} /\ Ready(p, c)
    /\ out # {} /\ rec.action = "allow" => rec.facts = c.facts

Requests == \A r \in Reqs : Request(profile, pc[r], cx[r], at[r], sent[r], record[r])

\* Who mints is at a swap that needs the token.
Mints ==
    \A s \in Minted : \A r \in Reqs :
        lock[s] = {r} => pc[r] = "swap" /\ Due(r, "minted") /\ s = Head(Swap(r).sources)

Token == [access : Nat, refresh : Nat, live : BOOLEAN, fresh : BOOLEAN]

Typed ==
    /\ scene \in Scenes
    /\ pc \in [Reqs -> PC] /\ at \in [Reqs -> Nat \ {0}]
    /\ \A r \in Reqs : at[r] <= Len(profile.swaps) + 1
    /\ DOMAIN cx = Reqs /\ DOMAIN sent = Reqs /\ DOMAIN record = Reqs
    /\ token \in [Minted -> Token]
    /\ lock \in [Minted -> {{}} \cup {{r} : r \in Reqs}]
    /\ DOMAIN ring = Labels /\ DOMAIN taught = Labels
    /\ \A l \in Labels : ring[l] \in Seq(Value) /\ taught[l] \in Seq(Value) /\ Len(ring[l]) <= Ring

\* ------------------------------------------------------------- the redactor
\* A label's queue holds what it was taught, under the credential's name.
Remembered ==
    \A l \in Labels :
        /\ Range(ring[l]) \subseteq Range(taught[l])
        /\ \A v \in Range(taught[l]) : v.of = l[1] /\ ~v.enc
        /\ l[1] \notin Minted => taught[l] = <<Static(l[1])>>
        /\ l[1] \notin Minted /\ l[1] \notin profile.short => ring[l] = <<Static(l[1])>>

\* Under a minted credential's own label, acc access tokens and ref refreshes
\* into its life: every access token so far, in order; a refresh token is
\* followed by all that came after it.
OwnTaught(s, q, acc, ref) ==
    /\ \A i \in DOMAIN q :
          \/ q[i].by = "access" /\ q[i] = Access(s, q[i].n) /\ q[i].n \in 1..acc
          \/ q[i].by = "refresh" /\ q[i] = Refresh(s, q[i].n) /\ q[i].n \in 1..ref
    /\ \A n \in 1..acc : Access(s, n) \in Range(q)
    /\ \A i \in DOMAIN q : q[i].by = "refresh" => Len(q) - i >= ref - q[i].n

\* And what is remembered of it: access tokens in order, the newer ones before
\* the older ones are gone; one that is gone was followed by a ringful.
OwnRing(s, q, k, acc) ==
    /\ \A a, b \in DOMAIN k : a < b /\ k[a].by = "access" /\ k[b].by = "access" => k[a].n < k[b].n
    /\ \A a \in DOMAIN k : k[a].by = "access" =>
          \A n \in (k[a].n + 1)..acc : Access(s, n) \in Range(k)
    /\ \A i \in DOMAIN q : q[i].by = "access" =>
          /\ q[i] \notin Range(k) => Len(q) - i >= Ring
          /\ \A a \in DOMAIN k : k[a] = q[i] => Len(q) - i >= Len(k) - a

\* The refresh tokens that were presented: the queue is the end of what was
\* taught.
Presented(s, q, ref) ==
    /\ \A i \in DOMAIN q : q[i] = Refresh(s, q[i].n) /\ q[i].n <= ref
    /\ \A i, j \in DOMAIN q : i <= j => q[j].n - q[i].n >= j - i

IsEndOf(k, q) ==
    /\ Len(k) <= Len(q) /\ (Len(k) = Ring \/ Len(k) = Len(q))
    /\ \A a \in DOMAIN k : k[a] = q[Len(q) - Len(k) + a]

\* What holds of one minted credential.
RedactorOf(s) ==
    /\ OwnTaught(s, taught[Label(s, "own")], token[s].access, token[s].refresh)
    /\ Presented(s, taught[Label(s, "refresh_token")], token[s].refresh)
    /\ s \notin profile.short =>
          /\ OwnRing(s, taught[Label(s, "own")], ring[Label(s, "own")], token[s].access)
          /\ IsEndOf(ring[Label(s, "refresh_token")], taught[Label(s, "refresh_token")])
    /\ taught[Label(s, "id_token")] = << >>
    /\ token[s].live => token[s].access > 0 /\ lock[s] = {}
    /\ token[s].live /\ token[s].fresh /\ s \notin profile.short =>
          Access(s, token[s].access) \in Range(ring[Label(s, "own")])
    /\ lock[s] # {} => Refresh(s, token[s].refresh) \in Range(taught[Label(s, "refresh_token")])

Redactor == \A s \in Minted : RedactorOf(s)

\* The redactor was told of it: t is all it was taught.
ToldIn(p, t, v) ==
    v.by # "refresh" /\ v.of \in DOMAIN p.sources /\ v \in Range(t[Label(v.of, "own")])
PresentedIn(p, t, v) ==
    /\ v.by = "refresh" /\ v.of \in DOMAIN p.sources /\ p.sources[v.of] = "minted"
    /\ v \in Range(t[Label(v.of, "refresh_token")])

\* It was told of whatever a request or its record could show.
ShownBy(p, t, w, c, rec) ==
    /\ w # "new" => \A v \in Values(c) : IsSecret(v) /\ ~v.enc => ToldIn(p, t, v)
    /\ \A v \in rec.path \cup rec.headers : ~v.enc => ToldIn(p, t, v)
    /\ \A v \in rec.message : PresentedIn(p, t, v)

Shown == \A r \in Reqs : ShownBy(profile, taught, pc[r], cx[r], record[r])

Base == Typed /\ Requests /\ Mints

Secrecy == Remembered /\ Redactor /\ Shown /\ RecentIsHidden

IInv == Base /\ Secrecy
-----------------------------------------------------------------------------
(* What a profile and an agent may be. *)

LEMMA Profiled ==
  ASSUME scene \in Scenes
  PROVE  IsProfile(profile) /\ Ring \in Nat /\ Ring >= 2
  BY ScenesAssumption DEF profile

LEMMA SwapsAre ==
  ASSUME NEW p, IsProfile(p)
  PROVE  /\ Len(p.swaps) \in Nat /\ DOMAIN p.swaps = 1..Len(p.swaps)
         /\ \A k \in DOMAIN p.swaps :
              /\ IsSwap(p.swaps[k], p.sources)
              /\ Head(p.swaps[k].sources) \in Range(p.swaps[k].sources)
              /\ Range(p.swaps[k].sources) \subseteq DOMAIN p.sources
              /\ DOMAIN p.sources \subseteq Name
              /\ Place(p.swaps[k]) \in Name
<1>1. Len(p.swaps) \in Nat /\ DOMAIN p.swaps = 1..Len(p.swaps)
  BY DEF IsProfile
<1>2. ASSUME NEW k \in DOMAIN p.swaps
      PROVE  /\ IsSwap(p.swaps[k], p.sources)
             /\ Head(p.swaps[k].sources) \in Range(p.swaps[k].sources)
             /\ Range(p.swaps[k].sources) \subseteq DOMAIN p.sources
             /\ Place(p.swaps[k]) \in Name
  <2>1. IsSwap(p.swaps[k], p.sources)
    BY DEF IsProfile
  <2>2. p.swaps[k].sources \in Seq(DOMAIN p.sources) /\ p.swaps[k].sources # << >>
    BY <2>1 DEF IsSwap
  <2>3. 1 \in DOMAIN p.swaps[k].sources /\ Head(p.swaps[k].sources) = p.swaps[k].sources[1]
    BY <2>2
  <2>4. Range(p.swaps[k].sources) \subseteq DOMAIN p.sources
    BY <2>2 DEF Range
  <2>5. Place(p.swaps[k]) \in Name
    <3>1. p.swaps[k].header \in Name
      BY <2>1 DEF IsSwap
    <3>2. Place(p.swaps[k]) = p.swaps[k].header \/ Place(p.swaps[k]) = "authorization"
      BY DEF Place
    <3>3. "authorization" \in Name
      BY ScenesAssumption
    <3> QED BY <3>1, <3>2, <3>3
  <2> QED BY <2>1, <2>3, <2>4, <2>5 DEF Range
<1>3. DOMAIN p.sources \subseteq Name
  BY DEF IsProfile
<1> QED BY <1>1, <1>2, <1>3

LEMMA ValuesAre ==
  ASSUME NEW s \in Name, NEW n \in Nat
  PROVE  /\ Client(s) \in Value /\ SetTo(s) \in Value /\ HostIs(s, n) \in Value /\ Static(s) \in Value
         /\ Access(s, n) \in Value /\ Refresh(s, n) \in Value /\ Signature(s) \in Value
  BY DEF Client, SetTo, HostIs, Static, Access, Refresh, Signature, Val, Value

LEMMA HeadersAre ==
  ASSUME NEW h
  PROVE  h \in Headers <=>
           /\ DOMAIN h \subseteq Name /\ h = [n \in DOMAIN h |-> h[n]]
           /\ \A n \in DOMAIN h : h[n] \in Value
<1>1. ASSUME h \in Headers
      PROVE  DOMAIN h \subseteq Name /\ h = [n \in DOMAIN h |-> h[n]] /\ \A n \in DOMAIN h : h[n] \in Value
  <2>1. PICK D \in SUBSET Name : h \in [D -> Value]
    BY <1>1 DEF Headers
  <2> QED BY <2>1
<1>2. ASSUME DOMAIN h \subseteq Name, h = [n \in DOMAIN h |-> h[n]],
             \A n \in DOMAIN h : h[n] \in Value
      PROVE  h \in Headers
  <2>1. h \in [DOMAIN h -> Value]
    BY <1>2
  <2> QED BY <2>1, <1>2 DEF Headers
<1> QED BY <1>1, <1>2

LEMMA InsertIs ==
  ASSUME NEW h \in Headers, NEW n \in Name, NEW v \in Value
  PROVE  /\ Insert(h, n, v) \in Headers
         /\ DOMAIN Insert(h, n, v) = DOMAIN h \cup {n}
         /\ Insert(h, n, v)[n] = v
         /\ \A x \in DOMAIN h : x # n => Insert(h, n, v)[x] = h[x]
         /\ Range(Insert(h, n, v)) \subseteq Range(h) \cup {v}
<1>1. /\ DOMAIN Insert(h, n, v) = DOMAIN h \cup {n}
      /\ Insert(h, n, v)[n] = v
      /\ \A x \in DOMAIN h : x # n => Insert(h, n, v)[x] = h[x]
      /\ Insert(h, n, v) = [x \in DOMAIN Insert(h, n, v) |-> Insert(h, n, v)[x]]
  BY DEF Insert
<1>2. Insert(h, n, v) \in Headers
  <2>1. DOMAIN h \subseteq Name /\ \A x \in DOMAIN h : h[x] \in Value
    BY HeadersAre
  <2> HIDE DEF Insert
  <2>2. \A x \in DOMAIN Insert(h, n, v) : Insert(h, n, v)[x] \in Value
    BY <1>1, <2>1
  <2> QED BY <1>1, <2>1, <2>2, HeadersAre
<1> QED BY <1>1, <1>2 DEF Range

LEMMA StripIs ==
  ASSUME NEW h \in Headers, NEW names
  PROVE  /\ Strip(h, names) \in Headers
         /\ DOMAIN Strip(h, names) = DOMAIN h \ names
         /\ \A x \in DOMAIN h \ names : Strip(h, names)[x] = h[x]
         /\ Range(Strip(h, names)) \subseteq Range(h)
<1>1. /\ DOMAIN Strip(h, names) = DOMAIN h \ names
      /\ \A x \in DOMAIN h \ names : Strip(h, names)[x] = h[x]
      /\ Strip(h, names) = [x \in DOMAIN Strip(h, names) |-> Strip(h, names)[x]]
  BY DEF Strip, Restrict
<1>2. Strip(h, names) \in Headers
  <2>1. DOMAIN h \subseteq Name /\ \A x \in DOMAIN h : h[x] \in Value
    BY HeadersAre
  <2> HIDE DEF Strip
  <2>2. \A x \in DOMAIN Strip(h, names) : Strip(h, names)[x] \in Value
    BY <1>1, <2>1
  <2> QED BY <1>1, <2>1, <2>2, HeadersAre
<1> QED BY <1>1, <1>2 DEF Range

LEMMA ContextIs ==
  ASSUME NEW c \in RequestContext
  PROVE  /\ c.hdr \in Headers /\ c.query \in Seq(Value) /\ c.asked \in Name /\ c.authority \in Name
         /\ c.path \in Name /\ c.content \in Content
         /\ c.facts \subseteq {"injected", "not_injected", "routed"} \X Name /\ c.sig \subseteq SignedPart /\ c.routed \in BOOLEAN
         /\ c.plain \in BOOLEAN /\ c.get \in BOOLEAN /\ c.dotted \in BOOLEAN
  BY DEF RequestContext
-----------------------------------------------------------------------------
(* What a transform does to one request. *)

\* A swap that has found its host and its secret.
LEMMA InjectKeeps ==
  ASSUME NEW p, IsProfile(p), NEW k \in DOMAIN p.swaps,
         NEW c, Good(p, c), Behind(p, c, k), ~Exempt(p, c),
         c.authority \in p.swaps[k].hosts,
         NEW d \in RequestContext,
         d.asked = c.asked, d.authority = c.authority, d.dotted = c.dotted, d.path = c.path,
         d.content = c.content, d.handle = c.handle, d.routed = c.routed,
         d.facts = c.facts \cup {<<"injected", p.swaps[k].name>>},
         \A v \in Values(d) : v \in Values(c) \/ ~IsCredential(v)
                            \/ (v.of \in Range(p.swaps[k].sources) /\ v.by # "refresh"),
         \A n \in DOMAIN d.hdr : d.hdr[n].by = "client" => n \in DOMAIN c.hdr /\ c.hdr[n] = d.hdr[n],
         \A n \in DOMAIN c.hdr :
            n \in DOMAIN d.hdr /\ (IsCredential(c.hdr[n]) => IsCredential(d.hdr[n])),
         Range(c.query) \subseteq Range(d.query),
         Stands(p.swaps[k], d),
         Covered(p, d),
         d.sig # {} => c.sig # {} \/ p.swaps[k].kind = "sigv4"
  PROVE  Good(p, d) /\ Behind(p, d, k + 1)
<1>1. \A i \in DOMAIN p.swaps : Said(p, c, i) => Said(p, d, i)
  BY DEF Said
<1>2. Said(p, d, k)
  BY DEF Said
<1>3. Exempt(p, d) = Exempt(p, c)
  BY DEF Exempt
<1>4. Owned(p, d)
  <2>1. ASSUME NEW v \in Values(d), IsCredential(v)
        PROVE  /\ \E i \in DOMAIN p.swaps : Owns(p.swaps[i], v, d) /\ Said(p, d, i)
               /\ v.by # "refresh"
    <3>1. CASE v \in Values(c)
      <4>1. PICK i \in DOMAIN p.swaps : Owns(p.swaps[i], v, c) /\ Said(p, c, i)
        BY <2>1, <3>1 DEF Good, Owned
      <4>2. v.by # "refresh"
        BY <2>1, <3>1 DEF Good, Owned
      <4> QED BY <4>1, <4>2, <1>1 DEF Owns
    <3>2. CASE v.of \in Range(p.swaps[k].sources) /\ v.by # "refresh"
      BY <3>2, <1>2 DEF Owns
    <3> QED BY <2>1, <3>1, <3>2
  <2> QED BY <2>1, <1>3 DEF Owned
<1>5. ClientsOwn(d)
  BY DEF Good, ClientsOwn
<1>6. Kept(p, d)
  <2>1. ASSUME NEW i \in DOMAIN p.swaps, Said(p, d, i),
               \A j \in DOMAIN p.swaps : p.swaps[j].name = p.swaps[i].name => j = i
        PROVE  Stands(p.swaps[i], d)
    <3>1. CASE i = k
      BY <2>1, <3>1
    <3>2. CASE i # k
      <4>1. p.swaps[k].name # p.swaps[i].name
        BY <2>1, <3>2
      <4>2. Said(p, c, i)
        BY <2>1, <4>1 DEF Said
      <4>3. Stands(p.swaps[i], c)
        BY <2>1, <4>2 DEF Good, Kept
      <4> QED BY <4>3 DEF Stands
    <3> QED BY <3>1, <3>2
  <2> QED BY <2>1 DEF Kept
<1>7. Behind(p, d, k + 1)
  <2>1. k \in Nat /\ k >= 1
    BY SwapsAre
  <2>2. ASSUME NEW i \in DOMAIN p.swaps, i < k + 1, d.authority \in p.swaps[i].hosts
        PROVE  \/ Said(p, d, i)
               \/ Unfit(p, p.swaps[i])
    <3>1. i \in Nat
      BY SwapsAre
    <3>2. CASE i = k
      BY <3>2, <1>2
    <3>3. CASE i < k
      BY <3>3, <2>2, <1>1 DEF Behind
    <3> QED BY <2>1, <2>2, <3>1, <3>2, <3>3
  <2>3. ASSUME d.sig # {}
        PROVE  \E i \in DOMAIN p.swaps : i < k + 1 /\ p.swaps[i].kind = "sigv4"
    <3>1. CASE c.sig # {}
      <4>1. PICK i \in DOMAIN p.swaps : i < k /\ p.swaps[i].kind = "sigv4"
        BY <3>1 DEF Behind
      <4> QED BY <4>1, <2>1, SwapsAre
    <3>2. CASE p.swaps[k].kind = "sigv4"
      BY <3>2, <2>1
    <3> QED BY <2>3, <3>1, <3>2
  <2> QED BY <2>1, <2>2, <2>3, <1>3 DEF Behind
<1> QED BY <1>4, <1>5, <1>6, <1>7 DEF Good

\* A swap that does nothing: out of scope, or its value cannot be put there.
LEMMA PassKeeps ==
  ASSUME NEW p, IsProfile(p), NEW k \in DOMAIN p.swaps,
         NEW c, Behind(p, c, k), ~Exempt(p, c),
         \/ c.authority \notin p.swaps[k].hosts
         \/ Unfit(p, p.swaps[k])
  PROVE  Behind(p, c, k + 1)
<1>1. k \in Nat /\ k >= 1 /\ \A i \in DOMAIN p.swaps : i \in Nat
  BY SwapsAre
<1>2. \A i \in DOMAIN p.swaps : i < k + 1 => i < k \/ i = k
  BY <1>1
<1>3. ASSUME c.sig # {}
      PROVE  \E i \in DOMAIN p.swaps : i < k + 1 /\ p.swaps[i].kind = "sigv4"
  <2>1. PICK i \in DOMAIN p.swaps : i < k /\ p.swaps[i].kind = "sigv4"
    BY <1>3 DEF Behind
  <2> QED BY <2>1, <1>1
<1> QED BY <1>1, <1>2, <1>3 DEF Behind

LEMMA ExcludedIs == ASSUME NEW c PROVE Excluded(c) = Exempt(profile, c)
  BY DEF Excluded, Exempt

\* A value a swap may put somewhere.
OfSwap(sw, v) ==
  /\ v \in Value /\ v.by \in {"secret", "access"} /\ v.of = Head(sw.sources)

LEMMA HeaderKeeps ==
  ASSUME scene \in Scenes, NEW k \in DOMAIN profile.swaps,
         NEW c, Good(profile, c), Behind(profile, c, k), ~Exempt(profile, c),
         c.authority \in profile.swaps[k].hosts,
         profile.swaps[k].kind \in {"basic", "bearer", "header"},
         NEW v, OfSwap(profile.swaps[k], v), profile.swaps[k].kind = "basic" => v.enc
  PROVE  LET d == try_set_header(c, profile.swaps[k], v)
         IN  Good(profile, d) /\ Behind(profile, d, k + 1) /\ Values(d) \subseteq Values(c) \cup {v}
<1> DEFINE sw == profile.swaps[k]
           d == [c EXCEPT !.hdr = Insert(c.hdr, Place(sw), v), !.facts = c.facts \cup {<<"injected", sw.name>>}]
<1>1. IsProfile(profile)
  BY Profiled
<1>2. CASE ~v.enc /\ v.of \in profile.unusable
  <2>1. try_set_header(c, sw, v) = c
    BY <1>2 DEF try_set_header
  <2>2. Behind(profile, c, k + 1)
    <3>1. Unfit(profile, sw)
      BY <1>2 DEF OfSwap, Unfit
    <3> QED BY <1>1, <3>1, PassKeeps
  <2> QED BY <2>1, <2>2
<1>3. CASE ~(~v.enc /\ v.of \in profile.unusable)
  <2>1. try_set_header(c, sw, v) = d
    BY <1>3 DEF try_set_header
  <2>2. /\ c \in RequestContext /\ c.hdr \in Headers /\ v \in Value /\ IsCredential(v)
        /\ v.by # "client" /\ v.by # "refresh"
    BY ContextIs DEF Good, OfSwap, IsCredential, IsSecret
  <2>3. Place(sw) \in Name /\ sw.name \in Name /\ v.of \in Range(sw.sources)
    BY <1>1, SwapsAre DEF OfSwap, IsSwap
  <2> DEFINE h == Insert(c.hdr, Place(sw), v)
  <2>4. /\ h \in Headers
        /\ DOMAIN h = DOMAIN c.hdr \cup {Place(sw)}
        /\ h[Place(sw)] = v
        /\ \A x \in DOMAIN c.hdr : x # Place(sw) => h[x] = c.hdr[x]
        /\ Range(h) \subseteq Range(c.hdr) \cup {v}
    <3> HIDE DEF sw
    <3> QED BY <2>2, <2>3, InsertIs
  <2> HIDE DEF h
  <2>5. /\ d \in RequestContext
        /\ d.hdr = h /\ d.facts = c.facts \cup {<<"injected", sw.name>>}
        /\ d.asked = c.asked /\ d.authority = c.authority /\ d.dotted = c.dotted /\ d.path = c.path
        /\ d.content = c.content /\ d.handle = c.handle /\ d.routed = c.routed
        /\ d.query = c.query /\ d.sig = c.sig
    <3> HIDE DEF sw
    <3>1. d = [c EXCEPT !.hdr = h, !.facts = c.facts \cup {<<"injected", sw.name>>}]
      BY DEF h
    <3>2. <<"injected", sw.name>> \in {"injected", "not_injected", "routed"} \X Name
      BY <2>3
    <3> HIDE DEF d
    <3> QED BY <3>1, <3>2, <2>2, <2>4 DEF RequestContext
  <2> HIDE DEF d
  <2>6. Values(d) \subseteq Values(c) \cup {v}
    BY <2>4, <2>5 DEF Values
  <2>7. Covered(profile, d)
    BY <2>5 DEF Good, Covered
  <2>8. \A n \in DOMAIN d.hdr : d.hdr[n].by = "client" => n \in DOMAIN c.hdr /\ c.hdr[n] = d.hdr[n]
    BY <2>2, <2>4, <2>5
  <2>9. \A n \in DOMAIN c.hdr :
           n \in DOMAIN d.hdr /\ (IsCredential(c.hdr[n]) => IsCredential(d.hdr[n]))
    BY <2>2, <2>4, <2>5
  <2>10. Stands(sw, d)
    BY <2>2, <2>4, <2>5 DEF Stands
  <2>11. \A w \in Values(d) : w \in Values(c) \/ (w.of \in Range(sw.sources) /\ w.by # "refresh")
    BY <2>2, <2>3, <2>6
  <2> HIDE DEF sw
  <2>12. Good(profile, d) /\ Behind(profile, d, k + 1)
    BY <1>1, <2>5, <2>7, <2>8, <2>9, <2>10, <2>11, InjectKeeps DEF sw
  <2> QED BY <2>1, <2>6, <2>12 DEF sw
<1> QED BY <1>2, <1>3

\* append_query comes before any signing swap, or what was signed is excused.
LEMMA QueryKeeps ==
  ASSUME scene \in Scenes, NEW k \in DOMAIN profile.swaps,
         NEW c, Good(profile, c), Behind(profile, c, k), ~Exempt(profile, c),
         c.authority \in profile.swaps[k].hosts,
         profile.swaps[k].kind = "query",
         NEW v, OfSwap(profile.swaps[k], v), v.enc = FALSE
  PROVE  LET d == append_query(c, profile.swaps[k], v)
         IN  /\ Good(profile, d) /\ Behind(profile, d, k + 1)
             /\ \A w \in Values(d) : w \in Values(c) \/ w.enc \/ w = v
<1> DEFINE sw == profile.swaps[k]
           e == [v EXCEPT !.enc = v.of \in profile.odd]
           d == [c EXCEPT !.query = Append(c.query, e), !.facts = c.facts \cup {<<"injected", sw.name>>}]
<1>1. IsProfile(profile)
  BY Profiled
<1>a. CASE v.of \in profile.unfit
  <2>1. append_query(c, sw, v) = c
    BY <1>a DEF append_query
  <2>2. Unfit(profile, sw)
    BY <1>a DEF OfSwap, Unfit
  <2>3. Behind(profile, c, k + 1)
    BY <1>1, <2>2, PassKeeps
  <2> QED BY <2>1, <2>3
<1>b. SUFFICES ASSUME v.of \notin profile.unfit
               PROVE  LET b == append_query(c, sw, v)
                      IN  /\ Good(profile, b) /\ Behind(profile, b, k + 1)
                          /\ \A w \in Values(b) : w \in Values(c) \/ w.enc \/ w = v
  BY <1>a
<1>c. append_query(c, sw, v) = d
  BY <1>b DEF append_query
<1>2. c \in RequestContext /\ c.query \in Seq(Value) /\ v \in Value
  BY ContextIs DEF Good, OfSwap
<1>3. sw.name \in Name /\ v.of \in Range(sw.sources)
  BY <1>1, SwapsAre DEF OfSwap, IsSwap
<1>4. /\ e \in Value /\ e.of = v.of /\ e.by = v.by /\ (e.enc \/ e = v)
  <2>1. CASE v.of \in profile.odd
    <3>1. e = [v EXCEPT !.enc = TRUE]
      BY <2>1
    <3> HIDE DEF e
    <3> QED BY <1>2, <3>1 DEF Value
  <2>2. CASE v.of \notin profile.odd
    <3>0. (v.of \in profile.odd) = FALSE
      BY <2>2
    <3>1. e = [v EXCEPT !.enc = FALSE]
      BY <3>0, Zenon
    <3> HIDE DEF e
    <3> QED BY <1>2, <3>1 DEF Value
  <2> QED BY <2>1, <2>2
<1> HIDE DEF e
<1>5. /\ d \in RequestContext
      /\ d.query = Append(c.query, e) /\ d.facts = c.facts \cup {<<"injected", sw.name>>}
      /\ d.asked = c.asked /\ d.authority = c.authority /\ d.dotted = c.dotted /\ d.path = c.path
      /\ d.content = c.content /\ d.handle = c.handle /\ d.routed = c.routed
      /\ d.hdr = c.hdr /\ d.sig = c.sig
  <2>1. d = [c EXCEPT !.query = Append(c.query, e), !.facts = c.facts \cup {<<"injected", sw.name>>}]
    OBVIOUS
  <2>2. <<"injected", sw.name>> \in {"injected", "not_injected", "routed"} \X Name
    BY <1>3
  <2>3. Append(c.query, e) \in Seq(Value)
    BY <1>2, <1>4
  <2> HIDE DEF d, sw
  <2> QED BY <2>1, <2>2, <2>3, <1>2 DEF RequestContext
<1> HIDE DEF d
<1>6. Range(d.query) = Range(c.query) \cup {e}
  BY <1>2, <1>4, <1>5 DEF Range
<1>7. Values(d) \subseteq Values(c) \cup {e}
  BY <1>5, <1>6 DEF Values
<1>8. Covered(profile, d)
  <2>1. ASSUME QueriesFirst(profile)
        PROVE  c.sig = {}
    <3>1. SUFFICES ASSUME c.sig # {} PROVE FALSE
      OBVIOUS
    <3>2. PICK i \in DOMAIN profile.swaps : i < k /\ profile.swaps[i].kind = "sigv4"
      BY <3>1 DEF Behind
    <3>3. k < i
      BY <2>1, <3>2 DEF QueriesFirst
    <3> QED BY <3>2, <3>3, <1>1, SwapsAre
  <2> QED BY <1>5, <2>1 DEF Good, Covered
<1>9. v.by # "refresh"
  BY DEF OfSwap
<1>10. \A w \in Values(d) : w \in Values(c) \/ (w.of \in Range(sw.sources) /\ w.by # "refresh")
  BY <1>3, <1>4, <1>7, <1>9
<1>12. Stands(sw, d)
  <2>1. IsCredential(e)
    BY <1>4 DEF OfSwap, IsCredential, IsSecret
  <2> QED BY <1>3, <1>4, <1>6, <2>1 DEF Stands
<1> HIDE DEF sw
<1>11. Good(profile, d) /\ Behind(profile, d, k + 1)
  BY <1>1, <1>5, <1>6, <1>8, <1>10, <1>12, InjectKeeps DEF sw
<1> QED BY <1>4, <1>7, <1>11, <1>c DEF sw

\* sign_sigv4 signs the request as it is.
LEMMA SignKeeps ==
  ASSUME scene \in Scenes, NEW k \in DOMAIN profile.swaps,
         NEW c, Good(profile, c), Behind(profile, c, k), ~Exempt(profile, c),
         c.authority \in profile.swaps[k].hosts,
         profile.swaps[k].kind = "sigv4"
  PROVE  LET d == sign_sigv4(c, profile.swaps[k])
         IN  /\ Good(profile, d) /\ Behind(profile, d, k + 1)
             /\ \A w \in Values(d) : w \in Values(c) \/ ~IsSecret(w)
                                     \/ \E s \in Range(profile.swaps[k].sources) : w = Static(s)
<1> DEFINE sw == profile.swaps[k]
           host == IF "host" \in DOMAIN c.hdr THEN c.hdr.host ELSE HostIs(c.authority, 1)
           session == {i \in DOMAIN sw.sources : i = 3 /\ sw.sources[i] \notin profile.unusable}
           dressed == [x \in DOMAIN c.hdr \cup {"host"} |-> IF x = "host" THEN host ELSE c.hdr[x]]
           tokened == IF session = {} THEN dressed
                      ELSE Insert(dressed, "x-amz-security-token", Static(sw.sources[3]))
           signature == Signature(Head(sw.sources))
           h == Insert(tokened, "authorization", signature)
           g == [host |-> host, path |-> c.path, query |-> c.query,
                 content |-> IF c.handle = "empty" THEN "none" ELSE c.content]
           d == sign_sigv4(c, sw)
<1>1. IsProfile(profile)
  BY Profiled
<1>2. /\ c \in RequestContext /\ c.hdr \in Headers /\ c.authority \in Name
      /\ DOMAIN c.hdr \subseteq Name /\ \A n \in DOMAIN c.hdr : c.hdr[n] \in Value
  BY ContextIs, HeadersAre DEF Good
<1>3. /\ sw.name \in Name /\ sw.sources \in Seq(Name)
      /\ Head(sw.sources) \in Range(sw.sources) /\ Range(sw.sources) \subseteq Name
      /\ Head(sw.sources) \in Name
  <2>1. IsSwap(sw, profile.sources) /\ Head(sw.sources) \in Range(sw.sources)
        /\ Range(sw.sources) \subseteq DOMAIN profile.sources /\ DOMAIN profile.sources \subseteq Name
    BY <1>1, SwapsAre
  <2>2. sw.name \in Name /\ sw.sources \in Seq(DOMAIN profile.sources)
    BY <2>1 DEF IsSwap
  <2> QED BY <2>1, <2>2
<1>4. "authorization" \in Name /\ "host" \in Name /\ "x-amz-security-token" \in Name
  BY ScenesAssumption
<1>5. /\ host \in Value /\ (host \in Range(c.hdr) \/ host = HostIs(c.authority, 1))
      /\ "host" \in DOMAIN c.hdr => host = c.hdr["host"]
  BY <1>2, ValuesAre DEF Range
<1>6. ~IsCredential(HostIs(c.authority, 1)) /\ HostIs(c.authority, 1).by = "host"
  BY DEF IsCredential, IsSecret, HostIs, Val
<1> HIDE DEF host
<1>7. /\ dressed \in Headers /\ DOMAIN dressed = DOMAIN c.hdr \cup {"host"}
      /\ \A n \in DOMAIN c.hdr : dressed[n] = c.hdr[n]
      /\ dressed["host"] = host
      /\ Range(dressed) \subseteq Range(c.hdr) \cup {host}
  <2>1. /\ DOMAIN dressed = DOMAIN c.hdr \cup {"host"}
        /\ \A n \in DOMAIN dressed : dressed[n] = IF n = "host" THEN host ELSE c.hdr[n]
        /\ dressed = [n \in DOMAIN dressed |-> dressed[n]]
    OBVIOUS
  <2> HIDE DEF dressed
  <2>2. /\ \A n \in DOMAIN c.hdr : dressed[n] = c.hdr[n]
        /\ dressed["host"] = host
    BY <2>1, <1>5
  <2>3. \A n \in DOMAIN dressed : dressed[n] \in Value /\ n \in Name
    BY <2>1, <1>2, <1>4, <1>5
  <2>4. dressed \in Headers
    BY <2>1, <2>3, HeadersAre
  <2>5. Range(dressed) \subseteq Range(c.hdr) \cup {host}
    BY <2>1 DEF Range
  <2> QED BY <2>1, <2>2, <2>4, <2>5
<1> HIDE DEF dressed
<1>8. /\ tokened \in Headers /\ DOMAIN dressed \subseteq DOMAIN tokened
      /\ \A n \in DOMAIN tokened :
            \/ n \in DOMAIN dressed /\ tokened[n] = dressed[n]
            \/ \E s \in Range(sw.sources) : tokened[n] = Static(s)
  <2>1. CASE session = {}
    BY <2>1, <1>7
  <2>2. CASE session # {}
    <3>1. 3 \in DOMAIN sw.sources
      BY <2>2
    <3>2. sw.sources[3] \in Range(sw.sources)
      BY <3>1 DEF Range
    <3>3. Static(sw.sources[3]) \in Value
      BY <3>2, <1>3, ValuesAre
    <3>4. tokened = Insert(dressed, "x-amz-security-token", Static(sw.sources[3]))
      BY <2>2
    <3> HIDE DEF tokened, session, sw
    <3> DEFINE x == "x-amz-security-token"
               t == Static(sw.sources[3])
    <3>5. x \in Name /\ t \in Value /\ tokened = Insert(dressed, x, t)
      BY <3>3, <3>4, <1>4
    <3>6. t = Static(sw.sources[3])
      OBVIOUS
    <3> HIDE DEF x, t
    <3>7. /\ tokened \in Headers /\ DOMAIN tokened = DOMAIN dressed \cup {x}
          /\ tokened[x] = t /\ \A n \in DOMAIN dressed : n # x => tokened[n] = dressed[n]
      BY <3>5, <1>7, InsertIs
    <3> QED BY <3>2, <3>6, <3>7
  <2> QED BY <2>1, <2>2
<1> HIDE DEF tokened
<1>9. /\ signature \in Value /\ signature.by = "signature" /\ signature.of = Head(sw.sources)
      /\ IsCredential(signature) /\ ~IsSecret(signature)
  BY <1>3, ValuesAre DEF Signature, Val, IsCredential, IsSecret
<1>10. \A s : Static(s).by = "secret" /\ Static(s).of = s /\ IsCredential(Static(s))
  BY DEF Static, Val, IsCredential, IsSecret
<1> HIDE DEF signature
<1>11. /\ h \in Headers /\ DOMAIN h = DOMAIN tokened \cup {"authorization"}
       /\ h["authorization"] = signature
       /\ \A n \in DOMAIN tokened : n # "authorization" => h[n] = tokened[n]
  <2> DEFINE x == "authorization"
  <2>1. x \in Name /\ h = Insert(tokened, x, signature)
    BY <1>4
  <2> HIDE DEF x, h
  <2>2. /\ h \in Headers /\ DOMAIN h = DOMAIN tokened \cup {x}
        /\ h[x] = signature /\ \A n \in DOMAIN tokened : n # x => h[n] = tokened[n]
    BY <2>1, <1>8, <1>9, InsertIs
  <2> QED BY <2>2 DEF x
<1> HIDE DEF h
<1>12. /\ d \in RequestContext
       /\ d.hdr = h /\ d.facts = c.facts \cup {<<"injected", sw.name>>} /\ d.sig = {g}
       /\ d.asked = c.asked /\ d.authority = c.authority /\ d.dotted = c.dotted /\ d.path = c.path
       /\ d.content = c.content /\ d.handle = c.handle /\ d.routed = c.routed
       /\ d.query = c.query
  <2>1. d = [c EXCEPT !.hdr = h, !.sig = {g}, !.facts = c.facts \cup {<<"injected", sw.name>>}]
    BY DEF sign_sigv4, h, signature, tokened, dressed, host
  <2>2. <<"injected", sw.name>> \in {"injected", "not_injected", "routed"} \X Name
    BY <1>3
  <2>3. g \in SignedPart
    <3>1. c.path \in Name /\ c.query \in Seq(Value) /\ c.content \in Content
      BY <1>2, ContextIs
    <3> QED BY <3>1, <1>5 DEF SignedPart, Content
  <2> HIDE DEF d, sw, g
  <2> QED BY <2>1, <2>2, <2>3, <1>2, <1>11 DEF RequestContext
<1>13. g.path = c.path /\ g.query = c.query /\ (c.handle # "empty" => g.content = c.content)
  OBVIOUS
<1> HIDE DEF d, g
<1>14. Covered(profile, d)
  BY <1>12, <1>13 DEF Covered
<1>15. \A n \in DOMAIN h :
          \/ n \in DOMAIN c.hdr /\ h[n] = c.hdr[n]
          \/ h[n] = HostIs(c.authority, 1)
          \/ h[n] = signature
          \/ \E s \in Range(sw.sources) : h[n] = Static(s)
  <2>1. ASSUME NEW n \in DOMAIN h, n # "authorization"
        PROVE  \/ n \in DOMAIN c.hdr /\ h[n] = c.hdr[n]
               \/ h[n] = HostIs(c.authority, 1)
               \/ \E s \in Range(sw.sources) : h[n] = Static(s)
    <3>1. n \in DOMAIN tokened /\ h[n] = tokened[n]
      BY <2>1, <1>11
    <3>2. CASE n \in DOMAIN dressed /\ tokened[n] = dressed[n]
      <4>1. CASE n \in DOMAIN c.hdr
        BY <3>1, <3>2, <4>1, <1>7
      <4>2. CASE n \notin DOMAIN c.hdr
        <5>1. n = "host" /\ host = HostIs(c.authority, 1)
          BY <3>2, <4>2, <1>7 DEF host
        <5> QED BY <5>1, <3>1, <3>2, <1>7
      <4> QED BY <4>1, <4>2
    <3> QED BY <3>1, <3>2, <1>8
  <2> QED BY <2>1, <1>11
<1>16. \A w \in Values(d) :
          \/ w \in Values(c)
          \/ w = HostIs(c.authority, 1) \/ w = signature \/ \E s \in Range(sw.sources) : w = Static(s)
  BY <1>12, <1>15 DEF Values, Range
<1>17. \A w \in Values(d) : w \in Values(c) \/ ~IsCredential(w) \/ (w.of \in Range(sw.sources) /\ w.by # "refresh")
  BY <1>3, <1>6, <1>9, <1>10, <1>16
<1>18. \A n \in DOMAIN d.hdr : d.hdr[n].by = "client" => n \in DOMAIN c.hdr /\ c.hdr[n] = d.hdr[n]
  BY <1>6, <1>9, <1>10, <1>12, <1>15
<1>19. \A n \in DOMAIN c.hdr :
          n \in DOMAIN d.hdr /\ (IsCredential(c.hdr[n]) => IsCredential(d.hdr[n]))
  <2>1. ASSUME NEW n \in DOMAIN c.hdr
        PROVE  n \in DOMAIN h /\ (h[n] = c.hdr[n] \/ h[n] = signature \/ \E s \in Range(sw.sources) : h[n] = Static(s))
    <3>1. n \in DOMAIN dressed /\ dressed[n] = c.hdr[n]
      BY <1>7
    <3>2. n \in DOMAIN tokened
      BY <3>1, <1>8
    <3>3. CASE n = "authorization"
      BY <3>3, <1>11
    <3>4. CASE n # "authorization"
      BY <3>1, <3>2, <3>4, <1>8, <1>11
    <3> QED BY <3>3, <3>4
  <2> QED BY <2>1, <1>9, <1>10, <1>12
<1>20. Stands(sw, d)
  <2>1. Place(sw) = "authorization"
    BY DEF Place
  <2> QED BY <2>1, <1>9, <1>11, <1>12 DEF Stands
<1> HIDE DEF sw
<1>21. Good(profile, d) /\ Behind(profile, d, k + 1)
  BY <1>1, <1>12, <1>14, <1>17, <1>18, <1>19, <1>20, InjectKeeps DEF sw
<1>22. \A w \in Values(d) : w \in Values(c) \/ ~IsSecret(w) \/ \E s \in Range(sw.sources) : w = Static(s)
  BY <1>6, <1>9, <1>16 DEF IsCredential
<1> QED BY <1>21, <1>22 DEF d, sw

LEMMA CleanIsGood ==
  ASSUME NEW p, NEW c \in RequestContext, Clean(p, c), ClientsOwn(c)
  PROVE  Good(p, c)
  BY DEF Good, Clean, Owned, Kept, Covered

\* What the agent sends has nothing of the proxy's in it.
LEMMA ArrivesClean ==
  ASSUME NEW p, NEW a, IsArrival(a)
  PROVE  Context(a) \in RequestContext /\ Clean(p, Context(a)) /\ Good(p, Context(a))
<1> DEFINE c == Context(a)
<1>1. /\ a.plain \in BOOLEAN /\ a.get \in BOOLEAN /\ a.dotted \in BOOLEAN
      /\ a.host \in Name /\ a.path \in Name /\ a.content \in Content
      /\ a.query \in Seq(Value)
      /\ \A v \in Range(a.hdr) \cup Range(a.query) : v.by \in {"client", "host"}
  BY DEF IsArrival
<1>2. a.hdr \in Headers
  BY DEF IsArrival, Headers
<1>3. Handle(a) \in {"empty", "streaming", "overlimit", "buffered"}
  BY <1>1 DEF Handle
<1>4. /\ c = [plain |-> a.plain, get |-> a.get, asked |-> a.host, authority |-> a.host,
              dotted |-> a.dotted, path |-> a.path, hdr |-> a.hdr, query |-> a.query,
              content |-> a.content, handle |-> Handle(a), facts |-> {}, routed |-> FALSE, sig |-> {}]
  BY DEF Context
<1> HIDE DEF c
<1>5. c \in RequestContext
  BY <1>1, <1>2, <1>3, <1>4 DEF RequestContext
<1>6. /\ c.hdr = a.hdr /\ c.query = a.query /\ c.facts = {} /\ c.sig = {}
      /\ c.authority = c.asked
  BY <1>4
<1>7. \A v \in Values(c) : ~IsCredential(v)
  BY <1>1, <1>6 DEF Values, IsCredential, IsSecret
<1>8. Clean(p, c)
  BY <1>6, <1>7 DEF Clean, Said
<1>9. ClientsOwn(c)
  BY <1>6 DEF ClientsOwn
<1> QED BY <1>5, <1>8, <1>9, CleanIsGood DEF c

LEMMA FilterKeeps ==
  ASSUME NEW p, NEW c \in RequestContext, Clean(p, c), ClientsOwn(c)
  PROVE  LET d == header_filter_apply(c)
         IN  d \in RequestContext /\ Clean(p, d) /\ ClientsOwn(d)
<1> DEFINE drops == {n \in DOMAIN c.hdr \ request_header_is_managed :
                       (n \in profile.filter.names) # (profile.filter.mode = "allow")}
           h == Strip(c.hdr, drops)
           d == header_filter_apply(c)
<1>1. d = [c EXCEPT !.hdr = h]
  BY DEF header_filter_apply
<1>2. c.hdr \in Headers
  BY ContextIs
<1>0. h = Strip(c.hdr, drops)
  OBVIOUS
<1> HIDE DEF drops, h, d
<1>3. /\ h \in Headers /\ DOMAIN h \subseteq DOMAIN c.hdr /\ Range(h) \subseteq Range(c.hdr)
      /\ \A n \in DOMAIN h : h[n] = c.hdr[n]
  <2>1. /\ Strip(c.hdr, drops) \in Headers /\ DOMAIN Strip(c.hdr, drops) = DOMAIN c.hdr \ drops
        /\ Range(Strip(c.hdr, drops)) \subseteq Range(c.hdr)
        /\ \A n \in DOMAIN c.hdr \ drops : Strip(c.hdr, drops)[n] = c.hdr[n]
    BY <1>2, StripIs, Zenon
  <2> QED BY <1>0, <2>1
<1>4. /\ d \in RequestContext /\ d.hdr = h /\ d.query = c.query /\ d.facts = c.facts /\ d.sig = c.sig
      /\ d.authority = c.authority /\ d.asked = c.asked /\ d.routed = c.routed
  BY <1>1, <1>3 DEF RequestContext
<1>5. Clean(p, d)
  BY <1>3, <1>4 DEF Clean, Said, Values
<1>6. ClientsOwn(d)
  BY <1>3, <1>4 DEF ClientsOwn
<1> QED BY <1>4, <1>5, <1>6 DEF d

LEMMA SetKeeps ==
  ASSUME scene \in Scenes, NEW p, NEW c \in RequestContext, Clean(p, c), ClientsOwn(c)
  PROVE  LET d == SetHeaders(c)
         IN  d \in RequestContext /\ Clean(p, d) /\ ClientsOwn(d)
<1> DEFINE h == [n \in DOMAIN c.hdr \cup profile.set |->
                   IF n \in profile.set THEN SetTo(n) ELSE c.hdr[n]]
           d == SetHeaders(c)
<1>1. d = [c EXCEPT !.hdr = h]
  BY DEF SetHeaders
<1>2. /\ profile.set \subseteq Name /\ DOMAIN c.hdr \subseteq Name
      /\ \A n \in DOMAIN c.hdr : c.hdr[n] \in Value
  BY Profiled, ContextIs, HeadersAre DEF IsProfile
<1>3. \A n \in Name : SetTo(n) \in Value /\ ~IsCredential(SetTo(n)) /\ SetTo(n).by # "client"
  BY ValuesAre DEF SetTo, Val, IsCredential, IsSecret
<1>4. /\ DOMAIN h = DOMAIN c.hdr \cup profile.set /\ h = [n \in DOMAIN h |-> h[n]]
      /\ \A n \in DOMAIN h : \/ h[n] = SetTo(n) /\ n \in Name
                             \/ n \in DOMAIN c.hdr /\ h[n] = c.hdr[n]
  BY <1>2
<1> HIDE DEF h
<1>5. h \in Headers
  BY <1>2, <1>3, <1>4, HeadersAre
<1> HIDE DEF d
<1>6. /\ d \in RequestContext /\ d.hdr = h /\ d.query = c.query /\ d.facts = c.facts /\ d.sig = c.sig
      /\ d.authority = c.authority /\ d.asked = c.asked /\ d.routed = c.routed
  BY <1>1, <1>5 DEF RequestContext
<1>7. \A v \in Values(d) : ~IsCredential(v)
  <2>1. \A n \in DOMAIN h : ~IsCredential(h[n])
    BY <1>3, <1>4 DEF Clean, Values, Range
  <2> QED BY <2>1, <1>6 DEF Clean, Values, Range
<1>8. Clean(p, d)
  BY <1>6, <1>7 DEF Clean, Said
<1>9. ClientsOwn(d)
  BY <1>3, <1>4, <1>6 DEF ClientsOwn
<1> QED BY <1>6, <1>8, <1>9 DEF d

\* The client's own credentials do not follow it to the mapped origin.
LEMMA RouteKeeps ==
  ASSUME scene \in Scenes, NEW p, NEW c \in RequestContext, Clean(p, c), ClientsOwn(c)
  PROVE  LET d == Route(c)
         IN  d \in RequestContext /\ Clean(p, d) /\ ClientsOwn(d)
<1> DEFINE rt == CHOOSE x \in profile.router : TRUE
           h == Strip(c.hdr, ClientCredentials)
           d == Routed(c, rt)
<1>1. CASE ~(Listens(c) /\ c.content = "mapped")
  BY <1>1 DEF Route
<1>2. CASE Listens(c) /\ c.content = "mapped"
  <2>1. Route(c) = d
    BY <1>2 DEF Route
  <2>2. rt.to \in Name
    BY <1>2, Profiled DEF Listens, IsProfile
  <2>3. /\ h \in Headers /\ DOMAIN h = DOMAIN c.hdr \ ClientCredentials
        /\ Range(h) \subseteq Range(c.hdr)
    BY ContextIs, StripIs
  <2> HIDE DEF rt
  <2>4. d = [c EXCEPT !.authority = rt.to, !.dotted = FALSE, !.routed = TRUE, !.content = "translated",
                      !.hdr = h, !.query = << >>, !.facts = c.facts \cup {<<"routed", rt.to>>}]
    BY DEF Routed
  <2> HIDE DEF h, d
  <2>5. <<"routed", rt.to>> \in {"injected", "not_injected", "routed"} \X Name
        /\ "translated" \in Content /\ << >> \in Seq(Value)
    BY <2>2 DEF Content
  <2>6. /\ d \in RequestContext /\ d.hdr = h /\ d.query = << >> /\ d.sig = c.sig
        /\ d.facts = c.facts \cup {<<"routed", rt.to>>} /\ d.routed = TRUE
    BY <2>2, <2>3, <2>4, <2>5 DEF RequestContext
  <2>7. Range(d.query) = {}
    BY <2>6 DEF Range
  <2>8. Clean(p, d)
    BY <2>3, <2>6, <2>7 DEF Clean, Said, Values
  <2>9. ClientsOwn(d)
    BY <2>3, <2>6 DEF ClientsOwn
  <2> QED BY <2>1, <2>6, <2>8, <2>9
<1> QED BY <1>1, <1>2

LEMMA PrepareKeeps ==
  ASSUME scene \in Scenes, NEW c, Good(profile, c), Clean(profile, c)
  PROVE  LET d == SetHeaders(header_filter_apply(c))
         IN  /\ d \in RequestContext /\ Clean(profile, d)
             /\ Good(profile, Route(d)) /\ Clean(profile, Route(d))
<1>1. c \in RequestContext /\ ClientsOwn(c)
  BY DEF Good
<1> DEFINE f == header_filter_apply(c)
           d == SetHeaders(f)
<1>2. f \in RequestContext /\ Clean(profile, f) /\ ClientsOwn(f)
  BY <1>1, FilterKeeps
<1> HIDE DEF f
<1>3. d \in RequestContext /\ Clean(profile, d) /\ ClientsOwn(d)
  BY <1>2, SetKeeps
<1> HIDE DEF d
<1>4. Route(d) \in RequestContext /\ Clean(profile, Route(d)) /\ ClientsOwn(Route(d))
  BY <1>3, RouteKeeps
<1> QED BY <1>3, <1>4, CleanIsGood DEF d, f

\* A clean request has all its swaps before it.
LEMMA CleanIsBehind ==
  ASSUME NEW p, IsProfile(p), NEW c, Clean(p, c)
  PROVE  Behind(p, c, 1)
<1>1. \A i \in DOMAIN p.swaps : i \in Nat /\ i >= 1
  BY SwapsAre
<1> QED BY <1>1 DEF Behind, Clean

LEMMA ExcludeKeeps ==
  ASSUME NEW p, NEW c, Good(p, c)
  PROVE  LET d == [c EXCEPT !.facts = @ \cup {<<"not_injected", c.authority>>}]
         IN  Good(p, d) /\ Values(d) = Values(c) /\ Exempt(p, d) = Exempt(p, c)
<1> DEFINE d == [c EXCEPT !.facts = c.facts \cup {<<"not_injected", c.authority>>}]
<1>1. c \in RequestContext /\ c.authority \in Name
  BY ContextIs DEF Good
<1>2. d = [c EXCEPT !.facts = c.facts \cup {<<"not_injected", c.authority>>}]
  OBVIOUS
<1>3. <<"not_injected", c.authority>> \in {"injected", "not_injected", "routed"} \X Name
  BY <1>1
<1> HIDE DEF d
<1>4. /\ d \in RequestContext /\ d.facts = c.facts \cup {<<"not_injected", c.authority>>}
      /\ d.hdr = c.hdr /\ d.query = c.query /\ d.sig = c.sig /\ d.path = c.path
      /\ d.content = c.content /\ d.handle = c.handle /\ d.dotted = c.dotted
      /\ d.authority = c.authority /\ d.asked = c.asked /\ d.routed = c.routed
  BY <1>1, <1>2, <1>3 DEF RequestContext
<1>5. Values(d) = Values(c) /\ Exempt(p, d) = Exempt(p, c)
  BY <1>4 DEF Values, Exempt
<1>6. \A i \in DOMAIN p.swaps : Said(p, d, i) = Said(p, c, i)
  BY <1>4 DEF Said
<1>7. Owned(p, d)
  BY <1>4, <1>5, <1>6 DEF Good, Owned, Owns
<1>8. Kept(p, d)
  BY <1>4, <1>6 DEF Good, Kept, Stands
<1>9. ClientsOwn(d) /\ Covered(p, d)
  BY <1>4 DEF Good, ClientsOwn, Covered
<1> QED BY <1>2, <1>4, <1>5, <1>7, <1>8, <1>9 DEF Good

\* The finished request.
LEMMA FinishedIs ==
  ASSUME scene \in Scenes, NEW p, NEW c, Good(p, c)
  PROVE  LET d == Finished(c)
         IN  /\ Range(d.hdr) \cup Range(d.query) \subseteq Values(c) \cup {HostIs(c.authority, 0)}
             /\ ~IsCredential(HostIs(c.authority, 0))
             /\ DOMAIN d.hdr = (DOMAIN c.hdr \cup {"host"}) \ HOP_BY_HOP
             /\ \A n \in DOMAIN d.hdr \ Undone : n \in DOMAIN c.hdr /\ d.hdr[n] = c.hdr[n]
             /\ d.hdr.host = HostIs(c.authority, 0)
             /\ d.asked = c.asked /\ d.authority = c.authority /\ d.dotted = c.dotted
             /\ d.path = c.path /\ d.query = c.query /\ d.content = c.content
             /\ d.handle = c.handle /\ d.facts = c.facts /\ d.routed = c.routed /\ d.sig = c.sig
<1> DEFINE v == HostIs(c.authority, 0)
           x == "host"
           i == Insert(c.hdr, x, v)
           h == Strip(i, HOP_BY_HOP)
           d == Finished(c)
<1>1. c \in RequestContext /\ c.hdr \in Headers /\ c.authority \in Name
  BY ContextIs DEF Good
<1>2. x \in Name /\ v \in Value /\ ~IsCredential(v) /\ x \notin HOP_BY_HOP /\ x \in Undone
      /\ HOP_BY_HOP \subseteq Undone /\ \A n : n \notin Undone => n # x
  BY <1>1, ScenesAssumption, ValuesAre DEF HostIs, Val, IsCredential, IsSecret, HOP_BY_HOP, Undone
<1>3. d = [c EXCEPT !.hdr = h]
  BY DEF Finished
<1>x. d.hdr.host = d.hdr[x]
  OBVIOUS
<1>i. i = Insert(c.hdr, x, v)
  OBVIOUS
<1>h. h = Strip(i, HOP_BY_HOP)
  OBVIOUS
<1> HIDE DEF v, x, i, h, d
<1>4. /\ i \in Headers /\ DOMAIN i = DOMAIN c.hdr \cup {x} /\ i[x] = v
      /\ \A n \in DOMAIN c.hdr : n # x => i[n] = c.hdr[n]
      /\ Range(i) \subseteq Range(c.hdr) \cup {v}
  BY <1>i, <1>1, <1>2, InsertIs
<1>5. /\ h \in Headers /\ DOMAIN h = DOMAIN i \ HOP_BY_HOP
      /\ \A n \in DOMAIN h : h[n] = i[n]
      /\ Range(h) \subseteq Range(i)
  <2>1. /\ Strip(i, HOP_BY_HOP) \in Headers /\ DOMAIN Strip(i, HOP_BY_HOP) = DOMAIN i \ HOP_BY_HOP
        /\ Range(Strip(i, HOP_BY_HOP)) \subseteq Range(i)
        /\ \A n \in DOMAIN i \ HOP_BY_HOP : Strip(i, HOP_BY_HOP)[n] = i[n]
    BY <1>4, StripIs, Zenon
  <2> QED BY <1>h, <2>1
<1>6. /\ d.hdr = h /\ d.asked = c.asked /\ d.authority = c.authority /\ d.dotted = c.dotted
      /\ d.path = c.path /\ d.query = c.query /\ d.content = c.content
      /\ d.handle = c.handle /\ d.facts = c.facts /\ d.routed = c.routed /\ d.sig = c.sig
  BY <1>1, <1>3, <1>5 DEF RequestContext
<1>7. Range(d.hdr) \cup Range(d.query) \subseteq Values(c) \cup {v}
  BY <1>4, <1>5, <1>6 DEF Values
<1>8. \A n \in DOMAIN d.hdr \ Undone : n \in DOMAIN c.hdr /\ d.hdr[n] = c.hdr[n]
  BY <1>2, <1>4, <1>5, <1>6
<1>9. DOMAIN d.hdr = (DOMAIN c.hdr \cup {x}) \ HOP_BY_HOP /\ d.hdr[x] = v
  BY <1>2, <1>4, <1>5, <1>6
<1> QED BY <1>2, <1>6, <1>7, <1>8, <1>9, <1>x DEF d, v, x


\* What a swap does with its value, whichever its kind.
LEMMA ApplyKeeps ==
  ASSUME scene \in Scenes, NEW k \in DOMAIN profile.swaps,
         NEW c, Good(profile, c), Behind(profile, c, k), ~Exempt(profile, c),
         c.authority \in profile.swaps[k].hosts,
         NEW v, OfSwap(profile.swaps[k], v), v.enc = FALSE
  PROVE  LET d == Apply(c, profile.swaps[k], v)
         IN  /\ Good(profile, d) /\ Behind(profile, d, k + 1)
             /\ \A w \in Values(d) :
                   \/ w \in Values(c) \/ w = v \/ w.enc \/ ~IsSecret(w)
                   \/ /\ profile.swaps[k].kind = "sigv4"
                      /\ \E s \in Range(profile.swaps[k].sources) : w = Static(s)
<1> DEFINE sw == profile.swaps[k]
           d == Apply(c, sw, v)
           e == [v EXCEPT !.enc = TRUE]
<1>1. sw.kind \in {"basic", "bearer", "header", "query", "sigv4"}
  BY Profiled, SwapsAre DEF IsSwap
<1>2. CASE sw.kind = "basic"
  <2>1. e.enc = TRUE /\ OfSwap(sw, e)
    BY DEF OfSwap, Value
  <2>2. d = try_set_header(c, sw, e)
    BY <1>2 DEF Apply
  <2> HIDE DEF e, d
  <2>3. Good(profile, d) /\ Behind(profile, d, k + 1) /\ Values(d) \subseteq Values(c) \cup {e}
    BY <1>2, <2>1, <2>2, HeaderKeeps
  <2> QED BY <2>1, <2>3 DEF d
<1>3. CASE sw.kind \in {"bearer", "header"}
  <2>1. d = try_set_header(c, sw, v)
    BY <1>3 DEF Apply
  <2> HIDE DEF d
  <2>2. Good(profile, d) /\ Behind(profile, d, k + 1) /\ Values(d) \subseteq Values(c) \cup {v}
    BY <1>3, <2>1, HeaderKeeps
  <2> QED BY <2>2 DEF d
<1>4. CASE sw.kind = "query"
  <2>1. d = append_query(c, sw, v)
    BY <1>4 DEF Apply
  <2> HIDE DEF d
  <2>2. /\ Good(profile, d) /\ Behind(profile, d, k + 1)
        /\ \A w \in Values(d) : w \in Values(c) \/ w.enc \/ w = v
    BY <1>4, <2>1, QueryKeeps
  <2> QED BY <2>2 DEF d
<1>5. CASE sw.kind = "sigv4"
  <2>1. d = sign_sigv4(c, sw)
    BY <1>5 DEF Apply
  <2> HIDE DEF d
  <2>2. /\ Good(profile, d) /\ Behind(profile, d, k + 1)
        /\ \A w \in Values(d) : w \in Values(c) \/ ~IsSecret(w)
                                \/ \E s \in Range(sw.sources) : w = Static(s)
    BY <1>5, <2>1, SignKeeps
  <2> QED BY <1>5, <2>2 DEF d
<1> QED BY <1>1, <1>2, <1>3, <1>4, <1>5
-----------------------------------------------------------------------------
(* What a label remembers. *)
LEMMA MaxOfFew == Max({1}) = 1 /\ Max({2}) = 2 /\ Max({1, 2}) = 2
  BY DEF Max

LEMMA LearnOne ==
  ASSUME NEW a, NEW vs, vs = <<a>>
  PROVE  \A q : FoldLeft(Learn, q, vs) = Learn(q, a)
<1> TAKE q
<1> DEFINE Body(g) == [s \in SUBSET DOMAIN vs |->
                         IF s = {} THEN q ELSE LET x == Max(s) IN Learn(g[s \ {x}], vs[x])]
           Fold == CHOOSE iter : iter = Body(iter)
           Known == [s \in SUBSET {1} |-> IF s = {} THEN q ELSE Learn(q, a)]
<1>1. FoldLeft(Learn, q, vs) = Fold[DOMAIN vs]
  BY DEF FoldLeft, MapThenFoldSet
<1>2. ASSUME NEW g
      PROVE  Body(g) = [s \in SUBSET {1} |-> IF s = {} THEN q ELSE Learn(g[s \ {1}], a)]
  <2>1. \A s \in SUBSET {1} : s # {} => s = {1}
    OBVIOUS
  <2>2. DOMAIN vs = {1} /\ vs[1] = a
    BY vs = <<a>>
  <2> QED BY <2>1, <2>2, MaxOfFew
<1>3. Body(Known) = Known
  <2>1. \A s \in SUBSET {1} : Known[s \ {1}] = q
    OBVIOUS
  <2>2. Body(Known) = [s \in SUBSET {1} |-> IF s = {} THEN q ELSE Learn(Known[s \ {1}], a)]
    BY <1>2
  <2> HIDE DEF Body
  <2> QED BY <2>1, <2>2
<1>4. Fold = Body(Fold)
  <2> HIDE DEF Body, Known
  <2> QED BY <1>3
<1>5. Fold = [s \in SUBSET {1} |-> IF s = {} THEN q ELSE Learn(Fold[s \ {1}], a)]
  <2> HIDE DEF Body, Fold
  <2> QED BY <1>4, <1>2
<1> HIDE DEF Fold
<1>6. Fold[{}] = q /\ Fold[{1}] = Learn(Fold[{1} \ {1}], a) /\ {1} \ {1} = {}
  BY <1>5
<1>7. DOMAIN vs = {1}
  BY vs = <<a>>
<1> QED BY <1>1, <1>6, <1>7

LEMMA LearnTwo ==
  ASSUME NEW a, NEW b, NEW vs, vs = <<a, b>>
  PROVE  \A q : FoldLeft(Learn, q, vs) = Learn(Learn(q, a), b)
<1> TAKE q
<1> DEFINE Body(g) == [s \in SUBSET DOMAIN vs |->
                         IF s = {} THEN q ELSE LET x == Max(s) IN Learn(g[s \ {x}], vs[x])]
           Fold == CHOOSE iter : iter = Body(iter)
           Known == [s \in SUBSET {1, 2} |->
                       IF s = {} THEN q ELSE IF s = {1} THEN Learn(q, a)
                       ELSE IF s = {2} THEN Learn(q, b) ELSE Learn(Learn(q, a), b)]
<1>1. FoldLeft(Learn, q, vs) = Fold[DOMAIN vs]
  BY DEF FoldLeft, MapThenFoldSet
<1>0. \A s \in SUBSET {1, 2} : s = {} \/ s = {1} \/ s = {2} \/ s = {1, 2}
  OBVIOUS
<1>2. ASSUME NEW g
      PROVE  Body(g) = [s \in SUBSET {1, 2} |->
                          IF s = {} THEN q
                          ELSE IF s = {1} THEN Learn(g[{}], a)
                          ELSE Learn(g[s \ {2}], b)]
  <2>2. DOMAIN vs = {1, 2} /\ vs[1] = a /\ vs[2] = b
    BY vs = <<a, b>>
  <2>3. {1} \ {1} = {} /\ {1} # {} /\ {2} # {} /\ {1, 2} # {} /\ {1} # {2}
        /\ {1} # {1, 2}
    OBVIOUS
  <2>4. ASSUME NEW s \in SUBSET {1, 2}
        PROVE  (IF s = {} THEN q ELSE LET x == Max(s) IN Learn(g[s \ {x}], vs[x]))
                 = IF s = {} THEN q
                   ELSE IF s = {1} THEN Learn(g[{}], a)
                   ELSE Learn(g[s \ {2}], b)
    <3>1. CASE s = {}
      BY <3>1
    <3>2. CASE s = {1}
      BY <3>2, <2>2, <2>3, MaxOfFew
    <3>3. CASE s = {2}
      BY <3>3, <2>2, <2>3, MaxOfFew
    <3>4. CASE s = {1, 2}
      BY <3>4, <2>2, <2>3, MaxOfFew
    <3> QED BY <1>0, <3>1, <3>2, <3>3, <3>4
  <2> QED BY <2>2, <2>4
<1>3. Body(Known) = Known
  <2>1. {2} \ {2} = {} /\ {1, 2} \ {2} = {1} /\ {1} # {} /\ {2} # {} /\ {1} # {2}
        /\ {1, 2} # {} /\ {1, 2} # {1} /\ {1, 2} # {2}
    OBVIOUS
  <2>2. Body(Known) = [s \in SUBSET {1, 2} |->
                          IF s = {} THEN q
                          ELSE IF s = {1} THEN Learn(Known[{}], a)
                          ELSE Learn(Known[s \ {2}], b)]
    BY <1>2
  <2>0. \A s \in SUBSET {1, 2} :
          Known[s] = IF s = {} THEN q ELSE IF s = {1} THEN Learn(q, a)
                     ELSE IF s = {2} THEN Learn(q, b) ELSE Learn(Learn(q, a), b)
    OBVIOUS
  <2>9. {} \in SUBSET {1, 2} /\ {1} \in SUBSET {1, 2} /\ {2} \in SUBSET {1, 2}
        /\ {1, 2} \in SUBSET {1, 2}
    OBVIOUS
  <2>3. Known[{}] = q /\ Known[{1}] = Learn(q, a) /\ Known[{2}] = Learn(q, b)
        /\ Known[{1, 2}] = Learn(Learn(q, a), b)
    <3> HIDE DEF Known
    <3> QED BY <2>1, <2>0, <2>9
  <2>4. Known = [s \in SUBSET {1, 2} |-> Known[s]]
    OBVIOUS
  <2> HIDE DEF Body, Known
  <2>5. \A s \in SUBSET {1, 2} :
          Known[s] = IF s = {} THEN q
                     ELSE IF s = {1} THEN Learn(Known[{}], a)
                     ELSE Learn(Known[s \ {2}], b)
    <3> TAKE s \in SUBSET {1, 2}
    <3>1. CASE s = {}
      BY <3>1, <2>3
    <3>2. CASE s = {1}
      BY <3>2, <2>1, <2>3
    <3>3. CASE s = {2}
      BY <3>3, <2>1, <2>3
    <3>4. CASE s = {1, 2}
      BY <3>4, <2>1, <2>3
    <3> QED BY <1>0, <3>1, <3>2, <3>3, <3>4
  <2> QED BY <2>2, <2>4, <2>5
<1>4. Fold = Body(Fold)
  <2> HIDE DEF Body, Known
  <2> QED BY <1>3
<1>5. Fold = [s \in SUBSET {1, 2} |->
                 IF s = {} THEN q
                 ELSE IF s = {1} THEN Learn(Fold[{}], a)
                 ELSE Learn(Fold[s \ {2}], b)]
  <2> HIDE DEF Body, Fold
  <2> QED BY <1>4, <1>2
<1> HIDE DEF Fold
<1>6. {1, 2} \ {2} = {1} /\ {1} # {} /\ {1, 2} # {} /\ {1, 2} # {1}
  OBVIOUS
<1>7. Fold[{}] = q /\ Fold[{1}] = Learn(Fold[{}], a) /\ Fold[{1, 2}] = Learn(Fold[{1}], b)
  BY <1>5, <1>6
<1>8. DOMAIN vs = {1, 2}
  BY vs = <<a, b>>
<1> QED BY <1>1, <1>7, <1>8

LEMMA NoteOne ==
  ASSUME NEW a, NEW vs, vs = <<a>>
  PROVE  \A q : FoldLeft(Note, q, vs) = Note(q, a)
<1> TAKE q
<1> DEFINE Body(g) == [s \in SUBSET DOMAIN vs |->
                         IF s = {} THEN q ELSE LET x == Max(s) IN Note(g[s \ {x}], vs[x])]
           Fold == CHOOSE iter : iter = Body(iter)
           Known == [s \in SUBSET {1} |-> IF s = {} THEN q ELSE Note(q, a)]
<1>1. FoldLeft(Note, q, vs) = Fold[DOMAIN vs]
  BY DEF FoldLeft, MapThenFoldSet
<1>2. ASSUME NEW g
      PROVE  Body(g) = [s \in SUBSET {1} |-> IF s = {} THEN q ELSE Note(g[s \ {1}], a)]
  <2>1. \A s \in SUBSET {1} : s # {} => s = {1}
    OBVIOUS
  <2>2. DOMAIN vs = {1} /\ vs[1] = a
    BY vs = <<a>>
  <2> QED BY <2>1, <2>2, MaxOfFew
<1>3. Body(Known) = Known
  <2>1. \A s \in SUBSET {1} : Known[s \ {1}] = q
    OBVIOUS
  <2>2. Body(Known) = [s \in SUBSET {1} |-> IF s = {} THEN q ELSE Note(Known[s \ {1}], a)]
    BY <1>2
  <2> HIDE DEF Body
  <2> QED BY <2>1, <2>2
<1>4. Fold = Body(Fold)
  <2> HIDE DEF Body, Known
  <2> QED BY <1>3
<1>5. Fold = [s \in SUBSET {1} |-> IF s = {} THEN q ELSE Note(Fold[s \ {1}], a)]
  <2> HIDE DEF Body, Fold
  <2> QED BY <1>4, <1>2
<1> HIDE DEF Fold
<1>6. Fold[{}] = q /\ Fold[{1}] = Note(Fold[{1} \ {1}], a) /\ {1} \ {1} = {}
  BY <1>5
<1>7. DOMAIN vs = {1}
  BY vs = <<a>>
<1> QED BY <1>1, <1>6, <1>7

LEMMA NoteTwo ==
  ASSUME NEW a, NEW b, NEW vs, vs = <<a, b>>
  PROVE  \A q : FoldLeft(Note, q, vs) = Note(Note(q, a), b)
<1> TAKE q
<1> DEFINE Body(g) == [s \in SUBSET DOMAIN vs |->
                         IF s = {} THEN q ELSE LET x == Max(s) IN Note(g[s \ {x}], vs[x])]
           Fold == CHOOSE iter : iter = Body(iter)
           Known == [s \in SUBSET {1, 2} |->
                       IF s = {} THEN q ELSE IF s = {1} THEN Note(q, a)
                       ELSE IF s = {2} THEN Note(q, b) ELSE Note(Note(q, a), b)]
<1>1. FoldLeft(Note, q, vs) = Fold[DOMAIN vs]
  BY DEF FoldLeft, MapThenFoldSet
<1>0. \A s \in SUBSET {1, 2} : s = {} \/ s = {1} \/ s = {2} \/ s = {1, 2}
  OBVIOUS
<1>2. ASSUME NEW g
      PROVE  Body(g) = [s \in SUBSET {1, 2} |->
                          IF s = {} THEN q
                          ELSE IF s = {1} THEN Note(g[{}], a)
                          ELSE Note(g[s \ {2}], b)]
  <2>2. DOMAIN vs = {1, 2} /\ vs[1] = a /\ vs[2] = b
    BY vs = <<a, b>>
  <2>3. {1} \ {1} = {} /\ {1} # {} /\ {2} # {} /\ {1, 2} # {} /\ {1} # {2}
        /\ {1} # {1, 2}
    OBVIOUS
  <2>4. ASSUME NEW s \in SUBSET {1, 2}
        PROVE  (IF s = {} THEN q ELSE LET x == Max(s) IN Note(g[s \ {x}], vs[x]))
                 = IF s = {} THEN q
                   ELSE IF s = {1} THEN Note(g[{}], a)
                   ELSE Note(g[s \ {2}], b)
    <3>1. CASE s = {}
      BY <3>1
    <3>2. CASE s = {1}
      BY <3>2, <2>2, <2>3, MaxOfFew
    <3>3. CASE s = {2}
      BY <3>3, <2>2, <2>3, MaxOfFew
    <3>4. CASE s = {1, 2}
      BY <3>4, <2>2, <2>3, MaxOfFew
    <3> QED BY <1>0, <3>1, <3>2, <3>3, <3>4
  <2> QED BY <2>2, <2>4
<1>3. Body(Known) = Known
  <2>1. {2} \ {2} = {} /\ {1, 2} \ {2} = {1} /\ {1} # {} /\ {2} # {} /\ {1} # {2}
        /\ {1, 2} # {} /\ {1, 2} # {1} /\ {1, 2} # {2}
    OBVIOUS
  <2>2. Body(Known) = [s \in SUBSET {1, 2} |->
                          IF s = {} THEN q
                          ELSE IF s = {1} THEN Note(Known[{}], a)
                          ELSE Note(Known[s \ {2}], b)]
    BY <1>2
  <2>0. \A s \in SUBSET {1, 2} :
          Known[s] = IF s = {} THEN q ELSE IF s = {1} THEN Note(q, a)
                     ELSE IF s = {2} THEN Note(q, b) ELSE Note(Note(q, a), b)
    OBVIOUS
  <2>9. {} \in SUBSET {1, 2} /\ {1} \in SUBSET {1, 2} /\ {2} \in SUBSET {1, 2}
        /\ {1, 2} \in SUBSET {1, 2}
    OBVIOUS
  <2>3. Known[{}] = q /\ Known[{1}] = Note(q, a) /\ Known[{2}] = Note(q, b)
        /\ Known[{1, 2}] = Note(Note(q, a), b)
    <3> HIDE DEF Known
    <3> QED BY <2>1, <2>0, <2>9
  <2>4. Known = [s \in SUBSET {1, 2} |-> Known[s]]
    OBVIOUS
  <2> HIDE DEF Body, Known
  <2>5. \A s \in SUBSET {1, 2} :
          Known[s] = IF s = {} THEN q
                     ELSE IF s = {1} THEN Note(Known[{}], a)
                     ELSE Note(Known[s \ {2}], b)
    <3> TAKE s \in SUBSET {1, 2}
    <3>1. CASE s = {}
      BY <3>1, <2>3
    <3>2. CASE s = {1}
      BY <3>2, <2>1, <2>3
    <3>3. CASE s = {2}
      BY <3>3, <2>1, <2>3
    <3>4. CASE s = {1, 2}
      BY <3>4, <2>1, <2>3
    <3> QED BY <1>0, <3>1, <3>2, <3>3, <3>4
  <2> QED BY <2>2, <2>4, <2>5
<1>4. Fold = Body(Fold)
  <2> HIDE DEF Body, Known
  <2> QED BY <1>3
<1>5. Fold = [s \in SUBSET {1, 2} |->
                 IF s = {} THEN q
                 ELSE IF s = {1} THEN Note(Fold[{}], a)
                 ELSE Note(Fold[s \ {2}], b)]
  <2> HIDE DEF Body, Fold
  <2> QED BY <1>4, <1>2
<1> HIDE DEF Fold
<1>6. {1, 2} \ {2} = {1} /\ {1} # {} /\ {1, 2} # {} /\ {1, 2} # {1}
  OBVIOUS
<1>7. Fold[{}] = q /\ Fold[{1}] = Note(Fold[{}], a) /\ Fold[{1, 2}] = Note(Fold[{1}], b)
  BY <1>5, <1>6
<1>8. DOMAIN vs = {1, 2}
  BY vs = <<a, b>>
<1> QED BY <1>1, <1>7, <1>8

\* Most recent last, the oldest dropped.
LEMMA RememberIs ==
  ASSUME Ring \in Nat, Ring >= 2, NEW q \in Seq(Value), Len(q) <= Ring, NEW v \in Value
  PROVE  LET k == Remember(q, v)
             o == IF Len(q) = Ring THEN 1 ELSE 0
         IN  /\ k \in Seq(Value) /\ Len(k) = Len(q) + 1 - o /\ Len(k) <= Ring
             /\ k[Len(k)] = v
             /\ \A a \in 1..(Len(k) - 1) : k[a] = q[a + o] /\ a + o \in DOMAIN q
<1> DEFINE all == Append(q, v)
           o == IF Len(q) = Ring THEN 1 ELSE 0
           k == Remember(q, v)
<1>1. /\ all \in Seq(Value) /\ Len(all) = Len(q) + 1 /\ Len(q) \in Nat
      /\ \A i \in 1..Len(q) : all[i] = q[i]
      /\ all[Len(q) + 1] = v
  OBVIOUS
<1>2. k = SubSeq(all, 1 + o, Len(all))
  <2>1. (IF Len(all) > Ring THEN Len(all) - Ring ELSE 0) = o
    BY <1>1
  <2> QED BY <2>1 DEF Remember
<1>3. o \in {0, 1} /\ (o = 1 <=> Len(q) = Ring)
  OBVIOUS
<1> HIDE DEF all, o, k
<1>4. /\ k \in Seq(Value) /\ Len(k) = Len(all) - o
      /\ \A a \in 1..(Len(all) - o) : k[a] = all[a + o]
  <2>1. 1 + o \in 1..(Len(all) + 1) /\ Len(all) \in 0..Len(all)
    BY <1>1, <1>3
  <2>2. /\ k \in Seq(Value)
        /\ Len(k) = IF 1 + o <= Len(all) THEN Len(all) - (1 + o) + 1 ELSE 0
    BY <1>1, <1>2, <1>3, <2>1
  <2>3. \A a \in 1..Len(k) : k[a] = all[(1 + o) + a - 1]
    BY <1>1, <1>2, <1>3, <2>1
  <2> QED BY <1>1, <1>3, <2>2, <2>3
<1>5. Len(k) = Len(q) + 1 - o /\ Len(k) <= Ring /\ Len(k) \in Nat
  BY <1>1, <1>3, <1>4
<1>6. k[Len(k)] = v
  <2>1. Len(k) \in 1..(Len(all) - o) /\ Len(k) + o = Len(q) + 1
    BY <1>1, <1>3, <1>4, <1>5
  <2>2. k[Len(k)] = all[Len(k) + o]
    BY <2>1, <1>4
  <2> QED BY <2>1, <2>2, <1>1
<1>7. \A a \in 1..(Len(k) - 1) : k[a] = q[a + o] /\ a + o \in DOMAIN q
  <2>1. ASSUME NEW a \in 1..(Len(k) - 1)
        PROVE  k[a] = q[a + o] /\ a + o \in DOMAIN q
    <3>1. a \in 1..(Len(all) - o) /\ a + o \in 1..Len(q)
      BY <1>1, <1>3, <1>5
    <3>2. k[a] = all[a + o]
      BY <3>1, <1>4
    <3> QED BY <3>1, <3>2, <1>1
  <2> QED BY <2>1
<1> QED BY <1>4, <1>5, <1>6, <1>7 DEF o, k

LEMMA LearnIs ==
  ASSUME Ring \in Nat, Ring >= 2, NEW q \in Seq(Value), Len(q) <= Ring, NEW v \in Value
  PROVE  /\ Learn(q, v) \in Seq(Value) /\ Len(Learn(q, v)) <= Ring
         /\ v.of \in profile.short \/ v \in Range(q) => Learn(q, v) = q
         /\ v.of \notin profile.short /\ v \notin Range(q) => Learn(q, v) = Remember(q, v)
  BY RememberIs DEF Learn

LEMMA NoteIs ==
  ASSUME NEW q \in Seq(Value), NEW v \in Value
  PROVE  /\ Note(q, v) \in Seq(Value)
         /\ v \in Range(q) => Note(q, v) = q
         /\ v \notin Range(q) => Note(q, v) = Append(q, v)
  BY DEF Note

LEMMA LabelsAre ==
  ASSUME NEW s \in Minted
  PROVE  /\ s \in DOMAIN profile.sources /\ Label(s, "own") \in Labels
         /\ Label(s, "refresh_token") \in Labels /\ Label(s, "id_token") \in Labels
<1>1. s \in DOMAIN profile.sources
  BY DEF Minted
<1>2. Label(s, "own") \in Labels
  BY <1>1 DEF Labels, Label
<1>3. Label(s, "refresh_token") \in Labels /\ Label(s, "id_token") \in Labels
  BY DEF Labels, Label
<1> QED BY <1>1, <1>2, <1>3

LEMMA LabelIs ==
  ASSUME NEW l \in Labels
  PROVE  /\ l[1] \in DOMAIN profile.sources
         /\ \/ l = Label(l[1], "own")
            \/ l[1] \in Minted /\ (l = Label(l[1], "refresh_token") \/ l = Label(l[1], "id_token"))
<1>1. CASE l \in (DOMAIN profile.sources) \X {"own"}
  BY <1>1 DEF Label
<1>2. CASE l \in Minted \X {"refresh_token", "id_token"}
  <2>1. l[1] \in Minted /\ (l = <<l[1], "refresh_token">> \/ l = <<l[1], "id_token">>)
    BY <1>2
  <2> QED BY <2>1, LabelsAre DEF Label
<1> QED BY <1>1, <1>2 DEF Labels

LEMMA LabelsDiffer ==
  \A s, t, p, q : Label(s, p) = Label(t, q) <=> s = t /\ p = q
  BY DEF Label

\* One label is taught one value, and no other label anything.
LEMMA TeachOne ==
  ASSUME NEW s, NEW purpose, Label(s, purpose) \in Labels,
         DOMAIN ring = Labels, DOMAIN taught = Labels,
         NEW v, NEW vs, vs = <<v>>, Teach(s, purpose, vs)
  PROVE  /\ DOMAIN ring' = Labels /\ DOMAIN taught' = Labels
         /\ ring'[Label(s, purpose)] = Learn(ring[Label(s, purpose)], v)
         /\ taught'[Label(s, purpose)] = Note(taught[Label(s, purpose)], v)
         /\ \A l \in Labels : l # Label(s, purpose) => ring'[l] = ring[l] /\ taught'[l] = taught[l]
<1> DEFINE l == Label(s, purpose)
<1>1. /\ ring' = [ring EXCEPT ![l] = FoldLeft(Learn, @, vs)]
      /\ taught' = [taught EXCEPT ![l] = FoldLeft(Note, @, vs)]
  BY DEF Teach
<1>2. FoldLeft(Learn, ring[l], vs) = Learn(ring[l], v)
  BY LearnOne
<1>3. FoldLeft(Note, taught[l], vs) = Note(taught[l], v)
  BY NoteOne
<1> HIDE DEF l
<1>4. /\ ring' = [ring EXCEPT ![l] = Learn(ring[l], v)]
      /\ taught' = [taught EXCEPT ![l] = Note(taught[l], v)]
  BY <1>1, <1>2, <1>3
<1>5. l \in Labels
  BY DEF l
<1>6. /\ DOMAIN ring' = Labels /\ DOMAIN taught' = Labels
      /\ ring'[l] = Learn(ring[l], v) /\ taught'[l] = Note(taught[l], v)
      /\ \A m \in Labels : m # l => ring'[m] = ring[m] /\ taught'[m] = taught[m]
  BY <1>4, <1>5
<1> QED BY <1>6 DEF l

LEMMA TeachTwo ==
  ASSUME NEW s, NEW purpose, Label(s, purpose) \in Labels,
         DOMAIN ring = Labels, DOMAIN taught = Labels,
         NEW v, NEW w, NEW vs, vs = <<v, w>>, Teach(s, purpose, vs)
  PROVE  /\ DOMAIN ring' = Labels /\ DOMAIN taught' = Labels
         /\ ring'[Label(s, purpose)] = Learn(Learn(ring[Label(s, purpose)], v), w)
         /\ taught'[Label(s, purpose)] = Note(Note(taught[Label(s, purpose)], v), w)
         /\ \A l \in Labels : l # Label(s, purpose) => ring'[l] = ring[l] /\ taught'[l] = taught[l]
<1> DEFINE l == Label(s, purpose)
<1>1. /\ ring' = [ring EXCEPT ![l] = FoldLeft(Learn, @, vs)]
      /\ taught' = [taught EXCEPT ![l] = FoldLeft(Note, @, vs)]
  BY DEF Teach
<1>2. FoldLeft(Learn, ring[l], vs) = Learn(Learn(ring[l], v), w)
  BY LearnTwo
<1>3. FoldLeft(Note, taught[l], vs) = Note(Note(taught[l], v), w)
  BY NoteTwo
<1> HIDE DEF l
<1>4. /\ ring' = [ring EXCEPT ![l] = Learn(Learn(ring[l], v), w)]
      /\ taught' = [taught EXCEPT ![l] = Note(Note(taught[l], v), w)]
  BY <1>1, <1>2, <1>3
<1>5. l \in Labels
  BY DEF l
<1>6. /\ DOMAIN ring' = Labels /\ DOMAIN taught' = Labels
      /\ ring'[l] = Learn(Learn(ring[l], v), w) /\ taught'[l] = Note(Note(taught[l], v), w)
      /\ \A m \in Labels : m # l => ring'[m] = ring[m] /\ taught'[m] = taught[m]
  BY <1>4, <1>5
<1> QED BY <1>6 DEF l

LEMMA LearnedIs ==
  ASSUME NEW s, NEW n, NEW k
  PROVE  /\ Learned(s, n, << >>) = <<Access(s, n)>>
         /\ Learned(s, n, <<Refresh(s, k)>>) = <<Access(s, n), Refresh(s, k)>>
<1>1. ASSUME NEW a, NEW b
      PROVE  <<a>> \o << >> = <<a>> /\ <<a>> \o <<b>> = <<a, b>>
  <2>1. <<a>> \in Seq({a, b}) /\ <<b>> \in Seq({a, b}) /\ << >> \in Seq({a, b}) /\ <<a, b>> \in Seq({a, b})
    OBVIOUS
  <2>2. <<a>> \o << >> = <<a>>
    BY <2>1
  <2>3. /\ Len(<<a>> \o <<b>>) = 2 /\ (<<a>> \o <<b>>)[1] = a /\ (<<a>> \o <<b>>)[2] = b
        /\ <<a>> \o <<b>> \in Seq({a, b})
    BY <2>1
  <2>4. Len(<<a, b>>) = 2 /\ <<a, b>>[1] = a /\ <<a, b>>[2] = b
    OBVIOUS
  <2>5. <<a>> \o <<b>> = <<a, b>>
    <3> DEFINE x == <<a>> \o <<b>>
               y == <<a, b>>
    <3>1. Len(x) = Len(y) /\ \A i \in 1..Len(x) : x[i] = y[i]
      BY <2>3, <2>4
    <3>2. x \in Seq({a, b}) /\ y \in Seq({a, b})
      BY <2>1, <2>3
    <3> HIDE DEF x, y
    <3>3. x = y
      BY <3>1, <3>2, SeqEqual
    <3> QED BY <3>3 DEF x, y
  <2> QED BY <2>2, <2>5
<1> QED BY <1>1 DEF Learned
-----------------------------------------------------------------------------
(* Every step keeps the part of the invariant that is about requests. *)

\* A step of one request leaves the others alone.
OnlyOf(r) ==
    /\ scene' = scene
    /\ pc' \in [Reqs -> PC] /\ at' \in [Reqs -> Nat \ {0}] /\ at'[r] <= Len(profile.swaps) + 1
    /\ DOMAIN cx' = Reqs /\ DOMAIN sent' = Reqs /\ DOMAIN record' = Reqs
    /\ \A q \in Reqs \ {r} :
          /\ pc'[q] = pc[q] /\ cx'[q] = cx[q] /\ at'[q] = at[q]
          /\ sent'[q] = sent[q] /\ record'[q] = record[q]

\* The request after the step.
RequestAfter(r) == Request(profile, pc'[r], cx'[r], at'[r], sent'[r], record'[r])

Holds(r) == \E s \in Minted : lock[s] = {r}

LEMMA SameDue ==
  ASSUME NEW q, scene' = scene, pc'[q] = pc[q], cx'[q] = cx[q], at'[q] = at[q]
  PROVE  Due(q, "minted")' = Due(q, "minted") /\ Swap(q)' = Swap(q)
  BY DEF Due, Injecting, Matches, Excluded, Kind, Swap, profile

LEMMA SameScene ==
  ASSUME scene' = scene
  PROVE  profile' = profile /\ Minted' = Minted /\ Labels' = Labels
  BY DEF profile, Minted, Labels, Label

LEMMA RequestsStay ==
  ASSUME Requests, NEW r \in Reqs, OnlyOf(r), RequestAfter(r)
  PROVE  Requests'
<1>1. profile' = profile
  BY SameScene DEF OnlyOf
<1>2. ASSUME NEW q \in Reqs
      PROVE  Request(profile', pc'[q], cx'[q], at'[q], sent'[q], record'[q])
  <2>1. CASE q = r
    BY <1>1, <2>1 DEF RequestAfter
  <2>2. CASE q # r
    BY <1>1, <2>2 DEF OnlyOf, Requests
  <2> QED BY <2>1, <2>2
<1> QED BY <1>2 DEF Requests

LEMMA MintsStay ==
  ASSUME Mints, NEW r \in Reqs, OnlyOf(r),
         \A s \in Minted, q \in Reqs : lock'[s] = {q} => q # r /\ lock[s] = {q}
  PROVE  Mints'
<1>1. Minted' = Minted
  BY SameScene DEF OnlyOf
<1>2. ASSUME NEW s \in Minted, NEW q \in Reqs, lock'[s] = {q}
      PROVE  (pc[q] = "swap" /\ Due(q, "minted") /\ s = Head(Swap(q).sources))'
  <2>1. q # r /\ lock[s] = {q}
    BY <1>2
  <2>2. pc[q] = "swap" /\ Due(q, "minted") /\ s = Head(Swap(q).sources)
    BY <2>1 DEF Mints
  <2>3. scene' = scene /\ pc'[q] = pc[q] /\ cx'[q] = cx[q] /\ at'[q] = at[q]
    BY <2>1 DEF OnlyOf
  <2> QED BY <2>2, <2>3, SameDue
<1> QED BY <1>1, <1>2 DEF Mints

LEMMA TypedStays ==
  ASSUME Typed, NEW r \in Reqs, OnlyOf(r), UNCHANGED secrets
  PROVE  Typed'
<1>1. profile' = profile /\ Minted' = Minted /\ Labels' = Labels
  BY SameScene DEF OnlyOf
<1>2. scene' \in Scenes /\ \A q \in Reqs : at'[q] <= Len(profile.swaps) + 1
  <2>1. ASSUME NEW q \in Reqs PROVE at'[q] <= Len(profile.swaps) + 1
    <3>1. CASE q = r
      BY <3>1 DEF OnlyOf
    <3>2. CASE q # r
      BY <3>2 DEF OnlyOf, Typed
    <3> QED BY <3>1, <3>2
  <2> QED BY <2>1 DEF OnlyOf, Typed
<1>3. token' = token /\ lock' = lock /\ ring' = ring /\ taught' = taught
  BY DEF secrets
<1> QED BY <1>1, <1>2, <1>3 DEF Typed, OnlyOf

\* The usual step: of one request that mints nothing.
LEMMA TurnKeeps ==
  ASSUME Base, NEW r \in Reqs, OnlyOf(r), RequestAfter(r), UNCHANGED secrets, ~Holds(r)
  PROVE  Base'
<1>1. Typed'
  BY TypedStays DEF Base
<1>2. Requests'
  BY RequestsStay DEF Base
<1>3. Mints'
  <2>1. \A s \in Minted, q \in Reqs : lock'[s] = {q} => q # r /\ lock[s] = {q}
    BY DEF Holds, secrets
  <2> QED BY <2>1, MintsStay DEF Base
<1> QED BY <1>1, <1>2, <1>3 DEF Base

\* Only a request that is at a swap it needs a token for holds a lock.
LEMMA HolderIs ==
  ASSUME Base, NEW r \in Reqs, Holds(r)
  PROVE  pc[r] = "swap" /\ Due(r, "minted") /\ lock[Head(Swap(r).sources)] = {r}
  BY DEF Base, Mints, Holds

\* What is known of a request at a swap that is for its host.
LEMMA AtSwap ==
  ASSUME Base, NEW r \in Reqs, Injecting(r)
  PROVE  /\ scene \in Scenes /\ IsProfile(profile)
         /\ at[r] \in DOMAIN profile.swaps /\ at[r] + 1 <= Len(profile.swaps) + 1
         /\ at[r] + 1 \in Nat \ {0} /\ at[r] + 1 # 1
         /\ Swap(r) = profile.swaps[at[r]]
         /\ Good(profile, cx[r]) /\ Behind(profile, cx[r], at[r]) /\ ~Exempt(profile, cx[r])
         /\ sent[r] = {} /\ record[r] = NoRecord
<1>1. /\ scene \in Scenes /\ at[r] \in Nat \ {0} /\ pc[r] = "swap" /\ at[r] <= Len(profile.swaps)
      /\ (at[r] > 1 \/ ~Excluded(cx[r]))
  BY DEF Base, Typed, Injecting
<1>2. Request(profile, pc[r], cx[r], at[r], sent[r], record[r])
  BY DEF Base, Requests
<1>3. /\ Good(profile, cx[r]) /\ Behind(profile, cx[r], at[r])
      /\ sent[r] = {} /\ record[r] = NoRecord
  BY <1>1, <1>2 DEF Request
<1>4. ~Exempt(profile, cx[r])
  BY <1>1, <1>3, ExcludedIs DEF Behind
<1>5. IsProfile(profile) /\ Len(profile.swaps) \in Nat /\ DOMAIN profile.swaps = 1..Len(profile.swaps)
  BY <1>1, Profiled, SwapsAre
<1> QED BY <1>1, <1>3, <1>4, <1>5 DEF Swap

\* A refusal is good whatever the request looked like.
LEMMA RefusedIs ==
  ASSUME Base, NEW r \in Reqs, pc[r] \in {"prepare", "swap"}, NEW m, Refuse(r, m)
  PROVE  OnlyOf(r) /\ RequestAfter(r)
<1>1. Request(profile, pc[r], cx[r], at[r], sent[r], record[r])
  BY DEF Base, Requests
<1>2. /\ OnlyOf(r) /\ pc'[r] = "tracing" /\ cx'[r] = cx[r] /\ at'[r] = at[r] /\ sent'[r] = sent[r]
      /\ record'[r] = Record(cx[r], "deny", m, {})
  BY DEF Refuse, OnlyOf, Base, Typed, PC
<1>3. RequestAfter(r)
  BY <1>1, <1>2 DEF Request, RequestAfter
<1> QED BY <1>2, <1>3

LEMMA ArriveKeeps ==
  ASSUME Base, NEW r \in Reqs, Arrive(r)
  PROVE  Base' /\ Clean(profile, cx'[r])
<1>1. Request(profile, pc[r], cx[r], at[r], sent[r], record[r])
  BY DEF Base, Requests
<1>2. PICK a \in scene.arrivals[r] : cx' = [cx EXCEPT ![r] = Context(a)]
  BY DEF Arrive
<1>3. /\ pc[r] = "new" /\ UNCHANGED secrets /\ OnlyOf(r)
      /\ pc'[r] = "prepare" /\ cx'[r] = Context(a) /\ at'[r] = at[r]
      /\ sent'[r] = sent[r] /\ record'[r] = record[r]
  BY <1>2 DEF Arrive, OnlyOf, Base, Typed, PC
<1>4. Clean(profile, Context(a)) /\ Good(profile, Context(a))
  BY ScenesAssumption, ArrivesClean DEF Base, Typed
<1>5. RequestAfter(r)
  BY <1>1, <1>3, <1>4 DEF Request, RequestAfter
<1>6. ~Holds(r)
  BY <1>3, HolderIs
<1> QED BY <1>3, <1>4, <1>5, <1>6, TurnKeeps

LEMMA PrepareKeepsBase ==
  ASSUME Base, NEW r \in Reqs, Prepare(r)
  PROVE  Base'
<1> DEFINE c == SetHeaders(header_filter_apply(cx[r]))
<1>1. Request(profile, pc[r], cx[r], at[r], sent[r], record[r])
  BY DEF Base, Requests
<1>2. pc[r] = "prepare" /\ UNCHANGED secrets
  BY DEF Prepare
<1>3. ~Holds(r)
  BY <1>2, HolderIs
<1>4. CASE Refuse(r, {})
  BY <1>2, <1>3, <1>4, RefusedIs, TurnKeeps
<1>5. CASE /\ cx' = [cx EXCEPT ![r] = Route(c)] /\ pc' = [pc EXCEPT ![r] = "swap"]
           /\ UNCHANGED <<scene, at, sent, record, written>>
  <2>1. Good(profile, cx[r]) /\ Clean(profile, cx[r]) /\ at[r] = 1
    BY <1>1, <1>2 DEF Request
  <2>2. Good(profile, Route(c)) /\ Clean(profile, Route(c))
    BY <2>1, PrepareKeeps DEF Base, Typed
  <2> HIDE DEF c
  <2>3. Behind(profile, Route(c), 1)
    BY <2>2, Profiled, CleanIsBehind DEF Base, Typed
  <2>4. /\ OnlyOf(r) /\ pc'[r] = "swap" /\ cx'[r] = Route(c) /\ at'[r] = at[r]
        /\ sent'[r] = sent[r] /\ record'[r] = record[r]
    BY <1>5 DEF OnlyOf, Base, Typed, PC
  <2>5. RequestAfter(r)
    BY <1>1, <1>2, <2>1, <2>2, <2>3, <2>4 DEF Request, RequestAfter
  <2> QED BY <1>2, <1>3, <2>4, <2>5, TurnKeeps
<1> QED BY <1>4, <1>5 DEF Prepare

LEMMA ExcludeKeepsBase ==
  ASSUME Base, NEW r \in Reqs, Exclude(r)
  PROVE  Base' /\ Values(cx'[r]) = Values(cx[r])
<1> DEFINE c == cx[r]
           d == [c EXCEPT !.facts = @ \cup {<<"not_injected", c.authority>>}]
<1>1. Request(profile, pc[r], cx[r], at[r], sent[r], record[r])
  BY DEF Base, Requests
<1>2. pc[r] = "swap" /\ at[r] = 1 /\ Exempt(profile, c) /\ UNCHANGED secrets
  BY ExcludedIs DEF Exclude
<1>3. cx' = [cx EXCEPT ![r] = d]
  BY DEF Exclude
<1>4. Good(profile, c)
  BY <1>1, <1>2 DEF Request
<1>5. Good(profile, d) /\ Values(d) = Values(c) /\ Exempt(profile, d)
  BY <1>2, <1>4, ExcludeKeeps
<1> HIDE DEF d
<1>6. /\ OnlyOf(r) /\ pc'[r] = "send" /\ cx'[r] = d /\ at'[r] = at[r]
      /\ sent'[r] = sent[r] /\ record'[r] = record[r]
  BY <1>3 DEF Exclude, OnlyOf, Base, Typed, PC
<1>7. RequestAfter(r)
  BY <1>1, <1>2, <1>5, <1>6 DEF Request, RequestAfter, Ready
<1>8. ~Holds(r)
  BY <1>2, HolderIs, ExcludedIs DEF Due, Injecting
<1> QED BY <1>2, <1>5, <1>6, <1>7, <1>8, TurnKeeps

LEMMA SkipKeepsBase ==
  ASSUME Base, NEW r \in Reqs, SwapSkips(r)
  PROVE  Base'
<1>1. Injecting(r) /\ ~Matches(Swap(r), cx[r]) /\ pc[r] = "swap" /\ UNCHANGED secrets
  BY DEF SwapSkips, Injecting
<1>2. Request(profile, pc[r], cx[r], at[r], sent[r], record[r])
  BY DEF Base, Requests
<1>3. /\ OnlyOf(r) /\ pc'[r] = "swap" /\ cx'[r] = cx[r] /\ at'[r] = at[r] + 1
      /\ sent'[r] = sent[r] /\ record'[r] = record[r]
  BY <1>1, AtSwap DEF SwapSkips, OnlyOf, Base, Typed
<1>4. Behind(profile, cx[r], at[r] + 1)
  BY <1>1, AtSwap, PassKeeps DEF Matches
<1>5. RequestAfter(r)
  BY <1>1, <1>2, <1>3, <1>4 DEF Request, RequestAfter
<1>6. ~Holds(r)
  BY <1>1, HolderIs DEF Due
<1> QED BY <1>1, <1>3, <1>5, <1>6, TurnKeeps

\* What a swap with its value does to the invariant and to the request.
LEMMA AppliedIs ==
  ASSUME Base, NEW r \in Reqs, NEW kind, Due(r, kind), NEW v, OfSwap(Swap(r), v), v.enc = FALSE,
         Applied(r, v)
  PROVE  /\ OnlyOf(r) /\ RequestAfter(r)
         /\ \A w \in Values(cx'[r]) :
               \/ w \in Values(cx[r]) \/ w = v \/ w.enc \/ ~IsSecret(w)
               \/ /\ Swap(r).kind = "sigv4"
                  /\ \E s \in Range(Swap(r).sources) : w = Static(s)
<1>1. Injecting(r) /\ cx[r].authority \in Swap(r).hosts /\ pc[r] = "swap"
  BY DEF Due, Matches, Injecting
<1>2. Request(profile, pc[r], cx[r], at[r], sent[r], record[r])
  BY DEF Base, Requests
<1> DEFINE d == Apply(cx[r], Swap(r), v)
<1>3. /\ scene \in Scenes /\ at[r] \in DOMAIN profile.swaps /\ Swap(r) = profile.swaps[at[r]]
      /\ Good(profile, cx[r]) /\ Behind(profile, cx[r], at[r]) /\ ~Exempt(profile, cx[r])
  BY <1>1, AtSwap
<1>4. /\ Good(profile, d) /\ Behind(profile, d, at[r] + 1)
      /\ \A w \in Values(d) :
            \/ w \in Values(cx[r]) \/ w = v \/ w.enc \/ ~IsSecret(w)
            \/ /\ Swap(r).kind = "sigv4"
               /\ \E s \in Range(Swap(r).sources) : w = Static(s)
  <2> DEFINE k == at[r]
             c == cx[r]
             e == Apply(c, profile.swaps[k], v)
  <2>1. /\ scene \in Scenes /\ k \in DOMAIN profile.swaps /\ d = e /\ Swap(r) = profile.swaps[k]
        /\ Good(profile, c) /\ Behind(profile, c, k) /\ ~Exempt(profile, c)
        /\ c.authority \in profile.swaps[k].hosts /\ OfSwap(profile.swaps[k], v)
    BY <1>1, <1>3
  <2> HIDE DEF k, c
  <2>2. /\ Good(profile, e) /\ Behind(profile, e, k + 1)
        /\ \A w \in Values(e) :
              \/ w \in Values(c) \/ w = v \/ w.enc \/ ~IsSecret(w)
              \/ /\ profile.swaps[k].kind = "sigv4"
                 /\ \E s \in Range(profile.swaps[k].sources) : w = Static(s)
    BY <2>1, ApplyKeeps
  <2> HIDE DEF d, e
  <2> QED BY <2>1, <2>2 DEF k, c
<1>5. cx' = [cx EXCEPT ![r] = d]
  BY DEF Applied
<1> HIDE DEF d
<1>6. /\ OnlyOf(r) /\ pc'[r] = "swap" /\ cx'[r] = d /\ at'[r] = at[r] + 1
      /\ sent'[r] = sent[r] /\ record'[r] = record[r]
  BY <1>1, <1>5, AtSwap DEF Applied, OnlyOf, Base, Typed
<1>7. at[r] + 1 # 1
  BY <1>1, AtSwap
<1>8. RequestAfter(r)
  BY <1>1, <1>2, <1>4, <1>6, <1>7 DEF Request, RequestAfter
<1> QED BY <1>4, <1>6, <1>8

\* The value a static or a minted source has for the swap.
LEMMA SourceIs ==
  ASSUME Base, NEW r \in Reqs, NEW kind, Due(r, kind), NEW n \in Nat
  PROVE  LET s == Head(Swap(r).sources)
         IN  /\ s \in DOMAIN profile.sources
             /\ OfSwap(Swap(r), Static(s)) /\ Static(s).enc = FALSE
             /\ OfSwap(Swap(r), Access(s, n)) /\ Access(s, n).enc = FALSE
             /\ kind \in {"minted", "static"} => profile.sources[s] = kind
<1>1. Injecting(r) /\ Kind(Swap(r)) = kind
  BY DEF Due
<1>2. IsProfile(profile) /\ Swap(r) = profile.swaps[at[r]] /\ at[r] \in DOMAIN profile.swaps
  BY <1>1, AtSwap
<1> DEFINE s == Head(Swap(r).sources)
<1>3. s \in Range(Swap(r).sources) /\ Range(Swap(r).sources) \subseteq DOMAIN profile.sources
      /\ DOMAIN profile.sources \subseteq Name
  BY <1>2, SwapsAre
<1>4. s \in Name /\ s \in DOMAIN profile.sources
  BY <1>3
<1>5. kind \in {"minted", "static"} => profile.sources[s] = kind
  BY <1>1 DEF Kind
<1> HIDE DEF s
<1>6. /\ Static(s) \in Value /\ Static(s).by = "secret" /\ Static(s).of = s /\ Static(s).enc = FALSE
      /\ Access(s, n) \in Value /\ Access(s, n).by = "access" /\ Access(s, n).of = s
      /\ Access(s, n).enc = FALSE
  BY <1>4, ValuesAre DEF Static, Access, Val
<1> QED BY <1>4, <1>5, <1>6 DEF s, OfSwap

LEMMA StaticKeepsBase ==
  ASSUME Base, NEW r \in Reqs, SwapStatic(r)
  PROVE  Base'
<1>1. Due(r, "static") /\ pc[r] = "swap" /\ UNCHANGED secrets
  BY DEF SwapStatic, Due, Injecting
<1>2. ~Holds(r)
  BY <1>1, HolderIs DEF Due
<1>3. CASE Refuse(r, {})
  BY <1>1, <1>2, <1>3, RefusedIs, TurnKeeps
<1>4. CASE Applied(r, Static(Head(Swap(r).sources)))
  <2>1. OfSwap(Swap(r), Static(Head(Swap(r).sources))) /\ Static(Head(Swap(r).sources)).enc = FALSE
    BY <1>1, SourceIs
  <2>2. OnlyOf(r) /\ RequestAfter(r)
    BY <1>1, <1>4, <2>1, AppliedIs
  <2> QED BY <1>1, <1>2, <2>2, TurnKeeps
<1> QED BY <1>3, <1>4 DEF SwapStatic

LEMMA UnresolvedKeepsBase ==
  ASSUME Base, NEW r \in Reqs, SwapUnresolved(r)
  PROVE  Base'
<1>1. Due(r, "unset") /\ pc[r] = "swap" /\ UNCHANGED secrets /\ Refuse(r, {})
  BY DEF SwapUnresolved, Due, Injecting
<1>2. ~Holds(r)
  BY <1>1, HolderIs DEF Due
<1> QED BY <1>1, <1>2, RefusedIs, TurnKeeps

LEMMA CachedKeepsBase ==
  ASSUME Base, NEW r \in Reqs, SwapCached(r)
  PROVE  Base'
<1> DEFINE s == Head(Swap(r).sources)
           v == Access(s, token[s].access)
<1>1. Due(r, "minted") /\ lock[s] = {} /\ Applied(r, v) /\ UNCHANGED secrets
  BY DEF SwapCached
<1>2. ~Holds(r)
  BY <1>1, HolderIs
<1>3. s \in Minted
  BY <1>1, SourceIs DEF Minted
<1>4. token[s].access \in Nat
  BY <1>3 DEF Base, Typed, Token
<1>5. OfSwap(Swap(r), v) /\ v.enc = FALSE
  BY <1>1, <1>4, SourceIs
<1> HIDE DEF v
<1>6. OnlyOf(r) /\ RequestAfter(r)
  BY <1>1, <1>5, AppliedIs
<1> QED BY <1>1, <1>2, <1>6, TurnKeeps

\* Taking the lock.
LEMMA MintBeginsIs ==
  ASSUME Base, NEW r \in Reqs, MintBegins(r)
  PROVE  LET s == Head(Swap(r).sources)
             l == Label(s, "refresh_token")
             v == Refresh(s, token[s].refresh)
         IN  /\ s \in Minted /\ l \in Labels /\ v \in Value /\ pc[r] = "swap" /\ Due(r, "minted")
             /\ ~token[s].live /\ lock[s] = {} /\ lock' = [lock EXCEPT ![s] = {r}]
             /\ DOMAIN ring' = Labels /\ DOMAIN taught' = Labels
             /\ ring'[l] = Learn(ring[l], v) /\ taught'[l] = Note(taught[l], v)
             /\ \A m \in Labels : m # l => ring'[m] = ring[m] /\ taught'[m] = taught[m]
             /\ UNCHANGED <<scene, pc, cx, at, token, sent, record, written>>
<1> DEFINE s == Head(Swap(r).sources)
           l == Label(s, "refresh_token")
           v == Refresh(s, token[s].refresh)
<1>1. /\ Due(r, "minted") /\ pc[r] = "swap" /\ ~token[s].live /\ lock[s] = {}
      /\ lock' = [lock EXCEPT ![s] = {r}]
      /\ Teach(s, "refresh_token", <<v>>)
      /\ UNCHANGED <<scene, pc, cx, at, token, sent, record, written>>
  BY DEF MintBegins, Due, Injecting
<1>2. s \in Minted /\ s \in Name
  BY <1>1, SourceIs, Profiled DEF Minted, IsProfile, Base, Typed
<1> HIDE DEF s
<1>3. l \in Labels
  BY <1>2, LabelsAre
<1>4. v \in Value
  BY <1>2, ValuesAre DEF Base, Typed, Token
<1> HIDE DEF v
<1>5. /\ DOMAIN ring' = Labels /\ DOMAIN taught' = Labels
      /\ ring'[l] = Learn(ring[l], v) /\ taught'[l] = Note(taught[l], v)
      /\ \A m \in Labels : m # l => ring'[m] = ring[m] /\ taught'[m] = taught[m]
  <2>1. DOMAIN ring = Labels /\ DOMAIN taught = Labels
    BY DEF Base, Typed
  <2> DEFINE vs == <<v>>
  <2>2. vs = <<v>> /\ Teach(s, "refresh_token", vs)
    BY <1>1
  <2> HIDE DEF vs
  <2> QED BY <1>3, <2>1, <2>2, TeachOne
<1> QED BY <1>1, <1>2, <1>3, <1>4, <1>5 DEF s, v

\* What a step that teaches leaves behind is still made of sequences.
LEMMA TaughtTyped ==
  ASSUME Typed, NEW l \in Labels, NEW v \in Value, NEW w \in Value,
         scene' = scene, DOMAIN ring' = Labels, DOMAIN taught' = Labels,
         \/ ring'[l] = Learn(ring[l], v) /\ taught'[l] = Note(taught[l], v)
         \/ ring'[l] = Learn(Learn(ring[l], v), w) /\ taught'[l] = Note(Note(taught[l], v), w),
         \A m \in Labels : m # l => ring'[m] = ring[m] /\ taught'[m] = taught[m]
  PROVE  /\ DOMAIN ring' = Labels' /\ DOMAIN taught' = Labels'
         /\ \A m \in Labels' : /\ ring'[m] \in Seq(Value) /\ taught'[m] \in Seq(Value)
                               /\ Len(ring'[m]) <= Ring
<1>1. Ring \in Nat /\ Ring >= 2 /\ Labels' = Labels
  BY Profiled, SameScene DEF Typed
<1>2. /\ ring[l] \in Seq(Value) /\ taught[l] \in Seq(Value) /\ Len(ring[l]) <= Ring
  BY DEF Typed
<1>3. /\ Learn(ring[l], v) \in Seq(Value) /\ Len(Learn(ring[l], v)) <= Ring
      /\ Note(taught[l], v) \in Seq(Value)
  BY <1>1, <1>2, LearnIs, NoteIs
<1>4. /\ Learn(Learn(ring[l], v), w) \in Seq(Value) /\ Len(Learn(Learn(ring[l], v), w)) <= Ring
      /\ Note(Note(taught[l], v), w) \in Seq(Value)
  BY <1>1, <1>3, LearnIs, NoteIs
<1>5. ASSUME NEW m \in Labels
      PROVE  ring'[m] \in Seq(Value) /\ taught'[m] \in Seq(Value) /\ Len(ring'[m]) <= Ring
  <2>1. CASE m = l
    BY <2>1, <1>3, <1>4
  <2>2. CASE m # l
    BY <2>2 DEF Typed
  <2> QED BY <2>1, <2>2
<1> QED BY <1>1, <1>5

LEMMA MintBeginsKeepsBase ==
  ASSUME Base, NEW r \in Reqs, MintBegins(r)
  PROVE  Base'
<1> DEFINE s == Head(Swap(r).sources)
           l == Label(s, "refresh_token")
           v == Refresh(s, token[s].refresh)
<1>1. /\ s \in Minted /\ l \in Labels /\ v \in Value /\ pc[r] = "swap" /\ Due(r, "minted")
      /\ lock[s] = {} /\ lock' = [lock EXCEPT ![s] = {r}]
      /\ DOMAIN ring' = Labels /\ DOMAIN taught' = Labels
      /\ ring'[l] = Learn(ring[l], v) /\ taught'[l] = Note(taught[l], v)
      /\ \A m \in Labels : m # l => ring'[m] = ring[m] /\ taught'[m] = taught[m]
      /\ UNCHANGED <<scene, pc, cx, at, token, sent, record, written>>
  BY MintBeginsIs
<1>2. s = Head(Swap(r).sources)
  OBVIOUS
<1> HIDE DEF s, l, v
<1>3. profile' = profile /\ Minted' = Minted /\ Labels' = Labels
  BY <1>1, SameScene
<1>4. Typed'
  <2>1. /\ DOMAIN ring' = Labels' /\ DOMAIN taught' = Labels'
        /\ \A m \in Labels' : /\ ring'[m] \in Seq(Value) /\ taught'[m] \in Seq(Value)
                              /\ Len(ring'[m]) <= Ring
    BY <1>1, TaughtTyped DEF Base
  <2>2. lock' \in [Minted -> {{}} \cup {{q} : q \in Reqs}]
    BY <1>1 DEF Base, Typed
  <2> QED BY <1>1, <1>3, <2>1, <2>2 DEF Base, Typed
<1>5. Requests'
  BY <1>1, <1>3 DEF Base, Requests
<1>6. Mints'
  <2>1. ASSUME NEW t \in Minted, NEW q \in Reqs, lock'[t] = {q}
        PROVE  (pc[q] = "swap" /\ Due(q, "minted") /\ t = Head(Swap(q).sources))'
    <3>1. pc[q] = "swap" /\ Due(q, "minted") /\ t = Head(Swap(q).sources)
      <4>1. CASE t = s
        <5>1. q = r
          BY <1>1, <2>1, <4>1 DEF Base, Typed
        <5> QED BY <1>1, <1>2, <4>1, <5>1
      <4>2. CASE t # s
        <5>1. lock[t] = {q}
          BY <1>1, <2>1, <4>2 DEF Base, Typed
        <5> QED BY <5>1 DEF Base, Mints
      <4> QED BY <4>1, <4>2
    <3> QED BY <1>1, <3>1, SameDue
  <2> QED BY <1>3, <2>1 DEF Mints
<1> QED BY <1>4, <1>5, <1>6 DEF Base

\* One answer of the provider's: whose token, the same as before, a new grant.
MintsAs(r, s, same, rotates) ==
    /\ pc[r] = "swap" /\ lock[s] = {r}
    /\ same => token[s].access > 0
    /\ LET n == IF same THEN token[s].access ELSE token[s].access + 1
           k == token[s].refresh + 1
       IN  /\ token' = [token EXCEPT ![s].access = n, ![s].live = TRUE, ![s].fresh = ~same,
                                     ![s].refresh = IF rotates THEN k ELSE @]
           /\ Teach(s, "own", Learned(s, n, IF rotates THEN <<Refresh(s, k)>> ELSE << >>))
           /\ Applied(r, Access(s, n))
    /\ lock' = [lock EXCEPT ![s] = {}]

LEMMA MintEndsAs ==
  ASSUME NEW r, MintEnds(r)
  PROVE  \E s \in Minted, same \in BOOLEAN, rotates \in BOOLEAN : MintsAs(r, s, same, rotates)
  BY Zenon DEF MintEnds, MintsAs
TokenBecomes(s, n, m, f) ==
    token' = [token EXCEPT ![s].access = n, ![s].live = TRUE, ![s].fresh = f, ![s].refresh = m]

LEMMA TokenIs ==
  ASSUME token \in [Minted -> Token], NEW s \in Minted, NEW n \in Nat, NEW m \in Nat, NEW f \in BOOLEAN,
         TokenBecomes(s, n, m, f)
  PROVE  /\ token' \in [Minted -> Token]
         /\ token'[s].access = n /\ token'[s].refresh = m /\ token'[s].live
         /\ token'[s].fresh => f
         /\ \A t \in Minted : t # s => token'[t] = token[t]
<1> DEFINE e == [token[s] EXCEPT !.access = n, !.live = TRUE, !.fresh = f, !.refresh = m]
<1>1. token[s] \in Token
  OBVIOUS
<1>2. e \in Token /\ e.access = n /\ e.refresh = m /\ e.live /\ (e.fresh => f)
  <2>1. CASE f = TRUE
    <3>1. e = [token[s] EXCEPT !.access = n, !.live = TRUE, !.fresh = TRUE, !.refresh = m]
      BY <2>1
    <3> HIDE DEF e
    <3> QED BY <1>1, <2>1, <3>1 DEF Token
  <2>2. CASE f = FALSE
    <3>1. e = [token[s] EXCEPT !.access = n, !.live = TRUE, !.fresh = FALSE, !.refresh = m]
      BY <2>2
    <3> HIDE DEF e
    <3>2. e = [access |-> n, refresh |-> m, live |-> TRUE, fresh |-> FALSE]
      BY <1>1, <3>1 DEF Token
    <3> QED BY <3>2 DEF Token
  <2> QED BY <2>1, <2>2
<1>3. token' = [token EXCEPT ![s] = e]
  BY DEF TokenBecomes
<1> HIDE DEF e
<1> QED BY <1>2, <1>3

\* What the provider's answer does to the credential, to what the redactor
\* knows of it and to the request: an access token, and a refresh token or not.
Answers(r, s, same, rotates, n, k) ==
    LET l == Label(s, "own")
        a == Access(s, n)
        b == Refresh(s, k)
    IN  /\ n \in Nat /\ k \in Nat /\ l \in Labels /\ a \in Value /\ b \in Value
        /\ k = token[s].refresh + 1
        /\ same => n = token[s].access /\ n > 0
        /\ ~same => n = token[s].access + 1
        /\ pc[r] = "swap" /\ Due(r, "minted") /\ s = Head(Swap(r).sources)
        /\ lock[s] = {r} /\ lock' = [lock EXCEPT ![s] = {}]
        /\ token' \in [Minted -> Token]
        /\ token'[s].access = n
        /\ rotates => token'[s].refresh = k
        /\ ~rotates => token'[s].refresh = token[s].refresh
        /\ token'[s].live /\ (token'[s].fresh => ~same)
        /\ \A t \in Minted : t # s => token'[t] = token[t]
        /\ DOMAIN ring' = Labels /\ DOMAIN taught' = Labels
        /\ rotates => ring'[l] = Learn(Learn(ring[l], a), b) /\ taught'[l] = Note(Note(taught[l], a), b)
        /\ ~rotates => ring'[l] = Learn(ring[l], a) /\ taught'[l] = Note(taught[l], a)
        /\ \A m \in Labels : m # l => ring'[m] = ring[m] /\ taught'[m] = taught[m]
        /\ Applied(r, a)

LEMMA MintsAsIs ==
  ASSUME Base, NEW r \in Reqs, NEW s \in Minted, NEW same \in BOOLEAN, NEW rotates \in BOOLEAN,
         MintsAs(r, s, same, rotates)
  PROVE  \E n, k : Answers(r, s, same, rotates, n, k)
<1> DEFINE n == IF same THEN token[s].access ELSE token[s].access + 1
           k == token[s].refresh + 1
           l == Label(s, "own")
           a == Access(s, n)
           b == Refresh(s, k)
           vs == Learned(s, n, IF rotates THEN <<b>> ELSE << >>)
           m == IF rotates THEN k ELSE token[s].refresh
<1>1. /\ pc[r] = "swap" /\ lock[s] = {r} /\ (same => token[s].access > 0)
      /\ TokenBecomes(s, n, m, ~same)
      /\ Teach(s, "own", vs) /\ Applied(r, a)
      /\ lock' = [lock EXCEPT ![s] = {}]
  BY DEF MintsAs, TokenBecomes
<1>2. n \in Nat /\ k \in Nat /\ m \in Nat
  <2>1. token[s].access \in Nat /\ token[s].refresh \in Nat
    BY DEF Base, Typed, Token
  <2> QED BY <2>1
<1>3. Due(r, "minted") /\ s = Head(Swap(r).sources)
  BY <1>1 DEF Base, Mints
<1>4. s \in Name
  BY Profiled DEF Minted, IsProfile, Base, Typed
<1>5. a \in Value /\ b \in Value /\ l \in Labels
  BY <1>2, <1>4, ValuesAre, LabelsAre
<1>6. (rotates => vs = <<a, b>>) /\ (~rotates => vs = <<a>>)
  BY LearnedIs
<1>7. /\ token' \in [Minted -> Token]
      /\ token'[s].access = n /\ token'[s].refresh = m /\ token'[s].live /\ (token'[s].fresh => ~same)
      /\ \A t \in Minted : t # s => token'[t] = token[t]
  <2> DEFINE f == ~same
  <2>1. TokenBecomes(s, n, m, f) /\ f \in BOOLEAN
    BY <1>1
  <2>2. token \in [Minted -> Token]
    BY DEF Base, Typed
  <2> HIDE DEF n, m, f
  <2>3. /\ token' \in [Minted -> Token]
        /\ token'[s].access = n /\ token'[s].refresh = m /\ token'[s].live /\ (token'[s].fresh => f)
        /\ \A t \in Minted : t # s => token'[t] = token[t]
    BY <1>2, <2>1, <2>2, TokenIs
  <2> QED BY <2>3 DEF f
<1> HIDE DEF a, b, vs, l
<1>8. /\ DOMAIN ring' = Labels /\ DOMAIN taught' = Labels
      /\ rotates => ring'[l] = Learn(Learn(ring[l], a), b) /\ taught'[l] = Note(Note(taught[l], a), b)
      /\ ~rotates => ring'[l] = Learn(ring[l], a) /\ taught'[l] = Note(taught[l], a)
      /\ \A x \in Labels : x # l => ring'[x] = ring[x] /\ taught'[x] = taught[x]
  <2>1. DOMAIN ring = Labels /\ DOMAIN taught = Labels /\ l = Label(s, "own") /\ Label(s, "own") \in Labels
    BY <1>5 DEF Base, Typed, l
  <2>2. CASE rotates
    <3>1. vs = <<a, b>> /\ Teach(s, "own", vs)
      BY <1>1, <1>6, <2>2
    <3>2. /\ DOMAIN ring' = Labels /\ DOMAIN taught' = Labels
          /\ ring'[Label(s, "own")] = Learn(Learn(ring[Label(s, "own")], a), b)
          /\ taught'[Label(s, "own")] = Note(Note(taught[Label(s, "own")], a), b)
          /\ \A x \in Labels : x # Label(s, "own") => ring'[x] = ring[x] /\ taught'[x] = taught[x]
      BY <2>1, <3>1, TeachTwo
    <3> QED BY <2>1, <2>2, <3>2
  <2>3. CASE ~rotates
    <3>1. vs = <<a>> /\ Teach(s, "own", vs)
      BY <1>1, <1>6, <2>3
    <3>2. /\ DOMAIN ring' = Labels /\ DOMAIN taught' = Labels
          /\ ring'[Label(s, "own")] = Learn(ring[Label(s, "own")], a)
          /\ taught'[Label(s, "own")] = Note(taught[Label(s, "own")], a)
          /\ \A x \in Labels : x # Label(s, "own") => ring'[x] = ring[x] /\ taught'[x] = taught[x]
      BY <2>1, <3>1, TeachOne
    <3> QED BY <2>1, <2>3, <3>2
  <2> QED BY <2>2, <2>3
<1>9. /\ k = token[s].refresh + 1
      /\ same => n = token[s].access /\ n > 0
      /\ ~same => n = token[s].access + 1
      /\ rotates => m = k
      /\ ~rotates => m = token[s].refresh
  BY <1>1
<1> HIDE DEF n, k, m
<1>10. Answers(r, s, same, rotates, n, k)
  BY <1>1, <1>2, <1>3, <1>5, <1>7, <1>8, <1>9 DEF Answers, a, b, l
<1> QED BY <1>10

LEMMA MintEndsKeepsBase ==
  ASSUME Base, NEW r \in Reqs, NEW s \in Minted, NEW same \in BOOLEAN, NEW rotates \in BOOLEAN,
         NEW n, NEW k, Answers(r, s, same, rotates, n, k)
  PROVE  Base'
<1> DEFINE a == Access(s, n)
           b == Refresh(s, k)
           l == Label(s, "own")
<1>1. /\ n \in Nat /\ l \in Labels /\ a \in Value /\ b \in Value
      /\ Due(r, "minted") /\ s = Head(Swap(r).sources)
      /\ lock[s] = {r} /\ lock' = [lock EXCEPT ![s] = {}]
      /\ token' \in [Minted -> Token]
      /\ DOMAIN ring' = Labels /\ DOMAIN taught' = Labels
      /\ \/ ring'[l] = Learn(ring[l], a) /\ taught'[l] = Note(taught[l], a)
         \/ ring'[l] = Learn(Learn(ring[l], a), b) /\ taught'[l] = Note(Note(taught[l], a), b)
      /\ \A m \in Labels : m # l => ring'[m] = ring[m] /\ taught'[m] = taught[m]
      /\ Applied(r, a)
  BY DEF Answers
<1>2. OfSwap(Swap(r), a) /\ a.enc = FALSE
  BY <1>1, SourceIs
<1> HIDE DEF a, b, l
<1>3. OnlyOf(r) /\ RequestAfter(r)
  BY <1>1, <1>2, AppliedIs
<1>4. profile' = profile /\ Minted' = Minted /\ Labels' = Labels /\ scene' = scene
  BY <1>3, SameScene DEF OnlyOf
<1>5. Typed'
  <2>1. /\ DOMAIN ring' = Labels' /\ DOMAIN taught' = Labels'
        /\ \A m \in Labels' : /\ ring'[m] \in Seq(Value) /\ taught'[m] \in Seq(Value)
                              /\ Len(ring'[m]) <= Ring
    BY <1>1, <1>4, TaughtTyped DEF Base
  <2>2. lock' \in [Minted -> {{}} \cup {{q} : q \in Reqs}]
    BY <1>1 DEF Base, Typed
  <2>3. ASSUME NEW q \in Reqs PROVE at'[q] <= Len(profile.swaps) + 1
    <3>1. CASE q = r
      BY <1>3, <3>1 DEF OnlyOf
    <3>2. CASE q # r
      BY <1>3, <3>2 DEF OnlyOf, Base, Typed
    <3> QED BY <3>1, <3>2
  <2>4. /\ scene' \in Scenes /\ pc' \in [Reqs -> PC] /\ at' \in [Reqs -> Nat \ {0}]
        /\ DOMAIN cx' = Reqs /\ DOMAIN sent' = Reqs /\ DOMAIN record' = Reqs
    BY <1>3, <1>4 DEF OnlyOf, Base, Typed
  <2> QED BY <1>1, <1>4, <2>1, <2>2, <2>3, <2>4 DEF Typed
<1>6. Requests'
  BY <1>3, RequestsStay DEF Base
<1>7. Mints'
  <2>1. ASSUME NEW t \in Minted, NEW q \in Reqs, lock'[t] = {q}
        PROVE  q # r /\ lock[t] = {q}
    <3>1. t # s /\ lock[t] = {q}
      BY <1>1, <2>1 DEF Base, Typed
    <3>2. q # r
      BY <1>1, <3>1 DEF Base, Mints
    <3> QED BY <3>1, <3>2
  <2> QED BY <1>3, <2>1, MintsStay DEF Base
<1> QED BY <1>5, <1>6, <1>7 DEF Base

LEMMA MintFailsKeepsBase ==
  ASSUME Base, NEW r \in Reqs, MintFails(r)
  PROVE  Base'
<1>1. PICK s \in Minted, quoted \in BOOLEAN :
        /\ pc[r] = "swap" /\ lock[s] = {r} /\ lock' = [lock EXCEPT ![s] = {}]
        /\ Refuse(r, IF quoted THEN {Refresh(s, token[s].refresh)} ELSE {})
        /\ UNCHANGED <<token, ring, taught>>
  BY DEF MintFails
<1>2. OnlyOf(r) /\ RequestAfter(r)
  BY <1>1, RefusedIs
<1>3. Typed'
  <2>1. profile' = profile /\ Minted' = Minted /\ Labels' = Labels
    BY <1>2, SameScene DEF OnlyOf
  <2>2. lock' \in [Minted -> {{}} \cup {{q} : q \in Reqs}]
    BY <1>1 DEF Base, Typed
  <2>3. ASSUME NEW q \in Reqs PROVE at'[q] <= Len(profile.swaps) + 1
    <3>1. CASE q = r
      BY <1>2, <3>1 DEF OnlyOf
    <3>2. CASE q # r
      BY <1>2, <3>2 DEF OnlyOf, Base, Typed
    <3> QED BY <3>1, <3>2
  <2> QED BY <1>1, <1>2, <2>1, <2>2, <2>3 DEF Base, Typed, OnlyOf
<1>4. Requests'
  BY <1>2, RequestsStay DEF Base
<1>5. Mints'
  <2>1. ASSUME NEW t \in Minted, NEW q \in Reqs, lock'[t] = {q}
        PROVE  q # r /\ lock[t] = {q}
    <3>1. t # s /\ lock[t] = {q}
      BY <1>1, <2>1 DEF Base, Typed
    <3>2. q # r
      BY <1>1, <3>1 DEF Base, Mints
    <3> QED BY <3>1, <3>2
  <2> QED BY <1>2, <2>1, MintsStay DEF Base
<1> QED BY <1>3, <1>4, <1>5 DEF Base

\* The steps after the last swap.
LEMMA LaterKeepsBase ==
  ASSUME Base, NEW r \in Reqs,
         AllSwapped(r) \/ Respond(r) \/ Send(r) \/ Answered(r) \/ BreaksOff(r)
            \/ EmitTracing(r) \/ EmitJson(r)
  PROVE  Base'
<1>1. Request(profile, pc[r], cx[r], at[r], sent[r], record[r])
  BY DEF Base, Requests
<1>2. UNCHANGED secrets
  BY DEF AllSwapped, Respond, Send, Answered, BreaksOff, EmitTracing, EmitJson
<1>3. ~Holds(r)
  <2>1. CASE AllSwapped(r)
    <3>1. ~Due(r, "minted")
      BY <2>1, Profiled, SwapsAre DEF AllSwapped, Due, Injecting, Base, Typed
    <3> QED BY <3>1, HolderIs
  <2>2. CASE pc[r] # "swap"
    BY <2>2, HolderIs
  <2> QED BY <2>1, <2>2 DEF Respond, Send, Answered, BreaksOff, EmitTracing, EmitJson
<1>4. CASE AllSwapped(r)
  <2>1. /\ OnlyOf(r) /\ pc[r] = "swap" /\ pc'[r] = "send" /\ cx'[r] = cx[r] /\ at'[r] = at[r]
        /\ sent'[r] = sent[r] /\ record'[r] = record[r]
    BY <1>4 DEF AllSwapped, OnlyOf, Base, Typed, PC
  <2>2. at[r] = Len(profile.swaps) + 1
    BY <1>4, Profiled, SwapsAre DEF AllSwapped, Base, Typed
  <2>3. RequestAfter(r)
    BY <1>1, <2>1, <2>2 DEF Request, RequestAfter, Ready
  <2> QED BY <1>2, <1>3, <2>1, <2>3, TurnKeeps
<1>5. CASE Respond(r)
  <2>1. /\ OnlyOf(r) /\ pc[r] = "send" /\ pc'[r] = "tracing" /\ cx'[r] = cx[r] /\ at'[r] = at[r]
        /\ sent'[r] = sent[r]
    BY <1>5 DEF Respond, OnlyOf, Base, Typed, PC
  <2>2. RequestAfter(r)
    BY <1>1, <2>1 DEF Request, RequestAfter
  <2> QED BY <1>2, <1>3, <2>1, <2>2, TurnKeeps
<1>6. CASE Send(r)
  <2>1. pc[r] = "send"
    BY <1>6 DEF Send
  <2>2. CASE /\ sent' = [sent EXCEPT ![r] = {Finished(cx[r])}]
             /\ pc' = [pc EXCEPT ![r] = "await"] /\ UNCHANGED record
    <3>1. /\ OnlyOf(r) /\ pc'[r] = "await" /\ cx'[r] = cx[r] /\ at'[r] = at[r]
          /\ sent'[r] = {Finished(cx[r])} /\ record'[r] = record[r]
      BY <1>6, <2>2 DEF Send, OnlyOf, Base, Typed, PC
    <3>2. NoRecord.action # "allow"
      BY DEF NoRecord
    <3>3. RequestAfter(r)
      BY <1>1, <2>1, <3>1, <3>2 DEF Request, RequestAfter
    <3> QED BY <1>2, <1>3, <3>1, <3>3, TurnKeeps
  <2>3. CASE /\ pc' = [pc EXCEPT ![r] = "tracing"]
             /\ record' = [record EXCEPT ![r] = Record(cx[r], "deny", {}, {})] /\ UNCHANGED sent
    <3>1. /\ OnlyOf(r) /\ pc'[r] = "tracing" /\ cx'[r] = cx[r] /\ at'[r] = at[r]
          /\ sent'[r] = sent[r]
      BY <1>6, <2>3 DEF Send, OnlyOf, Base, Typed, PC
    <3>2. RequestAfter(r)
      BY <1>1, <2>1, <3>1 DEF Request, RequestAfter
    <3> QED BY <1>2, <1>3, <3>1, <3>2, TurnKeeps
  <2> QED BY <1>6, <2>2, <2>3 DEF Send
<1>7. CASE Answered(r)
  <2>1. PICK echo \in BOOLEAN :
          record' = [record EXCEPT ![r] =
                       Record(cx[r], "allow", {}, IF echo THEN SecretsIn(cx[r]) ELSE {})]
    BY <1>7 DEF Answered
  <2>2. /\ OnlyOf(r) /\ pc[r] = "await" /\ pc'[r] = "tracing" /\ cx'[r] = cx[r] /\ at'[r] = at[r]
        /\ sent'[r] = sent[r]
        /\ record'[r] = Record(cx[r], "allow", {}, IF echo THEN SecretsIn(cx[r]) ELSE {})
    BY <1>7, <2>1 DEF Answered, OnlyOf, Base, Typed, PC
  <2>3. record'[r].facts = cx[r].facts
    BY <2>2 DEF Record
  <2>4. RequestAfter(r)
    BY <1>1, <2>2, <2>3 DEF Request, RequestAfter
  <2> QED BY <1>2, <1>3, <2>2, <2>4, TurnKeeps
<1>8. CASE BreaksOff(r)
  <2>1. /\ OnlyOf(r) /\ pc[r] = "await" /\ pc'[r] = "done" /\ cx'[r] = cx[r] /\ at'[r] = at[r]
        /\ sent'[r] = sent[r] /\ record'[r] = record[r]
    BY <1>8 DEF BreaksOff, OnlyOf, Base, Typed, PC
  <2>2. NoRecord.action # "allow"
    BY DEF NoRecord
  <2>3. RequestAfter(r)
    BY <1>1, <2>1, <2>2 DEF Request, RequestAfter
  <2> QED BY <1>2, <1>3, <2>1, <2>3, TurnKeeps
<1>9. CASE EmitTracing(r) \/ EmitJson(r)
  <2>1. /\ OnlyOf(r) /\ pc[r] \in {"tracing", "json"} /\ pc'[r] \in {"json", "done"}
        /\ cx'[r] = cx[r] /\ at'[r] = at[r] /\ sent'[r] = sent[r] /\ record'[r] = record[r]
    BY <1>9 DEF EmitTracing, EmitJson, OnlyOf, Base, Typed, PC
  <2>2. RequestAfter(r)
    BY <1>1, <2>1 DEF Request, RequestAfter
  <2> QED BY <1>2, <1>3, <2>1, <2>2, TurnKeeps
<1> QED BY <1>4, <1>5, <1>6, <1>7, <1>8, <1>9

LEMMA ExpireKeepsBase ==
  ASSUME Base, NEW s \in Minted, Expire(s)
  PROVE  Base'
<1>1. /\ UNCHANGED <<scene, pc, cx, at, lock, ring, taught, sent, record>>
      /\ token' = [token EXCEPT ![s].live = FALSE]
  BY DEF Expire
<1>2. profile' = profile /\ Minted' = Minted /\ Labels' = Labels
  BY <1>1, SameScene
<1>3. token' \in [Minted -> Token]
  BY <1>1 DEF Base, Typed, Token
<1>4. Typed'
  BY <1>1, <1>2, <1>3 DEF Base, Typed
<1>5. Requests'
  BY <1>1, <1>2 DEF Base, Requests
<1>6. Mints'
  <2>1. \A q \in Reqs : Due(q, "minted")' = Due(q, "minted") /\ Swap(q)' = Swap(q)
    BY <1>1, SameDue
  <2> QED BY <1>1, <1>2, <2>1 DEF Base, Mints
<1> QED BY <1>4, <1>5, <1>6 DEF Base

LEMMA StutterKeepsBase ==
  ASSUME Base, UNCHANGED vars
  PROVE  Base'
<1>1. UNCHANGED <<scene, pc, cx, at, token, lock, ring, taught, sent, record, written>>
  BY DEF vars
<1>2. profile' = profile /\ Minted' = Minted /\ Labels' = Labels
  BY <1>1, SameScene
<1>3. Typed'
  BY <1>1, <1>2 DEF Base, Typed
<1>4. Requests'
  BY <1>1, <1>2 DEF Base, Requests
<1>5. Mints'
  <2>1. \A q \in Reqs : Due(q, "minted")' = Due(q, "minted") /\ Swap(q)' = Swap(q)
    BY <1>1, SameDue
  <2> QED BY <1>1, <1>2, <2>1 DEF Base, Mints
<1> QED BY <1>3, <1>4, <1>5 DEF Base

LEMMA NextKeepsBase ==
  ASSUME Base, [Next]_vars
  PROVE  Base'
<1>1. ASSUME NEW r \in Reqs, Arrive(r) \/ Step(r) \/ Answered(r) \/ BreaksOff(r)
      PROVE  Base'
  <2>1. ASSUME MintEnds(r) PROVE Base'
    <3>1. PICK s \in Minted, same \in BOOLEAN, rotates \in BOOLEAN : MintsAs(r, s, same, rotates)
      BY <2>1, MintEndsAs
    <3>2. PICK n, k : Answers(r, s, same, rotates, n, k)
      BY <3>1, MintsAsIs
    <3> QED BY <3>2, MintEndsKeepsBase
  <2>2. ASSUME Inject(r) PROVE Base'
    BY <2>1, <2>2, ExcludeKeepsBase, SkipKeepsBase, StaticKeepsBase, UnresolvedKeepsBase,
       CachedKeepsBase, MintBeginsKeepsBase, MintFailsKeepsBase, LaterKeepsBase DEF Inject
  <2> QED BY <1>1, <2>2, ArriveKeeps, PrepareKeepsBase, LaterKeepsBase DEF Step
<1>2. ASSUME NEW s \in Minted, Expire(s) PROVE Base'
  BY <1>2, ExpireKeepsBase
<1> QED BY <1>1, <1>2, StutterKeepsBase DEF Next

LEMMA InitBase == Init => Base
<1> SUFFICES ASSUME Init PROVE Base
  OBVIOUS
<1>1. /\ scene \in Scenes /\ pc = [r \in Reqs |-> "new"] /\ at = [r \in Reqs |-> 1]
      /\ cx = [r \in Reqs |-> Context(CHOOSE a \in scene.arrivals[r] : TRUE)]
      /\ token = [s \in Minted |-> [access |-> 0, refresh |-> 0, live |-> FALSE, fresh |-> FALSE]]
      /\ lock = [s \in Minted |-> {}]
      /\ taught = [l \in Labels |-> IF l[1] \notin Minted THEN <<Static(l[1])>> ELSE << >>]
      /\ ring = [l \in Labels |-> IF l[1] \notin Minted THEN Learn(<< >>, Static(l[1])) ELSE << >>]
      /\ sent = [r \in Reqs |-> {}] /\ record = [r \in Reqs |-> NoRecord]
  BY DEF Init
<1>2. /\ IsProfile(profile) /\ Ring \in Nat /\ Ring >= 2 /\ Len(profile.swaps) \in Nat
      /\ DOMAIN profile.sources \subseteq Name
  BY <1>1, Profiled, SwapsAre DEF IsProfile
<1>3. ASSUME NEW l \in Labels
      PROVE  ring[l] \in Seq(Value) /\ taught[l] \in Seq(Value) /\ Len(ring[l]) <= Ring
  <2>1. l[1] \in Name
    BY <1>2, LabelIs
  <2> DEFINE v == Static(l[1])
             none == << >>
  <2>2. v \in Value
    BY <2>1, ValuesAre
  <2>3. none \in Seq(Value) /\ Len(none) = 0 /\ Len(none) <= Ring /\ <<v>> \in Seq(Value)
    BY <1>2, <2>2
  <2>4. ring[l] = (IF l[1] \notin Minted THEN Learn(none, v) ELSE none)
    BY <1>1
  <2>5. taught[l] = (IF l[1] \notin Minted THEN <<v>> ELSE none)
    BY <1>1
  <2> HIDE DEF v, none
  <2>6. Learn(none, v) \in Seq(Value) /\ Len(Learn(none, v)) <= Ring
    BY <1>2, <2>2, <2>3, LearnIs
  <2> QED BY <2>3, <2>4, <2>5, <2>6
<1>4. Typed
  <2>1. token \in [Minted -> Token] /\ lock \in [Minted -> {{}} \cup {{r} : r \in Reqs}]
    BY <1>1 DEF Token
  <2>2. pc \in [Reqs -> PC] /\ at \in [Reqs -> Nat \ {0}]
    BY <1>1 DEF PC
  <2>3. \A r \in Reqs : at[r] <= Len(profile.swaps) + 1
    BY <1>1, <1>2
  <2> QED BY <1>1, <1>3, <2>1, <2>2, <2>3 DEF Typed
<1>5. Requests
  BY <1>1 DEF Requests, Request
<1>6. Mints
  BY <1>1 DEF Mints
<1> QED BY <1>4, <1>5, <1>6 DEF Base
-----------------------------------------------------------------------------
(* What follows for what has been sent. *)

LEMMA SentIs ==
  ASSUME Base, NEW r \in Reqs, NEW d \in sent[r]
  PROVE  /\ d = Finished(cx[r]) /\ Good(profile, cx[r]) /\ Ready(profile, cx[r])
         /\ record[r].action = "allow" => record[r].facts = cx[r].facts
         /\ scene \in Scenes
<1>1. Request(profile, pc[r], cx[r], at[r], sent[r], record[r])
  BY DEF Base, Requests
<1> QED BY <1>1 DEF Request, Base, Typed

LEMMA ScopeIsKept ==
  ASSUME Base
  PROVE  CredentialStaysInScope
<1> SUFFICES ASSUME NEW r \in Reqs, NEW d \in sent[r]
             PROVE  /\ \A v \in Range(d.hdr) \cup Range(d.query) :
                          IsCredential(v) =>
                              /\ \E i \in DOMAIN profile.swaps : Owns(profile.swaps[i], v, d)
                              /\ ~Excluded(d)
                    /\ \A n \in DOMAIN d.hdr \cap ClientCredentials :
                          d.hdr[n].by = "client" => d.authority = d.asked
  BY DEF CredentialStaysInScope
<1> DEFINE c == cx[r]
           h == HostIs(c.authority, 0)
<1>1. d = Finished(c) /\ Good(profile, c) /\ scene \in Scenes
  BY SentIs
<1> HIDE DEF c
<1>2. /\ Range(d.hdr) \cup Range(d.query) \subseteq Values(c) \cup {h} /\ ~IsCredential(h)
      /\ \A n \in DOMAIN d.hdr \ Undone : n \in DOMAIN c.hdr /\ d.hdr[n] = c.hdr[n]
      /\ d.asked = c.asked /\ d.authority = c.authority /\ d.dotted = c.dotted /\ d.path = c.path
  BY <1>1, FinishedIs
<1> HIDE DEF h
<1>3. ASSUME NEW v \in Range(d.hdr) \cup Range(d.query), IsCredential(v)
      PROVE  (\E i \in DOMAIN profile.swaps : Owns(profile.swaps[i], v, d)) /\ ~Excluded(d)
  <2>1. v \in Values(c)
    BY <1>2, <1>3
  <2>2. PICK i \in DOMAIN profile.swaps : Owns(profile.swaps[i], v, c)
    BY <1>1, <1>3, <2>1 DEF Good, Owned
  <2>3. ~Exempt(profile, c)
    BY <1>1, <1>3, <2>1 DEF Good, Owned
  <2>4. Owns(profile.swaps[i], v, d)
    BY <1>2, <2>2 DEF Owns
  <2>5. ~Excluded(d)
    BY <1>2, <2>3 DEF Excluded, Exempt
  <2> QED BY <2>4, <2>5
<1>4. ASSUME NEW n \in DOMAIN d.hdr \cap ClientCredentials, d.hdr[n].by = "client"
      PROVE  d.authority = d.asked
  <2>1. n \notin Undone
    BY DEF Undone, HOP_BY_HOP, ClientCredentials
  <2>2. n \in DOMAIN c.hdr /\ d.hdr[n] = c.hdr[n]
    BY <1>2, <2>1
  <2> QED BY <1>1, <1>2, <1>4, <2>2 DEF Good, ClientsOwn
<1> QED BY <1>3, <1>4

LEMMA NothingIsLeftOut ==
  ASSUME Base
  PROVE  WholeOrNothing
<1> SUFFICES ASSUME NEW r \in Reqs, NEW d \in sent[r], NEW i \in DOMAIN profile.swaps,
                    d.authority \in profile.swaps[i].hosts
             PROVE  \/ <<"injected", profile.swaps[i].name>> \in d.facts
                    \/ Excluded(d)
                    \/ Unfit(profile, profile.swaps[i])
  BY DEF WholeOrNothing
<1> DEFINE c == cx[r]
<1>1. d = Finished(c) /\ Good(profile, c) /\ Ready(profile, c) /\ scene \in Scenes
  BY SentIs
<1> HIDE DEF c
<1>2. d.authority = c.authority /\ d.dotted = c.dotted /\ d.path = c.path /\ d.facts = c.facts
  BY <1>1, FinishedIs
<1>3. CASE Exempt(profile, c)
  BY <1>2, <1>3 DEF Exempt, Excluded
<1>4. CASE Behind(profile, c, Len(profile.swaps) + 1)
  <2>1. i < Len(profile.swaps) + 1
    BY <1>1, Profiled, SwapsAre
  <2> QED BY <1>2, <1>4, <2>1 DEF Behind, Said
<1> QED BY <1>1, <1>3, <1>4 DEF Ready

LEMMA RecordIsTrue ==
  ASSUME Base
  PROVE  RecordTellsInjection
<1> SUFFICES ASSUME NEW r \in Reqs, NEW d \in sent[r], record[r].action = "allow"
             PROVE
            /\ \A v \in Range(d.hdr) \cup Range(d.query) :
                  IsCredential(v) =>
                      \E i \in DOMAIN profile.swaps :
                          /\ v.of \in Range(profile.swaps[i].sources)
                          /\ <<"injected", profile.swaps[i].name>> \in record[r].facts
            /\ \A i \in DOMAIN profile.swaps :
                  LET sw == profile.swaps[i] IN
                  /\ <<"injected", sw.name>> \in record[r].facts
                  /\ \A j \in DOMAIN profile.swaps : profile.swaps[j].name = sw.name => j = i
                  /\ sw.kind # "query" => Place(sw) \notin Undone
                  => Stands(sw, d)
  BY DEF RecordTellsInjection
<1> DEFINE c == cx[r]
           h == HostIs(c.authority, 0)
<1>1. d = Finished(c) /\ Good(profile, c) /\ record[r].facts = c.facts /\ scene \in Scenes
  BY SentIs
<1> HIDE DEF c
<1>2. /\ Range(d.hdr) \cup Range(d.query) \subseteq Values(c) \cup {h} /\ ~IsCredential(h)
      /\ DOMAIN d.hdr = (DOMAIN c.hdr \cup {"host"}) \ HOP_BY_HOP
      /\ \A n \in DOMAIN d.hdr \ Undone : n \in DOMAIN c.hdr /\ d.hdr[n] = c.hdr[n]
      /\ d.query = c.query
  BY <1>1, FinishedIs
<1> HIDE DEF h
<1>3. ASSUME NEW v \in Range(d.hdr) \cup Range(d.query), IsCredential(v)
      PROVE  \E i \in DOMAIN profile.swaps :
                /\ v.of \in Range(profile.swaps[i].sources)
                /\ <<"injected", profile.swaps[i].name>> \in record[r].facts
  <2>1. v \in Values(c)
    BY <1>2, <1>3
  <2>2. PICK i \in DOMAIN profile.swaps : Owns(profile.swaps[i], v, c) /\ Said(profile, c, i)
    BY <1>1, <1>3, <2>1 DEF Good, Owned
  <2> QED BY <1>1, <2>2 DEF Owns, Said
<1>4. ASSUME NEW i \in DOMAIN profile.swaps,
             <<"injected", profile.swaps[i].name>> \in record[r].facts,
             \A j \in DOMAIN profile.swaps : profile.swaps[j].name = profile.swaps[i].name => j = i,
             profile.swaps[i].kind # "query" => Place(profile.swaps[i]) \notin Undone
      PROVE  Stands(profile.swaps[i], d)
  <2>1. Stands(profile.swaps[i], c)
    BY <1>1, <1>4 DEF Good, Kept, Said
  <2>2. CASE profile.swaps[i].kind = "query"
    BY <1>2, <2>1, <2>2 DEF Stands
  <2>3. CASE profile.swaps[i].kind # "query"
    <3>1. Place(profile.swaps[i]) \in DOMAIN c.hdr /\ IsCredential(c.hdr[Place(profile.swaps[i])])
      BY <2>1, <2>3 DEF Stands
    <3>2. Place(profile.swaps[i]) \in DOMAIN d.hdr
      BY <1>2, <1>4, <2>3, <3>1 DEF Undone
    <3> QED BY <1>2, <1>4, <2>3, <3>1, <3>2 DEF Stands
  <2> QED BY <2>2, <2>3
<1> QED BY <1>3, <1>4

LEMMA SignedIsSent ==
  ASSUME Base
  PROVE  SignatureCoversWhatIsSent
<1> SUFFICES ASSUME NEW r \in Reqs, NEW d \in sent[r], NEW g \in d.sig
             PROVE  /\ g.path = d.path
                    /\ d.handle # "empty" => g.content = d.content
                    /\ ~d.routed /\ g.host = HostIs(d.asked, 0) => g.host = d.hdr.host
                    /\ QueriesFirst(profile) => g.query = d.query
  BY DEF SignatureCoversWhatIsSent, QueriesFirst
<1> DEFINE c == cx[r]
<1>1. d = Finished(c) /\ Good(profile, c) /\ scene \in Scenes
  BY SentIs
<1> HIDE DEF c
<1>2. /\ d.hdr.host = HostIs(c.authority, 0) /\ d.asked = c.asked /\ d.path = c.path
      /\ d.query = c.query /\ d.content = c.content /\ d.handle = c.handle
      /\ d.routed = c.routed /\ d.sig = c.sig
  BY <1>1, FinishedIs
<1>3. /\ g.path = c.path /\ (c.handle # "empty" => g.content = c.content)
      /\ (QueriesFirst(profile) => g.query = c.query)
  BY <1>1, <1>2 DEF Good, Covered
<1>4. ~c.routed => c.authority = c.asked
  BY <1>1 DEF Good, ClientsOwn
<1> QED BY <1>2, <1>3, <1>4

LEMMA TypesAre ==
  ASSUME Base
  PROVE  TypeOK
<1>1. \A r \in Reqs : at[r] \in 1..(Len(profile.swaps) + 1)
  BY Profiled, SwapsAre DEF Base, Typed
<1> QED BY <1>1 DEF Base, Typed, TypeOK, PC

\* A request is where it is with everything its steps have left it: a context
\* that has been filtered, routed and swapped as far as it has come, a record
\* that agrees with it, and one holder of each minting lock (mitm.rs:
\* handle_request; swap.rs: apply; source.rs: refresh_token).
THEOREM EgressBase == Spec => []Base
<1>1. Init => Base
  BY InitBase
<1>2. Base /\ [Next]_vars => Base'
  BY NextKeepsBase
<1> QED BY <1>1, <1>2, PTL DEF Spec

\* A credential goes only to a host in the scope of a swap that holds it and to
\* no excepted endpoint, the agent's own only where it was addressed; and all
\* that a host is in scope for go with the request, or it does not leave
\* (swap.rs: SecretInjector::apply; mitm.rs: a transform that cannot do its job
\* must not be skipped).
THEOREM EgressCredentialsGoTogether == Spec => []CredentialsGoTogether
<1>1. Base => CredentialsGoTogether
  BY TypesAre, ScopeIsKept, NothingIsLeftOut DEF CredentialsGoTogether
<1> QED BY <1>1, EgressBase, PTL

\* The audit record names the swap of every credential that left, and no swap
\* that left none (swap.rs: try_set_header, append_query; mitm.rs: emit_audit).
THEOREM EgressRecordTellsInjection == Spec => []RecordTellsInjection
<1>1. Base => RecordTellsInjection
  BY RecordIsTrue
<1> QED BY <1>1, EgressBase, PTL

\* A signature covers what is sent (swap.rs: sign_sigv4), after every rewrite.
THEOREM EgressSignatureCovers == Spec => []SignatureCoversWhatIsSent
<1>1. Base => SignatureCoversWhatIsSent
  BY SignedIsSent
<1> QED BY <1>1, EgressBase, PTL
-----------------------------------------------------------------------------
(* What a label was taught and what it remembers of it. *)

LEMMA AppendIs ==
  ASSUME NEW q \in Seq(Value), NEW v \in Value
  PROVE  /\ Append(q, v) \in Seq(Value) /\ Len(q) \in Nat /\ Len(Append(q, v)) = Len(q) + 1
         /\ DOMAIN q = 1..Len(q) /\ DOMAIN Append(q, v) = 1..(Len(q) + 1)
         /\ \A i \in DOMAIN q : Append(q, v)[i] = q[i]
         /\ Append(q, v)[Len(q) + 1] = v
         /\ Range(Append(q, v)) = Range(q) \cup {v}
<1> DEFINE p == Append(q, v)
<1>1. /\ p \in Seq(Value) /\ Len(q) \in Nat /\ Len(p) = Len(q) + 1
      /\ DOMAIN q = 1..Len(q) /\ DOMAIN p = 1..(Len(q) + 1)
      /\ \A i \in DOMAIN q : p[i] = q[i]
      /\ p[Len(q) + 1] = v
  OBVIOUS
<1> HIDE DEF p
<1>2. Range(p) = Range(q) \cup {v}
  <2>1. \A i \in 1..(Len(q) + 1) : i \in 1..Len(q) \/ i = Len(q) + 1
    BY <1>1
  <2>2. \A i \in 1..Len(q) : i \in 1..(Len(q) + 1)
    BY <1>1
  <2>3. Len(q) + 1 \in 1..(Len(q) + 1)
    BY <1>1
  <2> QED BY <1>1, <2>1, <2>2, <2>3 DEF Range
<1> QED BY <1>1, <1>2 DEF p

\* l is k with v behind it and the first o of k gone.
Shifted(k, l, v, o) ==
    /\ Len(k) \in Nat /\ Len(l) \in Nat /\ Len(l) = Len(k) + 1 - o /\ Len(l) >= 1
    /\ DOMAIN k = 1..Len(k) /\ DOMAIN l = 1..Len(l)
    /\ l[Len(l)] = v
    /\ \A a \in DOMAIN l : a # Len(l) => a + o \in DOMAIN k /\ l[a] = k[a + o]
    /\ \A a \in DOMAIN k : a > o => a - o \in DOMAIN l /\ a - o < Len(l) /\ l[a - o] = k[a]
    /\ (o = 0 \/ (o = 1 /\ Len(k) = Ring))

LEMMA RememberShifts ==
  ASSUME Ring \in Nat, Ring >= 2, NEW k \in Seq(Value), Len(k) <= Ring, NEW v \in Value
  PROVE  \E o \in 0..1 : Shifted(k, Remember(k, v), v, o)
<1> DEFINE l == Remember(k, v)
           o == IF Len(k) = Ring THEN 1 ELSE 0
<1>1. /\ l \in Seq(Value) /\ Len(l) = Len(k) + 1 - o
      /\ l[Len(l)] = v
      /\ \A a \in 1..(Len(l) - 1) : l[a] = k[a + o] /\ a + o \in DOMAIN k
  BY RememberIs
<1>2. /\ o \in 0..1 /\ (o = 0 \/ (o = 1 /\ Len(k) = Ring))
      /\ Len(k) \in Nat /\ DOMAIN k = 1..Len(k)
  OBVIOUS
<1> HIDE DEF l, o
<1>3. Len(l) \in Nat /\ DOMAIN l = 1..Len(l) /\ Len(l) >= 1
  <2>1. Len(l) \in Nat /\ DOMAIN l = 1..Len(l)
    BY <1>1
  <2> DEFINE m == Len(l)
             n == Len(k)
  <2>2. m = n + 1 - o /\ n \in Nat /\ o \in 0..1 /\ (o = 0 \/ n = Ring) /\ Ring >= 2 /\ Ring \in Nat
    BY <1>1, <1>2
  <2> HIDE DEF m, n
  <2>3. m >= 1
    BY <2>2
  <2> QED BY <2>1, <2>3 DEF m
<1>4. \A a \in DOMAIN l : a # Len(l) => a + o \in DOMAIN k /\ l[a] = k[a + o]
  <2>1. \A a \in 1..Len(l) : a # Len(l) => a \in 1..(Len(l) - 1)
    <3> DEFINE m == Len(l)
    <3>1. m \in Nat
      BY <1>3
    <3> HIDE DEF m
    <3>2. \A a \in 1..m : a # m => a \in 1..(m - 1)
      BY <3>1
    <3> QED BY <3>2 DEF m
  <2> QED BY <1>1, <1>3, <2>1
<1>5. ASSUME NEW a \in DOMAIN k, a > o
      PROVE  a - o \in DOMAIN l /\ a - o < Len(l) /\ l[a - o] = k[a]
  <2> DEFINE m == Len(l)
             n == Len(k)
  <2>0. m = n + 1 - o /\ n \in Nat /\ o \in 0..1 /\ m \in Nat /\ a \in 1..n /\ a > o
    BY <1>1, <1>2, <1>3, <1>5
  <2>1. a - o \in 1..(m - 1) /\ (a - o) + o = a /\ a - o < m /\ a - o \in 1..m
    <3> HIDE DEF m, n
    <3> QED BY <2>0
  <2>2. l[a - o] = k[(a - o) + o]
    BY <1>1, <2>1
  <2> QED BY <1>3, <2>1, <2>2
<1>6. Shifted(k, l, v, o)
  BY <1>1, <1>2, <1>3, <1>4, <1>5 DEF Shifted
<1> QED BY <1>2, <1>6 DEF l

LEMMA ShiftedRange ==
  ASSUME NEW k, NEW l, NEW v, NEW o \in 0..1, Shifted(k, l, v, o)
  PROVE  Range(l) \subseteq Range(k) \cup {v} /\ v \in Range(l)
<1> DEFINE m == Len(l)
<1>0. m \in Nat /\ m >= 1 /\ DOMAIN l = 1..m
  BY DEF Shifted
<1>1. Len(l) \in DOMAIN l /\ l[Len(l)] = v
  <2>1. m \in DOMAIN l
    <3> HIDE DEF m
    <3> QED BY <1>0
  <2> QED BY <2>1 DEF Shifted
<1> HIDE DEF m
<1>2. \A a \in DOMAIN l : l[a] = v \/ \E b \in DOMAIN k : l[a] = k[b]
  BY DEF Shifted
<1> QED BY <1>1, <1>2 DEF Range

\* A new access token, or a refresh token, is taught and remembered: what is
\* dropped for it was the oldest of a ringful.
LEMMA OwnRingGrows ==
  ASSUME Ring \in Nat, Ring >= 2, NEW s, NEW acc \in Nat, NEW ref, NEW acc2 \in Nat,
         NEW q \in Seq(Value), NEW k \in Seq(Value), NEW v \in Value,
         NEW l, NEW o \in 0..1, Shifted(k, l, v, o),
         OwnTaught(s, q, acc, ref), OwnRing(s, q, k, acc),
         Range(k) \subseteq Range(q), v \notin Range(q),
         v.by = "access" => v = Access(s, acc2) /\ acc2 = acc + 1,
         v.by # "access" => acc2 = acc
  PROVE  OwnRing(s, Append(q, v), l, acc2)
<1> DEFINE p == Append(q, v)
<1>1. /\ Len(q) \in Nat /\ Len(p) = Len(q) + 1 /\ DOMAIN q = 1..Len(q) /\ DOMAIN p = 1..(Len(q) + 1)
      /\ \A i \in DOMAIN q : p[i] = q[i]
      /\ p[Len(q) + 1] = v
  BY AppendIs
<1> HIDE DEF p
<1>2. /\ Len(k) \in Nat /\ Len(l) = Len(k) + 1 - o /\ Len(l) \in Nat
      /\ DOMAIN k = 1..Len(k) /\ DOMAIN l = 1..Len(l) /\ Len(l) \in DOMAIN l
      /\ l[Len(l)] = v
      /\ \A a \in DOMAIN l : a # Len(l) => a + o \in DOMAIN k /\ l[a] = k[a + o]
      /\ \A a \in DOMAIN k : a > o => a - o \in DOMAIN l /\ a - o < Len(l) /\ l[a - o] = k[a]
      /\ (o = 0 \/ (o = 1 /\ Len(k) = Ring))
  <2>1. Shifted(k, l, v, o)
    OBVIOUS
  <2> DEFINE m == Len(l)
  <2>3. m \in Nat /\ m >= 1 /\ DOMAIN l = 1..m
    BY <2>1 DEF Shifted
  <2> HIDE DEF m
  <2>4. m \in DOMAIN l
    BY <2>3
  <2>2. Len(l) \in DOMAIN l
    BY <2>4 DEF m
  <2> QED BY <2>1, <2>2 DEF Shifted
<1>n. /\ o \in Int /\ \A a \in DOMAIN k : a \in Int /\ 1 <= a /\ a <= Len(k)
      /\ \A a \in DOMAIN l : a \in Int /\ 1 <= a /\ a <= Len(l)
      /\ \A i \in DOMAIN p : i \in Int /\ 1 <= i /\ i <= Len(p)
      /\ Len(k) \in Int /\ Len(l) \in Int /\ Len(p) \in Int /\ Len(q) \in Int
  <2> DEFINE K == Len(k)
             L == Len(l)
             P == Len(p)
             Q == Len(q)
  <2>1. /\ K \in Nat /\ L \in Nat /\ Q \in Nat /\ P = Q + 1 /\ o \in 0..1
        /\ DOMAIN k = 1..K /\ DOMAIN l = 1..L /\ DOMAIN p = 1..(Q + 1)
    BY <1>1, <1>2
  <2> HIDE DEF K, L, P, Q
  <2>2. /\ o \in Int /\ \A a \in DOMAIN k : a \in Int /\ 1 <= a /\ a <= K
        /\ \A a \in DOMAIN l : a \in Int /\ 1 <= a /\ a <= L
        /\ \A i \in DOMAIN p : i \in Int /\ 1 <= i /\ i <= P
        /\ K \in Int /\ L \in Int /\ P \in Int /\ Q \in Int
    BY <2>1
  <2> QED BY <2>2 DEF K, L, P, Q
<1>3. \A m : Access(s, m).by = "access" /\ Access(s, m).n = m
  BY DEF Access, Val
<1>4. ASSUME NEW a \in DOMAIN k
      PROVE  /\ k[a] \in Range(q) /\ k[a] # v
             /\ k[a].by = "access" => k[a] = Access(s, k[a].n) /\ k[a].n \in 1..acc
  <2>1. k[a] \in Range(q)
    BY DEF Range
  <2>2. PICK i \in DOMAIN q : q[i] = k[a]
    BY <2>1 DEF Range
  <2> QED BY <2>1, <2>2 DEF OwnTaught
<1>5. ASSUME NEW a \in DOMAIN l, NEW b \in DOMAIN l, a < b, l[a].by = "access", l[b].by = "access"
      PROVE  l[a].n < l[b].n
  <2>0. a # Len(l)
    BY <1>n, <1>5
  <2>1. a + o \in DOMAIN k /\ l[a] = k[a + o]
    BY <1>2, <2>0
  <2>2. CASE b = Len(l)
    <3>1. l[b].n = acc + 1
      BY <1>2, <1>3, <1>5, <2>2
    <3>2. l[a].n \in 1..acc
      BY <1>4, <1>5, <2>1
    <3> QED BY <3>1, <3>2
  <2>3. CASE b # Len(l)
    <3>1. b + o \in DOMAIN k /\ l[b] = k[b + o]
      BY <1>2, <2>3
    <3>2. a + o < b + o
      BY <1>n, <1>5
    <3> QED BY <1>5, <2>1, <3>1, <3>2 DEF OwnRing
  <2> QED BY <2>2, <2>3
<1>6. ASSUME NEW a \in DOMAIN l, l[a].by = "access", NEW n \in (l[a].n + 1)..acc2
      PROVE  Access(s, n) \in Range(l)
  <2>1. CASE a = Len(l)
    <3>1. l[a].n = acc2 /\ acc2 \in Nat
      BY <1>2, <1>3, <1>6, <2>1
    <3> QED BY <3>1
  <2>2. CASE a # Len(l)
    <3>1. a + o \in DOMAIN k /\ l[a] = k[a + o]
      BY <1>2, <2>2
    <3>2. k[a + o].n \in 1..acc
      BY <1>4, <1>6, <3>1
    <3>3. CASE n <= acc
      <4>1. n \in (k[a + o].n + 1)..acc
        BY <1>6, <3>1, <3>2, <3>3
      <4>2. Access(s, n) \in Range(k)
        BY <1>6, <3>1, <4>1 DEF OwnRing
      <4>3. PICK b \in DOMAIN k : k[b] = Access(s, n)
        BY <4>2 DEF Range
      <4>4. b > a + o
        <5>1. b \in Int /\ a + o \in Int
          BY <1>n
        <5>2. k[b].n = n /\ k[b].by = "access" /\ k[b].n > k[a + o].n
          BY <1>3, <3>2, <4>1, <4>3
        <5>3. CASE b = a + o
          BY <3>2, <5>2, <5>3
        <5>4. CASE b < a + o
          <6>1. k[b].n < k[a + o].n
            BY <1>6, <3>1, <5>2, <5>4 DEF OwnRing
          <6> QED BY <3>2, <5>2, <6>1
        <5> QED BY <5>1, <5>3, <5>4
      <4>5. b > o
        BY <1>n, <4>4
      <4>6. b - o \in DOMAIN l /\ l[b - o] = Access(s, n)
        BY <1>2, <4>3, <4>5
      <4> QED BY <4>6 DEF Range
    <3>4. CASE ~(n <= acc)
      <4>1. v.by = "access" /\ n = acc2
        BY <1>6, <3>2, <3>4
      <4> QED BY <1>2, <4>1 DEF Range
    <3> QED BY <3>3, <3>4
  <2> QED BY <2>1, <2>2
<1>7. ASSUME NEW i \in DOMAIN p, p[i].by = "access"
      PROVE  /\ p[i] \notin Range(l) => Len(p) - i >= Ring
             /\ \A a \in DOMAIN l : l[a] = p[i] => Len(p) - i >= Len(l) - a
  <2>1. CASE i = Len(q) + 1
    <3>1. p[i] = v
      BY <1>1, <2>1
    <3>2. \A a \in DOMAIN l : l[a] = v => a = Len(l)
      BY <1>2, <1>4
    <3>3. v \in Range(l)
      BY <1>2 DEF Range
    <3>4. Len(p) - i = 0 /\ Len(l) - Len(l) = 0
      BY <1>1, <1>n, <2>1
    <3> QED BY <3>1, <3>2, <3>3, <3>4
  <2>2. CASE i # Len(q) + 1
    <3>1. i \in DOMAIN q /\ p[i] = q[i] /\ q[i].by = "access" /\ q[i] # v
      <4>1. i \in DOMAIN q
        BY <1>1, <2>2
      <4> QED BY <1>1, <1>7, <4>1 DEF Range
    <3>2. ASSUME p[i] \notin Range(l)
          PROVE  Len(p) - i >= Ring
      <4>1. CASE q[i] \notin Range(k)
        <5>1. Len(q) - i >= Ring
          BY <3>1, <4>1 DEF OwnRing
        <5> QED BY <1>1, <3>1, <5>1
      <4>2. CASE q[i] \in Range(k)
        <5>1. PICK b \in DOMAIN k : k[b] = q[i]
          BY <4>2 DEF Range
        <5>2. ~(b > o)
          BY <1>2, <3>1, <3>2, <5>1 DEF Range
        <5>3. b = 1 /\ o = 1 /\ Len(k) = Ring
          <6>1. b \in Int /\ 1 <= b /\ o \in 0..1 /\ (o = 0 \/ (o = 1 /\ Len(k) = Ring))
            BY <1>n, <1>2
          <6> QED BY <5>2, <6>1
        <5>4. Len(q) - i >= Len(k) - b
          BY <3>1, <5>1 DEF OwnRing
        <5> QED BY <1>1, <3>1, <5>3, <5>4
      <4> QED BY <4>1, <4>2
    <3>3. ASSUME NEW a \in DOMAIN l, l[a] = p[i]
          PROVE  Len(p) - i >= Len(l) - a
      <4>1. a # Len(l)
        BY <1>2, <3>1, <3>3
      <4>2. a + o \in DOMAIN k /\ k[a + o] = q[i]
        BY <1>2, <3>1, <3>3, <4>1
      <4>3. Len(q) - i >= Len(k) - (a + o)
        BY <3>1, <4>2 DEF OwnRing
      <4>4. Len(p) = Len(q) + 1 /\ Len(l) = Len(k) + 1 - o
        BY <1>1, <1>2
      <4> QED BY <1>n, <4>3, <4>4
    <3> QED BY <3>2, <3>3
  <2> QED BY <2>1, <2>2
<1>8. OwnRing(s, p, l, acc2)
  BY <1>5, <1>6, <1>7 DEF OwnRing
<1> QED BY <1>8 DEF p

\* The access token that was handed out last is taught again, or the next.
LEMMA AccessTaught ==
  ASSUME NEW s \in Name, NEW acc \in Nat, NEW ref \in Nat, NEW q \in Seq(Value), NEW n \in Nat,
         OwnTaught(s, q, acc, ref),
         (n = acc /\ acc > 0) \/ n = acc + 1
  PROVE  LET a == Access(s, n)
             p == Note(q, a)
         IN  /\ OwnTaught(s, p, n, ref) /\ p \in Seq(Value)
             /\ n = acc => a \in Range(q) /\ p = q
             /\ n # acc => a \notin Range(q) /\ p = Append(q, a)
             /\ a \in Range(p)
<1> DEFINE a == Access(s, n)
           p == Note(q, a)
<1>1. a \in Value /\ a.by = "access" /\ a.n = n
  BY ValuesAre DEF Access, Val
<1>2. p \in Seq(Value) /\ (a \in Range(q) => p = q) /\ (a \notin Range(q) => p = Append(q, a))
  BY <1>1, NoteIs
<1>3. CASE n = acc /\ acc > 0
  <2>1. a \in Range(q)
    <3>1. n \in 1..acc
      BY <1>3
    <3> QED BY <3>1 DEF OwnTaught
  <2> QED BY <1>2, <1>3, <2>1
<1>4. CASE n = acc + 1
  <2>1. a \notin Range(q)
    <3> SUFFICES ASSUME NEW i \in DOMAIN q, q[i] = a PROVE FALSE
      BY DEF Range
    <3>1. q[i].n \in 1..acc
      BY <1>1 DEF OwnTaught
    <3> QED BY <1>1, <1>4, <3>1
  <2>2. p = Append(q, a)
    BY <1>2, <2>1
  <2>3. /\ Len(q) \in Nat /\ Len(p) = Len(q) + 1 /\ DOMAIN q = 1..Len(q) /\ DOMAIN p = 1..(Len(q) + 1)
        /\ \A i \in DOMAIN q : p[i] = q[i]
        /\ p[Len(q) + 1] = a /\ Range(p) = Range(q) \cup {a}
    BY <1>1, <2>2, AppendIs
  <2>a. a = Access(s, n)
    OBVIOUS
  <2> HIDE DEF p, a
  <2>4. \A i \in DOMAIN p : i \in DOMAIN q \/ i = Len(q) + 1
    BY <2>3
  <2>5. ASSUME NEW i \in DOMAIN p
        PROVE  \/ p[i].by = "access" /\ p[i] = Access(s, p[i].n) /\ p[i].n \in 1..n
               \/ p[i].by = "refresh" /\ p[i] = Refresh(s, p[i].n) /\ p[i].n \in 1..ref
    <3>1. CASE i \in DOMAIN q
      <4>1. p[i] = q[i]
        BY <2>3, <3>1
      <4>2. \A m \in 1..acc : m \in 1..n
        BY <1>4
      <4> QED BY <3>1, <4>1, <4>2 DEF OwnTaught
    <3>2. CASE i = Len(q) + 1
      <4>1. n \in 1..n
        BY <1>4
      <4> QED BY <1>1, <2>3, <2>a, <3>2, <4>1
    <3> QED BY <2>4, <3>1, <3>2
  <2>6. ASSUME NEW m \in 1..n
        PROVE  Access(s, m) \in Range(p)
    <3>1. CASE m = n
      BY <2>3, <2>a, <3>1
    <3>2. CASE m # n
      <4>1. m \in 1..acc
        BY <1>4, <3>2
      <4> QED BY <2>3, <4>1 DEF OwnTaught
    <3> QED BY <3>1, <3>2
  <2>7. ASSUME NEW i \in DOMAIN p, p[i].by = "refresh"
        PROVE  Len(p) - i >= ref - p[i].n
    <3>1. i \in DOMAIN q
      BY <1>1, <2>3, <2>4, <2>7
    <3>2. Len(q) - i >= ref - q[i].n /\ q[i].n \in 1..ref
      BY <1>1, <2>3, <2>7, <3>1 DEF OwnTaught
    <3> QED BY <2>3, <3>1, <3>2
  <2>8. OwnTaught(s, p, n, ref)
    BY <2>5, <2>6, <2>7 DEF OwnTaught
  <2> QED BY <1>4, <2>1, <2>2, <2>3, <2>8, <1>2 DEF p, a
<1> QED BY <1>3, <1>4

\* A new refresh token follows.
LEMMA RefreshTaught ==
  ASSUME NEW s \in Name, NEW acc \in Nat, NEW ref \in Nat, NEW q \in Seq(Value), NEW k, k = ref + 1,
         OwnTaught(s, q, acc, ref)
  PROVE  LET b == Refresh(s, k)
             p == Note(q, b)
         IN  /\ OwnTaught(s, p, acc, k) /\ p \in Seq(Value)
             /\ b \notin Range(q) /\ p = Append(q, b) /\ Range(p) = Range(q) \cup {b}
<1> DEFINE b == Refresh(s, k)
           p == Note(q, b)
<1>0. k \in Nat
  OBVIOUS
<1>1. b \in Value /\ b.by = "refresh" /\ b.n = k
  BY <1>0, ValuesAre DEF Refresh, Val
<1>2. b \notin Range(q)
  <2> SUFFICES ASSUME NEW i \in DOMAIN q, q[i] = b PROVE FALSE
    BY DEF Range
  <2>1. q[i].n \in 1..ref
    BY <1>1 DEF OwnTaught
  <2> QED BY <1>1, <2>1
<1>3. p = Append(q, b) /\ p \in Seq(Value)
  BY <1>1, <1>2, NoteIs
<1>a. b = Refresh(s, k)
  OBVIOUS
<1> HIDE DEF p, b
<1>4. /\ Len(q) \in Nat /\ Len(p) = Len(q) + 1 /\ DOMAIN q = 1..Len(q) /\ DOMAIN p = 1..(Len(q) + 1)
      /\ \A i \in DOMAIN q : p[i] = q[i]
      /\ p[Len(q) + 1] = b /\ Range(p) = Range(q) \cup {b}
  BY <1>1, <1>3, AppendIs
<1>5. \A i \in DOMAIN p : i \in DOMAIN q \/ i = Len(q) + 1
  BY <1>4
<1>6. ASSUME NEW i \in DOMAIN p
      PROVE  \/ p[i].by = "access" /\ p[i] = Access(s, p[i].n) /\ p[i].n \in 1..acc
             \/ p[i].by = "refresh" /\ p[i] = Refresh(s, p[i].n) /\ p[i].n \in 1..k
  <2>1. CASE i \in DOMAIN q
    <3>1. p[i] = q[i]
      BY <1>4, <2>1
    <3>2. \A m \in 1..ref : m \in 1..k
      OBVIOUS
    <3> QED BY <2>1, <3>1, <3>2 DEF OwnTaught
  <2>2. CASE i = Len(q) + 1
    <3>1. k \in 1..k
      OBVIOUS
    <3> QED BY <1>1, <1>4, <1>a, <2>2, <3>1
  <2> QED BY <1>5, <2>1, <2>2
<1>7. \A m \in 1..acc : Access(s, m) \in Range(p)
  BY <1>4 DEF OwnTaught
<1>8. ASSUME NEW i \in DOMAIN p, p[i].by = "refresh"
      PROVE  Len(p) - i >= k - p[i].n
  <2>1. CASE i \in DOMAIN q
    <3>1. p[i] = q[i]
      BY <1>4, <2>1
    <3>2. Len(q) - i >= ref - q[i].n /\ q[i].n \in 1..ref
      BY <1>1, <1>8, <2>1, <3>1 DEF OwnTaught
    <3> QED BY <1>4, <2>1, <3>1, <3>2
  <2>2. CASE i = Len(q) + 1
    BY <1>0, <1>1, <1>4, <2>2
  <2> QED BY <1>5, <2>1, <2>2
<1>9. OwnTaught(s, p, acc, k)
  BY <1>6, <1>7, <1>8 DEF OwnTaught
<1> QED BY <1>2, <1>3, <1>4, <1>9 DEF p, b

\* The same access token again, when the redactor has dropped it: it has
\* dropped the older ones too.
LEMMA OwnRingAgain ==
  ASSUME NEW s \in Name, NEW acc \in Nat, NEW ref,
         NEW q \in Seq(Value), NEW k \in Seq(Value), NEW a, a = Access(s, acc),
         NEW l, NEW o \in 0..1, Shifted(k, l, a, o),
         OwnTaught(s, q, acc, ref), OwnRing(s, q, k, acc),
         Range(k) \subseteq Range(q), a \notin Range(k)
  PROVE  OwnRing(s, q, l, acc)
<1>1. a.by = "access" /\ a.n = acc
  BY DEF Access, Val
<1>2. /\ Len(l) \in Nat /\ DOMAIN l = 1..Len(l) /\ l[Len(l)] = a
      /\ \A i \in DOMAIN l : i # Len(l) => i + o \in DOMAIN k /\ l[i] = k[i + o]
      /\ a \in Range(l)
  <2>1. a \in Range(l)
    BY ShiftedRange
  <2> QED BY <2>1 DEF Shifted
<1>n. \A i \in DOMAIN l : i \in Int /\ i <= Len(l)
  BY <1>2
<1>3. ASSUME NEW i \in DOMAIN k
      PROVE  k[i].by # "access"
  <2> SUFFICES ASSUME k[i].by = "access" PROVE FALSE
    OBVIOUS
  <2>1. PICK j \in DOMAIN q : q[j] = k[i]
    BY DEF Range
  <2>2. k[i] = Access(s, k[i].n) /\ k[i].n \in 1..acc
    BY <2>1 DEF OwnTaught
  <2>3. CASE k[i].n = acc
    BY <2>2, <2>3 DEF Range
  <2>4. CASE k[i].n # acc
    <3>1. acc \in (k[i].n + 1)..acc
      BY <2>2, <2>4
    <3>2. Access(s, acc) \in Range(k)
      BY <3>1 DEF OwnRing
    <3> QED BY <3>2
  <2> QED BY <2>3, <2>4
<1>4. \A i \in DOMAIN l : l[i].by = "access" => i = Len(l)
  BY <1>2, <1>3
<1>5. ASSUME NEW i \in DOMAIN l, NEW j \in DOMAIN l, i < j, l[i].by = "access", l[j].by = "access"
      PROVE  l[i].n < l[j].n
  BY <1>4, <1>5, <1>n
<1>6. ASSUME NEW i \in DOMAIN l, l[i].by = "access", NEW n \in (l[i].n + 1)..acc
      PROVE  Access(s, n) \in Range(l)
  <2>1. l[i].n = acc
    BY <1>1, <1>2, <1>4, <1>6
  <2> QED BY <2>1
<1>7. ASSUME NEW i \in DOMAIN q, q[i].by = "access"
      PROVE  /\ q[i] \notin Range(l) => Len(q) - i >= Ring
             /\ \A j \in DOMAIN l : l[j] = q[i] => Len(q) - i >= Len(l) - j
  <2>1. q[i] \notin Range(k)
    BY <1>3, <1>7 DEF Range
  <2>2. Len(q) - i >= Ring
    BY <1>7, <2>1 DEF OwnRing
  <2>3. ASSUME NEW j \in DOMAIN l, l[j] = q[i]
        PROVE  Len(q) - i >= Len(l) - j
    <3>1. j = Len(l)
      BY <1>4, <1>7, <2>3
    <3>2. i \in 1..Len(q) /\ Len(q) \in Nat
      OBVIOUS
    <3> QED BY <1>2, <3>1, <3>2
  <2> QED BY <2>2, <2>3
<1> QED BY <1>5, <1>6, <1>7 DEF OwnRing

\* What is presented is known, and comes last.
LEMMA PresentedTaught ==
  ASSUME Ring \in Nat, Ring >= 2, NEW s \in Name, NEW ref \in Nat,
         NEW q \in Seq(Value), Presented(s, q, ref)
  PROVE  LET v == Refresh(s, ref)
             p == Note(q, v)
         IN  /\ Presented(s, p, ref) /\ p \in Seq(Value) /\ v \in Range(p)
             /\ v \in Range(q) => p = q /\ q[Len(q)] = v /\ Len(q) \in Nat \ {0}
             /\ v \notin Range(q) => p = Append(q, v)
<1> DEFINE v == Refresh(s, ref)
           p == Note(q, v)
<1>1. v \in Value /\ v.by = "refresh" /\ v.n = ref
  BY ValuesAre DEF Refresh, Val
<1>2. p \in Seq(Value) /\ (v \in Range(q) => p = q) /\ (v \notin Range(q) => p = Append(q, v))
  BY <1>1, NoteIs
<1>a. v = Refresh(s, ref)
  OBVIOUS
<1> HIDE DEF v, p
<1>3. Len(q) \in Nat /\ DOMAIN q = 1..Len(q)
  OBVIOUS
<1>4. ASSUME NEW i \in DOMAIN q
      PROVE  q[i].n \in Nat /\ i \in Int /\ 1 <= i /\ i <= Len(q)
  <2>1. q[i] \in Value
    OBVIOUS
  <2> QED BY <1>3, <2>1 DEF Value
<1>5. CASE v \in Range(q)
  <2>1. PICK i \in DOMAIN q : q[i] = v
    BY <1>5 DEF Range
  <2>2. Len(q) \in DOMAIN q /\ Len(q) \in Nat \ {0}
    BY <1>3, <1>4
  <2>3. q[Len(q)].n - q[i].n >= Len(q) - i /\ q[Len(q)].n <= ref
    BY <1>4, <2>2 DEF Presented
  <2>4. i = Len(q)
    <3>1. q[i].n = ref /\ i \in Int /\ i <= Len(q) /\ q[Len(q)].n \in Nat
      BY <1>1, <1>4, <2>1, <2>2
    <3> DEFINE m == q[Len(q)].n
               L == Len(q)
    <3>2. m - ref >= L - i /\ m <= ref /\ i <= L /\ m \in Int /\ L \in Int /\ i \in Int /\ ref \in Int
      BY <2>2, <2>3, <3>1
    <3> HIDE DEF m, L
    <3>3. i = L
      BY <3>2
    <3> QED BY <3>3 DEF L
  <2>5. p = q /\ q[Len(q)] = v
    BY <1>2, <1>5, <2>1, <2>4
  <2>6. Presented(s, p, ref)
    BY <2>5
  <2> QED BY <1>2, <1>5, <2>2, <2>5, <2>6 DEF v, p
<1>6. CASE v \notin Range(q)
  <2>1. p = Append(q, v)
    BY <1>2, <1>6
  <2>2. /\ Len(p) = Len(q) + 1 /\ DOMAIN p = 1..(Len(q) + 1)
        /\ \A i \in DOMAIN q : p[i] = q[i]
        /\ p[Len(q) + 1] = v /\ Range(p) = Range(q) \cup {v}
    BY <1>1, <2>1, AppendIs
  <2>3. \A i \in DOMAIN p : i \in DOMAIN q \/ i = Len(q) + 1
    BY <1>3, <2>2
  <2>4. ASSUME NEW i \in DOMAIN p
        PROVE  p[i] = Refresh(s, p[i].n) /\ p[i].n <= ref
    <3>1. CASE i \in DOMAIN q
      BY <2>2, <3>1 DEF Presented
    <3>2. CASE i = Len(q) + 1
      BY <1>1, <1>a, <2>2, <3>2
    <3> QED BY <2>3, <3>1, <3>2
  <2>5. ASSUME NEW i \in DOMAIN q
        PROVE  ref - q[i].n >= Len(q) + 1 - i
    <3>1. Len(q) \in DOMAIN q
      BY <1>3, <1>4
    <3>2. q[Len(q)].n - q[i].n >= Len(q) - i /\ q[Len(q)].n <= ref
          /\ q[Len(q)] = Refresh(s, q[Len(q)].n)
      BY <1>4, <3>1 DEF Presented
    <3>3. q[Len(q)].n # ref
      <4>1. q[Len(q)] \in Range(q)
        BY <3>1 DEF Range
      <4> QED BY <1>6, <1>a, <3>2, <4>1
    <3> QED BY <1>3, <1>4, <3>1, <3>2, <3>3
  <2>6. ASSUME NEW i \in DOMAIN p, NEW j \in DOMAIN p, i <= j
        PROVE  p[j].n - p[i].n >= j - i
    <3>1. CASE j \in DOMAIN q
      <4>1. i \in DOMAIN q
        <5>1. i \in 1..(Len(q) + 1) /\ j \in 1..Len(q)
          BY <1>3, <2>2, <3>1
        <5> QED BY <1>3, <2>6, <5>1
      <4> QED BY <2>2, <2>6, <3>1, <4>1 DEF Presented
    <3>2. CASE j = Len(q) + 1 /\ i \in DOMAIN q
      BY <1>1, <2>2, <2>5, <3>2
    <3>3. CASE j = Len(q) + 1 /\ i = Len(q) + 1
      BY <1>1, <1>3, <2>2, <3>3
    <3> QED BY <2>3, <3>1, <3>2, <3>3
  <2>7. Presented(s, p, ref)
    BY <2>4, <2>6 DEF Presented
  <2> QED BY <1>6, <2>1, <2>2, <2>7, <1>2 DEF v, p
<1> QED BY <1>5, <1>6 DEF v, p

\* The queue stays the end of what was taught.
LEMMA EndGrows ==
  ASSUME Ring \in Nat, Ring >= 2, NEW q \in Seq(Value), NEW k \in Seq(Value), NEW v \in Value,
         NEW l, NEW o \in 0..1, Shifted(k, l, v, o), Len(l) <= Ring, IsEndOf(k, q)
  PROVE  IsEndOf(l, Append(q, v))
<1> DEFINE p == Append(q, v)
           K == Len(k)
           L == Len(l)
           Q == Len(q)
<1>1. /\ Q \in Nat /\ Len(p) = Q + 1
      /\ \A i \in 1..Q : p[i] = q[i]
      /\ p[Q + 1] = v
  BY AppendIs
<1>2. /\ K \in Nat /\ L \in Nat /\ L = K + 1 - o /\ L >= 1 /\ L <= Ring
      /\ DOMAIN k = 1..K /\ DOMAIN l = 1..L /\ l[L] = v
      /\ \A a \in DOMAIN l : a # L => a + o \in DOMAIN k /\ l[a] = k[a + o]
      /\ (o = 0 \/ (o = 1 /\ K = Ring))
  BY DEF Shifted
<1>3. /\ K <= Q /\ (K = Ring \/ K = Q)
      /\ \A a \in 1..K : k[a] = q[Q - K + a]
  BY <1>2 DEF IsEndOf
<1> HIDE DEF p, K, L, Q
<1>4. L <= Q + 1 /\ (L = Ring \/ L = Q + 1)
  BY <1>1, <1>2, <1>3
<1>5. ASSUME NEW a \in 1..L
      PROVE  l[a] = p[(Q + 1) - L + a]
  <2>1. CASE a = L
    <3>1. (Q + 1) - L + a = Q + 1
      BY <1>1, <1>2, <2>1
    <3> QED BY <1>1, <1>2, <2>1, <3>1
  <2>2. CASE a # L
    <3>1. a + o \in 1..K /\ l[a] = k[a + o]
      BY <1>2, <2>2
    <3>2. k[a + o] = q[Q - K + (a + o)]
      BY <1>3, <3>1
    <3>3. Q - K + (a + o) = (Q + 1) - L + a /\ Q - K + (a + o) \in 1..Q
      BY <1>1, <1>2, <1>3, <3>1
    <3> QED BY <1>1, <3>1, <3>2, <3>3
  <2> QED BY <2>1, <2>2
<1>6. Len(l) <= Len(p) /\ (Len(l) = Ring \/ Len(l) = Len(p))
  BY <1>1, <1>4 DEF L
<1>7. \A a \in DOMAIN l : l[a] = p[Len(p) - Len(l) + a]
  BY <1>1, <1>2, <1>5 DEF L
<1> QED BY <1>6, <1>7 DEF IsEndOf, p

\* What is learned is taught, and remembered unless it is too short.
LEMMA LearnNote ==
  ASSUME Ring \in Nat, Ring >= 2, NEW q \in Seq(Value), NEW k \in Seq(Value), Len(k) <= Ring,
         NEW v \in Value
  PROVE  /\ Range(k) \subseteq Range(q) => Range(Learn(k, v)) \subseteq Range(Note(q, v))
         /\ Range(Note(q, v)) = Range(q) \cup {v}
         /\ v.of \notin profile.short => v \in Range(Learn(k, v))
         /\ v.of \notin profile.short /\ v \notin Range(k) =>
              /\ \E o \in 0..1 : Shifted(k, Learn(k, v), v, o)
              /\ Learn(k, v)[Len(Learn(k, v))] = v /\ Len(Learn(k, v)) \in Nat \ {0}
<1>1. Range(Note(q, v)) = Range(q) \cup {v}
  <2>1. v \notin Range(q) => Range(Append(q, v)) = Range(q) \cup {v}
    BY AppendIs
  <2> QED BY <2>1, NoteIs
<1>2. CASE v.of \in profile.short
  BY <1>1, <1>2, LearnIs
<1>3. CASE v.of \notin profile.short /\ v \in Range(k)
  BY <1>1, <1>3, LearnIs
<1>4. CASE v.of \notin profile.short /\ v \notin Range(k)
  <2> DEFINE l == Learn(k, v)
  <2>1. l = Remember(k, v)
    BY <1>4, LearnIs
  <2>2. PICK o \in 0..1 : Shifted(k, l, v, o)
    BY <2>1, RememberShifts
  <2> HIDE DEF l
  <2>3. Range(l) \subseteq Range(k) \cup {v} /\ v \in Range(l)
    BY <2>2, ShiftedRange
  <2>4. l[Len(l)] = v /\ Len(l) \in Nat /\ Len(l) >= 1
    BY <2>2 DEF Shifted
  <2>5. Len(l) \in Nat \ {0}
    BY <2>4
  <2> QED BY <1>1, <1>4, <2>2, <2>3, <2>4, <2>5 DEF l
<1> QED BY <1>2, <1>3, <1>4

LEMMA OwnLearnsAccess ==
  ASSUME Ring \in Nat, Ring >= 2, NEW s \in Name, s \notin profile.short,
         NEW acc \in Nat, NEW ref \in Nat, NEW n \in Nat, (n = acc /\ acc > 0) \/ n = acc + 1,
         NEW q \in Seq(Value), NEW k \in Seq(Value), Len(k) <= Ring, Range(k) \subseteq Range(q),
         OwnTaught(s, q, acc, ref), OwnRing(s, q, k, acc)
  PROVE  LET a == Access(s, n)
             l == Learn(k, a)
         IN  /\ OwnRing(s, Note(q, a), l, n)
             /\ n # acc => l[Len(l)] = a /\ Len(l) \in Nat \ {0}
<1> DEFINE a == Access(s, n)
           l == Learn(k, a)
           p == Note(q, a)
<1>1. a \in Value /\ a.by = "access" /\ a.of = s
  BY ValuesAre DEF Access, Val
<1>2. /\ n = acc => a \in Range(q) /\ p = q
      /\ n # acc => a \notin Range(q) /\ p = Append(q, a)
  BY AccessTaught
<1>a. a = Access(s, n)
  OBVIOUS
<1>3. /\ a \in Range(k) => l = k
      /\ a \notin Range(k) =>
              /\ \E o \in 0..1 : Shifted(k, l, a, o)
              /\ l[Len(l)] = a /\ Len(l) \in Nat \ {0}
  <2> HIDE DEF a
  <2> QED BY <1>1, LearnNote, LearnIs
<1> HIDE DEF a, l, p
<1>4. CASE n = acc /\ a \in Range(k)
  BY <1>2, <1>3, <1>4 DEF a, l, p
<1>5. CASE n = acc /\ a \notin Range(k)
  <2>1. PICK o \in 0..1 : Shifted(k, l, a, o)
    BY <1>3, <1>5
  <2>2. OwnRing(s, q, l, acc)
    BY <1>a, <1>5, <2>1, OwnRingAgain
  <2> QED BY <1>2, <1>5, <2>2 DEF a, l, p
<1>6. CASE n # acc
  <2>1. a \notin Range(q) /\ a \notin Range(k) /\ p = Append(q, a) /\ n = acc + 1
    BY <1>2, <1>6
  <2>2. PICK o \in 0..1 : Shifted(k, l, a, o)
    BY <1>3, <2>1
  <2>3. OwnRing(s, Append(q, a), l, n)
    BY <1>1, <1>a, <2>1, <2>2, OwnRingGrows
  <2> QED BY <1>3, <2>1, <2>3 DEF a, l, p
<1> QED BY <1>4, <1>5, <1>6

LEMMA OwnLearnsRefresh ==
  ASSUME Ring \in Nat, Ring >= 2, NEW s \in Name, s \notin profile.short,
         NEW acc \in Nat, NEW ref \in Nat, NEW n, n = ref + 1,
         NEW q \in Seq(Value), NEW k \in Seq(Value), Len(k) <= Ring, Range(k) \subseteq Range(q),
         OwnTaught(s, q, acc, ref), OwnRing(s, q, k, acc)
  PROVE  LET b == Refresh(s, n)
             l == Learn(k, b)
         IN  /\ OwnRing(s, Note(q, b), l, acc)
             /\ Len(k) \in Nat \ {0} => k[Len(k)] \in Range(l)
<1> DEFINE b == Refresh(s, n)
           l == Learn(k, b)
           p == Note(q, b)
<1>0. n \in Nat
  OBVIOUS
<1>1. b \in Value /\ b.by = "refresh" /\ b.of = s
  BY <1>0, ValuesAre DEF Refresh, Val
<1>2. b \notin Range(q) /\ p = Append(q, b) /\ b \notin Range(k)
  BY RefreshTaught
<1>3. \E o \in 0..1 : Shifted(k, l, b, o)
  <2> HIDE DEF b
  <2> QED BY <1>1, <1>2, LearnNote
<1> HIDE DEF b, l, p
<1>4. PICK o \in 0..1 : Shifted(k, l, b, o)
  BY <1>3
<1>5. OwnRing(s, Append(q, b), l, acc)
  BY <1>1, <1>2, <1>4, OwnRingGrows
<1>6. ASSUME Len(k) \in Nat \ {0}
      PROVE  k[Len(k)] \in Range(l)
  <2>1. /\ DOMAIN k = 1..Len(k) /\ (o = 0 \/ (o = 1 /\ Len(k) = Ring))
        /\ \A a \in DOMAIN k : a > o => a - o \in DOMAIN l /\ l[a - o] = k[a]
    BY <1>4 DEF Shifted
  <2>2. Len(k) \in DOMAIN k /\ Len(k) > o
    <3> DEFINE K == Len(k)
    <3>1. K \in Nat \ {0} /\ DOMAIN k = 1..K /\ (o = 0 \/ (o = 1 /\ K = Ring))
      BY <1>6, <2>1
    <3> HIDE DEF K
    <3>2. K \in DOMAIN k /\ K > o
      BY <3>1
    <3> QED BY <3>2 DEF K
  <2>3. Len(k) - o \in DOMAIN l /\ l[Len(k) - o] = k[Len(k)]
    BY <2>1, <2>2
  <2> QED BY <2>3 DEF Range
<1> QED BY <1>2, <1>5, <1>6 DEF b, l, p

LEMMA PresentedLearns ==
  ASSUME Ring \in Nat, Ring >= 2, NEW s \in Name, s \notin profile.short, NEW ref \in Nat,
         NEW q \in Seq(Value), NEW k \in Seq(Value), Len(k) <= Ring, Range(k) \subseteq Range(q),
         Presented(s, q, ref), IsEndOf(k, q)
  PROVE  LET v == Refresh(s, ref)
         IN  IsEndOf(Learn(k, v), Note(q, v))
<1> DEFINE v == Refresh(s, ref)
           l == Learn(k, v)
           p == Note(q, v)
<1>1. v \in Value /\ v.of = s
  BY ValuesAre DEF Refresh, Val
<1>2. /\ v \in Range(q) => p = q /\ q[Len(q)] = v /\ Len(q) \in Nat \ {0}
      /\ v \notin Range(q) => p = Append(q, v)
  BY PresentedTaught
<1>3. /\ v \in Range(k) => l = k
      /\ v \notin Range(k) => \E o \in 0..1 : Shifted(k, l, v, o)
      /\ l \in Seq(Value) /\ Len(l) <= Ring
  <2> HIDE DEF v
  <2> QED BY <1>1, LearnNote, LearnIs
<1> HIDE DEF v, l, p
<1>4. CASE v \in Range(q)
  <2> DEFINE K == Len(k)
             Q == Len(q)
  <2>1. /\ K \in Nat /\ DOMAIN k = 1..K /\ Q \in Nat \ {0} /\ (K = Ring \/ K = Q)
        /\ \A a \in 1..K : k[a] = q[Q - K + a]
    BY <1>2, <1>4 DEF IsEndOf
  <2> HIDE DEF K, Q
  <2>2. K \in 1..K /\ Q - K + K = Q
    BY <2>1
  <2>3. k[K] = q[Q]
    BY <2>1, <2>2
  <2>4. v \in Range(k)
    BY <1>2, <1>4, <2>1, <2>2, <2>3 DEF Range, Q
  <2> QED BY <1>2, <1>3, <1>4, <2>4 DEF v, l, p
<1>5. CASE v \notin Range(q)
  <2>1. PICK o \in 0..1 : Shifted(k, l, v, o)
    BY <1>3, <1>5
  <2>2. IsEndOf(l, Append(q, v))
    BY <1>1, <1>3, <2>1, EndGrows
  <2> QED BY <1>2, <1>5, <2>2 DEF v, l, p
<1> QED BY <1>4, <1>5

\* Teaching a minted credential's label one value or two leaves the queues as
\* they should be, and forgets nothing that was taught.
LEMMA TaughtRemembered ==
  ASSUME Typed, Remembered, NEW l \in Labels, l[1] \in Minted, NEW v \in Value, NEW w \in Value,
         v.of = l[1], ~v.enc, w.of = l[1], ~w.enc,
         scene' = scene, DOMAIN ring' = Labels, DOMAIN taught' = Labels,
         \/ ring'[l] = Learn(ring[l], v) /\ taught'[l] = Note(taught[l], v)
         \/ ring'[l] = Learn(Learn(ring[l], v), w) /\ taught'[l] = Note(Note(taught[l], v), w),
         \A m \in Labels : m # l => ring'[m] = ring[m] /\ taught'[m] = taught[m]
  PROVE  /\ Remembered'
         /\ \A m \in Labels : Range(taught[m]) \subseteq Range(taught'[m])
<1>1. Ring \in Nat /\ Ring >= 2 /\ Labels' = Labels /\ profile' = profile /\ Minted' = Minted
  BY Profiled, SameScene DEF Typed
<1>2. /\ ring[l] \in Seq(Value) /\ taught[l] \in Seq(Value) /\ Len(ring[l]) <= Ring
      /\ Range(ring[l]) \subseteq Range(taught[l])
  BY DEF Typed, Remembered
<1> DEFINE k == Learn(ring[l], v)
           q == Note(taught[l], v)
<1>3. k \in Seq(Value) /\ Len(k) <= Ring /\ q \in Seq(Value)
  BY <1>1, <1>2, LearnIs, NoteIs
<1>4. Range(k) \subseteq Range(q) /\ Range(q) = Range(taught[l]) \cup {v}
  BY <1>1, <1>2, LearnNote
<1>5. \/ ring'[l] = k /\ taught'[l] = q
      \/ ring'[l] = Learn(k, w) /\ taught'[l] = Note(q, w)
  OBVIOUS
<1> HIDE DEF k, q
<1>6. Range(Learn(k, w)) \subseteq Range(Note(q, w)) /\ Range(Note(q, w)) = Range(q) \cup {w}
  BY <1>1, <1>3, <1>4, LearnNote
<1>7. /\ Range(ring'[l]) \subseteq Range(taught'[l]) /\ Range(taught[l]) \subseteq Range(taught'[l])
      /\ Range(taught'[l]) \subseteq Range(taught[l]) \cup {v, w}
  BY <1>4, <1>5, <1>6
<1>8. \A x \in Range(taught'[l]) : x.of = l[1] /\ ~x.enc
  BY <1>7 DEF Remembered
<1>9. ASSUME NEW m \in Labels
      PROVE  /\ Range(ring'[m]) \subseteq Range(taught'[m])
             /\ \A x \in Range(taught'[m]) : x.of = m[1] /\ ~x.enc
             /\ m[1] \notin Minted => taught'[m] = <<Static(m[1])>>
             /\ m[1] \notin Minted /\ m[1] \notin profile.short => ring'[m] = <<Static(m[1])>>
  <2>1. CASE m = l
    BY <1>7, <1>8, <2>1
  <2>2. CASE m # l
    BY <2>2 DEF Remembered
  <2> QED BY <2>1, <2>2
<1>10. Remembered'
  BY <1>1, <1>9 DEF Remembered
<1>11. \A m \in Labels : Range(taught[m]) \subseteq Range(taught'[m])
  BY <1>7
<1> QED BY <1>10, <1>11

LEMMA RedactorSame ==
  ASSUME NEW s \in Minted, RedactorOf(s), scene' = scene, token'[s] = token[s], lock'[s] = lock[s],
         \A p \in {"own", "refresh_token", "id_token"} :
            ring'[Label(s, p)] = ring[Label(s, p)] /\ taught'[Label(s, p)] = taught[Label(s, p)]
  PROVE  RedactorOf(s)'
<1>1. profile' = profile
  BY SameScene
<1>2. /\ ring'[Label(s, "own")] = ring[Label(s, "own")]
      /\ ring'[Label(s, "refresh_token")] = ring[Label(s, "refresh_token")]
      /\ taught'[Label(s, "own")] = taught[Label(s, "own")]
      /\ taught'[Label(s, "refresh_token")] = taught[Label(s, "refresh_token")]
      /\ taught'[Label(s, "id_token")] = taught[Label(s, "id_token")]
  OBVIOUS
<1> QED BY <1>1, <1>2 DEF RedactorOf

\* The other credentials' labels are others.
LEMMA OthersSame ==
  ASSUME Redactor, NEW s \in Minted, NEW p, NEW t \in Minted, t # s, scene' = scene,
         token'[t] = token[t], lock'[t] = lock[t],
         \A m \in Labels : m # Label(s, p) => ring'[m] = ring[m] /\ taught'[m] = taught[m]
  PROVE  RedactorOf(t)'
<1>1. \A x \in {"own", "refresh_token", "id_token"} : Label(t, x) \in Labels /\ Label(t, x) # Label(s, p)
  BY LabelsAre, LabelsDiffer
<1>2. RedactorOf(t)
  BY DEF Redactor
<1> QED BY <1>1, <1>2, RedactorSame

LEMMA NamesAre ==
  ASSUME Typed, NEW s \in Minted
  PROVE  s \in Name /\ token[s].access \in Nat /\ token[s].refresh \in Nat
  BY Profiled DEF Minted, IsProfile, Typed, Token

LEMMA MintBeginsKeepsRedactor ==
  ASSUME Base, Remembered, Redactor, NEW r \in Reqs, MintBegins(r)
  PROVE  /\ Remembered' /\ Redactor'
         /\ \A m \in Labels : Range(taught[m]) \subseteq Range(taught'[m])
<1> DEFINE s == Head(Swap(r).sources)
           l == Label(s, "refresh_token")
           v == Refresh(s, token[s].refresh)
<1>1. /\ s \in Minted /\ l \in Labels /\ v \in Value
      /\ ~token[s].live /\ lock[s] = {} /\ lock' = [lock EXCEPT ![s] = {r}]
      /\ DOMAIN ring' = Labels /\ DOMAIN taught' = Labels
      /\ ring'[l] = Learn(ring[l], v) /\ taught'[l] = Note(taught[l], v)
      /\ \A m \in Labels : m # l => ring'[m] = ring[m] /\ taught'[m] = taught[m]
      /\ UNCHANGED <<scene, pc, cx, at, token, sent, record, written>>
  BY MintBeginsIs
<1> HIDE DEF s
<1>2. /\ Ring \in Nat /\ Ring >= 2 /\ profile' = profile /\ Minted' = Minted
      /\ s \in Name /\ token[s].refresh \in Nat
  BY <1>1, Profiled, SameScene, NamesAre DEF Base, Typed
<1>3. /\ l[1] = s /\ v.of = s /\ ~v.enc /\ v.by = "refresh"
  BY DEF Label, Refresh, Val
<1>4. /\ ring[l] \in Seq(Value) /\ taught[l] \in Seq(Value) /\ Len(ring[l]) <= Ring
      /\ Range(ring[l]) \subseteq Range(taught[l])
  BY <1>1 DEF Base, Typed, Remembered
<1>5. RedactorOf(s)
  BY <1>1 DEF Redactor
<1>6. Presented(s, taught'[l], token[s].refresh) /\ v \in Range(taught'[l])
  <2>1. Presented(s, taught[l], token[s].refresh)
    BY <1>5 DEF RedactorOf
  <2> QED BY <1>1, <1>2, <1>4, <2>1, PresentedTaught
<1>7. ASSUME s \notin profile.short
      PROVE  IsEndOf(ring'[l], taught'[l])
  <2>1. Presented(s, taught[l], token[s].refresh) /\ IsEndOf(ring[l], taught[l])
    BY <1>5, <1>7 DEF RedactorOf
  <2> QED BY <1>1, <1>2, <1>4, <1>7, <2>1, PresentedLearns
<1>8. /\ ring'[Label(s, "own")] = ring[Label(s, "own")]
      /\ taught'[Label(s, "own")] = taught[Label(s, "own")]
      /\ taught'[Label(s, "id_token")] = taught[Label(s, "id_token")]
  BY <1>1, LabelsAre, LabelsDiffer
<1>9. ASSUME NEW t, t = s
      PROVE  RedactorOf(t)'
  <2>1. /\ OwnTaught(s, taught'[Label(s, "own")], token'[s].access, token'[s].refresh)
        /\ s \notin profile.short => OwnRing(s, taught'[Label(s, "own")], ring'[Label(s, "own")], token'[s].access)
        /\ taught'[Label(s, "id_token")] = << >>
        /\ ~token'[s].live
    BY <1>1, <1>5, <1>8 DEF RedactorOf
  <2>2. /\ Presented(s, taught'[Label(s, "refresh_token")], token'[s].refresh)
        /\ s \notin profile.short =>
              IsEndOf(ring'[Label(s, "refresh_token")], taught'[Label(s, "refresh_token")])
        /\ Refresh(s, token'[s].refresh) \in Range(taught'[Label(s, "refresh_token")])
    BY <1>1, <1>6, <1>7
  <2> QED BY <1>2, <1>9, <2>1, <2>2 DEF RedactorOf
<1>10. Redactor'
  <2>1. ASSUME NEW t \in Minted
        PROVE  RedactorOf(t)'
    <3>1. CASE t = s
      BY <1>9, <3>1
    <3>2. CASE t # s
      <4>1. token'[t] = token[t] /\ lock'[t] = lock[t] /\ scene' = scene
        BY <1>1, <3>2 DEF Base, Typed
      <4> QED BY <1>1, <3>2, <4>1, OthersSame
    <3> QED BY <3>1, <3>2
  <2> QED BY <1>2, <2>1 DEF Redactor
<1> HIDE DEF l, v
<1>11. Remembered' /\ \A m \in Labels : Range(taught[m]) \subseteq Range(taught'[m])
  BY <1>1, <1>3, TaughtRemembered DEF Base
<1> QED BY <1>10, <1>11

LEMMA MintEndsKeepsRedactor ==
  ASSUME Base, Remembered, Redactor, NEW r \in Reqs, NEW s \in Minted,
         NEW same \in BOOLEAN, NEW rotates \in BOOLEAN,
         NEW n, NEW k, Answers(r, s, same, rotates, n, k)
  PROVE  /\ Remembered' /\ Redactor' /\ Access(s, n) \in Range(taught'[Label(s, "own")])
         /\ \A m \in Labels : Range(taught[m]) \subseteq Range(taught'[m])
<1> DEFINE a == Access(s, n)
           b == Refresh(s, k)
           l == Label(s, "own")
           acc == token[s].access
           ref == token[s].refresh
           q1 == Note(taught[l], a)
           k1 == Learn(ring[l], a)
           q2 == Note(q1, b)
           k2 == Learn(k1, b)
<1>1. /\ n \in Nat /\ k \in Nat /\ k = ref + 1 /\ l \in Labels /\ a \in Value /\ b \in Value
      /\ (n = acc /\ acc > 0) \/ n = acc + 1
      /\ same \/ n # acc
      /\ n > 0
  <2>1. acc \in Nat /\ ref \in Nat
    BY NamesAre DEF Base
  <2> QED BY <2>1 DEF Answers
<1>2. /\ lock' = [lock EXCEPT ![s] = {}]
      /\ token' \in [Minted -> Token] /\ token'[s].access = n
      /\ rotates => token'[s].refresh = k
      /\ ~rotates => token'[s].refresh = ref
      /\ token'[s].live /\ (token'[s].fresh => ~same)
      /\ \A t \in Minted : t # s => token'[t] = token[t]
      /\ DOMAIN ring' = Labels /\ DOMAIN taught' = Labels
      /\ rotates => ring'[l] = k2 /\ taught'[l] = q2
      /\ ~rotates => ring'[l] = k1 /\ taught'[l] = q1
      /\ \A m \in Labels : m # l => ring'[m] = ring[m] /\ taught'[m] = taught[m]
      /\ scene' = scene
  BY DEF Answers, Applied
<1>3. /\ Ring \in Nat /\ Ring >= 2 /\ profile' = profile /\ Minted' = Minted
      /\ s \in Name /\ ref \in Nat /\ acc \in Nat
  BY <1>2, Profiled, SameScene, NamesAre DEF Base, Typed
<1>4. /\ ring[l] \in Seq(Value) /\ taught[l] \in Seq(Value) /\ Len(ring[l]) <= Ring
      /\ Range(ring[l]) \subseteq Range(taught[l])
  BY <1>1 DEF Base, Typed, Remembered
<1>5. RedactorOf(s)
  BY DEF Redactor
<1>6. OwnTaught(s, taught[l], acc, ref)
  BY <1>5 DEF RedactorOf
<1>7. OwnTaught(s, q1, n, ref) /\ q1 \in Seq(Value) /\ a \in Range(q1)
  <2> HIDE DEF l, acc, ref
  <2> QED BY <1>1, <1>3, <1>4, <1>6, AccessTaught
<1>8. k1 \in Seq(Value) /\ Len(k1) <= Ring /\ Range(k1) \subseteq Range(q1)
  <2> HIDE DEF l, a
  <2> QED BY <1>1, <1>3, <1>4, LearnNote, LearnIs
<1>9. OwnTaught(s, q2, n, k) /\ q2 \in Seq(Value) /\ Range(q2) = Range(q1) \cup {b}
  <2> HIDE DEF l, acc, ref, q1
  <2> QED BY <1>1, <1>3, <1>7, RefreshTaught
<1>10. ASSUME s \notin profile.short
       PROVE  /\ OwnRing(s, q1, k1, n) /\ OwnRing(s, q2, k2, n)
              /\ ~same => a \in Range(k1) /\ a \in Range(k2)
  <2>1. OwnRing(s, taught[l], ring[l], acc)
    BY <1>5, <1>10 DEF RedactorOf
  <2>2. OwnRing(s, q1, k1, n) /\ (n # acc => k1[Len(k1)] = a /\ Len(k1) \in Nat \ {0})
    <3> HIDE DEF l, acc, ref
    <3> QED BY <1>1, <1>3, <1>4, <1>6, <1>10, <2>1, OwnLearnsAccess
  <2>3. OwnRing(s, q2, k2, n) /\ (Len(k1) \in Nat \ {0} => k1[Len(k1)] \in Range(k2))
    <3> HIDE DEF l, acc, ref, q1, k1
    <3> QED BY <1>1, <1>3, <1>7, <1>8, <1>10, <2>2, OwnLearnsRefresh
  <2>4. ASSUME ~same
        PROVE  a \in Range(k1) /\ a \in Range(k2)
    <3>1. k1[Len(k1)] = a /\ Len(k1) \in Nat \ {0}
      BY <1>1, <2>2, <2>4
    <3> HIDE DEF k1, a
    <3>2. Len(k1) \in DOMAIN k1
      BY <1>8, <3>1
    <3> QED BY <2>3, <3>1, <3>2 DEF Range
  <2> QED BY <2>2, <2>3, <2>4
<1>11. /\ ring'[Label(s, "refresh_token")] = ring[Label(s, "refresh_token")]
       /\ taught'[Label(s, "refresh_token")] = taught[Label(s, "refresh_token")]
       /\ taught'[Label(s, "id_token")] = taught[Label(s, "id_token")]
  BY <1>2, LabelsAre, LabelsDiffer
<1>12. Presented(s, taught[Label(s, "refresh_token")], token'[s].refresh)
  <2>1. Presented(s, taught[Label(s, "refresh_token")], ref)
    BY <1>5 DEF RedactorOf
  <2>2. taught[Label(s, "refresh_token")] \in Seq(Value)
    BY LabelsAre DEF Base, Typed
  <2> DEFINE q == taught[Label(s, "refresh_token")]
             m == token'[s].refresh
  <2>3. m \in Int /\ ref \in Int /\ m >= ref
    <3>1. m = k \/ m = ref
      BY <1>2
    <3>2. k = ref + 1 /\ ref \in Nat
      BY <1>1, <1>3
    <3> HIDE DEF m, ref
    <3> QED BY <3>1, <3>2
  <2>4. \A i \in DOMAIN q : q[i].n \in Nat
    <3> HIDE DEF q
    <3>1. q \in Seq(Value)
      BY <2>2 DEF q
    <3>2. \A i \in DOMAIN q : q[i] \in Value
      BY <3>1
    <3> QED BY <3>2 DEF Value
  <2> HIDE DEF q, m, ref
  <2>5. Presented(s, q, ref)
    BY <2>1 DEF q
  <2>6. Presented(s, q, m)
    <3>1. \A i \in DOMAIN q : q[i].n <= m
      <4> TAKE i \in DOMAIN q
      <4>1. q[i].n <= ref /\ q[i].n \in Nat
        BY <2>4, <2>5 DEF Presented
      <4> DEFINE x == q[i].n
      <4>2. x \in Int /\ x <= ref
        BY <4>1
      <4> HIDE DEF x
      <4>3. x <= m
        BY <2>3, <4>2
      <4> QED BY <4>3 DEF x
    <3> QED BY <2>5, <3>1 DEF Presented
  <2> QED BY <2>6 DEF q, m
<1>13. ASSUME NEW t, t = s
       PROVE  RedactorOf(t)'
  <2>1. /\ OwnTaught(s, taught'[l], token'[s].access, token'[s].refresh)
        /\ s \notin profile.short =>
              /\ OwnRing(s, taught'[l], ring'[l], token'[s].access)
              /\ token'[s].fresh => Access(s, token'[s].access) \in Range(ring'[l])
    <3>1. CASE rotates
      <4> HIDE DEF q1, k1, q2, k2, l
      <4> QED BY <1>2, <1>9, <1>10, <3>1
    <3>2. CASE ~rotates
      <4> HIDE DEF q1, k1, q2, k2, l
      <4> QED BY <1>2, <1>7, <1>10, <3>2
    <3> QED BY <3>1, <3>2
  <2>2. token'[s].access > 0 /\ lock'[s] = {}
    BY <1>1, <1>2 DEF Base, Typed
  <2>3. s \notin profile.short =>
            IsEndOf(ring[Label(s, "refresh_token")], taught[Label(s, "refresh_token")])
    BY <1>5 DEF RedactorOf
  <2>4. taught[Label(s, "id_token")] = << >>
    BY <1>5 DEF RedactorOf
  <2> QED BY <1>3, <1>11, <1>12, <1>13, <2>1, <2>2, <2>3, <2>4 DEF RedactorOf
<1>14. Redactor'
  <2>1. ASSUME NEW t \in Minted
        PROVE  RedactorOf(t)'
    <3>1. CASE t = s
      BY <1>13, <3>1
    <3>2. CASE t # s
      <4>1. token'[t] = token[t] /\ lock'[t] = lock[t] /\ scene' = scene
        BY <1>2, <3>2 DEF Base, Typed
      <4> QED BY <1>2, <3>2, <4>1, OthersSame
    <3> QED BY <3>1, <3>2
  <2> QED BY <1>3, <2>1 DEF Redactor
<1>15. /\ l[1] = s /\ a.of = s /\ ~a.enc /\ b.of = s /\ ~b.enc
  BY DEF Label, Access, Refresh, Val
<1>16. a \in Range(taught'[l])
  BY <1>2, <1>7, <1>9
<1>17. \/ ring'[l] = Learn(ring[l], a) /\ taught'[l] = Note(taught[l], a)
       \/ ring'[l] = Learn(Learn(ring[l], a), b) /\ taught'[l] = Note(Note(taught[l], a), b)
  BY <1>2
<1> HIDE DEF a, b, l, q1, k1, q2, k2
<1>18. Remembered' /\ \A m \in Labels : Range(taught[m]) \subseteq Range(taught'[m])
  BY <1>1, <1>2, <1>15, <1>17, TaughtRemembered DEF Base
<1> QED BY <1>14, <1>16, <1>18 DEF a, l
-----------------------------------------------------------------------------
(* Every step keeps the part of the invariant that is about secrets. *)

\* What the redactor was told it stays told of.
LEMMA ShownGrows ==
  ASSUME NEW t, \A m \in Labels : Range(taught[m]) \subseteq Range(t[m]),
         NEW w, NEW c, NEW rec, ShownBy(profile, taught, w, c, rec)
  PROVE  ShownBy(profile, t, w, c, rec)
<1>1. ASSUME NEW v, ToldIn(profile, taught, v)
      PROVE  ToldIn(profile, t, v)
  <2>1. v.of \in DOMAIN profile.sources
    BY <1>1 DEF ToldIn
  <2>2. Label(v.of, "own") \in Labels
    BY <2>1 DEF Label, Labels
  <2> QED BY <1>1, <2>2 DEF ToldIn
<1>2. ASSUME NEW v, PresentedIn(profile, taught, v)
      PROVE  PresentedIn(profile, t, v)
  <2>1. v.of \in Minted
    BY <1>2 DEF PresentedIn, Minted
  <2>2. Label(v.of, "refresh_token") \in Labels
    BY <2>1, LabelsAre
  <2> QED BY <1>2, <2>2 DEF PresentedIn
<1> QED BY <1>1, <1>2 DEF ShownBy

LEMMA ShownStays ==
  ASSUME Shown, NEW r \in Reqs, OnlyOf(r),
         \A m \in Labels : Range(taught[m]) \subseteq Range(taught'[m]),
         ShownBy(profile, taught', pc'[r], cx'[r], record'[r])
  PROVE  Shown'
<1>1. profile' = profile
  BY SameScene DEF OnlyOf
<1>2. ASSUME NEW q \in Reqs
      PROVE  ShownBy(profile', taught', pc'[q], cx'[q], record'[q])
  <2>1. CASE q = r
    BY <1>1, <2>1
  <2>2. CASE q # r
    <3>1. ShownBy(profile, taught, pc[q], cx[q], record[q])
      BY DEF Shown
    <3>2. ShownBy(profile, taught', pc[q], cx[q], record[q])
      BY <3>1, ShownGrows
    <3>3. pc'[q] = pc[q] /\ cx'[q] = cx[q] /\ record'[q] = record[q]
      BY <2>2 DEF OnlyOf
    <3> QED BY <1>1, <3>2, <3>3
  <2> QED BY <2>1, <2>2
<1> QED BY <1>2 DEF Shown

\* A record shows of a request what is in it.
LEMMA RecordShows ==
  ASSUME NEW p, NEW t, NEW w, NEW c, NEW rec, ShownBy(p, t, w, c, rec), w # "new",
         NEW response, response \subseteq SecretsIn(c),
         NEW m, \A v \in m : PresentedIn(p, t, v), NEW action, NEW u
  PROVE  ShownBy(p, t, u, c, Record(c, action, m, response))
<1> DEFINE rc == Record(c, action, m, response)
<1>1. rc.message = m /\ \A v \in rc.path \cup rc.headers : v \in Values(c) /\ IsSecret(v)
  BY DEF Record, PathShown, SecretsIn, Values, Range
<1> HIDE DEF rc
<1>2. ShownBy(p, t, u, c, rc)
  BY <1>1 DEF ShownBy
<1> QED BY <1>2 DEF rc

LEMMA SecretsStay ==
  ASSUME Remembered, Redactor, scene' = scene, UNCHANGED secrets
  PROVE  /\ Remembered' /\ Redactor'
         /\ \A m \in Labels : Range(taught[m]) \subseteq Range(taught'[m])
<1>1. profile' = profile /\ Minted' = Minted /\ Labels' = Labels
  BY SameScene
<1>2. token' = token /\ lock' = lock /\ ring' = ring /\ taught' = taught
  BY DEF secrets
<1>3. Remembered'
  BY <1>1, <1>2 DEF Remembered
<1>4. \A s \in Minted : RedactorOf(s)'
  BY <1>2, RedactorSame DEF Redactor
<1> QED BY <1>1, <1>2, <1>3, <1>4 DEF Redactor

\* What has been written in the clear stays forgotten.
LEMMA RecentStays ==
  ASSUME RecentIsHidden, scene' = scene, written' = written
  PROVE  RecentIsHidden'
  BY SameScene DEF RecentIsHidden

\* A step of one request that the redactor has no part in.
LEMMA TurnKeepsSecrets ==
  ASSUME Secrecy, NEW r \in Reqs, OnlyOf(r), UNCHANGED <<secrets, written>>,
         ShownBy(profile, taught, pc'[r], cx'[r], record'[r])
  PROVE  Secrecy'
<1>1. scene' = scene /\ taught' = taught
  BY DEF OnlyOf, secrets
<1>2. /\ Remembered' /\ Redactor'
      /\ \A m \in Labels : Range(taught[m]) \subseteq Range(taught'[m])
  BY <1>1, SecretsStay DEF Secrecy
<1>3. Shown'
  BY <1>1, <1>2, ShownStays DEF Secrecy
<1>4. RecentIsHidden'
  BY <1>1, RecentStays DEF Secrecy
<1> QED BY <1>2, <1>3, <1>4 DEF Secrecy

LEMMA ShownNow ==
  ASSUME Secrecy, NEW r \in Reqs
  PROVE  ShownBy(profile, taught, pc[r], cx[r], record[r])
  BY DEF Secrecy, Shown

\* A request without a credential shows nothing.
LEMMA CleanShows ==
  ASSUME NEW p, NEW t, NEW c, Clean(p, c), NEW w, NEW v, NEW d, NEW rec, ShownBy(p, t, v, d, rec)
  PROVE  ShownBy(p, t, w, c, rec)
  BY DEF ShownBy, Clean, IsCredential

LEMMA ArriveKeepsSecrets ==
  ASSUME IInv, NEW r \in Reqs, Arrive(r)
  PROVE  Secrecy'
<1>1. /\ OnlyOf(r) /\ UNCHANGED <<secrets, written>> /\ record'[r] = record[r]
  BY DEF Arrive, OnlyOf, IInv, Base, Typed, PC
<1>2. Clean(profile, cx'[r])
  BY ArriveKeeps DEF IInv
<1>3. ShownBy(profile, taught, pc'[r], cx'[r], record'[r])
  BY <1>1, <1>2, ShownNow, CleanShows DEF IInv
<1> QED BY <1>1, <1>3, TurnKeepsSecrets DEF IInv

\* A refusal that quotes nothing.
LEMMA RefuseKeepsSecrets ==
  ASSUME IInv, NEW r \in Reqs, pc[r] \in {"prepare", "swap"}, Refuse(r, {}), UNCHANGED secrets
  PROVE  Secrecy'
<1>1. OnlyOf(r)
  BY RefusedIs DEF IInv
<1>2. cx'[r] = cx[r] /\ record'[r] = Record(cx[r], "deny", {}, {}) /\ written' = written
  BY DEF Refuse, IInv, Base, Typed
<1>3. ShownBy(profile, taught, pc[r], cx[r], record[r])
  BY ShownNow DEF IInv
<1>4. ShownBy(profile, taught, pc'[r], cx[r], Record(cx[r], "deny", {}, {}))
  <2>1. pc[r] # "new" /\ {} \subseteq SecretsIn(cx[r]) /\ \A v \in {} : PresentedIn(profile, taught, v)
    OBVIOUS
  <2> QED BY <1>3, <2>1, RecordShows
<1> QED BY <1>1, <1>2, <1>4, TurnKeepsSecrets DEF IInv

LEMMA PrepareKeepsSecrets ==
  ASSUME IInv, NEW r \in Reqs, Prepare(r)
  PROVE  Secrecy'
<1> DEFINE c == SetHeaders(header_filter_apply(cx[r]))
<1>1. pc[r] = "prepare" /\ UNCHANGED secrets
  BY DEF Prepare
<1>2. CASE Refuse(r, {})
  BY <1>1, <1>2, RefuseKeepsSecrets
<1>3. CASE /\ cx' = [cx EXCEPT ![r] = Route(c)] /\ pc' = [pc EXCEPT ![r] = "swap"]
           /\ UNCHANGED <<scene, at, sent, record, written>>
  <2>1. OnlyOf(r) /\ record'[r] = record[r] /\ written' = written /\ cx'[r] = Route(c)
    BY <1>3 DEF OnlyOf, IInv, Base, Typed, PC
  <2>2. Good(profile, cx[r]) /\ Clean(profile, cx[r])
    BY <1>1 DEF IInv, Base, Requests, Request
  <2>3. Clean(profile, Route(c))
    BY <2>2, PrepareKeeps DEF IInv, Base, Typed
  <2>4. ShownBy(profile, taught, pc'[r], cx'[r], record'[r])
    BY <2>1, <2>3, ShownNow, CleanShows DEF IInv
  <2> QED BY <1>1, <2>1, <2>4, TurnKeepsSecrets DEF IInv
<1> QED BY <1>2, <1>3 DEF Prepare

\* The steps that leave the values in the request and its record as they are.
LEMMA QuietKeepsSecrets ==
  ASSUME IInv, NEW r \in Reqs, OnlyOf(r), UNCHANGED <<secrets, written>>,
         pc[r] # "new", Values(cx'[r]) = Values(cx[r]), record'[r] = record[r]
  PROVE  Secrecy'
<1>1. ShownBy(profile, taught, pc[r], cx[r], record[r])
  BY ShownNow DEF IInv
<1>2. ShownBy(profile, taught, pc'[r], cx'[r], record'[r])
  BY <1>1 DEF ShownBy
<1> QED BY <1>2, TurnKeepsSecrets DEF IInv

LEMMA ExcludeKeepsSecrets ==
  ASSUME IInv, NEW r \in Reqs, Exclude(r)
  PROVE  Secrecy'
<1>1. /\ OnlyOf(r) /\ UNCHANGED <<secrets, written>> /\ record'[r] = record[r] /\ pc[r] = "swap"
  BY DEF Exclude, OnlyOf, IInv, Base, Typed, PC
<1>2. Values(cx'[r]) = Values(cx[r])
  BY ExcludeKeepsBase DEF IInv
<1> QED BY <1>1, <1>2, QuietKeepsSecrets

LEMMA SkipKeepsSecrets ==
  ASSUME IInv, NEW r \in Reqs, SwapSkips(r)
  PROVE  Secrecy'
<1>1. Injecting(r)
  BY DEF SwapSkips
<1>2. /\ OnlyOf(r) /\ UNCHANGED <<secrets, written>> /\ record'[r] = record[r] /\ pc[r] = "swap"
      /\ cx'[r] = cx[r]
  BY <1>1, AtSwap DEF SwapSkips, OnlyOf, IInv, Base, Typed, Injecting
<1> QED BY <1>2, QuietKeepsSecrets

\* A static source has been learned at the start.
LEMMA StaticTold ==
  ASSUME Typed, Remembered, NEW s \in DOMAIN profile.sources, profile.sources[s] # "minted"
  PROVE  ToldIn(profile, taught, Static(s))
<1> DEFINE l == Label(s, "own")
           v == Static(s)
<1>1. l \in Labels /\ l[1] = s /\ s \notin Minted
  BY DEF Labels, Label, Minted
<1>2. taught[l] = <<v>>
  BY <1>1 DEF Remembered
<1>3. v.by = "secret" /\ v.of = s
  BY DEF Static, Val
<1> HIDE DEF v
<1>4. v \in Range(taught[l])
  <2>1. 1 \in DOMAIN taught[l] /\ taught[l][1] = v
    BY <1>2
  <2> QED BY <2>1 DEF Range
<1>5. ToldIn(profile, taught, v)
  BY <1>3, <1>4 DEF ToldIn
<1> QED BY <1>5 DEF v

\* A swap shows nothing but its sources' values.
LEMMA AppliedShows ==
  ASSUME IInv, NEW r \in Reqs, NEW kind, Due(r, kind), NEW v, OfSwap(Swap(r), v), v.enc = FALSE,
         Applied(r, v), NEW t, \A m \in Labels : Range(taught[m]) \subseteq Range(t[m]),
         ToldIn(profile, t, v)
  PROVE  /\ OnlyOf(r) /\ written' = written
         /\ ShownBy(profile, t, pc'[r], cx'[r], record'[r])
<1>1. /\ OnlyOf(r)
      /\ \A w \in Values(cx'[r]) :
            \/ w \in Values(cx[r]) \/ w = v \/ w.enc \/ ~IsSecret(w)
            \/ /\ Swap(r).kind = "sigv4"
               /\ \E s \in Range(Swap(r).sources) : w = Static(s)
  BY AppliedIs DEF IInv
<1>2. Injecting(r) /\ pc[r] = "swap"
  BY DEF Due, Injecting
<1>3. written' = written /\ record'[r] = record[r]
  BY DEF Applied
<1>4. ShownBy(profile, taught, pc[r], cx[r], record[r])
  BY ShownNow DEF IInv
<1>5. ShownBy(profile, t, pc[r], cx[r], record[r])
  BY <1>4, ShownGrows
<1>6. ASSUME NEW s \in Range(Swap(r).sources), Swap(r).kind = "sigv4"
      PROVE  ToldIn(profile, t, Static(s))
  <2>1. IsProfile(profile) /\ Swap(r) = profile.swaps[at[r]] /\ at[r] \in DOMAIN profile.swaps
    BY <1>2, AtSwap DEF IInv
  <2>2. IsSwap(Swap(r), profile.sources) /\ s \in DOMAIN profile.sources
    BY <2>1, SwapsAre
  <2>3. profile.sources[s] # "minted"
    BY <1>6, <2>2 DEF IsSwap
  <2>4. ToldIn(profile, taught, Static(s))
    BY <2>2, <2>3, StaticTold DEF IInv, Base, Secrecy
  <2>5. Label(s, "own") \in Labels /\ Static(s).of = s
    BY <2>2 DEF Labels, Label, Static, Val
  <2> QED BY <2>4, <2>5 DEF ToldIn
<1>7. ASSUME NEW w \in Values(cx'[r]), IsSecret(w), ~w.enc
      PROVE  ToldIn(profile, t, w)
  BY <1>1, <1>2, <1>5, <1>6, <1>7 DEF ShownBy
<1>8. ShownBy(profile, t, pc'[r], cx'[r], record'[r])
  BY <1>3, <1>5, <1>7 DEF ShownBy
<1> QED BY <1>1, <1>3, <1>8

LEMMA StaticKeepsSecrets ==
  ASSUME IInv, NEW r \in Reqs, SwapStatic(r)
  PROVE  Secrecy'
<1> DEFINE s == Head(Swap(r).sources)
           v == Static(s)
<1>1. Due(r, "static") /\ pc[r] = "swap" /\ UNCHANGED secrets
  BY DEF SwapStatic, Due, Injecting
<1>2. CASE Refuse(r, {})
  BY <1>1, <1>2, RefuseKeepsSecrets
<1>3. CASE Applied(r, v)
  <2>1. s \in DOMAIN profile.sources /\ OfSwap(Swap(r), v) /\ v.enc = FALSE
        /\ profile.sources[s] = "static"
    BY <1>1, SourceIs DEF IInv
  <2>2. ToldIn(profile, taught, v)
    BY <2>1, StaticTold DEF IInv, Base, Secrecy
  <2> HIDE DEF v
  <2>3. /\ OnlyOf(r) /\ written' = written
        /\ ShownBy(profile, taught, pc'[r], cx'[r], record'[r])
    BY <1>1, <1>3, <2>1, <2>2, AppliedShows
  <2> QED BY <1>1, <2>3, TurnKeepsSecrets DEF IInv
<1> QED BY <1>2, <1>3 DEF SwapStatic

LEMMA UnresolvedKeepsSecrets ==
  ASSUME IInv, NEW r \in Reqs, SwapUnresolved(r)
  PROVE  Secrecy'
<1>1. pc[r] = "swap" /\ UNCHANGED secrets /\ Refuse(r, {})
  BY DEF SwapUnresolved, Due, Injecting
<1> QED BY <1>1, RefuseKeepsSecrets

LEMMA CachedKeepsSecrets ==
  ASSUME IInv, NEW r \in Reqs, SwapCached(r)
  PROVE  Secrecy'
<1> DEFINE s == Head(Swap(r).sources)
           v == Access(s, token[s].access)
<1>1. Due(r, "minted") /\ token[s].live /\ Applied(r, v) /\ UNCHANGED secrets
  BY DEF SwapCached
<1>2. s \in Minted
  BY <1>1, SourceIs DEF Minted, IInv
<1>3. token[s].access \in Nat
  BY <1>2, NamesAre DEF IInv, Base
<1>4. OfSwap(Swap(r), v) /\ v.enc = FALSE
  BY <1>1, <1>3, SourceIs DEF IInv
<1>5. RedactorOf(s)
  BY <1>2 DEF IInv, Secrecy, Redactor
<1> HIDE DEF s
<1>6. v \in Range(taught[Label(s, "own")])
  <2>1. token[s].access > 0 /\ OwnTaught(s, taught[Label(s, "own")], token[s].access, token[s].refresh)
    BY <1>1, <1>5 DEF RedactorOf
  <2>2. token[s].access \in 1..token[s].access
    BY <1>3, <2>1
  <2> QED BY <2>1, <2>2 DEF OwnTaught
<1>7. v.by = "access" /\ v.of = s /\ s \in DOMAIN profile.sources
  BY <1>2, LabelsAre DEF Access, Val
<1> HIDE DEF v
<1>8. ToldIn(profile, taught, v)
  BY <1>6, <1>7 DEF ToldIn
<1>9. /\ OnlyOf(r) /\ written' = written
      /\ ShownBy(profile, taught, pc'[r], cx'[r], record'[r])
  BY <1>1, <1>4, <1>8, AppliedShows
<1> QED BY <1>1, <1>9, TurnKeepsSecrets DEF IInv

LEMMA MintBeginsKeepsSecrets ==
  ASSUME IInv, NEW r \in Reqs, MintBegins(r)
  PROVE  Secrecy'
<1>1. pc[r] = "swap" /\ UNCHANGED <<scene, pc, cx, at, token, sent, record, written>>
  BY DEF MintBegins, Due, Injecting
<1>2. /\ Remembered' /\ Redactor'
      /\ \A m \in Labels : Range(taught[m]) \subseteq Range(taught'[m])
  BY MintBeginsKeepsRedactor DEF IInv, Secrecy
<1>3. OnlyOf(r)
  BY <1>1 DEF OnlyOf, IInv, Base, Typed
<1>4. ShownBy(profile, taught, pc[r], cx[r], record[r])
  BY ShownNow DEF IInv
<1>5. ShownBy(profile, taught', pc'[r], cx'[r], record'[r])
  BY <1>1, <1>2, <1>4, ShownGrows
<1>6. Shown'
  BY <1>2, <1>3, <1>5, ShownStays DEF IInv, Secrecy
<1>7. RecentIsHidden'
  BY <1>1, RecentStays DEF IInv, Secrecy
<1> QED BY <1>2, <1>6, <1>7 DEF Secrecy

LEMMA MintEndsKeepsSecrets ==
  ASSUME IInv, NEW r \in Reqs, MintEnds(r)
  PROVE  Secrecy'
<1>1. PICK s \in Minted, same \in BOOLEAN, rotates \in BOOLEAN : MintsAs(r, s, same, rotates)
  BY MintEndsAs
<1>2. PICK n, k : Answers(r, s, same, rotates, n, k)
  BY <1>1, MintsAsIs DEF IInv
<1> DEFINE v == Access(s, n)
<1>3. /\ Remembered' /\ Redactor' /\ v \in Range(taught'[Label(s, "own")])
      /\ \A m \in Labels : Range(taught[m]) \subseteq Range(taught'[m])
  BY <1>2, MintEndsKeepsRedactor DEF IInv, Secrecy
<1>4. n \in Nat /\ Due(r, "minted") /\ s = Head(Swap(r).sources) /\ Applied(r, v)
  BY <1>2 DEF Answers
<1>5. OfSwap(Swap(r), v) /\ v.enc = FALSE
  BY <1>4, SourceIs DEF IInv
<1>6. v.by = "access" /\ v.of = s /\ s \in DOMAIN profile.sources
  BY LabelsAre DEF Access, Val
<1> HIDE DEF v
<1>7. ToldIn(profile, taught', v)
  BY <1>3, <1>6 DEF ToldIn
<1>8. /\ OnlyOf(r) /\ written' = written
      /\ ShownBy(profile, taught', pc'[r], cx'[r], record'[r])
  BY <1>3, <1>4, <1>5, <1>7, AppliedShows
<1>9. Shown'
  BY <1>3, <1>8, ShownStays DEF IInv, Secrecy
<1>10. RecentIsHidden'
  BY <1>8, RecentStays DEF IInv, Secrecy, OnlyOf
<1> QED BY <1>3, <1>9, <1>10 DEF Secrecy

\* The provider refuses: the lock goes, and what the error may quote was
\* taught when it was taken.
LEMMA MintFailsKeepsSecrets ==
  ASSUME IInv, NEW r \in Reqs, MintFails(r)
  PROVE  Secrecy'
<1>1. PICK s \in Minted, quoted \in BOOLEAN :
        /\ pc[r] = "swap" /\ lock[s] = {r} /\ lock' = [lock EXCEPT ![s] = {}]
        /\ Refuse(r, IF quoted THEN {Refresh(s, token[s].refresh)} ELSE {})
        /\ UNCHANGED <<token, ring, taught>>
  BY DEF MintFails
<1> DEFINE m == IF quoted THEN {Refresh(s, token[s].refresh)} ELSE {}
<1>2. OnlyOf(r) /\ cx'[r] = cx[r] /\ written' = written
      /\ record'[r] = Record(cx[r], "deny", m, {})
  <2>1. OnlyOf(r)
    BY <1>1, RefusedIs DEF IInv
  <2> QED BY <1>1, <2>1 DEF Refuse, IInv, Base, Typed
<1>3. profile' = profile /\ Minted' = Minted /\ Labels' = Labels /\ scene' = scene
  BY <1>2, SameScene DEF OnlyOf
<1>4. RedactorOf(s)
  BY DEF IInv, Secrecy, Redactor
<1>5. \A v \in m : PresentedIn(profile, taught, v)
  <2> DEFINE v == Refresh(s, token[s].refresh)
  <2>1. v \in Range(taught[Label(s, "refresh_token")])
    BY <1>1, <1>4 DEF RedactorOf
  <2>2. v.by = "refresh" /\ v.of = s /\ s \in DOMAIN profile.sources /\ profile.sources[s] = "minted"
    BY DEF Refresh, Val, Minted
  <2> HIDE DEF v
  <2>3. PresentedIn(profile, taught, v)
    BY <2>1, <2>2 DEF PresentedIn
  <2> QED BY <2>3 DEF v
<1> HIDE DEF m
<1>6. ShownBy(profile, taught', pc'[r], cx'[r], record'[r])
  <2>1. ShownBy(profile, taught, pc[r], cx[r], record[r])
    BY ShownNow DEF IInv
  <2>2. pc[r] # "new" /\ {} \subseteq SecretsIn(cx[r])
    BY <1>1
  <2>3. ShownBy(profile, taught, pc'[r], cx[r], Record(cx[r], "deny", m, {}))
    BY <1>5, <2>1, <2>2, RecordShows
  <2> QED BY <1>1, <1>2, <2>3
<1>7. Remembered'
  BY <1>1, <1>3 DEF IInv, Secrecy, Remembered
<1>8. ASSUME NEW t \in Minted
      PROVE  RedactorOf(t)'
  <2>1. RedactorOf(t)
    BY DEF IInv, Secrecy, Redactor
  <2>2. lock'[t] = lock[t] \/ lock'[t] = {}
    BY <1>1 DEF IInv, Base, Typed
  <2> QED BY <1>1, <1>3, <2>1, <2>2 DEF RedactorOf
<1>9. Redactor'
  BY <1>3, <1>8 DEF Redactor
<1>10. Shown'
  BY <1>1, <1>2, <1>6, ShownStays DEF IInv, Secrecy
<1>11. RecentIsHidden'
  BY <1>2, <1>3, RecentStays DEF IInv, Secrecy
<1> QED BY <1>7, <1>9, <1>10, <1>11 DEF Secrecy

LEMMA ExpireKeepsSecrets ==
  ASSUME IInv, NEW s \in Minted, Expire(s)
  PROVE  Secrecy'
<1>1. /\ UNCHANGED <<scene, pc, cx, at, lock, ring, taught, sent, record, written>>
      /\ token' = [token EXCEPT ![s].live = FALSE]
  BY DEF Expire
<1>2. profile' = profile /\ Minted' = Minted /\ Labels' = Labels
  BY <1>1, SameScene
<1>3. Remembered' /\ Shown' /\ RecentIsHidden'
  BY <1>1, <1>2, RecentStays DEF IInv, Secrecy, Remembered, Shown
<1>4. ASSUME NEW t \in Minted
      PROVE  RedactorOf(t)'
  <2>1. RedactorOf(t)
    BY DEF IInv, Secrecy, Redactor
  <2>2. /\ token'[t].access = token[t].access /\ token'[t].refresh = token[t].refresh
        /\ token'[t].fresh = token[t].fresh /\ (token'[t].live => token[t].live)
    BY <1>1 DEF IInv, Base, Typed, Token
  <2> QED BY <1>1, <1>2, <2>1, <2>2 DEF RedactorOf
<1> QED BY <1>2, <1>3, <1>4 DEF Secrecy, Redactor
-----------------------------------------------------------------------------
(* What the logs show. *)

\* What stands behind a value in what a label was taught is newer.
LEMMA NewerIs ==
  ASSUME NEW l, taught[l] \in Seq(Value), NEW i \in DOMAIN taught[l], NEW v, taught[l][i] = v
  PROVE  NewerThan(l, v) >= Len(taught[l]) - i
<1> DEFINE q == taught[l]
           N == Len(q)
           S == {j \in DOMAIN q : \E x \in 1..(j - 1) : q[x] = v}
<1>1. N \in Nat /\ DOMAIN q = 1..N /\ i \in 1..N /\ q[i] = v
  OBVIOUS
<1>2. NewerThan(l, v) = Cardinality(S)
  BY DEF NewerThan
<1> HIDE DEF q, N
<1>3. (i + 1)..N \subseteq S
  BY <1>1
<1>4. S \subseteq 1..N
  BY <1>1
<1> HIDE DEF S
<1>5. IsFiniteSet(1..N) /\ IsFiniteSet((i + 1)..N)
      /\ Cardinality((i + 1)..N) = IF i + 1 > N THEN 0 ELSE N - (i + 1) + 1
  <2>1. 1 \in Int /\ N \in Int /\ i + 1 \in Int
    BY <1>1
  <2> QED BY <2>1, FS_Interval
<1>6. IsFiniteSet(S) /\ Cardinality((i + 1)..N) <= Cardinality(S)
  BY <1>3, <1>4, <1>5, FS_Subset
<1>7. Cardinality(S) \in Nat
  BY <1>6, FS_CardinalityType
<1>8. Cardinality(S) >= N - i
  BY <1>1, <1>5, <1>6, <1>7
<1> QED BY <1>2, <1>8 DEF N, q

\* Of a value that it was told of, the redactor has lost sight only when as
\* many newer ones have followed as it keeps.
LEMMA LostIsForgotten ==
  ASSUME IInv, NEW v, ToldIn(profile, taught, v) \/ PresentedIn(profile, taught, v),
         ~v.enc, v.of \notin profile.short, ~Hidden(v)
  PROVE  Forgotten(v)
<1> DEFINE s == v.of
           own == Label(s, "own")
           ref == Label(s, "refresh_token")
<1>1. /\ s \in DOMAIN profile.sources /\ own \in Labels
      /\ \E l \in Labels : v \in Range(taught[l])
      /\ Ring \in Nat
  <2>1. s \in DOMAIN profile.sources /\ Ring \in Nat
    BY Profiled DEF ToldIn, PresentedIn, IInv, Base, Typed
  <2>2. own \in Labels
    BY <2>1 DEF Labels, Label
  <2>3. CASE ToldIn(profile, taught, v)
    BY <2>1, <2>2, <2>3 DEF ToldIn
  <2>4. CASE PresentedIn(profile, taught, v)
    <3>1. s \in Minted
      BY <2>4 DEF PresentedIn, Minted
    <3>2. ref \in Labels
      BY <3>1, LabelsAre
    <3> QED BY <2>1, <2>2, <2>4, <3>2 DEF PresentedIn
  <2> QED BY <2>3, <2>4
<1>2. \A l \in Labels : v \notin Range(ring[l])
  BY DEF Hidden
<1>3. s \in Minted
  <2> SUFFICES ASSUME s \notin Minted PROVE FALSE
    OBVIOUS
  <2>1. ToldIn(profile, taught, v)
    BY DEF PresentedIn, Minted
  <2>2. own[1] = s
    BY DEF Label
  <2>3. taught[own] = <<Static(s)>> /\ ring[own] = <<Static(s)>>
    BY <1>1, <2>2 DEF IInv, Secrecy, Remembered
  <2>4. v \in Range(taught[own])
    BY <2>1 DEF ToldIn
  <2>5. v \in Range(ring[own])
    BY <2>3, <2>4
  <2> QED BY <1>1, <1>2, <2>5
<1>4. RedactorOf(s) /\ s \notin profile.short /\ own \in Labels /\ ref \in Labels
  BY <1>3, LabelsAre DEF IInv, Secrecy, Redactor
<1>5. token[s].refresh \in Nat
  BY <1>3, NamesAre DEF IInv, Base
<1>6. /\ taught[own] \in Seq(Value) /\ taught[ref] \in Seq(Value)
      /\ ring[own] \in Seq(Value) /\ ring[ref] \in Seq(Value)
  BY <1>4 DEF IInv, Base, Typed
<1>7. /\ OwnTaught(s, taught[own], token[s].access, token[s].refresh)
      /\ Presented(s, taught[ref], token[s].refresh)
      /\ OwnRing(s, taught[own], ring[own], token[s].access)
      /\ IsEndOf(ring[ref], taught[ref])
      /\ taught[Label(s, "id_token")] = << >>
  BY <1>4 DEF RedactorOf
<1> HIDE DEF s, own, ref
<1>8. ASSUME NEW i \in DOMAIN taught[ref], taught[ref][i] = v
      PROVE  /\ v.by = "refresh" /\ Len(taught[ref]) - i >= Ring
             /\ v.n \in Nat /\ token[s].refresh - v.n >= Ring
  <2> DEFINE q == taught[ref]
             k == ring[ref]
             Q == Len(q)
             K == Len(k)
  <2>1. /\ Q \in Nat /\ K \in Nat /\ i \in 1..Q /\ DOMAIN q = 1..Q /\ DOMAIN k = 1..K
        /\ K <= Q /\ (K = Ring \/ K = Q)
        /\ \A a \in DOMAIN k : k[a] = q[Q - K + a]
    BY <1>6, <1>7, <1>8 DEF IsEndOf
  <2>2. v = Refresh(s, v.n)
    BY <1>7, <1>8 DEF Presented
  <2>3. v.by = "refresh"
    BY <2>2 DEF Refresh, Val
  <2>4. v \notin Range(k)
    BY <1>2, <1>4
  <2>5. q[i] = v /\ \A j \in DOMAIN q : q[j] \in Value
    BY <1>6, <1>8
  <2>6. \A j \in DOMAIN q : q[j].n \in Nat /\ q[j].n <= token[s].refresh
    BY <1>7, <2>5 DEF Value, Presented
  <2>7. q[Q].n - q[i].n >= Q - i
    <3>1. Q \in DOMAIN q /\ i \in DOMAIN q /\ i <= Q
      BY <2>1
    <3> QED BY <1>7, <3>1 DEF Presented
  <2> HIDE DEF q, k, Q, K
  <2>8. ~(i > Q - K)
    <3> SUFFICES ASSUME i > Q - K PROVE FALSE
      OBVIOUS
    <3>1. i - (Q - K) \in DOMAIN k /\ Q - K + (i - (Q - K)) = i
      BY <2>1
    <3>2. k[i - (Q - K)] = v
      BY <2>1, <2>5, <3>1
    <3> QED BY <2>4, <3>1, <3>2 DEF Range
  <2>9. Q - i >= Ring
    BY <1>1, <2>1, <2>8
  <2>10. Q \in DOMAIN q /\ i \in DOMAIN q
    BY <2>1
  <2>11. v.n \in Nat /\ q[Q].n \in Nat /\ q[Q].n <= token[s].refresh /\ q[Q].n - v.n >= Q - i
    BY <2>5, <2>6, <2>7, <2>10
  <2>12. token[s].refresh - v.n >= Ring
    <3> DEFINE x == q[Q].n
               y == v.n
               z == token[s].refresh
    <3>1. x \in Nat /\ y \in Nat /\ z \in Nat /\ x <= z /\ x - y >= Q - i /\ Q - i >= Ring
          /\ Q \in Nat /\ i \in Int /\ Ring \in Nat
      BY <1>1, <1>5, <2>1, <2>9, <2>11
    <3> HIDE DEF x, y, z
    <3>2. z - y >= Ring
      BY <3>1
    <3> QED BY <3>2 DEF y, z
  <2> QED BY <2>3, <2>9, <2>11, <2>12 DEF q, Q
<1>9. ASSUME NEW i \in DOMAIN taught[own], taught[own][i] = v
      PROVE  Len(taught[own]) - i >= Ring
  <2>1. CASE v.by = "access"
    <3>1. v \notin Range(ring[own])
      BY <1>2, <1>4
    <3> QED BY <1>7, <1>9, <2>1, <3>1 DEF OwnRing
  <2>2. CASE v.by = "refresh"
    <3>1. v \in Range(taught[ref])
      BY <2>2 DEF ToldIn, PresentedIn, s, ref
    <3>2. PICK j \in DOMAIN taught[ref] : taught[ref][j] = v
      BY <3>1 DEF Range
    <3>3. v.n \in Nat /\ token[s].refresh - v.n >= Ring
      BY <1>8, <3>2
    <3>4. Len(taught[own]) - i >= token[s].refresh - v.n
      BY <1>7, <1>9, <2>2 DEF OwnTaught
    <3>5. Len(taught[own]) \in Nat /\ i \in Int
      BY <1>6
    <3> DEFINE x == v.n
               y == token[s].refresh
               L == Len(taught[own])
    <3>6. x \in Nat /\ y \in Nat /\ L \in Nat /\ i \in Int /\ y - x >= Ring /\ L - i >= y - x
          /\ Ring \in Nat
      BY <1>1, <1>5, <3>3, <3>4, <3>5
    <3> HIDE DEF x, y, L
    <3>7. L - i >= Ring
      BY <3>6
    <3> QED BY <3>7 DEF L
  <2>3. v.by \in {"access", "refresh"}
    BY <1>7, <1>9 DEF OwnTaught
  <2> QED BY <2>1, <2>2, <2>3
<1>10. ASSUME NEW l \in Labels, v \in Range(taught[l])
       PROVE  NewerThan(l, v) >= Ring
  <2>1. PICK i \in DOMAIN taught[l] : taught[l][i] = v
    BY <1>10 DEF Range
  <2>2. l[1] = s
    BY <1>10 DEF IInv, Secrecy, Remembered, s
  <2>3. l = own \/ l = ref \/ l = Label(s, "id_token")
    BY <2>2, LabelIs DEF own, ref
  <2>4. l = own \/ l = ref
    <3>1. l # Label(s, "id_token")
      BY <1>7, <2>1
    <3> QED BY <2>3, <3>1
  <2>5. Len(taught[l]) - i >= Ring
    BY <1>8, <1>9, <2>1, <2>4
  <2>6. taught[l] \in Seq(Value)
    BY <1>6, <2>4
  <2>7. NewerThan(l, v) >= Len(taught[l]) - i
    BY <2>1, <2>6, NewerIs
  <2>8. NewerThan(l, v) \in Int
    <3> DEFINE S == {j \in DOMAIN taught[l] : \E x \in 1..(j - 1) : taught[l][x] = v}
    <3>1. S \subseteq 1..Len(taught[l]) /\ IsFiniteSet(1..Len(taught[l]))
      <4>1. Len(taught[l]) \in Int /\ 1 \in Int
        BY <2>6
      <4>2. IsFiniteSet(1..Len(taught[l]))
        BY <4>1, FS_Interval
      <4> QED BY <2>6, <4>2
    <3> HIDE DEF S
    <3>2. Cardinality(S) \in Nat
      BY <3>1, FS_Subset, FS_CardinalityType
    <3> QED BY <3>2 DEF NewerThan, S
  <2>9. Len(taught[l]) \in Int /\ i \in Int
    BY <2>6
  <2> QED BY <1>1, <2>5, <2>7, <2>8, <2>9
<1> QED BY <1>1, <1>10 DEF Forgotten

\* A sink writes what it cannot find among the learned values.
LEMMA WrittenIsForgotten ==
  ASSUME IInv, NEW r \in Reqs, NEW sink, NEW field, NEW vs,
         vs \subseteq record[r].path \cup record[r].headers \cup record[r].message,
         NEW w \in Written(r, sink, field, Clear(vs))
  PROVE  ~w.value.enc /\ w.value.of \notin profile.short => w.forgotten
<1>1. PICK v \in Clear(vs) :
        w = [req |-> r, sink |-> sink, field |-> field, value |-> v, forgotten |-> Forgotten(v)]
  BY DEF Written
<1>2. v \in vs /\ ~Hidden(v)
  BY DEF Clear
<1>3. w.value = v /\ (w.forgotten <=> Forgotten(v))
  BY <1>1
<1>4. ShownBy(profile, taught, pc[r], cx[r], record[r])
  BY ShownNow DEF IInv
<1>5. ASSUME ~v.enc, v.of \notin profile.short
      PROVE  Forgotten(v)
  <2>1. ToldIn(profile, taught, v) \/ PresentedIn(profile, taught, v)
    BY <1>2, <1>4, <1>5 DEF ShownBy
  <2> QED BY <1>2, <1>5, <2>1, LostIsForgotten
<1> QED BY <1>3, <1>5

LEMMA EmitTracingKeepsSecrets ==
  ASSUME IInv, NEW r \in Reqs, EmitTracing(r)
  PROVE  Secrecy'
<1>1. /\ OnlyOf(r) /\ UNCHANGED secrets /\ record'[r] = record[r] /\ pc[r] = "tracing"
      /\ cx'[r] = cx[r] /\ scene' = scene /\ taught' = taught
  BY DEF EmitTracing, OnlyOf, IInv, Base, Typed, PC, secrets
<1>2. /\ Remembered' /\ Redactor'
      /\ \A m \in Labels : Range(taught[m]) \subseteq Range(taught'[m])
  BY <1>1, SecretsStay DEF IInv, Secrecy
<1>3. Shown'
  <2>1. ShownBy(profile, taught, pc[r], cx[r], record[r])
    BY ShownNow DEF IInv
  <2>2. ShownBy(profile, taught', pc'[r], cx'[r], record'[r])
    BY <1>1, <2>1 DEF ShownBy
  <2> QED BY <1>1, <1>2, <2>2, ShownStays DEF IInv, Secrecy
<1>4. RecentIsHidden'
  <2> DEFINE ms == Written(r, "tracing", "message", Clear(record[r].message))
             ps == IF profile.detail = "audit" THEN Written(r, "tracing", "path", record[r].path) ELSE {}
  <2>1. written' = (written \cup ms) \cup ps
    BY DEF EmitTracing
  <2>2. \A w \in written : (w.field # "path" /\ ~w.value.enc /\ w.value.of \notin profile.short) => w.forgotten
    BY DEF IInv, Secrecy, RecentIsHidden
  <2>3. \A w \in ms : (~w.value.enc /\ w.value.of \notin profile.short) => w.forgotten
    BY WrittenIsForgotten
  <2>4. \A w \in ps : w.field = "path"
    BY DEF Written
  <2> HIDE DEF ms, ps
  <2> QED BY <1>1, <2>1, <2>2, <2>3, <2>4, SameScene DEF RecentIsHidden
<1> QED BY <1>2, <1>3, <1>4 DEF Secrecy

LEMMA EmitJsonKeepsSecrets ==
  ASSUME IInv, NEW r \in Reqs, EmitJson(r)
  PROVE  Secrecy'
<1>1. /\ OnlyOf(r) /\ UNCHANGED secrets /\ record'[r] = record[r] /\ pc[r] = "json"
      /\ cx'[r] = cx[r] /\ scene' = scene /\ taught' = taught
  BY DEF EmitJson, OnlyOf, IInv, Base, Typed, PC, secrets
<1>2. /\ Remembered' /\ Redactor'
      /\ \A m \in Labels : Range(taught[m]) \subseteq Range(taught'[m])
  BY <1>1, SecretsStay DEF IInv, Secrecy
<1>3. Shown'
  <2>1. ShownBy(profile, taught, pc[r], cx[r], record[r])
    BY ShownNow DEF IInv
  <2>2. ShownBy(profile, taught', pc'[r], cx'[r], record'[r])
    BY <1>1, <2>1 DEF ShownBy
  <2> QED BY <1>1, <1>2, <2>2, ShownStays DEF IInv, Secrecy
<1>4. RecentIsHidden'
  <2> DEFINE vs == record[r].message \cup record[r].path \cup record[r].headers
             ws == Written(r, "json", "any", Clear(vs))
  <2>1. written' = written \cup ws
    BY DEF EmitJson
  <2>2. \A w \in written : (w.field # "path" /\ ~w.value.enc /\ w.value.of \notin profile.short) => w.forgotten
    BY DEF IInv, Secrecy, RecentIsHidden
  <2>3. \A w \in ws : (~w.value.enc /\ w.value.of \notin profile.short) => w.forgotten
    BY WrittenIsForgotten
  <2> HIDE DEF ws
  <2> QED BY <1>1, <2>1, <2>2, <2>3, SameScene DEF RecentIsHidden
<1> QED BY <1>2, <1>3, <1>4 DEF Secrecy

\* The other steps after the last swap: a record is written of what is there.
LEMMA RecordKeepsSecrets ==
  ASSUME IInv, NEW r \in Reqs, OnlyOf(r), UNCHANGED <<secrets, written>>, pc[r] # "new",
         cx'[r] = cx[r], NEW action, NEW response, response \subseteq SecretsIn(cx[r]),
         record'[r] = Record(cx[r], action, {}, response)
  PROVE  Secrecy'
<1>1. ShownBy(profile, taught, pc[r], cx[r], record[r])
  BY ShownNow DEF IInv
<1>2. \A v \in {} : PresentedIn(profile, taught, v)
  OBVIOUS
<1>3. ShownBy(profile, taught, pc'[r], cx[r], Record(cx[r], action, {}, response))
  BY <1>1, <1>2, RecordShows
<1> QED BY <1>3, TurnKeepsSecrets DEF IInv

LEMMA LaterKeepsSecrets ==
  ASSUME IInv, NEW r \in Reqs,
         AllSwapped(r) \/ Respond(r) \/ Send(r) \/ Answered(r) \/ BreaksOff(r)
  PROVE  Secrecy'
<1>1. UNCHANGED <<secrets, written>> /\ pc[r] # "new" /\ {} \subseteq SecretsIn(cx[r])
  BY DEF AllSwapped, Respond, Send, Answered, BreaksOff
<1>2. CASE AllSwapped(r) \/ BreaksOff(r)
  <2>1. OnlyOf(r) /\ cx'[r] = cx[r] /\ record'[r] = record[r]
    BY <1>2 DEF AllSwapped, BreaksOff, OnlyOf, IInv, Base, Typed, PC
  <2> QED BY <1>1, <2>1, QuietKeepsSecrets
<1>3. CASE Respond(r)
  <2>1. OnlyOf(r) /\ cx'[r] = cx[r] /\ record'[r] = Record(cx[r], "allow", {}, {})
    BY <1>3 DEF Respond, OnlyOf, IInv, Base, Typed, PC
  <2> QED BY <1>1, <2>1, RecordKeepsSecrets
<1>4. CASE Send(r)
  <2>1. CASE /\ sent' = [sent EXCEPT ![r] = {Finished(cx[r])}]
             /\ pc' = [pc EXCEPT ![r] = "await"] /\ UNCHANGED record
    <3>1. OnlyOf(r) /\ cx'[r] = cx[r] /\ record'[r] = record[r]
      BY <1>4, <2>1 DEF Send, OnlyOf, IInv, Base, Typed, PC
    <3> QED BY <1>1, <3>1, QuietKeepsSecrets
  <2>2. CASE /\ pc' = [pc EXCEPT ![r] = "tracing"]
             /\ record' = [record EXCEPT ![r] = Record(cx[r], "deny", {}, {})] /\ UNCHANGED sent
    <3>1. OnlyOf(r) /\ cx'[r] = cx[r] /\ record'[r] = Record(cx[r], "deny", {}, {})
      BY <1>4, <2>2 DEF Send, OnlyOf, IInv, Base, Typed, PC
    <3> QED BY <1>1, <3>1, RecordKeepsSecrets
  <2> QED BY <1>4, <2>1, <2>2 DEF Send
<1>5. CASE Answered(r)
  <2>1. PICK echo \in BOOLEAN :
          record' = [record EXCEPT ![r] =
                       Record(cx[r], "allow", {}, IF echo THEN SecretsIn(cx[r]) ELSE {})]
    BY <1>5 DEF Answered
  <2> DEFINE response == IF echo THEN SecretsIn(cx[r]) ELSE {}
  <2>2. response \subseteq SecretsIn(cx[r])
    OBVIOUS
  <2> HIDE DEF response
  <2>3. OnlyOf(r) /\ cx'[r] = cx[r] /\ record'[r] = Record(cx[r], "allow", {}, response)
    BY <1>5, <2>1 DEF Answered, OnlyOf, IInv, Base, Typed, PC, response
  <2> QED BY <1>1, <2>2, <2>3, RecordKeepsSecrets
<1> QED BY <1>2, <1>3, <1>4, <1>5

LEMMA StutterKeepsSecrets ==
  ASSUME IInv, UNCHANGED vars
  PROVE  Secrecy'
<1>1. UNCHANGED <<scene, pc, cx, at, token, lock, ring, taught, sent, record, written>>
  BY DEF vars
<1>2. UNCHANGED secrets
  BY <1>1 DEF secrets
<1>3. profile' = profile
  BY <1>1, SameScene
<1> QED BY <1>1, <1>2, <1>3, SecretsStay, RecentStays DEF IInv, Secrecy, Shown

LEMMA NextKeepsSecrets ==
  ASSUME IInv, [Next]_vars
  PROVE  Secrecy'
<1>1. ASSUME NEW r \in Reqs, Arrive(r) \/ Step(r) \/ Answered(r) \/ BreaksOff(r)
      PROVE  Secrecy'
  <2>1. ASSUME Inject(r) PROVE Secrecy'
    BY <2>1, ExcludeKeepsSecrets, SkipKeepsSecrets, StaticKeepsSecrets, UnresolvedKeepsSecrets,
       CachedKeepsSecrets, MintBeginsKeepsSecrets, MintEndsKeepsSecrets, MintFailsKeepsSecrets,
       LaterKeepsSecrets DEF Inject
  <2> QED BY <1>1, <2>1, ArriveKeepsSecrets, PrepareKeepsSecrets, LaterKeepsSecrets,
             EmitTracingKeepsSecrets, EmitJsonKeepsSecrets DEF Step
<1>2. ASSUME NEW s \in Minted, Expire(s) PROVE Secrecy'
  BY <1>2, ExpireKeepsSecrets
<1> QED BY <1>1, <1>2, StutterKeepsSecrets DEF Next

LEMMA InitSecrets == Init => Secrecy
<1> SUFFICES ASSUME Init PROVE Secrecy
  OBVIOUS
<1>1. /\ token = [s \in Minted |-> [access |-> 0, refresh |-> 0, live |-> FALSE, fresh |-> FALSE]]
      /\ lock = [s \in Minted |-> {}] /\ pc = [r \in Reqs |-> "new"]
      /\ taught = [l \in Labels |-> IF l[1] \notin Minted THEN <<Static(l[1])>> ELSE << >>]
      /\ ring = [l \in Labels |-> IF l[1] \notin Minted THEN Learn(<< >>, Static(l[1])) ELSE << >>]
      /\ record = [r \in Reqs |-> NoRecord] /\ written = {} /\ scene \in Scenes
  BY DEF Init
<1>2. Ring \in Nat /\ Ring >= 2
  BY <1>1, Profiled
<1> DEFINE none == << >>
<1>3. none \in Seq(Value) /\ Range(none) = {} /\ DOMAIN none = {} /\ Len(none) = 0
  BY DEF Range
<1>4. ASSUME NEW s
      PROVE  /\ Learn(none, Static(s)) \in {none, <<Static(s)>>}
             /\ s \notin profile.short => Learn(none, Static(s)) = <<Static(s)>>
             /\ Range(<<Static(s)>>) = {Static(s)}
  <2> DEFINE v == Static(s)
  <2>1. v.of = s
    BY DEF Static, Val
  <2> HIDE DEF v, none
  <2>2. Append(none, v) = <<v>> /\ Len(Append(none, v)) = 1
    BY DEF none
  <2>3. SubSeq(<<v>>, 1, 1) = <<v>>
    <3>1. <<v>> \in Seq({v}) /\ Len(<<v>>) = 1
      OBVIOUS
    <3> QED BY <3>1, SubSeqFull
  <2>4. Remember(none, v) = <<v>>
    <3>1. ~(1 > Ring) /\ 1 + 0 = 1
      BY <1>2
    <3> QED BY <2>2, <2>3, <3>1 DEF Remember
  <2>5. Learn(none, v) = IF s \in profile.short THEN none ELSE <<v>>
    BY <1>3, <2>1, <2>4 DEF Learn
  <2>6. Range(<<v>>) = {v}
    BY DEF Range
  <2> QED BY <2>5, <2>6 DEF v
<1>5. Remembered
  <2> SUFFICES ASSUME NEW l \in Labels
               PROVE  /\ Range(ring[l]) \subseteq Range(taught[l])
                      /\ \A v \in Range(taught[l]) : v.of = l[1] /\ ~v.enc
                      /\ l[1] \notin Minted => taught[l] = <<Static(l[1])>>
                      /\ l[1] \notin Minted /\ l[1] \notin profile.short => ring[l] = <<Static(l[1])>>
    BY DEF Remembered
  <2>1. CASE l[1] \in Minted
    <3>1. ring[l] = none /\ taught[l] = none
      BY <1>1, <2>1
    <3> HIDE DEF none
    <3> QED BY <1>3, <2>1, <3>1
  <2>2. CASE l[1] \notin Minted
    <3> DEFINE v == Static(l[1])
    <3>1. ring[l] = Learn(none, v) /\ taught[l] = <<v>>
      BY <1>1, <2>2
    <3>2. v.of = l[1] /\ ~v.enc
      BY DEF Static, Val
    <3>3. /\ Learn(none, v) \in {none, <<v>>} /\ (l[1] \notin profile.short => Learn(none, v) = <<v>>)
          /\ Range(<<v>>) = {v}
      BY <1>4
    <3> HIDE DEF none, v
    <3>4. Range(ring[l]) \subseteq Range(taught[l]) /\ \A x \in Range(taught[l]) : x = v
      BY <1>3, <3>1, <3>3
    <3> QED BY <3>1, <3>2, <3>3, <3>4 DEF v
  <2> QED BY <2>1, <2>2
<1>6. Redactor
  <2> SUFFICES ASSUME NEW s \in Minted PROVE RedactorOf(s)
    BY DEF Redactor
  <2>1. \A p \in {"own", "refresh_token", "id_token"} :
            Label(s, p) \in Labels /\ taught[Label(s, p)] = << >> /\ ring[Label(s, p)] = << >>
    <3>1. \A p : Label(s, p)[1] = s
      BY DEF Label
    <3> QED BY <1>1, <3>1, LabelsAre
  <2>2. token[s].access = 0 /\ token[s].refresh = 0 /\ ~token[s].live /\ lock[s] = {}
    BY <1>1
  <2>3. /\ OwnTaught(s, << >>, 0, 0) /\ Presented(s, << >>, 0)
        /\ OwnRing(s, << >>, << >>, 0) /\ IsEndOf(<< >>, << >>)
    BY DEF OwnTaught, Presented, OwnRing, IsEndOf
  <2> QED BY <2>1, <2>2, <2>3 DEF RedactorOf
<1>7. Shown /\ RecentIsHidden
  BY <1>1 DEF Shown, ShownBy, RecentIsHidden, NoRecord
<1> QED BY <1>5, <1>6, <1>7 DEF Secrecy

LEMMA LiveIsKnown ==
  ASSUME IInv
  PROVE  LiveIsHidden
<1> SUFFICES ASSUME NEW s \in Minted \ profile.short, token[s].live, token[s].fresh
             PROVE  Hidden(Access(s, token[s].access))
  BY DEF LiveIsHidden
<1>1. Label(s, "own") \in Labels /\ RedactorOf(s)
  BY LabelsAre DEF IInv, Secrecy, Redactor
<1>2. Access(s, token[s].access) \in Range(ring[Label(s, "own")])
  BY <1>1 DEF RedactorOf
<1>3. ~Access(s, token[s].access).enc
  BY DEF Access, Val
<1> QED BY <1>1, <1>2, <1>3 DEF Hidden

\* Whatever a log shows of a credential in the clear has been forgotten: as
\* many newer values of its label as the redactor keeps have followed it; and
\* the token in use, unless it is an old one handed out again, is among those
\* it knows (redact.rs: learn, redact; source.rs: post_token; json_log.rs).
THEOREM EgressSecretsAreHidden == Spec => []SecretsAreHidden
<1>1. Init => IInv
  BY InitBase, InitSecrets DEF IInv
<1>2. IInv /\ [Next]_vars => IInv'
  BY NextKeepsBase, NextKeepsSecrets DEF IInv
<1>3. IInv => SecretsAreHidden
  BY LiveIsKnown DEF SecretsAreHidden, IInv, Secrecy
<1> QED BY <1>1, <1>2, <1>3, PTL DEF Spec
=============================================================================
