---------------------------- MODULE Wire_proofs ----------------------------
(***************************************************************************)
(* A tunnel is a byte stream, and its opening is inspected before any of it *)
(* is passed on, for any sizes of reader, reads, head and opening, and any   *)
(* heads and hellos.                                                        *)
(*                                                                         *)
(* The proof gives every piece of the client's bytes its place in what the  *)
(* client has to say: the reader's buffer and the socket hold the last of    *)
(* what was sent, and what was lost, delivered and held back as the opening  *)
(* fill the room between the end of the head and there.                      *)
(***************************************************************************)
EXTENDS Wire, TLAPS

Unit == [k : HeadUnit \union {"data"}, n : Nat]

\* The sequence x is the stretch of u that begins after the first a of it.
Stretch(x, u, a) ==
    /\ x \in Seq(Unit) /\ a \in Nat /\ a + Len(x) <= Len(u)
    /\ \A i \in 1..Len(x) : x[i] = u[a + i]

-----------------------------------------------------------------------------
(* The invariant. *)

HeadLen == Len(conn.head.units)

\* How many units the front end or the relay has taken from the reader.
Pos == sent - Len(buf) - Len(sock)

Nothing == opening = << >> /\ got = << >> /\ lost = << >> /\ up = "opening"

\* What has been taken so far, and how far the front end can have come.
Opened ==
    /\ pc \in {"first", "head", "methods", "userpass", "request", "decide", "dial"} =>
         Nothing
    /\ pc = "first" => Pos = 0 /\ head = 0
    /\ pc \in {"head", "decide"} => ~IsSocks
    /\ pc \in {"decide", "dial"} => Pos = HeadLen
    /\ head <= Pos

\* A tunnel nobody intercepts.
Inspected == conn.head.kind \in {"connect", "socks"} /\ ~intercept

\* Where the pieces of the payload are.
Relayed ==
    /\ pc \in {"accept", "relay"} =>
         Stretch(lost, Units, HeadLen) /\ Stretch(got, Units, HeadLen + Len(lost))
    /\ pc = "accept" =>
         intercept /\ opening = << >> /\ Pos = HeadLen + Len(lost) + Len(got)
    /\ pc = "relay" /\ up \in {"opening", "inspect", "flush"} =>
         /\ Inspected /\ got = << >> /\ lost = << >>
         /\ Stretch(opening, Units, HeadLen) /\ Pos = HeadLen + Len(opening)
    /\ pc = "relay" /\ up \in {"copy", "shutdown"} => Pos = HeadLen + Len(lost) + Len(got)

\* What is known of the opening of a tunnel nobody intercepts.
Held ==
    pc = "relay" /\ Inspected =>
      /\ up = "opening" => opening = << >> \/ Len(opening) < MaxOpening
      /\ up # "opening" => Enough(opening) \/ AtEof
      /\ up \in {"copy", "shutdown"} =>
           opening \in Seq(Unit) /\ (Enough(opening) \/ got = opening)
      /\ up \in {"flush", "copy", "shutdown"} => Sni(opening) # "other"

Typed ==
    /\ conn \in [listener : {"tcp", "unix"}, head : Heads, hello : Hellos]
    /\ eof \in BOOLEAN /\ intercept \in BOOLEAN
    /\ pc \in {"first", "head", "methods", "userpass", "request", "decide",
               "dial", "accept", "relay", "closed"}
    /\ up \in {"opening", "inspect", "flush", "copy", "shutdown"}
    /\ sent \in Nat /\ head \in Nat
    /\ served \in 0..ServerLen /\ down \in 0..served

\* Where the client's units are that nobody has read.
Placed ==
    /\ Pos \in Nat
    /\ Stretch(buf, Units, Pos) /\ Stretch(sock, Units, Pos + Len(buf))
    /\ Len(buf) <= BufSize

IInv ==
    /\ Typed /\ Placed /\ Opened /\ Relayed /\ Held
    /\ NameComparedFirst /\ OpeningBounded

-----------------------------------------------------------------------------
(* Stretches. *)

LEMMA StretchEmpty ==
  ASSUME NEW u \in Seq(Unit), NEW a \in 0..Len(u)
  PROVE  Stretch(<< >>, u, a)
  BY DEF Stretch

LEMMA StretchGrows ==
  ASSUME NEW u \in Seq(Unit), NEW x, NEW a, Stretch(x, u, a), a + Len(x) < Len(u)
  PROVE  LET y == Append(x, u[a + Len(x) + 1])
         IN  Stretch(y, u, a) /\ Len(y) = Len(x) + 1
  <1> DEFINE e == u[a + Len(x) + 1]
             y == Append(x, e)
  <1>1. x \in Seq(Unit) /\ Len(x) \in Nat /\ a \in Nat /\ e \in Unit /\ Len(u) \in Nat
        /\ e = u[a + (Len(x) + 1)]
    BY DEF Stretch
  <1> HIDE DEF Unit, e
  <1>2. /\ y \in Seq(Unit) /\ Len(y) = Len(x) + 1 /\ y[Len(x) + 1] = e
        /\ \A i \in 1..Len(x) : y[i] = x[i]
    BY <1>1
  <1> HIDE DEF y
  <1>3. \A i \in 1..Len(y) : y[i] = u[a + i]
    BY <1>1, <1>2 DEF Stretch
  <1>4. Stretch(y, u, a)
    BY <1>1, <1>2, <1>3 DEF Stretch
  <1> QED
    BY <1>2, <1>4 DEF y, e

LEMMA StretchTake ==
  ASSUME NEW u \in Seq(Unit), NEW x, NEW a, Stretch(x, u, a), NEW n \in Nat
  PROVE  /\ Stretch(Take(x, n), u, a)
         /\ Len(Take(x, n)) = IF n < Len(x) THEN n ELSE Len(x)
  <1> DEFINE m == IF n < Len(x) THEN n ELSE Len(x)
             y == SubSeq(x, 1, m)
  <1>1. x \in Seq(Unit) /\ Len(x) \in Nat /\ a \in Nat /\ Len(u) \in Nat
        /\ m \in Nat /\ m <= Len(x)
    BY DEF Stretch
  <1> HIDE DEF Unit, m
  <1>2. /\ y \in Seq(Unit) /\ Len(y) = m
        /\ \A i \in 1..m : y[i] = x[i]
    <2>1. y \in Seq(Unit) /\ Len(y) = m
      BY <1>1
    <2>2. \A i \in 1..m : y[i] = x[i]
      BY <1>1
    <2> QED
      BY <2>1, <2>2
  <1>3. y = Take(x, n)
    BY DEF Take, m
  <1> HIDE DEF y
  <1>4. ASSUME NEW i \in 1..Len(y)
        PROVE  y[i] = u[a + i]
    <2>1. i \in 1..m /\ i \in 1..Len(x)
      BY <1>1, <1>2
    <2> QED
      BY <1>2, <2>1 DEF Stretch
  <1>5. Stretch(y, u, a)
    BY <1>1, <1>2, <1>4 DEF Stretch
  <1> QED
    BY <1>2, <1>3, <1>5 DEF m

LEMMA StretchDrop ==
  ASSUME NEW u \in Seq(Unit), NEW x, NEW a, Stretch(x, u, a), NEW n \in 0..Len(x)
  PROVE  Stretch(Drop(x, n), u, a + n) /\ Len(Drop(x, n)) = Len(x) - n
  <1> DEFINE y == SubSeq(x, n + 1, Len(x))
  <1>1. x \in Seq(Unit) /\ Len(x) \in Nat /\ a \in Nat /\ Len(u) \in Nat /\ n \in Nat
        /\ n <= Len(x) /\ a + Len(x) <= Len(u)
    BY DEF Stretch
  <1> HIDE DEF Unit
  <1>2. /\ y \in Seq(Unit) /\ Len(y) = Len(x) - n
        /\ \A i \in 1..(Len(x) - n) : y[i] = x[n + i]
    BY <1>1
  <1>3. y = Drop(x, n)
    BY DEF Drop
  <1> HIDE DEF y
  <1>4. ASSUME NEW i \in 1..Len(y)
        PROVE  y[i] = u[(a + n) + i]
    <2>1. n + i \in 1..Len(x) /\ a + (n + i) = (a + n) + i
      BY <1>1, <1>2
    <2> QED
      BY <1>2, <2>1 DEF Stretch
  <1>5. Stretch(y, u, a + n)
    BY <1>1, <1>2, <1>4 DEF Stretch
  <1> QED
    BY <1>2, <1>3, <1>5

LEMMA StretchTail ==
  ASSUME NEW u \in Seq(Unit), NEW x, NEW a, Stretch(x, u, a), x # << >>
  PROVE  /\ Stretch(Tail(x), u, a + 1) /\ Len(Tail(x)) = Len(x) - 1 /\ Len(x) > 0
         /\ Head(x) = u[a + 1] /\ a + 1 \in 1..Len(u)
  <1> DEFINE y == Tail(x)
  <1>1. x \in Seq(Unit) /\ Len(x) \in Nat /\ Len(x) > 0 /\ a \in Nat /\ Len(u) \in Nat
        /\ a + Len(x) <= Len(u)
    BY DEF Stretch
  <1> HIDE DEF Unit
  <1>2. /\ y \in Seq(Unit) /\ Len(y) = Len(x) - 1 /\ Head(x) = x[1]
        /\ \A i \in 1..(Len(x) - 1) : y[i] = x[i + 1]
    BY <1>1
  <1> HIDE DEF y
  <1>3. ASSUME NEW i \in 1..Len(y)
        PROVE  y[i] = u[(a + 1) + i]
    <2>1. i + 1 \in 1..Len(x) /\ a + (i + 1) = (a + 1) + i
      BY <1>1, <1>2
    <2> QED
      BY <1>2, <2>1 DEF Stretch
  <1>4. Stretch(y, u, a + 1)
    BY <1>1, <1>2, <1>3 DEF Stretch
  <1>5. Head(x) = u[a + 1]
    BY <1>1, <1>2 DEF Stretch
  <1> QED
    BY <1>1, <1>2, <1>4, <1>5 DEF y

LEMMA Joined ==
  ASSUME NEW S, NEW x \in Seq(S), NEW y \in Seq(S)
  PROVE  /\ x \o y \in Seq(S) /\ Len(x \o y) = Len(x) + Len(y)
         /\ \A i \in 1..Len(x) : (x \o y)[i] = x[i]
         /\ \A i \in 1..Len(y) : (x \o y)[Len(x) + i] = y[i]
  <1>1. x \o y \in Seq(S) /\ Len(x \o y) = Len(x) + Len(y)
    OBVIOUS
  <1>2. \A i \in 1..Len(x) : (x \o y)[i] = x[i]
    OBVIOUS
  <1>3. \A i \in 1..Len(y) : (x \o y)[Len(x) + i] = y[i]
    OBVIOUS
  <1> QED
    BY <1>1, <1>2, <1>3

LEMMA StretchJoin ==
  ASSUME NEW u \in Seq(Unit), NEW x, NEW y, NEW a, Stretch(x, u, a), Stretch(y, u, a + Len(x))
  PROVE  Stretch(x \o y, u, a) /\ Len(x \o y) = Len(x) + Len(y)
  <1> DEFINE z == x \o y
  <1>1. x \in Seq(Unit) /\ y \in Seq(Unit) /\ Len(x) \in Nat /\ Len(y) \in Nat /\ a \in Nat
        /\ Len(u) \in Nat /\ a + Len(x) + Len(y) <= Len(u)
    BY DEF Stretch
  <1> HIDE DEF Unit
  <1>2. /\ z \in Seq(Unit) /\ Len(z) = Len(x) + Len(y)
        /\ \A i \in 1..Len(x) : z[i] = x[i]
        /\ \A i \in 1..Len(y) : z[Len(x) + i] = y[i]
    BY <1>1
  <1> HIDE DEF z
  <1>3. ASSUME NEW i \in 1..Len(z)
        PROVE  z[i] = u[a + i]
    <2>1. CASE i <= Len(x)
      BY <1>1, <1>2, <2>1 DEF Stretch
    <2>2. CASE i > Len(x)
      <3> DEFINE j == i - Len(x)
      <3>1. j \in 1..Len(y) /\ i = Len(x) + j /\ (a + Len(x)) + j = a + i
        BY <1>1, <1>2, <2>2
      <3> HIDE DEF j
      <3> QED
        BY <1>2, <3>1 DEF Stretch
    <2> QED
      BY <1>1, <1>2, <2>1, <2>2
  <1>4. Stretch(z, u, a)
    BY <1>1, <1>2, <1>3 DEF Stretch
  <1> QED
    BY <1>2, <1>4 DEF z

\* A stretch is a subsequence; two stretches of one length and place are equal.
LEMMA StretchIs ==
  ASSUME NEW u \in Seq(Unit), NEW x, NEW a, Stretch(x, u, a)
  PROVE  x = SubSeq(u, a + 1, a + Len(x))
  <1> DEFINE y == SubSeq(u, a + 1, a + Len(x))
  <1>1. x \in Seq(Unit) /\ Len(x) \in Nat /\ a \in Nat /\ Len(u) \in Nat
        /\ a + Len(x) <= Len(u)
    BY DEF Stretch
  <1> HIDE DEF Unit
  <1>2. /\ y \in Seq(Unit) /\ Len(y) = Len(x)
        /\ \A i \in 1..Len(x) : y[i] = u[(a + 1) + i - 1]
    BY <1>1
  <1> HIDE DEF y
  <1>3. ASSUME NEW i \in 1..Len(x)
        PROVE  y[i] = x[i]
    <2>1. (a + 1) + i - 1 = a + i
      BY <1>1
    <2> QED
      BY <1>2, <2>1 DEF Stretch
  <1>4. x = y
    BY <1>1, <1>2, <1>3
  <1> QED
    BY <1>4 DEF y
-----------------------------------------------------------------------------
(* What the client has to say. *)

LEMMA SizesAreSizes ==
  /\ BufSize \in Nat /\ BufSize > 0 /\ ChunkSize \in Nat /\ ChunkSize > 0
  /\ MaxHead \in Nat /\ MaxOpening \in Nat /\ MaxOpening > 0
  /\ PayloadLen \in Nat /\ ServerLen \in Nat
  BY SizesAssumption

LEMMA UnitsOf ==
  ASSUME Typed
  PROVE  /\ HeadLen \in Nat /\ conn.head.units \in Seq(HeadUnit)
         /\ Payload \in Seq(Unit) /\ Len(Payload) = PayloadLen
         /\ Units \in Seq(Unit) /\ Len(Units) = HeadLen + PayloadLen
         /\ \A i \in 1..HeadLen : Units[i].k = conn.head.units[i]
         /\ \A i \in 1..PayloadLen :
              Units[HeadLen + i] = Payload[i] /\ Units[HeadLen + i].k = "data"
         /\ conn.hello \in Hello
         /\ conn.head.kind \in {"connect", "absolute", "socks", "socks4"}
  <1> DEFINE c == Control(conn.head)
  <1>1. conn.head \in Heads /\ conn.hello \in Hellos
    BY DEF Typed
  <1>2. /\ conn.head.units \in Seq(HeadUnit) /\ conn.hello \in Hello
        /\ conn.head.kind \in {"connect", "absolute", "socks", "socks4"}
    BY <1>1, OpeningsAssumption
  <1>3. HeadLen \in Nat /\ \A i \in 1..HeadLen : conn.head.units[i] \in HeadUnit
    <2> HIDE DEF HeadUnit
    <2> QED
      BY <1>2 DEF HeadLen
  <1>4. /\ c \in Seq(Unit) /\ Len(c) = HeadLen
        /\ \A i \in 1..HeadLen : c[i].k = conn.head.units[i]
    <2>1. \A i \in 1..HeadLen : [k |-> conn.head.units[i], n |-> 0] \in Unit
      BY <1>3 DEF Unit
    <2>2. c = [i \in 1..HeadLen |-> [k |-> conn.head.units[i], n |-> 0]]
      BY DEF Control, HeadLen
    <2>3. c \in [1..HeadLen -> Unit]
      BY <2>1, <2>2
    <2>4. c \in Seq(Unit) /\ Len(c) = HeadLen
      <3> HIDE DEF c, Unit
      <3> QED
        BY <1>3, <2>3
    <2>5. ASSUME NEW i \in 1..HeadLen
          PROVE  c[i].k = conn.head.units[i]
      BY <2>2
    <2> QED
      BY <2>4, <2>5
  <1>5. /\ Payload \in Seq(Unit) /\ Len(Payload) = PayloadLen
        /\ \A i \in 1..PayloadLen : Payload[i].k = "data"
    <2>1. \A n \in 1..PayloadLen : [k |-> "data", n |-> n] \in Unit
      BY SizesAreSizes DEF Unit
    <2>2. Payload \in [1..PayloadLen -> Unit]
      BY <2>1 DEF Payload
    <2>3. Payload \in Seq(Unit) /\ Len(Payload) = PayloadLen
      <3> HIDE DEF Unit
      <3> QED
        BY <2>2, SizesAreSizes
    <2> QED
      BY <2>3 DEF Payload
  <1> HIDE DEF c
  <1>6. /\ Units \in Seq(Unit) /\ Len(Units) = HeadLen + PayloadLen
        /\ \A i \in 1..HeadLen : Units[i] = c[i]
        /\ \A i \in 1..PayloadLen : Units[HeadLen + i] = Payload[i]
    <2>1. Units = c \o Payload
      BY DEF Units, c
    <2>2. /\ c \in Seq(Unit) /\ Payload \in Seq(Unit)
          /\ Len(c) = HeadLen /\ Len(Payload) = PayloadLen
      BY <1>4, <1>5
    <2>3. /\ Units \in Seq(Unit) /\ Len(Units) = Len(c) + Len(Payload)
          /\ \A i \in 1..Len(c) : Units[i] = c[i]
          /\ \A i \in 1..Len(Payload) : Units[Len(c) + i] = Payload[i]
      <3> DEFINE S == Unit
                 p == Payload
      <3>1. c \in Seq(S) /\ p \in Seq(S)
        BY <2>2
      <3> HIDE DEF S, p
      <3>2. /\ c \o p \in Seq(S) /\ Len(c \o p) = Len(c) + Len(p)
            /\ \A i \in 1..Len(c) : (c \o p)[i] = c[i]
            /\ \A i \in 1..Len(p) : (c \o p)[Len(c) + i] = p[i]
        BY <3>1, Joined
      <3> QED
        BY <2>1, <3>2 DEF S, p
    <2>4. \A i \in 1..PayloadLen : Units[HeadLen + i] = Payload[i]
      BY <2>2, <2>3
    <2>5. \A i \in 1..HeadLen : Units[i] = c[i]
      BY <2>2, <2>3
    <2> QED
      BY <2>2, <2>3, <2>4, <2>5
  <1> QED
    BY <1>2, <1>3, <1>4, <1>5, <1>6

\* A unit that ends the front end's reading is the last of the opening.
LEMMA LastOfOpening ==
  ASSUME Typed, NEW i \in 1..Len(Units), Units[i].k \in {"blank", "command"}
  PROVE  i = HeadLen
  <1>1. HeadLen \in Nat /\ PayloadLen \in Nat /\ Len(Units) = HeadLen + PayloadLen
    BY UnitsOf, SizesAreSizes
  <1>2. i \in 1..HeadLen
    <2>1. CASE i > HeadLen
      <3> DEFINE j == i - HeadLen
      <3>1. j \in 1..PayloadLen /\ i = HeadLen + j
        BY <1>1, <2>1
      <3> HIDE DEF j
      <3> QED
        BY <3>1, UnitsOf
    <2> QED
      BY <1>1, <2>1
  <1>3. conn.head.units[i] \in {"blank", "command"}
    BY <1>2, UnitsOf
  <1>4. \A n \in 1..(HeadLen - 1) : conn.head.units[n] \notin {"blank", "command"}
    BY OpeningsAssumption DEF Typed, HeadLen
  <1> QED
    BY <1>1, <1>2, <1>3, <1>4

LEMMA SameUnits ==
  ASSUME conn' = conn
  PROVE  Units' = Units /\ HeadLen' = HeadLen /\ IsSocks' = IsSocks /\ IsConnect' = IsConnect
  BY DEF Units, Control, HeadLen, IsSocks, IsConnect

-----------------------------------------------------------------------------
(* The client, the upstream, and the end of a connection. *)

LEMMA InitIInv == Init => IInv
  <1> SUFFICES ASSUME Init PROVE IInv
    OBVIOUS
  <1>1. Typed
    <2> DEFINE Conns == [listener : {"tcp", "unix"}, head : Heads, hello : Hellos]
    <2>1. /\ conn \in Conns /\ intercept \in BOOLEAN /\ eof = FALSE
          /\ sent = 0 /\ head = 0 /\ pc = "first" /\ up = "opening" /\ served = 0 /\ down = 0
      BY DEF Init
    <2> HIDE DEF Conns
    <2>2. conn \in Conns /\ eof \in BOOLEAN /\ intercept \in BOOLEAN
      BY <2>1
    <2>3. sent \in Nat /\ head \in Nat
      BY <2>1
    <2>4. served \in 0..ServerLen /\ down \in 0..served
      BY <2>1, SizesAreSizes
    <2> QED
      BY <2>1, <2>2, <2>3, <2>4 DEF Typed, Conns
  <1>2. Pos = 0
    <2>1. sent = 0 /\ buf = << >> /\ sock = << >>
      BY DEF Init
    <2>2. Len(buf) = 0 /\ Len(sock) = 0
      BY <2>1
    <2>3. sent = 0
      BY <2>1
    <2> QED
      BY <2>2, <2>3 DEF Pos
  <1>3. Placed
    BY <1>1, <1>2, UnitsOf, StretchEmpty, SizesAreSizes DEF Placed, Init
  <1>4. Opened /\ Relayed /\ Held
    BY <1>2 DEF Init, Opened, Relayed, Held, Nothing
  <1>5. NameComparedFirst
    BY <1>1, UnitsOf DEF Init, NameComparedFirst, Hello
  <1>6. OpeningBounded
    BY SizesAreSizes DEF Init, OpeningBounded
  <1> QED
    BY <1>1, <1>3, <1>4, <1>5, <1>6 DEF IInv

LEMMA SendKeeps == IInv /\ Send => IInv'
  <1> SUFFICES ASSUME IInv, Send PROVE IInv'
    OBVIOUS
  <1> USE DEF IInv
  <1>1. /\ conn' = conn /\ eof' = eof /\ buf' = buf /\ head' = head /\ pc' = pc
        /\ intercept' = intercept /\ opening' = opening /\ up' = up /\ got' = got
        /\ lost' = lost /\ served' = served /\ down' = down
        /\ sent' = sent + 1 /\ ~eof /\ sent < Len(Units)
        /\ sock' = Append(sock, Units[sent + 1])
    BY DEF Send, relay
  <1>2. Units' = Units /\ HeadLen' = HeadLen /\ IsSocks' = IsSocks
    BY <1>1, SameUnits
  <1>3. Typed'
    BY <1>1 DEF Typed
  <1>4. /\ Stretch(sock', Units, Pos + Len(buf)) /\ Len(sock') = Len(sock) + 1
        /\ Len(sock) \in Nat /\ Len(buf) \in Nat /\ sent \in Nat
    <2>1. Pos \in Nat /\ Len(sock) \in Nat /\ Len(buf) \in Nat /\ sent \in Nat
          /\ Pos + Len(buf) + Len(sock) = sent
      BY DEF Placed, Stretch, Typed, Pos
    <2>2. (Pos + Len(buf)) + Len(sock) < Len(Units)
      BY <1>1, <2>1
    <2> QED
      BY <1>1, <2>1, <2>2, UnitsOf, StretchGrows DEF Placed
  <1>5. Pos' = Pos
    BY <1>1, <1>4 DEF Pos
  <1>6. Placed'
    BY <1>1, <1>2, <1>4, <1>5 DEF Placed
  <1>7. Opened'
    BY <1>1, <1>2, <1>5 DEF Opened, Nothing
  <1>8. Relayed'
    BY <1>1, <1>2, <1>5 DEF Relayed, Inspected
  <1>9. Held'
    BY <1>1 DEF Held, Inspected, AtEof, Enough, Sni
  <1>10. NameComparedFirst' /\ OpeningBounded'
    BY <1>1 DEF NameComparedFirst, OpeningBounded, IsSocks, IsConnect
  <1> QED
    BY <1>3, <1>6, <1>7, <1>8, <1>9, <1>10

LEMMA HangUpKeeps == IInv /\ HangUp => IInv'
  <1> SUFFICES ASSUME IInv, HangUp PROVE IInv'
    OBVIOUS
  <1> USE DEF IInv
  <1>1. /\ conn' = conn /\ eof' = TRUE /\ buf' = buf /\ head' = head /\ pc' = pc
        /\ intercept' = intercept /\ opening' = opening /\ up' = up /\ got' = got
        /\ lost' = lost /\ served' = served /\ down' = down
        /\ sent' = sent /\ sock' = sock
    BY DEF HangUp, relay
  <1>2. Units' = Units /\ HeadLen' = HeadLen /\ IsSocks' = IsSocks /\ Pos' = Pos
    BY <1>1, SameUnits DEF Pos
  <1>3. Typed' /\ Placed'
    BY <1>1, <1>2 DEF Typed, Placed
  <1>4. Opened' /\ Relayed'
    BY <1>1, <1>2 DEF Opened, Nothing, Relayed, Inspected
  <1>5. Held'
    BY <1>1 DEF Held, Inspected, AtEof, Enough, Sni
  <1>6. NameComparedFirst' /\ OpeningBounded'
    BY <1>1 DEF NameComparedFirst, OpeningBounded, IsSocks, IsConnect
  <1> QED
    BY <1>3, <1>4, <1>5, <1>6

LEMMA ServingKeeps == IInv /\ (Serve \/ Downstream) => IInv'
  <1> SUFFICES ASSUME IInv, Serve \/ Downstream PROVE IInv'
    OBVIOUS
  <1> USE DEF IInv
  <1>1. /\ conn' = conn /\ eof' = eof /\ buf' = buf /\ head' = head /\ pc' = pc
        /\ intercept' = intercept /\ opening' = opening /\ up' = up /\ got' = got
        /\ lost' = lost /\ sent' = sent /\ sock' = sock
    BY DEF Serve, Downstream
  <1>2. Units' = Units /\ HeadLen' = HeadLen /\ IsSocks' = IsSocks /\ Pos' = Pos
    BY <1>1, SameUnits DEF Pos
  <1>3. served' \in 0..ServerLen /\ down' \in 0..served'
    BY SizesAreSizes DEF Serve, Downstream, Typed
  <1>4. Typed' /\ Placed'
    BY <1>1, <1>2, <1>3 DEF Typed, Placed
  <1>5. Opened' /\ Relayed'
    BY <1>1, <1>2 DEF Opened, Nothing, Relayed, Inspected
  <1>6. Held'
    BY <1>1 DEF Held, Inspected, AtEof, Enough, Sni
  <1>7. NameComparedFirst' /\ OpeningBounded'
    BY <1>1 DEF NameComparedFirst, OpeningBounded, IsSocks, IsConnect
  <1> QED
    BY <1>4, <1>5, <1>6, <1>7

LEMMA CloseKeeps == IInv /\ Close => IInv'
  <1> SUFFICES ASSUME IInv, Close PROVE IInv'
    OBVIOUS
  <1> USE DEF IInv
  <1>1. /\ conn' = conn /\ eof' = eof /\ buf' = buf /\ head' = head /\ pc' = "closed"
        /\ intercept' = intercept /\ opening' = opening /\ up' = up /\ got' = got
        /\ lost' = lost /\ sent' = sent /\ sock' = sock /\ served' = served /\ down' = down
    BY DEF Close, relay
  <1>2. Units' = Units /\ HeadLen' = HeadLen /\ IsSocks' = IsSocks /\ Pos' = Pos
    BY <1>1, SameUnits DEF Pos
  <1>3. Typed' /\ Placed'
    BY <1>1, <1>2 DEF Typed, Placed
  <1>4. Opened' /\ Relayed' /\ Held'
    BY <1>1, <1>2 DEF Opened, Relayed, Held
  <1>5. NameComparedFirst' /\ OpeningBounded'
    BY <1>1 DEF NameComparedFirst, OpeningBounded, IsSocks, IsConnect
  <1> QED
    BY <1>3, <1>4, <1>5
-----------------------------------------------------------------------------
(* The front ends. *)

FrontPc == {"first", "head", "methods", "userpass", "request"}

LEMMA FillKeeps == IInv /\ Fill => IInv'
  <1> SUFFICES ASSUME IInv, Fill PROVE IInv'
    OBVIOUS
  <1> USE DEF IInv
  <1>1. /\ conn' = conn /\ eof' = eof /\ head' = head /\ pc' = pc
        /\ intercept' = intercept /\ opening' = opening /\ up' = up /\ got' = got
        /\ lost' = lost /\ served' = served /\ down' = down /\ sent' = sent
        /\ Reading /\ buf = << >>
        /\ buf' = Take(sock, BufSize) /\ sock' = Drop(sock, Len(buf'))
    BY DEF Fill, relay
  <1>2. Units' = Units /\ HeadLen' = HeadLen /\ IsSocks' = IsSocks
    BY <1>1, SameUnits
  <1>3. /\ Pos \in Nat /\ Stretch(sock, Units, Pos + 0) /\ Len(sock) \in Nat /\ Len(buf) = 0
        /\ Units \in Seq(Unit) /\ sent \in Nat
    <2>1. Len(buf) = 0
      BY <1>1
    <2> QED
      BY <2>1, UnitsOf DEF Placed, Stretch, Typed
  <1>4. Stretch(sock, Units, Pos) /\ Pos = sent - Len(sock)
    <2>1. Pos + 0 = Pos /\ sent - 0 - Len(sock) = sent - Len(sock)
      BY <1>3
    <2> QED
      BY <1>3, <2>1 DEF Pos
  <1>5. /\ Stretch(buf', Units, Pos) /\ Len(buf') <= BufSize
        /\ Len(buf') \in 0..Len(sock)
    BY <1>1, <1>3, <1>4, StretchTake, SizesAreSizes
  <1>6. Stretch(sock', Units, Pos + Len(buf')) /\ Len(sock') = Len(sock) - Len(buf')
    BY <1>1, <1>3, <1>4, <1>5, StretchDrop
  <1>7. Pos' = Pos
    <2>1. Pos' = sent - Len(buf') - Len(sock')
      BY <1>1 DEF Pos
    <2> QED
      BY <1>3, <1>4, <1>5, <1>6, <2>1
  <1>8. Placed'
    BY <1>1, <1>2, <1>3, <1>5, <1>6, <1>7 DEF Placed
  <1>9. Typed'
    BY <1>1 DEF Typed
  <1>10. Opened' /\ Relayed'
    BY <1>1, <1>2, <1>7 DEF Opened, Nothing, Relayed, Inspected
  <1>11. Held'
    BY <1>1 DEF Held, Reading
  <1>12. NameComparedFirst' /\ OpeningBounded'
    BY <1>1 DEF NameComparedFirst, OpeningBounded, IsSocks, IsConnect
  <1> QED
    BY <1>8, <1>9, <1>10, <1>11, <1>12

\* One unit consumed by a front end.
LEMMA ConsumeKeeps ==
  ASSUME IInv, pc \in FrontPc,
         NEW next \in {"head", "methods", "userpass", "request", "decide", "dial", "closed"},
         Consume(next), head' \in 0..Pos + 1,
         next \in {"head", "decide"} => ~IsSocks,
         next \in {"decide", "dial"} => Pos + 1 = HeadLen
  PROVE  IInv'
  <1> USE DEF IInv
  <1>1. /\ conn' = conn /\ eof' = eof /\ pc' = next
        /\ intercept' = intercept /\ opening' = opening /\ up' = up /\ got' = got
        /\ lost' = lost /\ served' = served /\ down' = down /\ sent' = sent /\ sock' = sock
        /\ buf # << >> /\ buf' = Tail(buf)
    BY DEF Consume, relay
  <1>2. Units' = Units /\ HeadLen' = HeadLen /\ IsSocks' = IsSocks
    BY <1>1, SameUnits
  <1>3. /\ Pos \in Nat /\ Len(sock) \in Nat /\ Len(buf) \in Nat /\ sent \in Nat
        /\ Units \in Seq(Unit) /\ Pos = sent - Len(buf) - Len(sock)
    BY UnitsOf DEF Placed, Stretch, Typed, Pos
  <1>4. Stretch(buf', Units, Pos + 1) /\ Len(buf') = Len(buf) - 1 /\ Len(buf) > 0
    BY <1>1, <1>3, StretchTail DEF Placed
  <1>5. Pos' = Pos + 1 /\ Pos' + Len(buf') = Pos + Len(buf)
    <2>1. Pos' = sent - Len(buf') - Len(sock)
      BY <1>1 DEF Pos
    <2> QED
      BY <1>3, <1>4, <2>1
  <1>6. Placed'
    BY <1>1, <1>2, <1>3, <1>4, <1>5, SizesAreSizes DEF Placed
  <1>7. Typed'
    BY <1>1, <1>3 DEF Typed
  <1>8. Opened'
    <2>1. Nothing' /\ head' <= Pos'
      BY <1>1, <1>3, <1>5 DEF Opened, Nothing, FrontPc
    <2> QED
      BY <1>1, <1>2, <1>5, <2>1 DEF Opened
  <1>9. Relayed' /\ Held'
    BY <1>1 DEF Relayed, Held
  <1>10. NameComparedFirst' /\ OpeningBounded'
    BY <1>1 DEF NameComparedFirst, OpeningBounded, IsSocks, IsConnect
  <1> QED
    BY <1>6, <1>7, <1>8, <1>9, <1>10

\* The unit a front end looks at.
LEMMA NextUnit ==
  ASSUME IInv, buf # << >>
  PROVE  /\ Head(buf) = Units[Pos + 1] /\ Pos \in Nat /\ Pos + 1 \in 1..Len(Units)
         /\ Head(buf).k \in {"blank", "command"} => Pos + 1 = HeadLen
  <1>1. Pos \in Nat /\ Stretch(buf, Units, Pos) /\ Units \in Seq(Unit) /\ Typed
    BY UnitsOf DEF IInv, Placed
  <1>2. Head(buf) = Units[Pos + 1] /\ Pos + 1 \in 1..Len(Units)
    BY <1>1, StretchTail
  <1> QED
    BY <1>1, <1>2, LastOfOpening

LEMMA ReadFirstKeeps == IInv /\ ReadFirst => IInv'
  <1> SUFFICES ASSUME IInv, ReadFirst PROVE IInv'
    OBVIOUS
  <1> DEFINE p == Detect(Head(buf).k)
             next == CASE p = "http" -> "head"
                       [] p = "socks5" /\ conn.listener = "tcp" -> "methods"
                       [] OTHER -> "closed"
  <1>1. /\ pc = "first" /\ buf # << >> /\ Consume(next)
        /\ head' = IF p = "http" THEN 1 ELSE 0
    BY DEF ReadFirst
  <1>2. Pos = 0 /\ Head(buf) = Units[1]
    BY <1>1, NextUnit DEF IInv, Opened
  <1>3. next = "head" => ~IsSocks
    <2> SUFFICES ASSUME next = "head", IsSocks PROVE FALSE
      OBVIOUS
    <2>1. Head(buf).k # "v5"
      BY DEF Detect
    <2>2. Typed /\ conn.head.units # << >> /\ conn.head.units[1] = "v5"
      BY OpeningsAssumption DEF IInv, Typed, IsSocks
    <2>3. HeadLen \in Nat /\ HeadLen # 0
      BY <2>2, UnitsOf DEF HeadLen
    <2>4. Units[1].k = conn.head.units[1]
      BY <2>2, <2>3, UnitsOf
    <2> QED
      BY <1>2, <2>1, <2>2, <2>4
  <1>4. next \in {"head", "methods", "closed"}
    BY DEF Detect
  <1>5. head' \in 0..Pos + 1
    BY <1>1, <1>2
  <1> HIDE DEF next
  <1> QED
    BY <1>1, <1>3, <1>4, <1>5, ConsumeKeeps DEF FrontPc

LEMMA ReadHeadKeeps == IInv /\ ReadHead => IInv'
  <1> SUFFICES ASSUME IInv, ReadHead PROVE IInv'
    OBVIOUS
  <1> DEFINE k == Head(buf).k
             next == CASE k \in {"line", "blank"} /\ head' > MaxHead -> "closed"
                       [] k = "blank" -> "decide"
                       [] OTHER -> "head"
  <1>1. pc = "head" /\ buf # << >> /\ Consume(next) /\ head' = head + 1
    BY DEF ReadHead
  <1>2. next \in {"head", "decide", "closed"} /\ (next = "decide" => k = "blank")
    OBVIOUS
  <1>3. next = "decide" => Pos + 1 = HeadLen
    BY <1>1, <1>2, NextUnit
  <1>4. ~IsSocks /\ head' \in 0..Pos + 1
    <2>1. ~IsSocks /\ head <= Pos /\ head \in Nat /\ Pos \in Nat
      BY <1>1, NextUnit DEF IInv, Opened, Typed
    <2> QED
      BY <1>1, <2>1
  <1> HIDE DEF next
  <1> QED
    BY <1>1, <1>2, <1>3, <1>4, ConsumeKeeps DEF FrontPc

LEMMA ReadSocksKeeps == IInv /\ (ReadMethods \/ ReadUserpass \/ ReadRequest) => IInv'
  <1> SUFFICES ASSUME IInv, ReadMethods \/ ReadUserpass \/ ReadRequest PROVE IInv'
    OBVIOUS
  <1>1. head' = head /\ buf # << >>
    BY DEF ReadMethods, ReadUserpass, ReadRequest
  <1>2. head' \in 0..Pos + 1
    <2>1. head <= Pos /\ head \in Nat /\ Pos \in Nat
      BY <1>1, NextUnit DEF IInv, Opened, Typed
    <2> QED
      BY <1>1, <2>1
  <1>3. CASE ReadMethods
    <2> DEFINE next == CASE Head(buf).k = "nomethod" -> "closed"
                         [] conn.head.userpass -> "userpass"
                         [] OTHER -> "request"
    <2>1. pc = "methods" /\ Consume(next) /\ next \in {"closed", "userpass", "request"}
      BY <1>3 DEF ReadMethods
    <2> HIDE DEF next
    <2> QED
      BY <1>2, <2>1, ConsumeKeeps DEF FrontPc
  <1>4. CASE ReadUserpass
    BY <1>2, <1>4, ConsumeKeeps DEF FrontPc, ReadUserpass
  <1>5. CASE ReadRequest
    <2> DEFINE next == IF Head(buf).k = "command" THEN "dial" ELSE "closed"
    <2>1. pc = "request" /\ Consume(next) /\ next \in {"dial", "closed"}
          /\ (next = "dial" => Head(buf).k = "command")
      BY <1>5 DEF ReadRequest
    <2>2. next = "dial" => Pos + 1 = HeadLen
      BY <1>1, <2>1, NextUnit
    <2> HIDE DEF next
    <2> QED
      BY <1>2, <2>1, <2>2, ConsumeKeeps DEF FrontPc
  <1> QED
    BY <1>3, <1>4, <1>5
-----------------------------------------------------------------------------
(* The hand-over. *)

\* The tunnel starts where the head ends, with nothing of its own.
LEMMA AtTheHeadsEnd ==
  ASSUME IInv, Nothing
  PROVE  /\ Len(lost) = 0 /\ Len(got) = 0 /\ Len(opening) = 0
         /\ HeadLen \in Nat /\ HeadLen + 0 = HeadLen
         /\ Stretch(<< >>, Units, HeadLen)
  <1>1. Len(lost) = 0 /\ Len(got) = 0 /\ Len(opening) = 0
    BY DEF Nothing
  <1>2. HeadLen \in Nat /\ Units \in Seq(Unit) /\ HeadLen \in 0..Len(Units)
    BY UnitsOf, SizesAreSizes DEF IInv
  <1>3. HeadLen + 0 = HeadLen
    BY <1>2
  <1> QED
    BY <1>1, <1>2, <1>3, StretchEmpty

\* A step of the hand-over that moves no unit.
LEMMA DialsKeeps ==
  ASSUME IInv, Establish \/ ConnectDials \/ (SocksDials /\ ~intercept) \/ ForwardHead
  PROVE  IInv'
  <1> USE DEF IInv
  <1>1. /\ conn' = conn /\ eof' = eof /\ buf' = buf /\ head' = head
        /\ intercept' = intercept /\ opening' = opening /\ got' = got
        /\ lost' = lost /\ sent' = sent /\ sock' = sock /\ served' = served /\ down' = down
        /\ pc \in {"decide", "dial"} /\ Nothing /\ Pos = HeadLen
    BY DEF Establish, ConnectDials, SocksDials, ForwardHead, relay, Opened, Nothing
  <1>2. \/ pc' = "dial" /\ up' = "opening"
        \/ pc' = "accept" /\ intercept /\ up' = "opening"
        \/ pc' = "relay" /\ up' = "opening" /\ Inspected
        \/ pc' = "relay" /\ up' = "copy" /\ ~IsSocks /\ ~IsConnect
    BY <1>1 DEF Inspected, IsSocks, IsConnect, Establish, ConnectDials, SocksDials, ForwardHead, relay, Opened, Nothing
  <1>3. Units' = Units /\ HeadLen' = HeadLen /\ IsSocks' = IsSocks /\ Pos' = Pos
    BY <1>1, SameUnits DEF Pos
  <1>4. /\ lost = << >> /\ got = << >> /\ opening = << >>
        /\ Len(lost) = 0 /\ Len(got) = 0 /\ Len(opening) = 0
        /\ HeadLen + 0 = HeadLen /\ Stretch(<< >>, Units, HeadLen)
    BY <1>1, AtTheHeadsEnd DEF Nothing
  <1>5. Typed'
    BY <1>1, <1>2 DEF Typed
  <1>6. Placed'
    BY <1>1, <1>3 DEF Placed
  <1>7. Opened'
    BY <1>1, <1>2, <1>3 DEF Opened, Nothing
  <1>8. Relayed'
    <2>1. Stretch(lost', Units', HeadLen') /\ Stretch(got', Units', HeadLen' + Len(lost'))
      BY <1>1, <1>3, <1>4
    <2>2. Stretch(opening', Units', HeadLen') /\ Pos' = HeadLen' + Len(opening')
      BY <1>1, <1>3, <1>4
    <2>3. Pos' = HeadLen' + Len(lost') + Len(got')
      BY <1>1, <1>3, <1>4
    <2> QED
      BY <1>1, <1>2, <1>4, <2>1, <2>2, <2>3 DEF Relayed, Inspected
  <1>9. Held'
    BY <1>1, <1>2, <1>4 DEF Held, Inspected, IsSocks, IsConnect
  <1>10. NameComparedFirst' /\ OpeningBounded'
    BY <1>1 DEF NameComparedFirst, OpeningBounded, IsSocks, IsConnect
  <1> QED
    BY <1>5, <1>6, <1>7, <1>8, <1>9, <1>10

\* The intercepted SOCKS5 tunnel drops what was read ahead: the first of the
\* payload.
LEMMA SocksLosesKeeps == IInv /\ SocksDials /\ intercept => IInv'
  <1> SUFFICES ASSUME IInv, SocksDials, intercept PROVE IInv'
    OBVIOUS
  <1> USE DEF IInv
  <1>1. /\ conn' = conn /\ eof' = eof /\ head' = head /\ intercept' = intercept
        /\ opening' = opening /\ got' = got /\ up' = up
        /\ sent' = sent /\ sock' = sock /\ served' = served /\ down' = down
        /\ pc = "dial" /\ pc' = "accept" /\ Nothing /\ Pos = HeadLen
        /\ lost' = buf /\ buf' = << >>
    BY DEF SocksDials, Opened
  <1>2. Units' = Units /\ HeadLen' = HeadLen /\ IsSocks' = IsSocks
    BY <1>1, SameUnits
  <1>3. /\ got = << >> /\ opening = << >> /\ up = "opening" /\ Len(got) = 0
    BY <1>1, AtTheHeadsEnd DEF Nothing
  <1>4. /\ Pos \in Nat /\ Len(sock) \in Nat /\ Len(buf) \in Nat /\ sent \in Nat
        /\ Units \in Seq(Unit) /\ Pos + Len(buf) <= Len(Units) /\ Len(Units) \in Nat
        /\ Pos = sent - Len(buf) - Len(sock)
    BY UnitsOf, SizesAreSizes DEF Placed, Stretch, Typed, Pos
  <1>5. Len(buf') = 0
    BY <1>1
  <1>6. Pos' = Pos + Len(buf) /\ Pos' + Len(buf') = Pos + Len(buf)
    <2>1. Pos' = sent - Len(buf') - Len(sock)
      BY <1>1 DEF Pos
    <2> QED
      BY <1>4, <1>5, <2>1
  <1>7. Stretch(<< >>, Units, Pos + Len(buf))
    BY <1>4, StretchEmpty
  <1>8. Placed'
    BY <1>1, <1>2, <1>4, <1>5, <1>6, <1>7, SizesAreSizes DEF Placed
  <1>9. Typed'
    BY <1>1 DEF Typed
  <1>10. Opened'
    <2>1. head <= Pos /\ head \in Nat
      BY DEF Opened, Typed
    <2>2. head' <= Pos'
      BY <1>1, <1>4, <1>6, <2>1
    <2> QED
      BY <1>1, <2>2 DEF Opened
  <1>11. Relayed'
    <2>1. Stretch(lost', Units', HeadLen')
      BY <1>1, <1>2 DEF Placed
    <2>2. Stretch(got', Units', HeadLen' + Len(lost'))
      BY <1>1, <1>2, <1>3, <1>7
    <2>3. Pos' = HeadLen' + Len(lost') + Len(got')
      BY <1>1, <1>2, <1>3, <1>4, <1>6
    <2> QED
      BY <1>1, <1>3, <2>1, <2>2, <2>3 DEF Relayed
  <1>12. Held'
    BY <1>1 DEF Held
  <1>13. NameComparedFirst' /\ OpeningBounded'
    BY <1>1 DEF NameComparedFirst, OpeningBounded, IsSocks, IsConnect
  <1> QED
    BY <1>8, <1>9, <1>10, <1>11, <1>12, <1>13

-----------------------------------------------------------------------------
(* The relay and the TLS acceptor. *)

\* One read takes the next units, whichever of the two it takes them from.
LEMMA ChunkIsNext ==
  ASSUME IInv, Advance, conn' = conn, sent' = sent
  PROVE  /\ Stretch(Chunk, Units, Pos)
         /\ Len(Chunk) \in 1..ChunkSize
         /\ Pos' = Pos + Len(Chunk)
         /\ Placed'
  <1> USE DEF IInv
  <1>1. /\ Pos \in Nat /\ Len(sock) \in Nat /\ Len(buf) \in Nat /\ sent \in Nat
        /\ Pos = sent - Len(buf) - Len(sock) /\ Len(buf) <= BufSize
        /\ Stretch(buf, Units, Pos) /\ Stretch(sock, Units, Pos + Len(buf))
        /\ Units \in Seq(Unit) /\ Units' = Units
    BY UnitsOf, SameUnits DEF Placed, Stretch, Typed, Pos
  <1>2. CASE buf # << >>
    <2>1. /\ Chunk = Take(buf, ChunkSize) /\ Chunk # << >>
          /\ buf' = Drop(buf, Len(Chunk)) /\ sock' = sock
      BY <1>2 DEF Advance, Source, Chunk
    <2>2. /\ Stretch(Chunk, Units, Pos)
          /\ Len(Chunk) = IF ChunkSize < Len(buf) THEN ChunkSize ELSE Len(buf)
      BY <1>1, <2>1, StretchTake, SizesAreSizes
    <2>3. Len(buf) > 0
      BY <1>1, <1>2, StretchTail
    <2>4. Len(Chunk) \in 1..ChunkSize /\ Len(Chunk) \in 0..Len(buf) /\ Len(Chunk) \in Nat
      BY <1>1, <2>2, <2>3, SizesAreSizes
    <2>5. Stretch(buf', Units, Pos + Len(Chunk)) /\ Len(buf') = Len(buf) - Len(Chunk)
      BY <1>1, <2>1, <2>4, StretchDrop
    <2>6. Pos' = Pos + Len(Chunk) /\ Pos' + Len(buf') = Pos + Len(buf)
      <3>1. Pos' = sent - Len(buf') - Len(sock)
        BY <2>1 DEF Pos
      <3> QED
        BY <1>1, <2>4, <2>5, <3>1
    <2>7. Len(buf') <= BufSize /\ Pos' \in Nat
      BY <1>1, <2>4, <2>5, <2>6, SizesAreSizes
    <2> QED
      BY <1>1, <2>1, <2>2, <2>4, <2>5, <2>6, <2>7 DEF Placed
  <1>3. CASE buf = << >>
    <2>1. Len(buf) = 0
      BY <1>3
    <2>2. /\ Chunk = Take(sock, ChunkSize) /\ Chunk # << >>
          /\ sock' = Drop(sock, Len(Chunk)) /\ buf' = buf
      <3>1. Chunk = Take(sock, ChunkSize) /\ Chunk # << >> /\ Source = sock
        BY <1>3 DEF Advance, Source, Chunk
      <3>2. sock # << >>
        <4>1. ASSUME sock = << >> PROVE FALSE
          <5>1. Len(sock) = 0
            BY <4>1
          <5>2. Stretch(Chunk, Units, Pos + Len(buf)) /\ Len(Chunk) = 0
            BY <1>1, <3>1, <5>1, StretchTake, SizesAreSizes
          <5>3. Chunk \in Seq(Unit)
            BY <5>2 DEF Stretch
          <5>4. Chunk = << >>
            <6> HIDE DEF Unit
            <6> QED
              BY <5>2, <5>3
          <5> QED
            BY <3>1, <5>4
        <4> QED
          BY <4>1
      <3> QED
        BY <1>3, <3>1, <3>2 DEF Advance
    <2>3. Stretch(sock, Units, Pos)
      <3>1. Pos + Len(buf) = Pos
        BY <1>1, <2>1
      <3> QED
        BY <1>1, <3>1
    <2>4. /\ Stretch(Chunk, Units, Pos)
          /\ Len(Chunk) = IF ChunkSize < Len(sock) THEN ChunkSize ELSE Len(sock)
      BY <1>1, <2>2, <2>3, StretchTake, SizesAreSizes
    <2>5. Len(Chunk) > 0
      BY <1>1, <2>2, <2>4, StretchTail
    <2>6. Len(Chunk) \in 1..ChunkSize /\ Len(Chunk) \in 0..Len(sock) /\ Len(Chunk) \in Nat
      BY <1>1, <2>4, <2>5, SizesAreSizes
    <2>7. Stretch(sock', Units, Pos + Len(Chunk)) /\ Len(sock') = Len(sock) - Len(Chunk)
      BY <1>1, <2>2, <2>3, <2>6, StretchDrop
    <2>8. Pos' = Pos + Len(Chunk) /\ Pos' + Len(buf') = Pos + Len(Chunk)
      <3>1. Pos' = sent - Len(buf) - Len(sock')
        BY <2>2 DEF Pos
      <3> QED
        BY <1>1, <2>1, <2>2, <2>6, <2>7, <3>1
    <2>9. Stretch(<< >>, Units, Pos + Len(Chunk)) /\ Pos' \in Nat
      <3>1. Pos + Len(Chunk) \in 0..Len(Units) /\ Pos + Len(Chunk) \in Nat
        BY <1>1, <2>6, <2>7 DEF Stretch
      <3> QED
        BY <1>1, <2>8, <3>1, StretchEmpty
    <2> QED
      BY <1>1, <1>3, <2>2, <2>4, <2>6, <2>7, <2>8, <2>9 DEF Placed
  <1> QED
    BY <1>2, <1>3
LEMMA AcceptorKeeps == IInv /\ AcceptorReads => IInv'
  <1> SUFFICES ASSUME IInv, AcceptorReads PROVE IInv'
    OBVIOUS
  <1> USE DEF IInv
  <1>1. /\ conn' = conn /\ eof' = eof /\ head' = head /\ pc' = pc /\ pc = "accept"
        /\ intercept' = intercept /\ opening' = opening /\ up' = up
        /\ lost' = lost /\ served' = served /\ down' = down /\ sent' = sent
        /\ Advance /\ got' = got \o Chunk
    BY DEF AcceptorReads
  <1>2. Units' = Units /\ HeadLen' = HeadLen /\ IsSocks' = IsSocks
    BY <1>1, SameUnits
  <1>3. /\ Stretch(Chunk, Units, Pos) /\ Len(Chunk) \in 1..ChunkSize
        /\ Pos' = Pos + Len(Chunk) /\ Placed'
    BY <1>1, ChunkIsNext
  <1>4. /\ intercept /\ Pos = HeadLen + Len(lost) + Len(got)
        /\ Stretch(lost, Units, HeadLen) /\ Stretch(got, Units, HeadLen + Len(lost))
        /\ Units \in Seq(Unit) /\ opening = << >> /\ HeadLen \in Nat
    BY <1>1, UnitsOf DEF Relayed
  <1>5. Stretch(got', Units, HeadLen + Len(lost)) /\ Len(got') = Len(got) + Len(Chunk)
    BY <1>1, <1>3, <1>4, StretchJoin
  <1>6. Typed'
    BY <1>1 DEF Typed
  <1>7. Opened'
    <2>1. head <= Pos /\ head \in Nat /\ Pos \in Nat
      BY DEF Opened, Typed, Placed
    <2>2. head' <= Pos'
      BY <1>1, <1>3, <2>1, SizesAreSizes
    <2> QED
      BY <1>1, <2>2 DEF Opened
  <1>8. Relayed'
    <2>1. Len(lost) \in Nat /\ Len(got) \in Nat
      BY <1>4 DEF Stretch
    <2>2. Pos' = HeadLen' + Len(lost') + Len(got')
      BY <1>1, <1>2, <1>3, <1>4, <1>5, <2>1, SizesAreSizes
    <2> QED
      BY <1>1, <1>2, <1>4, <1>5, <2>2 DEF Relayed
  <1>9. Held'
    BY <1>1 DEF Held
  <1>10. NameComparedFirst' /\ OpeningBounded'
    BY <1>1, <1>4 DEF NameComparedFirst, OpeningBounded
  <1> QED
    BY <1>3, <1>6, <1>7, <1>8, <1>9, <1>10

\* A read that joins the opening; it is compared once there is enough of it.
LEMMA OpeningReadsKeeps ==
  ASSUME IInv, ReadOpening, Advance, opening' = opening \o Chunk,
         up' = IF Enough(opening') THEN "inspect" ELSE "opening"
  PROVE  IInv'
  <1> USE DEF IInv
  <1>1. /\ conn' = conn /\ eof' = eof /\ head' = head /\ pc' = pc /\ pc = "relay"
        /\ intercept' = intercept /\ up = "opening" /\ got' = got
        /\ lost' = lost /\ served' = served /\ down' = down /\ sent' = sent
    BY DEF ReadOpening
  <1>2. Units' = Units /\ HeadLen' = HeadLen /\ IsSocks' = IsSocks /\ IsConnect' = IsConnect
        /\ Inspected' = Inspected
    BY <1>1, SameUnits DEF Inspected
  <1>3. /\ Stretch(Chunk, Units, Pos) /\ Len(Chunk) \in 1..ChunkSize
        /\ Pos' = Pos + Len(Chunk) /\ Placed'
    BY <1>1, ChunkIsNext
  <1>4. /\ Pos = HeadLen + Len(opening) /\ Stretch(opening, Units, HeadLen)
        /\ Units \in Seq(Unit) /\ HeadLen \in Nat /\ Inspected
        /\ got = << >> /\ lost = << >>
        /\ Stretch(lost, Units, HeadLen) /\ Stretch(got, Units, HeadLen + Len(lost))
    BY <1>1, UnitsOf DEF Relayed
  <1>5. Stretch(opening', Units, HeadLen) /\ Len(opening') = Len(opening) + Len(Chunk)
    BY <1>3, <1>4, StretchJoin
  <1>6. Len(opening) \in Nat /\ Len(opening') \in Nat /\ Len(opening') > 0
    BY <1>3, <1>4, <1>5, SizesAreSizes DEF Stretch
  <1>7. Typed'
    BY <1>1 DEF Typed
  <1>8. Opened'
    <2>1. head <= Pos /\ head \in Nat /\ Pos \in Nat
      BY DEF Opened, Typed, Placed
    <2>2. head' <= Pos'
      BY <1>1, <1>3, <2>1, SizesAreSizes
    <2> QED
      BY <1>1, <2>2 DEF Opened
  <1>9. up' \in {"opening", "inspect"} /\ (up' = "opening" => ~Enough(opening'))
        /\ (up' = "inspect" => Enough(opening'))
    OBVIOUS
  <1>10. Relayed'
    <2>1. Pos' = HeadLen' + Len(opening')
      BY <1>2, <1>3, <1>4, <1>5, <1>6, SizesAreSizes
    <2> QED
      BY <1>1, <1>2, <1>4, <1>5, <1>9, <2>1 DEF Relayed
  <1>11. ~Enough(opening') => Len(opening') < MaxOpening
    <2>1. opening' # << >>
      <3>1. opening' = << >> => Len(opening') = 0
        OBVIOUS
      <3> QED
        BY <1>6, <3>1
    <2> QED
      BY <1>6, <2>1, SizesAreSizes DEF Enough
  <1>12. Held'
    <2>1. Enough(opening)' = Enough(opening')
      BY <1>1 DEF Enough
    <2> QED
      BY <1>9, <1>11, <2>1 DEF Held
  <1>13. OpeningBounded'
    <2>1. Len(opening) = 0 \/ Len(opening) < MaxOpening
      <3>1. opening = << >> \/ Len(opening) < MaxOpening
        BY <1>1, <1>4 DEF Held
      <3>2. opening = << >> => Len(opening) = 0
        OBVIOUS
      <3> QED
        BY <3>1, <3>2
    <2>2. Len(opening') < MaxOpening + ChunkSize
      BY <1>3, <1>5, <1>6, <2>1, SizesAreSizes
    <2> QED
      BY <2>2 DEF OpeningBounded
  <1>14. NameComparedFirst'
    BY <1>1 DEF NameComparedFirst, IsSocks, IsConnect
  <1> QED
    BY <1>3, <1>7, <1>8, <1>10, <1>12, <1>13, <1>14

\* The steps of the relay that move no unit: the opening has ended with the
\* client, has been compared, or the client has nothing more to say.
LEMMA TurnsKeeps ==
  ASSUME IInv, pc = "relay", UNCHANGED <<conn, sent, eof, sock, buf, head, intercept, opening,
                                         got, lost, served, down>>,
         \/ pc' = "relay" /\ up = "opening" /\ AtEof /\ up' = "inspect"
         \/ pc' = "relay" /\ up = "inspect" /\ Sni(opening) # "other" /\ up' = "flush"
         \/ pc' = "relay" /\ up = "copy" /\ up' = "shutdown"
         \/ pc' = "closed" /\ up' = up
  PROVE  IInv'
  <1> USE DEF IInv
  <1>1. /\ conn' = conn /\ eof' = eof /\ buf' = buf /\ head' = head
        /\ intercept' = intercept /\ opening' = opening /\ got' = got
        /\ lost' = lost /\ served' = served /\ down' = down
        /\ sent' = sent /\ sock' = sock /\ pc' \in {"relay", "closed"}
    OBVIOUS
  <1>2. Units' = Units /\ HeadLen' = HeadLen /\ IsSocks' = IsSocks /\ Pos' = Pos
        /\ Inspected' = Inspected
    BY <1>1, SameUnits DEF Pos, Inspected
  <1>3. Typed' /\ Placed'
    BY <1>1, <1>2 DEF Typed, Placed
  <1>4. Opened'
    BY <1>1, <1>2 DEF Opened
  <1>5. Relayed'
    BY <1>1, <1>2 DEF Relayed
  <1>6. Held'
    <2>1. /\ Enough(opening)' = Enough(opening) /\ Sni(opening)' = Sni(opening)
          /\ AtEof' = AtEof
      BY <1>1 DEF Enough, Sni, AtEof
    <2> QED
      BY <1>1, <1>2, <2>1 DEF Held
  <1>7. NameComparedFirst' /\ OpeningBounded'
    BY <1>1 DEF NameComparedFirst, OpeningBounded, IsSocks, IsConnect
  <1> QED
    BY <1>3, <1>4, <1>5, <1>6, <1>7

\* Payload that arrives at an uninspected tunnel's upstream after a hello that
\* fits the opening has been compared.
LEMMA ComparedWhenCopied ==
  ASSUME Typed, Inspected, Enough(opening) \/ got = opening, Sni(opening) # "other",
         opening \in Seq(Unit)
  PROVE  NameComparedFirst
  <1> SUFFICES ASSUME conn.hello.tls, conn.hello.hs <= conn.hello.rec,
                      1 + conn.hello.rec <= MaxOpening, Len(got) >= 1 + conn.hello.rec
               PROVE  conn.hello.sni # "other"
    BY DEF NameComparedFirst
  <1>1. conn.hello.rec \in Nat /\ Len(opening) \in Nat
    <2>1. conn.hello.rec \in Nat
      BY UnitsOf DEF Hello
    <2> HIDE DEF Unit
    <2> QED
      BY <2>1
  <1>2. Len(opening) >= 1 + conn.hello.rec
    BY <1>1, SizesAreSizes DEF Enough
  <1>3. opening # << >>
    <2>1. opening = << >> => Len(opening) = 0
      OBVIOUS
    <2> QED
      BY <1>1, <1>2, <2>1
  <1> QED
    BY <1>2, <1>3 DEF Sni

LEMMA FlushKeeps == IInv /\ Flush => IInv'
  <1> SUFFICES ASSUME IInv, Flush PROVE IInv'
    OBVIOUS
  <1> USE DEF IInv
  <1>1. /\ conn' = conn /\ eof' = eof /\ buf' = buf /\ head' = head /\ pc' = pc /\ pc = "relay"
        /\ intercept' = intercept /\ opening' = opening /\ up = "flush" /\ up' = "copy"
        /\ lost' = lost /\ served' = served /\ down' = down
        /\ sent' = sent /\ sock' = sock /\ got' = got \o opening
    BY DEF Flush
  <1>2. Units' = Units /\ HeadLen' = HeadLen /\ IsSocks' = IsSocks /\ Pos' = Pos
        /\ Inspected' = Inspected /\ Enough(opening)' = Enough(opening)
        /\ Sni(opening)' = Sni(opening) /\ AtEof' = AtEof
    BY <1>1, SameUnits DEF Pos, Inspected, Enough, Sni, AtEof
  <1>3. /\ Inspected /\ got = << >> /\ lost = << >> /\ Stretch(opening, Units, HeadLen)
        /\ Pos = HeadLen + Len(opening) /\ Stretch(lost, Units, HeadLen)
    BY <1>1 DEF Relayed
  <1>4. got' = opening /\ opening \in Seq(Unit) /\ Len(lost) = 0 /\ Len(opening) \in Nat
    <2>1. opening \in Seq(Unit) /\ Len(opening) \in Nat
      BY <1>3 DEF Stretch
    <2>2. Len(lost) = 0
      BY <1>3
    <2>3. << >> \o opening = opening
      <3> HIDE DEF Unit
      <3> QED
        BY <2>1
    <2> QED
      BY <1>1, <1>3, <2>1, <2>2, <2>3
  <1>5. Typed' /\ Placed'
    BY <1>1, <1>2 DEF Typed, Placed
  <1>6. Opened'
    BY <1>1, <1>2 DEF Opened
  <1>7. HeadLen + Len(lost) = HeadLen /\ Pos = HeadLen + Len(lost) + Len(opening)
    BY <1>3, <1>4, UnitsOf
  <1>8. Relayed'
    BY <1>1, <1>2, <1>3, <1>4, <1>7 DEF Relayed
  <1>9. Held'
    BY <1>1, <1>2, <1>4 DEF Held
  <1>10. NameComparedFirst'
    <2>1. Sni(opening) # "other"
      BY <1>1, <1>3 DEF Held
    <2>2. Typed' /\ Inspected' /\ got' = opening' /\ (Sni(opening) # "other")' /\ opening' \in Seq(Unit)
      BY <1>1, <1>2, <1>3, <1>4, <1>5, <2>1
    <2>3. (Typed /\ Inspected /\ got = opening /\ Sni(opening) # "other" /\ opening \in Seq(Unit)
             => NameComparedFirst)'
      BY ComparedWhenCopied, PTL
    <2> QED
      BY <2>2, <2>3
  <1>11. OpeningBounded'
    BY <1>1 DEF OpeningBounded
  <1> QED
    BY <1>5, <1>6, <1>8, <1>9, <1>10, <1>11
\* A read that is copied: the hello has been looked at, or does not matter.
LEMMA CopyReadsKeeps ==
  ASSUME IInv, Copy, Advance, got' = got \o Chunk, up' = up
  PROVE  IInv'
  <1> USE DEF IInv
  <1>1. /\ conn' = conn /\ eof' = eof /\ head' = head /\ pc' = pc /\ pc = "relay"
        /\ intercept' = intercept /\ opening' = opening /\ up = "copy"
        /\ lost' = lost /\ served' = served /\ down' = down /\ sent' = sent
    BY DEF Copy
  <1>2. /\ Units' = Units /\ HeadLen' = HeadLen /\ IsSocks' = IsSocks
        /\ Inspected' = Inspected /\ Enough(opening)' = Enough(opening)
        /\ Sni(opening)' = Sni(opening)
    BY <1>1, SameUnits DEF Inspected, Enough, Sni
  <1>3. /\ Stretch(Chunk, Units, Pos) /\ Len(Chunk) \in 1..ChunkSize
        /\ Pos' = Pos + Len(Chunk) /\ Placed'
    BY <1>1, ChunkIsNext
  <1>4. /\ Pos = HeadLen + Len(lost) + Len(got) /\ Units \in Seq(Unit) /\ HeadLen \in Nat
        /\ Stretch(lost, Units, HeadLen) /\ Stretch(got, Units, HeadLen + Len(lost))
    BY <1>1, UnitsOf DEF Relayed
  <1>5. Stretch(got', Units, HeadLen + Len(lost)) /\ Len(got') = Len(got) + Len(Chunk)
    BY <1>3, <1>4, StretchJoin
  <1>6. Typed'
    BY <1>1 DEF Typed
  <1>7. Opened'
    <2>1. head <= Pos /\ head \in Nat /\ Pos \in Nat
      BY DEF Opened, Typed, Placed
    <2>2. head' <= Pos'
      BY <1>1, <1>3, <2>1, SizesAreSizes
    <2> QED
      BY <1>1, <2>2 DEF Opened
  <1>8. Relayed'
    <2>1. Len(lost) \in Nat /\ Len(got) \in Nat
      BY <1>4 DEF Stretch
    <2>2. Pos' = HeadLen' + Len(lost') + Len(got')
      BY <1>1, <1>2, <1>3, <1>4, <1>5, <2>1, SizesAreSizes
    <2> QED
      BY <1>1, <1>2, <1>4, <1>5, <2>2 DEF Relayed
  <1>9. ~AtEof
    <2>1. ASSUME AtEof PROVE FALSE
      <3>1. buf = << >> /\ sock = << >>
        BY <2>1 DEF AtEof
      <3>2. Chunk # << >> /\ Chunk = Take(sock, ChunkSize)
        BY <3>1 DEF Advance, Chunk, Source
      <3>3. Len(Chunk) = 0
        <4>1. Stretch(sock, Units, Pos + Len(buf)) /\ Len(sock) = 0
          BY <3>1 DEF Placed
        <4> QED
          BY <1>4, <3>2, <4>1, StretchTake, SizesAreSizes
      <3> QED
        BY <1>3, <3>3, SizesAreSizes
    <2> QED
      BY <2>1
  <1>10. Inspected => Enough(opening) /\ opening \in Seq(Unit) /\ Sni(opening) # "other"
    BY <1>1, <1>9 DEF Held
  <1>11. Held'
    BY <1>1, <1>2, <1>10 DEF Held
  <1>12. NameComparedFirst'
    <2>1. CASE Inspected
      <3>1. /\ Typed' /\ Inspected' /\ Enough(opening)' /\ (Sni(opening) # "other")'
            /\ opening' \in Seq(Unit)
        BY <1>1, <1>2, <1>6, <1>10, <2>1
      <3>2. (Typed /\ Inspected /\ Enough(opening) /\ Sni(opening) # "other"
               /\ opening \in Seq(Unit) => NameComparedFirst)'
        BY ComparedWhenCopied, PTL
      <3> QED
        BY <3>1, <3>2
    <2>2. CASE ~Inspected
      <3>1. ~Inspected' /\ intercept' \in BOOLEAN
        BY <1>1, <1>2, <2>2 DEF Typed
      <3> QED
        BY <3>1 DEF NameComparedFirst, Inspected, IsSocks, IsConnect
    <2> QED
      BY <2>1, <2>2
  <1>13. OpeningBounded'
    BY <1>1 DEF OpeningBounded
  <1> QED
    BY <1>3, <1>6, <1>7, <1>8, <1>11, <1>12, <1>13

LEMMA StutterKeeps == IInv /\ UNCHANGED vars => IInv'
  <1> SUFFICES ASSUME IInv, UNCHANGED vars PROVE IInv'
    OBVIOUS
  <1> USE DEF IInv
  <1>1. /\ conn' = conn /\ eof' = eof /\ head' = head /\ pc' = pc /\ buf' = buf
        /\ intercept' = intercept /\ opening' = opening /\ up' = up /\ got' = got
        /\ lost' = lost /\ served' = served /\ down' = down /\ sent' = sent /\ sock' = sock
    BY DEF vars, relay
  <1>2. /\ Units' = Units /\ HeadLen' = HeadLen /\ IsSocks' = IsSocks /\ Pos' = Pos
        /\ Inspected' = Inspected /\ Enough(opening)' = Enough(opening)
        /\ Sni(opening)' = Sni(opening) /\ AtEof' = AtEof
    BY <1>1, SameUnits DEF Inspected, Enough, Sni, AtEof, Pos
  <1>3. Typed' /\ Placed' /\ Opened'
    BY <1>1, <1>2 DEF Typed, Placed, Opened, Nothing
  <1>4. Relayed' /\ Held'
    BY <1>1, <1>2 DEF Relayed, Held
  <1>5. NameComparedFirst' /\ OpeningBounded'
    BY <1>1 DEF NameComparedFirst, OpeningBounded, IsSocks, IsConnect
  <1> QED
    BY <1>3, <1>4, <1>5

LEMMA NextIInv == IInv /\ [Next]_vars => IInv'
  <1> SUFFICES ASSUME IInv, [Next]_vars PROVE IInv'
    OBVIOUS
  <1>1. CASE Send
    BY <1>1, SendKeeps
  <1>2. CASE HangUp
    BY <1>2, HangUpKeeps
  <1>3. CASE Serve \/ Downstream
    BY <1>3, ServingKeeps
  <1>4. CASE FrontEnd
    BY <1>4, FillKeeps, CloseKeeps, ReadFirstKeeps, ReadHeadKeeps, ReadSocksKeeps
       DEF FrontEnd, ReadEof
  <1>5. CASE HandOver
    <2>1. CASE GiveUp
      BY <2>1, CloseKeeps DEF GiveUp
    <2>2. CASE SocksDials
      BY <2>2, SocksLosesKeeps, DialsKeeps
    <2>3. CASE Establish \/ ConnectDials \/ ForwardHead
      BY <2>3, DialsKeeps
    <2> QED
      BY <1>5, <2>1, <2>2, <2>3 DEF HandOver
  <1>6. CASE AcceptorReads
    BY <1>6, AcceptorKeeps
  <1>7. CASE ReadOpening
    <2>1. CASE /\ Advance /\ opening' = opening \o Chunk
               /\ up' = IF Enough(opening') THEN "inspect" ELSE "opening"
      BY <1>7, <2>1, OpeningReadsKeeps
    <2>2. CASE AtEof /\ up' = "inspect" /\ UNCHANGED <<opening, buf, sock>>
      <3>1. /\ pc = "relay" /\ pc' = "relay" /\ up = "opening"
            /\ UNCHANGED <<conn, sent, eof, sock, buf, head, intercept, opening,
                           got, lost, served, down>>
        BY <1>7, <2>2 DEF ReadOpening
      <3> QED
        BY <2>2, <3>1, TurnsKeeps
    <2> QED
      BY <1>7, <2>1, <2>2 DEF ReadOpening
  <1>8. CASE Inspect
    <2>1. /\ pc = "relay" /\ up = "inspect"
          /\ UNCHANGED <<conn, sent, eof, sock, buf, head, intercept, opening,
                         got, lost, served, down>>
          /\ \/ pc' = "closed" /\ up' = up
             \/ pc' = "relay" /\ Sni(opening) # "other" /\ up' = "flush"
      BY <1>8 DEF Inspect
    <2> QED
      BY <2>1, TurnsKeeps
  <1>9. CASE Flush
    BY <1>9, FlushKeeps
  <1>10. CASE Copy
    <2>1. CASE Advance /\ got' = got \o Chunk /\ up' = up
      BY <1>10, <2>1, CopyReadsKeeps
    <2>2. CASE AtEof /\ up' = "shutdown" /\ UNCHANGED <<got, buf, sock>>
      <3>1. /\ pc = "relay" /\ pc' = "relay" /\ up = "copy"
            /\ UNCHANGED <<conn, sent, eof, sock, buf, head, intercept, opening,
                           got, lost, served, down>>
        BY <1>10, <2>2 DEF Copy
      <3> QED
        BY <2>2, <3>1, TurnsKeeps
    <2> QED
      BY <1>10, <2>1, <2>2 DEF Copy
  <1>11. CASE TunnelEnds
    BY <1>11, CloseKeeps DEF TunnelEnds
  <1>12. CASE UNCHANGED vars
    BY <1>12, StutterKeeps
  <1> QED
    BY <1>1, <1>2, <1>3, <1>4, <1>5, <1>6, <1>7, <1>8, <1>9, <1>10, <1>11, <1>12
       DEF Next, Upstream

LEMMA AlwaysIInv == Spec => []IInv
  BY InitIInv, NextIInv, PTL DEF Spec

LEMMA IInvTypeOK == IInv => TypeOK
  <1> SUFFICES ASSUME IInv PROVE TypeOK
    OBVIOUS
  <1> USE DEF IInv
  <1>1. /\ Pos \in Nat /\ Len(sock) \in Nat /\ Len(buf) \in Nat /\ sent \in Nat
        /\ Pos = sent - Len(buf) - Len(sock) /\ head <= Pos /\ head \in Nat
        /\ Units \in Seq(Unit) /\ Len(Units) \in Nat
        /\ Pos + Len(buf) + Len(sock) <= Len(Units)
    BY UnitsOf, SizesAreSizes DEF Placed, Stretch, Typed, Pos, Opened
  <1>2. sent \in 0..Len(Units) /\ head \in 0..(Len(Units) + 1) /\ Len(sock) + Len(buf) <= sent
    BY <1>1
  <1> QED
    BY <1>2 DEF TypeOK, Typed, Placed

\* The opening of a tunnel nobody intercepts is held back until the name in a
\* hello that fits it has been compared, and never outgrows its cap by more
\* than one read (tunnel.rs: read_opening, check_sni), whatever the sizes of
\* buffers, heads and hellos.
THEOREM WireOpeningIsInspected == Spec => []OpeningIsInspected
  <1>1. IInv => OpeningIsInspected
    BY IInvTypeOK DEF IInv, OpeningIsInspected
  <1> QED
    BY <1>1, AlwaysIInv, PTL
-----------------------------------------------------------------------------
(* The tunnel is a byte stream. *)

\* Units of payload the client has written.
Written == IF sent > HeadLen THEN sent - HeadLen ELSE 0

\* What ByteStream says, in the terms of a connection.
LEMMA StreamIs ==
  /\ Stream!Init <=> Written = 0 /\ got = << >> /\ lost = << >> /\ (IsSocks /\ intercept) \in BOOLEAN
  /\ Stream!Write <=> /\ Written < Len(Payload) /\ Written' = Written + 1
                      /\ got' = got /\ lost' = lost
                      /\ (IsSocks /\ intercept)' = (IsSocks /\ intercept)
  /\ Stream!Read <=>
       \E k \in 1..(Written - (Len(lost) + Len(got))) :
         /\ got' = got \o SubSeq(Payload, (Len(lost) + Len(got)) + 1, (Len(lost) + Len(got)) + k)
         /\ Written' = Written /\ lost' = lost
         /\ (IsSocks /\ intercept)' = (IsSocks /\ intercept)
  /\ Stream!Lose <=>
       /\ IsSocks /\ intercept /\ got = << >> /\ lost = << >>
       /\ \E k \in 1..Written : lost' = SubSeq(Payload, 1, k)
       /\ Written' = Written /\ got' = got
       /\ (IsSocks /\ intercept)' = (IsSocks /\ intercept)
  /\ UNCHANGED Stream!vars <=>
       /\ Written' = Written /\ got' = got /\ lost' = lost
       /\ (IsSocks /\ intercept)' = (IsSocks /\ intercept)
  <1>1. Stream!Init <=> Written = 0 /\ got = << >> /\ lost = << >>
                        /\ (IsSocks /\ intercept) \in BOOLEAN
    BY DEF Stream!Init, Written, HeadLen
  <1>2. Stream!Write <=> /\ Written < Len(Payload) /\ Written' = Written + 1
                         /\ got' = got /\ lost' = lost
                         /\ (IsSocks /\ intercept)' = (IsSocks /\ intercept)
    BY DEF Stream!Write, Written, HeadLen
  <1>3. Stream!Read <=>
          \E k \in 1..(Written - (Len(lost) + Len(got))) :
            /\ got' = got \o SubSeq(Payload, (Len(lost) + Len(got)) + 1,
                                    (Len(lost) + Len(got)) + k)
            /\ Written' = Written /\ lost' = lost
            /\ (IsSocks /\ intercept)' = (IsSocks /\ intercept)
    BY DEF Stream!Read, Stream!Arrived, Written, HeadLen
  <1>4. Stream!Lose <=>
          /\ IsSocks /\ intercept /\ got = << >> /\ lost = << >>
          /\ \E k \in 1..Written : lost' = SubSeq(Payload, 1, k)
          /\ Written' = Written /\ got' = got
          /\ (IsSocks /\ intercept)' = (IsSocks /\ intercept)
    BY DEF Stream!Lose, Written, HeadLen
  <1>5. UNCHANGED Stream!vars <=>
          /\ Written' = Written /\ got' = got /\ lost' = lost
          /\ (IsSocks /\ intercept)' = (IsSocks /\ intercept)
    BY DEF Stream!vars, Written, HeadLen
  <1> QED
    BY <1>1, <1>2, <1>3, <1>4, <1>5

LEMMA PayloadStretch ==
  ASSUME Typed, NEW a \in Nat, NEW x, Stretch(x, Units, HeadLen + a)
  PROVE  x = SubSeq(Payload, a + 1, a + Len(x)) /\ a + Len(x) <= Len(Payload)
  <1>1. /\ HeadLen \in Nat /\ Payload \in Seq(Unit) /\ Len(Payload) = PayloadLen
        /\ PayloadLen \in Nat /\ Len(Units) = HeadLen + PayloadLen
        /\ \A i \in 1..PayloadLen : Units[HeadLen + i] = Payload[i]
    BY UnitsOf, SizesAreSizes
  <1>2. x \in Seq(Unit) /\ Len(x) \in Nat /\ (HeadLen + a) + Len(x) <= Len(Units)
        /\ \A i \in 1..Len(x) : x[i] = Units[(HeadLen + a) + i]
    BY DEF Stretch
  <1>3. a + Len(x) <= Len(Payload)
    BY <1>1, <1>2
  <1>4. ASSUME NEW i \in 1..Len(x)
        PROVE  x[i] = Payload[a + i]
    <2>1. a + i \in 1..PayloadLen /\ (HeadLen + a) + i = HeadLen + (a + i)
      BY <1>1, <1>2, <1>3
    <2> QED
      BY <1>1, <1>2, <2>1
  <1>5. Stretch(x, Payload, a)
    BY <1>2, <1>3, <1>4 DEF Stretch
  <1> QED
    BY <1>1, <1>3, <1>5, StretchIs

LEMMA StreamStutters ==
  ASSUME conn' = conn, sent' = sent, intercept' = intercept, got' = got, lost' = lost
  PROVE  UNCHANGED Stream!vars
  <1>1. Written' = Written /\ IsSocks' = IsSocks
    BY SameUnits DEF Written
  <1> QED
    BY <1>1, StreamIs

\* What is delivered next is what the stream has next.
LEMMA StreamReads ==
  ASSUME IInv, conn' = conn, sent' = sent, intercept' = intercept, lost' = lost,
         NEW x, Stretch(x, Units, HeadLen + (Len(lost) + Len(got))), Len(x) > 0,
         HeadLen + (Len(lost) + Len(got)) + Len(x) <= sent,
         Len(lost) \in Nat, Len(got) \in Nat, got' = got \o x
  PROVE  Stream!Read
  <1> DEFINE a == Len(lost) + Len(got)
             k == Len(x)
  <1>1. Written' = Written /\ IsSocks' = IsSocks
    BY SameUnits DEF Written
  <1>2. /\ HeadLen \in Nat /\ sent \in Nat /\ Typed
        /\ k \in Nat /\ k > 0 /\ a \in Nat /\ HeadLen + a + k <= sent
    BY UnitsOf DEF IInv, Typed, Stretch
  <1>3. x = SubSeq(Payload, a + 1, a + k)
    BY <1>2, PayloadStretch
  <1> HIDE DEF a, k
  <1>4. k \in 1..(Written - a)
    BY <1>2 DEF Written
  <1>5. \E n \in 1..(Written - a) :
          /\ got' = got \o SubSeq(Payload, a + 1, a + n)
          /\ Written' = Written /\ lost' = lost
          /\ (IsSocks /\ intercept)' = (IsSocks /\ intercept)
    BY <1>1, <1>3, <1>4
  <1> QED
    BY <1>5, StreamIs DEF a

LEMMA SendWrites == IInv /\ Send => Stream!Write \/ UNCHANGED Stream!vars
  <1> SUFFICES ASSUME IInv, Send PROVE Stream!Write \/ UNCHANGED Stream!vars
    OBVIOUS
  <1>1. /\ conn' = conn /\ sent' = sent + 1 /\ intercept' = intercept /\ got' = got
        /\ lost' = lost /\ sent < Len(Units)
    BY DEF Send, relay
  <1>2. IsSocks' = IsSocks /\ HeadLen' = HeadLen
    BY <1>1, SameUnits
  <1>3. HeadLen \in Nat /\ Len(Payload) = PayloadLen /\ Len(Units) = HeadLen + PayloadLen
        /\ sent \in Nat /\ PayloadLen \in Nat
    BY UnitsOf, SizesAreSizes DEF IInv, Typed
  <1>4. CASE sent < HeadLen
    <2>1. Written' = Written
      BY <1>1, <1>2, <1>3, <1>4 DEF Written
    <2> QED
      BY <1>1, <1>2, <2>1, StreamIs
  <1>5. CASE sent >= HeadLen
    <2>1. Written' = Written + 1 /\ Written < Len(Payload)
      BY <1>1, <1>2, <1>3, <1>5 DEF Written
    <2> QED
      BY <1>1, <1>2, <2>1, StreamIs
  <1> QED
    BY <1>3, <1>4, <1>5

\* Unwrapping the reader of an intercepted SOCKS5 tunnel drops a prefix of the
\* payload, or nothing.
LEMMA DialLoses == IInv /\ SocksDials => Stream!Lose \/ UNCHANGED Stream!vars
  <1> SUFFICES ASSUME IInv, SocksDials PROVE Stream!Lose \/ UNCHANGED Stream!vars
    OBVIOUS
  <1>1. /\ conn' = conn /\ sent' = sent /\ intercept' = intercept /\ got' = got
        /\ pc = "dial" /\ IsSocks
        /\ lost' = IF intercept THEN buf ELSE << >>
    BY DEF SocksDials
  <1>2. Written' = Written /\ IsSocks' = IsSocks
    BY <1>1, SameUnits DEF Written
  <1>3. got = << >> /\ lost = << >> /\ Pos = HeadLen
    BY <1>1 DEF IInv, Opened, Nothing
  <1>4. CASE ~intercept \/ buf = << >>
    <2>1. lost' = lost
      BY <1>1, <1>3, <1>4
    <2> QED
      BY <1>1, <2>1, StreamStutters
  <1>5. CASE intercept /\ buf # << >>
    <2>1. /\ HeadLen \in Nat /\ sent \in Nat /\ Len(buf) \in Nat /\ Len(sock) \in Nat /\ Typed
          /\ Pos = sent - Len(buf) - Len(sock) /\ Stretch(buf, Units, Pos)
          /\ Units \in Seq(Unit)
      BY UnitsOf DEF IInv, Typed, Placed, Stretch, Pos
    <2>2. Len(buf) > 0
      BY <1>5, <2>1, StretchTail
    <2>3. Stretch(buf, Units, HeadLen + 0)
      BY <1>3, <2>1
    <2>4. buf = SubSeq(Payload, 0 + 1, 0 + Len(buf))
      BY <2>1, <2>3, PayloadStretch
    <2>5. 0 + 1 = 1 /\ 0 + Len(buf) = Len(buf)
      BY <2>1
    <2>6. buf = SubSeq(Payload, 1, Len(buf))
      BY <2>4, <2>5
    <2>7. Len(buf) \in 1..Written
      BY <1>3, <2>1, <2>2 DEF Written
    <2>8. lost' = buf
      BY <1>1, <1>5
    <2>9. \E k \in 1..Written : lost' = SubSeq(Payload, 1, k)
      BY <2>6, <2>7, <2>8
    <2> QED
      BY <1>1, <1>2, <1>3, <1>5, <2>9, StreamIs
  <1> QED
    BY <1>4, <1>5

\* The TLS acceptor and the copy read on where the stream has got to.
LEMMA ChunkReads ==
  ASSUME IInv, Advance, conn' = conn, sent' = sent, intercept' = intercept, lost' = lost,
         got' = got \o Chunk, pc = "accept" \/ (pc = "relay" /\ up = "copy")
  PROVE  Stream!Read
  <1>1. Stretch(Chunk, Units, Pos) /\ Len(Chunk) \in 1..ChunkSize
        /\ Pos' = Pos + Len(Chunk) /\ Placed'
    BY ChunkIsNext
  <1>2. /\ Pos = HeadLen + Len(lost) + Len(got) /\ HeadLen \in Nat /\ sent \in Nat
        /\ Len(lost) \in Nat /\ Len(got) \in Nat
    BY UnitsOf DEF IInv, Relayed, Typed, Stretch
  <1>3. Pos = HeadLen + (Len(lost) + Len(got))
    BY <1>2
  <1>4. Pos + Len(Chunk) <= sent
    <2>1. Pos' = sent - Len(buf') - Len(sock')
      BY DEF Pos
    <2>2. buf' \in Seq(Unit) /\ sock' \in Seq(Unit)
      BY <1>1 DEF Placed, Stretch
    <2>3. Len(buf') \in Nat /\ Len(sock') \in Nat
      <3> HIDE DEF Unit
      <3> QED
        BY <2>2
    <2> QED
      BY <1>1, <1>2, <2>1, <2>3, SizesAreSizes
  <1>5. Len(Chunk) > 0
    BY <1>1, SizesAreSizes
  <1> QED
    BY <1>1, <1>2, <1>3, <1>4, <1>5, StreamReads

LEMMA FlushReads == IInv /\ Flush => Stream!Read \/ UNCHANGED Stream!vars
  <1> SUFFICES ASSUME IInv, Flush PROVE Stream!Read \/ UNCHANGED Stream!vars
    OBVIOUS
  <1>1. /\ conn' = conn /\ sent' = sent /\ intercept' = intercept /\ lost' = lost
        /\ pc = "relay" /\ up = "flush" /\ got' = got \o opening
    BY DEF Flush
  <1>2. /\ got = << >> /\ lost = << >> /\ Stretch(opening, Units, HeadLen)
        /\ Pos = HeadLen + Len(opening)
    BY <1>1 DEF IInv, Relayed
  <1>3. /\ HeadLen \in Nat /\ sent \in Nat /\ Len(opening) \in Nat
        /\ HeadLen + Len(opening) <= sent
    <2>1. Len(buf) \in Nat /\ Len(sock) \in Nat /\ Pos = sent - Len(buf) - Len(sock)
      BY DEF IInv, Placed, Stretch, Pos
    <2>2. HeadLen \in Nat /\ sent \in Nat /\ Len(opening) \in Nat
      BY <1>2, UnitsOf DEF IInv, Typed, Stretch
    <2> QED
      BY <1>2, <2>1, <2>2
  <1>4. Len(got) = 0 /\ Len(lost) = 0
    BY <1>2
  <1>5. CASE Len(opening) > 0
    <2>1. HeadLen + (Len(lost) + Len(got)) = HeadLen
      BY <1>3, <1>4
    <2>2. /\ Stretch(opening, Units, HeadLen + (Len(lost) + Len(got)))
          /\ HeadLen + (Len(lost) + Len(got)) + Len(opening) <= sent
          /\ Len(lost) \in Nat /\ Len(got) \in Nat
      BY <1>2, <1>3, <1>4, <2>1
    <2> QED
      BY <1>1, <1>5, <2>2, StreamReads
  <1>6. CASE Len(opening) = 0
    <2>1. opening \in Seq(Unit)
      BY <1>2 DEF Stretch
    <2>2. opening = << >>
      <3> HIDE DEF Unit
      <3> QED
        BY <1>6, <2>1
    <2>3. got' = got
      BY <1>1, <1>2, <2>2
    <2> QED
      BY <1>1, <2>3, StreamStutters
  <1> QED
    BY <1>3, <1>5, <1>6

LEMMA NextStreams == IInv /\ [Next]_vars => [Stream!Next]_(Stream!vars)
  <1> SUFFICES ASSUME IInv, [Next]_vars PROVE Stream!Next \/ UNCHANGED Stream!vars
    OBVIOUS
  <1>1. CASE Send
    BY <1>1, SendWrites DEF Stream!Next
  <1>2. CASE HangUp \/ Serve \/ Downstream \/ UNCHANGED vars
    <2>1. conn' = conn /\ sent' = sent /\ intercept' = intercept /\ got' = got /\ lost' = lost
      BY <1>2 DEF HangUp, Serve, Downstream, vars, relay
    <2> QED
      BY <2>1, StreamStutters
  <1>3. CASE FrontEnd \/ GiveUp \/ TunnelEnds
    <2>1. conn' = conn /\ sent' = sent /\ intercept' = intercept /\ got' = got /\ lost' = lost
      BY <1>3 DEF FrontEnd, Fill, ReadEof, ReadFirst, ReadHead, ReadMethods, ReadUserpass,
                  ReadRequest, GiveUp, TunnelEnds, Close, Consume, relay
    <2> QED
      BY <2>1, StreamStutters
  <1>4. CASE Establish \/ ConnectDials \/ ForwardHead
    <2>1. conn' = conn /\ sent' = sent /\ intercept' = intercept /\ got' = got /\ lost' = lost
      BY <1>4 DEF Establish, ConnectDials, ForwardHead, relay
    <2> QED
      BY <2>1, StreamStutters
  <1>5. CASE SocksDials
    BY <1>5, DialLoses DEF Stream!Next
  <1>6. CASE AcceptorReads
    <2>1. /\ conn' = conn /\ sent' = sent /\ intercept' = intercept /\ lost' = lost
          /\ pc = "accept" /\ Advance /\ got' = got \o Chunk
      BY <1>6 DEF AcceptorReads
    <2> QED
      BY <2>1, ChunkReads DEF Stream!Next
  <1>7. CASE ReadOpening \/ Inspect
    <2>1. conn' = conn /\ sent' = sent /\ intercept' = intercept /\ got' = got /\ lost' = lost
      BY <1>7 DEF ReadOpening, Inspect
    <2> QED
      BY <2>1, StreamStutters
  <1>8. CASE Flush
    BY <1>8, FlushReads DEF Stream!Next
  <1>9. CASE Copy
    <2>1. /\ conn' = conn /\ sent' = sent /\ intercept' = intercept /\ lost' = lost
          /\ pc = "relay" /\ up = "copy"
          /\ (Advance /\ got' = got \o Chunk) \/ got' = got
      BY <1>9 DEF Copy
    <2> QED
      BY <2>1, ChunkReads, StreamStutters DEF Stream!Next
  <1> QED
    BY <1>1, <1>2, <1>3, <1>4, <1>5, <1>6, <1>7, <1>8, <1>9 DEF Next, HandOver, Upstream

\* Every connection is a byte stream (rewind.rs, server.rs, tunnel.rs): what
\* the acceptor or the upstream gets is what the client wrote, each unit once
\* and in order, whatever was read ahead; only an intercepted SOCKS5 tunnel may
\* drop a prefix, before anything has been delivered.
THEOREM WireTunnelIsAByteStream == Spec => TunnelIsAByteStream
  <1>1. Init => Stream!Init
    <2> SUFFICES ASSUME Init PROVE Stream!Init
      OBVIOUS
    <2>1. got = << >> /\ lost = << >> /\ sent = 0
      BY DEF Init
    <2>2. Typed
      BY InitIInv DEF IInv
    <2>3. Written = 0
      BY <2>1, <2>2, UnitsOf DEF Written
    <2>4. (IsSocks /\ intercept) \in BOOLEAN
      OBVIOUS
    <2> QED
      BY <2>1, <2>3, <2>4, StreamIs
  <1>2. IInv /\ [Next]_vars => [Stream!Next]_(Stream!vars)
    BY NextStreams
  <1> QED
    BY <1>1, <1>2, AlwaysIInv, PTL DEF Spec, TunnelIsAByteStream, Stream!Spec
=============================================================================
