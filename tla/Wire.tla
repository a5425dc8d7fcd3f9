-------------------------------- MODULE Wire --------------------------------
(***************************************************************************)
(* One connection as bytes: the sniffed first byte (sniff.rs), the HTTP and  *)
(* SOCKS5 front ends (httpfront.rs, socks5.rs) reading through a BufReader,  *)
(* the hand-over of what that reader has read ahead (rewind.rs, server.rs),  *)
(* and the relay that inspects a tunnel's opening (tunnel.rs).  What the     *)
(* policy decides is left open here (see Proxy); a decision is any of the    *)
(* outcomes the code has.                                                    *)
(*                                                                         *)
(* The client's bytes come in units: a unit is a message of the SOCKS5       *)
(* handshake, a piece of a request head, or a piece of the payload, whose    *)
(* pieces are numbered.  A TLS record header is one unit.                    *)
(***************************************************************************)
EXTENDS Integers, Sequences, FiniteSets

CONSTANTS
    BufSize,      \* units the BufReader takes from the socket at once
    ChunkSize,    \* units one read of the relay takes at once
    MaxHead,      \* MAX_HEAD_BYTES
    MaxOpening,   \* MAX_OPENING_BYTES
    PayloadLen,   \* bound: units of payload the client has
    ServerLen,    \* bound: units the upstream sends
    Heads,        \* the request heads and handshakes clients open with
    Hellos        \* what the payload starts with

ASSUME SizesAssumption ==
    /\ BufSize \in Nat \ {0} /\ ChunkSize \in Nat \ {0}
    /\ MaxHead \in Nat \ {0} /\ MaxOpening \in Nat \ {0}
    /\ PayloadLen \in Nat /\ ServerLen \in Nat

VARIABLES
    conn,      \* what this connection is: its listener, head and hello
    sent,      \* units the client has written
    eof,       \* the client has closed its sending half
    sock,      \* units in the socket, unread
    buf,       \* units read ahead: the BufReader's, later Rewind's prefix
    head,      \* how much of a request head has been gathered
    pc,        \* where the handler is
    intercept, \* this destination's TLS is intercepted
    opening,   \* what read_opening has gathered
    up,        \* the upstream half of the relay
    got,       \* payload that has reached the TLS acceptor or the upstream
    lost,      \* payload that was dropped
    served,    \* units the upstream has sent
    down       \* units of the upstream the client has received

vars == <<conn, sent, eof, sock, buf, head, pc, intercept, opening, up, got,
          lost, served, down>>
relay == <<opening, up, got, lost, served, down>>

\* Protocol by first byte; SOCKS4 only to be refused.
Protocol == {"socks5", "socks4", "http"}

\* ClientHello, as far as it matters here: whether the first byte is that of
\* a handshake record, the units its record announces, how much of them the
\* handshake message takes (more than there are: it goes on in another
\* record), and the name it asks for ("none": no SNI).
Hello == [tls : BOOLEAN, rec : Nat, hs : Nat, sni : {"authority", "other", "none"}]

\* The opening of a connection: the units before the payload, first byte
\* included.
HeadUnit == {"v4", "v5", "methods", "nomethod", "credential", "command",
             "badcommand", "start", "part", "line", "blank"}

\* What a client opens with ends where the front end stops reading it: at the
\* head's blank line or the SOCKS5 command.  SOCKS5 is known by its first byte.
ASSUME OpeningsAssumption ==
    /\ Hellos \subseteq Hello
    /\ Heads \subseteq [kind : {"connect", "absolute", "socks", "socks4"},
                        userpass : BOOLEAN, units : Seq(HeadUnit)]
    /\ \A h \in Heads :
         /\ \A i \in 1..(Len(h.units) - 1) : h.units[i] \notin {"blank", "command"}
         /\ h.kind = "socks" => h.units # << >> /\ h.units[1] = "v5"

Payload == [n \in 1..PayloadLen |-> [k |-> "data", n |-> n]]

Control(h) == [i \in 1..Len(h.units) |-> [k |-> h.units[i], n |-> 0]]

\* Everything this client has to say.
Units == Control(conn.head) \o Payload

TypeOK ==
    /\ conn \in [listener : {"tcp", "unix"}, head : Heads, hello : Hellos]
    /\ sent \in 0..Len(Units)
    /\ eof \in BOOLEAN /\ intercept \in BOOLEAN
    /\ pc \in {"first", "head", "methods", "userpass", "request", "decide",
               "dial", "accept", "relay", "closed"}
    /\ up \in {"opening", "inspect", "flush", "copy", "shutdown"}
    /\ head \in 0..(Len(Units) + 1)
    /\ served \in 0..ServerLen /\ down \in 0..served
    /\ Len(buf) <= BufSize
    /\ Len(sock) + Len(buf) <= sent

\* The listener has accepted the connection and nothing has been read.
Init ==
    /\ conn \in [listener : {"tcp", "unix"}, head : Heads, hello : Hellos]
    /\ intercept \in BOOLEAN
    /\ sent = 0 /\ eof = FALSE
    /\ sock = << >> /\ buf = << >> /\ head = 0
    /\ pc = "first"
    /\ opening = << >> /\ up = "opening"
    /\ got = << >> /\ lost = << >>
    /\ served = 0 /\ down = 0

Take(s, n) == SubSeq(s, 1, IF n < Len(s) THEN n ELSE Len(s))
Drop(s, n) == SubSeq(s, n + 1, Len(s))

-----------------------------------------------------------------------------
(* The client and the upstream: they write when they like, and need not wait *)
(* for an answer.                                                             *)

Send ==
    /\ ~eof /\ sent < Len(Units) /\ pc # "closed"
    /\ sent' = sent + 1
    /\ sock' = Append(sock, Units[sent + 1])
    /\ UNCHANGED <<conn, eof, buf, head, pc, intercept, relay>>

HangUp ==
    /\ ~eof /\ pc # "closed"
    /\ eof' = TRUE
    /\ UNCHANGED <<conn, sent, sock, buf, head, pc, intercept, relay>>

Serve ==
    /\ pc = "relay" /\ served < ServerLen
    /\ served' = served + 1
    /\ UNCHANGED <<conn, sent, eof, sock, buf, head, pc, intercept, opening, up,
                   got, lost, down>>

-----------------------------------------------------------------------------
(* The front ends, reading through the BufReader. *)

Reading == pc \in {"first", "head", "methods", "userpass", "request"}

\* Mutated form: the buffer grows with what has arrived.
FillWithAll ==
    /\ Reading /\ buf = << >> /\ sock # << >>
    /\ buf' = sock /\ sock' = << >>
    /\ UNCHANGED <<conn, sent, eof, head, pc, intercept, relay>>

\* An empty BufReader takes what the socket has, up to its size.
Fill ==
    /\ Reading /\ buf = << >> /\ sock # << >>
    /\ buf' = Take(sock, BufSize)
    /\ sock' = Drop(sock, Len(buf'))
    /\ UNCHANGED <<conn, sent, eof, head, pc, intercept, relay>>

Close ==
    /\ pc' = "closed"
    /\ UNCHANGED <<conn, sent, eof, sock, buf, head, intercept, relay>>

\* The stream ends where the front end needs more of it.
ReadEof == Reading /\ buf = << >> /\ sock = << >> /\ eof /\ Close

\* One unit is consumed and the front end goes on at `next`.
Consume(next) ==
    /\ buf # << >>
    /\ buf' = Tail(buf)
    /\ pc' = next
    /\ UNCHANGED <<conn, sent, eof, sock, intercept, relay>>

Detect(k) == CASE k = "v5" -> "socks5" [] k = "v4" -> "socks4" [] OTHER -> "http"

\* The first byte chooses the protocol and is handed on.  SOCKS4 is refused,
\* and the Unix listener speaks only HTTP.
ReadFirst ==
    /\ pc = "first" /\ buf # << >>
    /\ LET p == Detect(Head(buf).k) IN
       /\ head' = IF p = "http" THEN 1 ELSE 0
       /\ Consume(CASE p = "http" -> "head"
                    [] p = "socks5" /\ conn.listener = "tcp" -> "methods"
                    [] OTHER -> "closed")

\* read_until the end of each line; only then is the head's length looked at.
\* The blank line ends the head.
ReadHead ==
    /\ pc = "head" /\ buf # << >>
    /\ head' = head + 1
    /\ LET k == Head(buf).k IN
       Consume(CASE k \in {"line", "blank"} /\ head' > MaxHead -> "closed"
                 [] k = "blank" -> "decide"
                 [] OTHER -> "head")

\* The greeting: username and password when the client offers them, else no
\* authentication, else the connection is refused.
ReadMethods ==
    /\ pc = "methods" /\ buf # << >>
    /\ head' = head
    /\ Consume(CASE Head(buf).k = "nomethod" -> "closed"
                 [] conn.head.userpass -> "userpass"
                 [] OTHER -> "request")

\* Any credential is acknowledged: it selects an identity.
ReadUserpass ==
    /\ pc = "userpass" /\ buf # << >>
    /\ head' = head
    /\ Consume("request")

\* CONNECT with a known address type, or the matching refusal.
ReadRequest ==
    /\ pc = "request" /\ buf # << >>
    /\ head' = head
    /\ Consume(IF Head(buf).k = "command" THEN "dial" ELSE "closed")

-----------------------------------------------------------------------------
(* The hand-over. *)

IsConnect == conn.head.kind = "connect"
IsSocks == conn.head.kind = "socks"

\* Every early return before the tunnel: a head that does not parse, a Host
\* header that disagrees, no identity, a refusal, an upstream that cannot be
\* reached.
GiveUp == pc \in {"decide", "dial"} /\ Close

\* Mutated form: the buffered reader is unwrapped without its buffer.
EstablishForgetting ==
    /\ pc = "decide" /\ IsConnect
    /\ pc' = "dial"
    /\ lost' = buf /\ buf' = << >>
    /\ UNCHANGED <<conn, sent, eof, sock, head, intercept, opening, up, got,
                   served, down>>

\* CONNECT: 200 is written, then what the reader holds becomes the prefix of
\* a Rewind around the bare socket (the units stay where they are).
Establish ==
    /\ pc = "decide" /\ IsConnect
    /\ pc' = "dial"
    /\ UNCHANGED <<conn, sent, eof, sock, buf, head, intercept, relay>>

\* The upstream of a CONNECT is dialled after the answer.
ConnectDials ==
    /\ pc = "dial" /\ IsConnect
    /\ pc' = IF intercept THEN "accept" ELSE "relay"
    /\ UNCHANGED <<conn, sent, eof, sock, buf, head, intercept, relay>>

\* SOCKS5 dials, answers, and either unwraps the reader for the TLS acceptor,
\* which loses what it holds, or relays through it.
SocksDials ==
    /\ pc = "dial" /\ IsSocks
    /\ pc' = IF intercept THEN "accept" ELSE "relay"
    /\ lost' = IF intercept THEN buf ELSE << >>
    /\ buf' = IF intercept THEN << >> ELSE buf
    /\ UNCHANGED <<conn, sent, eof, sock, head, intercept, opening, up, got,
                   served, down>>

\* Absolute form: a head rebuilt from the parsed headers goes first, and the
\* rest is copied through the reader with no inspection.
ForwardHead ==
    /\ pc = "decide" /\ ~IsConnect
    /\ pc' = "relay"
    /\ up' = "copy"
    /\ UNCHANGED <<conn, sent, eof, sock, buf, head, intercept, opening, got,
                   lost, served, down>>

-----------------------------------------------------------------------------
(* Reading the tunnel: what was read ahead comes first, then the socket. *)

\* Rewind::poll_read, and a BufReader's: one read never joins the two.
Source == IF buf # << >> THEN buf ELSE sock

\* A read of at most ChunkSize units into one of the relay's buffers.
Chunk == Take(Source, ChunkSize)

Advance ==
    /\ Chunk # << >>
    /\ IF Source = buf
       THEN buf' = Drop(buf, Len(Chunk)) /\ sock' = sock
       ELSE sock' = Drop(sock, Len(Chunk)) /\ buf' = buf

AtEof == buf = << >> /\ sock = << >> /\ eof

\* mitm::intercept: the TLS acceptor is what reads the stream.
AcceptorReads ==
    /\ pc = "accept"
    /\ Advance
    /\ got' = got \o Chunk
    /\ UNCHANGED <<conn, sent, eof, head, pc, intercept, opening, up, lost,
                   served, down>>

\* Mutated form: one read is taken for the whole opening.
EnoughAtOnce(o) == o # << >>

\* Mutated form: the announced length is always waited for.
EnoughUncapped(o) ==
    o # << >> /\ (~conn.hello.tls \/ Len(o) >= 1 + conn.hello.rec)

\* There is no SNI to wait for, or its record is complete, or the opening is
\* as long as it may get.
Enough(o) ==
    /\ o # << >>
    /\ \/ ~conn.hello.tls
       \/ Len(o) >= 1 + conn.hello.rec
       \/ Len(o) >= MaxOpening

\* Mutated form: the end of the stream is not an answer.
ReadOpeningToTheEnd ==
    /\ pc = "relay" /\ up = "opening"
    /\ Advance
    /\ opening' = opening \o Chunk
    /\ up' = IF Enough(opening') THEN "inspect" ELSE "opening"
    /\ UNCHANGED <<conn, sent, eof, head, pc, intercept, got, lost, served, down>>

\* read_opening: a read, until there is enough or the client has closed.
ReadOpening ==
    /\ pc = "relay" /\ up = "opening"
    /\ \/ /\ Advance
          /\ opening' = opening \o Chunk
          /\ up' = IF Enough(opening') THEN "inspect" ELSE "opening"
       \/ /\ AtEof
          /\ up' = "inspect"
          /\ UNCHANGED <<opening, buf, sock>>
    /\ UNCHANGED <<conn, sent, eof, head, pc, intercept, got, lost, served, down>>

\* sni_from_client_hello: only a handshake record that is all there, with all
\* of the handshake message in it, yields a name.
Sni(o) ==
    IF /\ o # << >> /\ conn.hello.tls
       /\ Len(o) >= 1 + conn.hello.rec
       /\ conn.hello.hs <= conn.hello.rec
    THEN conn.hello.sni
    ELSE "none"

\* check_sni on the opening, once: a name other than the authority's ends
\* both halves.
Inspect ==
    /\ pc = "relay" /\ up = "inspect"
    /\ IF Sni(opening) = "other"
       THEN pc' = "closed" /\ up' = up
       ELSE pc' = pc /\ up' = "flush"
    /\ UNCHANGED <<conn, sent, eof, sock, buf, head, intercept, opening, got,
                   lost, served, down>>

\* upstream_w.write_all(&opening)
Flush ==
    /\ pc = "relay" /\ up = "flush"
    /\ got' = got \o opening
    /\ up' = "copy"
    /\ UNCHANGED <<conn, sent, eof, sock, buf, head, pc, intercept, opening,
                   lost, served, down>>

\* The rest is copied; at the client's end the upstream's half is shut down.
Copy ==
    /\ pc = "relay" /\ up = "copy"
    /\ \/ Advance /\ got' = got \o Chunk /\ up' = up
       \/ AtEof /\ up' = "shutdown" /\ UNCHANGED <<got, buf, sock>>
    /\ UNCHANGED <<conn, sent, eof, head, pc, intercept, opening, lost, served,
                   down>>

\* Mutated form: the client is peeked at before the relay starts.
DownstreamAfterPeek ==
    /\ pc = "relay" /\ up \notin {"opening", "inspect"} /\ down < served
    /\ down' = served
    /\ UNCHANGED <<conn, sent, eof, sock, buf, head, pc, intercept, opening, up,
                   got, lost, served>>

\* The other direction runs beside it from the start.
Downstream ==
    /\ pc = "relay" /\ down < served
    /\ down' = served
    /\ UNCHANGED <<conn, sent, eof, sock, buf, head, pc, intercept, opening, up,
                   got, lost, served>>

\* Either half fails, or both are finished: try_join returns.
TunnelEnds == pc \in {"accept", "relay"} /\ Close

-----------------------------------------------------------------------------
FrontEnd ==
    Fill \/ ReadEof \/ ReadFirst \/ ReadHead \/ ReadMethods \/ ReadUserpass
         \/ ReadRequest

HandOver == GiveUp \/ Establish \/ ConnectDials \/ SocksDials \/ ForwardHead

Upstream == ReadOpening \/ Inspect \/ Flush \/ Copy

Next ==
    \/ Send \/ HangUp \/ Serve
    \/ FrontEnd \/ HandOver
    \/ AcceptorReads \/ Upstream \/ Downstream \/ TunnelEnds

\* Each half of the relay is a future the runtime keeps polling.
Fairness == WF_vars(Upstream) /\ WF_vars(Downstream)

Spec == Init /\ [][Next]_vars /\ Fairness

-----------------------------------------------------------------------------
(* Properties. *)

\* A tunnel is a byte stream: the TLS acceptor or the upstream gets what the
\* client wrote after its head, each unit once and in order, however it was
\* cut up and however early it was written.  The one exception is the SOCKS5
\* tunnel that is intercepted (server.rs: client.into_inner()), which drops
\* what had been read ahead.
Stream == INSTANCE ByteStream
    WITH written <- IF sent > Len(conn.head.units)
                    THEN sent - Len(conn.head.units) ELSE 0,
         lossy <- IsSocks /\ intercept

TunnelIsAByteStream == Stream!Spec

\* A name in a hello that fits the opening has been compared before the
\* upstream of an uninspected tunnel sees a byte (tunnel.rs: `Err` aborts
\* before a single byte reaches the upstream), in whatever pieces the hello
\* arrives.  (A client may close within its hello: that part is passed on.)
NameComparedFirst ==
    ( /\ ~intercept /\ (IsConnect \/ IsSocks)
      /\ conn.hello.tls
      /\ conn.hello.hs <= conn.hello.rec
      /\ 1 + conn.hello.rec <= MaxOpening
      /\ Len(got) >= 1 + conn.hello.rec )
        => conn.hello.sni # "other"

\* The opening that is held back never grows past its cap by more than one
\* read, whatever length the record announces.
OpeningBounded == Len(opening) < MaxOpening + ChunkSize

\* The opening of an uninspected tunnel is held back for as long as its name has
\* to be compared, and for no more bytes than that.
OpeningIsInspected == TypeOK /\ NameComparedFirst /\ OpeningBounded

\* A server that speaks first is heard although the client says nothing
\* (tunnel.rs: the upstream-to-client half is never held up).
ServerFirst == [](pc = "relay" /\ down < served => <>(down = served \/ pc = "closed"))

\* What the client has written reaches the upstream, except while a hello it
\* has only begun is waited for.
Waiting == up = "opening" /\ ~eof /\ ~Enough(opening)
Delivered ==
    (pc = "relay" /\ sock \o buf \o opening # << >>)
        ~> (pc = "closed" \/ Waiting \/ (sock = << >> /\ buf = << >> /\ up \in {"copy", "shutdown"}))

\* Neither half of a relay waits for the other.
RelayIsLive == ServerFirst /\ Delivered

\* What rewind.rs and the comment on serve_socks5 ("exactly the same treatment
\* as HTTP CONNECT") say of every tunnel: nothing that was read ahead is lost.
NothingReadAheadIsLost == lost = << >>
=============================================================================
