--------------------------- MODULE SpeculativeConn ---------------------------
(***************************************************************************)
(* transport/speculative_conn.go and the dials that use it: the first      *)
(* write carries CONNECT and ClientHello together, the reads strip the     *)
(* proxy's answer from the front of the server's TLS bytes.  The network   *)
(* delivers the bytes in pieces of any size and the TLS stack reads them   *)
(* into buffers of any size.  A failed attempt puts the proxy on a process *)
(* wide blocklist and dials again with a blocking CONNECT.                 *)
(***************************************************************************)
EXTENDS Naturals, Sequences, SequencesExt

CONSTANTS
    Dialers,       \* connections being set up through the one proxy
    HeaderUnits,   \* pieces of the proxy's answer before its blank line
    HeaderLimit,   \* pieces of header that exceed 16 KB
    ServerUnits    \* pieces of TLS data the server answers with

ASSUME SpeculativeConstants ==
    HeaderUnits \in Nat /\ HeaderLimit \in Nat /\ ServerUnits \in Nat \ {0}

VARIABLES
    blocklist,     \* the proxy is on speculativeTLSBlocklist
    dial           \* per dialer: the wrapper's fields and the two wires

speculativeVars == <<blocklist, dial>>

\* The proxy's header, its blank line and the server's bytes, in wire order.
HeaderUnit == 0
BlankLine == ServerUnits + 1
HeaderPart == [i \in 1..HeaderUnits |-> HeaderUnit]
ServerStream == [i \in 1..ServerUnits |-> i]
Terminator == <<BlankLine>>

\* How the proxy treats a connection: it buffers what follows CONNECT and opens
\* the tunnel, refuses with another status, sends a header without end, or drops
\* the connection.
ProxyMoods == {"tunnel", "refuse", "flood", "drop"}

NoDial == [pc |-> "idle", speculative |-> FALSE, mood |-> "drop", wire |-> <<>>,
           headerBuffer |-> <<>>, readBuffer |-> <<>>, firstWrite |-> FALSE,
           httpResponseDone |-> FALSE, sent |-> <<>>, read |-> <<>>]

SpeculativeInit == blocklist = FALSE /\ dial = [d \in Dialers |-> NoDial]

Units == 0..(ServerUnits + 1)

Places == {"idle", "connect", "hello", "answer", "up", "failed", "redial"}

Dials == [pc : Places, speculative : BOOLEAN, mood : ProxyMoods, wire : Seq(Units),
          headerBuffer : Seq(Units), readBuffer : Seq(Units), firstWrite : BOOLEAN,
          httpResponseDone : BOOLEAN, sent : Seq({"CONNECT", "hello"}), read : Seq(Units)]

\* The type invariant.
SpeculativeTypeOK == blocklist \in BOOLEAN /\ dial \in [Dialers -> Dials]

SetDial(d, record) == dial' = [dial EXCEPT ![d] = record]

\* The TCP connection to the proxy is up; dialHTTPProxy wraps it or, with the proxy
\* on the blocklist, goes on with the blocking CONNECT.
DialProxy(d, mood) ==
    /\ dial[d].pc = "idle"
    /\ SetDial(d, [NoDial EXCEPT !.mood = mood, !.speculative = ~blocklist,
                             !.pc = IF blocklist THEN "connect" ELSE "hello"])
    /\ UNCHANGED blocklist

\* What the proxy sends once it has read CONNECT, and ClientHello with it or not.
ProxyAnswer(mood, helloToo) ==
    CASE mood = "drop"   -> <<>>
      [] mood = "flood"  -> [i \in 1..(HeaderLimit + 1) |-> HeaderUnit]
      [] mood = "refuse" -> HeaderPart \o Terminator
      [] mood = "tunnel" -> HeaderPart \o Terminator \o
                            (IF helloToo THEN ServerStream ELSE <<>>)

\* The first Write sends CONNECT and ClientHello as one; a plain connection
\* sends the ClientHello into the tunnel it has.
WriteHello(d) ==
    /\ dial[d].pc = "hello" /\ ~dial[d].firstWrite
    /\ SetDial(d, IF dial[d].speculative
              THEN [dial[d] EXCEPT !.firstWrite = TRUE, !.pc = "answer",
                                   !.sent = <<"CONNECT", "hello">>,
                                   !.wire = ProxyAnswer(dial[d].mood, TRUE)]
              ELSE [dial[d] EXCEPT !.firstWrite = TRUE, !.pc = "answer",
                                   !.sent = Append(@, "hello"), !.wire = ServerStream])
    /\ UNCHANGED blocklist

\* The handshake failed with a SpeculativeTLSError: the raw connection is closed,
\* the proxy goes on the blocklist and a fresh blocking dial is made.
Fallback(d) ==
    /\ dial[d].pc = "redial"
    /\ blocklist' = TRUE
    /\ \E mood \in ProxyMoods :
          SetDial(d, [NoDial EXCEPT !.mood = mood, !.pc = "connect"])

\* A speculative failure before the proxy's answer is read in full; any other
\* failure is the caller's.
FailedPc(d) ==
    IF dial[d].speculative /\ ~dial[d].httpResponseDone THEN "redial" ELSE "failed"

\* The write fails: firstWrite stays unset.
WriteFails(d) ==
    /\ dial[d].pc = "hello" /\ dial[d].mood = "drop"
    /\ SetDial(d, [dial[d] EXCEPT !.pc = FailedPc(d)])
    /\ UNCHANGED blocklist

\* dialHTTPProxyBlocking: CONNECT, then the whole answer, before anything else is sent.
BlockingConnect(d) ==
    /\ dial[d].pc = "connect"
    /\ SetDial(d, [dial[d] EXCEPT !.sent = <<"CONNECT">>, !.httpResponseDone = TRUE,
                              !.pc = IF dial[d].mood = "tunnel" THEN "hello" ELSE "failed"])
    /\ UNCHANGED blocklist

\* The place of the blank line in the bytes, 0 when it has not come.
HeaderEnd(data) == SelectInSeq(data, LAMBDA u : u = BlankLine)

From(data, i) == SubSeq(data, i, Len(data))

\* Mutant of Leftover: what the caller's buffer had no room for is forgotten.
LeftoverDropped(tlsData, room) == <<>>

\* The bytes behind the answer that did not fit the caller's buffer.
Leftover(tlsData, room) == From(tlsData, room + 1)

AtMost(data, n) == SubSeq(data, 1, IF n < Len(data) THEN n ELSE Len(data))

\* readAndStripHTTPResponse once `n` units have come, with room for `room`:
\* wait for the blank line, judge the status, hand on what follows it.
StripResponse(d, n, room) ==
    LET r == dial[d]
        data == r.headerBuffer \o SubSeq(r.wire, 1, n)
        end == HeaderEnd(data)
        tlsData == From(data, end + 1)
        rest == From(r.wire, n + 1)
    IN CASE end = 0 /\ Len(data) > HeaderLimit -> [r EXCEPT !.pc = "redial"]
         [] end = 0 /\ Len(data) <= HeaderLimit ->
                [r EXCEPT !.headerBuffer = data, !.wire = rest]
         [] end # 0 /\ r.mood = "refuse" -> [r EXCEPT !.pc = "redial"]
         [] end # 0 /\ r.mood # "refuse" ->
                [r EXCEPT !.httpResponseDone = TRUE, !.headerBuffer = <<>>, !.wire = rest,
                          !.read = @ \o AtMost(tlsData, room),
                          !.readBuffer = Leftover(tlsData, room)]

\* Read: the buffered bytes first, then the answer to strip, then the wire itself.
Read(d, n, room) ==
    /\ dial[d].pc = "answer"
    /\ \/ /\ dial[d].readBuffer # <<>>
          /\ SetDial(d, [dial[d] EXCEPT !.read = @ \o AtMost(dial[d].readBuffer, room),
                                    !.readBuffer = From(dial[d].readBuffer, room + 1)])
       \/ /\ dial[d].readBuffer = <<>> /\ dial[d].speculative /\ ~dial[d].httpResponseDone
          /\ n \in 1..Len(dial[d].wire)
          /\ SetDial(d, StripResponse(d, n, room))
       \/ /\ dial[d].readBuffer = <<>> /\ (dial[d].httpResponseDone \/ ~dial[d].speculative)
          /\ n \in 1..Len(dial[d].wire) /\ n <= room
          /\ SetDial(d, [dial[d] EXCEPT !.read = @ \o SubSeq(dial[d].wire, 1, n),
                                    !.wire = From(dial[d].wire, n + 1)])
    /\ UNCHANGED blocklist

\* The connection breaks or the deadline passes while the answer is awaited.
ReadFails(d) ==
    /\ dial[d].pc = "answer" /\ dial[d].readBuffer = <<>>
    /\ SetDial(d, [dial[d] EXCEPT !.pc = FailedPc(d)])
    /\ UNCHANGED blocklist

\* The TLS stack has the server's answer and ends the handshake.
HandshakeDone(d) ==
    /\ dial[d].pc = "answer" /\ Len(dial[d].read) >= ServerUnits
    /\ SetDial(d, [dial[d] EXCEPT !.pc = "up"])
    /\ UNCHANGED blocklist

SpeculativeNext ==
    \E d \in Dialers :
       \/ \E mood \in ProxyMoods : DialProxy(d, mood)
       \/ WriteHello(d) \/ WriteFails(d) \/ BlockingConnect(d) \/ Fallback(d)
       \/ \E n \in 1..(HeaderUnits + ServerUnits + 1), room \in 1..ServerUnits : Read(d, n, room)
       \/ ReadFails(d) \/ HandshakeDone(d)

SpeculativeSpec == SpeculativeInit /\ [][SpeculativeNext]_speculativeVars

-----------------------------------------------------------------------------
(* Properties.                                                             *)

\* However the network cuts the stream and whatever buffers the TLS stack reads
\* into, it is given the server's bytes in order with none lost and no byte of
\* the proxy's answer (speculative_conn.go:136-228); what is not read yet is
\* still in the wrapper or on the wire.
TunnelStreamIntact ==
    \A d \in Dialers :
       /\ IsPrefix(dial[d].read, ServerStream)
       /\ dial[d].pc \in {"answer", "up"} /\ dial[d].httpResponseDone =>
             dial[d].read \o dial[d].readBuffer \o dial[d].wire = ServerStream
       /\ IsPrefix(dial[d].sent, <<"CONNECT", "hello">>)
=============================================================================
