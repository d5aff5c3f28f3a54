----------------------------- MODULE RelayTcp -----------------------------
(***************************************************************************)
(* The TCP proxy of the packet relay (tools/wifi_packet_relay.py): one     *)
(* session with QEMU and the TCPProxyConn of one connection of the         *)
(* firmware, between lwIP and a server.                                    *)
(*                                                                         *)
(* The relay is one asyncio loop.  What a coroutine does between two       *)
(* awaits is one step; the coroutines are the session's own loop and, for  *)
(* every SYN that starts one, connect(), which goes on as _srv_to_fw().    *)
(* The firmware numbers its bytes by their sequence number (SYN is 0); so  *)
(* does the server.  lwIP and the server are external and do what TCP      *)
(* allows them to.                                                         *)
(***************************************************************************)
EXTENDS Integers, Sequences

CONSTANTS
    DataMax,     \* bound: bytes the firmware writes
    ServerMax,   \* bound: bytes the server writes
    ConnMax,     \* bound: coroutines, hence SYNs
    OddMax,      \* bound: SYNs and bytes sent again, frames lost, frames that are not TCP
    UpMax        \* bound: frames from QEMU not read yet

ASSUME RelayAssumption == {DataMax, ServerMax, ConnMax, OddMax, UpMax} \subseteq Nat

VARIABLES
    qemu_up,    \* QEMU has the session's socket open
    up,         \* frames from QEMU not read yet
    session,    \* handle_qemu_session(): "read", "other" (in handle_udp/arp), "ended"
    in_table,   \* tcp_conns has the connection
    connected, fw_seq, fw_ack,
    writer,     \* srv_reader and srv_writer: the coroutine that opened them, 0 = None
    task,       \* self.task: the coroutine that forwards, 0 = None
    co,         \* where each coroutine is
    rd,         \* the server connection it reads, or waits to read
    seg,        \* the segment it is sending
    srv,        \* the server's end of each connection
    srv_sent,   \* bytes the server has written
    down,       \* history: segments written to QEMU
    fw,         \* lwIP's connection
    wrote,      \* bytes it has sent, the first time
    una,        \* first of them not acknowledged
    taken,      \* segments of `down' it has seen, or the device has lost
    odd,        \* what is left of OddMax
    lost        \* history: a segment has been lost

connVars   == <<in_table, connected, fw_seq, fw_ack, writer, task>>
coVars     == <<co, rd, seg>>
serverVars == <<srv, srv_sent>>
fwVars     == <<fw, wrote, una, taken, odd, lost>>
relayVars  == <<qemu_up, up, session, connVars, coVars, serverVars, down, fwVars>>

Cos == 1..ConnMax

\* A segment of the firmware; its payload is the byte with its own number.
FwSegs == [syn : BOOLEAN, fin : BOOLEAN, rst : BOOLEAN, n : {0, 1}, seq : 0..(DataMax + 2)]
FwSeg(seq, n, fin) == [syn |-> FALSE, fin |-> fin, rst |-> FALSE, n |-> n, seq |-> seq]
Syn   == [FwSeg(0, 0, FALSE) EXCEPT !.syn = TRUE]
Rst   == [FwSeg(wrote + 1, 0, FALSE) EXCEPT !.rst = TRUE]

\* A segment of the relay.
Segs  == [kind : {"SYNACK", "RST", "DATA", "FIN", "NONE"}, data : Seq(1..ServerMax),
          seq : Nat, ack : 0..(DataMax + 2)]
NoSeg == [kind |-> "NONE", data |-> <<>>, seq |-> 0, ack |-> 0]
\* What a segment adds to the sequence number.
Size(s) == Len(s.data) + (IF s.kind \in {"SYNACK", "FIN"} THEN 1 ELSE 0)

RelayInit ==
    /\ qemu_up = TRUE /\ up = <<>> /\ session = "read"
    /\ in_table = FALSE /\ connected = FALSE /\ fw_seq = 0 /\ fw_ack = 0
    /\ writer = 0 /\ task = 0
    /\ co = [c \in Cos |-> "none"] /\ rd = [c \in Cos |-> 0]
    /\ seg = [c \in Cos |-> NoSeg]
    /\ srv = [c \in Cos |-> [state |-> "none", eof |-> FALSE, fault |-> "none",
                             buf |-> <<>>, rcvd |-> <<>>]]
    /\ srv_sent = 0 /\ down = <<>>
    /\ fw = "closed" /\ wrote = 0 /\ una = 0 /\ taken = 0
    /\ odd = OddMax /\ lost = FALSE

\* srv_writer.close(): the reader sees the end of the stream.
Shut(s) == IF writer = 0 \/ s[writer].state = "closed" THEN s
           ELSE [s EXCEPT ![writer].state = "closed", ![writer].eof = TRUE]

\* Mutant: payload is forwarded only once the forwarding task exists.
ForwardOnceTask(s, m) ==
    IF m.n = 1 /\ task # 0 /\ s[writer].state # "closed"
    THEN [s EXCEPT ![writer].rcvd = Append(@, m.seq)] ELSE s

\* srv_writer.write(): without effect on a closed transport.
Forward(s, m) ==
    IF m.n = 1 /\ connected /\ writer # 0 /\ s[writer].state # "closed"
    THEN [s EXCEPT ![writer].rcvd = Append(@, m.seq)] ELSE s

\* One of the events that OddMax bounds happens.
Odd == odd > 0 /\ odd' = odd - 1

\* ---- The session: handle_qemu_session() ------------------------------------

\* Mutant: the connection is closed on FIN before its payload is written.
HandleFinFirst(m) ==
    srv' = IF m.fin THEN Forward(Shut(srv), m) ELSE Forward(srv, m)

\* A server connection fails: asyncio closes the transport, and tells the reader in
\* the loop's next round.
Broken(c) == [srv EXCEPT ![c].state = "closed", ![c].fault = "lost"]

\* The rest of handle_fw_tcp(): payload, then FIN.  A reset by a server that has
\* ended its stream is noticed by a write: nothing reads that socket any more.
Handle(m) ==
    \/ srv' = IF m.fin THEN Shut(Forward(srv, m)) ELSE Forward(srv, m)
    \/ /\ m.n = 1 /\ connected /\ writer # 0
       /\ srv[writer].eof /\ srv[writer].state # "closed"
       /\ srv' = Broken(writer)

\* handle_tcp() and handle_fw_tcp(): nothing in them awaits.  The entry leaves the
\* table only while the connection is not up although segments were counted.
SessionTcp ==
    /\ session = "read" /\ up # <<>>
    /\ LET m == Head(up) IN
       /\ fw_ack' = IF m.syn THEN m.seq + 1 ELSE m.seq + m.n
       /\ IF m.syn /\ ~connected
          THEN /\ \E c \in Cos :
                    /\ co[c] = "none" /\ \A d \in Cos : d < c => co[d] # "none"
                    /\ co' = [co EXCEPT ![c] = "opening"]
               /\ UNCHANGED srv
          ELSE Handle(m) /\ UNCHANGED co
       /\ in_table' = ~(m.rst /\ ~connected /\ fw_seq > 0)
    /\ up' = Tail(up)
    /\ UNCHANGED <<qemu_up, session, connected, fw_seq, writer, task, rd, seg, srv_sent,
                   down, fwVars>>

\* A frame that is not TCP, at any place of the stream: handle_arp() and
\* handle_udp() are awaited by the loop, the latter for up to two seconds.
SessionOther ==
    /\ \/ /\ session = "read" /\ qemu_up /\ Odd
          /\ session' = "other"
       \/ session = "other" /\ session' = "read" /\ UNCHANGED odd
    /\ UNCHANGED <<qemu_up, up, connVars, coVars, serverVars, down, fw, wrote, una, taken, lost>>

\* Mutant: close() leaves the server to the task, which may not exist yet.
CloseByTask ==
    IF task # 0 THEN srv' = Shut(srv) /\ co' = [co EXCEPT ![task] = "ended"]
    ELSE UNCHANGED <<srv, co>>

\* TCPProxyConn.close(): the forwarding task is cancelled, the server closed.
Close ==
    /\ srv' = Shut(srv)
    /\ co' = IF task # 0 THEN [co EXCEPT ![task] = "ended"] ELSE co

\* QEMU is gone: the loop ends and closes every connection in the table.
SessionEnd ==
    /\ session = "read" /\ ~qemu_up
    /\ session' = "ended"
    /\ IF in_table THEN Close ELSE UNCHANGED <<srv, co>>
    /\ up' = <<>>
    /\ UNCHANGED <<qemu_up, connVars, rd, seg, srv_sent, down, fwVars>>

\* ---- connect() and _srv_to_fw() ---------------------------------------------

\* Mutant: the acknowledgement is one too high.
BuildAcksNext(c, kind, data) ==
    /\ seg' = [seg EXCEPT ![c] = [kind |-> kind, data |-> data, seq |-> fw_seq, ack |-> fw_ack + 1]]
    /\ co' = [co EXCEPT ![c] = "send"]

\* send_tcp_to_fw() builds the segment before it waits for the lock.
Build(c, kind, data) ==
    /\ seg' = [seg EXCEPT ![c] = [kind |-> kind, data |-> data, seq |-> fw_seq, ack |-> fw_ack]]
    /\ co' = [co EXCEPT ![c] = "send"]

\* Mutant: a refused connection is only logged.
ConnectFailedSilently(c) ==
    /\ co[c] = "opening"
    /\ co' = [co EXCEPT ![c] = "ended"]
    /\ UNCHANGED <<qemu_up, up, session, connVars, rd, seg, serverVars, down, fwVars>>

\* open_connection() raised.
ConnectFailed(c) ==
    /\ co[c] = "opening"
    /\ Build(c, "RST", <<>>)
    /\ UNCHANGED <<qemu_up, up, session, connVars, rd, serverVars, down, fwVars>>

\* It returned a connection, perhaps after the session's end.
ConnectOpened(c) ==
    /\ co[c] = "opening"
    /\ srv' = [srv EXCEPT ![c].state = IF session = "ended" THEN "late" ELSE "open"]
    /\ writer' = c
    /\ connected' = TRUE
    /\ Build(c, "SYNACK", <<>>)
    /\ UNCHANGED <<qemu_up, up, session, in_table, fw_seq, fw_ack, task, rd, srv_sent,
                   down, fwVars>>

\* send_frame(): the lock is held until drain() returns.
Write(c) ==
    /\ co[c] = "send" /\ \A d \in Cos : co[d] # "drain"
    /\ session # "ended"
    /\ co' = [co EXCEPT ![c] = "drain"]
    /\ down' = IF qemu_up THEN Append(down, seg[c]) ELSE down
    /\ UNCHANGED <<qemu_up, up, session, connVars, rd, seg, serverVars, fwVars>>

\* connect() ends here when it was refused, _srv_to_fw() after its FIN or when
\* another coroutine waits in the read() it is about to call.
Done(c) ==
    \/ seg[c].kind \in {"RST", "FIN"}
    \/ /\ srv[writer].buf = <<>> /\ ~srv[writer].eof
       /\ \E d \in Cos \ {c} : co[d] = "read" /\ rd[d] = writer

\* The rest of send_tcp_to_fw() when what it sent counts `size', and what its
\* caller does next: connect() starts the forwarding, _srv_to_fw() reads on, or
\* ends and closes the server.
Sent(c, size) ==
    /\ co[c] = "drain"
    /\ fw_seq' = fw_seq + size
    /\ task' = IF seg[c].kind = "SYNACK" THEN c ELSE task
    /\ co' = [co EXCEPT ![c] = IF Done(c) THEN "ended" ELSE "read"]
    /\ rd' = [rd EXCEPT ![c] = IF Done(c) THEN 0 ELSE writer]
    /\ srv' = IF Done(c) /\ seg[c].kind # "RST" THEN Shut(srv) ELSE srv
    /\ seg' = [seg EXCEPT ![c] = NoSeg]
    /\ UNCHANGED <<qemu_up, up, session, in_table, connected, fw_ack, writer, srv_sent,
                   down, fwVars>>

\* Mutant: only the payload counts.
DrainedCountsPayload(c) == Sent(c, Len(seg[c].data))

Drained(c) == Sent(c, Size(seg[c]))

\* drain() raises once QEMU is gone: connect() dies as it is, _srv_to_fw()
\* closes the server.
SendFails(c) ==
    /\ co[c] \in {"send", "drain"} /\ ~qemu_up
    /\ co' = [co EXCEPT ![c] = "ended"]
    /\ srv' = IF seg[c].kind \in {"DATA", "FIN"} THEN Shut(srv) ELSE srv
    /\ seg' = [seg EXCEPT ![c] = NoSeg]
    /\ UNCHANGED <<qemu_up, up, session, connVars, rd, srv_sent, down, fwVars>>

\* Mutant: the end of the stream is noticed before the bytes left in it.
ReadEofFirst(c) ==
    /\ co[c] = "read"
    /\ \/ /\ srv[rd[c]].buf # <<>> /\ ~srv[rd[c]].eof
          /\ Build(c, "DATA", srv[rd[c]].buf)
          /\ srv' = [srv EXCEPT ![rd[c]].buf = <<>>]
       \/ srv[rd[c]].eof /\ Build(c, "FIN", <<>>) /\ UNCHANGED srv
    /\ UNCHANGED <<qemu_up, up, session, connVars, rd, srv_sent, down, fwVars>>

\* srv_reader.read() returns what has arrived, or the end of the stream.
Read(c) ==
    /\ co[c] = "read" /\ srv[rd[c]].fault # "told"
    /\ \/ /\ srv[rd[c]].buf # <<>>
          /\ Build(c, "DATA", srv[rd[c]].buf)
          /\ srv' = [srv EXCEPT ![rd[c]].buf = <<>>]
       \/ /\ srv[rd[c]].buf = <<>> /\ srv[rd[c]].eof
          /\ Build(c, "FIN", <<>>)
          /\ UNCHANGED srv
    /\ UNCHANGED <<qemu_up, up, session, connVars, rd, srv_sent, down, fwVars>>

\* connection_lost(): from now on read() raises.
ReaderTold(c) ==
    /\ srv[c].fault = "lost"
    /\ srv' = [srv EXCEPT ![c].fault = "told"]
    /\ UNCHANGED <<qemu_up, up, session, connVars, coVars, srv_sent, down, fwVars>>

\* read() raises even with bytes in the buffer: they are dropped, the task ends
\* with no segment to the firmware, and closes the server connection.
ReadRaises(c) ==
    /\ co[c] = "read" /\ srv[rd[c]].fault = "told"
    /\ co' = [co EXCEPT ![c] = "ended"]
    /\ srv' = Shut(srv)
    /\ UNCHANGED <<qemu_up, up, session, connVars, rd, seg, srv_sent, down, fwVars>>

Coroutine(c) == \/ ConnectFailed(c) \/ ConnectOpened(c) \/ Write(c) \/ Drained(c)
                \/ SendFails(c) \/ Read(c) \/ ReaderTold(c) \/ ReadRaises(c)

\* ---- The server --------------------------------------------------------------

ServerSend(c) ==
    /\ srv[c].state \in {"open", "late"} /\ ~srv[c].eof
    /\ srv_sent < ServerMax
    /\ srv_sent' = srv_sent + 1
    /\ srv' = [srv EXCEPT ![c].buf = Append(@, srv_sent + 1)]

ServerClose(c) ==
    /\ srv[c].state \in {"open", "late"} /\ ~srv[c].eof
    /\ srv' = [srv EXCEPT ![c].eof = TRUE]
    /\ UNCHANGED srv_sent

\* RST: while its stream has not ended the relay polls the socket.
ServerReset(c) ==
    /\ srv[c].state \in {"open", "late"} /\ ~srv[c].eof
    /\ srv' = Broken(c)
    /\ UNCHANGED srv_sent

Server ==
    /\ \E c \in Cos : ServerSend(c) \/ ServerClose(c) \/ ServerReset(c)
    /\ UNCHANGED <<qemu_up, up, session, connVars, coVars, down, fwVars>>

\* ---- The firmware and QEMU -----------------------------------------------------

Emit(m) == up' = Append(up, m)

\* The connection is asked for, and again when no answer comes in time.
FwSyn ==
    /\ \/ fw = "closed" /\ UNCHANGED odd
       \/ fw = "syn_sent" /\ Odd
    /\ co[ConnMax] = "none"
    /\ up = <<>>
    /\ Emit(Syn)
    /\ fw' = "syn_sent"
    /\ UNCHANGED <<wrote, una, taken, lost>>

\* New data, alone or with FIN; or FIN or RST without.
FwSend ==
    /\ fw = "estab"
    /\ \E fin \in BOOLEAN :
        \/ /\ wrote < DataMax
           /\ wrote' = wrote + 1
           /\ Emit(FwSeg(wrote + 1, 1, fin))
           /\ fw' = IF fin THEN "fin_sent" ELSE fw
        \/ /\ fin
           /\ Emit(FwSeg(wrote + 1, 0, TRUE))
           /\ fw' = "fin_sent"
           /\ UNCHANGED wrote
    /\ UNCHANGED <<una, taken, odd, lost>>

\* lwIP forgets the connection and what arrives for it (no odd event is left either).
Over == /\ fw' = "over" /\ una' = 0 /\ taken' = 0
        /\ odd' = 0 /\ lost' = FALSE

FwAbort ==
    /\ fw \in {"estab", "fin_sent"}
    /\ Emit(Rst)
    /\ Over
    /\ UNCHANGED wrote

\* The oldest byte that is not acknowledged in time is sent again.
FwResend ==
    /\ fw \in {"estab", "fin_sent"} /\ una \in 1..wrote
    /\ Odd
    /\ Emit(FwSeg(una, 1, FALSE))
    /\ UNCHANGED <<fw, wrote, una, taken, lost>>

\* A segment of the relay is lost in the device's mailbox, or arrives.  lwIP
\* answers with its next number, or refuses what does not answer its SYN.  RST
\* ends the connection: a later one has a port of its own.
FwLose ==
    /\ fw # "over" /\ taken < Len(down) /\ Odd
    /\ taken' = taken + 1
    /\ lost' = TRUE
    /\ UNCHANGED <<up, fw, wrote, una>>

FwTake ==
    /\ fw # "over" /\ taken < Len(down)
    /\ LET s == down[taken + 1] IN
       \/ s.kind = "RST" /\ Over /\ UNCHANGED up
       \/ /\ s.kind # "RST"
          /\ fw' = IF fw = "syn_sent" /\ s.kind = "SYNACK" THEN "estab" ELSE fw
          /\ taken' = taken + 1
          /\ una' = IF s.ack > una THEN s.ack ELSE una
          /\ Emit(CASE fw = "syn_sent" /\ s.kind # "SYNACK" -> Rst
                    [] fw = "fin_sent" -> FwSeg(wrote + 2, 0, FALSE)
                    [] OTHER           -> FwSeg(wrote + 1, 0, FALSE))
          /\ UNCHANGED <<odd, lost>>
    /\ UNCHANGED wrote

Firmware ==
    /\ qemu_up /\ Len(up) < UpMax
    /\ FwSyn \/ FwSend \/ FwAbort \/ FwResend \/ FwLose \/ FwTake
    /\ UNCHANGED <<qemu_up, session, connVars, coVars, serverVars, down>>

\* QEMU exits, and the firmware with it.
QemuGone ==
    /\ qemu_up
    /\ qemu_up' = FALSE /\ Over
    /\ UNCHANGED <<up, session, connVars, coVars, serverVars, down, wrote>>

\* ---- Specification ---------------------------------------------------------------

Session == SessionTcp \/ SessionOther \/ SessionEnd

RelayNext == Session \/ (\E c \in Cos : Coroutine(c)) \/ Server \/ Firmware \/ QemuGone

RelaySpec == RelayInit /\ [][RelayNext]_relayVars

\* The asyncio loop runs every coroutine that can run; QEMU reads its stream, and
\* an open_connection() succeeds or fails.
FairRelaySpec ==
    /\ RelaySpec
    /\ WF_relayVars(Session)
    /\ \A c \in Cos : WF_relayVars(Coroutine(c))
    /\ WF_relayVars(/\ qemu_up /\ Len(up) < UpMax /\ FwTake
                    /\ UNCHANGED <<qemu_up, session, connVars, coVars, serverVars, down>>)

\* ---- Properties --------------------------------------------------------------------

\* Every variable keeps its type: numbers fit their ranges, segments are segments.
RelayTypeOK ==
    /\ qemu_up \in BOOLEAN
    /\ up \in Seq(FwSegs)
    /\ session \in {"read", "other", "ended"}
    /\ in_table \in BOOLEAN /\ connected \in BOOLEAN
    /\ fw_seq \in Nat /\ fw_ack \in 0..(DataMax + 2)
    /\ {writer, task} \subseteq 0..ConnMax
    /\ co \in [Cos -> {"none", "opening", "send", "drain", "read", "ended"}]
    /\ rd \in [Cos -> 0..ConnMax]
    /\ seg \in [Cos -> Segs]
    /\ srv \in [Cos -> [state : {"none", "open", "late", "closed"}, eof : BOOLEAN,
                        fault : {"none", "lost", "told"},
                        buf : Seq(1..ServerMax), rcvd : Seq(1..DataMax)]]
    /\ srv_sent \in 0..ServerMax
    /\ down \in Seq(Segs)
    /\ fw \in {"closed", "syn_sent", "estab", "fin_sent", "over"}
    /\ wrote \in 0..DataMax /\ una \in 0..(DataMax + 2)
    /\ taken \in 0..Len(down)
    /\ odd \in 0..OddMax /\ lost \in BOOLEAN

\* At most one server connection has been opened: of several attempts, which
\* repeated SYNs start, the others are pending or were refused.  (A second one
\* splits the bytes of the firmware between two servers, and both count fw_seq.)
Sole == \A c, d \in Cos : srv[c].state # "none" /\ srv[d].state # "none" => c = d

\* What the server receives has no gap: a byte comes first or after its
\* predecessor, whatever is retransmitted, whenever the connection opens.
ServerInOrder ==
    Sole =>
    \A c \in Cos : \A i \in 1..Len(srv[c].rcvd) :
        LET b == srv[c].rcvd[i] IN
        b = 1 \/ \E j \in 1..(i - 1) : srv[c].rcvd[j] = b - 1

\* While the server has not reset the connection, an acknowledgement the relay
\* sends covers only bytes it has forwarded: lwIP discards what is acknowledged,
\* so any other byte would be lost.  (RST discards it all.)
AckedIsForwarded ==
    Sole /\ (\A c \in Cos : srv[c].fault = "none") =>
    \A i \in 1..Len(down) : \A b \in 1..wrote :
        down[i].kind # "RST" /\ b < down[i].ack =>
            \E c \in Cos : \E j \in 1..Len(srv[c].rcvd) : srv[c].rcvd[j] = b

\* The segments to the firmware are numbered without gap or overlap, whatever
\* refused attempts send between them: a segment follows those that count, DATA
\* carries the bytes its number promises, and FIN follows the last byte.
FirmwareStream ==
    Sole =>
    \A i \in 1..Len(down) : down[i].kind # "RST" =>
        /\ \A h \in 1..(i - 1) :
              /\ down[h].kind # "RST"
              /\ \A k \in (h + 1)..(i - 1) : down[k].kind = "RST"
              => down[i].seq = down[h].seq + Size(down[h])
        /\ \A j \in 1..Len(down[i].data) : down[i].data[j] = down[i].seq + j - 1
        /\ down[i].kind = "FIN" => down[i].seq = srv_sent + 1

\* Once a session has ended, no server connection is open but one that was still
\* being opened then, or that a later one had displaced: close() knows only the
\* last.
NothingSurvivesSession ==
    session = "ended" => \A c \in Cos : srv[c].state = "open" => writer \notin {0, c}

\* What has arrived from the server is sent to the firmware while QEMU is there,
\* unless the server resets the connection: then it may be dropped, and the
\* firmware is told nothing.
ServerBytesForwarded ==
    (\E c \in Cos : srv[c].buf # <<>> /\ srv[c].fault = "none")
        ~> ~qemu_up \/ ~Sole \/ \A c \in Cos : srv[c].buf = <<>> \/ srv[c].fault # "none"

\* A SYN is answered, by SYN-ACK or RST, unless the device loses the answer or
\* QEMU goes.
SynAnswered ==
    fw = "syn_sent" ~> fw # "syn_sent" \/ ~qemu_up \/ lost

\* The proxy is a stream relay: no byte reaches a server twice.
ExactlyOnce ==
    \A c \in Cos : \A i, j \in 1..Len(srv[c].rcvd) :
        srv[c].rcvd[i] = srv[c].rcvd[j] => i = j
=============================================================================
