----------------------------- MODULE EspWifiTx -----------------------------
(***************************************************************************)
(* The transmit path: tasks of the firmware hand in Ethernet frames         *)
(* (esp_wifi_netif.c, esp_wifi_internal.c) or raw 802.11 frames            *)
(* (esp_wifi_promisc.c), the sniffer is shown a copy, the frame is copied  *)
(* to the DMA buffer all tasks share, the device sends it to the packet    *)
(* relay (esp_wifi.c), and a session of the relay reads it                 *)
(* (wifi_packet_relay.py).                                                 *)
(*                                                                         *)
(* No lock is taken: every byte of the memcpy() and every register write   *)
(* of a task is a step.  A write to TX_LEN is one step, with its two       *)
(* send()s: the device runs under QEMU's lock.                             *)
(***************************************************************************)
EXTENDS Naturals, Sequences

CONSTANTS
    Tasks,       \* tasks that transmit
    Lens,        \* lengths of the Ethernet frames of the IP stack
    RawLens,     \* lengths of the raw frames of the application
    Filters,     \* filters the application sets
    HdrSize,     \* bytes of the length prefix (4)
    EthHdr,      \* of an Ethernet header (14)
    RawMin,      \* of an 802.11 header (24)
    RawHdr,      \* of that and LLC/SNAP (32)
    RawMax,      \* of the longest raw frame (1536)
    BufSize,     \* of the DMA buffer, and the relay's MAX_FRAME (1516)
    SendMax,     \* bound: frames
    ConnMax,     \* bound: connections to the relay
    SetMax,      \* bound: calls that set up the sniffer
    RebootMax    \* bound: resets of the machine

ASSUME TxSizeAssumption ==
    /\ {HdrSize, EthHdr, RawMin, BufSize} \subseteq Nat \ {0}
    /\ RawHdr \in Nat /\ RawHdr > EthHdr /\ RawMax \in Nat
ASSUME TxFiltersAssumption == Filters \subseteq SUBSET {"data", "other"}
ASSUME TxLensAssumption == Lens \subseteq Nat \ {0} /\ RawLens \subseteq Nat \ {0}
ASSUME TxBoundAssumption == {SendMax, ConnMax, SetMax, RebootMax} \subseteq Nat

VARIABLES
    promisc,     \* s_promisc_enabled, s_promisc_rx_cb, s_promisc_filter
    frames,      \* history: the frames handed in, with what became of them
    task,        \* where each task is, with which frame
    tx_buf,      \* s_tx_buf: per byte, the frame it was copied from
    tx_addr,     \* WIFI_REG_TX_ADDR has been written
    conn,        \* the connection of the device, 0 without one
    sock,        \* per connection, the bytes not yet read by the relay
    relay,       \* per connection, the relay's session
    conns, sets_left, reboots_left

fwVars    == <<promisc, frames, task, tx_buf>>
relayVars == <<sock, relay, conns>>
txBounds  == <<sets_left, reboots_left>>
txVars    == <<fwVars, tx_addr, conn, relayVars, txBounds>>

\* The 802.11 types the filter tells apart; management, control and misc frames
\* are treated alike.
Types == {"data", "other"}
NoFrame == 0

\* A byte on the wire: the frame it is sent for, its place, and the frame whose
\* byte it is.
Bytes == [no : 1..SendMax, pos : 1..(HdrSize + BufSize), from : 0..SendMax]

Free   == [pc |-> "free", no |-> NoFrame, pos |-> 0]
Unborn == [live |-> FALSE, hdr |-> <<>>, data |-> <<>>, expected |-> 0, got |-> <<>>]

TxTypeOK ==
    /\ promisc \in [on : BOOLEAN, cb : BOOLEAN, mask : SUBSET Types]
    /\ frames \in Seq([by : Tasks, raw : BOOLEAN, type : Types,
                       len : 0..BufSize, seen : Nat, alone : BOOLEAN])
    /\ Len(frames) <= SendMax
    /\ task \in [Tasks -> [pc : {"free", "tap", "call", "copy", "addr", "len"},
                           no : 0..SendMax, pos : 0..BufSize]]
    /\ tx_buf \in [1..BufSize -> 0..SendMax]
    /\ tx_addr \in BOOLEAN
    /\ conn \in 0..ConnMax /\ conns \in 0..ConnMax
    /\ sock \in [1..ConnMax -> Seq(Bytes)]
    /\ relay \in [1..ConnMax -> [live : BOOLEAN, hdr : Seq(Bytes), data : Seq(Bytes),
                                 expected : 0..BufSize, got : Seq(Seq(Bytes))]]
    /\ sets_left \in 0..SetMax /\ reboots_left \in 0..RebootMax

\* Static data of the firmware, at power-on and after a reset.
FirmwareInit ==
    [promisc |-> [on |-> FALSE, cb |-> FALSE, mask |-> Types],
     task    |-> [t \in Tasks |-> Free],
     tx_buf  |-> [i \in 1..BufSize |-> NoFrame]]

TxInit ==
    /\ promisc = FirmwareInit.promisc
    /\ task = FirmwareInit.task /\ tx_buf = FirmwareInit.tx_buf
    /\ frames = <<>>
    /\ tx_addr = FALSE /\ conn = 0
    /\ sock = [s \in 1..ConnMax |-> <<>>]
    /\ relay = [s \in 1..ConnMax |-> Unborn]
    /\ conns = 0 /\ sets_left = SetMax /\ reboots_left = RebootMax

\* ---- The sniffer's settings ---------------------------------------------------

SetUpSniffer(settings) ==
    /\ sets_left > 0 /\ settings # promisc
    /\ sets_left' = sets_left - 1
    /\ promisc' = settings
    /\ UNCHANGED <<frames, task, tx_buf, tx_addr, conn, relayVars, reboots_left>>

SetPromiscuous(en)      == SetUpSniffer([promisc EXCEPT !.on = en])
SetPromiscuousRxCb(cb)  == SetUpSniffer([promisc EXCEPT !.cb = cb])
SetPromiscuousFilter(m) == SetUpSniffer([promisc EXCEPT !.mask = m])

\* ---- Frames are handed in -------------------------------------------------------

HandIn(t, raw, type, n) ==
    /\ task[t].pc = "free" /\ Len(frames) < SendMax
    /\ frames' = Append(frames, [by |-> t, raw |-> raw, type |-> type, len |-> n,
                                 seen |-> 0, alone |-> TRUE])
    /\ task' = [task EXCEPT ![t] = [pc |-> "tap", no |-> Len(frames) + 1, pos |-> 0]]
    /\ UNCHANGED <<promisc, tx_buf, tx_addr, conn, relayVars, txBounds>>

\* qemu_wifi_transmit(), qemu_wifi_transmit_wrap(); a frame that is too long is
\* refused.  The IP stack always puts an Ethernet header in front.
Transmit(t, n) ==
    /\ n <= BufSize
    /\ HandIn(t, FALSE, "data", n)

\* Mutant: the length of the buffer is not looked at.
EthLenUnchecked(type, oneDS, snap, n) ==
    IF type = "data" /\ n >= RawHdr /\ oneDS /\ snap THEN EthHdr + n - RawHdr ELSE 0

\* The Ethernet frame in a raw one: of a data frame with LLC/SNAP and one of ToDS
\* and FromDS, if qemu_wifi_tx_raw_no_promisc() takes it; else none.
EthLen(type, oneDS, snap, n) ==
    LET m == EthHdr + n - RawHdr
    IN  IF type = "data" /\ n >= RawHdr /\ oneDS /\ snap /\ m <= BufSize THEN m ELSE 0

\* esp_wifi_80211_tx() with arguments it accepts
Esp80211Tx(t, type, oneDS, snap, n) ==
    /\ n \in RawMin..RawMax
    /\ HandIn(t, TRUE, type, EthLen(type, oneDS, snap, n))

\* ---- The steps of a transmission ------------------------------------------------

At(t, pc) == task[t].pc = pc
Frame(t)  == frames[task[t].no]

\* Mutant: the Ethernet frame in a raw frame is shown as well.
AfterTapAgain(t) ==
    IF Frame(t).len = 0 THEN Free
    ELSE [task[t] EXCEPT !.pc =
             IF At(t, "call") /\ Frame(t).raw /\ Frame(t).seen = 0 THEN "tap" ELSE "copy"]

\* Without an Ethernet frame the call returns.
AfterTap(t) ==
    IF Frame(t).len = 0 THEN Free ELSE [task[t] EXCEPT !.pc = "copy"]

\* The checks and the allocation before the sniffer's callback.  Without memory
\* for the sniffer's copy the frame is sent all the same.
Tap(t, enough) ==
    /\ At(t, "tap")
    /\ task' = [task EXCEPT ![t] =
           IF promisc.on /\ promisc.cb /\ Frame(t).type \in promisc.mask /\ enough
           THEN [@ EXCEPT !.pc = "call"] ELSE AfterTap(t)]
    /\ UNCHANGED <<promisc, frames, tx_buf, tx_addr, conn, relayVars, txBounds>>

\* The call.  Without a callback, when it has just been cleared: see Panic.
Call(t) ==
    /\ At(t, "call") /\ promisc.cb
    /\ frames' = [frames EXCEPT ![task[t].no].seen = @ + 1]
    /\ task' = [task EXCEPT ![t] = AfterTap(t)]
    /\ UNCHANGED <<promisc, tx_buf, tx_addr, conn, relayVars, txBounds>>

\* calloc() of the Ethernet frame in a raw one fails.
NoMemory(t) ==
    /\ At(t, "copy") /\ task[t].pos = 0 /\ Frame(t).raw
    /\ task' = [task EXCEPT ![t] = Free]
    /\ UNCHANGED <<promisc, frames, tx_buf, tx_addr, conn, relayVars, txBounds>>

\* Mutant: memcpy() of one byte too few.
CopyShort(t) ==
    /\ At(t, "copy")
    /\ LET i == task[t].pos + 1 IN
        /\ tx_buf' = [tx_buf EXCEPT ![i] = task[t].no]
        /\ task' = [task EXCEPT ![t].pos = i,
                                ![t].pc = IF i + 1 >= Frame(t).len THEN "addr" ELSE @]
    /\ UNCHANGED <<promisc, frames, tx_addr, conn, relayVars, txBounds>>

\* A byte of memcpy(s_tx_buf, ...): another task may be between its own memcpy()
\* and its write to TX_LEN.
Copy(t) ==
    /\ At(t, "copy")
    /\ LET i == task[t].pos + 1 IN
        /\ tx_buf' = [tx_buf EXCEPT ![i] = task[t].no]
        /\ task' = [task EXCEPT ![t].pos = i,
                                ![t].pc = IF i = Frame(t).len THEN "addr" ELSE @]
    /\ frames' = [k \in DOMAIN frames |-> [frames[k] EXCEPT !.alone =
           @ /\ ~\E u \in Tasks \ {t} : task[u].no = k /\ task[u].pos > 0]]
    /\ UNCHANGED <<promisc, tx_addr, conn, relayVars, txBounds>>

\* The write to TX_ADDR
WriteTxAddr(t) ==
    /\ At(t, "addr")
    /\ tx_addr' = TRUE
    /\ task' = [task EXCEPT ![t].pc = "len"]
    /\ UNCHANGED <<promisc, frames, tx_buf, conn, relayVars, txBounds>>

\* The bytes of the two send()s: the prefix, and what DMA finds in the buffer.
Message(k) ==
    [i \in 1..(HdrSize + frames[k].len) |->
        [no |-> k, pos |-> i, from |-> IF i <= HdrSize THEN k ELSE tx_buf[i - HdrSize]]]

\* Mutant: a send() that fails leaves the connection open.
PktRelaySendOpen(k) ==
    IF conn = 0 THEN UNCHANGED <<conn, sock>>
    ELSE \E n \in IF relay[conn].live THEN 0..Len(Message(k)) ELSE {0} :
        /\ sock' = [sock EXCEPT ![conn] = @ \o SubSeq(Message(k), 1, n)]
        /\ UNCHANGED conn

\* pkt_relay_send(): either send() may take less than it is given, and then the
\* connection is closed.
PktRelaySend(k) ==
    IF conn = 0 THEN UNCHANGED <<conn, sock>>
    ELSE \E n \in IF relay[conn].live THEN 0..Len(Message(k)) ELSE {0} :
        /\ sock' = [sock EXCEPT ![conn] = @ \o SubSeq(Message(k), 1, n)]
        /\ conn' = IF n < Len(Message(k)) THEN 0 ELSE conn

\* The write to TX_LEN
WriteTxLen(t) ==
    /\ At(t, "len")
    /\ IF tx_addr THEN PktRelaySend(task[t].no) ELSE UNCHANGED <<conn, sock>>
    /\ task' = [task EXCEPT ![t] = Free]
    /\ UNCHANGED <<promisc, frames, tx_buf, tx_addr, relay, conns, txBounds>>

\* ---- Connections -----------------------------------------------------------------

\* pkt_relay_open(), called by WIFI_CMD_CONNECT when there is no connection.  A
\* session of an earlier connection may still have bytes to read.
PktRelayOpen ==
    /\ conn = 0 /\ conns < ConnMax
    /\ conns' = conns + 1 /\ conn' = conns + 1
    /\ relay' = [relay EXCEPT ![conns + 1].live = TRUE]
    /\ UNCHANGED <<fwVars, tx_addr, sock, txBounds>>

\* The device finds the session gone: pkt_relay_close().
PktHangUp ==
    /\ conn # 0 /\ ~relay[conn].live
    /\ conn' = 0
    /\ UNCHANGED <<fwVars, tx_addr, relayVars, txBounds>>

Restart ==
    /\ promisc' = FirmwareInit.promisc
    /\ task' = FirmwareInit.task /\ tx_buf' = FirmwareInit.tx_buf
    /\ conn' = 0
    /\ reboots_left > 0 /\ reboots_left' = reboots_left - 1
    /\ UNCHANGED <<frames, tx_addr, relayVars, sets_left>>

\* A reset of the machine: esp_wifi_reset() leaves TX_ADDR as it is.
Reboot == Restart

\* The callback is called after it was cleared by another task: the firmware
\* jumps to address 0, panics and restarts.
Panic ==
    /\ \E t \in Tasks : At(t, "call") /\ ~promisc.cb
    /\ Restart

\* ---- The relay: handle_qemu_session() ----------------------------------------------

EndSession(s) ==
    /\ relay' = [relay EXCEPT ![s] = Unborn]
    /\ sock' = [sock EXCEPT ![s] = <<>>]

\* The lengths the prefix may decode to; any, if it is none the device has sent.
Decode(hdr) ==
    IF hdr = SubSeq(Message(hdr[1].no), 1, HdrSize)
    THEN {frames[hdr[1].no].len} ELSE 0..(BufSize + 1)

\* reader.read() for the rest of the prefix
ReadPrefix(s) ==
    /\ relay[s].live /\ Len(relay[s].hdr) < HdrSize
    /\ \E n \in 1..(HdrSize - Len(relay[s].hdr)) :
        LET hdr == relay[s].hdr \o SubSeq(sock[s], 1, n) IN
        /\ n <= Len(sock[s])
        /\ IF Len(hdr) < HdrSize
           THEN /\ relay' = [relay EXCEPT ![s].hdr = hdr]
                /\ sock' = [sock EXCEPT ![s] = SubSeq(@, n + 1, Len(@))]
           ELSE \E len \in Decode(hdr) :
                IF len \in 1..BufSize
                THEN /\ relay' = [relay EXCEPT ![s].hdr = hdr, ![s].expected = len]
                     /\ sock' = [sock EXCEPT ![s] = SubSeq(@, n + 1, Len(@))]
                ELSE EndSession(s)
    /\ UNCHANGED <<fwVars, tx_addr, conn, conns, txBounds>>

\* reader.read() for the rest of the frame, and process_frame()
ReadFrame(s) ==
    /\ relay[s].live /\ Len(relay[s].hdr) = HdrSize
    /\ \E n \in 1..(relay[s].expected - Len(relay[s].data)) :
        LET data == relay[s].data \o SubSeq(sock[s], 1, n) IN
        /\ n <= Len(sock[s])
        /\ sock' = [sock EXCEPT ![s] = SubSeq(@, n + 1, Len(@))]
        /\ relay' = [relay EXCEPT ![s] =
               IF Len(data) < @.expected THEN [@ EXCEPT !.data = data]
               ELSE [live |-> TRUE, hdr |-> <<>>, data |-> <<>>, expected |-> 0,
                     got |-> Append(@.got, data)]]
    /\ UNCHANGED <<fwVars, tx_addr, conn, conns, txBounds>>

\* End of file, behind the last byte of a closed connection; an error in
\* process_frame(), or the end of the relay, at any time.
SessionEnds(s) ==
    /\ relay[s].live
    /\ EndSession(s)
    /\ UNCHANGED <<fwVars, tx_addr, conn, conns, txBounds>>

TxNext ==
    \/ \E en \in BOOLEAN : SetPromiscuous(en) \/ SetPromiscuousRxCb(en)
    \/ \E m \in Filters : SetPromiscuousFilter(m)
    \/ \E t \in Tasks :
        \/ \E n \in Lens : Transmit(t, n)
        \/ \E type \in Types, oneDS, snap \in BOOLEAN, n \in RawLens :
               Esp80211Tx(t, type, oneDS, snap, n)
        \/ \E enough \in BOOLEAN : Tap(t, enough)
        \/ Call(t) \/ NoMemory(t)
        \/ Copy(t) \/ WriteTxAddr(t) \/ WriteTxLen(t)
    \/ PktRelayOpen \/ PktHangUp \/ Reboot \/ Panic
    \/ \E s \in 1..ConnMax : ReadPrefix(s) \/ ReadFrame(s) \/ SessionEnds(s)

TxSpec == TxInit /\ [][TxNext]_txVars

-----------------------------------------------------------------------------
\* ---- Properties -----------------------------------------------------------

\* A session never reads a length out of a frame's body, whichever send() was
\* short: what it has collected and what is in the socket are whole frames, one
\* after the other, and only a connection the device has closed ends inside one.
Unread(s) == relay[s].hdr \o relay[s].data \o sock[s]

EndsFrame(b) == b.pos = HdrSize + frames[b.no].len

SessionsFramed ==
    \A s \in 1..ConnMax : relay[s].live =>
        LET u == Unread(s) IN
        /\ u # <<>> => u[1].pos = 1
        /\ \A i \in 1..(Len(u) - 1) :
               IF EndsFrame(u[i]) THEN u[i + 1].pos = 1
               ELSE u[i + 1].no = u[i].no /\ u[i + 1].pos = u[i].pos + 1
        /\ u # <<>> /\ conn = s => EndsFrame(u[Len(u)])
        /\ Len(relay[s].hdr) = HdrSize => relay[s].expected = frames[relay[s].hdr[1].no].len

\* A frame read by the relay has the length it was handed in with; if no other
\* task wrote to the buffer meanwhile it is the frame handed in; and the frames
\* of a task come in order and once, however many connections were lost.
FramesArrive ==
    \A s \in 1..ConnMax : \A i \in DOMAIN relay[s].got :
        LET g == relay[s].got[i]
            k == g[1].no IN
        /\ Len(g) = frames[k].len
        /\ frames[k].alone => \A j \in DOMAIN g : g[j].from = k
        /\ \A j \in 1..(i - 1) : LET l == relay[s].got[j][1].no IN
               frames[l].by = frames[k].by => l < k

\* esp_wifi_netif.c on qemu_wifi_tx_raw_no_promisc(): no frame is shown to the
\* sniffer twice, and a frame that is not data never gets onto the wire.
SniffedOnce ==
    /\ \A k \in DOMAIN frames : frames[k].seen <= 1
    /\ \A s \in 1..ConnMax : \A i \in DOMAIN sock[s] : frames[sock[s][i].no].type = "data"
=============================================================================
