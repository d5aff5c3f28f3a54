---------------------------- MODULE EspWifiPkt ----------------------------
(***************************************************************************)
(* The receive path of the data plane: the stream socket of the packet     *)
(* relay, the framing and the one-frame mailbox of the device (esp_wifi.c),*)
(* and the event task of the firmware that empties the mailbox             *)
(* (esp_wifi_shim.c, esp_wifi_netif.c).                                    *)
(*                                                                         *)
(* A byte is <<frame number, position>>; the positions 1..HdrSize are the  *)
(* length prefix.  Each recv() of the device is a step, with as many bytes *)
(* as the kernel gives it; each MMIO access of the firmware is a step, and *)
(* so is each byte of its memcpy().  The control plane only shows as other *)
(* events that take the place of RX_READY, and as tasks that acknowledge   *)
(* it in wifi_qemu_send_cmd().                                             *)
(***************************************************************************)
EXTENDS EspWifiRegs, Integers, Sequences

CONSTANTS
    HdrSize,     \* bytes of the length prefix (4)
    MaxFrame,    \* WIFI_PKT_BUF_SIZE, MAX_FRAME of the relay
    Lens,        \* lengths of the frames the relay builds
    Others,      \* events of the control plane
    SendMax,     \* bound: frames
    ConnMax,     \* bound: connections to the relay
    OtherMax,    \* bound: other events posted and events taken by other tasks
    RebootMax    \* bound: resets of the machine

ASSUME SizeAssumption   == HdrSize \in Nat \ {0} /\ MaxFrame \in Nat \ {0}
ASSUME LensAssumption   == Lens \subseteq Nat \ {0}
ASSUME OthersAssumption == Others \subseteq Events \ {"RX_READY"}
ASSUME PktBoundAssumption == {SendMax, ConnMax, OtherMax, RebootMax} \subseteq Nat

VARIABLES
    frames,      \* history: lengths of the frames sent by the relay
    peer_up,     \* the relay has not closed the connection
    stream,      \* bytes in the socket
    pkt_open,    \* pkt_fd >= 0
    rx_hdr,      \* pkt_rx_hdr[0 .. pkt_rx_hdr_pos)
    rx_data,     \* pkt_rx_data[0 .. pkt_rx_data_pos)
    rx_expected, \* pkt_rx_expected
    rx_addr,     \* WIFI_REG_RX_ADDR has been written
    rx_len,      \* WIFI_REG_RX_LEN
    rx_buf,      \* s_rx_buf, the DMA buffer in the guest's memory
    pc,          \* where the event task is
    evt,         \* the event it has read
    len,         \* the length it has read
    copy,        \* the part of the frame it has copied to the heap
    delivered,   \* history: frames given to esp_netif_receive()
    conns_left, others_left, reboots_left

relayVars  == <<frames, peer_up, stream>>
framerVars == <<rx_hdr, rx_data, rx_expected>>
boxVars    == <<rx_addr, rx_len, rx_buf>>
taskVars   == <<pc, evt, len, copy, delivered>>
boundVars  == <<conns_left, others_left, reboots_left>>
pktVars    == <<regVars, relayVars, pkt_open, framerVars, boxVars, taskVars, boundVars>>

Wire(f) == [i \in 1..(HdrSize + frames[f]) |-> <<f, i>>]
Body(f) == [i \in 1..frames[f] |-> <<f, HdrSize + i>>]
Bytes   == (1..SendMax) \X (1..(HdrSize + MaxFrame))
NoBytes == <<0, 0>>   \* a byte of s_rx_buf never written

TaskPcs == {"read", "poll", "ack", "rx", "clear", "copy", "consume", "deliver"}

PktTypeOK ==
    /\ RegsTypeOK
    /\ frames \in Seq(Lens) /\ Len(frames) <= SendMax
    /\ peer_up \in BOOLEAN /\ pkt_open \in BOOLEAN
    /\ stream \in Seq(Bytes)
    /\ rx_hdr \in Seq(Bytes) /\ Len(rx_hdr) <= HdrSize
    /\ rx_data \in Seq(Bytes) /\ Len(rx_data) <= MaxFrame
    /\ rx_expected \in 0..MaxFrame
    /\ rx_addr \in BOOLEAN
    /\ rx_len \in 0..MaxFrame
    /\ rx_buf \in [1..MaxFrame -> Bytes \cup {NoBytes}]
    /\ pc \in TaskPcs
    /\ evt \in Events \cup {NoEvent}
    /\ len \in 0..MaxFrame
    /\ copy \in Seq(Bytes \cup {NoBytes}) /\ Len(copy) <= MaxFrame
    /\ delivered \in Seq(Seq(Bytes \cup {NoBytes}))
    /\ conns_left \in 0..ConnMax /\ others_left \in 0..OtherMax
    /\ reboots_left \in 0..RebootMax

PktInit ==
    /\ RegsInit
    /\ frames = <<>> /\ peer_up = FALSE /\ stream = <<>>
    /\ pkt_open = FALSE
    /\ rx_hdr = <<>> /\ rx_data = <<>> /\ rx_expected = 0
    /\ rx_addr = FALSE /\ rx_len = 0 /\ rx_buf = [i \in 1..MaxFrame |-> NoBytes]
    /\ pc = "read" /\ evt = NoEvent /\ len = 0 /\ copy = <<>> /\ delivered = <<>>
    /\ conns_left = ConnMax /\ others_left = OtherMax /\ reboots_left = RebootMax

\* ---- The relay ------------------------------------------------------------

\* send_frame(): a frame that is too long is not sent.
RelaySend(n) ==
    /\ pkt_open /\ peer_up
    /\ n <= MaxFrame
    /\ Len(frames) < SendMax
    /\ frames' = Append(frames, n)
    /\ stream' = stream \o [i \in 1..(HdrSize + n) |-> <<Len(frames) + 1, i>>]
    /\ UNCHANGED <<regVars, peer_up, pkt_open, framerVars, boxVars, taskVars, boundVars>>

RelayClose ==
    /\ pkt_open /\ peer_up
    /\ peer_up' = FALSE
    /\ UNCHANGED <<regVars, frames, stream, pkt_open, framerVars, boxVars,
                   taskVars, boundVars>>

\* ---- The device -----------------------------------------------------------

\* pkt_relay_open(), called by WIFI_CMD_CONNECT when there is no connection.
PktOpen ==
    /\ ~pkt_open /\ conns_left > 0
    /\ conns_left' = conns_left - 1
    /\ pkt_open' = TRUE /\ peer_up' = TRUE /\ stream' = <<>>
    /\ UNCHANGED <<regVars, frames, framerVars, boxVars, taskVars, others_left,
                   reboots_left>>

\* Mutant: the framer keeps its place for the next connection.
PktCloseKeepsFramer ==
    /\ pkt_open' = FALSE /\ peer_up' = FALSE /\ stream' = <<>>
    /\ UNCHANGED framerVars

\* pkt_relay_close()
PktClose ==
    /\ pkt_open' = FALSE /\ peer_up' = FALSE /\ stream' = <<>>
    /\ rx_hdr' = <<>> /\ rx_data' = <<>> /\ rx_expected' = 0

\* HUP: whatever is still in the socket is not read.  Also a failed send() of
\* pkt_relay_send(), at any time.
PktLost ==
    /\ pkt_open
    /\ PktClose
    /\ UNCHANGED <<regVars, frames, boxVars, taskVars, boundVars>>

\* The lengths the four bytes may decode to; any, if they are not a prefix the
\* relay has written.
Decode(hdr) ==
    LET F == {f \in 1..Len(frames) : hdr = SubSeq(Wire(f), 1, HdrSize)}
    IN  IF F = {} THEN 0..(MaxFrame + 1) ELSE {frames[f] : f \in F}

\* Mutant: recv() is always asked for a whole length prefix.
PktReadHeaderWhole ==
    /\ pkt_open /\ peer_up /\ stream # <<>>
    /\ Len(rx_hdr) < HdrSize
    /\ \E n \in 1..HdrSize :
        LET hdr == rx_hdr \o SubSeq(stream, 1, n) IN
        /\ n <= Len(stream)
        /\ rx_hdr' = hdr
        /\ rx_data' = <<>>
        /\ rx_expected' = IF Len(hdr) < HdrSize THEN 0 ELSE frames[hdr[1][1]]
        /\ stream' = SubSeq(stream, n + 1, Len(stream))
    /\ UNCHANGED <<regVars, frames, peer_up, pkt_open, boxVars, taskVars, boundVars>>

\* One recv() for the rest of the length prefix.
PktReadHeader ==
    /\ pkt_open /\ peer_up /\ stream # <<>>
    /\ Len(rx_hdr) < HdrSize
    /\ \E n \in 1..(HdrSize - Len(rx_hdr)) :
        LET hdr == rx_hdr \o SubSeq(stream, 1, n) IN
        /\ n <= Len(stream)
        /\ IF Len(hdr) < HdrSize
           THEN /\ rx_hdr' = hdr
                /\ stream' = SubSeq(stream, n + 1, Len(stream))
                /\ UNCHANGED <<peer_up, pkt_open, rx_data, rx_expected>>
           ELSE \E size \in Decode(hdr) :
                IF size \in 1..MaxFrame
                THEN /\ rx_hdr' = hdr /\ rx_data' = <<>> /\ rx_expected' = size
                     /\ stream' = SubSeq(stream, n + 1, Len(stream))
                     /\ UNCHANGED <<peer_up, pkt_open>>
                ELSE PktClose
    /\ UNCHANGED <<regVars, frames, boxVars, taskVars, boundVars>>

\* Mutant: the mailbox is not looked at.
AcceptAlways(data) ==
    IF rx_addr
    THEN /\ rx_buf' = [i \in 1..MaxFrame |-> IF i <= Len(data) THEN data[i] ELSE rx_buf[i]]
         /\ rx_len' = Len(data)
         /\ PostEvent("RX_READY")
         /\ UNCHANGED rx_addr
    ELSE UNCHANGED <<regVars, boxVars>>

\* A frame is complete: DMA to the firmware's buffer if the mailbox is empty,
\* else the frame is dropped.
Accept(data) ==
    IF rx_len = 0 /\ rx_addr
    THEN /\ rx_buf' = [i \in 1..MaxFrame |-> IF i <= Len(data) THEN data[i] ELSE rx_buf[i]]
         /\ rx_len' = Len(data)
         /\ PostEvent("RX_READY")
         /\ UNCHANGED rx_addr
    ELSE UNCHANGED <<regVars, boxVars>>

\* One recv() for the rest of the frame.
PktReadBody ==
    /\ pkt_open /\ peer_up /\ stream # <<>>
    /\ Len(rx_hdr) = HdrSize
    /\ \E n \in 1..(rx_expected - Len(rx_data)) :
        LET data == rx_data \o SubSeq(stream, 1, n) IN
        /\ n <= Len(stream)
        /\ stream' = SubSeq(stream, n + 1, Len(stream))
        /\ IF Len(data) < rx_expected
           THEN /\ rx_data' = data
                /\ UNCHANGED <<regVars, rx_hdr, rx_expected, boxVars>>
           ELSE /\ rx_hdr' = <<>> /\ rx_data' = <<>> /\ rx_expected' = 0
                /\ Accept(data)
    /\ UNCHANGED <<frames, peer_up, pkt_open, taskVars, boundVars>>

\* ---- The event task: wifi_event_task(), esp_wifi_netif_rx_frame() ----------

DeviceIdle == UNCHANGED <<relayVars, pkt_open, framerVars, rx_addr, rx_buf, boundVars>>

TaskReadEvent ==
    /\ pc = "read"
    /\ evt' = event
    /\ pc' = IF event = NoEvent THEN "poll" ELSE "ack"
    /\ UNCHANGED <<regVars, rx_len, len, copy, delivered>>
    /\ DeviceIdle

\* Mutant: frames are taken on RX_READY only.
TaskPollNothing ==
    /\ pc = "poll"
    /\ pc' = "read"
    /\ UNCHANGED <<regVars, rx_len, evt, len, copy, delivered>>
    /\ DeviceIdle

\* The look at RX_LEN when there is no event.
TaskPollMailbox ==
    /\ pc = "poll"
    /\ pc' = IF rx_len > 0 THEN "rx" ELSE "read"
    /\ UNCHANGED <<regVars, rx_len, evt, len, copy, delivered>>
    /\ DeviceIdle

TaskAck ==
    /\ pc = "ack"
    /\ WriteEvent
    /\ pc' = IF evt = "RX_READY" THEN "rx" ELSE "read"
    /\ UNCHANGED <<rx_len, evt, len, copy, delivered>>
    /\ DeviceIdle

\* Mutant: the mailbox is released before the frame is copied.
TaskReadLenRelease(enough) ==
    /\ pc = "rx"
    /\ len' = rx_len
    /\ rx_len' = 0
    /\ copy' = <<>>
    /\ pc' = IF rx_len = 0 \/ ~enough THEN "clear" ELSE "copy"
    /\ UNCHANGED <<regVars, evt, delivered>>
    /\ DeviceIdle

\* The read of RX_LEN, and malloc(): `enough' memory or none.
TaskReadLen(enough) ==
    /\ pc = "rx"
    /\ len' = rx_len
    /\ copy' = <<>>
    /\ pc' = IF rx_len = 0 \/ ~enough THEN "clear" ELSE "copy"
    /\ UNCHANGED <<regVars, rx_len, evt, delivered>>
    /\ DeviceIdle

\* RX_LEN := 0 when there is nothing to take, or no memory.
TaskClear ==
    /\ pc = "clear"
    /\ rx_len' = 0
    /\ pc' = "read"
    /\ UNCHANGED <<regVars, evt, len, copy, delivered>>
    /\ DeviceIdle

\* memcpy()
TaskCopy ==
    /\ pc = "copy"
    /\ copy' = Append(copy, rx_buf[Len(copy) + 1])
    /\ pc' = IF Len(copy) + 1 = len THEN "consume" ELSE "copy"
    /\ UNCHANGED <<regVars, rx_len, evt, len, delivered>>
    /\ DeviceIdle

\* RX_LEN := 0
TaskConsume ==
    /\ pc = "consume"
    /\ rx_len' = 0
    /\ pc' = "deliver"
    /\ UNCHANGED <<regVars, evt, len, copy, delivered>>
    /\ DeviceIdle

\* esp_netif_receive(), unless there is no netif or it refuses the frame.
TaskDeliver(taken) ==
    /\ pc = "deliver"
    /\ delivered' = IF taken THEN Append(delivered, copy) ELSE delivered
    /\ pc' = "read"
    /\ UNCHANGED <<regVars, rx_len, evt, len, copy>>
    /\ DeviceIdle

EventTask ==
    \/ TaskReadEvent
    \/ TaskPollMailbox
    \/ TaskAck
    \/ \E enough \in BOOLEAN : TaskReadLen(enough)
    \/ TaskClear
    \/ TaskCopy
    \/ TaskConsume
    \/ \E taken \in BOOLEAN : TaskDeliver(taken)

\* ---- The rest of the system ------------------------------------------------

\* esp_wifi_netif_init(), in the task of the event loop: the address of s_rx_buf.
NetifInit ==
    /\ rx_addr' = TRUE
    /\ UNCHANGED <<regVars, relayVars, pkt_open, framerVars, rx_len, rx_buf,
                   taskVars, boundVars>>

OtherIdle == UNCHANGED <<relayVars, pkt_open, framerVars, boxVars, taskVars,
                         conns_left, reboots_left>>

\* The control plane posts an event.
OtherEvent ==
    /\ others_left > 0
    /\ others_left' = others_left - 1
    /\ \E e \in Others : PostEvent(e)
    /\ OtherIdle

\* A task in wifi_qemu_send_cmd() takes the pending event for its answer.
OtherTakesEvent ==
    /\ others_left > 0
    /\ others_left' = others_left - 1
    /\ event # NoEvent
    /\ WriteEvent
    /\ OtherIdle

\* A reset of the machine: esp_wifi_reset() leaves RX_ADDR as it is, the memory
\* survives, the firmware starts again.
Reboot ==
    /\ reboots_left > 0
    /\ reboots_left' = reboots_left - 1
    /\ PktClose
    /\ rx_len' = 0
    /\ event' = NoEvent /\ irq_enable' = {} /\ irq' = FALSE
    /\ pc' = "read" /\ evt' = NoEvent /\ len' = 0 /\ copy' = <<>>
    /\ UNCHANGED <<frames, rx_addr, rx_buf, delivered, conns_left, others_left>>

PktNext ==
    \/ \E n \in Lens : RelaySend(n)
    \/ RelayClose
    \/ PktOpen \/ PktLost \/ PktReadHeader \/ PktReadBody
    \/ EventTask
    \/ NetifInit \/ OtherEvent \/ OtherTakesEvent \/ Reboot

PktSpec == PktInit /\ [][PktNext]_pktVars

\* The event task is scheduled.
FairPktSpec == PktSpec /\ WF_pktVars(EventTask)

-----------------------------------------------------------------------------
\* ---- Properties -----------------------------------------------------------

\* The bytes collected by the framer, followed by those in the socket, are whole
\* consecutive frames of the relay: the framer never reads a length out of a
\* body, across partial reads, lost connections and reconnects.
Pending == rx_hdr \o rx_data \o stream

Successor(b) ==
    IF b[2] < HdrSize + frames[b[1]] THEN <<b[1], b[2] + 1>> ELSE <<b[1] + 1, 1>>

StreamFramed ==
    /\ Pending # <<>> =>
          /\ Pending[1][2] = 1
          /\ Pending[Len(Pending)] = <<Len(frames), HdrSize + frames[Len(frames)]>>
    /\ \A i \in 1..(Len(Pending) - 1) : Pending[i + 1] = Successor(Pending[i])
    /\ Len(rx_hdr) = HdrSize => rx_expected = frames[rx_hdr[1][1]]

\* From the moment the event task has read RX_LEN until it writes 0, the frame
\* in the DMA buffer does not change under its memcpy().
MailboxStable ==
    pc \in {"copy", "consume"} =>
        /\ rx_len = len
        /\ copy = SubSeq(rx_buf, 1, Len(copy))

\* The bodies of all frames the relay may send, and the number of the frame that
\* lwIP got last.
Bodies == {[i \in 1..n |-> <<k, HdrSize + i>>] : n \in Lens, k \in 1..SendMax}
LastNo == IF delivered = <<>> THEN 0 ELSE delivered[Len(delivered)][1][1]

\* lwIP gets whole frames of the relay, in order and none twice: the receive
\* path implements the lossy FIFO.
Fifo == INSTANCE LossyFifo WITH
            Frames <- Bodies,
            in     <- [f \in 1..Len(frames) |-> Body(f)],
            out    <- delivered,
            last   <- LastNo

ImplementsLossyFifo == Fifo!Spec

\* A frame in the mailbox is taken out, though its RX_READY may be overwritten
\* or taken by another task: a mailbox that stays full loses every later frame.
MailboxDrains == rx_len # 0 ~> rx_len = 0
=============================================================================
