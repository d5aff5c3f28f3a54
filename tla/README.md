# TLA+ verification of the QEMU Wi-Fi device, its firmware shim and the display path

This directory holds TLA+ modules that model the virtual Wi-Fi hardware of
this repository, the firmware library that drives it, the daemon and the relay it
talks to, and the two ways the picture takes to a browser; TLC configurations
that model-check them; and modules of proofs checked by TLAPS. Paths below are relative to the repository root.

## 1. The system

The demo runs unmodified ESP-IDF firmware in QEMU. Wi-Fi is a paravirtual
device: the firmware writes commands and polls registers, QEMU translates them
into `wpa_supplicant` control commands and into Ethernet frames for a relay.

```
 application (examples/wifi_sta)          tasks: app_main, esp_event loop
   | esp_wifi_*()          ^ WIFI_EVENT / IP_EVENT
 shim (components/esp_wifi_qemu)          task: wifi_event_task
   | MMIO writes           ^ MMIO reads of one event register, DMA mailbox
 device (hw/net/esp_wifi.c)               QEMU main loop, one big lock
   | Unix datagrams  ^     | TCP stream ^  length-prefixed frames
 wpa_supplicant (mock)     packet relay

 video memory --- esp_rgb_ws, inside QEMU ------- WebSocket --> web/qemu-direct.html
      \--------- a file --- tools/fb_server ------ WebSocket --> web/main.js
```

| Component | State | Operations | Hard parts |
|---|---|---|---|
| device, control half (`hw/net/esp_wifi.c`) | event register, interrupt line, `WIFI_REG_STATUS`, sequencer `conn_state`, `scan_only`, network id, credential, IP and AP registers, control socket, GOT_IP timers | 9 guest commands, register writes, one handler per control message, HUP, timer, reset | two state machines that must agree; replies without request ids; a one-place event register; a timer nothing cancels; no time-outs |
| device, packet half (same file) | relay socket, header and body of the frame being read, `RX_ADDR`, `RX_LEN`, DMA buffer | open, close, partial reads, DMA, transmit | framing over partial reads and reconnects; the mailbox is shared with a running task |
| mock supplicant (`tools/mock-wpa-supplicant.py`) | attached clients, network counter, networks, sleeping event threads | one handler per command, delayed broadcasts, stop, start | events and replies interleave; restart forgets subscriptions |
| shim: life cycle and events (`esp_wifi_shim.c`, `esp_wifi_config.c`) | mode, init flag, event task, stored configuration | init, set_mode, set_config, start, connect, disconnect, stop, deinit | three tasks share one register; acknowledgement by writing 0 |
| shim: netif (`esp_wifi_netif.c`) | `s_rx_buf`, `s_tx_buf` | receive, four transmit helpers, driver installation | DMA buffer read while the device may write; transmit buffer shared by tasks |
| shim: sniffer and raw 802.11 (`esp_wifi_promisc.c`) | enable flag, callback, filter | three setters, the tap, `esp_wifi_80211_tx()` | settings change between test and call; two length limits; frames shown twice |
| shim: scan, soft AP, extras (`esp_wifi_{scan,ap,extras,internal}.c`) | stored records, AP station table, callbacks | scan and record reads, station join/leave, getters and setters | records read one register at a time while a scan replaces them |
| packet relay (`tools/wifi_packet_relay.py`) | one QEMU session, TCP and UDP proxies | frame in, frame out, ARP answers, UDP and TCP proxying | state across `await`, sequence numbers, retransmissions |
| display server in QEMU (`hw/display/esp_rgb_ws.c`) | client list, header cache, frame counters, pending resize | start, accept, handshake, announce, broadcast, timer | blocking writes under the big lock; a resize between two callbacks; clients that go away inside a loop |
| frame-buffer server (`tools/fb_server/*.py`) | per connection: rows read, last digest, init flag; touch ring | read rows, compare, send init, header, payload | rows read while they are drawn; connections that break between two messages |
| browser (`web/*.js`, `web/qemu-direct.html`) | pending header, canvas | pair header with data, reconnect | a header left over from the last connection |
| demo firmware (`main/*.c`) | UI text and dirty flag, frame dump | draw, probe, dump | two tasks share the UI text |
| scripts, tests, configuration | - | - | no protocol state |

How they interact, and what makes each of them correct:

* The firmware **calls** the device by MMIO; every access is atomic with respect
  to the device (QEMU's big lock), and nothing else is. The device **answers**
  through one event register that holds one event. Correct: the interrupt line
  follows register and mask; an event means what its name says.
* The device **sends** control commands without ids and takes the next
  datagram that is not an event for the answer to its last one. Correct: status
  and sequencer agree, a join under way does not end as a scan, each
  reply meets the command it answers, the network selected is the configured one,
  and the sequencer comes to rest.
* The daemon **broadcasts** events to whoever is attached. Correct: a device
  that re-initialises stays attached.
* The relay **streams** frames, in both directions. Correct: frames reach lwIP, and
  the relay, whole, in order and at most once; a full mailbox drains.
* The display server **pushes** headers and frames from callbacks that hold the big
  lock. Correct: a page knows the size before it gets a frame and ends up with the
  last picture.
* The frame buffer server **polls** a file that QEMU's guest writes, and shares
  nothing else with it. Correct: the page pairs each picture with its header and ends
  up with the last one.
* The event task **queues** a status text that the main task shows.
* The application waits for STA_CONNECTED and GOT_IP. Correct: it gets them, with
  an address.

## 2. Modules

| Module | Models | Extends |
|---|---|---|
| `EspWifiRegs` | event register, interrupt mask, interrupt line | - |
| `WpaCtrl` | control commands, replies and events as records | - |
| `EspWifiCtrl` | control half of the device | `EspWifiRegs`, `WpaCtrl` |
| `EspWifiCtrlProofs` | theorems about `EspWifiCtrl` | `EspWifiCtrl`, TLAPS |
| `MockSupplicant` | the daemon and the two datagram queues | `WpaCtrl` |
| `WifiLink` | device and daemon composed, guest with a budget | `EspWifiCtrl`, `MockSupplicant` |
| `WifiLinkProofs` | theorems about the composition and about the station | `WifiStation`, `EspWifiCtrlProofs`, `StreamFacts` |
| `WifiStation` | station example and shim on top | `WifiLink` |
| `LossyFifo` | what reception promises: a FIFO that may lose frames | - |
| `EspWifiPkt` | relay stream, framer, mailbox, event task | `EspWifiRegs` |
| `EspWifiPktProofs` | theorems about `EspWifiPkt`, its refinement of `LossyFifo` | `EspWifiPkt`, TLAPS |
| `StreamFacts` | lemmas on cutting and joining byte sequences | TLAPS |
| `EspWifiTx` | transmission: tasks, sniffer, DMA, the relay's reader | - |
| `EspWifiTxProofs` | theorems about `EspWifiTx` | `EspWifiTx`, `StreamFacts` |
| `RelayTcp` | one session of the relay and one connection of its TCP proxy, between lwIP and a server | - |
| `RelayTcpProofs` | theorems about `RelayTcp` | `RelayTcp`, TLAPS |
| `RgbWs` | display server, display device, page | - |
| `RgbWsProofs` | theorems about `RgbWs` | `RgbWs`, TLAPS |
| `FbServer` | frame buffer server and its page | - |
| `FbServerProofs` | theorems about `FbServer` | `FbServer`, TLAPS |
| `WifiUi` | status label of the demo | - |
| `MC*` | the instances TLC checks | the module after `MC` |

Each module starts with the abstraction it makes. Common to all:

* A handler that runs under QEMU's big lock is one action. A task of the
  firmware takes one step per MMIO access; what it does between two accesses is
  local and belongs to the step. The event task copies a frame one byte at a time.
* `sent` in `EspWifiCtrl` is what a step handed to the control socket. It lets the
  device be checked and proved alone, against a daemon that may send anything,
  and be composed with a daemon by reading `sent'` (`WifiLink!Transmit`).
* An address is its /24 subnet, a credential and an AP record are model values,
  a scan answer is the number of its parsable lines. The IP registers become two
  variables, because only the first address sets mask and gateway (`ip_gw`).
* A stream byte is <<frame, position>>; what four bytes decode to is the frame's
  length if they are its prefix and anything otherwise.
* The relay is one asyncio loop: what a coroutine does between two awaits is one
  step. A byte of the firmware is its sequence number, with the SYN at 0; lwIP and
  the server are external and do what TCP allows, so the numbers they choose do
  not matter. Frames that are not TCP are the time they hold up the session.
* In `EspWifiTx` a byte names the frame it is sent for, its place, and the frame it was
  copied from, so that a mixed buffer shows. Sockets take any part of a `send()`.
* In `RgbWs` a callback is a job with the clients still to serve; each write is a step,
  because it may wait. In `FbServer` each row read and each await is a step; a digest
  stands for the bytes it is taken of.
* In `WifiUi` each access to `s_buf` and `s_dirty` is a step, and a text read while it
  is copied is `Torn`.
* An operator commented `Mutant` is never used by the specifications. Each one is a
  plausible mistake in the definition that follows it, under which the property
  it belongs to fails: evidence that the property constrains the code.

Correspondence of names: the variables are the fields of `ESPWifiState`, the
statics of the shim and the attributes of `MockWpaSupplicant`; `Cmd*` are the
cases of `esp_wifi_handle_cmd()`, `Ev*` and `Reply*` the branches of
`wpa_handle_msg()`, `Handle*` those of `_handle()`, `App*`, `Evt*` and `Loop*` the
application task, the event task and the handlers in the event loop, `Pkt*` and
`Task*` the device and the event task on the packet side, and in `EspWifiTx` the helpers of
`esp_wifi_netif.c` and `esp_wifi_promisc.c` under their own names; in `RgbWs` and
`FbServer` the actions are the callbacks, the statements of `raw_vram_producer_loop()`
and the page's `onmessage`; in `RelayTcp` the
variables from `in_table` to `task` are the attributes of `TCPProxyConn`. `PROJECT.json`, "map",
gives the lines of every definition.

## 3. Runs

| Run | Question | Bounds |
|---|---|---|
| `device` | Are sequencer, status, interrupt and address consistent, whatever guest and daemon do? | one value per data type, two scan sizes, one of them over the limit, net ids -1 and 0, one GOT_IP timer |
| `link` | Does re-initialising keep the subscription; does the sequencer come to rest? | 5 guest writes, 2 of them INIT, two socket paths, one restart of the daemon |
| `station` | Does the station example reach its address with the right network? | one retry, 2 disconnects in CONNECTED, two credentials |
| `packets` | Do frames arrive whole, in order, at most once; does the mailbox drain? | 3 frames of 1 or 2 bytes behind a 2-byte prefix, 2 connections, 1 foreign event, 1 reset |
| `tcp` | Is the TCP proxy right in both directions, until the session ends? | 2 bytes each way, 2 SYNs, 2 odd events (a repeated SYN, a retransmission, a lost segment, a UDP or ARP request), one frame from QEMU unread; with two attempts one byte (`MCBound`) |
| `display` | Does every page know the size, miss no frame and end up with the last picture? | 2 connections, 2 sizes, one finished picture and one half drawn, counters modulo 2, 2 messages per socket |
| `transmit` | Do transmitted frames reach the relay framed and in order; does the sniffer see each once? | 2 tasks, 2 frames of 2 bytes, or raw ones with none, one or (too long) three in them, buffer and prefix of 2 bytes, 2 connections, 3 settings, 1 reset |
| `frames` | Does each payload meet its header; does the page end up with the last picture? | 3 rows, 2 colours, 2 messages on their way, 2 lost connections |

What the properties say is in the comment above each of them. In short:

* `device`: `SequencerMatchesStatus`, `NoWaitWithoutSocket`, `GotIpHasAddress`,
  `IrqMatchesEvent`, the inductive `JoinInv`, and the action properties
  `ConnectingSelects` and `JoinRunsOn`.
* `link`: `SubscriptionSurvives`, and `SequencerRests` (liveness).
* `station`: `JoinReplyMatches` (one reply outstanding and it is the right one),
  `AddressWithConnected`, `SelectsConfiguredNetwork`, and `StationGetsAddress`
  (liveness).
* `packets`: `StreamFramed`, `MailboxStable`, refinement of `LossyFifo`, and
  `MailboxDrains` (liveness).
* `tcp`: `ServerInOrder`, `AckedIsForwarded`, `FirmwareStream`,
  `NothingSurvivesSession`, and `ServerBytesForwarded` and `SynAnswered` (liveness).
* `display`: `FramesHaveHeader`, `SeqContiguous`, `HeaderCurrent`, and
  `PictureReachesPage` (liveness).
* `transmit`: `SessionsFramed`, `FramesArrive`, `SniffedOnce`.
* `frames`: `HeaderFitsPayload`, and `LastPictureShown` (liveness).

Why the bounds are enough. The device alone needs none on the number of steps:
its state is finite once data are, and the run explores all of it; one value
per data type suffices because the sequencer only compares them with "none". In
`link` a join is INIT, START, CONNECT; two writes remain to disturb it, and two
INITs are what it takes to re-attach. The queues hold 10 datagrams (Linux'
`net.unix.max_dgram_qlen`) and five writes cannot fill one, so `SequencerRests` is
about an unfilled queue: with more than five unserved INITs the kernel drops an
ATTACH, and the device, which has no time-out, waits for ever. In `packets` two
frames occupy stream and mailbox and the third is the one that may be dropped
between them; two connections are one reconnect; a two-byte prefix and two-byte
body already split anywhere. `station` bounds networks, events and retries by what
two disconnects can create. In `tcp` the second byte of the firmware is what can
overtake or leave out the first; two bytes of the server make one segment or two,
before a FIN; one retransmission is one duplicate, two odd events are a loss and what
follows it. Two SYNs are two coroutines: while the first waits in `open_connection()` or
for the send lock, or has been refused, a repeated SYN starts the second. Such an attempt
multiplies what the first does, so the constraint `MCBound` cuts the states that have one:
one byte in all, no odd event but the SYN, and no byte once both have opened a
connection. The safety properties are proved without any of these bounds (section 4); the
two liveness properties are checked only for behaviours that stay inside. The properties
of the byte streams say `Sole`: at most one attempt has opened a server connection. With
two open they do not hold, because the bytes of the firmware are split between two servers
and both tasks count `fw_seq`. Those that speak of delivery except a connection that the
server has reset (`fault`): the code drops bytes then (smaller disagreements below). In `display` the second connection is the one that is served
while the first stops reading, goes or comes; every picture is either whole or half
drawn, and two sizes make a resize; a counter modulo 2 wraps at the second frame; the
run has no bound on steps, it explores all states. `transmit` needs two tasks to mix the buffer, a
second frame to be misread behind half a first one, and a second connection to go on
after the first; buffer and prefix of two bytes split in the middle. In `frames` three
rows are one before, one at and one behind the row being drawn; with two colours
pictures can be equal or not; two messages on their way are a header in front of its
payload, or a payload in front of the next header; two lost connections leave a header
behind twice.

Fairness. `link`: weak fairness of the daemon's loop and threads, of the reads
of the control socket and of timers, which Python's and QEMU's main loops give;
none of the guest, which may stop at any time. `station`: weak fairness of each
task (FreeRTOS schedules them, they sleep between polls), of the device and of the
daemon; none of the disconnect. `packets`: weak fairness of the event task only.
`tcp`: weak fairness of each coroutine of the relay and of the session's loop, which
asyncio gives; an `open_connection()` ends one way or the other, `drain()` returns
because QEMU reads its socket, and lwIP handles what the device delivers. None of
the server's or the firmware's own decisions, a reset among them, nor of QEMU's exit. `display`: weak
fairness of the callback in progress, which goes on as soon as the socket has room;
strong fairness of the timer, because GLib dispatches every source that is ready in
turn, whatever other callbacks ran in between; weak fairness of the reads of open
pages. `display_frozen` has the first two only: a page may stop reading. `frames`: weak
fairness of the coroutine, of the page's reads, and of its reconnection, a browser timer.
None of the guest, of `transmit` or of `WifiUi`, which check safety only.

`CHECK_DEADLOCK FALSE` is set for `link`, `station`, `tcp` and `transmit` and for the
violation runs that need it: a guest that has used its budget, a connected station that nobody
disconnects, an idle connection, or a demo whose loops are over rests.

### Where code and documents disagree

Each of these runs checks a sentence of a document or a comment, and TLC finds a
behaviour of the code that contradicts it. "findings" quotes the sentences.

| Run | What happens |
|---|---|
| `lost_event` | an event is wiped by the acknowledgement of the one before it, or overwritten unread |
| `tcp_twice` | a segment lwIP retransmits, because the relay acknowledges data only with the server's next bytes, is forwarded to the server again |
| `display_frozen` | a page that stops reading keeps `ws_send_frame()` inside a blocking write, under the big lock: the guest's next register access never returns. The plan (docs/qemu-native-ws.md) and the header file say the frame is dropped |
| `status_lost` | a status queued between `lv_label_set_text()` and `s_dirty = false` loses its mark: the label may go on saying "connecting" |

Smaller disagreements are recorded here only. In the device: a SCAN sent in the middle
of a re-join marks the join as a scan, because the guard that drops such a SCAN looks
only at STARTED; a CONNECTED event still queued at a stop or disconnect brings CONNECTED
back; the "OK" of DISABLE_NETWORK may be taken for the STATUS answer, which gives CONNECTED
without an address (`AddressWithConnected` holds because the shim disconnects only from
CONNECTED in the bounds of `station`). In the shim: RX_LEN := 0 after reading 0 drops a
frame that came in between. In the relay: a SYN retransmitted while `open_connection()`
is pending opens a second connection to the server, and the first is never closed; when the
second is refused, its RST ends the connection of the firmware although the first is open.
After a reset by the server `read()` raises although bytes are buffered, and a write that fails
is not noticed: the bytes are dropped, the task ends (wifi_packet_relay.py:328) with nothing
but a debug line, and the firmware gets neither data nor FIN nor RST
(`ServerBytesForwarded` and `AckedIsForwarded` except just that). In the
display server: between a write of RGB_WIN_SIZE and the announcement of the new size the
timer sends frames of the new size, which the page decodes with the old one, although
docs/qemu-native-ws.md:72-74 has the header come first. Also: the AP registers still name the AP
after a disconnect (esp_wifi_extras.c:301 says they are zero); the "OK" of an
earlier DISABLE_NETWORK can be read as network id 0; the relay drops ICMP, which its
docstring says it relays; the condition under "Cleanup closed connections"
(wifi_packet_relay.py:553) is never true, because a connection whose segments
were counted is `connected` for ever; the relay never acknowledges a FIN; an INIT that cannot reach the
daemon leaves `WIFI_REG_STATUS` as it was, where docs/qemu-wifi.md draws an edge to
ERROR; and `CMD_DEINIT` posts no event although `esp_wifi_deinit()` waits for one.

## 4. Proofs

Every theorem is about the specification the runs check, for every value of the
constants that the assumptions below allow: every set of credentials, subnets and access
points, of ids, masks and pictures, every frame length, number of frames, tasks,
connections, retransmissions and losses, every size of buffers and queues. The
theorems about the subscription and the station that need more say so in their statement.

| Module | Theorem | Statement |
|---|---|---|
| `EspWifiCtrlProofs` | `TypeCorrect` | `Spec => []TypeOK` |
| | `IrqCorrect` | `Spec => []IrqMatchesEvent` |
| | `GotIpCorrect` | `Spec => []GotIpHasAddress` |
| | `JoinCorrect` | `Spec => []JoinInv` |
| | `StatusCorrect`, `SocketCorrect` | the two conjuncts of it that are checked by name |
| | `JoinRunsOnCorrect` | `Spec => JoinRunsOn` |
| | `ConnectingCorrect` | `Spec => ConnectingSelects` |
| `RgbWsProofs` | `RgbTypeCorrect` | `RgbSpec => []RgbTypeOK` |
| | `FramesFollowHeader`, `FramesNumbered`, `ClientsKnowSize` | `RgbSpec => []FramesHaveHeader`, `[]SeqContiguous`, `[]HeaderCurrent` |
| `FbServerProofs` | `FbTypeCorrect` | `FbSpec => []FbTypeOK` |
| | `PayloadMeetsHeader` | `FbSpec => []HeaderFitsPayload` |
| `EspWifiPktProofs` | `PktTypeCorrect`, `FramedCorrect`, `MailboxCorrect` | `PktSpec => []PktTypeOK`, `[]StreamFramed`, `[]MailboxStable` |
| | `ImplementsFifo` | `PktSpec => ImplementsLossyFifo`: it refines `LossyFifo` |
| `EspWifiTxProofs` | `TxTypeCorrect`, `TxSessionsFramed`, `TxFramesArrive`, `TxSniffedOnce` | `TxSpec => []TxTypeOK`, `[]SessionsFramed`, `[]FramesArrive`, `[]SniffedOnce` |
| `WifiLinkProofs` | `LinkTypeCorrect` | `LinkSpec => []LinkTypeOK` |
| | `LinkImplementsDevice` | `LinkSpec => Spec`: the theorems of `EspWifiCtrlProofs` hold in the composition |
| | `SubscriptionCorrect` | `LinkSpec /\ [][AttachFits]_linkVars => []SubscriptionSurvives` |
| | `StationTypeCorrect` | `StaSpec => []StaTypeOK` |
| | `StationImplementsDevice` | `StaSpec => Spec`: they hold under the firmware of the station too |
| | `RepliesMatch`, `AddressFirst`, `ConfiguredFirst` | `StaSpec => []P` for P in `JoinReplyMatches`, `AddressWithConnected`, `SelectsConfiguredNetwork`, if `"CONNECTING" \notin DisconnectFrom` |
| `RelayTcpProofs` | `RelayTypeCorrect`, `ServerInOrderCorrect`, `AckedIsForwardedCorrect`, `FirmwareStreamCorrect`, `NothingSurvivesCorrect` | `RelaySpec => []P`, for the five invariants P of run `tcp` |

The control half. `SequencerMatchesStatus` is not inductive: the reply that moves the
sequencer into ADD_NET_SENT arrives in SCAN_RESULTS_SENT, a state it says nothing
about. `JoinInv` adds what makes that step safe: with the socket open, a scan that is not
scan-only was asked by a CONNECT of a started station (`JoinScanStarted`); the
socket is open while the sequencer waits (`NoWaitWithoutSocket`, without which a
command that sends nothing could leave it waiting); and
the states after ADD_NETWORK have an id. Every action is a lemma that preserves
`JoinInv`. `ConnectingSelects` follows: the only step into CONNECTING is the reply
to the last SET_NETWORK, in a state in which `JoinInv` gives the socket and the
id. `JoinRunsOn` says of every step that a join of a started station goes on, or ends in one of
the ways its comment lists, none of which is a SCAN: the guard at esp_wifi.c:906 drops the
command before it can set `scan_only`, and CONNECT clears the flag that a SCAN has set
before. The same SCAN in a join that runs again after CONNECTED or a disconnect is not
dropped (section 3, smaller disagreements), which is why the property says STARTED. It
is proved action by action. `IrqMatchesEvent` is inductive alone: each action writes the registers by
`PostEvent`, `WriteEvent`, `WriteIrqEnable` or `Reset`, or leaves them. `GotIpHasAddress`
needs that nothing but reset clears the address, and reset clears the event too.

The display server. `FramesHaveHeader` and `SeqContiguous` speak of the messages on the
wire, which end where the server goes on writing, so the invariant must say what the
server knows. `RgbInv` has, beside the types, `HeaderInv`, which relates the cached header, the
size of the surface, the pending resize and the size in the job; and for
each connection `Conn(c)`, which says what follows the last message on the wire: its number
is `seq[c]`, and a client that has been told no size has a header job with it on its
list. A write to one connection leaves the others' wires alone, so each action is proved for
the connection it serves and for the rest.

The frame buffer server. `HeaderFitsPayload` speaks of the first message only; `FbInv` says of
every message that a payload stands behind its own header, or is the first and the header is
pending (`Announced`), and of a producer about to send a payload that its header is the last message, or
pending (`HeaderWaits`). A lost connection cuts the queue at its end, where no payload loses
the header in front of it, and leaves the producer without effect.

The receive path. `StreamFramed` says that what the framer reads next is a
prefix when it expects one; that follows only from what is in the stream. `PktInv` says that
the bytes from the framer to the relay's end are the rest of one frame and then whole
frames, in the order of their numbers, each behind its own prefix; that a mailbox that is
offered holds one frame, whole, and that the event task's copy agrees with it as far as it
goes. Reads of any length cut the stream anywhere: the lemmas of the module say what is left
after a cut. The refinement needs no more than that: a frame put into the mailbox, or
dropped, is the oldest of those on their way, and the mapped queue loses its head.

The transmit path. A stream between device and relay is a sequence of whole frames and, on
a connection the device gave up, a piece of one. `TxInv` says so of the socket and of what
the reader has collected, glued together, so that the cut may be anywhere; that a task is
inside `pkt_relay_send()` alone, because that runs under the big lock; that the frames of a
task are younger than those it has sent (`Older`); and who owns `s_tx_buf`: while no other
task has copied since, its bytes are the frame's (`alone` in the history). The lemmas on
sequences that they and the datagram queues keep needing are in `StreamFacts`.

The composition. A guest's write, a daemon's answer and a datagram read are steps
the open device may take, so `LinkSpec => Spec` and the theorems of `EspWifiCtrlProofs` hold
between the real sockets too. `SubscriptionSurvives` speaks of the states past ATTACH; the
invariant, `Registered`, says of every connected socket that the daemon has its path, or
that an ATTACH of it is the last of its ATTACH and DETACH datagrams in the queue, so that serving a
datagram only moves the fact from the queue to the table. The
theorem assumes of each step that the ATTACH of an INIT finds room in the queue
(`AttachFits`). That cannot be left out: with a queue of one, two or three datagrams TLC finds
an ATTACH that the kernel drops, after which a reply to something else moves the sequencer
out of ATTACH_SENT, and the device runs without a subscription. With the queue of 10 and
five writes of the guest TLC finds `AttachFits` true, so in run `link` it assumes nothing.

The station. `StationImplementsDevice` is again one case per write of the firmware. The
control protocol has no request ids, so what makes `JoinReplyMatches` true is how few replies
are on their way, and that depends on all three tasks, on the sequencer and on the daemon. The
invariant `Works` has three parts. `SocketUp`: the first step of the application opens
the socket, it stays open, and all datagrams carry its path. `Exchange` describes the two
queues and the daemon's sleeping threads together, by relations that follow a
command through its queue to its answer and its event: one reply outstanding in each state of
a join (`Joining`); one start-up scan at most, and its results asked for before the results of the
scan of the join, which come last (`Scanning`: `DumpsFirst`, `DumpLast`; without the order the
sequencer could take the one for the other); ids and addresses the daemon has given (`Answering`);
and the network as far as it is configured, where SET_NETWORK is still queued
or has been served (`Configuring`). `Tasks` says why CMD_CONNECT is written when nothing is under
way: it comes from STA_START or STA_DISCONNECTED, and of these tickets there is one at
most, in the register, with the event task or in the loop's queue, and none once the sequencer has begun
to join (`Tickets`); and where the application stands while it starts (`StartUp`) and that no address
means no CONNECTED anywhere (`Addressed`). Each relation on queues has a lemma for
each thing that happens to them (a command served, a thread fired, a reply or an event read, a
command sent), and each action of the station is a lemma built from those. TLC checked
`Works` on the instance of run `station` before it was proved.

The three theorems assume that the application does not disconnect while the device is
CONNECTING. For two of them that is necessary: if it does, TLC violates `JoinReplyMatches` and
`AddressWithConnected`, because the answers to SELECT_NETWORK and DISABLE_NETWORK meet the commands
of the next join (section 3, smaller disagreements). `SelectsConfiguredNetwork` survives two such
disconnects in TLC, but its proof rests on the other two. Any number of disconnects from
CONNECTED, of retries and of events lost in the register is covered.

The relay. `RelayInv` has two halves. `Shared` holds for any number of server connections:
a coroutine that has opened none sends RST at most (`Roles`); until one is open, nothing but
SYN and RST has been exchanged (`Attempts`); the table and the end of the session
(`Sessions`); how far sequence numbers and acknowledgements reach (`Limits`). `Alone` holds as
long as one connection at most was opened (`Sole => Alone`). `Numbers` and `Stream` follow the
server's bytes: in its socket, in the segment being sent, in the segments written, each
begins where its predecessor ends, and what the other coroutines send between them is
RST and counts nothing; all this survives a reset by the server. `OnTheWay` and `Delivered` follow
the firmware's: behind a segment that ends at n, and behind an acknowledgement of n, every byte
below n has reached the server or is on its way in front, unless the server has reset the
connection; so when a FIN is taken, everything is there. `InOrder` is what the server has
received. A step that opens a second connection makes `Sole` false; none makes it true again,
so for `Alone` only steps with at most one are left. SYNs and segments sent again, refused
attempts and losses are covered in any number, in any order; what is assumed of lwIP is
what its actions say: it numbers its own bytes, writes only between SYN-ACK and its FIN, and
sends an old byte again only as long as nothing acknowledges it.

The assumptions on constants are those the modules declare
(`Nothing` is no credential, subnet or access point, ids are integers, masks are
sets of events, bounds are natural numbers, `MockAnswersAssumption` makes the daemon's
answers messages of the interface, ...). TLC evaluates them in every run.

Only model-checked: all liveness (TLAPS has no rule for the fairness of these
actions that its back ends can use, and ENABLED is out of its reach).

## 5. What is not modelled, and the plan

Abstracted or left out of the modelled components: MAC and AP registers;
the formatting of commands and the text of scan answers (signal, flags, channel);
the `--real-scan` mode of the mock, which blocks it on an external program; the
time-outs of `wifi_qemu_send_cmd()`, which do not expire in `station`.

Not modelled: the soft AP. Its four-entry station table is written without a lock and
its events are posted after the write, but nothing states what a listener may rely on, and
what remains is sequential code its tests cover. Log and fake sources of the frame buffer
server replay fixed frames with the same three messages; touches go into a bounded deque one task
appends to and nobody reads back. `WifiUi` and `RgbWs` leave out LVGL.

Order of the work ahead:

1. Shim life cycle and scan API: stop, deinit and time-outs against the event task,
   blocking scan, records read while a scan replaces them.
2. The relay's UDP proxy; several TCP connections of one session.
3. Pure conversions: frequency to channel, flags to authentication mode.

Scripts, build configuration, the test-suite, echo servers and the getters and
setters of `esp_wifi_extras.c` have no protocol state worth a model.
