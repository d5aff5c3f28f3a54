------------------------------- MODULE RgbWs -------------------------------
(***************************************************************************)
(* The display server inside QEMU (hw/display/esp_rgb_ws.c), the display    *)
(* device that calls it, and the page that shows the picture                *)
(* (web/qemu-direct.html).                                                 *)
(*                                                                         *)
(* Every callback runs under QEMU's big lock and writes to its clients one  *)
(* after the other, each write waiting until the socket takes it: `job' is  *)
(* the callback in progress, and while there is one no other callback and   *)
(* no register access of the guest runs.  The guest's stores to the video   *)
(* memory need no lock.  The order of the client list is abstracted to a    *)
(* set, a message that has not been taken whole to one not yet written.     *)
(***************************************************************************)
EXTENDS Naturals, Sequences

CONSTANTS
    Clients,    \* connections; one that is over may be opened again
    Sizes,      \* widths and heights of the surface
    Pictures,   \* contents of the video memory
    SeqMod,     \* frame numbers are counted modulo this (2^32)
    Room,       \* messages a socket holds
    NoHeader, NoPicture, Half, Garbled

ASSUME SizesAssumption    == NoHeader \notin Sizes
ASSUME PicturesAssumption == {NoPicture, Half, Garbled} \cap Pictures = {}
ASSUME SeqModAssumption   == SeqMod \in Nat /\ SeqMod > 1
ASSUME RoomAssumption     == Room \in Nat \ {0}

VARIABLES
    server,     \* "down", or what esp_rgb_ws_start() has come to
    size,       \* s->width and s->height
    resized,    \* s->do_update_surface
    vram,       \* the video memory; Half while the guest is drawing
    header,     \* g_ws.json_header
    clients,    \* g_ws.clients
    seq,        \* c->seq
    job,        \* the callback in progress
    peer,       \* the other end of each connection
    wire,       \* messages sent and not yet received
    page,       \* per connection, what the page knows and shows, and
                \* (history) the frame number it should get next
    told        \* history: the size in the last header written to a client

deviceVars == <<size, resized, vram>>
rgbVars == <<server, deviceVars, header, clients, seq, job, peer, wire, page, told>>

Text(z)         == [kind |-> "text", size |-> z]
Binary(n, z, p) == [kind |-> "binary", seq |-> n, size |-> z, pic |-> p]

Messages == [kind : {"text"}, size : Sizes]
       \cup [kind : {"binary"}, seq : 0..(SeqMod - 1), size : Sizes, pic : Pictures \cup {Half}]

\* A callback writes a header or a frame to the clients in `todo', and calls
\* esp_rgb_ws_broadcast_frame() `calls' more times after that.
Jobs == [kind : {"header", "frame"}, todo : SUBSET Clients, size : Sizes,
         pic : Pictures \cup {Half}, calls : 0..2]
Idle == [kind |-> "idle"]

NewPage == [header |-> NoHeader, shown |-> NoPicture, next |-> 0]

\* The number of the frame after a message.
Following(msg) == IF msg.kind = "text" THEN 0 ELSE (msg.seq + 1) % SeqMod

RgbTypeOK ==
    /\ server \in {"down", "listening", "disabled", "unbound"}
    /\ size \in Sizes /\ resized \in BOOLEAN /\ vram \in Pictures \cup {Half}
    /\ header \in Sizes \cup {NoHeader}
    /\ clients \in SUBSET Clients
    /\ seq \in [Clients -> 0..(SeqMod - 1)]
    /\ job = Idle \/ (job \in Jobs /\ job.todo \subseteq clients)
    /\ peer \in [Clients -> {"absent", "handshake", "open", "closed", "reset"}]
    /\ wire \in [Clients -> Seq(Messages)]
    /\ page \in [Clients -> [header : Sizes \cup {NoHeader},
                             shown : Pictures \cup {Half, NoPicture, Garbled},
                             next : 0..(SeqMod - 1)]]
    /\ told \in [Clients -> Sizes \cup {NoHeader}]

RgbInit ==
    /\ server = "down"
    /\ size \in Sizes /\ resized = FALSE /\ vram \in Pictures
    /\ header = NoHeader
    /\ clients = {} /\ seq = [c \in Clients |-> 0] /\ job = Idle
    /\ peer = [c \in Clients |-> "absent"]
    /\ wire = [c \in Clients |-> <<>>]
    /\ page = [c \in Clients |-> NewPage]
    /\ told = [c \in Clients |-> NoHeader]

\* ---- Calls of the server ---------------------------------------------------

\* esp_rgb_ws_broadcast_frame(): the size is read, and the picture copied, once.
BroadcastJob(calls) ==
    IF server = "listening" /\ clients # {}
    THEN [kind |-> "frame", todo |-> clients, size |-> size, pic |-> vram, calls |-> calls]
    ELSE Idle

HeaderJob(todo, z, calls) ==
    IF todo # {}
    THEN [kind |-> "header", todo |-> todo, size |-> z, pic |-> Half, calls |-> calls]
    ELSE Idle

\* Mutant: without clients there is nothing to announce.
AnnounceToClients(calls) ==
    IF clients # {}
    THEN header' = size /\ job' = HeaderJob(clients, size, calls)
    ELSE UNCHANGED <<header, job>>

\* esp_rgb_ws_announce_surface(): the header is kept whether or not there is
\* a listener.
Announce(calls) ==
    /\ header' = size
    /\ job' = IF server = "listening" THEN HeaderJob(clients, size, calls) ELSE Idle

\* esp_rgb_init(): the first announcement, then esp_rgb_ws_start(), which may be
\* disabled and may find the port taken.
EspRgbInit ==
    /\ server = "down"
    /\ server' \in {"listening", "disabled", "unbound"}
    /\ Announce(0)
    /\ UNCHANGED <<deviceVars, clients, seq, peer, wire, page, told>>

\* ---- The display device and its guest -----------------------------------------

\* A write to RGB_WIN_SIZE.
WriteWinSize(z) ==
    /\ server # "down" /\ job = Idle
    /\ size' = z /\ resized' = TRUE
    /\ UNCHANGED <<server, vram, header, clients, seq, job, peer, wire, page, told>>

\* The guest starts to draw, or completes a picture.
Draw ==
    /\ server # "down"
    /\ vram' \in IF vram = Half THEN Pictures ELSE {Half}
    /\ UNCHANGED <<server, size, resized, header, clients, seq, job, peer, wire, page, told>>

\* rgb_update() with its three hooks.  It runs while something displays the
\* console.
RgbUpdate ==
    /\ server # "down" /\ job = Idle
    /\ \E area \in {0, 1} :
        IF resized
        THEN /\ Announce(area + 1)
             /\ resized' = FALSE
        ELSE /\ job' = BroadcastJob(area)
             /\ UNCHANGED <<header, resized>>
    /\ UNCHANGED <<server, size, vram, clients, seq, peer, wire, page, told>>

\* ---- Connections and the timer ---------------------------------------------

\* esp_rgb_ws_accept()
Accept(c) ==
    /\ server = "listening" /\ job = Idle
    /\ peer[c] = "absent"
    /\ peer' = [peer EXCEPT ![c] = "handshake"]
    /\ UNCHANGED <<server, deviceVars, header, clients, seq, job, wire, page, told>>

\* Mutant: a new client waits for the next announcement.
HandshakeDoneNoHeader(c) ==
    /\ job = Idle /\ peer[c] = "handshake"
    /\ peer' = [peer EXCEPT ![c] = "open"]
    /\ clients' = clients \cup {c}
    /\ seq' = [seq EXCEPT ![c] = 0]
    /\ told' = [told EXCEPT ![c] = NoHeader]
    /\ UNCHANGED <<server, deviceVars, header, job, wire, page>>

\* esp_rgb_ws_handshake_done() without an error
HandshakeDone(c) ==
    /\ job = Idle /\ peer[c] = "handshake"
    /\ peer' = [peer EXCEPT ![c] = "open"]
    /\ clients' = clients \cup {c}
    /\ seq' = [seq EXCEPT ![c] = 0]
    /\ told' = [told EXCEPT ![c] = NoHeader]
    /\ job' = IF header = NoHeader THEN Idle ELSE HeaderJob({c}, header, 0)
    /\ UNCHANGED <<server, deviceVars, header, wire, page>>

\* esp_rgb_ws_handshake_done() with one
HandshakeFails(c) ==
    /\ job = Idle /\ peer[c] = "handshake"
    /\ peer' = [peer EXCEPT ![c] = "absent"]
    /\ UNCHANGED <<server, deviceVars, header, clients, seq, job, wire, page, told>>

\* Mutant: the timer only runs the drawing the device has announced.
TimerWhenResized ==
    /\ server = "listening" /\ job = Idle /\ clients # {} /\ resized
    /\ job' = BroadcastJob(0)
    /\ UNCHANGED <<server, deviceVars, header, clients, seq, peer, wire, page, told>>

\* esp_rgb_ws_timer_cb(), every 500 ms
Timer ==
    /\ server = "listening" /\ job = Idle /\ clients # {}
    /\ job' = BroadcastJob(0)
    /\ UNCHANGED <<server, deviceVars, header, clients, seq, peer, wire, page, told>>

\* ---- The writes of a callback ------------------------------------------------

Done(c) == job' = [job EXCEPT !.todo = @ \ {c}]

\* Mutant: the numbers go on over an announcement.
NumberedGoesOn(c) ==
    /\ seq' = [seq EXCEPT ![c] = IF job.kind = "frame" THEN (@ + 1) % SeqMod ELSE @]
    /\ told' = [told EXCEPT ![c] = IF job.kind = "frame" THEN @ ELSE job.size]

\* The number of the next frame, after a header and after a frame.
Numbered(c) ==
    /\ seq' = [seq EXCEPT ![c] = IF job.kind = "frame" THEN (@ + 1) % SeqMod ELSE 0]
    /\ told' = [told EXCEPT ![c] = IF job.kind = "frame" THEN @ ELSE job.size]

\* ws_send_frame() succeeds once the socket has room.  The first write after the
\* page has gone succeeds as well; its bytes reach nobody.
Write(c) ==
    /\ job # Idle /\ c \in job.todo
    /\ \/ /\ peer[c] = "open" /\ Len(wire[c]) < Room
          /\ wire' = [wire EXCEPT ![c] = Append(@,
                 IF job.kind = "frame" THEN Binary(seq[c], job.size, job.pic)
                                       ELSE Text(job.size))]
          /\ UNCHANGED peer
       \/ /\ peer[c] = "closed"
          /\ peer' = [peer EXCEPT ![c] = "reset"]
          /\ UNCHANGED wire
    /\ Numbered(c)
    /\ Done(c)
    /\ UNCHANGED <<server, deviceVars, header, clients, page>>

\* Mutant: QLIST_FOREACH goes on from the client it has removed.
WriteFailsUnsafe(c) ==
    /\ job # Idle /\ c \in job.todo
    /\ peer[c] \in {"closed", "reset"}
    /\ clients' = clients \ {c}
    /\ seq' = [seq EXCEPT ![c] = 0] /\ told' = [told EXCEPT ![c] = NoHeader]
    /\ peer' = [peer EXCEPT ![c] = "absent"]
    /\ UNCHANGED <<server, deviceVars, header, job, wire, page>>

\* A failed write: client_remove().
WriteFails(c) ==
    /\ job # Idle /\ c \in job.todo
    /\ peer[c] \in {"closed", "reset"}
    /\ clients' = clients \ {c}
    /\ seq' = [seq EXCEPT ![c] = 0] /\ told' = [told EXCEPT ![c] = NoHeader]
    /\ peer' = [peer EXCEPT ![c] = "absent"]
    /\ Done(c)
    /\ UNCHANGED <<server, deviceVars, header, wire, page>>

\* All clients are served: the callback goes on to its next broadcast, or ends.
NextCall ==
    /\ job # Idle /\ job.todo = {}
    /\ job' = IF job.calls > 0 THEN BroadcastJob(job.calls - 1) ELSE Idle
    /\ UNCHANGED <<server, deviceVars, header, clients, seq, peer, wire, page, told>>

\* ---- The page ------------------------------------------------------------------

\* ws.onmessage: a header resizes, and so clears, the canvas; a frame is
\* decoded with the size of the last header, whatever its own.
Receive(c) ==
    /\ peer[c] = "open" /\ wire[c] # <<>>
    /\ LET msg == Head(wire[c])
           h   == page[c].header IN
       page' = [page EXCEPT ![c] =
           [header |-> IF msg.kind = "text" THEN msg.size ELSE h,
            shown  |-> IF msg.kind = "text" \/ h = NoHeader THEN NoPicture
                       ELSE IF msg.size = h THEN msg.pic ELSE Garbled,
            next   |-> Following(msg)]]
    /\ wire' = [wire EXCEPT ![c] = Tail(@)]
    /\ UNCHANGED <<server, deviceVars, header, clients, seq, job, peer, told>>

\* The tab is closed; with messages unread the kernel resets the connection.
CloseTab(c) ==
    /\ peer[c] = "open"
    /\ peer' = [peer EXCEPT ![c] = IF wire[c] = <<>> THEN "closed" ELSE "reset"]
    /\ wire' = [wire EXCEPT ![c] = <<>>]
    /\ page' = [page EXCEPT ![c] = NewPage]
    /\ UNCHANGED <<server, deviceVars, header, clients, seq, job, told>>

RgbNext ==
    \/ EspRgbInit \/ Draw \/ RgbUpdate \/ Timer \/ NextCall
    \/ \E z \in Sizes : WriteWinSize(z)
    \/ \E c \in Clients :
        \/ Accept(c) \/ HandshakeDone(c) \/ HandshakeFails(c)
        \/ Write(c) \/ WriteFails(c)
        \/ Receive(c) \/ CloseTab(c)

RgbSpec == RgbInit /\ [][RgbNext]_rgbVars

\* A callback runs on while it can, and GLib dispatches every source that is
\* ready: other callbacks do not keep the timer from firing.
ServerStep == NextCall \/ \E c \in Clients : Write(c) \/ WriteFails(c)
ServerFairSpec == RgbSpec /\ WF_rgbVars(ServerStep) /\ SF_rgbVars(Timer)

\* Pages that are open read.
FairRgbSpec == ServerFairSpec /\ \A c \in Clients : WF_rgbVars(Receive(c))

-----------------------------------------------------------------------------
\* ---- Properties -----------------------------------------------------------

IsText(w, i) == w[i].kind = "text"

\* No page gets a frame before a header, also when it connects between a resize
\* and the announcement, or while other clients are being served.
Headed(w, h) ==
    \A i \in DOMAIN w : ~IsText(w, i) => h # NoHeader \/ \E j \in 1..(i - 1) : IsText(w, j)

FramesHaveHeader == \A c \in Clients : Headed(wire[c], page[c].header)

\* On each connection the frames after a header are numbered 0, 1, 2, ...: none
\* is skipped or repeated, whatever the other clients do and whoever
\* calls for the broadcast.
InOrder(w, n) ==
    \A i \in DOMAIN w :
        ~IsText(w, i) => w[i].seq = IF i = 1 THEN n ELSE Following(w[i - 1])

NextAfter(w, n) == IF w = <<>> THEN n ELSE Following(w[Len(w)])

SeqContiguous ==
    \A c \in Clients :
        /\ InOrder(wire[c], page[c].next)
        /\ peer[c] = "open" => seq[c] = NextAfter(wire[c], page[c].next)

\* Unless a resize waits for rgb_update(), the last header of every client is
\* the size of the surface, and a page that has read everything knows it.
HeaderPending(c) == job # Idle /\ job.kind = "header" /\ c \in job.todo

HeaderCurrent ==
    ~resized => \A c \in clients :
        /\ HeaderPending(c) => job.size = size
        /\ ~HeaderPending(c) => told[c] = size
        /\ ~HeaderPending(c) /\ peer[c] = "open" /\ wire[c] = <<>> => page[c].header = size

\* When the guest stops drawing and resizing, and rgb_update() has run after the
\* last resize (~resized; QEMU calls it only for a display it shows, so never when
\* headless), every page that stays open ends up with that picture in that size,
\* though frames may have been copied in the middle of a drawing, shown in the
\* wrong size, or held up by other clients.
PictureReachesPage ==
    \A c \in Clients, z \in Sizes, p \in Pictures :
        <>[](vram = p /\ size = z /\ ~resized /\ peer[c] = "open")
            => <>[](page[c].header = z /\ page[c].shown = p)

\* docs/qemu-native-ws.md, R1, and esp_rgb_ws.h ("Drops on EAGAIN"): a client
\* that stops reading does not hold the lock under which the guest runs.
GuestNotFrozen == []<>(job = Idle)
=============================================================================
