------------------------------ MODULE FbServer ------------------------------
(***************************************************************************)
(* The picture by way of the frame buffer server: QEMU keeps the video     *)
(* memory in a file, a coroutine per connection polls it                   *)
(* (tools/fb_server/server.py, shmem_producer.py), and the page paints     *)
(* what it is sent and connects again when the connection breaks           *)
(* (web/main.js).  Connections share nothing but the file, so one page is  *)
(* followed through its connections.                                       *)
(*                                                                         *)
(* The rows of the file are read one by one while the guest goes on        *)
(* writing.  Every await of the coroutine is a step boundary.  A digest is *)
(* taken for the bytes themselves; sizes and formats do not change.        *)
(***************************************************************************)
EXTENDS Naturals, Sequences

CONSTANTS
    Rows,        \* rows of the picture
    Colours,     \* contents of a row
    Room,        \* messages the connection holds
    LossMax,     \* bound: connections lost
    None

ASSUME RowsAssumption    == Rows \in Nat \ {0}
ASSUME ColoursAssumption == None \notin Colours /\ None \notin [1..Rows -> Colours]
ASSUME FbBoundAssumption == Room \in Nat \ {0} /\ LossMax \in Nat

VARIABLES
    file,        \* the region of the video memory the server looks at; None: no file
    conn,        \* the page's connection is open
    srv,         \* where the connection's raw_vram_producer_loop() is
    rows,        \* rows read by read_raw_region()
    last,        \* last_digest
    init_sent,   \* init_sent
    down,        \* messages on their way to the page
    pendingHeader,  \* pendingHeader of the page: the picture announced
    canvas,      \* the canvas of the page
    losses

producerVars == <<srv, rows, last, init_sent>>
pageVars     == <<pendingHeader, canvas>>
fbVars       == <<file, conn, producerVars, down, pageVars, losses>>

Pictures == [1..Rows -> Colours]
Messages == [kind : {"init", "header", "payload"}, pic : Pictures]

FbTypeOK ==
    /\ {file, last, pendingHeader, canvas} \subseteq Pictures \cup {None}
    /\ {conn, init_sent} \subseteq BOOLEAN
    /\ srv \in {"none", "read", "init", "header", "payload"}
    /\ rows \in Seq(Colours) /\ Len(rows) <= Rows
    /\ down \in Seq(Messages) /\ Len(down) <= Room
    /\ losses \in 0..LossMax

FbInit ==
    /\ file \in Pictures \cup {None}
    /\ conn = FALSE /\ init_sent = FALSE
    /\ srv = "none" /\ rows = <<>> /\ last = None
    /\ down = <<>> /\ pendingHeader = None /\ canvas = None
    /\ losses = 0

\* ---- The guest and the connection ---------------------------------------------

\* A row of the mirror is drawn; QEMU makes the file when it starts.
Draw(r, colour) ==
    /\ file' = IF file = None THEN [i \in 1..Rows |-> colour] ELSE [file EXCEPT ![r] = colour]
    /\ UNCHANGED <<conn, producerVars, down, pageVars, losses>>

\* Mutant: what the producer knows outlives the connection.
ConnectResumes ==
    /\ ~conn /\ down = <<>>
    /\ conn' = TRUE
    /\ srv' = (IF init_sent THEN srv ELSE "read")
    /\ UNCHANGED <<file, rows, last, init_sent, down, pageVars, losses>>

\* connect() in the page and handler() in the server.  The page waited two
\* seconds: what it was sent before has arrived.
Connect ==
    /\ ~conn /\ down = <<>>
    /\ conn' = TRUE
    /\ srv' = "read" /\ rows' = <<>> /\ last' = None /\ init_sent' = FALSE
    /\ UNCHANGED <<file, down, pageVars, losses>>

\* The connection breaks, with part of what was sent delivered.  The coroutine
\* ends at its next send, and has no effect any more; the page keeps its canvas
\* and a pending header.
Lose(n) ==
    /\ conn /\ losses < LossMax
    /\ losses' = losses + 1
    /\ conn' = FALSE
    /\ down' = SubSeq(down, 1, n)
    /\ UNCHANGED <<file, producerVars, pageVars>>

\* ---- raw_vram_producer_loop() -------------------------------------------------

\* Mutant: a row more than the region has.
ReadRowTooMany ==
    /\ conn /\ srv = "read" /\ file # None /\ Len(rows) <= Rows
    /\ rows' = Append(rows, file[IF Len(rows) = Rows THEN Rows ELSE Len(rows) + 1])
    /\ UNCHANGED <<file, conn, srv, last, init_sent, down, pageVars, losses>>

\* A row of read_raw_region(); no file, no picture.
ReadRow ==
    /\ conn /\ srv = "read" /\ file # None /\ Len(rows) < Rows
    /\ rows' = Append(rows, file[Len(rows) + 1])
    /\ UNCHANGED <<file, conn, srv, last, init_sent, down, pageVars, losses>>

\* The digests are compared; the same picture is not sent again.
Compare ==
    /\ conn /\ srv = "read" /\ Len(rows) = Rows
    /\ IF rows = last
       THEN rows' = <<>> /\ UNCHANGED srv
       ELSE srv' = (IF init_sent THEN "header" ELSE "init") /\ UNCHANGED rows
    /\ UNCHANGED <<file, conn, last, init_sent, down, pageVars, losses>>

\* ws.send(): waits until the connection has room.  A header comes with the
\* picture it announces.
Send(kind) ==
    /\ conn /\ srv = kind /\ Len(down) < Room
    /\ down' = Append(down, [kind |-> kind, pic |-> rows])

SendInit ==
    /\ Send("init")
    /\ init_sent' = TRUE /\ srv' = "header"
    /\ UNCHANGED <<file, conn, rows, last, pageVars, losses>>

SendHeader ==
    /\ Send("header")
    /\ srv' = "payload"
    /\ UNCHANGED <<file, conn, rows, last, init_sent, pageVars, losses>>

\* Mutant: the digest is taken of the file when the rows have been sent.
SendPayloadDigestLater ==
    /\ Send("payload")
    /\ last' = file /\ rows' = <<>> /\ srv' = "read"
    /\ UNCHANGED <<file, conn, init_sent, pageVars, losses>>

SendPayload ==
    /\ Send("payload")
    /\ last' = rows /\ rows' = <<>> /\ srv' = "read"
    /\ UNCHANGED <<file, conn, init_sent, pageVars, losses>>

Producer == ReadRow \/ Compare \/ SendInit \/ SendHeader \/ SendPayload

\* ---- The page -----------------------------------------------------------------

\* handleInit() clears the canvas; a second header replaces the first, and a
\* payload without a header is dropped.
Receive ==
    /\ down # <<>>
    /\ down' = Tail(down)
    /\ LET msg == Head(down)
           painted == msg.kind = "payload" /\ pendingHeader # None IN
        /\ pendingHeader' = IF msg.kind = "header" THEN msg.pic
                            ELSE IF painted THEN None ELSE pendingHeader
        /\ canvas' = IF painted THEN msg.pic
                     ELSE IF msg.kind = "init" THEN None ELSE canvas
    /\ UNCHANGED <<file, conn, producerVars, losses>>

FbNext ==
    \/ \E r \in 1..Rows, colour \in Colours : Draw(r, colour)
    \/ \E n \in 0..Len(down) : Lose(n)
    \/ Connect \/ Producer \/ Receive

FbSpec == FbInit /\ [][FbNext]_fbVars

\* The coroutine is scheduled, an open page reads, and connects again.
FairFbSpec == FbSpec /\ WF_fbVars(Connect) /\ WF_fbVars(Producer) /\ WF_fbVars(Receive)

-----------------------------------------------------------------------------
\* ---- Properties -----------------------------------------------------------

\* A payload is painted with the header that announced it, also when a header of
\* an earlier connection was left pending (main.js:154-165).
HeaderFitsPayload ==
    down # <<>> /\ Head(down).kind = "payload" => pendingHeader = Head(down).pic

\* A page that stays connected ends up with the last picture of the guest, though
\* rows are read while they are drawn, equal pictures are not sent again, and
\* connections were lost with a header but without its picture.
LastPictureShown ==
    \A p \in Pictures : <>[](file = p /\ conn) => <>[](canvas = p)
=============================================================================
