-------------------------------- MODULE ChatHub --------------------------------
(***************************************************************************)
(* The WebSocket hub of the chat service                                   *)
(* (go_chat_service/websocket/websocket.go).                               *)
(*                                                                         *)
(* One goroutine runs Hub.Run and owns the map from users to connections.  *)
(* Every connection has a goroutine reading it (readPump) and one writing  *)
(* it (writePump).  They meet at the hub's three unbuffered channels, and  *)
(* at each connection's buffered Send channel, which the hub fills, the    *)
(* writer drains and the hub alone closes.                                 *)
(*                                                                         *)
(* A connection is the Client value ServeWs makes; a user who connects     *)
(* again gets another.  A send on an unbuffered channel is one step taken  *)
(* by both sides.  The fan-out loop of a broadcast is one step per map     *)
(* entry, so writers run between its iterations.                           *)
(***************************************************************************)
EXTENDS Naturals, Sequences, FiniteSets

CONSTANTS Users,      \* user ids
          Clients,    \* connections that may be made in a behaviour (a bound)
          UserOf,     \* UserOf[c]: the user_id connection c is opened with
          NoClient,   \* no entry in the hub's map
          SendCap,    \* capacity of Client.Send (256 in the code)
          Kinds,      \* the frame types peers send, of the two the code handles
          MaxFrames   \* bound on the frames read from all connections

ASSUME HubConstants ==
    /\ UserOf \in [Clients -> Users]
    /\ NoClient \notin Clients
    /\ SendCap \in Nat \ {0}
    /\ Kinds \subseteq {"chat_message", "typing"}
    /\ MaxFrames \in Nat

VARIABLES
    clients,   \* Hub.clients: user -> connection, or NoClient
    fanout,    \* users whose entry the loop over a broadcast has yet to visit
    sendq,     \* contents of each connection's Send channel
    closed,    \* close(c.Send) has been called
    reader,    \* where the goroutine that serves and then reads c is
    writer,    \* where writePump is
    draft,     \* the frame readPump is handling, as <<>> or <<f>>
    hand,      \* the frame writePump is writing, as <<>> or <<f>>
    conn,      \* the state of c.Conn
    stored,    \* frames ChatService.SendMessage made a database row of
    panicked,  \* a goroutine panicked, which ends the process
    frames,    \* number of frames read so far
    \* What happened, for the properties:
    log,       \* the frames the hub took from its broadcast channel, in order
    since,     \* since[c]: Len(log) when c was registered
    inbox      \* inbox[c]: frames written to c.Conn

hubVars == <<clients, fanout, closed, panicked, log, since>>
vars == <<clients, fanout, sendq, closed, reader, writer, draft, hand, conn,
          stored, panicked, frames, log, since, inbox>>

--------------------------------------------------------------------------------
(* Types.                                                                  *)

Frame == [from : Clients, kind : Kinds, n : 1..MaxFrames]

AtMostOne(S) == {<<>>} \cup {<<f>> : f \in S}

ReaderState == {"idle", "registering", "reading", "saving", "sending",
                "unregistering", "closing", "done"}

\* The states in which readPump runs and has not yet left the hub.
Serving == {"reading", "saving", "sending", "unregistering"}

TypeOK ==
    /\ clients \in [Users -> Clients \cup {NoClient}]
    /\ fanout \in SUBSET Users
    /\ sendq \in [Clients -> Seq(Frame)]
    /\ \A c \in Clients : Len(sendq[c]) <= SendCap
    /\ closed \in [Clients -> BOOLEAN]
    /\ reader \in [Clients -> ReaderState]
    /\ writer \in [Clients -> {"idle", "select", "writing", "done"}]
    /\ draft \in [Clients -> AtMostOne(Frame)]
    /\ hand \in [Clients -> AtMostOne(Frame)]
    /\ conn \in [Clients -> {"none", "open", "gone", "closed"}]
    /\ stored \in SUBSET Frame
    /\ panicked \in BOOLEAN
    /\ frames \in 0..MaxFrames
    /\ log \in Seq(Frame)
    /\ since \in [Clients -> Nat]
    /\ inbox \in [Clients -> Seq(Frame)]

Init ==
    /\ clients = [u \in Users |-> NoClient]
    /\ fanout = {}
    /\ sendq = [c \in Clients |-> <<>>]
    /\ closed = [c \in Clients |-> FALSE]
    /\ reader = [c \in Clients |-> "idle"]
    /\ writer = [c \in Clients |-> "idle"]
    /\ draft = [c \in Clients |-> <<>>]
    /\ hand = [c \in Clients |-> <<>>]
    /\ conn = [c \in Clients |-> "none"]
    /\ stored = {}
    /\ panicked = FALSE
    /\ frames = 0
    /\ log = <<>>
    /\ since = [c \in Clients |-> 0]
    /\ inbox = [c \in Clients |-> <<>>]

Registered(c) == clients[UserOf[c]] = c

Entries == {u \in Users : clients[u] # NoClient}

--------------------------------------------------------------------------------
(* Wrong variants of the operations below.  No specification uses them; each *)
(* is a slip the code could contain, and breaks the property named with it.  *)

\* Closes without looking the user up (NoPanic).
UnregisterAnyway(c) ==
    /\ ~panicked
    /\ fanout = {}
    /\ reader[c] = "unregistering"
    /\ clients' = [clients EXCEPT ![UserOf[c]] = NoClient]
    /\ closed' = [closed EXCEPT ![c] = TRUE]
    /\ panicked' = closed[c]
    /\ reader' = [reader EXCEPT ![c] = "closing"]
    /\ UNCHANGED <<fanout, sendq, writer, draft, hand, conn, stored, frames,
                   log, since, inbox>>

\* Closes the channel found in the map, whoever it belongs to (ClosedForCause).
UnregisterClosesEntry(c) ==
    /\ ~panicked
    /\ fanout = {}
    /\ reader[c] = "unregistering"
    /\ IF clients[UserOf[c]] # NoClient
         THEN /\ clients' = [clients EXCEPT ![UserOf[c]] = NoClient]
              /\ closed' = [closed EXCEPT ![clients[UserOf[c]]] = TRUE]
         ELSE UNCHANGED <<clients, closed>>
    /\ reader' = [reader EXCEPT ![c] = "closing"]
    /\ UNCHANGED <<fanout, sendq, writer, draft, hand, conn, stored, panicked,
                   frames, log, since, inbox>>

\* Forgets to close the channel (WritersEnd).
UnregisterWithoutClose(c) ==
    /\ ~panicked
    /\ fanout = {}
    /\ reader[c] = "unregistering"
    /\ clients' = [clients EXCEPT ![UserOf[c]] = NoClient]
    /\ reader' = [reader EXCEPT ![c] = "closing"]
    /\ UNCHANGED <<fanout, sendq, closed, writer, draft, hand, conn, stored,
                   panicked, frames, log, since, inbox>>

\* The loop's step when it does room with a frame and full instead of dropping
\* the connection.
OfferWith(u, room, Full(_)) ==
    LET c == clients[u] IN
    /\ ~panicked
    /\ u \in fanout
    /\ fanout' = fanout \ {u}
    /\ panicked' = closed[c]
    /\ IF Len(sendq[c]) < room
         THEN /\ sendq' = [sendq EXCEPT ![c] = Append(@, log[Len(log)])]
              /\ UNCHANGED <<clients, closed>>
         ELSE Full(c)
    /\ UNCHANGED <<reader, writer, draft, hand, conn, stored, frames, log,
                   since, inbox>>

DropClient(c) == /\ closed' = [closed EXCEPT ![c] = TRUE]
                 /\ clients' = [clients EXCEPT ![UserOf[c]] = NoClient]
                 /\ UNCHANGED sendq

\* Capacity off by one, either way (TypeOK; KeptWhileServing).
OfferOneMore(u) == OfferWith(u, SendCap + 1, DropClient)
OfferOneLess(u) == OfferWith(u, SendCap - 1, DropClient)

\* Closes the channel and leaves the entry in the map (RegisteredOpen,
\* PanicsOnlyOnLateLeave).
CloseOnly(c) == /\ closed' = [closed EXCEPT ![c] = TRUE]
                /\ UNCHANGED <<clients, sendq>>
OfferKeepsEntry(u) == OfferWith(u, SendCap, CloseOnly)

\* Makes room by dropping the oldest buffered frame (StreamIsWindow).
DropOldest(c) == /\ sendq' = [sendq EXCEPT
                                ![c] = Append(Tail(@), log[Len(log)])]
                 /\ UNCHANGED <<clients, closed>>
OfferDropsOldest(u) == OfferWith(u, SendCap, DropOldest)

\* Skips the frame and keeps the connection (ImplementsLog).
Skip(c) == UNCHANGED <<clients, closed, sendq>>
OfferSkips(u) == OfferWith(u, SendCap, Skip)

\* Waits until the writer can take the frame (HubServes).
Wait(c) == FALSE
OfferWaits(u) ==
    /\ u \in fanout
    /\ hand[clients[u]] = <<>>
    /\ OfferWith(u, SendCap, Wait)

\* Broadcasts a chat message it failed to save (StoredBeforeBroadcast).
SaveFailureIgnored(c) ==
    /\ ~panicked
    /\ reader[c] = "saving"
    /\ reader' = [reader EXCEPT ![c] = "sending"]
    /\ UNCHANGED <<hubVars, sendq, writer, draft, hand, conn, stored, frames,
                   inbox>>

\* writePump returns after one frame (Heard).
WriteOneFrame(c) ==
    /\ ~panicked
    /\ writer[c] = "writing"
    /\ conn[c] \in {"open", "gone"}
    /\ inbox' = [inbox EXCEPT ![c] = Append(@, hand[c][1])]
    /\ hand' = [hand EXCEPT ![c] = <<>>]
    /\ writer' = [writer EXCEPT ![c] = "done"]
    /\ UNCHANGED <<hubVars, sendq, reader, draft, conn, stored, frames>>

--------------------------------------------------------------------------------
(* The hub.  Its select is at rest between broadcasts: fanout = {}.        *)

\* case client := <-h.register.  An entry of the same user is overwritten;
\* nothing tells the connection it belonged to.  ServeWs then starts the two
\* goroutines.
HubRegister(c) ==
    /\ ~panicked
    /\ fanout = {}
    /\ reader[c] = "registering"
    /\ clients' = [clients EXCEPT ![UserOf[c]] = c]
    /\ since' = [since EXCEPT ![c] = Len(log)]
    /\ reader' = [reader EXCEPT ![c] = "reading"]
    /\ writer' = [writer EXCEPT ![c] = "select"]
    /\ UNCHANGED <<fanout, sendq, closed, draft, hand, conn, stored, panicked,
                   frames, log, inbox>>

\* case client := <-h.unregister.  The entry is looked up by user, so it need
\* not be the leaving connection's; the leaving connection's channel is closed.
\* Closing it a second time panics.
HubUnregister(c) ==
    /\ ~panicked
    /\ fanout = {}
    /\ reader[c] = "unregistering"
    /\ IF clients[UserOf[c]] # NoClient
         THEN /\ clients' = [clients EXCEPT ![UserOf[c]] = NoClient]
              /\ closed' = [closed EXCEPT ![c] = TRUE]
              /\ panicked' = closed[c]
         ELSE UNCHANGED <<clients, closed, panicked>>
    /\ reader' = [reader EXCEPT ![c] = "closing"]
    /\ UNCHANGED <<fanout, sendq, writer, draft, hand, conn, stored, frames,
                   log, since, inbox>>

\* case message := <-h.broadcast, from connection c's reader.
HubTake(c) ==
    /\ ~panicked
    /\ fanout = {}
    /\ reader[c] = "sending"
    /\ log' = Append(log, draft[c][1])
    /\ fanout' = Entries
    /\ reader' = [reader EXCEPT ![c] = "reading"]
    /\ draft' = [draft EXCEPT ![c] = <<>>]
    /\ UNCHANGED <<clients, sendq, closed, writer, hand, conn, stored,
                   panicked, frames, since, inbox>>

\* One iteration of the loop over h.clients: a send that does not wait, and
\* when the channel is full, close and delete.  Either panics when the channel
\* is closed already.
HubOffer(u) ==
    LET c == clients[u] IN
    /\ ~panicked
    /\ u \in fanout
    /\ fanout' = fanout \ {u}
    /\ panicked' = closed[c]
    /\ IF Len(sendq[c]) < SendCap
         THEN /\ sendq' = [sendq EXCEPT ![c] = Append(@, log[Len(log)])]
              /\ UNCHANGED <<clients, closed>>
         ELSE /\ closed' = [closed EXCEPT ![c] = TRUE]
              /\ clients' = [clients EXCEPT ![u] = NoClient]
              /\ UNCHANGED sendq
    /\ UNCHANGED <<reader, writer, draft, hand, conn, stored, frames, log,
                   since, inbox>>

--------------------------------------------------------------------------------
(* ServeWs and readPump.                                                   *)

\* ServeWs up to the send on h.register: a request with a valid user_id is
\* upgraded and a Client made.  A request without one changes nothing.
ServeWs(c) ==
    /\ ~panicked
    /\ reader[c] = "idle"
    /\ reader' = [reader EXCEPT ![c] = "registering"]
    /\ conn' = [conn EXCEPT ![c] = "open"]
    /\ UNCHANGED <<hubVars, sendq, writer, draft, hand, stored, frames, inbox>>

\* ReadMessage returns a frame: a typing frame is passed on as it is, a chat
\* message is saved first.  Frames that do not parse or have another type are
\* dropped, which changes nothing.  A peer that has left may have sent frames
\* before, and one that is read already is there after the connection is closed.
ReadFrame(c, k) ==
    /\ ~panicked
    /\ reader[c] = "reading"
    /\ frames < MaxFrames
    /\ frames' = frames + 1
    /\ draft' = [draft EXCEPT ![c] = <<[from |-> c, kind |-> k,
                                        n |-> frames + 1]>>]
    /\ reader' = [reader EXCEPT
                    ![c] = IF k = "chat_message" THEN "saving" ELSE "sending"]
    /\ UNCHANGED <<hubVars, sendq, writer, hand, conn, stored, inbox>>

\* ChatService.SendMessage succeeds.  (What it does to the database and to
\* Redis is the subject of module MessageStore.)
SaveMessage(c) ==
    /\ ~panicked
    /\ reader[c] = "saving"
    /\ stored' = stored \cup {draft[c][1]}
    /\ reader' = [reader EXCEPT ![c] = "sending"]
    /\ UNCHANGED <<hubVars, sendq, writer, draft, hand, conn, frames, inbox>>

\* It fails, before or after the row was made; the frame is dropped.
SaveFails(c) ==
    /\ ~panicked
    /\ reader[c] = "saving"
    /\ \E row \in {{}, {draft[c][1]}} : stored' = stored \cup row
    /\ draft' = [draft EXCEPT ![c] = <<>>]
    /\ reader' = [reader EXCEPT ![c] = "reading"]
    /\ UNCHANGED <<hubVars, sendq, writer, hand, conn, frames, inbox>>

\* ReadMessage fails and the deferred function sends on h.unregister.
ReadError(c) ==
    /\ ~panicked
    /\ reader[c] = "reading"
    /\ conn[c] \in {"gone", "closed"}
    /\ reader' = [reader EXCEPT ![c] = "unregistering"]
    /\ UNCHANGED <<hubVars, sendq, writer, draft, hand, conn, stored, frames,
                   inbox>>

\* ... and then closes the connection.
ReaderCloses(c) ==
    /\ ~panicked
    /\ reader[c] = "closing"
    /\ reader' = [reader EXCEPT ![c] = "done"]
    /\ conn' = [conn EXCEPT ![c] = "closed"]
    /\ UNCHANGED <<hubVars, sendq, writer, draft, hand, stored, frames, inbox>>

--------------------------------------------------------------------------------
(* writePump.                                                              *)

\* A closed channel still yields what it holds.
WriterTake(c) ==
    /\ ~panicked
    /\ writer[c] = "select"
    /\ sendq[c] # <<>>
    /\ hand' = [hand EXCEPT ![c] = <<Head(sendq[c])>>]
    /\ sendq' = [sendq EXCEPT ![c] = Tail(@)]
    /\ writer' = [writer EXCEPT ![c] = "writing"]
    /\ UNCHANGED <<hubVars, reader, draft, conn, stored, frames, inbox>>

\* Bytes for a peer that has left may still be accepted by the socket.
WriteFrame(c) ==
    /\ ~panicked
    /\ writer[c] = "writing"
    /\ conn[c] \in {"open", "gone"}
    /\ inbox' = [inbox EXCEPT ![c] = Append(@, hand[c][1])]
    /\ hand' = [hand EXCEPT ![c] = <<>>]
    /\ writer' = [writer EXCEPT ![c] = "select"]
    /\ UNCHANGED <<hubVars, sendq, reader, draft, conn, stored, frames>>

WriteError(c) ==
    /\ ~panicked
    /\ writer[c] = "writing"
    /\ conn[c] \in {"gone", "closed"}
    /\ writer' = [writer EXCEPT ![c] = "done"]
    /\ conn' = [conn EXCEPT ![c] = "closed"]
    /\ UNCHANGED <<hubVars, sendq, reader, draft, hand, stored, frames, inbox>>

\* The channel is closed and empty: a close frame, then Conn.Close.
WriterSeesClose(c) ==
    /\ ~panicked
    /\ writer[c] = "select"
    /\ sendq[c] = <<>> /\ closed[c]
    /\ writer' = [writer EXCEPT ![c] = "done"]
    /\ conn' = [conn EXCEPT ![c] = "closed"]
    /\ UNCHANGED <<hubVars, sendq, reader, draft, hand, stored, frames, inbox>>

--------------------------------------------------------------------------------
\* The peer closes the connection or the network loses it, noticed from now on.
PeerLeaves(c) ==
    /\ ~panicked
    /\ conn[c] = "open"
    /\ conn' = [conn EXCEPT ![c] = "gone"]
    /\ UNCHANGED <<hubVars, sendq, reader, writer, draft, hand, stored, frames,
                   inbox>>

Hub == \/ \E c \in Clients : HubRegister(c) \/ HubUnregister(c) \/ HubTake(c)
       \/ \E u \in Users : HubOffer(u)

Reader(c) == \/ ServeWs(c)
             \/ \E k \in Kinds : ReadFrame(c, k)
             \/ SaveMessage(c) \/ SaveFails(c)
             \/ ReadError(c) \/ ReaderCloses(c)

Writer(c) == WriterTake(c) \/ WriteFrame(c) \/ WriteError(c)
             \/ WriterSeesClose(c)

Next == \/ Hub
        \/ \E c \in Clients : Reader(c) \/ Writer(c) \/ PeerLeaves(c)

Spec == Init /\ [][Next]_vars

(***************************************************************************)
(* Fairness is the Go scheduler's: a goroutine that can run does.  The     *)
(* hub's select picks at random among ready channels and a channel serves  *)
(* its waiting senders in turn, so a sender that is ready again and again  *)
(* is served (strong fairness: the hub is away at every broadcast).        *)
(* Nothing is assumed of the peers: they need not connect, send, leave, or *)
(* read, so a write to an open connection may take for ever.               *)
(***************************************************************************)
Fairness ==
    /\ \A u \in Users : WF_vars(HubOffer(u))
    /\ \A c \in Clients :
         /\ SF_vars(HubRegister(c))
         /\ SF_vars(HubUnregister(c))
         /\ SF_vars(HubTake(c))
         /\ WF_vars(SaveMessage(c) \/ SaveFails(c))
         /\ WF_vars(ReadError(c))
         /\ WF_vars(ReaderCloses(c))
         /\ WF_vars(WriterTake(c))
         /\ WF_vars(WriteError(c))
         /\ WF_vars(WriterSeesClose(c))

FairSpec == Spec /\ Fairness

--------------------------------------------------------------------------------
(* Properties.                                                             *)

\* A connection in the hub's map belongs to the user it is filed under, has
\* joined the hub and not left it, and its channel is open.  Fan-out sends and
\* closes without looking, and channels are closed in two places, one of which
\* finds the entry by user and not by connection: it must still never leave a
\* closed channel behind in the map, nor delete an entry the loop has yet to
\* visit.
RegisteredOpen ==
    /\ \A u \in Entries : LET c == clients[u] IN
         /\ UserOf[c] = u
         /\ reader[c] \in Serving
         /\ ~closed[c]
    /\ fanout \subseteq Entries

\* q is the run of l after its first k frames.
RunAt(k, q, l) == \A i \in 1..Len(q) : q[i] = l[k + i]

\* How far into the log connection c is: the frames written to it end at
\* Written(c), the one being written at Taken(c), the buffered ones at UpTo(c).
Written(c) == since[c] + Len(inbox[c])
Taken(c)   == Written(c) + Len(hand[c])
UpTo(c)    == Taken(c) + Len(sendq[c])

\* The stream of c is a window of the log, which ends at its end while c is
\* registered: but for a frame that is still being fanned out.
Window(c) ==
    /\ UpTo(c) <= Len(log)
    /\ RunAt(since[c], inbox[c], log)
    /\ RunAt(Written(c), hand[c], log)
    /\ RunAt(Taken(c), sendq[c], log)
    /\ Registered(c) =>
         Len(log) = UpTo(c) + (IF UserOf[c] \in fanout THEN 1 ELSE 0)

\* Written frames, the frame being written and the buffered frames are, in this
\* order, the frames the hub took since c was registered: none lost, doubled or
\* out of order across the three goroutines that pass them on.  A registered
\* connection lacks none but the one still being fanned out.
StreamIsWindow == \A c \in Clients : Window(c)

\* Nobody is shown a chat message the database does not hold.
StoredBeforeBroadcast ==
    \A i \in DOMAIN log : log[i].kind = "chat_message" => log[i] \in stored

\* Only a connection that is leaving or cannot keep up has its channel closed:
\* never one that belongs to somebody else's unregister.
ClosedForCause ==
    [][\A c \in Clients :
         closed'[c] /\ ~closed[c] =>
             reader[c] = "unregistering" \/ Len(sendq[c]) = SendCap]_vars

\* How a connection appears in BroadcastLog: it is live while registered.
Status == [c \in Clients |->
             IF reader[c] \in {"idle", "registering"} THEN "new"
             ELSE IF Registered(c) THEN "live" ELSE "left"]

Log == INSTANCE BroadcastLog WITH
         Subscribers <- Clients,
         Frames <- Frame,
         status <- Status,
         from <- since,
         upTo <- [c \in Clients |-> UpTo(c)]

\* The hub, its channels and its goroutines implement the one-order broadcast
\* of BroadcastLog: no frame is taken before the last one was offered to every
\* registered connection, and what is written is a run of that order.
ImplementsLog == Log!Spec

\* The hub goroutine never waits for a connection, so whoever waits for the
\* hub gets through, however slowly the peers read.
HubServes ==
    \A c \in Clients :
        []<>(panicked \/ reader[c] \notin
                             {"registering", "sending", "unregistering"})

\* The process survives: no channel is closed or sent to once it is closed.
NoPanic == ~panicked

\* A connection stays in the map until it leaves or cannot keep up.
KeptWhileServing ==
    [][\A c \in Clients :
         Registered(c) /\ ~Registered(c)' =>
             reader[c] = "unregistering" \/ Len(sendq[c]) = SendCap]_vars

\* No goroutine leaks: once the reader of a connection has ended, so does its
\* writer.
WritersEnd ==
    \A c \in Clients : reader[c] = "done" ~> (writer[c] = "done" \/ panicked)

\* A registered connection whose peer reads what it is sent catches up with the
\* hub's log again and again, however slow the other peers are.
Heard ==
    \A c \in Clients : WF_vars(WriteFrame(c)) =>
        []<>(\/ Written(c) = Len(log)
             \/ ~Registered(c) \/ conn[c] # "open" \/ panicked)

\* What is about a connection whose user has no other.
Sole(c) == \A d \in Clients : UserOf[d] = UserOf[c] => d = c

\* Such a connection is kept while it is served, whatever the others do.
SoleKept ==
    [][\A c \in Clients : Sole(c) =>
         (Registered(c) /\ ~Registered(c)' =>
             reader[c] = "unregistering" \/ Len(sendq[c]) = SendCap)]_vars

\* Nor is its writer left waiting: as long as it is served it is in the map or
\* its channel is closed, and once its reader has left the hub it is closed.
SoleLetGo ==
    \A c \in Clients : Sole(c) =>
        /\ reader[c] \in Serving => Registered(c) \/ closed[c]
        /\ reader[c] \in {"closing", "done"} => closed[c]

\* The one way the process ends by a panic, with any number of connections per
\* user: a connection leaves whose channel was closed when it could not keep
\* up, while its user has another in the map.  Fan-out, the other place that
\* sends to channels and closes them, never panics.
PanicsOnlyOnLateLeave ==
    [][~panicked /\ panicked' =>
         \E c \in Clients : /\ reader[c] = "unregistering" /\ closed[c]
                            /\ clients[UserOf[c]] \notin {c, NoClient}]_vars

\* Of one connection's frames, the later is later in q, and none is there twice.
InOrder(q) ==
    \A i, j \in DOMAIN q : i < j /\ q[i].from = q[j].from => q[i].n < q[j].n

\* Through reader, hub, channel and writer, each receiver is shown what a
\* sender sent in the order it was sent, and nothing twice.
SenderOrder == InOrder(log) /\ \A c \in Clients : InOrder(inbox[c])

\* What a receiver is shown as a chat message is in the database.
ShownIsStored ==
    \A c \in Clients : \A i \in DOMAIN inbox[c] :
        inbox[c][i].kind = "chat_message" => inbox[c][i] \in stored
================================================================================
