---------------------------- MODULE ChatHubProofs ----------------------------
(***************************************************************************)
(* Proofs about ChatHub for any users, connections, frame types, channel   *)
(* capacity and number of frames.                                          *)
(***************************************************************************)
EXTENDS ChatHub, TLAPS

(* What the local states of a connection's two goroutines say of the frames *)
(* they hold, and that a frame being fanned out is the last of the log.     *)
LocalOK ==
    /\ fanout # {} => Len(log) > 0
    /\ \A c \in Clients :
        /\ reader[c] \in {"saving", "sending"} => draft[c] # <<>>
        /\ writer[c] = "writing" => hand[c] # <<>>
        /\ writer[c] \in {"idle", "select"} => hand[c] = <<>>
        /\ reader[c] \in {"idle", "registering"} =>
             /\ writer[c] = "idle" /\ ~closed[c] /\ since[c] = 0
             /\ inbox[c] = <<>> /\ sendq[c] = <<>>

\* The one element of a sequence of at most one.
LEMMA OnlyElement ==
    ASSUME NEW S, NEW q \in AtMostOne(S), q # <<>>
    PROVE  q[1] \in S /\ q = <<q[1]>> /\ Len(q) = 1
  BY DEF AtMostOne

LEMMA HubRegisterType ==
    ASSUME TypeOK, LocalOK, NEW c \in Clients, HubRegister(c)
    PROVE  TypeOK' /\ LocalOK'
<1>1. Len(log) \in Nat
  BY DEF TypeOK
<1>2. TypeOK'
  BY <1>1, HubConstants DEF HubRegister, TypeOK, ReaderState
<1>3. LocalOK'
  BY DEF HubRegister, TypeOK, LocalOK, ReaderState
<1> QED
  BY <1>2, <1>3

LEMMA HubUnregisterType ==
    ASSUME TypeOK, LocalOK, NEW c \in Clients, HubUnregister(c)
    PROVE  TypeOK' /\ LocalOK'
<1>1. TypeOK'
  BY HubConstants DEF HubUnregister, TypeOK, ReaderState
<1>2. LocalOK'
  BY DEF HubUnregister, TypeOK, LocalOK, ReaderState
<1> QED
  BY <1>1, <1>2

LEMMA HubTakeType ==
    ASSUME TypeOK, LocalOK, NEW c \in Clients, HubTake(c)
    PROVE  TypeOK' /\ LocalOK'
<1>1. draft[c][1] \in Frame
  BY OnlyElement DEF TypeOK, LocalOK, HubTake
<1>2. log' \in Seq(Frame)
  BY <1>1 DEF HubTake, TypeOK
<1>3. draft' \in [Clients -> AtMostOne(Frame)]
  BY DEF HubTake, TypeOK, AtMostOne
<1>4. fanout' \in SUBSET Users
  BY DEF HubTake, Entries
<1>5. Len(log') > 0
  BY <1>1 DEF HubTake, TypeOK
<1>6. TypeOK'
  BY <1>2, <1>3, <1>4 DEF HubTake, TypeOK, ReaderState
<1>7. LocalOK'
  BY <1>5 DEF HubTake, TypeOK, LocalOK, ReaderState
<1> QED
  BY <1>6, <1>7

LEMMA ReaderType ==
    ASSUME TypeOK, LocalOK, NEW c \in Clients, Reader(c)
    PROVE  TypeOK' /\ LocalOK'
<1> USE DEF TypeOK, LocalOK, ReaderState, hubVars
<1>1. CASE ServeWs(c)
  BY <1>1 DEF ServeWs
<1>2. ASSUME NEW k \in Kinds, ReadFrame(c, k)
      PROVE  TypeOK' /\ LocalOK'
  <2>1. frames + 1 \in 1..MaxFrames /\ frames' \in 0..MaxFrames
    BY <1>2, HubConstants DEF ReadFrame
  <2>2. [from |-> c, kind |-> k, n |-> frames + 1] \in Frame
    BY <2>1 DEF Frame
  <2>3. /\ draft' \in [Clients -> AtMostOne(Frame)]
        /\ draft'[c] # <<>>
        /\ \A d \in Clients \ {c} : draft'[d] = draft[d]
    BY <1>2, <2>2 DEF ReadFrame, AtMostOne
  <2> QED
    BY <1>2, <2>1, <2>3 DEF ReadFrame
<1>3. CASE SaveMessage(c)
  <2>1. draft[c][1] \in Frame
    BY <1>3, OnlyElement DEF SaveMessage
  <2> QED
    BY <1>3, <2>1 DEF SaveMessage
<1>4. CASE SaveFails(c)
  <2>1. draft[c][1] \in Frame
    BY <1>4, OnlyElement DEF SaveFails
  <2>2. stored' \in SUBSET Frame
    BY <1>4, <2>1 DEF SaveFails
  <2>3. draft' \in [Clients -> AtMostOne(Frame)]
    BY <1>4 DEF SaveFails, AtMostOne
  <2> QED
    BY <1>4, <2>2, <2>3 DEF SaveFails
<1>5. CASE ReadError(c)
  BY <1>5 DEF ReadError
<1>6. CASE ReaderCloses(c)
  BY <1>6 DEF ReaderCloses
<1> QED
  BY <1>1, <1>2, <1>3, <1>4, <1>5, <1>6 DEF Reader

LEMMA WriterType ==
    ASSUME TypeOK, LocalOK, NEW c \in Clients, Writer(c)
    PROVE  TypeOK' /\ LocalOK'
<1> USE DEF TypeOK, LocalOK, ReaderState, hubVars
<1>1. CASE WriterTake(c)
  <2>1. /\ Head(sendq[c]) \in Frame
        /\ Tail(sendq[c]) \in Seq(Frame)
        /\ Len(Tail(sendq[c])) <= SendCap
    BY <1>1, HubConstants DEF WriterTake
  <2>2. /\ hand' \in [Clients -> AtMostOne(Frame)]
        /\ hand'[c] # <<>>
        /\ \A d \in Clients \ {c} : hand'[d] = hand[d]
    BY <1>1, <2>1 DEF WriterTake, AtMostOne
  <2> QED
    BY <1>1, <2>1, <2>2 DEF WriterTake
<1>2. CASE WriteFrame(c)
  <2>1. hand[c][1] \in Frame
    BY <1>2, OnlyElement DEF WriteFrame
  <2>2. /\ hand' \in [Clients -> AtMostOne(Frame)]
        /\ hand'[c] = <<>>
        /\ \A d \in Clients \ {c} : hand'[d] = hand[d]
    BY <1>2 DEF WriteFrame, AtMostOne
  <2>3. inbox' \in [Clients -> Seq(Frame)]
    BY <1>2, <2>1 DEF WriteFrame
  <2> QED
    BY <1>2, <2>2, <2>3 DEF WriteFrame
<1>3. CASE WriteError(c)
  BY <1>3 DEF WriteError
<1>4. CASE WriterSeesClose(c)
  BY <1>4 DEF WriterSeesClose
<1> QED
  BY <1>1, <1>2, <1>3, <1>4 DEF Writer

LEMMA HubOfferType ==
    ASSUME TypeOK, LocalOK, RegisteredOpen, NEW u \in Users, HubOffer(u)
    PROVE  TypeOK' /\ LocalOK'
<1> DEFINE c == clients[u]
<1>1. c \in Clients /\ reader[c] \in Serving
  BY HubConstants DEF HubOffer, RegisteredOpen, Entries, TypeOK
<1>2. Len(log) > 0 /\ log[Len(log)] \in Frame
  BY DEF TypeOK, LocalOK, HubOffer
<1>3. CASE Len(sendq[c]) < SendCap
  <2>1. sendq' = [sendq EXCEPT ![c] = Append(@, log[Len(log)])]
        /\ UNCHANGED <<clients, closed>> /\ panicked' = closed[c]
    BY <1>3 DEF HubOffer
  <2>2. /\ sendq' \in [Clients -> Seq(Frame)]
        /\ \A d \in Clients : Len(sendq'[d]) <= SendCap
    BY <2>1, <1>1, <1>2, <1>3, HubConstants DEF TypeOK
  <2>3. \A d \in Clients : d # c => sendq'[d] = sendq[d]
    BY <2>1 DEF TypeOK
  <2> HIDE DEF c
  <2> QED
    BY <1>1, <2>1, <2>2, <2>3 DEF HubOffer, TypeOK, LocalOK, Serving
<1>4. CASE ~(Len(sendq[c]) < SendCap)
  BY <1>1, <1>4 DEF HubOffer, TypeOK, LocalOK, Serving
<1> QED
  BY <1>3, <1>4

LEMMA TypeStep ==
    ASSUME TypeOK, LocalOK, RegisteredOpen, [Next]_vars
    PROVE  TypeOK' /\ LocalOK'
<1>1. ASSUME NEW c \in Clients, PeerLeaves(c)
      PROVE  TypeOK' /\ LocalOK'
  BY <1>1 DEF PeerLeaves, TypeOK, LocalOK, hubVars
<1>2. CASE UNCHANGED vars
  BY <1>2 DEF vars, TypeOK, LocalOK
<1> QED
  BY <1>1, <1>2, HubRegisterType, HubUnregisterType, HubTakeType, HubOfferType,
     ReaderType, WriterType DEF Next, Hub

LEMMA InitOK == Init => TypeOK /\ LocalOK /\ RegisteredOpen
<1> SUFFICES ASSUME Init PROVE TypeOK /\ LocalOK /\ RegisteredOpen
  OBVIOUS
<1>1. TypeOK
  <2> DEFINE none == [c \in Clients |-> <<>>]
  <2>1. none \in [Clients -> Seq(Frame)]
    OBVIOUS
  <2>2. none \in [Clients -> AtMostOne(Frame)]
    BY DEF AtMostOne
  <2>3. \A c \in Clients : Len(none[c]) <= SendCap
    BY HubConstants
  <2>4. sendq = none /\ draft = none /\ hand = none /\ inbox = none
    BY DEF Init
  <2>5. /\ clients \in [Users -> Clients \cup {NoClient}]
        /\ reader \in [Clients -> ReaderState]
        /\ writer \in [Clients -> {"idle", "select", "writing", "done"}]
        /\ closed \in [Clients -> BOOLEAN]
        /\ conn \in [Clients -> {"none", "open", "gone", "closed"}]
        /\ since \in [Clients -> Nat]
    BY DEF Init, ReaderState
  <2>6. /\ fanout = {} /\ stored = {} /\ log = <<>>
        /\ panicked = FALSE /\ frames = 0
    BY DEF Init
  <2>7. fanout \in SUBSET Users /\ stored \in SUBSET Frame
    BY <2>6
  <2>8. panicked \in BOOLEAN
    BY <2>6
  <2>9. log \in Seq(Frame) /\ frames \in 0..MaxFrames
    BY <2>6, HubConstants
  <2> HIDE DEF none
  <2> QED
    BY <2>1, <2>2, <2>3, <2>4, <2>5, <2>7, <2>8, <2>9
       DEF TypeOK
<1>2. LocalOK
  BY DEF Init, LocalOK
<1>3. RegisteredOpen
  BY DEF Init, RegisteredOpen, Entries
<1> QED
  BY <1>1, <1>2, <1>3

(***************************************************************************)
(* Every connection in the hub's map is filed under its user, is served by *)
(* a reader that has not left the hub, and is open; whoever the fan-out    *)
(* has yet to visit is in the map.  Given the types, this is inductive.    *)
(***************************************************************************)
LEMMA RegisteredOpenStep ==
    ASSUME TypeOK, LocalOK, RegisteredOpen, [Next]_vars
    PROVE  RegisteredOpen'
<1> DEFINE EntryOK(u) == clients[u] # NoClient =>
                           /\ UserOf[clients[u]] = u
                           /\ reader[clients[u]] \in Serving
                           /\ ~closed[clients[u]]
<1>a. /\ \A u \in Users : EntryOK(u)
      /\ \A u \in fanout : clients[u] # NoClient
  BY DEF RegisteredOpen, Entries
<1>b. SUFFICES /\ \A u \in Users : EntryOK(u)'
               /\ \A u \in fanout' : clients'[u] # NoClient
  BY TypeStep DEF RegisteredOpen, Entries, TypeOK
<1>c. /\ clients \in [Users -> Clients \cup {NoClient}]
      /\ reader \in [Clients -> ReaderState]
      /\ closed \in [Clients -> BOOLEAN]
      /\ fanout \subseteq Users
  BY DEF TypeOK
<1> USE <1>c, HubConstants
<1>1. ASSUME NEW c \in Clients, HubRegister(c)
      PROVE  /\ \A u \in Users : EntryOK(u)'
             /\ \A u \in fanout' : clients'[u] # NoClient
  BY <1>1, <1>a DEF HubRegister, LocalOK, Serving
<1>2. ASSUME NEW c \in Clients, HubUnregister(c)
      PROVE  /\ \A u \in Users : EntryOK(u)'
             /\ \A u \in fanout' : clients'[u] # NoClient
  BY <1>2, <1>a DEF HubUnregister, Serving
<1>3. ASSUME NEW c \in Clients, HubTake(c)
      PROVE  /\ \A u \in Users : EntryOK(u)'
             /\ \A u \in fanout' : clients'[u] # NoClient
  BY <1>3, <1>a DEF HubTake, Entries, Serving
<1>4. ASSUME NEW v \in Users, HubOffer(v)
      PROVE  /\ \A u \in Users : EntryOK(u)'
             /\ \A u \in fanout' : clients'[u] # NoClient
  BY <1>4, <1>a DEF HubOffer, Serving
<1>5. ASSUME NEW c \in Clients, Reader(c)
      PROVE  /\ \A u \in Users : EntryOK(u)'
             /\ \A u \in fanout' : clients'[u] # NoClient
  BY <1>5, <1>a DEF Reader, ServeWs, ReadFrame, SaveMessage,
              SaveFails, ReadError, ReaderCloses, hubVars, Serving
<1>6. ASSUME NEW c \in Clients, Writer(c) \/ PeerLeaves(c)
      PROVE  /\ \A u \in Users : EntryOK(u)'
             /\ \A u \in fanout' : clients'[u] # NoClient
  BY <1>6, <1>a DEF Writer, WriterTake, WriteFrame, WriteError,
              WriterSeesClose, PeerLeaves, hubVars
<1>7. CASE UNCHANGED vars
  BY <1>7, <1>a DEF vars
<1> QED
  BY <1>1, <1>2, <1>3, <1>4, <1>5, <1>6, <1>7 DEF Next, Hub

\* The three together are inductive.
LEMMA HubInvariant == Spec => [](TypeOK /\ LocalOK /\ RegisteredOpen)
<1>1. TypeOK /\ LocalOK /\ RegisteredOpen /\ [Next]_vars
        => TypeOK' /\ LocalOK' /\ RegisteredOpen'
  BY TypeStep, RegisteredOpenStep
<1> QED
  BY <1>1, InitOK, PTL DEF Spec

\* Every variable keeps its type; a Send channel never exceeds its capacity.
THEOREM TypeCorrect == Spec => []TypeOK
  BY HubInvariant, PTL

\* However many connections a user opens, the hub's map never holds a closed
\* channel, a connection that has left, or one filed under another user.
THEOREM RegisteredStaysOpen == Spec => []RegisteredOpen
  BY HubInvariant, PTL

(***************************************************************************)
(* The stream of every connection is a window of the log.                  *)
(***************************************************************************)
\* A run of a log is a run of the log with frames added.
LEMMA RunOfLonger ==
    ASSUME NEW S, NEW q \in Seq(S), NEW l \in Seq(S), NEW x \in S,
           NEW k \in Nat, k + Len(q) <= Len(l), RunAt(k, q, l)
    PROVE  RunAt(k, q, Append(l, x))
<1> SUFFICES ASSUME NEW i \in 1..Len(q) PROVE q[i] = Append(l, x)[k + i]
  BY DEF RunAt
<1>1. k + i \in 1..Len(l)
  OBVIOUS
<1>2. Append(l, x)[k + i] = l[k + i]
  BY <1>1
<1> QED
  BY <1>2 DEF RunAt

\* A run grows by the frame of the log that comes next.
LEMMA RunGrows ==
    ASSUME NEW S, NEW q \in Seq(S), NEW l \in Seq(S), NEW k \in Nat,
           k + Len(q) < Len(l), RunAt(k, q, l)
    PROVE  RunAt(k, Append(q, l[k + Len(q) + 1]), l)
<1>1. k + Len(q) + 1 \in 1..Len(l)
  OBVIOUS
<1>2. l[k + Len(q) + 1] \in S
  BY <1>1
<1> DEFINE r == Append(q, l[k + Len(q) + 1])
<1>3. Len(r) = Len(q) + 1 /\ r[Len(q) + 1] = l[k + Len(q) + 1]
  BY <1>2
<1>4. \A i \in 1..Len(q) : r[i] = q[i]
  BY <1>2
<1> HIDE DEF r
<1>5. \A i \in 1..Len(r) : r[i] = l[k + i]
  BY <1>3, <1>4 DEF RunAt
<1> QED
  BY <1>5 DEF RunAt, r

\* A run splits into its first frame and the rest.
LEMMA RunSplits ==
    ASSUME NEW S, NEW q \in Seq(S), q # <<>>, NEW l, NEW k \in Nat,
           RunAt(k, q, l)
    PROVE  /\ RunAt(k, <<Head(q)>>, l)
           /\ RunAt(k + 1, Tail(q), l)
           /\ Len(Tail(q)) = Len(q) - 1
<1>1. Len(q) \in Nat /\ Len(q) > 0 /\ Head(q) = q[1]
  OBVIOUS
<1>2. q[1] = l[k + 1]
  BY <1>1 DEF RunAt
<1>3. /\ Len(Tail(q)) = Len(q) - 1
      /\ \A i \in 1..Len(q) - 1 : Tail(q)[i] = q[i + 1]
  OBVIOUS
<1>4. \A i \in 1..Len(q) - 1 : q[i + 1] = l[k + 1 + i]
  <2> SUFFICES ASSUME NEW i \in 1..Len(q) - 1
               PROVE  q[i + 1] = l[k + 1 + i]
    OBVIOUS
  <2>1. i + 1 \in 1..Len(q) /\ k + (i + 1) = k + 1 + i
    BY <1>1
  <2> QED
    BY <2>1 DEF RunAt
<1> QED
  BY <1>1, <1>2, <1>3, <1>4 DEF RunAt

LEMMA StreamTypes ==
    ASSUME TypeOK, NEW c \in Clients
    PROVE  /\ since[c] \in Nat /\ log \in Seq(Frame) /\ Len(log) \in Nat
           /\ inbox[c] \in Seq(Frame) /\ Len(inbox[c]) \in Nat
           /\ sendq[c] \in Seq(Frame) /\ Len(sendq[c]) \in Nat
           /\ hand[c] \in Seq(Frame) /\ Len(hand[c]) \in Nat
<1>1. hand[c] \in AtMostOne(Frame)
  BY DEF TypeOK
<1>2. CASE hand[c] = <<>>
  BY <1>2 DEF TypeOK
<1>3. CASE hand[c] # <<>>
  <2>1. hand[c] = <<hand[c][1]>> /\ hand[c][1] \in Frame
    BY <1>1, <1>3, OnlyElement
  <2>2. hand[c] \in Seq(Frame)
    BY <2>1
  <2> QED
    BY <2>2 DEF TypeOK
<1> QED
  BY <1>2, <1>3

LEMMA Positions ==
    ASSUME TypeOK, NEW c \in Clients
    PROVE  /\ Written(c) \in Nat /\ Taken(c) \in Nat /\ UpTo(c) \in Nat
           /\ since[c] + Len(inbox[c]) = Written(c)
           /\ Written(c) + Len(hand[c]) = Taken(c)
           /\ Taken(c) + Len(sendq[c]) = UpTo(c)
           /\ Written(c) <= Taken(c) /\ Taken(c) <= UpTo(c)
<1>1. /\ since[c] \in Nat /\ Len(inbox[c]) \in Nat
      /\ Len(hand[c]) \in Nat /\ Len(sendq[c]) \in Nat
  BY StreamTypes
<1>2. Written(c) \in Nat /\ since[c] + Len(inbox[c]) = Written(c)
  BY <1>1 DEF Written
<1>3. Taken(c) \in Nat /\ Written(c) + Len(hand[c]) = Taken(c)
      /\ Written(c) <= Taken(c)
  BY <1>1, <1>2 DEF Taken
<1>4. UpTo(c) \in Nat /\ Taken(c) + Len(sendq[c]) = UpTo(c)
      /\ Taken(c) <= UpTo(c)
  BY <1>1, <1>3 DEF UpTo
<1> QED
  BY <1>2, <1>3, <1>4

\* Where the stream of d is not touched, its window moves only with fanout.
LEMMA StreamUntouched ==
    ASSUME NEW d \in Clients, Window(d),
           since'[d] = since[d], inbox'[d] = inbox[d], hand'[d] = hand[d],
           sendq'[d] = sendq[d], log' = log,
           Registered(d)' => Registered(d)
                             /\ (UserOf[d] \in fanout' <=> UserOf[d] \in fanout)
    PROVE  Window(d)'
<1>1. Written(d)' = Written(d) /\ Taken(d)' = Taken(d) /\ UpTo(d)' = UpTo(d)
  BY DEF Written, Taken, UpTo
<1> QED
  BY <1>1 DEF Window, RunAt

LEMMA StreamRegister ==
    ASSUME TypeOK, LocalOK, StreamIsWindow, NEW c \in Clients, HubRegister(c)
    PROVE  StreamIsWindow'
<1> SUFFICES ASSUME NEW d \in Clients PROVE Window(d)'
  BY DEF StreamIsWindow
<1>1. UNCHANGED <<inbox, sendq, hand, log, fanout>> /\ fanout = {}
  BY DEF HubRegister
<1>2. CASE d = c
  <2>1. since'[d] = Len(log) /\ Len(log) \in Nat
    BY <1>2 DEF HubRegister, TypeOK
  <2>2. inbox[d] = <<>> /\ sendq[d] = <<>> /\ hand[d] = <<>>
    BY <1>2 DEF LocalOK, HubRegister
  <2>3. Len(inbox[d]) = 0 /\ Len(sendq[d]) = 0 /\ Len(hand[d]) = 0
    BY <2>2
  <2>4. UpTo(d)' = Len(log)
    BY <1>1, <2>1, <2>3 DEF UpTo, Taken, Written
  <2> QED
    BY <1>1, <2>1, <2>3, <2>4 DEF Window, RunAt
<1>3. CASE d # c
  <2>1. since'[d] = since[d]
    BY <1>3 DEF HubRegister, TypeOK
  <2>2. Registered(d)' => Registered(d)
    BY <1>3, HubConstants DEF HubRegister, TypeOK, Registered
  <2> QED
    BY <1>1, <2>1, <2>2, StreamUntouched DEF StreamIsWindow
<1> QED
  BY <1>2, <1>3

LEMMA StreamUnregister ==
    ASSUME TypeOK, StreamIsWindow, NEW c \in Clients, HubUnregister(c)
    PROVE  StreamIsWindow'
<1> SUFFICES ASSUME NEW d \in Clients PROVE Window(d)'
  BY DEF StreamIsWindow
<1>1. Registered(d)' => Registered(d)
  <2>1. clients \in [Users -> Clients \cup {NoClient}]
    BY DEF TypeOK
  <2> QED
    BY <2>1, HubConstants DEF HubUnregister, Registered
<1>2. UNCHANGED <<since, inbox, hand, sendq, log, fanout>>
  BY DEF HubUnregister
<1> QED
  BY <1>1, <1>2, StreamUntouched DEF StreamIsWindow

LEMMA StreamTake ==
    ASSUME TypeOK, LocalOK, StreamIsWindow, NEW c \in Clients, HubTake(c)
    PROVE  StreamIsWindow'
<1> SUFFICES ASSUME NEW d \in Clients PROVE Window(d)'
  BY DEF StreamIsWindow
<1>1. /\ draft[c][1] \in Frame
      /\ log' = Append(log, draft[c][1])
  BY OnlyElement DEF TypeOK, LocalOK, HubTake
<1>2. Len(log') = Len(log) + 1
  BY <1>1 DEF TypeOK
<1>3. Registered(d)' => Registered(d) /\ UserOf[d] \in fanout'
                        /\ UserOf[d] \notin fanout
  BY HubConstants DEF HubTake, TypeOK, Registered, Entries
<1>4. UNCHANGED <<since, inbox, sendq, hand>>
  BY DEF HubTake
<1>5. Window(d)
  BY DEF StreamIsWindow
<1>6. /\ RunAt(since[d], inbox[d], log')
      /\ RunAt(Written(d), hand[d], log')
      /\ RunAt(Taken(d), sendq[d], log')
  <2>1. /\ since[d] + Len(inbox[d]) <= Len(log)
        /\ Written(d) + Len(hand[d]) <= Len(log)
        /\ Taken(d) + Len(sendq[d]) <= Len(log)
    <3>1. UpTo(d) <= Len(log)
      BY <1>5 DEF Window
    <3>2. Len(log) \in Nat
      BY DEF TypeOK
    <3> QED
      BY <3>1, <3>2, Positions
  <2>2. /\ log \in Seq(Frame) /\ inbox[d] \in Seq(Frame)
        /\ hand[d] \in Seq(Frame) /\ sendq[d] \in Seq(Frame)
        /\ since[d] \in Nat /\ Written(d) \in Nat /\ Taken(d) \in Nat
    BY Positions, StreamTypes
  <2> QED
    BY <1>1, <1>5, <2>1, <2>2, RunOfLonger DEF Window
<1>7. /\ UpTo(d) <= Len(log')
      /\ Registered(d)' =>
           Len(log') = UpTo(d) + (IF UserOf[d] \in fanout' THEN 1 ELSE 0)
  <2>1. UpTo(d) \in Nat /\ Len(log) \in Nat
    BY Positions, StreamTypes
  <2> QED
    BY <1>2, <1>3, <1>5, <2>1 DEF Window
<1>8. Written(d)' = Written(d) /\ Taken(d)' = Taken(d) /\ UpTo(d)' = UpTo(d)
  BY <1>4 DEF Written, Taken, UpTo
<1> QED
  BY <1>4, <1>6, <1>7, <1>8 DEF Window

LEMMA StreamOffer ==
    ASSUME TypeOK, LocalOK, RegisteredOpen, StreamIsWindow,
           NEW u \in Users, HubOffer(u)
    PROVE  StreamIsWindow'
<1> SUFFICES ASSUME NEW d \in Clients PROVE Window(d)'
  BY DEF StreamIsWindow
<1> DEFINE c == clients[u]
<1>1. c \in Clients /\ UserOf[c] = u /\ u \in fanout /\ Registered(c)
  BY DEF HubOffer, RegisteredOpen, Entries, TypeOK, Registered
<1>2. /\ UNCHANGED <<since, inbox, hand, log>>
      /\ fanout' = fanout \ {u}
  BY DEF HubOffer
<1>3. d # c => /\ sendq'[d] = sendq[d]
               /\ Registered(d)' => Registered(d) /\ UserOf[d] # u
  BY <1>1, HubConstants DEF HubOffer, TypeOK, Registered
<1>4. CASE d # c
  BY <1>2, <1>3, <1>4, StreamUntouched DEF StreamIsWindow
<1>5. CASE d = c /\ ~(Len(sendq[c]) < SendCap)
  <2>1. sendq' = sendq /\ ~Registered(d)'
    BY <1>1, <1>5, HubConstants DEF HubOffer, TypeOK, Registered
  <2> QED
    BY <1>2, <2>1, StreamUntouched DEF StreamIsWindow
<1>6. CASE d = c /\ Len(sendq[c]) < SendCap
  <2>1. Window(d) /\ Len(log) = UpTo(d) + 1
    BY <1>1, <1>6 DEF StreamIsWindow, Window
  <2>2. /\ Taken(d) \in Nat /\ UpTo(d) \in Nat
        /\ Taken(d) + Len(sendq[d]) = UpTo(d)
        /\ sendq[d] \in Seq(Frame) /\ log \in Seq(Frame)
    BY Positions, StreamTypes
  <2>3. sendq'[d] = Append(sendq[d], log[Len(log)])
    BY <1>6 DEF HubOffer, TypeOK
  <2>4. RunAt(Taken(d), sendq'[d], log)
    <3>1. RunAt(Taken(d), sendq[d], log)
      BY <2>1 DEF Window
    <3>2. /\ Taken(d) + Len(sendq[d]) < Len(log)
          /\ Len(log) = Taken(d) + Len(sendq[d]) + 1
      BY <2>1, <2>2
    <3> QED
      BY <2>2, <2>3, <3>1, <3>2, RunGrows
  <2>5. Len(sendq'[d]) = Len(sendq[d]) + 1
    <3>1. log[Len(log)] \in Frame
      BY <2>1, <2>2
    <3> QED
      BY <2>2, <2>3, <3>1
  <2>6. /\ Written(d)' = Written(d) /\ Taken(d)' = Taken(d)
        /\ UpTo(d)' = Taken(d) + Len(sendq'[d])
    BY <1>2 DEF Written, Taken, UpTo
  <2>7. UpTo(d)' = Len(log)
    BY <2>1, <2>2, <2>5, <2>6
  <2>8. UserOf[d] \notin fanout'
    BY <1>1, <1>2, <1>6
  <2> QED
    BY <1>2, <2>1, <2>2, <2>4, <2>6, <2>7, <2>8 DEF Window, RunAt
<1> QED
  BY <1>4, <1>5, <1>6

LEMMA StreamWriter ==
    ASSUME TypeOK, LocalOK, StreamIsWindow, NEW c \in Clients, Writer(c)
    PROVE  StreamIsWindow'
<1> SUFFICES ASSUME NEW d \in Clients PROVE Window(d)'
  BY DEF StreamIsWindow
<1>1. /\ UNCHANGED <<since, log, fanout, clients>>
      /\ Registered(d)' <=> Registered(d)
  BY DEF Writer, WriterTake, WriteFrame, WriteError, WriterSeesClose, hubVars,
         Registered
<1>2. Window(d)
  BY DEF StreamIsWindow
<1>3. CASE d # c \/ WriteError(c) \/ WriterSeesClose(c)
  <2>1. inbox'[d] = inbox[d] /\ hand'[d] = hand[d] /\ sendq'[d] = sendq[d]
    BY <1>3 DEF Writer, WriterTake, WriteFrame, WriteError, WriterSeesClose,
                TypeOK
  <2> QED
    BY <1>1, <1>2, <2>1, StreamUntouched
<1>t. /\ since[d] \in Nat /\ log \in Seq(Frame) /\ inbox[d] \in Seq(Frame)
      /\ sendq[d] \in Seq(Frame) /\ hand[d] \in Seq(Frame)
      /\ Written(d) \in Nat /\ Taken(d) \in Nat /\ UpTo(d) \in Nat
      /\ since[d] + Len(inbox[d]) = Written(d)
      /\ Written(d) + Len(hand[d]) = Taken(d)
      /\ Taken(d) + Len(sendq[d]) = UpTo(d)
      /\ Taken(d) <= UpTo(d) /\ UpTo(d) <= Len(log)
  BY <1>2, StreamTypes, Positions DEF Window
<1>4. CASE d = c /\ WriterTake(c)
  <2>1. /\ hand[d] = <<>> /\ sendq[d] # <<>>
        /\ hand'[d] = <<Head(sendq[d])>>
        /\ sendq'[d] = Tail(sendq[d])
        /\ inbox' = inbox
    BY <1>4 DEF WriterTake, LocalOK, TypeOK
  <2>2. Len(hand[d]) = 0 /\ Len(hand'[d]) = 1
    BY <2>1
  <2>3. RunAt(Taken(d), sendq[d], log) /\ Written(d) = Taken(d)
    BY <1>2, <1>t, <2>2 DEF Window
  <2>4. /\ RunAt(Taken(d), hand'[d], log)
        /\ RunAt(Taken(d) + 1, sendq'[d], log)
        /\ Len(sendq'[d]) = Len(sendq[d]) - 1
    BY <1>t, <2>1, <2>3, RunSplits
  <2>5. Written(d)' = Written(d) /\ Taken(d)' = Taken(d) + 1
    BY <1>1, <1>t, <2>1, <2>2, <2>3 DEF Written, Taken
  <2>6. UpTo(d)' = UpTo(d)
    BY <1>t, <2>4, <2>5 DEF UpTo
  <2> QED
    BY <1>1, <1>2, <2>1, <2>3, <2>4, <2>5, <2>6 DEF Window
<1>5. CASE d = c /\ WriteFrame(c)
  <2>1. /\ hand[d] # <<>> /\ hand'[d] = <<>>
        /\ inbox'[d] = Append(inbox[d], hand[d][1])
        /\ sendq' = sendq
    BY <1>5 DEF WriteFrame, LocalOK, TypeOK
  <2>2. hand[d][1] \in Frame /\ Len(hand[d]) = 1 /\ Len(hand'[d]) = 0
    BY <2>1, OnlyElement DEF TypeOK
  <2>3. hand[d][1] = log[Written(d) + 1]
    BY <1>2, <2>2 DEF Window, RunAt
  <2>4. RunAt(since[d], inbox'[d], log)
    <3>1. since[d] + Len(inbox[d]) < Len(log)
      BY <1>t, <2>2
    <3>2. inbox'[d] = Append(inbox[d], log[since[d] + Len(inbox[d]) + 1])
      BY <1>t, <2>1, <2>3
    <3> QED
      BY <1>2, <1>t, <3>1, <3>2, RunGrows DEF Window
  <2>5. Len(inbox'[d]) = Len(inbox[d]) + 1
    BY <1>t, <2>1, <2>2
  <2>6. Written(d)' = Taken(d) /\ Taken(d)' = Taken(d)
    <3>1. Written(d)' = since[d] + Len(inbox'[d])
      BY <1>1 DEF Written
    <3>2. Taken(d)' = Written(d)' + Len(hand'[d])
      BY DEF Taken
    <3>3. Written(d)' = Written(d) + 1 /\ Taken(d) = Written(d) + 1
      BY <1>t, <2>2, <2>5, <3>1
    <3> QED
      BY <1>t, <2>2, <3>2, <3>3
  <2>7. UpTo(d)' = UpTo(d)
    BY <2>1, <2>6 DEF UpTo
  <2>8. RunAt(Written(d)', hand'[d], log)
    BY <2>2 DEF RunAt
  <2> QED
    BY <1>1, <1>2, <2>1, <2>4, <2>6, <2>7, <2>8 DEF Window
<1> QED
  BY <1>3, <1>4, <1>5 DEF Writer

LEMMA StreamStep ==
    ASSUME TypeOK, LocalOK, RegisteredOpen, StreamIsWindow, [Next]_vars
    PROVE  StreamIsWindow'
<1>1. ASSUME UNCHANGED <<clients, fanout, sendq, hand, log, since, inbox>>
      PROVE  StreamIsWindow'
  <2> SUFFICES ASSUME NEW d \in Clients PROVE Window(d)'
    BY DEF StreamIsWindow
  <2> QED
    BY <1>1, StreamUntouched DEF StreamIsWindow, Registered
<1>2. ASSUME NEW c \in Clients, Reader(c) \/ PeerLeaves(c)
      PROVE  StreamIsWindow'
  BY <1>1, <1>2 DEF Reader, ServeWs, ReadFrame, SaveMessage, SaveFails,
                    ReadError, ReaderCloses, PeerLeaves, hubVars
<1>3. CASE UNCHANGED vars
  BY <1>1, <1>3 DEF vars
<1> QED
  BY <1>2, <1>3, StreamRegister, StreamUnregister, StreamTake, StreamOffer,
     StreamWriter DEF Next, Hub

\* What a connection is sent is a gap-free run of the hub's one order of
\* frames, through the fan-out, the channel and the writer, for any number of
\* connections per user, any channel capacity and any drops.
THEOREM StreamsAreWindows == Spec => []StreamIsWindow
<1>1. Init => StreamIsWindow
  <2> SUFFICES ASSUME Init, NEW c \in Clients PROVE Window(c)
    BY DEF StreamIsWindow
  <2>1. /\ inbox[c] = <<>> /\ hand[c] = <<>> /\ sendq[c] = <<>>
        /\ log = <<>> /\ since[c] = 0 /\ fanout = {}
    BY DEF Init
  <2>2. /\ Len(inbox[c]) = 0 /\ Len(hand[c]) = 0 /\ Len(sendq[c]) = 0
        /\ Len(log) = 0
    BY <2>1
  <2>3. Written(c) = 0 /\ Taken(c) = 0 /\ UpTo(c) = 0
    BY <2>1, <2>2 DEF Written, Taken, UpTo
  <2> QED
    BY <2>1, <2>2, <2>3 DEF Window, RunAt
<1>2. TypeOK /\ LocalOK /\ RegisteredOpen /\ StreamIsWindow /\ [Next]_vars
        => StreamIsWindow'
  BY StreamStep
<1> QED
  BY <1>1, <1>2, HubInvariant, PTL DEF Spec

\* A channel is closed only because its connection leaves or cannot keep up.
THEOREM ClosedOnlyForCause == Spec => ClosedForCause
<1> DEFINE ForCause == \A c \in Clients : closed'[c] /\ ~closed[c] =>
                         reader[c] = "unregistering" \/ Len(sendq[c]) = SendCap
<1>1. TypeOK /\ RegisteredOpen /\ [Next]_vars => [ForCause]_vars
  <2> SUFFICES ASSUME TypeOK, RegisteredOpen, Next PROVE ForCause
    OBVIOUS
  <2>1. ASSUME NEW c \in Clients, HubUnregister(c) PROVE ForCause
    BY <2>1 DEF HubUnregister, TypeOK
  <2>2. ASSUME NEW u \in Users, HubOffer(u) PROVE ForCause
    <3>1. clients[u] \in Clients /\ Len(sendq[clients[u]]) \in Nat
          /\ Len(sendq[clients[u]]) <= SendCap
      BY <2>2 DEF HubOffer, RegisteredOpen, Entries, TypeOK
    <3>2. CASE Len(sendq[clients[u]]) < SendCap
      BY <2>2, <3>2 DEF HubOffer
    <3>3. CASE ~(Len(sendq[clients[u]]) < SendCap)
      <4>1. Len(sendq[clients[u]]) = SendCap
        BY <3>1, <3>3, HubConstants
      <4>2. closed' = [closed EXCEPT ![clients[u]] = TRUE]
        BY <2>2, <3>3 DEF HubOffer
      <4> QED
        BY <4>1, <4>2 DEF TypeOK
    <3> QED
      BY <3>2, <3>3
  <2>3. ASSUME UNCHANGED closed PROVE ForCause
    BY <2>3
  <2> QED
    BY <2>1, <2>2, <2>3 DEF Next, Hub, HubRegister, HubTake, Reader, ServeWs,
       ReadFrame, SaveMessage, SaveFails, ReadError, ReaderCloses, Writer,
       WriterTake, WriteFrame, WriteError, WriterSeesClose, PeerLeaves, hubVars
<1> QED
  BY <1>1, HubInvariant, PTL DEF Spec, ClosedForCause

\* With one connection per user, no goroutine closes a closed channel or sends
\* to one.
THEOREM OneConnectionEachNoPanic ==
    ASSUME \A c, d \in Clients : UserOf[c] = UserOf[d] => c = d
    PROVE  Spec => []NoPanic
<1>1. Init => NoPanic
  BY DEF Init, NoPanic
<1>2. TypeOK /\ RegisteredOpen /\ NoPanic /\ [Next]_vars => NoPanic'
  <2> SUFFICES ASSUME TypeOK, RegisteredOpen, NoPanic, [Next]_vars
               PROVE  NoPanic'
    OBVIOUS
  <2>1. ASSUME NEW c \in Clients, HubUnregister(c) PROVE NoPanic'
    <3>1. CASE clients[UserOf[c]] = NoClient
      BY <2>1, <3>1 DEF HubUnregister, NoPanic
    <3>2. CASE clients[UserOf[c]] # NoClient
      <4>1. UserOf[c] \in Entries
        BY <3>2, HubConstants DEF Entries
      <4>2. clients[UserOf[c]] \in Clients
        BY <3>2, HubConstants DEF TypeOK
      <4>3. clients[UserOf[c]] = c /\ ~closed[c]
        BY <4>1, <4>2 DEF RegisteredOpen
      <4> QED
        BY <2>1, <3>2, <4>3 DEF HubUnregister, NoPanic
    <3> QED
      BY <3>1, <3>2
  <2>2. ASSUME NEW u \in Users, HubOffer(u) PROVE NoPanic'
    BY <2>2 DEF HubOffer, RegisteredOpen, NoPanic
  <2>3. CASE UNCHANGED panicked
    BY <2>3 DEF NoPanic
  <2> QED
    BY <2>1, <2>2, <2>3 DEF vars, Next, Hub, HubRegister, HubTake, Reader,
       ServeWs, ReadFrame, SaveMessage, SaveFails, ReadError, ReaderCloses,
       Writer, WriterTake, WriteFrame, WriteError, WriterSeesClose,
       PeerLeaves, hubVars
<1> QED
  BY <1>1, <1>2, HubInvariant, PTL DEF Spec

\* An entry is lost by leaving, by not keeping up, or to another connection of
\* the same user.
LEMMA EntryLost ==
    ASSUME TypeOK, Next, NEW c \in Clients, Registered(c), ~Registered(c)'
    PROVE  \/ reader[c] = "unregistering"
           \/ Len(sendq[c]) = SendCap
           \/ ~Sole(c)
<1>0. clients \in [Users -> Clients \cup {NoClient}] /\ UserOf[c] \in Users
  BY HubConstants DEF TypeOK
<1>1. ASSUME NEW d \in Clients, HubRegister(d) PROVE ~Sole(c)
  <2>1. clients' = [clients EXCEPT ![UserOf[d]] = d]
    BY <1>1 DEF HubRegister
  <2>2. d # c /\ UserOf[d] = UserOf[c]
    BY <1>0, <2>1 DEF Registered
  <2> QED
    BY <2>2 DEF Sole
<1>2. ASSUME NEW d \in Clients, HubUnregister(d)
      PROVE  reader[c] = "unregistering" \/ ~Sole(c)
  <2>1. CASE UserOf[d] = UserOf[c]
    BY <1>2, <2>1 DEF HubUnregister, Sole
  <2>2. CASE UserOf[d] # UserOf[c]
    BY <1>0, <1>2, <2>2 DEF HubUnregister, Registered
  <2> QED
    BY <2>1, <2>2
<1>3. ASSUME NEW u \in Users, HubOffer(u) PROVE Len(sendq[c]) = SendCap
  <2>1. u = UserOf[c]
    BY <1>0, <1>3 DEF HubOffer, Registered
  <2>2. ~(Len(sendq[c]) < SendCap)
    BY <1>3, <2>1 DEF HubOffer, Registered
  <2> QED
    BY <2>2, HubConstants DEF TypeOK
<1>4. ASSUME UNCHANGED clients PROVE FALSE
  BY <1>4 DEF Registered
<1> QED
  BY <1>1, <1>2, <1>3, <1>4 DEF Next, Hub, HubTake, Reader, ServeWs,
     ReadFrame, SaveMessage, SaveFails, ReadError, ReaderCloses, Writer,
     WriterTake, WriteFrame, WriteError, WriterSeesClose, PeerLeaves, hubVars

\* A user's only connection loses its entry only because it leaves or cannot
\* keep up, however often other users connect.
THEOREM SoleConnectionsKept == Spec => SoleKept
<1> DEFINE Kept == \A c \in Clients : Sole(c) =>
                     (Registered(c) /\ ~Registered(c)' =>
                        reader[c] = "unregistering" \/ Len(sendq[c]) = SendCap)
<1>1. TypeOK /\ [Next]_vars => [Kept]_vars
  BY EntryLost
<1> QED
  BY <1>1, HubInvariant, PTL DEF Spec, SoleKept

\* With one connection per user, the run's KeptWhileServing.
THEOREM OneConnectionEachKept ==
    ASSUME \A c, d \in Clients : UserOf[c] = UserOf[d] => c = d
    PROVE  Spec => KeptWhileServing
<1> DEFINE Kept == \A c \in Clients : Registered(c) /\ ~Registered(c)' =>
                     reader[c] = "unregistering" \/ Len(sendq[c]) = SendCap
<1>1. \A c \in Clients : Sole(c)
  BY DEF Sole
<1>2. TypeOK /\ [Next]_vars => [Kept]_vars
  BY <1>1, EntryLost
<1> QED
  BY <1>2, HubInvariant, PTL DEF Spec, KeptWhileServing

\* Closing is for good, and so is leaving the hub.
LEMMA ClosedStays ==
    ASSUME TypeOK, [Next]_vars, NEW c \in Clients, closed[c] PROVE closed'[c]
<1>0. closed \in [Clients -> BOOLEAN]
  BY DEF TypeOK
<1>1. ASSUME NEW d \in Clients, HubUnregister(d) PROVE closed'[c]
  BY <1>0, <1>1 DEF HubUnregister
<1>2. ASSUME NEW u \in Users, HubOffer(u) PROVE closed'[c]
  BY <1>0, <1>2 DEF HubOffer
<1>3. ASSUME UNCHANGED closed PROVE closed'[c]
  BY <1>3
<1> QED
  BY <1>1, <1>2, <1>3 DEF Next, Hub, HubRegister, HubTake, Reader, ServeWs,
     ReadFrame, SaveMessage, SaveFails, ReadError, ReaderCloses, Writer,
     WriterTake, WriteFrame, WriteError, WriterSeesClose, PeerLeaves, hubVars, vars

\* How a reader gets to where it serves, and to where it has left.
LEMMA ReaderGoes ==
    ASSUME TypeOK, Next, NEW c \in Clients
    PROVE  /\ reader'[c] \in Serving => reader[c] \in Serving \/ HubRegister(c)
           /\ reader'[c] \in {"closing", "done"} =>
                reader[c] \in {"closing", "done"} \/ HubUnregister(c)
<1> USE DEF TypeOK, Serving
<1>1. ASSUME NEW d \in Clients, HubRegister(d) \/ HubUnregister(d) \/ HubTake(d)
      PROVE  /\ reader'[c] \in Serving => reader[c] \in Serving \/ HubRegister(c)
             /\ reader'[c] \in {"closing", "done"} =>
                  reader[c] \in {"closing", "done"} \/ HubUnregister(c)
  <2>1. d # c => reader'[c] = reader[c]
    BY <1>1 DEF HubRegister, HubUnregister, HubTake
  <2>2. CASE d = c /\ HubTake(c)
    BY <2>2 DEF HubTake
  <2>3. CASE d = c /\ HubUnregister(c)
    BY <2>3 DEF HubUnregister
  <2>4. CASE d = c /\ HubRegister(c)
    BY <2>4 DEF HubRegister
  <2> QED
    BY <1>1, <2>1, <2>2, <2>3, <2>4
<1>2. ASSUME NEW d \in Clients, Reader(d)
      PROVE  /\ reader'[c] \in Serving => reader[c] \in Serving
             /\ reader'[c] \in {"closing", "done"} =>
                  reader[c] \in {"closing", "done"}
  BY <1>2 DEF Reader, ServeWs, ReadFrame, SaveMessage, SaveFails, ReadError,
              ReaderCloses
<1>3. ASSUME UNCHANGED reader
      PROVE  /\ reader'[c] \in Serving => reader[c] \in Serving
             /\ reader'[c] \in {"closing", "done"} =>
                  reader[c] \in {"closing", "done"}
  BY <1>3
<1> QED
  BY <1>1, <1>2, <1>3 DEF Next, Hub, HubOffer, Writer, WriterTake, WriteFrame,
     WriteError, WriterSeesClose, PeerLeaves

\* The goroutines of a user's only connection are let go: while it is served it
\* is in the map or closed, and once it has left the hub it is closed, so that
\* its writer, which ends when it finds the channel closed, need not wait.
THEOREM SoleConnectionsLetGo == Spec => []SoleLetGo
<1>1. Init => SoleLetGo
  BY DEF Init, SoleLetGo, Serving
<1>2. TypeOK /\ RegisteredOpen /\ SoleLetGo /\ [Next]_vars => SoleLetGo'
  <2> SUFFICES ASSUME TypeOK, RegisteredOpen, SoleLetGo, Next,
                      NEW c \in Clients, Sole(c)
               PROVE  /\ reader'[c] \in Serving => Registered(c)' \/ closed'[c]
                      /\ reader'[c] \in {"closing", "done"} => closed'[c]
    BY DEF SoleLetGo, vars, Registered, Sole
  <2>1. clients \in [Users -> Clients \cup {NoClient}] /\ UserOf[c] \in Users
    BY HubConstants DEF TypeOK
  <2>2. ASSUME HubRegister(c) PROVE Registered(c)'
    BY <2>1, <2>2 DEF HubRegister, Registered
  <2>3. ASSUME HubUnregister(c) PROVE closed'[c]
    <3>1. Registered(c) \/ closed[c]
      BY <2>3 DEF HubUnregister, SoleLetGo, Serving
    <3>2. Registered(c) => clients[UserOf[c]] # NoClient
      BY HubConstants DEF Registered
    <3>3. CASE clients[UserOf[c]] = NoClient
      BY <2>3, <3>1, <3>2, <3>3 DEF HubUnregister
    <3>4. CASE clients[UserOf[c]] # NoClient
      BY <2>3, <3>4 DEF HubUnregister, TypeOK
    <3> QED
      BY <3>3, <3>4
  <2>4. ASSUME Registered(c), ~Registered(c)', ~closed'[c]
        PROVE  FALSE
    <3>1. ASSUME NEW d \in Clients, HubRegister(d) PROVE FALSE
      <4>1. d = c
        BY <2>1, <2>4, <3>1 DEF HubRegister, Registered, Sole
      <4> QED
        BY <2>2, <2>4, <3>1, <4>1
    <3>2. ASSUME NEW d \in Clients, HubUnregister(d) PROVE FALSE
      <4>1. d = c
        BY <2>1, <2>4, <3>2 DEF HubUnregister, Registered, Sole
      <4> QED
        BY <2>3, <2>4, <3>2, <4>1
    <3>3. ASSUME NEW u \in Users, HubOffer(u) PROVE FALSE
      BY <2>1, <2>4, <3>3 DEF HubOffer, Registered, TypeOK
    <3>4. ASSUME UNCHANGED clients PROVE FALSE
      BY <2>4, <3>4 DEF Registered
    <3> QED
      BY <3>1, <3>2, <3>3, <3>4 DEF Next, Hub, HubTake, Reader, ServeWs,
         ReadFrame, SaveMessage, SaveFails, ReadError, ReaderCloses, Writer,
         WriterTake, WriteFrame, WriteError, WriterSeesClose, PeerLeaves, hubVars
  <2>5. /\ reader[c] \in Serving => Registered(c) \/ closed[c]
        /\ reader[c] \in {"closing", "done"} => closed[c]
    BY DEF SoleLetGo
  <2> QED
    BY <2>2, <2>3, <2>4, <2>5, ClosedStays, ReaderGoes
<1> QED
  BY <1>1, <1>2, HubInvariant, PTL DEF Spec

\* The only panic there is, for any number of connections per user: the hub
\* closes for the second time the channel of one that could not keep up, when it
\* leaves while its user has another connection.
THEOREM PanicCause == Spec => PanicsOnlyOnLateLeave
<1> DEFINE Late == ~panicked /\ panicked' =>
                     \E c \in Clients : /\ reader[c] = "unregistering" /\ closed[c]
                                        /\ clients[UserOf[c]] \notin {c, NoClient}
<1>1. TypeOK /\ RegisteredOpen /\ [Next]_vars => [Late]_vars
  <2> SUFFICES ASSUME TypeOK, RegisteredOpen, Next, ~panicked, panicked'
               PROVE  \E c \in Clients :
                        /\ reader[c] = "unregistering" /\ closed[c]
                        /\ clients[UserOf[c]] \notin {c, NoClient}
    OBVIOUS
  <2>1. ASSUME NEW c \in Clients, HubUnregister(c)
        PROVE  /\ reader[c] = "unregistering" /\ closed[c]
               /\ clients[UserOf[c]] \notin {c, NoClient}
    <3>1. reader[c] = "unregistering" /\ closed[c] /\ clients[UserOf[c]] # NoClient
      BY <2>1 DEF HubUnregister
    <3>2. clients[UserOf[c]] # c
      BY <3>1, HubConstants DEF RegisteredOpen, Entries
    <3> QED
      BY <3>1, <3>2
  <2>2. ASSUME NEW u \in Users, HubOffer(u) PROVE FALSE
    BY <2>2 DEF HubOffer, RegisteredOpen
  <2>3. ASSUME UNCHANGED panicked PROVE FALSE
    BY <2>3
  <2> QED
    BY <2>1, <2>2, <2>3 DEF Next, Hub, HubRegister, HubTake, Reader, ServeWs,
       ReadFrame, SaveMessage, SaveFails, ReadError, ReaderCloses, Writer,
       WriterTake, WriteFrame, WriteError, WriterSeesClose, PeerLeaves, hubVars
<1> QED
  BY <1>1, HubInvariant, PTL DEF Spec, PanicsOnlyOnLateLeave

\* A chat message about to be broadcast has been saved.
DraftStored ==
    \A c \in Clients :
        reader[c] = "sending" /\ draft[c][1].kind = "chat_message" =>
            draft[c][1] \in stored

\* Nobody is shown a chat message that the database never held.
THEOREM StoredFirst == Spec => []StoredBeforeBroadcast
<1>1. Init => DraftStored /\ StoredBeforeBroadcast
  BY DEF Init, DraftStored, StoredBeforeBroadcast
<1>2. TypeOK /\ LocalOK /\ DraftStored /\ StoredBeforeBroadcast /\ [Next]_vars
        => DraftStored' /\ StoredBeforeBroadcast'
  <2> SUFFICES ASSUME TypeOK, LocalOK, DraftStored, StoredBeforeBroadcast,
                      [Next]_vars
               PROVE  DraftStored' /\ StoredBeforeBroadcast'
    OBVIOUS
  <2>1. ASSUME NEW c \in Clients, HubTake(c)
        PROVE  DraftStored' /\ StoredBeforeBroadcast'
    <3>1. /\ draft[c][1] \in Frame
          /\ draft[c][1].kind = "chat_message" => draft[c][1] \in stored
      BY <2>1, OnlyElement DEF HubTake, LocalOK, TypeOK, DraftStored
    <3>2. /\ log' = Append(log, draft[c][1]) /\ stored' = stored
          /\ log \in Seq(Frame)
      BY <2>1 DEF HubTake, TypeOK
    <3>3. StoredBeforeBroadcast'
      BY <3>1, <3>2 DEF StoredBeforeBroadcast
    <3>4. DraftStored'
      BY <2>1 DEF HubTake, DraftStored, TypeOK
    <3> QED
      BY <3>3, <3>4
  <2>2. ASSUME NEW c \in Clients, NEW k \in Kinds, ReadFrame(c, k)
        PROVE  DraftStored' /\ StoredBeforeBroadcast'
    BY <2>2 DEF ReadFrame, hubVars, TypeOK, DraftStored, StoredBeforeBroadcast
  <2>3. ASSUME NEW c \in Clients, SaveMessage(c) \/ SaveFails(c)
        PROVE  DraftStored' /\ StoredBeforeBroadcast'
    BY <2>3 DEF SaveMessage, SaveFails, hubVars, TypeOK, DraftStored,
                StoredBeforeBroadcast
  <2>4. ASSUME UNCHANGED <<draft, log, stored>>,
               \A c \in Clients : reader'[c] = "sending" => reader[c] = "sending"
        PROVE  DraftStored' /\ StoredBeforeBroadcast'
    BY <2>4 DEF DraftStored, StoredBeforeBroadcast
  <2> USE <2>4 DEF TypeOK
  <2>5. ASSUME NEW c \in Clients, \/ HubRegister(c) \/ HubUnregister(c)
                                 \/ ServeWs(c) \/ ReadError(c)
                                 \/ ReaderCloses(c) \/ PeerLeaves(c)
        PROVE  DraftStored' /\ StoredBeforeBroadcast'
    BY <2>5 DEF HubRegister, HubUnregister, ServeWs, ReadError, ReaderCloses,
                PeerLeaves, hubVars
  <2>6. ASSUME NEW c \in Clients, Writer(c)
        PROVE  DraftStored' /\ StoredBeforeBroadcast'
    BY <2>6 DEF Writer, WriterTake, WriteFrame, WriteError, WriterSeesClose,
                hubVars
  <2>7. ASSUME NEW u \in Users, HubOffer(u)
        PROVE  DraftStored' /\ StoredBeforeBroadcast'
    BY <2>7 DEF HubOffer
  <2>8. CASE UNCHANGED vars
    BY <2>8 DEF vars
  <2> QED
    BY <2>1, <2>2, <2>3, <2>5, <2>6, <2>7, <2>8 DEF Next, Hub, Reader
<1> QED
  BY <1>1, <1>2, HubInvariant, PTL DEF Spec

(***************************************************************************)
(* What receivers are shown.  Frames are numbered as they are read; what a *)
(* reader holds is its own and later than all of its own in the log.       *)
(***************************************************************************)
NumbersOK ==
    /\ \A i \in DOMAIN log : log[i].n <= frames
    /\ \A c \in Clients : draft[c] # <<>> =>
         /\ draft[c][1].from = c /\ draft[c][1].n <= frames
         /\ \A i \in DOMAIN log : log[i].from = c => log[i].n < draft[c][1].n
    /\ InOrder(log)

LEMMA FrameTypes ==
    /\ \A f \in Frame : f.n \in Nat /\ f.n <= MaxFrames
    /\ TypeOK => /\ log \in Seq(Frame) /\ frames \in Nat /\ Len(log) \in Nat
                 /\ \A i \in 1..Len(log) : log[i].n \in Nat
                 /\ \A c \in Clients : draft[c] # <<>> => draft[c][1].n \in Nat
<1>1. \A f \in Frame : f.n \in Nat /\ f.n <= MaxFrames
  BY HubConstants DEF Frame
<1>2. ASSUME TypeOK
      PROVE  /\ log \in Seq(Frame) /\ frames \in Nat /\ Len(log) \in Nat
             /\ \A i \in 1..Len(log) : log[i] \in Frame
             /\ \A c \in Clients : draft[c] # <<>> => draft[c][1] \in Frame
  BY <1>2, OnlyElement, HubConstants DEF TypeOK
<1> QED
  BY <1>1, <1>2

LEMMA NumbersStep ==
    ASSUME TypeOK, LocalOK, NumbersOK, [Next]_vars PROVE NumbersOK'
<1>1. ASSUME NEW c \in Clients, HubTake(c) PROVE NumbersOK'
  <2> DEFINE f == draft[c][1]
  <2>1. /\ draft[c] # <<>> /\ f \in Frame /\ f.from = c /\ f.n <= frames
        /\ \A i \in 1..Len(log) : log[i].from = c => log[i].n < f.n
    BY <1>1, OnlyElement DEF HubTake, LocalOK, NumbersOK, TypeOK
  <2>2. /\ log \in Seq(Frame) /\ Len(log) \in Nat /\ log' = Append(log, f)
        /\ frames' = frames /\ draft' = [draft EXCEPT ![c] = <<>>]
    BY <1>1 DEF HubTake, TypeOK
  <2> HIDE DEF f
  <2>3. /\ DOMAIN log' = 1..Len(log) + 1 /\ log'[Len(log) + 1] = f
        /\ \A i \in 1..Len(log) : log'[i] = log[i]
    BY <2>1, <2>2
  <2>4. \A i \in DOMAIN log' : log'[i].n <= frames
    BY <2>1, <2>2, <2>3 DEF NumbersOK
  <2>5. InOrder(log)'
    BY <2>1, <2>2, <2>3 DEF NumbersOK, InOrder
  <2>6. ASSUME NEW d \in Clients, draft'[d] # <<>>
        PROVE  /\ draft'[d][1].from = d /\ draft'[d][1].n <= frames
               /\ \A i \in DOMAIN log' : log'[i].from = d => log'[i].n < draft'[d][1].n
    <3>1. d # c /\ draft'[d] = draft[d]
      BY <2>2, <2>6 DEF TypeOK
    <3>2. \A i \in 1..Len(log) : log[i].from = d => log[i].n < draft[d][1].n
      BY <2>2, <2>6, <3>1 DEF NumbersOK
    <3>3. f.from # d
      BY <2>1, <3>1
    <3> QED
      BY <2>2, <2>3, <2>6, <3>1, <3>2, <3>3 DEF NumbersOK
  <2> QED
    BY <2>2, <2>4, <2>5, <2>6 DEF NumbersOK
<1>2. ASSUME NEW c \in Clients, NEW k \in Kinds, ReadFrame(c, k) PROVE NumbersOK'
  <2>1. /\ log' = log /\ frames' = frames + 1
        /\ draft' = [draft EXCEPT ![c] = <<[from |-> c, kind |-> k,
                                            n |-> frames + 1]>>]
    BY <1>2 DEF ReadFrame, hubVars
  <2>2. /\ draft'[c][1].from = c /\ draft'[c][1].n = frames + 1
        /\ \A d \in Clients \ {c} : draft'[d] = draft[d]
    <3>1. DOMAIN draft = Clients
      BY DEF TypeOK
    <3>2. /\ draft'[c] = <<[from |-> c, kind |-> k, n |-> frames + 1]>>
          /\ \A d \in Clients \ {c} : draft'[d] = draft[d]
      BY <2>1, <3>1
    <3> QED
      BY <3>2
  <2>3. /\ frames \in Nat /\ \A i \in DOMAIN log : log[i].n \in Nat
        /\ \A d \in Clients : draft[d] # <<>> => draft[d][1].n \in Nat
    BY FrameTypes DEF TypeOK
  <2>4. \A i \in DOMAIN log : log[i].n < frames + 1
    BY <2>3 DEF NumbersOK
  <2>5. \A i \in DOMAIN log' : log'[i].n <= frames'
    BY <2>1, <2>3, <2>4
  <2>6. ASSUME NEW d \in Clients, draft'[d] # <<>>
        PROVE  /\ draft'[d][1].from = d /\ draft'[d][1].n <= frames'
               /\ \A i \in DOMAIN log' : log'[i].from = d => log'[i].n < draft'[d][1].n
    BY <2>1, <2>2, <2>3, <2>4, <2>6 DEF NumbersOK
  <2>7. InOrder(log)'
    BY <2>1 DEF NumbersOK, InOrder
  <2> QED
    BY <2>5, <2>6, <2>7 DEF NumbersOK
<1>3. ASSUME NEW c \in Clients, SaveFails(c) PROVE NumbersOK'
  <2>1. /\ UNCHANGED <<log, frames>>
        /\ \A d \in Clients : draft'[d] # <<>> => draft'[d] = draft[d]
    BY <1>3 DEF SaveFails, hubVars, TypeOK
  <2> QED
    BY <2>1 DEF NumbersOK, InOrder
<1>4. ASSUME UNCHANGED <<log, frames, draft>> PROVE NumbersOK'
  BY <1>4 DEF NumbersOK, InOrder
<1> QED
  BY <1>1, <1>2, <1>3, <1>4 DEF Next, Hub, HubRegister, HubUnregister, HubOffer,
     Reader, ServeWs, SaveMessage, ReadError, ReaderCloses, Writer, WriterTake,
     WriteFrame, WriteError, WriterSeesClose, PeerLeaves, hubVars, vars

LEMMA NumbersInvariant == Spec => []NumbersOK
<1>1. Init => NumbersOK
  BY DEF Init, NumbersOK, InOrder
<1>2. TypeOK /\ LocalOK /\ NumbersOK /\ [Next]_vars => NumbersOK'
  BY NumbersStep
<1> QED
  BY <1>1, <1>2, HubInvariant, PTL DEF Spec

\* What is written to c at i stands in the log at since[c] + i.
LEMMA ShownIsLogged ==
    ASSUME TypeOK, NEW c \in Clients, Window(c), NEW i \in DOMAIN inbox[c]
    PROVE  /\ since[c] + i \in DOMAIN log /\ since[c] \in Nat /\ i \in Nat
           /\ inbox[c][i] = log[since[c] + i]
<1>1. /\ since[c] \in Nat /\ log \in Seq(Frame) /\ Len(log) \in Nat
      /\ inbox[c] \in Seq(Frame) /\ Len(inbox[c]) \in Nat
      /\ i \in 1..Len(inbox[c])
  BY StreamTypes
<1>2. since[c] + Len(inbox[c]) <= Len(log)
  BY <1>1, Positions DEF Window
<1> QED
  BY <1>1, <1>2 DEF Window, RunAt

\* Every receiver is shown the frames of each sender in the order they were
\* read from it, and none twice, across any number of connections, drops and
\* late registrations.
THEOREM SendersInOrder == Spec => []SenderOrder
<1>1. TypeOK /\ StreamIsWindow /\ NumbersOK => SenderOrder
  <2> SUFFICES ASSUME TypeOK, StreamIsWindow, InOrder(log),
                      NEW c \in Clients, NEW i \in DOMAIN inbox[c],
                      NEW j \in DOMAIN inbox[c], i < j,
                      inbox[c][i].from = inbox[c][j].from
               PROVE  inbox[c][i].n < inbox[c][j].n
    BY DEF NumbersOK, SenderOrder, InOrder
  <2>1. /\ since[c] + i \in DOMAIN log /\ inbox[c][i] = log[since[c] + i]
        /\ since[c] + j \in DOMAIN log /\ inbox[c][j] = log[since[c] + j]
        /\ since[c] \in Nat /\ i \in Nat /\ j \in Nat
    BY ShownIsLogged DEF StreamIsWindow
  <2>2. since[c] + i < since[c] + j
    BY <2>1
  <2> QED
    BY <2>1, <2>2 DEF InOrder
<1> QED
  BY <1>1, HubInvariant, StreamsAreWindows, NumbersInvariant, PTL

\* No peer is shown a chat message the database does not hold.
THEOREM ShownAreStored == Spec => []ShownIsStored
<1>1. TypeOK /\ StreamIsWindow /\ StoredBeforeBroadcast => ShownIsStored
  BY ShownIsLogged DEF StreamIsWindow, StoredBeforeBroadcast, ShownIsStored
<1> QED
  BY <1>1, HubInvariant, StreamsAreWindows, StoredFirst, PTL
==============================================================================
