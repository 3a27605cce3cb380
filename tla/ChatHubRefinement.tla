--------------------------- MODULE ChatHubRefinement ---------------------------
(***************************************************************************)
(* ChatHub implements BroadcastLog: every step of the hub, of a reader or  *)
(* of a writer is a step of the abstract broadcast or leaves it unchanged. *)
(***************************************************************************)
EXTENDS ChatHubProofs

UpTos == [c \in Clients |-> UpTo(c)]

\* A registered connection is live in the abstract specification, and only it.
LEMMA LiveIsRegistered ==
    ASSUME TypeOK, RegisteredOpen, NEW c \in Clients
    PROVE  /\ Status[c] = "live" <=> Registered(c)
           /\ Status[c] = "new" <=> reader[c] \in {"idle", "registering"}
           /\ c \in Log!Live <=> Registered(c)
<1>1. Registered(c) => reader[c] \in Serving
  <2> SUFFICES ASSUME Registered(c) PROVE reader[c] \in Serving
    OBVIOUS
  <2>1. UserOf[c] \in Entries /\ clients[UserOf[c]] = c
    BY HubConstants DEF Registered, Entries
  <2> QED
    BY <2>1 DEF RegisteredOpen
<1>2. /\ Status[c] = "live" <=> Registered(c)
      /\ Status[c] = "new" <=> reader[c] \in {"idle", "registering"}
  BY <1>1 DEF Status, Serving
<1> QED
  BY <1>2 DEF Log!Live

\* The abstract state moves only with the parts of the state it is made of.
LEMMA SameStatus ==
    ASSUME UNCHANGED clients,
           \A c \in Clients : reader'[c] \in {"idle", "registering"} <=>
                              reader[c] \in {"idle", "registering"}
    PROVE  Status' = Status
  BY DEF Status, Registered

LEMMA SameUpTo ==
    ASSUME UNCHANGED <<since, inbox, hand, sendq>>
    PROVE  UpTos' = UpTos
<1>1. \A c \in Clients : UpTo(c)' = UpTo(c)
  BY DEF UpTo, Taken, Written
<1> QED
  BY <1>1 DEF UpTos

LEMMA RegisterIsSubscribe ==
    ASSUME TypeOK, LocalOK, RegisteredOpen, NEW c \in Clients, HubRegister(c)
    PROVE  Log!Next
<1> DEFINE replaced == {d \in Log!Live : UserOf[d] = UserOf[c]}
<1>1. /\ clients \in [Users -> Clients \cup {NoClient}]
      /\ reader \in [Clients -> ReaderState]
      /\ since \in [Clients -> Nat]
      /\ UserOf \in [Clients -> Users] /\ NoClient \notin Clients
      /\ Len(log) \in Nat
  BY HubConstants DEF TypeOK
<1>2. Status[c] = "new"
  BY LiveIsRegistered DEF HubRegister
<1>3. \A t \in Clients : Status'[t] = IF t = c THEN "live"
                                      ELSE IF t \in replaced THEN "left"
                                      ELSE Status[t]
  <2> SUFFICES ASSUME NEW t \in Clients
               PROVE  Status'[t] = IF t = c THEN "live"
                                   ELSE IF t \in replaced THEN "left"
                                   ELSE Status[t]
    OBVIOUS
  <2>1. CASE t = c
    BY <1>1, <2>1 DEF HubRegister, Status, Registered
  <2>2. CASE t # c
    <3>1. reader'[t] = reader[t]
      BY <1>1, <2>2 DEF HubRegister
    <3>2. Registered(t)' <=> Registered(t) /\ UserOf[t] # UserOf[c]
      BY <1>1, <2>2 DEF HubRegister, Registered
    <3>3. /\ t \in Log!Live <=> Registered(t)
          /\ Registered(t) => reader[t] \notin {"idle", "registering"}
      BY LiveIsRegistered
    <3> QED
      BY <2>2, <3>1, <3>2, <3>3 DEF Status
  <2> QED
    BY <2>1, <2>2
<1>4. Status' = [t \in Clients |-> IF t = c THEN "live"
                                   ELSE IF t \in replaced THEN "left"
                                   ELSE Status[t]]
  BY <1>3 DEF Status
<1>5. UpTos' = [UpTos EXCEPT ![c] = Len(log)]
  <2>1. UpTo(c)' = Len(log)
    <3>1. /\ since'[c] = Len(log)
          /\ inbox'[c] = <<>> /\ sendq'[c] = <<>> /\ hand'[c] = <<>>
      BY <1>1 DEF HubRegister, LocalOK
    <3>2. /\ Len(inbox'[c]) = 0 /\ Len(sendq'[c]) = 0 /\ Len(hand'[c]) = 0
      BY <3>1
    <3> QED
      BY <1>1, <3>1, <3>2 DEF UpTo, Taken, Written
  <2>2. \A d \in Clients : d # c => UpTo(d)' = UpTo(d)
    BY <1>1 DEF HubRegister, UpTo, Taken, Written
  <2> QED
    BY <2>1, <2>2 DEF UpTos
<1>6. Log!Subscribe(c, replaced)
  BY <1>2, <1>4, <1>5 DEF HubRegister, Log!Subscribe, UpTos
<1>7. replaced \in SUBSET Log!Live
  OBVIOUS
<1> QED
  BY <1>6, <1>7 DEF Log!Next

\* An entry is deleted: the connection it held leaves.
LEMMA DeleteIsLeave ==
    ASSUME TypeOK, RegisteredOpen, NEW d \in Clients, Registered(d),
           clients' = [clients EXCEPT ![UserOf[d]] = NoClient],
           \A c \in Clients : reader'[c] \in {"idle", "registering"} <=>
                              reader[c] \in {"idle", "registering"},
           UNCHANGED <<sendq, hand, log, since, inbox>>
    PROVE  Log!Leave(d)
<1>1. /\ clients \in [Users -> Clients \cup {NoClient}]
      /\ UserOf \in [Clients -> Users] /\ NoClient \notin Clients
  BY HubConstants DEF TypeOK
<1>2. \A t \in Clients : Registered(t)' <=> Registered(t) /\ t # d
  BY <1>1 DEF Registered
<1>3. d \in Log!Live /\ reader[d] \notin {"idle", "registering"}
  BY LiveIsRegistered
<1>4. Status' = [Status EXCEPT ![d] = "left"]
  BY <1>2, <1>3 DEF Status
<1> QED
  BY <1>3, <1>4, SameUpTo DEF Log!Leave, UpTos

LEMMA UnregisterIsLeave ==
    ASSUME TypeOK, RegisteredOpen, NEW c \in Clients, HubUnregister(c)
    PROVE  [Log!Next]_(Log!vars)
<1>1. /\ \A d \in Clients : reader'[d] \in {"idle", "registering"} <=>
                            reader[d] \in {"idle", "registering"}
      /\ UNCHANGED <<sendq, hand, log, since, inbox>>
  BY DEF HubUnregister, TypeOK
<1>2. CASE clients[UserOf[c]] = NoClient
  BY <1>1, <1>2, SameStatus, SameUpTo DEF HubUnregister, Log!vars, UpTos
<1>3. CASE clients[UserOf[c]] # NoClient
  <2> DEFINE d == clients[UserOf[c]]
  <2>1. d \in Clients /\ UserOf[d] = UserOf[c] /\ Registered(d)
    BY <1>3, HubConstants DEF TypeOK, RegisteredOpen, Entries, Registered
  <2>2. clients' = [clients EXCEPT ![UserOf[d]] = NoClient]
    BY <1>3, <2>1 DEF HubUnregister
  <2>3. Log!Leave(d)
    BY <1>1, <2>1, <2>2, DeleteIsLeave
  <2> QED
    BY <2>1, <2>3 DEF Log!Next
<1> QED
  BY <1>2, <1>3

LEMMA TakeIsPublish ==
    ASSUME TypeOK, LocalOK, RegisteredOpen, StreamIsWindow,
           NEW c \in Clients, HubTake(c)
    PROVE  Log!Next
<1>1. draft[c][1] \in Frame /\ log' = Append(log, draft[c][1])
  BY OnlyElement DEF TypeOK, LocalOK, HubTake
<1>2. \A s \in Log!Live : UpTos[s] = Len(log)
  <2> SUFFICES ASSUME NEW s \in Log!Live PROVE UpTos[s] = Len(log)
    OBVIOUS
  <2>1. s \in Clients
    BY DEF Log!Live
  <2>2. Registered(s) /\ fanout = {} /\ UpTo(s) \in Nat
    BY <2>1, LiveIsRegistered, Positions DEF HubTake
  <2>3. UpTo(s) = Len(log)
    BY <2>1, <2>2 DEF StreamIsWindow, Window
  <2> QED
    BY <2>1, <2>3 DEF UpTos
<1>3. /\ UNCHANGED clients
      /\ \A d \in Clients : reader'[d] \in {"idle", "registering"} <=>
                            reader[d] \in {"idle", "registering"}
      /\ UNCHANGED <<sendq, hand, since, inbox>>
  BY DEF HubTake, TypeOK
<1>4. Status' = Status /\ UpTos' = UpTos
  BY <1>3, SameStatus, SameUpTo
<1>5. Log!Publish(draft[c][1])
  BY <1>1, <1>2, <1>3, <1>4 DEF Log!Publish, UpTos
<1> QED
  BY <1>1, <1>5 DEF Log!Next

LEMMA OfferIsOffer ==
    ASSUME TypeOK, LocalOK, RegisteredOpen, StreamIsWindow,
           NEW u \in Users, HubOffer(u)
    PROVE  Log!Next
<1>0. PICK c \in Clients : c = clients[u]
  BY DEF HubOffer, RegisteredOpen, Entries, TypeOK
<1>1. /\ UserOf[c] = u /\ Registered(c) /\ Len(sendq[c]) \in Nat
  BY <1>0 DEF HubOffer, RegisteredOpen, Entries, TypeOK, Registered
<1>2. /\ \A d \in Clients : reader'[d] \in {"idle", "registering"} <=>
                            reader[d] \in {"idle", "registering"}
      /\ UNCHANGED <<hand, log, since, inbox>>
  BY DEF HubOffer
<1>3. CASE Len(sendq[c]) < SendCap
  <2>1. /\ sendq' = [sendq EXCEPT ![c] = Append(@, log[Len(log)])]
        /\ UNCHANGED clients
    BY <1>0, <1>3 DEF HubOffer
  <2>2. /\ UpTo(c) \in Nat /\ Taken(c) \in Nat /\ Len(log) \in Nat
        /\ Taken(c) + Len(sendq[c]) = UpTo(c)
        /\ Len(log) = UpTo(c) + 1
    <3>1. u \in fanout
      BY DEF HubOffer
    <3> QED
      BY <1>1, <3>1, Positions, StreamTypes DEF StreamIsWindow, Window
  <2>3. log[Len(log)] \in Frame
    BY <1>1, <2>2, StreamTypes
  <2>4. Len(sendq'[c]) = Len(sendq[c]) + 1
    BY <1>1, <2>1, <2>3 DEF TypeOK
  <2>5. UpTo(c)' = UpTo(c) + 1
    <3>1. UpTo(c)' = Taken(c) + Len(sendq'[c])
      BY <1>2 DEF UpTo, Taken, Written
    <3> QED
      BY <1>1, <2>2, <2>4, <3>1
  <2>6. \A d \in Clients : d # c => UpTo(d)' = UpTo(d)
    BY <1>2, <2>1 DEF UpTo, Taken, Written, TypeOK
  <2>7. UpTos' = [UpTos EXCEPT ![c] = @ + 1]
    BY <1>1, <2>5, <2>6 DEF UpTos
  <2>8. c \in Log!Live /\ UpTos[c] < Len(log)
    BY <1>1, <2>2, LiveIsRegistered DEF UpTos
  <2>9. Status' = Status
    BY <1>2, <2>1, SameStatus
  <2>10. Log!Offer(c)
    BY <1>2, <2>7, <2>8, <2>9 DEF Log!Offer, UpTos
  <2> QED
    BY <1>1, <2>10 DEF Log!Next
<1>4. CASE ~(Len(sendq[c]) < SendCap)
  <2>1. clients' = [clients EXCEPT ![UserOf[c]] = NoClient] /\ UNCHANGED sendq
    BY <1>0, <1>1, <1>4 DEF HubOffer
  <2>2. Log!Leave(c)
    BY <1>1, <1>2, <2>1, DeleteIsLeave
  <2> QED
    BY <1>1, <2>2 DEF Log!Next
<1> QED
  BY <1>3, <1>4

\* The reader's steps, the peer's and those of a writer that ends are no step.
LEMMA LocalIsStutter ==
    ASSUME UNCHANGED <<clients, sendq, hand, log, since, inbox>>,
           \A c \in Clients : reader'[c] \in {"idle", "registering"} <=>
                              reader[c] \in {"idle", "registering"}
    PROVE  UNCHANGED Log!vars
  BY SameStatus, SameUpTo DEF Log!vars, UpTos

LEMMA ReaderIsStutter ==
    ASSUME TypeOK, NEW c \in Clients, Reader(c) \/ PeerLeaves(c)
    PROVE  UNCHANGED Log!vars
<1>1. UNCHANGED <<clients, sendq, hand, log, since, inbox>>
  BY DEF Reader, ServeWs, ReadFrame, SaveMessage, SaveFails, ReadError,
         ReaderCloses, PeerLeaves, hubVars
<1>2. \A d \in Clients : reader'[d] \in {"idle", "registering"} <=>
                         reader[d] \in {"idle", "registering"}
  BY DEF Reader, ServeWs, ReadFrame, SaveMessage, SaveFails, ReadError,
         ReaderCloses, PeerLeaves, TypeOK
<1> QED
  BY <1>1, <1>2, LocalIsStutter

LEMMA WriterIsDeliver ==
    ASSUME TypeOK, LocalOK, StreamIsWindow, NEW c \in Clients, Writer(c)
    PROVE  [Log!Next]_(Log!vars)
<1>1. /\ UNCHANGED <<clients, since, log>>
      /\ \A d \in Clients : reader'[d] \in {"idle", "registering"} <=>
                            reader[d] \in {"idle", "registering"}
  BY DEF Writer, WriterTake, WriteFrame, WriteError, WriterSeesClose, hubVars
<1>2. Status' = Status
  BY <1>1, SameStatus
<1>t. /\ since[c] \in Nat /\ Len(log) \in Nat /\ inbox[c] \in Seq(Frame)
      /\ sendq[c] \in Seq(Frame) /\ Len(hand[c]) \in Nat
      /\ Written(c) \in Nat /\ Taken(c) \in Nat
      /\ since[c] + Len(inbox[c]) = Written(c)
      /\ Written(c) + Len(hand[c]) = Taken(c)
      /\ Taken(c) + Len(sendq[c]) = UpTo(c)
      /\ Taken(c) <= UpTo(c)
  BY StreamTypes, Positions
<1>3. CASE WriteError(c) \/ WriterSeesClose(c)
  <2>1. UNCHANGED <<sendq, hand, inbox>>
    BY <1>3 DEF WriteError, WriterSeesClose
  <2> QED
    BY <1>1, <2>1, LocalIsStutter
<1>4. ASSUME UpTo(c)' = UpTo(c),
             \A d \in Clients : d # c => /\ inbox'[d] = inbox[d]
                                         /\ hand'[d] = hand[d]
                                         /\ sendq'[d] = sendq[d]
      PROVE  UpTos' = UpTos
  <2>1. \A d \in Clients : UpTo(d)' = UpTo(d)
    BY <1>1, <1>4 DEF UpTo, Taken, Written
  <2> QED
    BY <2>1 DEF UpTos
<1>5. CASE WriterTake(c)
  <2>1. /\ hand[c] = <<>> /\ sendq[c] # <<>> /\ inbox' = inbox
        /\ hand'[c] = <<Head(sendq[c])>>
        /\ sendq'[c] = Tail(sendq[c])
        /\ \A d \in Clients : d # c => hand'[d] = hand[d] /\ sendq'[d] = sendq[d]
    BY <1>5 DEF WriterTake, LocalOK, TypeOK
  <2>2. Len(hand[c]) = 0 /\ Len(hand'[c]) = 1
    BY <2>1
  <2>3. Len(sendq'[c]) = Len(sendq[c]) - 1 /\ Len(sendq[c]) \in Nat
    BY <1>t, <2>1
  <2>4. Written(c)' = Written(c) /\ Taken(c)' = Written(c)' + Len(hand'[c])
    BY <1>1, <2>1 DEF Written, Taken
  <2>5. UpTo(c)' = Taken(c)' + Len(sendq'[c])
    BY DEF UpTo
  <2>6. UpTo(c)' = UpTo(c)
    BY <1>t, <2>2, <2>3, <2>4, <2>5
  <2> QED
    BY <1>1, <1>2, <1>4, <2>1, <2>6 DEF Log!vars, UpTos
<1>6. CASE WriteFrame(c)
  <2>1. /\ hand[c] # <<>> /\ hand'[c] = <<>> /\ sendq' = sendq
        /\ inbox' = [inbox EXCEPT ![c] = Append(@, hand[c][1])]
        /\ \A d \in Clients : d # c => hand'[d] = hand[d] /\ inbox'[d] = inbox[d]
    BY <1>6 DEF WriteFrame, LocalOK, TypeOK
  <2>2. hand[c][1] \in Frame /\ Len(hand[c]) = 1 /\ Len(hand'[c]) = 0
    BY <2>1, OnlyElement DEF TypeOK
  <2>3. inbox'[c] = Append(inbox[c], hand[c][1])
    BY <2>1 DEF TypeOK
  <2>4. Len(inbox'[c]) = Len(inbox[c]) + 1 /\ Len(inbox[c]) \in Nat
    BY <1>t, <2>2, <2>3
  <2>5. /\ Written(c)' = since[c] + Len(inbox'[c])
        /\ Taken(c)' = Written(c)' + Len(hand'[c])
    BY <1>1 DEF Written, Taken
  <2>6. Taken(c)' = Taken(c)
    BY <1>t, <2>2, <2>4, <2>5
  <2>7. UpTo(c)' = UpTo(c)
    BY <2>1, <2>6 DEF UpTo
  <2>8. UpTos' = UpTos
    BY <1>4, <2>1, <2>7
  <2>9. hand[c][1] = log[Written(c) + 1]
    BY <2>2 DEF StreamIsWindow, Window, RunAt
  <2>10. since[c] + Len(inbox[c]) < UpTo(c)
    <3>1. UpTo(c) \in Nat
      BY Positions
    <3> QED
      BY <1>t, <2>2, <3>1
  <2>11. Log!Deliver(c)
    BY <1>1, <1>2, <1>t, <2>1, <2>8, <2>9, <2>10 DEF Log!Deliver, UpTos
  <2> QED
    BY <2>11 DEF Log!Next
<1> QED
  BY <1>3, <1>5, <1>6 DEF Writer

LEMMA InitIsInit == ASSUME Init PROVE Log!Init
<1>1. /\ log = <<>> /\ since = [c \in Clients |-> 0]
      /\ inbox = [c \in Clients |-> <<>>]
      /\ reader = [c \in Clients |-> "idle"]
  BY DEF Init
<1>2. Status = [c \in Clients |-> "new"]
  BY <1>1 DEF Status
<1>3. \A c \in Clients : UpTo(c) = 0
  <2> SUFFICES ASSUME NEW c \in Clients PROVE UpTo(c) = 0
    OBVIOUS
  <2>1. /\ inbox[c] = <<>> /\ hand[c] = <<>> /\ sendq[c] = <<>>
        /\ since[c] = 0
    BY DEF Init
  <2>2. Len(inbox[c]) = 0 /\ Len(hand[c]) = 0 /\ Len(sendq[c]) = 0
    BY <2>1
  <2>3. Written(c) = 0 /\ Taken(c) = 0 /\ UpTo(c) = 0
    BY <2>1, <2>2 DEF UpTo, Taken, Written
  <2> QED
    BY <2>3
<1> QED
  BY <1>1, <1>2, <1>3 DEF Log!Init

\* The hub with its goroutines and channels implements BroadcastLog: for any
\* number of users, connections per user, channel capacity and frames.
THEOREM HubImplementsLog == Spec => ImplementsLog
<1>1. Init => Log!Init
  BY InitIsInit
<1>2. TypeOK /\ LocalOK /\ RegisteredOpen /\ StreamIsWindow /\ [Next]_vars
        => [Log!Next]_(Log!vars)
  <2> SUFFICES ASSUME TypeOK, LocalOK, RegisteredOpen, StreamIsWindow,
                      [Next]_vars
               PROVE  [Log!Next]_(Log!vars)
    OBVIOUS
  <2>1. CASE UNCHANGED vars
    BY <2>1, LocalIsStutter DEF vars
  <2> QED
    BY <2>1, RegisterIsSubscribe, UnregisterIsLeave, TakeIsPublish,
       OfferIsOffer, ReaderIsStutter, WriterIsDeliver DEF Next, Hub
<1> QED
  BY <1>1, <1>2, HubInvariant, StreamsAreWindows, PTL
     DEF Spec, ImplementsLog, Log!Spec
================================================================================
