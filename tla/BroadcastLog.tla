----------------------------- MODULE BroadcastLog -----------------------------
(***************************************************************************)
(* What the chat hub promises its connections, without goroutines,         *)
(* channels or buffers: there is one order of broadcast frames, a          *)
(* connection subscribes to it at one point, and what it is sent from then *)
(* on is a gap-free, duplicate-free run of that order starting there.  How *)
(* far a connection gets is not promised: it may lose its subscription at  *)
(* any time, after which it gets only frames it had been offered before.   *)
(***************************************************************************)
EXTENDS Naturals, Sequences

CONSTANTS Subscribers,  \* the connections
          Frames        \* the frames that may be published

VARIABLES log,     \* every published frame, in the one order there is
          status,  \* status[s]: "new", "live" (subscribed) or "left"
          from,    \* from[s]: how much of log preceded s's subscription
          upTo,    \* upTo[s]: the part of log s has been offered so far
          inbox    \* inbox[s]: the frames s was sent, in order

vars == <<log, status, from, upTo, inbox>>

Live == {s \in Subscribers : status[s] = "live"}

Init == /\ log = <<>>
        /\ status = [s \in Subscribers |-> "new"]
        /\ from = [s \in Subscribers |-> 0]
        /\ upTo = [s \in Subscribers |-> 0]
        /\ inbox = [s \in Subscribers |-> <<>>]

\* A frame is published only when every subscriber was offered the last one.
Publish(f) ==
    /\ \A s \in Live : upTo[s] = Len(log)
    /\ log' = Append(log, f)
    /\ UNCHANGED <<status, from, upTo, inbox>>

Offer(s) ==
    /\ s \in Live
    /\ upTo[s] < Len(log)
    /\ upTo' = [upTo EXCEPT ![s] = @ + 1]
    /\ UNCHANGED <<log, status, from, inbox>>

\* A subscriber joins at the end of the log; those it replaces leave.
Subscribe(s, replaced) ==
    /\ status[s] = "new"
    /\ status' = [t \in Subscribers |-> IF t = s THEN "live"
                                        ELSE IF t \in replaced THEN "left"
                                        ELSE status[t]]
    /\ from' = [from EXCEPT ![s] = Len(log)]
    /\ upTo' = [upTo EXCEPT ![s] = Len(log)]
    /\ UNCHANGED <<log, inbox>>

Leave(s) ==
    /\ s \in Live
    /\ status' = [status EXCEPT ![s] = "left"]
    /\ UNCHANGED <<log, from, upTo, inbox>>

Deliver(s) ==
    /\ from[s] + Len(inbox[s]) < upTo[s]
    /\ inbox' = [inbox EXCEPT
                   ![s] = Append(@, log[from[s] + Len(inbox[s]) + 1])]
    /\ UNCHANGED <<log, status, from, upTo>>

Next == \/ \E f \in Frames : Publish(f)
        \/ \E s \in Subscribers :
             \/ Offer(s) \/ Leave(s) \/ Deliver(s)
             \/ \E replaced \in SUBSET Live : Subscribe(s, replaced)

Spec == Init /\ [][Next]_vars
===============================================================================
