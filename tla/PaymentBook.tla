------------------------------ MODULE PaymentBook ------------------------------
(***************************************************************************)
(* What the payment service promises about checkouts: a book of payments,  *)
(* the sessions to pay them with, and one answer for each request.  There  *)
(* are no leases here, no transactions and no processes: a payment is      *)
(* recorded in one step, and whether it may be is a question to the book.  *)
(***************************************************************************)
CONSTANTS Requests,    \* requests for a payment
          RefOf,       \* RefOf[r]: the transaction id r carries
          PropertyOf   \* PropertyOf[r]: the property r pays for

VARIABLES
    recorded,  \* requests whose payment is in the book
    payable,   \* requests with a session to pay with
    answer,    \* what a request was told; "none" as long as it was told nothing
    weak       \* requests the book no longer keeps apart

book == <<recorded, payable, answer, weak>>

Init ==
    /\ recorded = {}
    /\ payable = {}
    /\ answer = [r \in Requests |-> "none"]
    /\ weak = {}

Tell(r, a) == answer' = [answer EXCEPT ![r] = a]

\* The payments that keep r out.
Rivals(r) == {q \in recorded \ weak : /\ RefOf[q] = RefOf[r]
                                      /\ PropertyOf[q] = PropertyOf[r]}

\* A session is made, and the request perhaps told of a failure.
Open(r) ==
    /\ answer[r] = "none" /\ r \notin recorded
    /\ payable' = payable \cup {r}
    /\ \E a \in {"none", "error"} : Tell(r, a)
    /\ UNCHANGED <<recorded, weak>>

\* A payment is recorded that can be paid and has no rival; its client is told
\* so, or of an error, or nothing.
Record(r) ==
    /\ answer[r] = "none" /\ r \in payable \ recorded
    /\ r \in weak \/ Rivals(r) = {}
    /\ recorded' = recorded \cup {r}
    /\ \E a \in {"created", "error", "none"} : Tell(r, a)
    /\ UNCHANGED <<payable, weak>>

\* A request is turned away, for good, with nothing recorded for it; if it was
\* told "busy" or "duplicate", with no session either.
Refuse(r) ==
    /\ answer[r] = "none" /\ r \notin recorded
    /\ \/ Tell(r, "error")
       \/ r \notin payable /\ Tell(r, "busy")
       \/ /\ r \notin payable
          /\ \E q \in recorded \ {r} : RefOf[q] = RefOf[r]
          /\ Tell(r, "duplicate")
    /\ UNCHANGED <<recorded, payable, weak>>

\* A request that is neither recorded nor told anything is no longer kept apart.
Weaken(r) ==
    /\ answer[r] = "none" /\ r \notin recorded
    /\ weak' = weak \cup {r}
    /\ UNCHANGED <<recorded, payable, answer>>

Next == \E r \in Requests : Open(r) \/ Record(r) \/ Refuse(r) \/ Weaken(r)

Spec == Init /\ [][Next]_book
================================================================================
