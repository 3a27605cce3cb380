------------------------------- MODULE Checkout -------------------------------
(***************************************************************************)
(* Checkout requests of the payment service                                *)
(* (dotnet_service/Services/PaymentService.cs,                             *)
(* CreateStripeCheckoutSessionAsync): a Redis lease per property around a  *)
(* look for the client's transaction id, a database transaction and, in    *)
(* it, a call to Stripe.                                                   *)
(*                                                                         *)
(* A request is one call; a client that tries again makes another request  *)
(* with the same transaction id.  Requests run in any number of processes  *)
(* and meet only in Redis, in PostgreSQL and at Stripe.  What a            *)
(* transaction writes is seen by nobody before it commits, so its inserts  *)
(* appear here with the commit.                                            *)
(***************************************************************************)
EXTENDS Naturals, FiniteSets

CONSTANTS Requests,    \* calls that may be made in a behaviour (a bound)
          Properties,  \* property ids
          Refs,        \* clients' transaction ids
          PropertyOf,  \* PropertyOf[r]: the property r pays for
          RefOf,       \* RefOf[r]: the transaction id r carries
          NoRequest,   \* nobody holds the lease
          MaxLost      \* bound on the leases that run out under their holder

ASSUME CheckoutConstants ==
    /\ PropertyOf \in [Requests -> Properties]
    /\ RefOf \in [Requests -> Refs]
    /\ NoRequest \notin Requests
    /\ MaxLost \in Nat

VARIABLES
    pc,        \* how far each request is
    outcome,   \* what it will answer, or answered
    lease,     \* lease[p]: the request whose token Redis holds for p
    recorded,  \* requests whose payment and success row are committed
    sessions,  \* requests for which Stripe made a session
    \* For the properties:
    lost       \* requests whose lease ran out while they relied on it

vars == <<pc, outcome, lease, recorded, sessions, lost>>

\* The requests inside the scope of the lease, or about to leave it.
Inside == {"checking", "charging", "recording"}

TypeOK ==
    /\ pc \in [Requests -> {"new", "leaving", "done", "dead"} \cup Inside]
    /\ outcome \in [Requests -> {"none", "busy", "duplicate", "error", "created"}]
    /\ lease \in [Properties -> Requests \cup {NoRequest}]
    /\ recorded \in SUBSET Requests
    /\ sessions \in SUBSET Requests
    /\ lost \in SUBSET Requests
    /\ \A r \in Requests : pc[r] \in {"leaving", "done"} => outcome[r] # "none"

Init ==
    /\ pc = [r \in Requests |-> "new"]
    /\ outcome = [r \in Requests |-> "none"]
    /\ lease = [p \in Properties |-> NoRequest]
    /\ recorded = {}
    /\ sessions = {}
    /\ lost = {}

SameRef(r) == {q \in Requests : RefOf[q] = RefOf[r]}

Goto(r, l) == pc' = [pc EXCEPT ![r] = l]

\* The answer is settled and the scope of the lease left.
Leave(r, o) == /\ Goto(r, "leaving")
               /\ outcome' = [outcome EXCEPT ![r] = o]

--------------------------------------------------------------------------------
(* Wrong variants of the operations below.  No specification uses them; each *)
(* is a slip the code could contain, and breaks the property named with it.  *)

\* Goes on without the lease (LockedOncePerRef).
AcquireAnyway(r) ==
    /\ pc[r] = "new"
    /\ lease' = [lease EXCEPT ![PropertyOf[r]] = r]
    /\ Goto(r, "checking")
    /\ UNCHANGED <<outcome, recorded, sessions, lost>>

\* Deletes the key whoever's token it holds (TokensProtect).
DisposeAnyway(r) ==
    /\ pc[r] = "leaving"
    /\ Goto(r, "done")
    /\ lease' = [lease EXCEPT ![PropertyOf[r]] = NoRequest]
    /\ UNCHANGED <<outcome, recorded, sessions, lost>>

\* Begins without the look for the transaction id (ImplementsBook).
BeginUnlooked(r) ==
    /\ pc[r] = "checking"
    /\ Goto(r, "charging")
    /\ UNCHANGED <<outcome, lease, recorded, sessions, lost>>

\* The exception is swallowed and no answer settled (TypeOK).
StripeFailureSwallowed(r) ==
    /\ pc[r] = "charging"
    /\ \E made \in {{}, {r}} : sessions' = sessions \cup made
    /\ Goto(r, "leaving")
    /\ UNCHANGED <<outcome, lease, recorded, lost>>

\* The lease has no expiry (PropertyFreed).
NeverExpires(r) == FALSE /\ UNCHANGED vars

--------------------------------------------------------------------------------
\* CreateLockAsync stores the request's token for the property if none is there.
AcquireLock(r) ==
    /\ pc[r] = "new"
    /\ lease[PropertyOf[r]] = NoRequest
    /\ lease' = [lease EXCEPT ![PropertyOf[r]] = r]
    /\ Goto(r, "checking")
    /\ UNCHANGED <<outcome, recorded, sessions, lost>>

\* It comes back without the lease: another has it, or Redis does not answer.
\* The request is refused at once.
Busy(r) ==
    /\ pc[r] = "new"
    /\ Leave(r, "busy")
    /\ UNCHANGED <<lease, recorded, sessions, lost>>

\* A committed row has the transaction id, whatever property it was for.
FindDuplicate(r) ==
    /\ pc[r] = "checking"
    /\ recorded \cap SameRef(r) # {}
    /\ Leave(r, "duplicate")
    /\ UNCHANGED <<lease, recorded, sessions, lost>>

\* None has: a transaction is begun and the pending payment inserted in it.
BeginPayment(r) ==
    /\ pc[r] = "checking"
    /\ recorded \cap SameRef(r) = {}
    /\ Goto(r, "charging")
    /\ UNCHANGED <<outcome, lease, recorded, sessions, lost>>

\* The look, the begin or the insert fails.
DatabaseFails(r) ==
    /\ pc[r] \in {"checking", "charging"}
    /\ Leave(r, "error")
    /\ UNCHANGED <<lease, recorded, sessions, lost>>

CreateSession(r) ==
    /\ pc[r] = "charging"
    /\ sessions' = sessions \cup {r}
    /\ Goto(r, "recording")
    /\ UNCHANGED <<outcome, lease, recorded, lost>>

\* The call fails, or its answer is lost and the session made all the same.
\* The transaction is rolled back.
StripeFails(r) ==
    /\ pc[r] = "charging"
    /\ \E made \in {{}, {r}} : sessions' = sessions \cup made
    /\ Leave(r, "error")
    /\ UNCHANGED <<lease, recorded, lost>>

\* The session id and the success row are written and all of it committed.
Commit(r) ==
    /\ pc[r] = "recording"
    /\ recorded' = recorded \cup {r}
    /\ Leave(r, "created")
    /\ UNCHANGED <<lease, sessions, lost>>

\* The write or the commit fails; a failed commit may have happened.
CommitFails(r) ==
    /\ pc[r] = "recording"
    /\ \E done \in {{}, {r}} : recorded' = recorded \cup done
    /\ Leave(r, "error")
    /\ UNCHANGED <<lease, sessions, lost>>

\* Disposing of the lease deletes the key if it still holds the own token, and
\* if Redis answers; then the answer is sent.
Dispose(r) ==
    /\ pc[r] = "leaving"
    /\ Goto(r, "done")
    /\ \/ /\ lease[PropertyOf[r]] = r
          /\ lease' = [lease EXCEPT ![PropertyOf[r]] = NoRequest]
       \/ UNCHANGED lease
    /\ UNCHANGED <<outcome, recorded, sessions, lost>>

--------------------------------------------------------------------------------
(* What the environment does.                                              *)

\* The process dies.  An open transaction is rolled back, unless the commit
\* was under way; the lease stays until it expires.
Crash(r) ==
    /\ pc[r] \in Inside \cup {"leaving"}
    /\ Goto(r, "dead")
    /\ \E done \in {{}, {r} \cap {q \in Requests : pc[q] = "recording"}} :
         recorded' = recorded \cup done
    /\ UNCHANGED <<outcome, lease, sessions, lost>>

\* Thirty seconds after a holder has gone, its key is gone.
Expire(r) ==
    /\ pc[r] \in {"leaving", "done", "dead"}
    /\ lease[PropertyOf[r]] = r
    /\ lease' = [lease EXCEPT ![PropertyOf[r]] = NoRequest]
    /\ UNCHANGED <<pc, outcome, recorded, sessions, lost>>

\* A live holder loses the key: it was suspended for longer than the lease, or
\* Redis was unreachable or restarted.  Nothing tells it.
LoseLease(r) ==
    /\ Cardinality(lost) < MaxLost
    /\ pc[r] \in Inside
    /\ lease[PropertyOf[r]] = r
    /\ lease' = [lease EXCEPT ![PropertyOf[r]] = NoRequest]
    /\ lost' = lost \cup {r}
    /\ UNCHANGED <<pc, outcome, recorded, sessions>>

Serve(r) == \/ AcquireLock(r) \/ Busy(r)
            \/ FindDuplicate(r) \/ BeginPayment(r) \/ DatabaseFails(r)
            \/ CreateSession(r) \/ StripeFails(r)
            \/ Commit(r) \/ CommitFails(r) \/ Dispose(r)

Next == \E r \in Requests :
          Serve(r) \/ Crash(r) \/ Expire(r) \/ LoseLease(r)

Spec == Init /\ [][Next]_vars

(***************************************************************************)
(* A request that was accepted goes on: every await ends, with a result or *)
(* an exception (Stripe's and Npgsql's clients have timeouts).  Redis      *)
(* expires keys.                                                           *)
(***************************************************************************)
Fairness ==
    \A r \in Requests : /\ WF_vars(pc[r] # "new" /\ Serve(r))
                        /\ WF_vars(Expire(r))

FairSpec == Spec /\ Fairness

--------------------------------------------------------------------------------
(* Properties.                                                             *)

\* Under the lease the look for the transaction id and the commit are one: no
\* two requests for one property record the same transaction id, however they
\* are interleaved, retried or crash, unless one of them lost its lease midway.
LockedOncePerRef ==
    \A q, r \in recorded :
        /\ RefOf[q] = RefOf[r]
        /\ PropertyOf[q] = PropertyOf[r]
        /\ {q, r} \cap lost = {}
        => q = r

\* A request is a duplicate only of one that is recorded: what the client is
\* refused for is there, even when the earlier request answered with an error.
DuplicateIsReal ==
    \A r \in Requests : outcome[r] = "duplicate" =>
        \E q \in recorded \ {r} : RefOf[q] = RefOf[r]

\* A client that is told "created" has its payment, and a session to pay with.
SuccessIsRecorded ==
    \A r \in Requests : outcome[r] = "created" => r \in recorded \cap sessions

\* No payment is recorded that has no session to pay it with, through every
\* failure and crash.
NoUnpayable == recorded \subseteq sessions

\* A request whose lease did not run out holds it as long as it relies on it:
\* nobody else's expiry or disposal takes it away.
TokensProtect ==
    \A r \in Requests : pc[r] \in Inside =>
        r \in lost \/ lease[PropertyOf[r]] = r

\* Crashes and failed disposals do not close a property for good: whoever has
\* the lease, it is given up or taken from it.
PropertyFreed ==
    \A r \in Requests : []<>(lease[PropertyOf[r]] # r)

\* A transaction id is recorded once.  (Two requests for different properties
\* take different leases, and nothing in the database forbids it.)
OncePerRef == \A q, r \in recorded : RefOf[q] = RefOf[r] => q = r

\* A client that is refused has no payment and no session: it is charged for
\* nothing, and nothing of its attempt keeps a later one out.
RefusedIsUntouched ==
    \A r \in Requests : outcome[r] \in {"busy", "duplicate"} =>
        r \notin recorded \cup sessions

Book == INSTANCE PaymentBook
            WITH payable <- sessions, answer <- outcome, weak <- lost

\* With its leases, transactions, failures and crashes the service keeps the
\* book of PaymentBook: every payment enters it in one step that no other
\* payment of its property and transaction id contends with, is never taken
\* out, and every request has at most one answer, which is true of the book.
ImplementsBook == Book!Spec
================================================================================
