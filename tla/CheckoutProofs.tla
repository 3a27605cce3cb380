---------------------------- MODULE CheckoutProofs ----------------------------
(***************************************************************************)
(* Proofs about Checkout for any number of requests, properties,           *)
(* transaction ids and lost leases.                                        *)
(***************************************************************************)
EXTENDS Checkout, FiniteSetTheorems, TLAPS

\* A request between the look for its transaction id and the commit, with its
\* lease: no request of the same property has recorded that id meanwhile.
Unrecorded ==
    \A r \in Requests \ lost : pc[r] \in {"charging", "recording"} =>
        \A q \in recorded \ lost :
            ~(RefOf[q] = RefOf[r] /\ PropertyOf[q] = PropertyOf[r])

\* Only a request that is being recorded or over is recorded, and it has its
\* session; "created" and "duplicate" are said of what is there.
AnswersOK ==
    /\ \A r \in Requests :
         /\ r \in recorded => r \in sessions /\ pc[r] \notin {"new"} \cup Inside
         /\ pc[r] = "recording" => r \in sessions
    /\ SuccessIsRecorded
    /\ DuplicateIsReal

LEMMA TypeStep ==
    ASSUME TypeOK, [Next]_vars PROVE TypeOK'
<1> USE CheckoutConstants DEF TypeOK, Inside, Goto, Leave
<1>1. ASSUME NEW r \in Requests, AcquireLock(r) PROVE TypeOK'
  BY <1>1 DEF AcquireLock
<1>2. ASSUME NEW r \in Requests,
             Busy(r) \/ FindDuplicate(r) \/ BeginPayment(r) \/ DatabaseFails(r)
      PROVE  TypeOK'
  BY <1>2 DEF Busy, FindDuplicate, BeginPayment, DatabaseFails
<1>3. ASSUME NEW r \in Requests, CreateSession(r) \/ StripeFails(r)
      PROVE  TypeOK'
  BY <1>3 DEF CreateSession, StripeFails
<1>4. ASSUME NEW r \in Requests, Commit(r) \/ CommitFails(r) PROVE TypeOK'
  BY <1>4 DEF Commit, CommitFails
<1>5. ASSUME NEW r \in Requests, Dispose(r) PROVE TypeOK'
  BY <1>5 DEF Dispose
<1>6. ASSUME NEW r \in Requests, Crash(r) PROVE TypeOK'
  BY <1>6 DEF Crash
<1>7. ASSUME NEW r \in Requests, Expire(r) \/ LoseLease(r) PROVE TypeOK'
  BY <1>7 DEF Expire, LoseLease
<1>8. CASE UNCHANGED vars
  BY <1>8 DEF vars
<1> QED
  BY <1>1, <1>2, <1>3, <1>4, <1>5, <1>6, <1>7, <1>8 DEF Next, Serve

\* The lease of a request that has not lost it leaves Redis only by its own
\* disposal or after it is gone.
LEMMA TokensStep ==
    ASSUME TypeOK, TokensProtect, [Next]_vars PROVE TokensProtect'
<1> SUFFICES ASSUME NEW q \in Requests, pc'[q] \in Inside
             PROVE  q \in lost' \/ lease'[PropertyOf[q]] = q
  BY DEF TokensProtect
<1> USE CheckoutConstants DEF TypeOK, Inside, Goto, Leave
<1>0. pc[q] \in Inside => q \in lost \/ lease[PropertyOf[q]] = q
  BY DEF TokensProtect
<1>1. ASSUME NEW r \in Requests, AcquireLock(r)
      PROVE  q \in lost' \/ lease'[PropertyOf[q]] = q
  BY <1>0, <1>1 DEF AcquireLock
<1>2. ASSUME NEW r \in Requests, UNCHANGED <<lease, lost>>,
             Serve(r) \/ Crash(r)
      PROVE  q \in lost' \/ lease'[PropertyOf[q]] = q
  BY <1>0, <1>2 DEF Serve, AcquireLock, Busy, FindDuplicate, BeginPayment,
     DatabaseFails, CreateSession, StripeFails, Commit, CommitFails, Dispose,
     Crash
<1>3. ASSUME NEW r \in Requests, Dispose(r) \/ Expire(r) \/ LoseLease(r)
      PROVE  q \in lost' \/ lease'[PropertyOf[q]] = q
  BY <1>0, <1>3 DEF Dispose, Expire, LoseLease
<1>4. CASE UNCHANGED vars
  BY <1>0, <1>4 DEF vars
<1>5. ASSUME NEW r \in Requests, Serve(r) \/ Crash(r)
      PROVE  \/ AcquireLock(r) \/ Dispose(r)
             \/ UNCHANGED <<lease, lost>>
  BY <1>5 DEF Serve, Busy, FindDuplicate, BeginPayment, DatabaseFails,
     CreateSession, StripeFails, Commit, CommitFails, Crash
<1> QED
  BY <1>1, <1>2, <1>3, <1>4, <1>5 DEF Next

\* Two requests for one property that both have their lease are one.
LEMMA OneInside ==
    ASSUME TokensProtect,
           NEW q \in Requests \ lost, NEW r \in Requests \ lost,
           pc[q] \in Inside, pc[r] \in Inside, PropertyOf[q] = PropertyOf[r]
    PROVE  q = r
  BY DEF TokensProtect

\* What a step may add to recorded: the request whose commit it is.
LEMMA RecordedGrows ==
    ASSUME TypeOK, [Next]_vars
    PROVE  \/ UNCHANGED recorded
           \/ \E r \in Requests : /\ pc[r] = "recording"
                                  /\ recorded' = recorded \cup {r}
                                  /\ pc'[r] \in {"leaving", "dead"}
                                  /\ \A q \in Requests \ {r} : pc'[q] = pc[q]
                                  /\ UNCHANGED lost
<1>1. ASSUME NEW r \in Requests, Commit(r) \/ CommitFails(r) \/ Crash(r)
      PROVE  \/ UNCHANGED recorded
             \/ /\ pc[r] = "recording"
                /\ recorded' = recorded \cup {r}
                /\ pc'[r] \in {"leaving", "dead"}
                /\ \A q \in Requests \ {r} : pc'[q] = pc[q]
                /\ UNCHANGED lost
  BY <1>1 DEF Commit, CommitFails, Crash, Leave, Goto, TypeOK
<1>2. ASSUME NEW r \in Requests,
             ~(Commit(r) \/ CommitFails(r) \/ Crash(r)),
             Serve(r) \/ Expire(r) \/ LoseLease(r)
      PROVE  UNCHANGED recorded
  BY <1>2 DEF Serve, AcquireLock, Busy, FindDuplicate, BeginPayment,
     DatabaseFails, CreateSession, StripeFails, Dispose, Expire, LoseLease
<1> QED
  BY <1>1, <1>2 DEF Next, vars

LEMMA UnrecordedStep ==
    ASSUME TypeOK, TokensProtect, Unrecorded, [Next]_vars
    PROVE  Unrecorded'
<1> SUFFICES ASSUME NEW r \in Requests, r \notin lost',
                    pc'[r] \in {"charging", "recording"},
                    NEW q \in recorded', q \notin lost',
                    RefOf[q] = RefOf[r], PropertyOf[q] = PropertyOf[r]
             PROVE  FALSE
  BY DEF Unrecorded
<1>1. lost \subseteq lost'
  BY DEF Next, Serve, AcquireLock, Busy, FindDuplicate, BeginPayment,
     DatabaseFails, CreateSession, StripeFails, Commit, CommitFails, Dispose,
     Crash, Expire, LoseLease, vars
\* r reaches the section with the look at the committed rows, or was there.
<1>2. \/ pc[r] \in {"charging", "recording"}
      \/ pc[r] = "checking" /\ recorded \cap SameRef(r) = {} /\ UNCHANGED recorded
  <2>1. ASSUME NEW x \in Requests, Serve(x) \/ Crash(x),
               pc[r] \notin {"charging", "recording"}
        PROVE  BeginPayment(x) /\ x = r
    BY <2>1 DEF Serve, AcquireLock, Busy, FindDuplicate, BeginPayment,
       DatabaseFails, CreateSession, StripeFails, Commit, CommitFails, Dispose,
       Crash, Leave, Goto, TypeOK
  <2>2. ASSUME NEW x \in Requests, Expire(x) \/ LoseLease(x)
        PROVE  pc' = pc
    BY <2>2 DEF Expire, LoseLease
  <2>3. UNCHANGED vars => pc' = pc
    BY DEF vars
  <2> QED
    BY <2>1, <2>2, <2>3 DEF Next, BeginPayment
<1>3. CASE q \in recorded
  <2>1. pc[r] \in {"charging", "recording"}
    BY <1>2, <1>3 DEF SameRef, TypeOK
  <2> QED
    BY <1>1, <1>3, <2>1 DEF Unrecorded
<1>4. CASE q \notin recorded
  <2>1. /\ pc[q] = "recording" /\ q \in Requests
        /\ pc'[q] \in {"leaving", "dead"}
    BY <1>4, RecordedGrows DEF TypeOK
  <2>2. pc[r] \in {"charging", "recording"}
    BY <1>2, <1>4
  <2>3. q = r
    BY <1>1, <2>1, <2>2, OneInside DEF Inside
  <2> QED
    BY <2>1, <2>3
<1> QED
  BY <1>3, <1>4

LEMMA LockedStep ==
    ASSUME TypeOK, TokensProtect, Unrecorded, LockedOncePerRef, [Next]_vars
    PROVE  LockedOncePerRef'
<1>1. lost \subseteq lost'
  BY DEF Next, Serve, AcquireLock, Busy, FindDuplicate, BeginPayment,
     DatabaseFails, CreateSession, StripeFails, Commit, CommitFails, Dispose,
     Crash, Expire, LoseLease, vars
<1>2. CASE UNCHANGED recorded
  BY <1>1, <1>2 DEF LockedOncePerRef
<1>3. ASSUME NEW r \in Requests, pc[r] = "recording",
             recorded' = recorded \cup {r}, UNCHANGED lost
      PROVE  LockedOncePerRef'
  BY <1>3 DEF LockedOncePerRef, Unrecorded, TypeOK
<1> QED
  BY <1>2, <1>3, RecordedGrows

LEMMA AnswersStep ==
    ASSUME TypeOK, AnswersOK, [Next]_vars PROVE AnswersOK'
<1> USE DEF AnswersOK, SuccessIsRecorded, DuplicateIsReal, TypeOK, Inside,
            Goto, Leave
<1>1. ASSUME NEW r \in Requests,
             AcquireLock(r) \/ Busy(r) \/ BeginPayment(r) \/ DatabaseFails(r)
      PROVE  AnswersOK'
  BY <1>1 DEF AcquireLock, Busy, BeginPayment, DatabaseFails
<1>2. ASSUME NEW r \in Requests, FindDuplicate(r) PROVE AnswersOK'
  BY <1>2 DEF FindDuplicate, SameRef
<1>3. ASSUME NEW r \in Requests, CreateSession(r) \/ StripeFails(r)
      PROVE  AnswersOK'
  BY <1>3 DEF CreateSession, StripeFails
<1>4. ASSUME NEW r \in Requests, Commit(r) \/ CommitFails(r)
      PROVE  AnswersOK'
  BY <1>4 DEF Commit, CommitFails
<1>5. ASSUME NEW r \in Requests, Dispose(r) \/ Expire(r) \/ LoseLease(r)
      PROVE  AnswersOK'
  BY <1>5 DEF Dispose, Expire, LoseLease
<1>6. ASSUME NEW r \in Requests, Crash(r) PROVE AnswersOK'
  BY <1>6 DEF Crash
<1>7. CASE UNCHANGED vars
  BY <1>7 DEF vars
<1> QED
  BY <1>1, <1>2, <1>3, <1>4, <1>5, <1>6, <1>7 DEF Next, Serve

LEMMA CheckoutInvariant ==
    Spec => [](TypeOK /\ TokensProtect /\ Unrecorded /\ LockedOncePerRef
               /\ AnswersOK)
<1>1. Init => TypeOK /\ TokensProtect /\ Unrecorded /\ LockedOncePerRef
              /\ AnswersOK
  BY CheckoutConstants
     DEF Init, TypeOK, TokensProtect, Unrecorded, LockedOncePerRef, AnswersOK,
         SuccessIsRecorded, DuplicateIsReal, Inside
<1>2. TypeOK /\ TokensProtect /\ Unrecorded /\ LockedOncePerRef /\ AnswersOK
        /\ [Next]_vars
        => TypeOK' /\ TokensProtect' /\ Unrecorded' /\ LockedOncePerRef'
           /\ AnswersOK'
  BY TypeStep, TokensStep, UnrecordedStep, LockedStep, AnswersStep
<1> QED
  BY <1>1, <1>2, PTL DEF Spec

\* Every variable keeps its type, and no request leaves without an answer.
THEOREM CheckoutTypes == Spec => []TypeOK
  BY CheckoutInvariant, PTL

\* The lease protects whoever has not lost it: for any number of requests,
\* nobody else's disposal or expiry takes its key away.
THEOREM TokensProtectHolders == Spec => []TokensProtect
  BY CheckoutInvariant, PTL

\* Among requests for one property that kept their leases, a transaction id is
\* recorded at most once: the check and the commit are one under the lease,
\* for any number of requests, retries and crashes.
THEOREM OncePerRefUnderLease == Spec => []LockedOncePerRef
  BY CheckoutInvariant, PTL

\* "created" is said only of a payment that is recorded and has its session,
\* through every crash, retry and lost lease.
THEOREM CreatedIsTrue == Spec => []SuccessIsRecorded
<1>1. TypeOK /\ AnswersOK => SuccessIsRecorded
  BY DEF AnswersOK, SuccessIsRecorded, TypeOK
<1> QED
  BY <1>1, CheckoutInvariant, PTL

\* "duplicate" is said only when another payment with the transaction id is
\* recorded.
THEOREM DuplicateIsTrue == Spec => []DuplicateIsReal
<1>1. TypeOK /\ AnswersOK => DuplicateIsReal
  BY DEF AnswersOK, DuplicateIsReal, TypeOK
<1> QED
  BY <1>1, CheckoutInvariant, PTL

\* What is recorded has a session to be paid with.
THEOREM RecordedIsPayable == Spec => []NoUnpayable
<1>1. TypeOK /\ AnswersOK => NoUnpayable
  BY DEF AnswersOK, NoUnpayable, TypeOK
<1> QED
  BY <1>1, CheckoutInvariant, PTL

\* A request that has not left has no answer, and one that has not called Stripe
\* has no session; a refusal comes before the call.
Untold ==
    /\ \A r \in Requests : pc[r] \in {"new"} \cup Inside => outcome[r] = "none"
    /\ \A r \in Requests : pc[r] \in {"new", "checking"} => r \notin sessions
    /\ RefusedIsUntouched

LEMMA UntoldStep ==
    ASSUME TypeOK, AnswersOK, Untold, [Next]_vars PROVE Untold'
<1> USE DEF Untold, AnswersOK, RefusedIsUntouched, TypeOK, Inside, Goto, Leave
<1>1. ASSUME NEW r \in Requests,
             AcquireLock(r) \/ Busy(r) \/ BeginPayment(r) \/ DatabaseFails(r)
      PROVE  Untold'
  BY <1>1 DEF AcquireLock, Busy, BeginPayment, DatabaseFails
<1>2. ASSUME NEW r \in Requests, FindDuplicate(r) PROVE Untold'
  BY <1>2 DEF FindDuplicate
<1>3. ASSUME NEW r \in Requests, CreateSession(r) \/ StripeFails(r)
      PROVE  Untold'
  BY <1>3 DEF CreateSession, StripeFails
<1>4. ASSUME NEW r \in Requests, Commit(r) \/ CommitFails(r)
      PROVE  Untold'
  BY <1>4 DEF Commit, CommitFails
<1>5. ASSUME NEW r \in Requests, Dispose(r) \/ Expire(r) \/ LoseLease(r)
      PROVE  Untold'
  BY <1>5 DEF Dispose, Expire, LoseLease
<1>6. ASSUME NEW r \in Requests, Crash(r) PROVE Untold'
  BY <1>6 DEF Crash
<1>7. CASE UNCHANGED vars
  BY <1>7 DEF vars
<1> QED
  BY <1>1, <1>2, <1>3, <1>4, <1>5, <1>6, <1>7 DEF Next, Serve

LEMMA UntoldInvariant == Spec => []Untold
<1>1. Init => Untold
  BY DEF Init, Untold, RefusedIsUntouched
<1>2. TypeOK /\ AnswersOK /\ Untold /\ [Next]_vars => Untold'
  BY UntoldStep
<1> QED
  BY <1>1, <1>2, CheckoutInvariant, PTL DEF Spec

\* A step of the service is a step of the book, or none of its business.
LEMMA BookStep ==
    ASSUME TypeOK, Unrecorded, AnswersOK, Untold, [Next]_vars
    PROVE  [Book!Next]_(Book!book)
<1> USE DEF Book!book, Book!Tell
<1>1. ASSUME NEW r \in Requests,
             AcquireLock(r) \/ BeginPayment(r) \/ Dispose(r) \/ Expire(r)
      PROVE  UNCHANGED Book!book
  BY <1>1 DEF AcquireLock, BeginPayment, Dispose, Expire
<1>2. ASSUME NEW r \in Requests, Busy(r) \/ FindDuplicate(r) \/ DatabaseFails(r)
      PROVE  Book!Refuse(r)
  <2>1. /\ pc[r] \in {"new"} \cup Inside
        /\ UNCHANGED <<recorded, sessions, lost>>
    BY <1>2 DEF Busy, FindDuplicate, DatabaseFails, Inside
  <2>2. outcome[r] = "none" /\ r \notin recorded
    BY <2>1 DEF Untold, AnswersOK
  <2>3. CASE Busy(r)
    BY <2>1, <2>2, <2>3 DEF Busy, Leave, Untold, Book!Refuse
  <2>4. CASE FindDuplicate(r)
    <3>1. \E q \in recorded \ {r} : RefOf[q] = RefOf[r]
      BY <2>2, <2>4 DEF FindDuplicate, SameRef
    <3> QED
      BY <2>1, <2>2, <2>4, <3>1 DEF FindDuplicate, Leave, Untold, Book!Refuse
  <2>5. CASE DatabaseFails(r)
    BY <2>1, <2>2, <2>5 DEF DatabaseFails, Leave, Book!Refuse
  <2> QED
    BY <1>2, <2>3, <2>4, <2>5
<1>3. ASSUME NEW r \in Requests, CreateSession(r) \/ StripeFails(r)
      PROVE  Book!Open(r) \/ Book!Refuse(r)
  <2>1. pc[r] = "charging" /\ outcome[r] = "none" /\ r \notin recorded
    BY <1>3 DEF CreateSession, StripeFails, Untold, AnswersOK, Inside
  <2>2. CASE CreateSession(r)
    BY <2>1, <2>2 DEF CreateSession, Book!Open, TypeOK
  <2>3. CASE StripeFails(r)
    BY <2>1, <2>3 DEF StripeFails, Leave, Book!Open, Book!Refuse
  <2> QED
    BY <1>3, <2>2, <2>3
<1>4. ASSUME NEW r \in Requests, pc[r] = "recording",
             recorded' = recorded \cup {r},
             \E a \in {"created", "error", "none"} :
                outcome' = [outcome EXCEPT ![r] = a],
             UNCHANGED <<sessions, lost>>
      PROVE  Book!Record(r)
  <2>1. outcome[r] = "none" /\ r \in sessions \ recorded
    BY <1>4 DEF Untold, AnswersOK, Inside
  <2>2. r \in lost \/ Book!Rivals(r) = {}
    BY <1>4 DEF Unrecorded, Book!Rivals
  <2> QED
    BY <1>4, <2>1, <2>2 DEF Book!Record
<1>5. ASSUME NEW r \in Requests, Commit(r) \/ CommitFails(r)
      PROVE  Book!Record(r) \/ Book!Refuse(r)
  <2>1. pc[r] = "recording" /\ outcome[r] = "none" /\ r \notin recorded
    BY <1>5 DEF Commit, CommitFails, Untold, AnswersOK, Inside
  <2>2. CASE recorded' = recorded \cup {r}
    BY <1>4, <1>5, <2>1, <2>2 DEF Commit, CommitFails, Leave
  <2>3. CASE recorded' # recorded \cup {r}
    BY <1>5, <2>1, <2>3 DEF Commit, CommitFails, Leave, Book!Refuse
  <2> QED
    BY <2>2, <2>3
<1>6. ASSUME NEW r \in Requests, Crash(r)
      PROVE  Book!Record(r) \/ UNCHANGED Book!book
  <2>1. CASE pc[r] = "recording" /\ recorded' = recorded \cup {r}
    <3>1. outcome' = [outcome EXCEPT ![r] = "none"]
      BY <1>6, <2>1 DEF Crash, Untold, TypeOK, Inside
    <3> QED
      BY <1>4, <1>6, <2>1, <3>1 DEF Crash
  <2>2. CASE ~(pc[r] = "recording" /\ recorded' = recorded \cup {r})
    BY <1>6, <2>2 DEF Crash
  <2> QED
    BY <2>1, <2>2
<1>7. ASSUME NEW r \in Requests, LoseLease(r)
      PROVE  Book!Weaken(r)
  BY <1>7 DEF LoseLease, Book!Weaken, Untold, AnswersOK
<1>8. CASE UNCHANGED vars
  BY <1>8 DEF vars
<1> QED
  BY <1>1, <1>2, <1>3, <1>5, <1>6, <1>7, <1>8 DEF Next, Serve, Book!Next

\* The service implements PaymentBook: for any number of requests, lost leases,
\* failures and crashes, each step that is seen from outside is one step of a
\* book that keeps a payment's rivals out, keeps what it has recorded and gives
\* each request at most one answer.
THEOREM CheckoutImplementsBook == Spec => ImplementsBook
<1>1. Init => Book!Init
  BY DEF Init, Book!Init
<1>2. TypeOK /\ Unrecorded /\ AnswersOK /\ Untold /\ [Next]_vars
        => [Book!Next]_(Book!book)
  BY BookStep
<1> QED
  BY <1>1, <1>2, CheckoutInvariant, UntoldInvariant, PTL
  DEF Spec, ImplementsBook, Book!Spec

\* A client that is told "busy" or "duplicate" has no payment and no session of
\* that request, whatever becomes of the other requests.
THEOREM RefusalsChargeNothing == Spec => []RefusedIsUntouched
BY UntoldInvariant, PTL DEF Untold

\* No request lost its lease midway.
NoneLost == lost = {}

\* Where the violated OncePerRef does hold: when a transaction id is used for
\* one property only and no lease is lost under its holder, it is recorded once
\* over all properties, retries and crashes.
THEOREM OncePerRefIfOneProperty ==
    ASSUME MaxLost = 0,
           \A q, r \in Requests : RefOf[q] = RefOf[r] => PropertyOf[q] = PropertyOf[r]
    PROVE  Spec => []OncePerRef
<1>1. Init => NoneLost
  BY DEF Init, NoneLost
<1>2. NoneLost /\ [Next]_vars => NoneLost'
  <2>1. Cardinality({}) = 0
    BY FS_EmptySet
  <2>2. ASSUME lost = {}, NEW r \in Requests PROVE ~LoseLease(r)
    BY <2>1, <2>2 DEF LoseLease
  <2> QED
    BY <2>2 DEF NoneLost, Next, Serve, AcquireLock, Busy, FindDuplicate,
       BeginPayment, DatabaseFails, CreateSession, StripeFails, Commit,
       CommitFails, Dispose, Crash, Expire, vars
<1>3. TypeOK /\ LockedOncePerRef /\ NoneLost => OncePerRef
  BY DEF TypeOK, LockedOncePerRef, OncePerRef, NoneLost
<1> QED
  BY <1>1, <1>2, <1>3, CheckoutInvariant, PTL DEF Spec
================================================================================
