---------------------------- MODULE PaymentsProofs ----------------------------
(***************************************************************************)
(* Proofs about Payments for any number of requests, manual payments and   *)
(* status changes.                                                         *)
(***************************************************************************)
EXTENDS Payments, TLAPS

\* The status of u's payment is that of an update that was not over when u
\* began, and is now.
Later(u) ==
    \E w \in Updates \ over[u] :
        /\ Target[w] = Target[u] /\ Wants[w] = status[Target[u]]
        /\ step[w] \in {"ok", "error"}

\* What an update has read is stale only through such an update.
StaleForAReason ==
    \A u \in Updates : step[u] = "saving" =>
        found[u] = status[Target[u]] \/ Later(u)

\* What was over is over.
OverOK == \A u \in Updates : over[u] \subseteq Over

UpdatesOK == AdminTypeOK /\ OverOK /\ StaleForAReason /\ StatusNotOvertaken

LEMMA WantsInStatuses ==
    /\ Pending \in Statuses
    /\ \A c \in Calls : Wants[c] \in Statuses
    /\ \A p \in Requests \cup Manuals : First(p) \in Statuses
BY DEF Statuses, First, Calls

LEMMA InitUpdates == ASSUME InitPayments PROVE UpdatesOK
<1>1. AdminTypeOK
  BY WantsInStatuses DEF InitPayments, AdminTypeOK
<1>2. \A u \in Updates : step[u] = "new" /\ over[u] = {}
  BY DEF InitPayments, Calls
<1> QED
  BY <1>1, <1>2
  DEF UpdatesOK, OverOK, StaleForAReason, StatusNotOvertaken

LEMMA AdminTypeStep ==
    ASSUME AdminTypeOK, [NextPayments]_allVars PROVE AdminTypeOK'
<1> USE PaymentConstants, WantsInStatuses DEF AdminTypeOK, Calls, To
<1>1. ASSUME NEW m \in Manuals, CreateManualPayment(m) PROVE AdminTypeOK'
  BY <1>1 DEF CreateManualPayment
<1>2. ASSUME NEW u \in Updates, FindPayment(u) PROVE AdminTypeOK'
  BY <1>2 DEF FindPayment, Over
<1>3. ASSUME NEW u \in Updates, SaveStatus(u) PROVE AdminTypeOK'
  BY <1>3 DEF SaveStatus
<1>4. CASE UNCHANGED adminVars
  BY <1>4 DEF adminVars
<1> QED
  BY <1>1, <1>2, <1>3, <1>4 DEF NextPayments, Administer, allVars

\* A call that has not begun has no part in what is said of the others.
LEMMA FindStep ==
    ASSUME UpdatesOK, AdminTypeOK', NEW v \in Updates, FindPayment(v)
    PROVE  UpdatesOK'
<1> USE PaymentConstants DEF UpdatesOK, AdminTypeOK, FindPayment, To, Calls
<1>1. \A u \in Updates \ {v} : step'[u] = step[u] /\ found'[u] = found[u]
                               /\ over'[u] = over[u]
  OBVIOUS
<1>2. step[v] = "new" /\ step'[v] \in {"saving", "absent"} /\ over'[v] = Over
  OBVIOUS
<1>3. Over \subseteq Over'
  BY <1>1, <1>2 DEF Over
<1>4. OverOK'
  BY <1>1, <1>2, <1>3 DEF OverOK
<1>5. \A u \in Updates \ {v} : Later(u) => Later(u)'
  BY <1>1, <1>2 DEF Later
<1>6. StaleForAReason'
  <2> SUFFICES ASSUME NEW u \in Updates, step'[u] = "saving"
               PROVE  found'[u] = status[Target[u]] \/ Later(u)'
    BY DEF StaleForAReason
  <2>1. CASE u = v
    BY <2>1
  <2>2. CASE u # v
    BY <2>2, <1>1, <1>5 DEF StaleForAReason
  <2> QED
    BY <2>1, <2>2
<1>7. StatusNotOvertaken'
  <2> SUFFICES ASSUME NEW u \in Updates, step'[u] = "ok"
               PROVE  status[Target[u]] = Wants[u] \/ Later(u)'
    BY DEF StatusNotOvertaken, Later
  <2>1. u # v
    BY <1>2
  <2> QED
    BY <2>1, <1>1, <1>5 DEF StatusNotOvertaken, Later
<1> QED
  BY <1>4, <1>6, <1>7

\* An UPDATE of v: every update of the same payment that is under way or done
\* has v for a reason, for it was not over when v was still saving.
LEMMA SaveStep ==
    ASSUME UpdatesOK, AdminTypeOK', NEW v \in Updates, SaveStatus(v)
    PROVE  UpdatesOK'
<1> USE PaymentConstants DEF UpdatesOK, AdminTypeOK, SaveStatus, To, Calls
<1>1. \A u \in Updates \ {v} : step'[u] = step[u]
  OBVIOUS
<1>2. step[v] = "saving" /\ step'[v] \in {"ok", "error"}
      /\ UNCHANGED <<found, over>>
  OBVIOUS
<1>3. OverOK' /\ \A u \in Updates : v \notin over[u]
  BY <1>1, <1>2 DEF OverOK, Over
<1>4. CASE UNCHANGED status
  <2>1. \A u \in Updates : Later(u) => Later(u)'
    BY <1>1, <1>2, <1>4 DEF Later
  <2>2. StaleForAReason'
    BY <2>1, <1>1, <1>2, <1>4 DEF StaleForAReason
  <2>3. step'[v] = "ok" => found[v] = Wants[v] \/ status[Target[v]] = Wants[v]
    BY <1>4
  <2>4. StatusNotOvertaken'
    <3> SUFFICES ASSUME NEW u \in Updates, step'[u] = "ok"
                 PROVE  status[Target[u]] = Wants[u] \/ Later(u)'
      BY <1>4 DEF StatusNotOvertaken, Later
    <3>1. CASE u = v
      BY <3>1, <2>1, <2>3, <1>2 DEF StaleForAReason
    <3>2. CASE u # v
      BY <3>2, <2>1, <1>1 DEF StatusNotOvertaken, Later
    <3> QED
      BY <3>1, <3>2
  <2> QED
    BY <1>3, <2>2, <2>4
<1>5. CASE status' = [status EXCEPT ![Target[v]] = Wants[v]]
  <2>1. status'[Target[v]] = Wants[v]
    BY <1>5
  <2>2. ASSUME NEW u \in Updates, Target[u] = Target[v] PROVE Later(u)'
    BY <2>1, <2>2, <1>2, <1>3 DEF Later
  <2>3. ASSUME NEW u \in Updates, Target[u] # Target[v]
        PROVE  status'[Target[u]] = status[Target[u]] /\ (Later(u) => Later(u)')
    <3>1. status'[Target[u]] = status[Target[u]]
      BY <2>3, <1>5
    <3> QED
      BY <2>3, <3>1, <1>1, <1>2 DEF Later
  <2>4. StaleForAReason'
    BY <2>2, <2>3, <1>1, <1>2 DEF StaleForAReason
  <2>5. StatusNotOvertaken'
    <3> SUFFICES ASSUME NEW u \in Updates, step'[u] = "ok"
                 PROVE  status'[Target[u]] = Wants[u] \/ Later(u)'
      BY DEF StatusNotOvertaken, Later
    <3>1. CASE Target[u] = Target[v]
      BY <3>1, <2>2
    <3>2. CASE Target[u] # Target[v]
      BY <3>2, <2>3, <1>1 DEF StatusNotOvertaken, Later
    <3> QED
      BY <3>1, <3>2
  <2> QED
    BY <1>3, <2>4, <2>5
<1> QED
  BY <1>4, <1>5

\* A manual payment is no update.
LEMMA ManualStep ==
    ASSUME UpdatesOK, AdminTypeOK', NEW m \in Manuals, CreateManualPayment(m)
    PROVE  UpdatesOK'
<1>1. /\ \A u \in Updates : step'[u] = step[u]
      /\ UNCHANGED <<status, found, over>>
  BY PaymentConstants
  DEF UpdatesOK, AdminTypeOK, CreateManualPayment, To, Calls
<1> QED
  BY <1>1 DEF UpdatesOK, OverOK, Over, StaleForAReason, StatusNotOvertaken, Later

LEMMA UpdatesInvariant == SpecPayments => []UpdatesOK
<1>1. InitPayments => UpdatesOK
  BY InitUpdates
<1>2. UpdatesOK /\ [NextPayments]_allVars => UpdatesOK'
  <2> SUFFICES ASSUME UpdatesOK, [NextPayments]_allVars PROVE UpdatesOK'
    OBVIOUS
  <2>1. AdminTypeOK'
    BY AdminTypeStep DEF UpdatesOK
  <2>2. ASSUME NEW m \in Manuals, CreateManualPayment(m) PROVE UpdatesOK'
    BY <2>1, <2>2, ManualStep
  <2>3. ASSUME NEW u \in Updates, FindPayment(u) PROVE UpdatesOK'
    BY <2>1, <2>3, FindStep
  <2>4. ASSUME NEW u \in Updates, SaveStatus(u) PROVE UpdatesOK'
    BY <2>1, <2>4, SaveStep
  <2>5. CASE UNCHANGED adminVars
    BY <2>1, <2>5
    DEF UpdatesOK, OverOK, Over, StaleForAReason, StatusNotOvertaken, Later,
        adminVars
  <2> QED
    BY <2>2, <2>3, <2>4, <2>5 DEF NextPayments, Administer, allVars
<1> QED
  BY <1>1, <1>2, PTL DEF SpecPayments

\* The administrator's variables keep their types.
THEOREM AdminTypes == SpecPayments => []AdminTypeOK
BY UpdatesInvariant, PTL DEF UpdatesOK

\* A status change that was reported done is undone only by one that was not
\* over before it began (UpdatePaymentStatusAsync reads, compares and writes
\* without a lock or a version).
THEOREM StatusHolds == SpecPayments => []StatusNotOvertaken
BY UpdatesInvariant, PTL DEF UpdatesOK

\* What administrators do does not touch checkouts: with them, the payment
\* service still behaves as Checkout says, so that what is proved of Checkout
\* holds of it.
THEOREM PaymentsKeepCheckout == SpecPayments => Spec
<1>1. InitPayments => Init
  BY DEF InitPayments
<1>2. [NextPayments]_allVars => [Next]_vars
  BY DEF NextPayments, allVars
<1> QED
  BY <1>1, <1>2, PTL DEF SpecPayments, Spec
================================================================================
