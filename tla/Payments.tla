------------------------------- MODULE Payments -------------------------------
(***************************************************************************)
(* The payment service whole (dotnet_service/Services/PaymentService.cs):  *)
(* checkout requests as in Checkout, and what an administrator does beside *)
(* them: manual payments and changes of a payment's status.                *)
(*                                                                         *)
(* A payment is called after the call that makes it.  Every HTTP request   *)
(* has a DbContext of its own: it reads the row anew, and its UPDATE sets  *)
(* the columns whose value differs from the one it read.                   *)
(***************************************************************************)
EXTENDS Checkout

CONSTANTS Manuals,   \* manual payments that may be entered in a behaviour (a bound)
          Updates,   \* status changes that may be asked for (a bound)
          Target,    \* Target[u]: the payment update u is about
          Wants,     \* Wants[c]: the status call c gives its payment
          Pending,   \* the status of a checkout's payment
          MaxCalls   \* calls of all kinds in a behaviour (a bound)

Calls == Manuals \cup Updates

ASSUME PaymentConstants ==
    /\ Calls \cap Requests = {} /\ Manuals \cap Updates = {}
    /\ Target \in [Updates -> Requests \cup Manuals]
    /\ MaxCalls \in Nat

VARIABLES
    entered,  \* manual payments with a row
    status,   \* status[p]: the status of payment p
    step,     \* how far each call is; "absent" is a 404
    found,    \* found[u]: the status update u read
    \* For the properties:
    over      \* over[u]: the updates that were over when u began

adminVars == <<entered, status, step, found, over>>
allVars == <<vars, adminVars>>

\* The rows of Payments.
Rows == recorded \cup entered

First(p) == IF p \in Manuals THEN Wants[p] ELSE Pending
Statuses == {Wants[c] : c \in Calls} \cup {Pending}

Over == {u \in Updates : step[u] \in {"ok", "error", "absent"}}

\* The administrator's variables have the shapes their operations assume.
AdminTypeOK ==
    /\ entered \subseteq Manuals
    /\ status \in [Requests \cup Manuals -> Statuses]
    /\ step \in [Calls -> {"new", "saving", "ok", "error", "absent"}]
    /\ found \in [Updates -> Statuses]
    /\ over \in [Updates -> SUBSET Updates]

InitPayments ==
    /\ Init
    /\ entered = {}
    /\ status = [p \in Requests \cup Manuals |-> First(p)]
    /\ step = [c \in Calls |-> "new"]
    /\ found = [u \in Updates |-> Pending]
    /\ over = [u \in Updates |-> {}]

Made == Cardinality({r \in Requests : pc[r] # "new"})
        + Cardinality({c \in Calls : step[c] # "new"})

To(c, s) == step' = [step EXCEPT ![c] = s]

\* One INSERT: it fails, or it is made and the answer may be lost.
CreateManualPayment(m) ==
    /\ step[m] = "new"
    /\ \/ entered' = entered \cup {m} /\ (To(m, "ok") \/ To(m, "error"))
       \/ UNCHANGED entered /\ To(m, "error")
    /\ UNCHANGED <<status, found, over>>

\* A mistake: a context that outlives its request still has the row as it was
\* made.
FindTracked(u) ==
    /\ step[u] = "new"
    /\ IF Target[u] \in Rows
          THEN found' = [found EXCEPT ![u] = First(Target[u])] /\ To(u, "saving")
          ELSE UNCHANGED found /\ To(u, "absent")
    /\ over' = [over EXCEPT ![u] = Over]
    /\ UNCHANGED <<entered, status>>

\* UpdatePaymentStatusAsync: FindAsync,
FindPayment(u) ==
    /\ step[u] = "new"
    /\ IF Target[u] \in Rows
          THEN found' = [found EXCEPT ![u] = status[Target[u]]] /\ To(u, "saving")
          ELSE UNCHANGED found /\ To(u, "absent")
    /\ over' = [over EXCEPT ![u] = Over]
    /\ UNCHANGED <<entered, status>>

\* and SaveChangesAsync, which may have been done when it fails.
SaveStatus(u) ==
    /\ step[u] = "saving"
    /\ \/ /\ status' = IF found[u] = Wants[u] THEN status
                       ELSE [status EXCEPT ![Target[u]] = Wants[u]]
          /\ To(u, "ok") \/ To(u, "error")
       \/ UNCHANGED status /\ To(u, "error")
    /\ UNCHANGED <<entered, found, over>>

Administer == \/ \E m \in Manuals : CreateManualPayment(m)
              \/ \E u \in Updates : FindPayment(u) \/ SaveStatus(u)

NextPayments == /\ \/ Next /\ UNCHANGED adminVars
                   \/ Administer /\ UNCHANGED vars
                /\ Made' <= MaxCalls

SpecPayments == InitPayments /\ [][NextPayments]_allVars

FairSpecPayments == SpecPayments /\ Fairness

-----------------------------------------------------------------------------
(* Properties.                                                             *)

\* A status change that was reported done is in force until one takes effect
\* that was not over before it began: although the service compares and writes
\* what it read a while ago, no change is undone by an earlier one, nor is it
\* skipped because the row once had that status.
StatusNotOvertaken ==
    \A u \in Updates : step[u] = "ok" =>
        \/ status[Target[u]] = Wants[u]
        \/ \E w \in Updates \ over[u] :
              /\ Target[w] = Target[u] /\ Wants[w] = status[Target[u]]
              /\ step[w] \in {"ok", "error"}
================================================================================
