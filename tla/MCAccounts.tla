------------------------------ MODULE MCAccounts ------------------------------
(***************************************************************************)
(* Instances of Accounts for TLC.                                          *)
(***************************************************************************)
EXTENDS Accounts, TLC

CONSTANTS a1, a2,                      \* registrations
          u1, f1, f2, s1, v1, c1, ph1, \* requests about the account of a1
          e1, e2, n1, n2               \* addresses and phone numbers

KindOf ==
    a1 :> "register" @@ a2 :> "register" @@ u1 :> "update" @@ f1 :> "forgot" @@ f2 :> "forgot"
    @@ s1 :> "reset" @@ v1 :> "verify" @@ c1 :> "change" @@ ph1 :> "photo"

\* The update wants the number with which a2 registers, and brings columns that
\* its form does not have: a status, and a token for which f1 has one, too.  The
\* second registration is active from the start.
BodyOf ==
    a1 :> [email |-> e1, phone |-> n1, names |-> a1]
    @@ a2 :> [email |-> e2, phone |-> n2, names |-> a2, status |-> "active"]
    @@ u1 :> [phone |-> n2, names |-> u1, status |-> "blocked", reset |-> u1]
    @@ f1 :> [email |-> e1] @@ f2 :> [email |-> e1]

MCKind == [r \in Requests |-> KindOf[r]]
MCSubject == [r \in Requests |-> IF r = a2 THEN a2 ELSE a1]
MCBody == [r \in Requests |-> IF r \in DOMAIN BodyOf THEN BodyOf[r] ELSE <<>>]
MCRoleOf == a1 :> "developer" @@ a2 :> "broker"
MCTokenOf == s1 :> f1
MCValues == Requests \cup {Null, "pending", "active", "blocked", e1, e2, n1, n2}
================================================================================
