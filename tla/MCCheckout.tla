------------------------------ MODULE MCCheckout ------------------------------
(***************************************************************************)
(* Instances of Payments for TLC.                                          *)
(***************************************************************************)
EXTENDS Payments, TLC

CONSTANTS r1, r2, r3, p1, p2, t1, m1, u1, u2, u3, pending, paid

\* Two requests race for one property with one transaction id, and a third
\* carries the same id for another property.
MCPropertyOf == r1 :> p1 @@ r2 :> p1 @@ r3 :> p2
MCRefOf == [r \in Requests |-> t1]

\* A checkout's payment is marked paid, and so, twice over, is a manual one,
\* which is also set back.
MCTarget == u1 :> m1 @@ u2 :> m1 @@ u3 :> r1
MCWants == m1 :> pending @@ u1 :> paid @@ u2 :> pending @@ u3 :> paid
================================================================================
