------------------------------ MODULE AccountBook ------------------------------
(***************************************************************************)
(* What clients may expect of the account requests, without the reads,     *)
(* awaits and writes they are made of: a request takes effect once, in one *)
(* step, and changes nothing but what it is for; or it never does.         *)
(***************************************************************************)
CONSTANTS Requests,  \* the requests that may be made
          Kind,      \* what each of them is for
          Subject,   \* the account it is about: the registration that opens it
          Gives,     \* the columns it gives, with their values
          Body,      \* the columns it brings, an address among them
          TokenOf,   \* the token that a password reset gives
          NoRow      \* no such account

VARIABLES book,    \* book[a]: the account opened by registration a
          applied  \* the requests that took effect

vars == <<book, applied>>

Init == /\ book = [a \in Requests |-> NoRow]
        /\ applied = {}

\* What request r makes of an account: the columns it does not give are kept.
Effect(r, row) == [k \in DOMAIN row |-> IF k \in DOMAIN Gives[r] THEN Gives[r][k] ELSE row[k]]

\* No two accounts share an address or a number.
Distinct(b) ==
    \A a, c \in Requests :
        a # c /\ b[a] # NoRow /\ b[c] # NoRow =>
            b[a].email # b[c].email /\ b[a].phone # b[c].phone

Open(r) ==
    /\ Kind[r] = "register"
    /\ book[r] = NoRow
    /\ book' = [book EXCEPT ![r] = Gives[r]]

\* A lost password takes the address of the account, a new one its last token.
Alter(r) ==
    /\ Kind[r] # "register"
    /\ book[Subject[r]] # NoRow
    /\ Kind[r] = "forgot" => book[Subject[r]].email = Body[r].email
    /\ Kind[r] = "reset" => book[Subject[r]].reset = TokenOf[r]
    /\ book' = [book EXCEPT ![Subject[r]] = Effect(r, @)]

Apply(r) ==
    /\ r \notin applied
    /\ applied' = applied \cup {r}
    /\ Open(r) \/ Alter(r)
    /\ Distinct(book')

Next == \E r \in Requests : Apply(r)

Spec == Init /\ [][Next]_vars
================================================================================
