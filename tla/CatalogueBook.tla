----------------------------- MODULE CatalogueBook -----------------------------
(***************************************************************************)
(* What clients may expect of the catalogue: every request takes effect in *)
(* one step or not at all, an upload file by file; nothing is shown of a   *)
(* property or a company that is not there, and nothing that others still  *)
(* refer to goes away.  One weakness is part of it: a save that meets a    *)
(* removal of the same row is lost or undoes it.                           *)
(***************************************************************************)
EXTENDS Naturals

CONSTANTS Requests,  \* the requests that may be made
          Kind,      \* what each of them is for
          Subject,   \* the row it is about, named by the request that makes it
          Parent,    \* the company a new property belongs to
          Gives,     \* the columns it gives to its row, with their values
          Count,     \* the number of files an upload brings
          NoRow,     \* no such row
          Null       \* nothing in a column

VARIABLES rows,    \* rows[a]: the company or property opened by request a
          listed,  \* the files <<r, i>> shown with their property
          applied  \* the requests that took effect

vars == <<rows, listed, applied>>

Init == /\ rows = [a \in Requests |-> NoRow]
        /\ listed = {}
        /\ applied = {}

Columns == {"info", "logo"}

\* What request r makes of a row: the columns it does not give are kept.
Effect(r, row) == [k \in Columns |-> IF k \in DOMAIN Gives[r] THEN Gives[r][k] ELSE row[k]]

Open(r) ==
    /\ Kind[r] \in {"newCompany", "newProperty"} /\ rows[r] = NoRow
    /\ Kind[r] = "newProperty" => rows[Parent[r]] # NoRow
    /\ rows' = [rows EXCEPT ![r] = Effect(r, [k \in Columns |-> Null])]
    /\ UNCHANGED listed

Alter(r) ==
    /\ Kind[r] \in {"edit", "logo"} /\ rows[Subject[r]] # NoRow
    /\ rows' = [rows EXCEPT ![Subject[r]] = Effect(r, @)]
    /\ UNCHANGED listed

\* The row was removed while the save was under way.
Late(r) ==
    /\ Kind[r] \in {"edit", "logo"} /\ rows[Subject[r]] = NoRow
    /\ \E q \in applied : Kind[q] = "remove" /\ Subject[q] = Subject[r]
    /\ \/ UNCHANGED rows
       \/ /\ Kind[Subject[r]] = "newProperty" => rows[Parent[Subject[r]]] # NoRow
          /\ \E old \in [Columns -> Requests \cup {Null}] :
                rows' = [rows EXCEPT ![Subject[r]] = Effect(r, old)]
    /\ UNCHANGED listed

\* Nothing that is left refers to what goes.
Close(r) ==
    /\ Kind[r] = "remove" /\ rows[Subject[r]] # NoRow
    /\ \A b \in Requests : /\ Kind[b] = "newProperty" /\ rows[b] # NoRow
                           => Parent[b] # Subject[r]
    /\ \A f \in listed : Subject[f[1]] # Subject[r]
    /\ rows' = [rows EXCEPT ![Subject[r]] = NoRow]
    /\ UNCHANGED listed

Apply(r) ==
    /\ r \notin applied
    /\ Open(r) \/ Alter(r) \/ Late(r) \/ Close(r)
    /\ applied' = applied \cup {r}

\* The files of an upload appear in their order.
Show(r) ==
    /\ Kind[r] \in {"images", "videos"} /\ rows[Subject[r]] # NoRow
    /\ \E i \in 1..Count[r] :
         /\ \A j \in 1..Count[r] : <<r, j>> \in listed <=> j < i
         /\ listed' = listed \cup {<<r, i>>}
    /\ UNCHANGED <<rows, applied>>

Next == \E r \in Requests : Apply(r) \/ Show(r)

Spec == Init /\ [][Next]_vars
================================================================================
