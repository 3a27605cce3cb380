--------------------------- MODULE MCConversations ---------------------------
(***************************************************************************)
(* An instance of Conversations for TLC.                                   *)
(***************************************************************************)
EXTENDS Conversations, TLC

CONSTANTS u, v, w,        \* users
          o1, o2, o3,     \* u opens v, v opens u, u opens w
          s1, s2,         \* u writes to v, w to u
          f1, f2,         \* u and v upload a file of one name to each other
          m1, n1          \* v marks the conversation and counts

KindOf ==
    o1 :> "open" @@ o2 :> "open" @@ o3 :> "open" @@ s1 :> "send" @@ s2 :> "send"
    @@ f1 :> "upload" @@ f2 :> "upload" @@ m1 :> "mark" @@ n1 :> "count"

MCKind == [r \in Requests |-> KindOf[r]]
MCBy == o1 :> u @@ o2 :> v @@ o3 :> u @@ s1 :> u @@ s2 :> w @@ f1 :> u @@ f2 :> v
        @@ m1 :> v @@ n1 :> v
MCWith == o1 :> v @@ o2 :> u @@ o3 :> w
MCVia == s1 :> o1 @@ s2 :> o3 @@ f1 :> o1 @@ f2 :> o2 @@ m1 :> o2
MCId == [r \in Requests |-> CASE r = o1 -> 5 [] r = o2 -> 4 [] r = o3 -> 6
                              [] r = s1 -> 1 [] r = s2 -> 2 [] r = f1 -> 3
                              [] r = f2 -> 7 [] r = m1 -> 8 [] r = n1 -> 9]
MCName == [r \in {f1, f2} |-> "photo"]
MCSize == f1 :> 1 @@ f2 :> 2
================================================================================
