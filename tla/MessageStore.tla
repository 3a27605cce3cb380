----------------------------- MODULE MessageStore -----------------------------
(***************************************************************************)
(* One conversation of the chat service: its messages in PostgreSQL, the   *)
(* list chat:messages:<id> that Redis keeps of them, and readers that page *)
(* through it (go_chat_service/services/chat_service.go,                   *)
(* handlers/chat_handlers.go, and the save in websocket/websocket.go).     *)
(*                                                                         *)
(* Messages are sent by goroutines that share nothing but the two stores:  *)
(* one per HTTP request, one per WebSocket connection.  There is no        *)
(* transaction around a send; each of its statements can fail on its own.  *)
(***************************************************************************)
EXTENDS Naturals, SequencesExt

CONSTANTS Messages,  \* messages that may be sent in a behaviour (a bound)
          OverWS,    \* those that come in on a WebSocket
          NoMessage, \* last_message_id is NULL
          Limits,    \* page sizes a reader may ask for (50 in the app), 0 included
          MaxLosses  \* bound on the failures and expiries of Redis

ASSUME StoreConstants ==
    /\ OverWS \subseteq Messages
    /\ NoMessage \notin Messages
    /\ Limits \subseteq Nat
    /\ MaxLosses \in Nat

VARIABLES
    pc,       \* how far each send is
    older,    \* older[m]: the messages with an earlier created_at than m's
    table,    \* the conversation's rows in the database, by created_at
    last,     \* the conversation's last_message_id
    list,     \* the Redis list of the conversation; no key is an empty list
    pager,    \* where the reader is
    limit,    \* the page size it asks for, while it reads
    offset,   \* where its next page starts, after the entries it has
    page,     \* the page the server has read for it and not yet answered with
    losses,   \* number of Redis commands that failed and keys that expired
    \* For the properties:
    seen,     \* the messages the reader has read
    due,      \* the messages whose send was over when it began to read
    before,   \* before[m]: those that were last message before m was begun
    over      \* over[m]: those whose send was over before m was begun

sendVars == <<pc, older, table, last, before, over>>
readVars == <<pager, limit, offset, page, seen, due>>
vars == <<pc, older, table, last, list, pager, limit, offset, page, losses,
          seen, due, before, over>>

\* A send between its first statement and its answer.
Busy == {"creating", "linking", "loading", "pushing", "repushing"}

rows == ToSet(table)

TypeOK ==
    /\ pc \in [Messages -> {"new", "sent", "failed"} \cup Busy]
    /\ older \in [Messages -> SUBSET Messages]
    /\ table \in Seq(Messages)
    /\ last \in Messages \cup {NoMessage}
    /\ list \in Seq(Messages)
    /\ pager \in {"idle", "asking", "falling", "counting", "recounting",
                 "done", "failed"}
    /\ limit \in Nat
    /\ offset \in Nat
    /\ page \in Seq(Messages)
    /\ losses \in 0..MaxLosses
    /\ seen \in SUBSET Messages
    /\ due \in SUBSET Messages
    /\ before \in [Messages -> SUBSET Messages]
    /\ over \in [Messages -> SUBSET Messages]
    /\ {m \in Messages : pc[m] \in {"linking", "loading", "pushing",
                                    "repushing", "sent"}} \subseteq rows

Init ==
    /\ pc = [m \in Messages |-> "new"]
    /\ older = [m \in Messages |-> {}]
    /\ table = <<>>
    /\ last = NoMessage
    /\ list = <<>>
    /\ pager = "idle"
    /\ limit = 0
    /\ offset = 0
    /\ page = <<>>
    /\ losses = 0
    /\ seen = {}
    /\ due = {}
    /\ before = [m \in Messages |-> {}]
    /\ over = [m \in Messages |-> {}]

\* What ORDER BY created_at DESC yields.
NewestFirst == Reverse(table)

\* The part of s a page is cut from s: s itself is not changed.
PageOf(s) == SubSeq(s, offset + 1,
                    IF offset + limit < Len(s) THEN offset + limit ELSE Len(s))

\* What Redis makes of the range from offset to offset + limit - 1: from 0 to -1
\* is the whole list.
RangeOf(s) == IF limit = 0 /\ offset = 0 THEN s ELSE PageOf(s)

\* What the query of the table makes of it: without a limit, all from offset on.
RowsOf(s) == IF limit = 0 THEN SubSeq(s, offset + 1, Len(s)) ELSE PageOf(s)

\* s with m put behind its first k entries.
Inserted(s, k, m) == SubSeq(s, 1, k) \o <<m>> \o SubSeq(s, k + 1, Len(s))

\* The row of m gets its place by created_at.
InsertRow(m) ==
    \E k \in 0..Len(table) :
        /\ \A i \in DOMAIN table : table[i] \in older[m] <=> i <= k
        /\ table' = Inserted(table, k, m)

Goto(m, l) == pc' = [pc EXCEPT ![m] = l]

\* There is no next page to ask for.
EndReading(l) == pager' = l /\ offset' = 0 /\ limit' = 0

--------------------------------------------------------------------------------
(* Wrong variants of the operations below.  No specification uses them; each *)
(* is a slip the code could contain, and breaks the property named with it.  *)

\* Goes on when the insert failed (TypeOK, ListHoldsRows).
InsertErrorIgnored(m) ==
    /\ pc[m] = "creating"
    /\ InsertRow(m) \/ UNCHANGED table
    /\ Goto(m, "linking")
    /\ UNCHANGED <<older, last, before, over, list, readVars, losses>>

\* Sets last_message_id only where it is NULL (LastNotOvertaken).
LinkFirstOnly(m) ==
    /\ pc[m] = "linking"
    /\ last' = IF last = NoMessage THEN m ELSE last
    /\ Goto(m, "loading")
    /\ UNCHANGED <<older, table, before, over, list, readVars, losses>>

\* Leaves the push to the WebSocket's reader (SentIsListed).
PushOnlyOverWS(m) ==
    /\ pc[m] = "pushing"
    /\ list' = IF m \in OverWS THEN Append(list, m) ELSE list
    /\ Goto(m, IF m \in OverWS THEN "repushing" ELSE "sent")
    /\ UNCHANGED <<older, table, last, before, over, readVars, losses>>

\* Pushes at the wrong end (HistoryInOrder).
PushFront(m) ==
    /\ pc[m] = "pushing"
    /\ list' = <<m>> \o list
    /\ Goto(m, IF m \in OverWS THEN "repushing" ELSE "sent")
    /\ UNCHANGED <<older, table, last, before, over, readVars, losses>>

\* Takes the page before the last entry for the last page (PagingComplete).
AnswerOffByOne(total) ==
    /\ IF offset + Len(page) + 1 < total
          THEN pager' = "asking" /\ offset' = offset + Len(page) /\ limit' = limit
          ELSE EndReading("done")
    /\ seen' = seen \cup ToSet(page)
    /\ page' = <<>>

--------------------------------------------------------------------------------
(* SendMessage.                                                            *)

\* The row is built: created_at is taken before the insert is sent.
Begin(m) ==
    /\ pc[m] = "new"
    /\ older' = [older EXCEPT ![m] = {n \in Messages : pc[n] # "new"}]
    /\ before' = [before EXCEPT ![m] = {n \in Messages :
                    n \in rows /\ pc[n] \notin {"creating", "linking"}}]
    /\ over' = [over EXCEPT ![m] = {n \in Messages : pc[n] = "sent"}]
    /\ Goto(m, "creating")
    /\ UNCHANGED <<table, last, list, readVars, losses>>

CreateRow(m) ==
    /\ pc[m] = "creating"
    /\ InsertRow(m)
    /\ Goto(m, "linking")
    /\ UNCHANGED <<older, last, before, over, list, readVars, losses>>

\* UPDATE conversations SET last_message_id: whoever comes last stays.
LinkLast(m) ==
    /\ pc[m] = "linking"
    /\ last' = m
    /\ Goto(m, "loading")
    /\ UNCHANGED <<older, table, before, over, list, readVars, losses>>

\* The message is read back with its sender.
LoadSender(m) ==
    /\ pc[m] = "loading"
    /\ Goto(m, "pushing")
    /\ UNCHANGED <<older, table, last, before, over, list, readVars, losses>>

\* Any of the three fails: the sender gets an error.  The row stays, if made.
DatabaseFails(m) ==
    /\ pc[m] \in {"creating", "linking", "loading"}
    /\ Goto(m, "failed")
    /\ UNCHANGED <<older, table, last, before, over, list, readVars, losses>>

\* RPUSH to the list and EXPIRE it in 30 days.
Push(m) ==
    /\ pc[m] = "pushing"
    /\ list' = Append(list, m)
    /\ Goto(m, IF m \in OverWS THEN "repushing" ELSE "sent")
    /\ UNCHANGED <<older, table, last, before, over, readVars, losses>>

\* A failure to push is logged, and the message counts as sent.
PushFails(m) ==
    /\ losses < MaxLosses
    /\ pc[m] = "pushing"
    /\ losses' = losses + 1
    /\ Goto(m, IF m \in OverWS THEN "repushing" ELSE "sent")
    /\ UNCHANGED <<older, table, last, before, over, list, readVars>>

\* readPump pushes what SendMessage returned to the same list again.
PushAgain(m) ==
    /\ pc[m] = "repushing"
    /\ \/ list' = Append(list, m)
       \/ UNCHANGED list
    /\ Goto(m, "sent")
    /\ UNCHANGED <<older, table, last, before, over, readVars, losses>>

--------------------------------------------------------------------------------
(* What the environment does to the senders and to Redis.                  *)

\* The process dies with the send under way.
Crash(m) ==
    /\ pc[m] \in Busy
    /\ Goto(m, "failed")
    /\ UNCHANGED <<older, table, last, before, over, list, readVars, losses>>

\* Nothing was pushed for 30 days; a send may be under way by then.
KeyExpires ==
    /\ losses < MaxLosses
    /\ list # <<>>
    /\ losses' = losses + 1
    /\ list' = <<>>
    /\ UNCHANGED <<sendVars, readVars>>

--------------------------------------------------------------------------------
(* A reader: GET .../messages with offset 0, then, while the answer has    *)
(* hasMore, with the number of entries read so far.                        *)

StartReading ==
    /\ pager = "idle"
    /\ pager' = "asking"
    /\ limit' \in Limits
    /\ due' = {m \in Messages : pc[m] = "sent"}
    /\ UNCHANGED <<sendVars, list, offset, page, seen, losses>>

\* GetConversationMessagesFromRedis: a range of the list, which is oldest
\* first ...
FetchRange ==
    /\ pager = "asking"
    /\ page' = RangeOf(list)
    /\ pager' = IF RangeOf(list) = <<>> THEN "falling" ELSE "counting"
    /\ UNCHANGED <<sendVars, list, limit, offset, seen, due, losses>>

\* ... and when that is empty, of the table, which is newest first.
FetchRows ==
    /\ pager = "falling"
    /\ page' = RowsOf(NewestFirst)
    /\ pager' = "counting"
    /\ UNCHANGED <<sendVars, list, limit, offset, seen, due, losses>>

\* The handler answers with the page and hasMore, and the client asks for the
\* next page at the number of entries it has.
Answer(total) ==
    /\ IF offset + Len(page) < total
          THEN pager' = "asking" /\ offset' = offset + Len(page) /\ limit' = limit
          ELSE EndReading("done")
    /\ seen' = seen \cup ToSet(page)
    /\ page' = <<>>

\* It counts the list ...
CountList ==
    /\ pager = "counting"
    /\ list # <<>>
    /\ Answer(Len(list))
    /\ UNCHANGED <<sendVars, list, due, losses>>

\* ... unless that is empty or Redis fails to say, and then the table.
CountListFails ==
    /\ pager = "counting"
    /\ \/ list = <<>> /\ UNCHANGED losses
       \/ losses < MaxLosses /\ losses' = losses + 1
    /\ pager' = "recounting"
    /\ UNCHANGED <<sendVars, list, limit, offset, page, seen, due>>

CountRows ==
    /\ pager = "recounting"
    /\ Answer(Len(table))
    /\ UNCHANGED <<sendVars, list, due, losses>>

\* Redis fails on the range or the database on the table: status 500.
ReadFails ==
    /\ pager \in {"asking", "falling", "recounting"}
    /\ EndReading("failed")
    /\ page' = <<>>
    /\ UNCHANGED <<sendVars, list, seen, due, losses>>

Send(m) == \/ Begin(m) \/ CreateRow(m) \/ LinkLast(m) \/ LoadSender(m)
           \/ DatabaseFails(m) \/ Push(m) \/ PushFails(m) \/ PushAgain(m)

Read == \/ StartReading \/ FetchRange \/ FetchRows
        \/ CountList \/ CountListFails \/ CountRows
        \/ ReadFails

Next == \/ \E m \in Messages : Send(m) \/ Crash(m)
        \/ KeyExpires
        \/ Read

Spec == Init /\ [][Next]_vars

--------------------------------------------------------------------------------
(* Properties.                                                             *)

\* What Redis serves is in the database: through failed statements, double
\* pushes and expiries it never shows a message that is stored nowhere else.
ListHoldsRows == ToSet(list) \subseteq rows

\* While Redis loses nothing, a message that counts as sent is in the list, so
\* the list can stand for the conversation.
SentIsListed ==
    losses = 0 => \A m \in Messages : pc[m] = "sent" => m \in ToSet(list)

\* The conversation's last message is never one that was there, linked, before
\* a message was begun whose send is over: sends that overlap may settle it
\* either way, but none undoes a later one.
LastNotOvertaken ==
    \A m \in Messages : pc[m] = "sent" =>
        /\ last \in rows
        /\ last \notin before[m]

\* A message whose send was over when another's began stands before it, in the
\* table and in the list: the two stores are written in different statements, and
\* the list twice, and yet do not show a conversation in two orders.
Follows(s) == \A i, j \in DOMAIN s : s[j] \in over[s[i]] => j < i

HistoryInOrder == Follows(table) /\ Follows(list)

\* A message is at most once in the list, or twice when it came by WebSocket,
\* whatever fails and expires between its pushes.
ListedAtMostTwice ==
    \A i, j \in DOMAIN list : i < j /\ list[i] = list[j] =>
        /\ list[i] \in OverWS
        /\ \A k \in DOMAIN list : list[k] = list[i] => k \in {i, j}

\* A reader that follows hasMore to the end has read every message whose send
\* was over when it began, whatever is sent, twice listed or failed meanwhile,
\* as long as Redis loses nothing.
PagingComplete ==
    losses = 0 /\ pager = "done" => due \subseteq seen

\* The same, whatever Redis loses: the rows are all in the database, and the
\* service falls back to it.
HistoryReachable == pager = "done" => due \subseteq seen
================================================================================
