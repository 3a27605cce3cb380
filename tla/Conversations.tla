----------------------------- MODULE Conversations -----------------------------
(***************************************************************************)
(* Conversations, read flags and uploaded files of the chat service        *)
(* (go_chat_service/services/chat_service.go, handlers/chat_handlers.go):  *)
(* concurrent requests, statement by statement.                            *)
(*                                                                         *)
(* A conversation is called after the request that created it, a message   *)
(* and a block of a file after the request that sent it.  A file is copied *)
(* and read block by block.  Of a message only its row matters here: what  *)
(* SendMessage does after the INSERT is in MessageStore.                   *)
(***************************************************************************)
EXTENDS Naturals, FiniteSets

CONSTANTS Requests,  \* requests that may be made in a behaviour (a bound)
          Kind,      \* Kind[r]: what it asks for
          By,        \* By[r]: the user who asks
          With,      \* With[r]: the other user of an opening
          Id,        \* Id[r]: the random id of the row opening r creates
          Via,       \* Via[r]: the opening that told its user the conversation
          Name,      \* Name[r]: the name of an uploaded file
          Size,      \* Size[r]: its blocks
          Blocks,    \* blocks of a file (a bound)
          Null,      \* nothing
          Overlap,   \* may openings of a pair, or uploads of a name, overlap?
          MaxMade,   \* requests made in a behaviour (a bound)
          MaxFaults  \* failures and lost answers in a behaviour (a bound)

Kinds == {"open", "send", "upload", "mark", "count"}
Requesting(k) == {r \in Requests : Kind[r] = k}

\* What a file may hold: blocks of uploads, zeros where nobody wrote, and Null
\* from its end on.
Contents == [1..Blocks -> Requesting("upload") \cup {Null}]

ASSUME ConversationConstants ==
    /\ Kind \in [Requests -> Kinds]
    /\ Id \in [Requests -> Nat]
    /\ \A r, q \in Requests : Id[r] = Id[q] => r = q
    /\ \A r \in Requests : Kind[r] \in {"send", "upload", "mark"} =>
         Via[r] \in Requests /\ Kind[Via[r]] = "open"
    /\ Blocks \in Nat \ {0}
    /\ \A r \in Requests : Kind[r] = "upload" => Size[r] \in 1..Blocks
    /\ Null \notin Requests /\ Null \notin Contents
    /\ Overlap \in BOOLEAN
    /\ MaxMade \in Nat /\ MaxFaults \in Nat

VARIABLES
    convs,     \* rows of conversations
    messages,  \* rows of messages
    read,      \* messages with is_read
    disk,      \* disk[f]: what the file f holds, or Null if there is none
    blob,      \* blob[f]: what Redis holds for it, or Null
    pc,        \* how far each request is
    told,      \* told[r]: the conversation opening r was answered with
    at,        \* at[r]: the block upload r is at, in copying or in reading
    bytes,     \* bytes[r]: what upload r has read back from the disk
    mine,      \* mine[r]: the conversations count r works on
    counted,   \* counted[r]: the messages it counted
    answer,    \* what the client was told
    faults,    \* failures so far
    \* For the properties:
    asked      \* asked[r]: the messages there, for a count those unread, when r began

vars == <<convs, messages, read, disk, blob, pc, told, at, bytes, mine, counted,
          answer, faults, asked>>

Pair(o) == {By[o], With[o]}

\* The conversation of a message, a mark or an upload; and its file.
Home(r) == told[Via[r]]
File(r) == <<Home(r), Name[r]>>
Files == {<<c, Name[r]>> : c \in Requesting("open"), r \in Requesting("upload")}

\* The first n blocks of a file of upload r; an empty file; the whole one.
Prefix(r, n) == [i \in 1..Blocks |-> IF i <= n THEN r ELSE Null]
Empty == [i \in 1..Blocks |-> Null]
Whole(r) == Prefix(r, Size[r])

\* The messages user u has yet to read, of those in conversations cs.
Unread(u, cs) == {m \in messages \ read : Home(m) \in cs /\ By[m] # u}

Involving(u) == {c \in convs : u \in Pair(c)}

TypeOK ==
    /\ convs \subseteq Requesting("open")
    /\ messages \subseteq Requesting("send") \cup Requesting("upload")
    /\ read \subseteq messages
    /\ {disk, blob} \subseteq [Files -> Contents \cup {Null}]
    /\ pc \in [Requests -> {"new", "creating", "loading", "copying", "reading",
                            "storing", "sending", "counting", "done"}]
    /\ told \in [Requests -> convs \cup {Null}]
    /\ at \in [Requests -> 1..(Blocks + 1)]
    /\ bytes \in [Requests -> Contents]
    /\ mine \in [Requests -> SUBSET convs]
    /\ counted \in [Requests -> SUBSET messages]
    /\ asked \in [Requests -> SUBSET messages]
    /\ answer \in [Requests -> {"none", "ok", "refused", "error"}]
    /\ faults \in 0..MaxFaults

Init ==
    /\ convs = {} /\ messages = {} /\ read = {}
    /\ disk = [f \in Files |-> Null] /\ blob = [f \in Files |-> Null]
    /\ pc = [r \in Requests |-> "new"]
    /\ told = [r \in Requests |-> Null]
    /\ at = [r \in Requests |-> 1] /\ bytes = [r \in Requests |-> Empty]
    /\ mine = [r \in Requests |-> {}] /\ counted = [r \in Requests |-> {}]
    /\ answer = [r \in Requests |-> "none"]
    /\ faults = 0
    /\ asked = [r \in Requests |-> {}]

db == <<convs, messages, read>>
files == <<disk, blob, at, bytes>>
counts == <<mine, counted>>

Goto(r, l) == pc' = [pc EXCEPT ![r] = l] /\ UNCHANGED <<answer, faults>>

End(r, a) == /\ pc' = [pc EXCEPT ![r] = "done"]
             /\ answer' = [answer EXCEPT ![r] = a]

Reply(r, a) == End(r, a) /\ UNCHANGED faults

\* A failure of the database, Redis, the disk or the service.
Break(r) == faults < MaxFaults /\ faults' = faults + 1 /\ End(r, "error")

Same(r, q) == \/ Kind[r] = "open" /\ Kind[q] = "open" /\ Pair(r) = Pair(q)
              \/ Kind[r] = "upload" /\ Kind[q] = "upload" /\ File(r) = File(q)

Starts(r, kind) ==
    /\ pc[r] = "new" /\ Kind[r] = kind
    /\ Cardinality({q \in Requests : pc[q] # "new"}) < MaxMade
    /\ kind \notin {"open", "count"} => answer[Via[r]] = "ok"
    /\ Overlap \/ \A q \in Requests \ {r} : Same(r, q) => pc[q] \in {"new", "done"}
    /\ asked' = [asked EXCEPT ![r] =
                    IF kind = "count" THEN Unread(By[r], Involving(By[r])) ELSE messages]

-----------------------------------------------------------------------------
(* GetOrCreateConversation: look for the pair, either way round, and create *)
(* it if there is none.  No constraint keeps a pair unique.                *)

\* A mistake: the pair is looked for one way round.
LooksOneWay(r) ==
    LET found == {c \in convs : By[c] = By[r] /\ With[c] = With[r]}
    IN  /\ Starts(r, "open")
        /\ \/ \E c \in found :
                 /\ \A d \in found : Id[c] <= Id[d]
                 /\ told' = [told EXCEPT ![r] = c]
                 /\ Reply(r, "ok")
           \/ found = {} /\ Goto(r, "creating") /\ UNCHANGED told
        /\ UNCHANGED <<db, files, counts>>

Look(r) ==
    LET found == {c \in convs : Pair(c) = Pair(r)}
    IN  /\ Starts(r, "open")
        /\ \/ \E c \in found :
                 /\ \A d \in found : Id[c] <= Id[d]
                 /\ told' = [told EXCEPT ![r] = c]
                 /\ Reply(r, "ok")
           \/ found = {} /\ Goto(r, "creating") /\ UNCHANGED told
        /\ UNCHANGED <<db, files, counts>>

\* A mistake: the error of the INSERT is not looked at.
CreateErrorIgnored(r) ==
    /\ pc[r] = "creating"
    /\ convs' = convs \cup {r} \/ UNCHANGED convs
    /\ Goto(r, "loading")
    /\ UNCHANGED <<messages, read, files, told, counts, asked>>

Create(r) ==
    /\ pc[r] = "creating"
    /\ convs' = convs \cup {r}
    /\ Goto(r, "loading") \/ Break(r)
    /\ UNCHANGED <<messages, read, files, told, counts, asked>>

LoadParticipants(r) ==
    /\ pc[r] = "loading"
    /\ told' = [told EXCEPT ![r] = r]
    /\ Reply(r, "ok")
    /\ UNCHANGED <<db, files, counts, asked>>

-----------------------------------------------------------------------------
(* Messages, read flags and the unread count.                              *)

InsertMessage(r) ==
    /\ messages' = messages \cup {r}
    /\ Reply(r, "ok") \/ Break(r)
    /\ UNCHANGED <<convs, read, files, told, counts>>

Send(r) == Starts(r, "send") /\ InsertMessage(r)

\* A mistake: the sender is not told from the reader.
MarksAll(r) ==
    /\ Starts(r, "mark")
    /\ read' = read \cup {m \in messages : Home(m) = Home(r)}
    /\ Reply(r, "ok") \/ Break(r)
    /\ UNCHANGED <<convs, messages, files, told, counts>>

MarkConversationAsRead(r) ==
    /\ Starts(r, "mark")
    /\ read' = read \cup Unread(By[r], {Home(r)})
    /\ Reply(r, "ok") \/ Break(r)
    /\ UNCHANGED <<convs, messages, files, told, counts>>

\* A mistake: only the conversations the user opened.
PluckOpened(r) ==
    /\ Starts(r, "count")
    /\ mine' = [mine EXCEPT ![r] = {c \in convs : By[c] = By[r]}]
    /\ Goto(r, "counting")
    /\ UNCHANGED <<db, files, told, counted>>

\* A mistake: the condition on is_read is left out.
CountReceived(r) ==
    /\ pc[r] = "counting"
    /\ counted' = [counted EXCEPT ![r] =
                     {m \in messages : Home(m) \in mine[r] /\ By[m] # By[r]}]
    /\ Reply(r, "ok")
    /\ UNCHANGED <<db, files, told, mine, asked>>

\* GetUnreadMessageCount asks for the user's conversations first,
PluckConversations(r) ==
    /\ Starts(r, "count")
    /\ mine' = [mine EXCEPT ![r] = Involving(By[r])]
    /\ IF Involving(By[r]) = {} THEN Reply(r, "ok") ELSE Goto(r, "counting")
    /\ UNCHANGED <<db, files, told, counted>>

\* and for the number of unread messages in them next.
CountUnread(r) ==
    /\ pc[r] = "counting"
    /\ counted' = [counted EXCEPT ![r] = Unread(By[r], mine[r])]
    /\ Reply(r, "ok")
    /\ UNCHANGED <<db, files, told, mine, asked>>

-----------------------------------------------------------------------------
(* UploadFile: the disk, Redis, and only then the form and the message.    *)

\* os.Create empties the file that is there.
CreateFile(r) ==
    /\ Starts(r, "upload")
    /\ \/ disk' = [disk EXCEPT ![File(r)] = Empty] /\ Goto(r, "copying")
       \/ (Reply(r, "refused") \/ Break(r)) /\ UNCHANGED disk    \* ValidateFile
    /\ UNCHANGED <<db, blob, at, told, bytes, counts>>

\* io.Copy writes at its own place in the file, whoever empties it meanwhile.
CopyBlock(r) ==
    /\ pc[r] = "copying"
    /\ disk' = [disk EXCEPT ![File(r)][at[r]] = r]
    /\ at' = [at EXCEPT ![r] = IF @ = Size[r] THEN 1 ELSE @ + 1]
    /\ Goto(r, IF at[r] = Size[r] THEN "reading" ELSE "copying")
    /\ UNCHANGED <<db, blob, told, bytes, counts, asked>>

\* ReadFile reads until the end there is when it gets to it.
ReadBack(r) ==
    LET ended == \A i \in at[r]..Blocks : disk[File(r)][i] = Null
    IN  /\ pc[r] = "reading"
        /\ IF ended THEN UNCHANGED <<at, bytes>>
           ELSE /\ bytes' = [bytes EXCEPT ![r][at[r]] = disk[File(r)][at[r]]]
                /\ at' = [at EXCEPT ![r] = @ + 1]
        /\ Goto(r, IF ended THEN "storing" ELSE "reading")
        /\ UNCHANGED <<db, disk, blob, told, counts, asked>>

\* A mistake: like SendMessage, the upload goes on when Redis fails.
StoreErrorIgnored(r) ==
    /\ pc[r] = "storing"
    /\ blob' = [blob EXCEPT ![File(r)] = bytes[r]] \/ UNCHANGED blob
    /\ Goto(r, "sending")
    /\ UNCHANGED <<db, disk, told, at, bytes, counts, asked>>

StoreBlob(r) ==
    /\ pc[r] = "storing"
    /\ blob' = [blob EXCEPT ![File(r)] = bytes[r]]
    /\ Goto(r, "sending") \/ Break(r)
    /\ UNCHANGED <<db, disk, told, at, bytes, counts, asked>>

\* A form without sender_id is refused here.
SendFile(r) ==
    /\ pc[r] = "sending"
    /\ \/ InsertMessage(r)
       \/ Reply(r, "refused") /\ UNCHANGED <<db, files, told, counts>>
    /\ UNCHANGED asked

-----------------------------------------------------------------------------
Fails(r) ==
    /\ pc[r] \notin {"new", "done"}
    /\ Break(r)
    /\ UNCHANGED <<db, files, told, counts, asked>>

GetOrCreateConversation(r) == Look(r) \/ Create(r) \/ LoadParticipants(r)
GetUnreadMessageCount(r) == PluckConversations(r) \/ CountUnread(r)
UploadFile(r) == \/ CreateFile(r) \/ CopyBlock(r) \/ ReadBack(r) \/ StoreBlob(r)
                 \/ SendFile(r)

Next == \E r \in Requests :
    \/ GetOrCreateConversation(r) \/ Send(r) \/ MarkConversationAsRead(r)
    \/ GetUnreadMessageCount(r) \/ UploadFile(r) \/ Fails(r)

Spec == Init /\ [][Next]_vars

-----------------------------------------------------------------------------
(* Properties.                                                             *)

\* If the two users of a pair do not open it at the same time, it has one
\* conversation, whoever asks and whatever answers were lost.
OneConversation ==
    ~Overlap => \A c, d \in convs : Pair(c) = Pair(d) => c = d

FileMessages == messages \cap Requesting("upload")

\* The uploads whose file a message may find under the name of its own.
Later(m) == {q \in Requesting("upload") : m \in asked[q] /\ File(q) = File(m)}

\* As long as uploads of one name do not overlap, Redis has the file that was sent
\* with a message, or one of an upload of the same name begun after the message,
\* and it has the whole of it.  So has the disk, but for an upload begun after the
\* message that got no further than a part of its file, or than none.
FileKept ==
    ~Overlap => \A m \in FileMessages :
        /\ \E q \in Later(m) \cup {m} : blob[File(m)] = Whole(q)
        /\ \/ disk[File(m)] = Whole(m)
           \/ \E q \in Later(m) : \E n \in 0..Size[q] : disk[File(m)] = Prefix(q, n)

\* An unread count has in it every message that was there to be counted when
\* the user asked and still is at the answer, and none that is not: although
\* the conversations are asked for before the messages.
CountCovers ==
    [][\A r \in Requesting("count") :
          answer[r] # "ok" /\ answer'[r] = "ok" =>
              /\ asked'[r] \ read \subseteq counted'[r]
              /\ counted'[r] \subseteq Unread(By[r], Involving(By[r]))]_vars

\* A message counts as read only after its receiver asked, when the message was
\* there, to mark its conversation.
ReadByOther ==
    \A m \in read : \E q \in Requesting("mark") :
        By[q] # By[m] /\ m \in asked[q] /\ Home(q) = Home(m)

\* Whoever opens at the same time, the conversation a user is answered with is
\* one of the two users asked for.
AnsweredWithPair ==
    \A r \in Requesting("open") : told[r] # Null => Pair(told[r]) = Pair(r)

\* However uploads overlap and wherever they fail, a message finds its file on disk
\* and in Redis, and what it finds there, torn or mixed as it may be, was sent to
\* its conversation under its name.
FileOfItsName ==
    \A m \in FileMessages : \A w \in {disk[File(m)], blob[File(m)]} :
        w # Null /\ \A i \in 1..Blocks : w[i] # Null => File(w[i]) = File(m)

\* A count never has in it a message that its user was told to have marked.
MarkedNotCounted ==
    [][\A r \in Requesting("count"), q \in Requesting("mark") :
          /\ By[r] = By[q] /\ answer[q] = "ok"
          /\ answer[r] # "ok" /\ answer'[r] = "ok"
          => \A m \in counted'[r] \cap asked[q] : Home(m) # Home(q)]_vars
================================================================================
