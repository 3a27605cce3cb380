-------------------------- MODULE ConversationsProofs --------------------------
(***************************************************************************)
(* Proofs about Conversations for any number of users, requests and        *)
(* failures.                                                               *)
(***************************************************************************)
EXTENDS Conversations, TLAPS

Step(r) == \/ Look(r) \/ Create(r) \/ LoadParticipants(r) \/ Send(r)
           \/ MarkConversationAsRead(r) \/ PluckConversations(r) \/ CountUnread(r)
           \/ CreateFile(r) \/ CopyBlock(r) \/ ReadBack(r) \/ StoreBlob(r)
           \/ SendFile(r) \/ Fails(r)

LEMMA NextSteps ==
    ASSUME [Next]_vars
    PROVE  UNCHANGED vars \/ \E r \in Requests : Step(r)
BY DEF Next, Step, GetOrCreateConversation, GetUnreadMessageCount, UploadFile

Uploading == {"copying", "reading", "storing", "sending"}

\* Where a request is in which method, and what it was told before.
PlaceOK ==
    \A r \in Requests :
        /\ pc[r] \in {"creating", "loading"} => Kind[r] = "open"
        /\ pc[r] = "loading" => r \in convs
        /\ pc[r] = "counting" => Kind[r] = "count"
        /\ pc[r] \in Uploading => Kind[r] = "upload"
        /\ pc[r] # "done" => answer[r] = "none"
        /\ Kind[r] = "open" => (answer[r] = "ok" <=> told[r] # Null)
        /\ pc[r] # "new" /\ Kind[r] \in {"send", "upload", "mark"} =>
             answer[Via[r]] = "ok"
        /\ r \in messages => pc[r] = "done"
        /\ pc[r] = "new" => asked[r] = {} /\ counted[r] = {}
        /\ pc[r] \in {"new", "copying"} => bytes[r] = Empty
        /\ pc[r] = "new" => at[r] = 1
        /\ pc[r] = "copying" => at[r] \in 1..Size[r]

\* What a file may hold.
LEMMA EmptyFile == Empty \in Contents /\ \A i \in 1..Blocks : Empty[i] = Null
BY DEF Empty, Contents

LEMMA BlockSet ==
    ASSUME NEW c \in Contents, NEW i \in 1..Blocks,
           NEW w \in Requesting("upload") \cup {Null}
    PROVE  /\ [c EXCEPT ![i] = w] \in Contents
           /\ \A j \in 1..Blocks : [c EXCEPT ![i] = w][j] = IF j = i THEN w ELSE c[j]
BY DEF Contents

LEMMA NextBlock ==
    ASSUME NEW n \in Nat, NEW i \in 1..n, i # n
    PROVE  i + 1 \in 1..n
OBVIOUS

\* A block of a file belongs to a file if its upload does, contents if their blocks
\* do; and the files of the stores, and what an upload read, to their own.
OfFile(w, f) == w \in Requests /\ Kind[w] = "upload" /\ pc[w] # "new" /\ File(w) = f
Of(c, f) == c \in Contents /\ \A i \in 1..Blocks : c[i] # Null => OfFile(c[i], f)

NamesOK ==
    /\ \A f \in Files : \A c \in {disk[f], blob[f]} : c # Null => Of(c, f)
    /\ \A r \in Requests :
         /\ pc[r] \in Uploading => disk[File(r)] # Null /\ Of(bytes[r], File(r))
         /\ pc[r] = "sending" => blob[File(r)] # Null
    /\ \A m \in FileMessages : disk[File(m)] # Null /\ blob[File(m)] # Null

\* Only the request that makes a step is changed by it, and the stores grow.
LEMMA OthersKept ==
    ASSUME TypeOK, NEW r \in Requests, Step(r)
    PROVE  /\ \A q \in Requests \ {r} :
                /\ pc'[q] = pc[q] /\ answer'[q] = answer[q] /\ told'[q] = told[q]
                /\ at'[q] = at[q] /\ bytes'[q] = bytes[q] /\ mine'[q] = mine[q]
                /\ counted'[q] = counted[q] /\ asked'[q] = asked[q]
           /\ convs' \subseteq convs \cup {r} /\ messages' \subseteq messages \cup {r}
           /\ convs \subseteq convs' /\ messages \subseteq messages' /\ read \subseteq read'
           /\ pc[r] # "done" /\ (pc[r] # "new" => asked'[r] = asked[r])
<1> USE DEF TypeOK, Goto, Reply, End, Break, Starts, db, files, counts
<1>1. CASE Look(r) \/ Create(r) \/ LoadParticipants(r)
  BY <1>1 DEF Look, Create, LoadParticipants
<1>2. CASE Send(r) \/ MarkConversationAsRead(r) \/ SendFile(r)
  BY <1>2 DEF Send, MarkConversationAsRead, SendFile, InsertMessage
<1>3. CASE PluckConversations(r) \/ CountUnread(r)
  BY <1>3 DEF PluckConversations, CountUnread
<1>4. CASE CreateFile(r) \/ CopyBlock(r) \/ ReadBack(r) \/ StoreBlob(r) \/ Fails(r)
  BY <1>4 DEF CreateFile, CopyBlock, ReadBack, StoreBlob, Fails
<1> QED
  BY <1>1, <1>2, <1>3, <1>4 DEF Step

LEMMA TypeStep ==
    ASSUME TypeOK, PlaceOK, NamesOK, NEW r \in Requests, Step(r)
    PROVE  TypeOK'
<1> USE ConversationConstants
    DEF TypeOK, PlaceOK, Goto, Reply, End, Break, Starts, db, files, counts, Requesting
<1>f. ASSUME Kind[r] = "upload", answer[Via[r]] = "ok"
      PROVE  File(r) \in Files
  <2>1. Home(r) \in Requesting("open")
    BY <1>f DEF Home
  <2> QED
    BY <1>f, <2>1 DEF File, Files
<1>1. CASE Look(r)
  BY SMTT(30), <1>1 DEF Look, Unread
<1>2. CASE Create(r)
  <2>1. /\ told \in [Requests -> convs' \cup {Null}]
        /\ mine \in [Requests -> SUBSET convs']
    BY <1>2 DEF Create
  <2> QED
    BY SMTT(30), <1>2, <2>1 DEF Create
<1>l. CASE LoadParticipants(r)
  BY <1>l DEF LoadParticipants
<1>3. CASE Send(r)
  BY SMTT(30), <1>3 DEF Send, InsertMessage, Unread
<1>s. CASE SendFile(r)
  <2>1. /\ messages' \in {messages, messages \cup {r}} /\ r \in Requesting("upload")
        /\ pc' = [pc EXCEPT ![r] = "done"]
        /\ \E a \in {"ok", "refused", "error"} : answer' = [answer EXCEPT ![r] = a]
        /\ faults' \in 0..MaxFaults
        /\ UNCHANGED <<convs, read, files, told, counts, asked>>
    BY <1>s DEF SendFile, InsertMessage, Uploading
  <2> QED
    BY <2>1
<1>4. CASE MarkConversationAsRead(r)
  BY SMTT(30), <1>4 DEF MarkConversationAsRead, Unread
<1>p. CASE PluckConversations(r)
  <2>1. Involving(By[r]) \subseteq convs /\ Unread(By[r], Involving(By[r])) \subseteq messages
    BY DEF Involving, Unread
  <2>2. mine' \in [Requests -> SUBSET convs] /\ asked' \in [Requests -> SUBSET messages]
    BY <1>p, <2>1 DEF PluckConversations
  <2> HIDE DEF Starts
  <2> QED
    BY <1>p, <2>2 DEF PluckConversations
<1>5. CASE CountUnread(r)
  BY <1>5 DEF CountUnread, Unread
<1>6. CASE CreateFile(r)
  BY SMTT(30), <1>6, <1>f, EmptyFile DEF CreateFile, Unread
<1>c. CASE CopyBlock(r)
  <2>1. /\ Kind[r] = "upload" /\ answer[Via[r]] = "ok" /\ pc[r] = "copying"
        /\ at[r] \in 1..Size[r] /\ Size[r] \in 1..Blocks
    BY <1>c DEF CopyBlock, Uploading
  <2>2. File(r) \in Files /\ disk[File(r)] \in Contents
    BY <1>f, <2>1 DEF NamesOK, Uploading
  <2>3. [disk[File(r)] EXCEPT ![at[r]] = r] \in Contents
    <3>1. r \in Requesting("upload") /\ at[r] \in 1..Blocks
      BY <2>1
    <3> HIDE DEF TypeOK, PlaceOK, Starts, Requesting
    <3> QED
      BY <2>2, <3>1, BlockSet
  <2>4. disk' \in [Files -> Contents \cup {Null}]
    <3>1. disk' = [disk EXCEPT ![File(r)] = [disk[File(r)] EXCEPT ![at[r]] = r]]
      BY <1>c DEF CopyBlock
    <3>2. disk \in [Files -> Contents \cup {Null}]
      OBVIOUS
    <3> HIDE DEF TypeOK, PlaceOK, Starts
    <3> QED
      BY <2>2, <2>3, <3>1, <3>2
  <2>5. at' \in [Requests -> 1..(Blocks + 1)]
    BY <1>c, <2>1 DEF CopyBlock
  <2> QED
    BY <1>c, <2>4, <2>5 DEF CopyBlock
<1>7. CASE ReadBack(r)
  <2>1. /\ Kind[r] = "upload" /\ answer[Via[r]] = "ok" /\ pc[r] = "reading"
    BY <1>7 DEF ReadBack, Uploading
  <2>2. File(r) \in Files /\ disk[File(r)] \in Contents
    BY <1>f, <2>1 DEF NamesOK, Uploading
  <2>3. ASSUME NEW i \in at[r]..Blocks
        PROVE  /\ i \in 1..Blocks /\ at[r] \in 1..Blocks
               /\ [bytes[r] EXCEPT ![at[r]] = disk[File(r)][at[r]]] \in Contents
    <3>1. at[r] \in 1..Blocks /\ i \in 1..Blocks
      BY <2>3
    <3>2. disk[File(r)][at[r]] \in Requesting("upload") \cup {Null}
      BY <2>2, <3>1 DEF Contents
    <3> QED
      BY <3>1, <3>2, BlockSet
  <2>4. bytes' \in [Requests -> Contents] /\ at' \in [Requests -> 1..(Blocks + 1)]
    <3>1. CASE \A i \in at[r]..Blocks : disk[File(r)][i] = Null
      BY <1>7, <3>1 DEF ReadBack
    <3>2. CASE \E i \in at[r]..Blocks : disk[File(r)][i] # Null
      <4>1. /\ bytes' = [bytes EXCEPT ![r] =
                            [bytes[r] EXCEPT ![at[r]] = disk[File(r)][at[r]]]]
            /\ at' = [at EXCEPT ![r] = at[r] + 1]
        BY <1>7, <3>2 DEF ReadBack
      <4>2. /\ at[r] \in 1..Blocks
            /\ [bytes[r] EXCEPT ![at[r]] = disk[File(r)][at[r]]] \in Contents
        BY <2>3, <3>2
      <4>3. bytes' \in [Requests -> Contents]
        BY <4>1, <4>2
      <4>4. at[r] + 1 \in 1..(Blocks + 1)
        BY <4>2
      <4> QED
        BY <4>1, <4>3, <4>4
    <3> QED
      BY <3>1, <3>2
  <2> QED
    BY <1>7, <2>1, <2>4 DEF ReadBack
<1>8. CASE StoreBlob(r)
  <2>1. File(r) \in Files
    BY <1>8, <1>f DEF StoreBlob, Uploading
  <2>2. blob' \in [Files -> Contents \cup {Null}]
    BY <1>8, <2>1 DEF StoreBlob
  <2> QED
    BY <1>8, <2>2 DEF StoreBlob
<1>9. CASE Fails(r)
  BY <1>9 DEF Fails
<1> QED
  BY <1>1, <1>2, <1>l, <1>3, <1>s, <1>4, <1>p, <1>5, <1>6, <1>c, <1>7, <1>8, <1>9 DEF
     Step

LEMMA PlaceStep ==
    ASSUME TypeOK, PlaceOK, NEW r \in Requests, Step(r)
    PROVE  PlaceOK'
<1> DEFINE At(q) ==
      /\ pc[q] \in {"creating", "loading"} => Kind[q] = "open"
      /\ pc[q] = "loading" => q \in convs
      /\ pc[q] = "counting" => Kind[q] = "count"
      /\ pc[q] \in Uploading => Kind[q] = "upload"
      /\ pc[q] # "done" => answer[q] = "none"
      /\ Kind[q] = "open" => (answer[q] = "ok" <=> told[q] # Null)
      /\ q \in messages => pc[q] = "done"
      /\ pc[q] = "new" => asked[q] = {} /\ counted[q] = {}
      /\ pc[q] \in {"new", "copying"} => bytes[q] = Empty
      /\ pc[q] = "new" => at[q] = 1
      /\ pc[q] = "copying" => at[q] \in 1..Size[q]
      Via0(q) == pc[q] # "new" /\ Kind[q] \in {"send", "upload", "mark"} =>
                   answer[Via[q]] = "ok"
<1>0. \A q \in Requests : At(q) /\ Via0(q)
  BY DEF PlaceOK
<1>1. ASSUME NEW q \in Requests \ {r} PROVE At(q)'
  BY <1>0, <1>1, OthersKept
<1>2. At(r)'
  <2> USE <1>0, ConversationConstants
      DEF TypeOK, Goto, Reply, End, Break, Starts, db, files, counts, Requesting, Uploading
  <2>1. CASE Look(r)
    BY <2>1 DEF Look
  <2>2. CASE Create(r)
    BY <2>2 DEF Create
  <2>3. CASE LoadParticipants(r)
    BY <2>3 DEF LoadParticipants
  <2>4. CASE Send(r) \/ SendFile(r)
    BY <2>4 DEF Send, SendFile, InsertMessage
  <2>5. CASE MarkConversationAsRead(r)
    BY <2>5 DEF MarkConversationAsRead
  <2>6. CASE PluckConversations(r) \/ CountUnread(r)
    BY <2>6 DEF PluckConversations, CountUnread
  <2>7. CASE CreateFile(r) \/ StoreBlob(r) \/ Fails(r)
    BY <2>7 DEF CreateFile, StoreBlob, Fails
  <2>8. CASE CopyBlock(r)
    <3>1. /\ Kind[r] = "upload" /\ Size[r] \in Nat /\ at[r] \in 1..Size[r]
          /\ r \notin messages /\ bytes[r] = Empty
      BY <2>8 DEF CopyBlock
    <3>2. /\ at'[r] = (IF at[r] = Size[r] THEN 1 ELSE at[r] + 1)
          /\ pc'[r] = (IF at[r] = Size[r] THEN "reading" ELSE "copying")
          /\ UNCHANGED <<db, told, bytes, answer>>
      BY <2>8 DEF CopyBlock
    <3>3. /\ pc'[r] \in {"copying", "reading"}
          /\ pc'[r] = "copying" => at'[r] \in 1..Size[r]
      <4>1. at[r] # Size[r] => at[r] + 1 \in 1..Size[r]
        BY <3>1, NextBlock
      <4> QED
        BY <3>2, <4>1
    <3>4. /\ bytes'[r] = Empty /\ r \notin messages' /\ answer'[r] = answer[r]
          /\ answer[r] = "none"
      BY <2>8, <3>1, <3>2 DEF CopyBlock
    <3> QED
      BY <3>1, <3>3, <3>4
  <2>9. CASE ReadBack(r)
    <3>1. /\ pc[r] = "reading" /\ pc'[r] \in {"reading", "storing"}
          /\ UNCHANGED <<db, told, answer>>
      BY <2>9 DEF ReadBack
    <3> QED
      BY <1>0, <3>1
  <2> QED
    BY <2>1, <2>2, <2>3, <2>4, <2>5, <2>6, <2>7, <2>8, <2>9 DEF Step
<1>3. ASSUME NEW q \in Requests PROVE Via0(q)'
  <2>1. \A x \in Requests : answer[x] = "ok" => answer'[x] = "ok"
    BY <1>0, OthersKept
  <2>2. CASE pc[q] # "new"
    BY <1>0, <2>1, <2>2, ConversationConstants
  <2>3. CASE pc[q] = "new" /\ q # r
    BY <2>3, OthersKept
  <2>4. CASE pc[q] = "new" /\ q = r
    <3>1. Kind[r] \in {"send", "upload", "mark"} => answer[Via[r]] = "ok"
      BY <2>4 DEF Step, Look, Create, LoadParticipants, Send, MarkConversationAsRead,
         PluckConversations, CountUnread, CreateFile, CopyBlock, ReadBack, StoreBlob,
         SendFile, Fails, Starts
    <3> QED
      BY <2>1, <2>4, <3>1, ConversationConstants
  <2> QED
    BY <2>2, <2>3, <2>4
<1>4. \A q \in Requests : At(q)' /\ Via0(q)'
  BY <1>1, <1>2, <1>3
<1> QED
  BY <1>4 DEF PlaceOK

\* A request that has begun stays in its conversation, and its file is one.
LEMMA HomesKept ==
    ASSUME TypeOK, PlaceOK, NEW r \in Requests, Step(r),
           NEW q \in Requests, Kind[q] \in {"send", "upload", "mark"},
           pc[q] # "new" \/ q = r
    PROVE  /\ Home(q)' = Home(q) /\ Home(q) \in convs
           /\ Kind[q] = "upload" => File(q)' = File(q) /\ File(q) \in Files
<1>1. answer[Via[q]] = "ok"
  <2>1. CASE pc[q] # "new"
    BY <2>1 DEF PlaceOK
  <2>2. CASE pc[q] = "new" /\ q = r
    BY <2>2 DEF Step, Look, Create, LoadParticipants, Send, MarkConversationAsRead,
       PluckConversations, CountUnread, CreateFile, CopyBlock, ReadBack, StoreBlob,
       SendFile, Fails, Starts
  <2> QED
    BY <2>1, <2>2
<1>2. Via[q] \in Requests /\ Kind[Via[q]] = "open"
  BY ConversationConstants
<1>3. Via[q] # r
  <2>1. pc[Via[q]] = "done"
    BY <1>1, <1>2 DEF PlaceOK
  <2> QED
    BY <2>1, OthersKept
<1>4. told'[Via[q]] = told[Via[q]] /\ told[Via[q]] \in convs
  BY <1>1, <1>2, <1>3, OthersKept DEF PlaceOK, TypeOK
<1>5. Kind[q] = "upload" => File(q) \in Files
  BY <1>4 DEF File, Home, Files, Requesting, TypeOK
<1> QED
  BY <1>4, <1>5 DEF Home, File

\* A message or a count, in terms of the conversations at its request.
LEMMA MessagesAreOver ==
    ASSUME TypeOK, PlaceOK, NEW m \in messages
    PROVE  m \in Requests /\ pc[m] = "done" /\ Kind[m] \in {"send", "upload"}
BY DEF TypeOK, PlaceOK, Requesting

LEMMA ReadStep ==
    ASSUME TypeOK, PlaceOK, ReadByOther, NEW r \in Requests, Step(r)
    PROVE  ReadByOther'
<1> SUFFICES ASSUME NEW m \in read'
             PROVE  \E q \in Requesting("mark") :
                      By[q] # By[m] /\ m \in asked'[q] /\ Home(q)' = Home(m)'
  BY DEF ReadByOther
<1>1. CASE m \in read
  <2>1. PICK q \in Requesting("mark") :
                By[q] # By[m] /\ m \in asked[q] /\ Home(q) = Home(m)
    BY <1>1 DEF ReadByOther
  <2>2. m \in messages
    BY <1>1 DEF TypeOK
  <2>3. Home(m)' = Home(m)
    BY <2>2, MessagesAreOver, HomesKept
  <2>4. q \in Requests /\ Kind[q] = "mark"
    BY DEF Requesting
  <2>5. pc[q] # "new"
    BY <2>1, <2>4 DEF PlaceOK
  <2>6. Home(q)' = Home(q) /\ asked'[q] = asked[q]
    BY <2>4, <2>5, HomesKept, OthersKept
  <2> QED
    BY <2>1, <2>3, <2>6
<1>2. CASE m \notin read
  <2>1. MarkConversationAsRead(r)
    BY <1>2 DEF Step, Look, Create, LoadParticipants, Send, PluckConversations,
       CountUnread, CreateFile, CopyBlock, ReadBack, StoreBlob, SendFile,
       InsertMessage, Fails, db, files, counts
  <2>2. /\ Kind[r] = "mark" /\ asked'[r] = messages
        /\ m \in messages /\ Home(m) = Home(r) /\ By[m] # By[r]
    BY <1>2, <2>1 DEF MarkConversationAsRead, Starts, Unread, TypeOK
  <2>3. Home(r)' = Home(r) /\ Home(m)' = Home(m)
    BY <2>2, MessagesAreOver, HomesKept
  <2> QED
    BY <2>2, <2>3 DEF Requesting
<1> QED
  BY <1>1, <1>2
-----------------------------------------------------------------------------
(* What holds however openings and uploads overlap.                        *)

LEMMA AnsweredStep ==
    ASSUME TypeOK, PlaceOK, AnsweredWithPair, NEW r \in Requests, Step(r)
    PROVE  AnsweredWithPair'
<1> SUFFICES ASSUME NEW q \in Requesting("open"), told'[q] # Null
             PROVE  Pair(told'[q]) = Pair(q)
  BY DEF AnsweredWithPair, Pair
<1>0. q \in Requests /\ Kind[q] = "open"
  BY DEF Requesting
<1>1. CASE told'[q] = told[q]
  BY <1>1 DEF AnsweredWithPair
<1>2. CASE told'[q] # told[q]
  <2>1. q = r
    BY <1>0, <1>2, OthersKept
  <2>2. Look(r) \/ LoadParticipants(r)
    BY <1>2, <2>1 DEF Step, Create, Send, MarkConversationAsRead, PluckConversations,
       CountUnread, CreateFile, CopyBlock, ReadBack, StoreBlob, SendFile,
       InsertMessage, Fails
  <2>3. Pair(told'[r]) = Pair(r)
    BY <1>2, <2>1, <2>2 DEF Look, LoadParticipants, TypeOK
  <2> QED
    BY <2>1, <2>3
<1> QED
  BY <1>1, <1>2

\* A mark that was answered has marked what its user had to read, for good.
MarksOK ==
    \A q \in Requesting("mark") : answer[q] = "ok" =>
        \A m \in asked[q] : Home(m) = Home(q) /\ By[m] # By[q] => m \in read

LEMMA MarksStep ==
    ASSUME TypeOK, PlaceOK, MarksOK, NEW r \in Requests, Step(r)
    PROVE  MarksOK'
<1> SUFFICES ASSUME NEW q \in Requesting("mark"), answer'[q] = "ok",
                    NEW m \in asked'[q], Home(m)' = Home(q)', By[m] # By[q]
             PROVE  m \in read'
  BY DEF MarksOK
<1>0. q \in Requests /\ Kind[q] = "mark"
  BY DEF Requesting
<1>1. CASE answer[q] = "ok"
  <2>1. pc[q] = "done"
    BY <1>0, <1>1 DEF PlaceOK
  <2>2. asked'[q] = asked[q] /\ Home(q)' = Home(q)
    BY <1>0, <2>1, OthersKept, HomesKept
  <2>3. m \in messages
    BY <1>0, <2>2 DEF TypeOK
  <2>4. Home(m)' = Home(m)
    BY <2>3, MessagesAreOver, HomesKept
  <2>5. m \in asked[q] /\ Home(m) = Home(q)
    BY <2>2, <2>4
  <2>6. m \in read
    BY <1>1, <2>5 DEF MarksOK
  <2> QED
    BY <2>6, OthersKept
<1>2. CASE answer[q] # "ok"
  <2>1. q = r
    BY <1>0, <1>2, OthersKept
  <2>2. MarkConversationAsRead(r)
    BY <1>0, <1>2, <2>1 DEF Step, Look, Create, LoadParticipants, Send,
       PluckConversations, CountUnread, CreateFile, CopyBlock, ReadBack, StoreBlob,
       SendFile, Fails, Starts, Break, End, PlaceOK, TypeOK, Uploading
  <2>3. /\ asked'[r] = messages /\ told' = told
        /\ read' = read \cup Unread(By[r], {Home(r)})
    BY <2>2 DEF MarkConversationAsRead, Starts, TypeOK
  <2>4. Home(m) = Home(r) /\ m \in messages
    BY <2>1, <2>3 DEF Home
  <2>5. m \in read \/ m \in Unread(By[r], {Home(r)})
    BY <2>1, <2>4 DEF Unread
  <2> QED
    BY <2>3, <2>5
<1> QED
  BY <1>1, <1>2

LEMMA MarkedNotCountedStep ==
    ASSUME TypeOK, PlaceOK, MarksOK, NEW r \in Requests, Step(r),
           NEW n \in Requesting("count"), NEW q \in Requesting("mark"),
           By[n] = By[q], answer[q] = "ok", answer[n] # "ok", answer'[n] = "ok",
           NEW m \in counted'[n] \cap asked[q]
    PROVE  Home(m) # Home(q)
<1>1. n = r /\ Kind[r] = "count"
  BY OthersKept DEF Requesting
<1>2. CountUnread(r) \/ PluckConversations(r)
  BY <1>1 DEF Step, Look, Create, LoadParticipants, Send, MarkConversationAsRead,
     CreateFile, CopyBlock, ReadBack, StoreBlob, SendFile, Fails, Starts, Break, End,
     PlaceOK, TypeOK, Uploading
<1>3. CASE CountUnread(r)
  <2>1. m \in Unread(By[r], mine[r])
    BY <1>1, <1>3 DEF CountUnread, TypeOK
  <2> QED
    BY <1>1, <2>1 DEF Unread, MarksOK
<1>4. CASE PluckConversations(r)
  <2>1. counted' = counted /\ counted[r] = {}
    BY <1>4 DEF PluckConversations, Starts, PlaceOK
  <2> QED
    BY <1>1, <2>1
<1> QED
  BY <1>2, <1>3, <1>4

LEMMA NamesStep ==
    ASSUME TypeOK, PlaceOK, NamesOK, NEW r \in Requests, Step(r)
    PROVE  NamesOK'
<1> DEFINE OfFileNext(w, f) == /\ w \in Requests /\ Kind[w] = "upload" /\ pc'[w] # "new"
                               /\ <<told'[Via[w]], Name[w]>> = f
           OfNext(c, f) == /\ c \in Contents
                           /\ \A i \in 1..Blocks : c[i] # Null => OfFileNext(c[i], f)
<1>o. ASSUME NEW f, NEW w, OfFile(w, f) PROVE OfFileNext(w, f)
  <2>1. pc'[w] # "new"
    <3>1. CASE w = r
      BY <1>o, <3>1 DEF OfFile, Step, Look, Create, LoadParticipants, Send,
         MarkConversationAsRead, PluckConversations, CountUnread, CreateFile, CopyBlock,
         ReadBack, StoreBlob, SendFile, InsertMessage, Fails, Starts, Goto, Reply,
         Break, End, TypeOK
    <3>2. CASE w # r
      BY <1>o, <3>2, OthersKept DEF OfFile
    <3> QED
      BY <3>1, <3>2
  <2> QED
    BY <1>o, <2>1, HomesKept DEF OfFile, File, Home
<1>a. ASSUME NEW f, NEW c, Of(c, f) PROVE OfNext(c, f)
  BY <1>a, <1>o DEF Of
<1>b. \A m \in FileMessages : File(m)' = File(m) /\ File(m) \in Files
  BY MessagesAreOver, HomesKept DEF FileMessages, Requesting
<1>c. Kind[r] = "upload" => File(r)' = File(r) /\ File(r) \in Files
  BY HomesKept
<1>d. \A q \in Requests \ {r} : pc'[q] \in Uploading =>
        /\ pc'[q] = pc[q] /\ bytes'[q] = bytes[q]
        /\ Kind[q] = "upload" /\ File(q)' = File(q) /\ File(q) \in Files
  BY OthersKept, HomesKept DEF PlaceOK, Uploading
<1>e. Null \notin Contents
  BY ConversationConstants
<1> DEFINE Writes ==
      \A f \in Files :
        /\ disk'[f] = disk[f] \/ (f = File(r) /\ OfNext(disk'[f], f))
        /\ blob'[f] = blob[f] \/ (f = File(r) /\ OfNext(blob'[f], f))
           Goes ==
        /\ pc'[r] \in Uploading =>
             Kind[r] = "upload" /\ disk'[File(r)] # Null /\ OfNext(bytes'[r], File(r))
        /\ pc'[r] = "sending" => blob'[File(r)] # Null
        /\ r \in FileMessages' \ FileMessages =>
             disk'[File(r)] # Null /\ blob'[File(r)] # Null
<1> HIDE DEF OfFileNext
<1>1. ASSUME Writes, Goes PROVE NamesOK'
  <2>1. \A f \in Files : disk[f] # Null => disk'[f] # Null
    BY <1>1, <1>e
  <2>2. \A f \in Files : blob[f] # Null => blob'[f] # Null
    BY <1>1, <1>e
  <2>3. ASSUME NEW f \in Files, NEW c \in {disk'[f], blob'[f]}, c # Null
        PROVE  OfNext(c, f)
    <3>1. c \in {disk[f], blob[f]} \/ OfNext(c, f)
      BY <1>1, <2>3
    <3>2. c \in {disk[f], blob[f]} => Of(c, f)
      BY <2>3 DEF NamesOK
    <3> HIDE DEF OfNext
    <3> QED
      BY <1>a, <3>1, <3>2
  <2>4. ASSUME NEW q \in Requests
        PROVE  /\ pc'[q] \in Uploading =>
                    disk'[File(q)'] # Null /\ OfNext(bytes'[q], File(q)')
               /\ pc'[q] = "sending" => blob'[File(q)'] # Null
    <3> HIDE DEF OfNext
    <3>1. CASE q = r
      BY <1>1, <1>c, <3>1 DEF Uploading
    <3>2. CASE q # r /\ pc'[q] \in Uploading
      <4>1. /\ pc'[q] = pc[q] /\ bytes'[q] = bytes[q]
            /\ File(q)' = File(q) /\ File(q) \in Files
        BY <1>d, <3>2
      <4>2. disk[File(q)] # Null /\ Of(bytes[q], File(q))
        BY <3>2, <4>1 DEF NamesOK
      <4>3. OfNext(bytes[q], File(q))
        BY <1>a, <4>2
      <4>4. pc[q] = "sending" => blob[File(q)] # Null
        BY DEF NamesOK
      <4> QED
        BY <2>1, <2>2, <3>2, <4>1, <4>2, <4>3, <4>4
    <3> QED
      BY <3>1, <3>2 DEF Uploading
  <2>5. ASSUME NEW m \in FileMessages'
        PROVE  disk'[File(m)'] # Null /\ blob'[File(m)'] # Null
    <3>1. CASE m \in FileMessages
      BY <1>b, <2>1, <2>2, <3>1 DEF NamesOK
    <3>2. CASE m \notin FileMessages
      <4>1. m = r /\ Kind[r] = "upload"
        BY <2>5, <3>2, OthersKept DEF FileMessages, Requesting
      <4> QED
        BY <1>1, <1>c, <2>5, <3>2, <4>1
    <3> QED
      BY <3>1, <3>2
  <2> QED
    BY <2>3, <2>4, <2>5 DEF NamesOK, Of, OfFile, OfFileNext, File, Home
<1>2. CASE CreateFile(r)
  <2>1. /\ Kind[r] = "upload" /\ blob' = blob /\ FileMessages' = FileMessages
        /\ pc'[r] \in {"copying", "done"} /\ bytes'[r] = Empty
        /\ \/ disk' = [disk EXCEPT ![File(r)] = Empty]
           \/ disk' = disk /\ pc'[r] = "done"
    BY <1>2 DEF CreateFile, Starts, Goto, Reply, Break, End, db, PlaceOK, TypeOK,
       FileMessages
  <2>2. \/ \A f \in Files : disk'[f] = IF f = File(r) THEN Empty ELSE disk[f]
        \/ disk' = disk /\ pc'[r] = "done"
    BY <2>1 DEF TypeOK
  <2>3. OfNext(Empty, File(r))
    BY EmptyFile
  <2> HIDE DEF OfNext
  <2>7. Empty # Null
    BY <1>e, EmptyFile
  <2>8. Writes
    BY <1>c, <2>1, <2>2, <2>3
  <2>9. Goes
    BY <1>c, <2>1, <2>2, <2>3, <2>7 DEF Uploading
  <2> HIDE DEF Writes, Goes
  <2> QED
    BY <1>1, <2>8, <2>9
<1>3. CASE CopyBlock(r)
  <2>1. /\ Kind[r] = "upload" /\ pc[r] = "copying" /\ pc'[r] \in {"copying", "reading"}
        /\ blob' = blob /\ FileMessages' = FileMessages /\ bytes' = bytes
        /\ at[r] \in 1..Blocks
        /\ disk' = [disk EXCEPT ![File(r)][at[r]] = r]
    BY <1>3, ConversationConstants
       DEF CopyBlock, Goto, db, PlaceOK, TypeOK, FileMessages, Uploading
  <2>2. /\ disk[File(r)] # Null /\ Of(disk[File(r)], File(r))
        /\ Of(bytes[r], File(r))
    BY <1>c, <2>1 DEF NamesOK, Uploading
  <2>3. OfFileNext(r, File(r))
    BY <1>c, <2>1 DEF OfFileNext, File, Home
  <2> DEFINE written == [disk[File(r)] EXCEPT ![at[r]] = r]
  <2>4. /\ written \in Contents
        /\ \A i \in 1..Blocks : written[i] = IF i = at[r] THEN r ELSE disk[File(r)][i]
    BY <2>1, <2>2, BlockSet DEF Of, Requesting
  <2>5. \A f \in Files : disk'[f] = IF f = File(r) THEN written ELSE disk[f]
    BY <1>c, <2>1 DEF TypeOK
  <2> HIDE DEF written
  <2>6. OfNext(written, File(r))
    BY <1>a, <2>2, <2>3, <2>4
  <2>7. OfNext(bytes[r], File(r)) /\ written # Null
    BY <1>a, <1>e, <2>2, <2>4
  <2> HIDE DEF OfNext
  <2>8. Writes
    BY <1>c, <2>1, <2>5, <2>6
  <2>9. Goes
    BY <1>c, <2>1, <2>5, <2>7
  <2> HIDE DEF Writes, Goes
  <2> QED
    BY <1>1, <2>8, <2>9
<1>4. CASE ReadBack(r)
  <2>1. /\ Kind[r] = "upload" /\ pc[r] = "reading" /\ pc'[r] \in {"reading", "storing"}
        /\ blob' = blob /\ disk' = disk /\ FileMessages' = FileMessages
        /\ \/ bytes' = bytes
           \/ /\ at[r] \in 1..Blocks
              /\ bytes' = [bytes EXCEPT ![r][at[r]] = disk[File(r)][at[r]]]
    BY <1>4, ConversationConstants
       DEF ReadBack, Goto, db, PlaceOK, TypeOK, FileMessages, Uploading
  <2>2. /\ disk[File(r)] # Null /\ Of(disk[File(r)], File(r)) /\ Of(bytes[r], File(r))
    BY <1>c, <2>1 DEF NamesOK, Uploading
  <2>3. OfNext(disk[File(r)], File(r)) /\ OfNext(bytes[r], File(r))
    BY <1>a, <2>2
  <2>4. OfNext(bytes'[r], File(r))
    <3>1. CASE bytes' = bytes
      BY <2>3, <3>1
    <3>2. CASE at[r] \in 1..Blocks
               /\ bytes' = [bytes EXCEPT ![r][at[r]] = disk[File(r)][at[r]]]
      <4>1. disk[File(r)][at[r]] \in Requesting("upload") \cup {Null}
        BY <2>2, <3>2 DEF Of, Contents
      <4>2. bytes'[r] = [bytes[r] EXCEPT ![at[r]] = disk[File(r)][at[r]]]
        BY <3>2 DEF TypeOK
      <4>3. /\ bytes'[r] \in Contents
            /\ \A i \in 1..Blocks :
                 bytes'[r][i] = IF i = at[r] THEN disk[File(r)][at[r]] ELSE bytes[r][i]
        BY <2>2, <3>2, <4>1, <4>2, BlockSet DEF Of
      <4> QED
        BY <2>3, <3>2, <4>3
    <3> QED
      BY <2>1, <3>1, <3>2
  <2> HIDE DEF OfNext
  <2>8. Writes
    BY <2>1
  <2>9. Goes
    BY <2>1, <2>2, <2>4
  <2> HIDE DEF Writes, Goes
  <2> QED
    BY <1>1, <2>8, <2>9
<1>5. CASE StoreBlob(r)
  <2>1. /\ Kind[r] = "upload" /\ pc[r] = "storing"
        /\ disk' = disk /\ bytes' = bytes /\ FileMessages' = FileMessages
        /\ pc'[r] \in {"sending", "done"}
        /\ blob' = [blob EXCEPT ![File(r)] = bytes[r]]
    BY <1>5 DEF StoreBlob, Goto, Break, End, db, PlaceOK, TypeOK, FileMessages,
       Uploading
  <2>2. Of(bytes[r], File(r)) /\ disk[File(r)] # Null
    BY <2>1 DEF NamesOK, Uploading
  <2>3. \A f \in Files : blob'[f] = IF f = File(r) THEN bytes[r] ELSE blob[f]
    BY <2>1 DEF TypeOK
  <2>4. OfNext(bytes[r], File(r)) /\ bytes[r] # Null
    BY <1>a, <1>e, <2>2 DEF Of
  <2> HIDE DEF OfNext
  <2>8. Writes
    BY <1>c, <2>1, <2>3, <2>4
  <2>9. Goes
    BY <1>c, <2>1, <2>2, <2>3, <2>4
  <2> HIDE DEF Writes, Goes
  <2> QED
    BY <1>1, <2>8, <2>9
<1>6. CASE SendFile(r)
  <2>1. /\ Kind[r] = "upload" /\ pc[r] = "sending"
        /\ disk' = disk /\ blob' = blob /\ pc'[r] = "done"
    BY <1>6 DEF SendFile, InsertMessage, Reply, Break, End, files, PlaceOK, TypeOK,
       Uploading
  <2>2. disk[File(r)] # Null /\ blob[File(r)] # Null
    BY <2>1 DEF NamesOK, Uploading
  <2> HIDE DEF OfNext
  <2>8. Writes
    BY <2>1
  <2>9. Goes
    BY <2>1, <2>2 DEF Uploading
  <2> HIDE DEF Writes, Goes
  <2> QED
    BY <1>1, <2>8, <2>9
<1>7. CASE ~(CreateFile(r) \/ CopyBlock(r) \/ ReadBack(r) \/ StoreBlob(r) \/ SendFile(r))
  <2>1. /\ disk' = disk /\ blob' = blob /\ FileMessages' = FileMessages
        /\ pc'[r] \notin Uploading
    BY <1>7 DEF Step, Look, Create, LoadParticipants, Send, MarkConversationAsRead,
       PluckConversations, CountUnread, InsertMessage, Fails, Starts, Goto, Reply,
       Break, End, files, db, Requesting, TypeOK, FileMessages, Uploading
  <2> HIDE DEF OfNext
  <2>8. Writes
    BY <2>1
  <2>9. Goes
    BY <2>1 DEF Uploading
  <2> HIDE DEF Writes, Goes
  <2> QED
    BY <1>1, <2>8, <2>9
<1> QED
  BY <1>2, <1>3, <1>4, <1>5, <1>6, <1>7

-----------------------------------------------------------------------------
(* One conversation per pair, and one upload per name.                     *)

\* Without overlap there is one opening of a pair and one upload of a name at a
\* time; an opening that found nothing goes on to find nothing.
SerialOK ==
    /\ \A q, r \in Requests :
         Same(r, q) /\ pc[q] \notin {"new", "done"} /\ pc[r] \notin {"new", "done"}
            => q = r
    /\ \A r \in Requests : pc[r] = "creating" =>
         \A c \in convs : Pair(c) # Pair(r)

OnePerPair == \A c, d \in convs : Pair(c) = Pair(d) => c = d

LEMMA SerialStep ==
    ASSUME ~Overlap, TypeOK, PlaceOK, SerialOK, OnePerPair,
           NEW r \in Requests, Step(r)
    PROVE  SerialOK' /\ OnePerPair'
<1>0. pc[r] = "new" => \/ pc'[r] = "done"
                       \/ \A q \in Requests \ {r} : Same(r, q) => pc[q] \in {"new", "done"}
  BY DEF Step, Look, Create, LoadParticipants, Send, MarkConversationAsRead,
     PluckConversations, CountUnread, CreateFile, CopyBlock, ReadBack, StoreBlob,
     SendFile, Fails, Starts
<1>1. ASSUME NEW q \in Requests, NEW s \in Requests,
             pc[q] # "new" \/ q = r, pc[s] # "new" \/ s = r
      PROVE  Same(q, s)' <=> Same(q, s)
  BY <1>1, HomesKept DEF Same, Pair
<1>2. ASSUME NEW q \in Requests, NEW s \in Requests, Same(s, q)',
             pc'[q] \notin {"new", "done"}, pc'[s] \notin {"new", "done"}, q # s
      PROVE  FALSE
  <2>1. CASE q # r /\ s # r
    BY <1>1, <1>2, <2>1, OthersKept DEF SerialOK
  <2>2. CASE q = r
    BY <1>0, <1>1, <1>2, <2>2, OthersKept DEF SerialOK, Same
  <2>3. CASE s = r
    BY <1>0, <1>1, <1>2, <2>3, OthersKept DEF SerialOK, Same
  <2> QED
    BY <2>1, <2>2, <2>3
<1>3. \/ UNCHANGED convs
      \/ pc[r] = "creating" /\ pc'[r] \in {"loading", "done"} /\ convs' = convs \cup {r}
  BY DEF Step, Look, Create, LoadParticipants, Send, MarkConversationAsRead,
     PluckConversations, CountUnread, CreateFile, CopyBlock, ReadBack, StoreBlob,
     SendFile, InsertMessage, Fails, Starts, db, Goto, Break, End, TypeOK
<1>4. ASSUME NEW q \in Requests, pc'[q] = "creating", NEW c \in convs'
      PROVE  Pair(c) # Pair(q)
  <2>1. CASE pc[q] = "creating" /\ c \in convs
    BY <2>1 DEF SerialOK
  <2>2. CASE pc[q] = "creating" /\ c \notin convs
    <3>1. c = r /\ pc[r] = "creating" /\ q # r
      BY <1>3, <1>4, <2>2
    <3>2. Kind[q] = "open" /\ Kind[r] = "open"
      BY <2>2, <3>1 DEF PlaceOK
    <3> QED
      BY <2>2, <3>1, <3>2 DEF SerialOK, Same
  <2>3. CASE pc[q] # "creating"
    <3>1. q = r /\ Look(r)
      <4>1. q = r
        BY <1>4, <2>3, OthersKept
      <4> QED
        BY <1>4, <2>3, <4>1 DEF Step, Create, LoadParticipants, Send,
           MarkConversationAsRead, PluckConversations, CountUnread, CreateFile,
           CopyBlock, ReadBack, StoreBlob, SendFile, InsertMessage, Fails, Goto,
           Break, Reply, End, TypeOK
    <3>2. {d \in convs : Pair(d) = Pair(r)} = {} /\ convs' = convs
      BY <1>4, <3>1 DEF Look, Reply, End, TypeOK, db
    <3> QED
      BY <1>4, <3>1, <3>2
  <2> QED
    BY <2>1, <2>2, <2>3
<1>5. OnePerPair'
  BY <1>3 DEF SerialOK, OnePerPair, Pair
<1> QED
  BY <1>2, <1>4, <1>5 DEF SerialOK, Pair

-----------------------------------------------------------------------------
(* Counts and files.                                                       *)

\* A count in progress: its conversations are the user's, and what it had to
\* count is in them.
CountsOK ==
    \A r \in Requests : pc[r] = "counting" =>
        /\ mine[r] \subseteq Involving(By[r])
        /\ \A m \in asked[r] : Home(m) \in mine[r] /\ By[m] # By[r]

LEMMA CountsStep ==
    ASSUME TypeOK, PlaceOK, CountsOK, NEW r \in Requests, Step(r)
    PROVE  CountsOK'
<1> SUFFICES ASSUME NEW q \in Requests, pc'[q] = "counting"
             PROVE  /\ mine'[q] \subseteq Involving(By[q])'
                    /\ \A m \in asked'[q] : Home(m)' \in mine'[q] /\ By[m] # By[q]
  BY DEF CountsOK
<1>1. Involving(By[q]) \subseteq Involving(By[q])'
  BY OthersKept DEF Involving
<1>2. CASE pc[q] = "counting"
  <2>1. mine'[q] = mine[q] /\ asked'[q] = asked[q]
    <3>1. CASE q # r
      BY <3>1, OthersKept
    <3>2. CASE q = r
      BY <1>2, <3>2 DEF Step, Look, Create, LoadParticipants, Send,
         MarkConversationAsRead, PluckConversations, CountUnread, CreateFile,
         CopyBlock, ReadBack, StoreBlob, SendFile, Fails, Starts, counts
    <3> QED
      BY <3>1, <3>2
  <2>2. \A m \in asked[q] : Home(m)' = Home(m)
    BY MessagesAreOver, HomesKept DEF TypeOK
  <2> QED
    BY <1>1, <1>2, <2>1, <2>2 DEF CountsOK
<1>3. CASE pc[q] # "counting"
  <2>1. q = r
    BY <1>3, OthersKept
  <2>2. PluckConversations(r)
    BY <1>3, <2>1 DEF Step, Look, Create, LoadParticipants, Send,
       MarkConversationAsRead, CountUnread, CreateFile, CopyBlock, ReadBack,
       StoreBlob, SendFile, InsertMessage, Fails, Goto, Reply, Break, End, TypeOK
  <2>3. /\ mine'[r] = Involving(By[r]) /\ told' = told
        /\ asked'[r] = Unread(By[r], Involving(By[r]))
    BY <2>2 DEF PluckConversations, Starts, TypeOK
  <2>4. \A m \in asked'[r] : Home(m)' = Home(m) /\ Home(m) \in mine'[r] /\ By[m] # By[r]
    BY <2>3 DEF Unread, Home
  <2> QED
    BY <1>1, <2>1, <2>3, <2>4
<1> QED
  BY <1>2, <1>3

LEMMA CountCoversStep ==
    ASSUME TypeOK, PlaceOK, CountsOK, NEW r \in Requests, Step(r),
           NEW q \in Requesting("count"), answer[q] # "ok", answer'[q] = "ok"
    PROVE  /\ asked'[q] \ read \subseteq counted'[q]
           /\ counted'[q] \subseteq Unread(By[q], Involving(By[q]))
<1>1. q = r /\ Kind[r] = "count"
  BY OthersKept DEF Requesting
<1>2. CountUnread(r) \/ PluckConversations(r)
  BY <1>1 DEF Step, Look, Create, LoadParticipants, Send, MarkConversationAsRead,
     CreateFile, CopyBlock, ReadBack, StoreBlob, SendFile, Fails, Starts, Break, End,
     PlaceOK, TypeOK, Uploading
<1>3. CASE CountUnread(r)
  <2>1. /\ counted'[r] = Unread(By[r], mine[r]) /\ asked' = asked
        /\ mine[r] \subseteq Involving(By[r])
        /\ \A m \in asked[r] : Home(m) \in mine[r] /\ By[m] # By[r]
    BY <1>3 DEF CountUnread, CountsOK, TypeOK
  <2> QED
    BY <1>1, <2>1 DEF Unread, TypeOK
<1>4. CASE PluckConversations(r)
  <2>1. Involving(By[r]) = {} /\ counted'[r] = counted[r]
        /\ asked'[r] = Unread(By[r], Involving(By[r]))
    BY <1>1, <1>4 DEF PluckConversations, Starts, Goto, PlaceOK, TypeOK
  <2>2. counted[r] = {}
    BY <1>4 DEF PluckConversations, Starts, PlaceOK
  <2> QED
    BY <1>1, <2>1, <2>2 DEF Unread
<1> QED
  BY <1>2, <1>3, <1>4

\* While an upload runs its file is its own, as far as the upload got, and the
\* messages that refer to a file of that name were there when it began.
Progress(r, l, a, d, b, e) ==
    /\ d = Prefix(r, IF l = "copying" THEN a - 1 ELSE Size[r])
    /\ l = "reading" => a \in 1..(Size[r] + 1) /\ b = Prefix(r, a - 1)
    /\ l \in {"storing", "sending"} => b = Whole(r)
    /\ l = "sending" => e = Whole(r)

FilesOK ==
    \A r \in Requests : pc[r] \in Uploading =>
        /\ Progress(r, pc[r], at[r], disk[File(r)], bytes[r], blob[File(r)])
        /\ \A m \in FileMessages : File(m) = File(r) => m \in asked[r]

\* What FileKept wants of the stores.
InRedis(c, m) == \E q \in Later(m) \cup {m} : c = Whole(q)
OnDisk(c, m) == c = Whole(m) \/ \E q \in Later(m) : \E n \in 0..Size[q] : c = Prefix(q, n)

FilesKept ==
    \A m \in FileMessages : InRedis(blob[File(m)], m) /\ OnDisk(disk[File(m)], m)

\* The copy of a file from its first block to its last.
LEMMA Prefixes ==
    ASSUME NEW r \in Requests, Kind[r] = "upload"
    PROVE  /\ Size[r] \in 1..Blocks /\ Prefix(r, 0) = Empty
           /\ \A n \in 1..Blocks : [Prefix(r, n - 1) EXCEPT ![n] = r] = Prefix(r, n)
           /\ \A n \in 1..Blocks : (\A i \in n..Blocks : Whole(r)[i] = Null) <=> n > Size[r]
           /\ \A n \in 1..Blocks : n <= Size[r] => Whole(r)[n] = r
<1>1. Size[r] \in 1..Blocks /\ Blocks \in Nat /\ r # Null
  BY ConversationConstants
<1>2. \A i \in 1..Blocks : Whole(r)[i] = IF i <= Size[r] THEN r ELSE Null
  BY DEF Whole, Prefix
<1>3. ASSUME NEW n \in 1..Blocks
      PROVE  (\A i \in n..Blocks : Whole(r)[i] = Null) <=> n > Size[r]
  <2>1. n \in n..Blocks /\ \A i \in n..Blocks : i \in 1..Blocks
    BY <1>1
  <2>2. CASE n > Size[r]
    <3>1. \A i \in n..Blocks : ~(i <= Size[r])
      BY <1>1, <2>2
    <3> QED
      BY <1>2, <2>1, <2>2, <3>1
  <2>3. CASE n <= Size[r]
    BY <1>1, <1>2, <2>1, <2>3
  <2> QED
    BY <1>1, <2>2, <2>3
<1>4. ASSUME NEW n \in 1..Blocks
      PROVE  [Prefix(r, n - 1) EXCEPT ![n] = r] = Prefix(r, n)
  <2>1. \A i \in 1..Blocks : i <= n <=> (i <= n - 1 \/ i = n)
    BY <1>1
  <2> QED
    BY <2>1 DEF Prefix
<1>5. Prefix(r, 0) = Empty
  BY DEF Prefix, Empty
<1> QED
  BY <1>1, <1>2, <1>3, <1>4, <1>5

\* A message keeps its name and the later uploads of it.
LEMMA LaterGrows ==
    ASSUME TypeOK, PlaceOK, NEW r \in Requests, Step(r), NEW m \in FileMessages
    PROVE  /\ File(m)' = File(m) /\ File(m) \in Files
           /\ \A q \in Later(m) : q \in Later(m)'
           /\ \A c : InRedis(c, m) => \E q \in Later(m)' \cup {m} : c = Whole(q)
           /\ \A c : OnDisk(c, m) => \/ c = Whole(m)
                                     \/ \E q \in Later(m)' : \E n \in 0..Size[q] :
                                          c = Prefix(q, n)
<1>1. File(m)' = File(m) /\ File(m) \in Files
  BY MessagesAreOver, HomesKept DEF FileMessages, Requesting
<1>2. ASSUME NEW q \in Later(m) PROVE q \in Later(m)'
  <2>1. q \in Requests /\ Kind[q] = "upload" /\ m \in asked[q] /\ File(q) = File(m)
    BY DEF Later, Requesting
  <2>2. pc[q] # "new"
    BY <2>1 DEF PlaceOK
  <2>3. m \in asked'[q] /\ File(q)' = File(q)
    BY <2>1, <2>2, HomesKept, OthersKept
  <2> QED
    BY <1>1, <2>1, <2>3 DEF Later
<1>3. Later(m) \subseteq Later(m)'
  BY <1>2
<1> QED
  BY <1>1, <1>2, <1>3 DEF InRedis, OnDisk

\* A step that is none of an upload's writes.
LEMMA FilesUntouched ==
    ASSUME TypeOK, PlaceOK, FilesOK, FilesKept, NEW r \in Requests, Step(r),
           UNCHANGED <<disk, blob>>, UNCHANGED bytes,
           FileMessages' = FileMessages,
           pc'[r] \in Uploading => FALSE
    PROVE  FilesOK' /\ FilesKept'
<1>1. ASSUME NEW m \in FileMessages'
      PROVE  InRedis(blob[File(m)], m)' /\ OnDisk(disk[File(m)], m)'
  BY LaterGrows DEF FilesKept, InRedis, OnDisk
<1>2. \A m \in FileMessages : File(m)' = File(m)
  BY LaterGrows
<1>4. ASSUME NEW q \in Requests, pc'[q] \in Uploading
      PROVE  /\ Progress(q, pc'[q], at'[q], disk'[File(q)'], bytes'[q], blob'[File(q)'])
             /\ \A m \in FileMessages' : File(m)' = File(q)' => m \in asked'[q]
  <2>1. q # r /\ pc[q] = pc'[q] /\ at[q] = at'[q] /\ asked'[q] = asked[q]
    BY <1>4, OthersKept
  <2>2. File(q)' = File(q)
    BY <1>4, <2>1, HomesKept DEF PlaceOK, Uploading
  <2> QED
    BY <1>2, <1>4, <2>1, <2>2 DEF FilesOK
<1> QED
  BY <1>1, <1>4 DEF FilesOK, FilesKept, Progress

\* A write of upload r, which is and stays the only one of its file.
LEMMA FilesWritten ==
    ASSUME TypeOK, PlaceOK, FilesOK, FilesKept, NEW r \in Requests, Step(r),
           Kind[r] = "upload",
           \A q \in Requests \ {r} : pc[q] \in Uploading => File(q) # File(r),
           \A f \in Files \ {File(r)} : disk'[f] = disk[f] /\ blob'[f] = blob[f],
           \/ disk'[File(r)] = disk[File(r)]
           \/ \E n \in 0..Size[r] : disk'[File(r)] = Prefix(r, n),
           blob'[File(r)] \in {blob[File(r)], Whole(r)},
           \A m \in FileMessages : File(m) = File(r) => m \in asked'[r],
           messages' \subseteq messages \cup {r},
           r \in messages' => disk'[File(r)] = Whole(r) /\ blob'[File(r)] = Whole(r),
           pc'[r] \in Uploading =>
               /\ r \notin messages'
               /\ Progress(r, pc'[r], at'[r], disk'[File(r)], bytes'[r], blob'[File(r)])
    PROVE  FilesOK' /\ FilesKept'
<1>0. File(r)' = File(r) /\ File(r) \in Files
  BY HomesKept
<1>1. \A m \in FileMessages : File(m)' = File(m) /\ File(m) \in Files
  BY LaterGrows
<1>2. \A m \in FileMessages, q \in Requests : m \in asked[q] => m \in asked'[q]
  BY OthersKept DEF PlaceOK
<1>3. FileMessages' \subseteq FileMessages \cup {r}
  BY DEF FileMessages
<1>4. ASSUME NEW m \in FileMessages'
      PROVE  InRedis(blob[File(m)], m)' /\ OnDisk(disk[File(m)], m)'
  <2>1. CASE m = r
    BY <1>0, <1>4, <2>1 DEF FileMessages, InRedis, OnDisk
  <2>2. CASE m # r /\ File(m) # File(r)
    <3>1. m \in FileMessages
      BY <1>3, <2>2
    <3>2. disk'[File(m)'] = disk[File(m)] /\ blob'[File(m)'] = blob[File(m)]
      BY <1>1, <2>2, <3>1
    <3> QED
      BY <3>1, <3>2, LaterGrows DEF FilesKept, InRedis, OnDisk
  <2>3. CASE m # r /\ File(m) = File(r)
    <3>1. m \in FileMessages
      BY <1>3, <2>3
    <3>2. r \in Later(m)'
      BY <1>0, <1>1, <2>3, <3>1 DEF Later, Requesting
    <3>3. InRedis(blob[File(m)], m)'
      <4>1. blob'[File(m)'] \in {blob[File(m)], Whole(r)}
        BY <1>1, <2>3, <3>1
      <4> QED
        BY <3>1, <3>2, <4>1, LaterGrows DEF FilesKept, InRedis
    <3>4. OnDisk(disk[File(m)], m)'
      <4>1. \/ disk'[File(m)'] = disk[File(m)]
            \/ \E n \in 0..Size[r] : disk'[File(m)'] = Prefix(r, n)
        BY <1>1, <2>3, <3>1
      <4> QED
        BY <3>1, <3>2, <4>1, LaterGrows DEF FilesKept, OnDisk
    <3> QED
      BY <3>3, <3>4
  <2> QED
    BY <2>1, <2>2, <2>3
<1>5. ASSUME NEW q \in Requests, pc'[q] \in Uploading
      PROVE  /\ Progress(q, pc'[q], at'[q], disk'[File(q)'], bytes'[q], blob'[File(q)'])
             /\ \A m \in FileMessages' : File(m)' = File(q)' => m \in asked'[q]
  <2>1. CASE q = r
    BY <1>0, <1>1, <1>3, <1>5, <2>1 DEF FileMessages
  <2>2. CASE q # r
    <3>1. pc'[q] = pc[q] /\ at'[q] = at[q] /\ bytes'[q] = bytes[q]
      BY <2>2, OthersKept
    <3>2. Kind[q] = "upload" /\ File(q) # File(r)
      BY <1>5, <2>2, <3>1 DEF PlaceOK
    <3>3. File(q)' = File(q) /\ File(q) \in Files
      BY <1>5, <3>1, <3>2, HomesKept DEF Uploading
    <3>4. disk'[File(q)] = disk[File(q)] /\ blob'[File(q)] = blob[File(q)]
      BY <3>2, <3>3
    <3>5. Progress(q, pc[q], at[q], disk[File(q)], bytes[q], blob[File(q)])
      BY <1>5, <3>1 DEF FilesOK
    <3>6. \A m \in FileMessages' : File(m)' = File(q)' => m \in asked'[q]
      BY <1>0, <1>1, <1>2, <1>3, <1>5, <3>1, <3>2, <3>3 DEF FilesOK
    <3> QED
      BY <3>1, <3>3, <3>4, <3>5, <3>6
  <2> QED
    BY <2>1, <2>2
<1>6. FilesOK'
  BY <1>5 DEF FilesOK, Progress
<1> QED
  BY <1>4, <1>6 DEF FilesKept

LEMMA FilesStep ==
    ASSUME ~Overlap, TypeOK, PlaceOK, NamesOK, SerialOK, FilesOK, FilesKept,
           NEW r \in Requests, Step(r)
    PROVE  FilesOK' /\ FilesKept'
<1> USE DEF Goto, Reply, End, Break, db, files
<1>1. CASE CreateFile(r) /\ pc'[r] = "copying"
  <2>1. /\ Kind[r] = "upload" /\ pc[r] = "new"
        /\ disk' = [disk EXCEPT ![File(r)] = Empty] /\ blob' = blob
        /\ messages' = messages /\ asked'[r] = messages
        /\ pc'[r] = "copying" /\ at'[r] = 1
    BY <1>1 DEF CreateFile, Starts, TypeOK, PlaceOK
  <2>2. File(r) \in Files /\ Size[r] \in 1..Blocks /\ Prefix(r, 0) = Empty
    BY <2>1, HomesKept, Prefixes
  <2>3. \A q \in Requests \ {r} : pc[q] \in Uploading => File(q) # File(r)
    <3>1. \A q \in Requests \ {r} : Same(r, q) => pc[q] \in {"new", "done"}
      BY <1>1 DEF CreateFile, Starts
    <3> QED
      BY <2>1, <3>1 DEF Same, PlaceOK, Uploading
  <2>4. messages' \subseteq messages \cup {r} /\ r \notin messages'
    BY <2>1 DEF PlaceOK
  <2>5. /\ disk'[File(r)] = Prefix(r, 0) /\ 0 \in 0..Size[r]
        /\ \A f \in Files \ {File(r)} : disk'[f] = disk[f] /\ blob'[f] = blob[f]
    BY <2>1, <2>2 DEF TypeOK
  <2>6. \A m \in FileMessages : m \in asked'[r]
    BY <2>1 DEF FileMessages
  <2>7. Progress(r, pc'[r], at'[r], disk'[File(r)], bytes'[r], blob'[File(r)])
    BY <2>1, <2>5 DEF Progress
  <2>8. Kind[r] = "upload" /\ blob'[File(r)] = blob[File(r)]
    BY <2>1
  <2> QED
    BY <2>3, <2>4, <2>5, <2>6, <2>7, <2>8, FilesWritten
<1>2. CASE CopyBlock(r) \/ ReadBack(r) \/ StoreBlob(r) \/ SendFile(r)
  <2>1. /\ Kind[r] = "upload" /\ pc[r] \in Uploading /\ r \notin messages
    BY <1>2 DEF CopyBlock, ReadBack, StoreBlob, SendFile, PlaceOK, Uploading
  <2>2. /\ File(r) \in Files
        /\ Progress(r, pc[r], at[r], disk[File(r)], bytes[r], blob[File(r)])
    BY <2>1, HomesKept DEF FilesOK, Uploading
  <2>3. \A q \in Requests \ {r} : pc[q] \in Uploading => File(q) # File(r)
    BY <2>1 DEF SerialOK, Same, PlaceOK, Uploading
  <2>4. \A m \in FileMessages : File(m) = File(r) => m \in asked'[r]
    <3>1. asked'[r] = asked[r]
      BY <2>1, OthersKept DEF Uploading
    <3> QED
      BY <2>1, <3>1 DEF FilesOK
  <2>0. /\ Size[r] \in 1..Blocks
        /\ \A n \in 1..Blocks : [Prefix(r, n - 1) EXCEPT ![n] = r] = Prefix(r, n)
        /\ \A n \in 1..Blocks : n <= Size[r] => Whole(r)[n] = r
        /\ \A n \in 1..Blocks : (\A i \in n..Blocks : Whole(r)[i] = Null) <=> n > Size[r]
        /\ Whole(r) = Prefix(r, Size[r])
    BY <2>1, Prefixes DEF Whole
  <2>c. CASE CopyBlock(r)
    <3>1. /\ pc[r] = "copying" /\ at[r] \in 1..Size[r]
          /\ disk[File(r)] = Prefix(r, at[r] - 1)
      BY <2>2, <2>c DEF CopyBlock, PlaceOK, Progress
    <3>2. /\ at[r] \in 1..Blocks
          /\ [Prefix(r, at[r] - 1) EXCEPT ![at[r]] = r] = Prefix(r, at[r])
      <4>1. at[r] \in 1..Blocks
        BY <2>0, <3>1, ConversationConstants
      <4> QED
        BY <2>0, <4>1
    <3>3. /\ blob' = blob /\ messages' = messages
          /\ pc'[r] = (IF at[r] = Size[r] THEN "reading" ELSE "copying")
          /\ at'[r] = (IF at[r] = Size[r] THEN 1 ELSE at[r] + 1)
          /\ bytes'[r] = Empty /\ Empty = Prefix(r, 0)
      BY <2>1, <2>c, <3>1, Prefixes DEF CopyBlock, PlaceOK, TypeOK
    <3>4. /\ disk'[File(r)] = Prefix(r, at[r]) /\ at[r] \in 0..Size[r]
          /\ \A f \in Files \ {File(r)} : disk'[f] = disk[f] /\ blob'[f] = blob[f]
      <4>1. disk' = [disk EXCEPT ![File(r)] = [disk[File(r)] EXCEPT ![at[r]] = r]]
        BY <2>c DEF CopyBlock
      <4> QED
        BY <2>0, <2>2, <3>1, <3>2, <3>3, <4>1 DEF TypeOK
    <3>5. Progress(r, pc'[r], at'[r], disk'[File(r)], bytes'[r], blob'[File(r)])
      BY <2>0, <3>1, <3>3, <3>4 DEF Progress
    <3>6. /\ r \notin messages' /\ messages' \subseteq messages \cup {r}
          /\ blob'[File(r)] = blob[File(r)]
      BY <2>1, <3>3
    <3> QED
      BY <2>1, <2>3, <2>4, <3>4, <3>5, <3>6, FilesWritten
  <2>5. CASE ReadBack(r)
    <3>1. /\ disk' = disk /\ blob' = blob /\ messages' = messages
          /\ pc[r] = "reading" /\ disk[File(r)] = Whole(r)
          /\ at[r] \in 1..(Size[r] + 1) /\ bytes[r] = Prefix(r, at[r] - 1)
      BY <2>0, <2>2, <2>5 DEF ReadBack, Progress
    <3>2. (\A i \in at[r]..Blocks : disk[File(r)][i] = Null) <=> at[r] = Size[r] + 1
      <4>1. CASE at[r] \in 1..Blocks
        BY <2>0, <3>1, <4>1
      <4>2. CASE at[r] \notin 1..Blocks
        BY <2>0, <3>1, <4>2, ConversationConstants
      <4> QED
        BY <4>1, <4>2
    <3>3. Progress(r, pc'[r], at'[r], disk'[File(r)], bytes'[r], blob'[File(r)])
      <4>1. CASE at[r] = Size[r] + 1
        <5>1. pc'[r] = "storing" /\ bytes'[r] = bytes[r]
          BY <2>5, <3>2, <4>1 DEF ReadBack, TypeOK
        <5>2. bytes[r] = Whole(r)
          BY <2>0, <3>1, <4>1
        <5> QED
          BY <2>0, <3>1, <5>1, <5>2 DEF Progress
      <4>2. CASE at[r] # Size[r] + 1
        <5>1. at[r] \in 1..Size[r] /\ at[r] \in 1..Blocks
          BY <2>0, <3>1, <4>2, ConversationConstants
        <5>2. disk[File(r)][at[r]] = r
          BY <2>0, <3>1, <5>1
        <5>3. /\ pc'[r] = "reading" /\ at'[r] = at[r] + 1
              /\ bytes'[r] = [bytes[r] EXCEPT ![at[r]] = r]
          BY <2>5, <3>2, <4>2, <5>2 DEF ReadBack, TypeOK
        <5>4. bytes'[r] = Prefix(r, at[r])
          BY <2>0, <3>1, <5>1, <5>3
        <5> QED
          BY <2>0, <3>1, <5>1, <5>3, <5>4 DEF Progress
      <4> QED
        BY <4>1, <4>2
    <3>4. r \notin messages' /\ messages' \subseteq messages \cup {r}
      BY <2>1, <3>1
    <3> QED
      BY <2>1, <2>3, <2>4, <3>1, <3>3, <3>4, FilesWritten
  <2>6. CASE StoreBlob(r)
    <3>1. bytes[r] = Whole(r) /\ disk[File(r)] = Whole(r)
      BY <2>0, <2>2, <2>6 DEF StoreBlob, Progress
    <3>2. /\ disk' = disk /\ blob' = [blob EXCEPT ![File(r)] = Whole(r)]
          /\ messages' = messages /\ bytes'[r] = Whole(r) /\ pc'[r] \in {"sending", "done"}
      BY <2>6, <3>1 DEF StoreBlob, TypeOK
    <3>3. /\ blob'[File(r)] = Whole(r)
          /\ \A f \in Files \ {File(r)} : disk'[f] = disk[f] /\ blob'[f] = blob[f]
      BY <2>2, <3>2 DEF TypeOK
    <3>4. /\ r \notin messages' /\ messages' \subseteq messages \cup {r}
          /\ disk'[File(r)] = disk[File(r)]
      BY <2>1, <3>2
    <3>5. pc'[r] \in Uploading =>
            Progress(r, pc'[r], at'[r], disk'[File(r)], bytes'[r], blob'[File(r)])
      BY <2>0, <3>1, <3>2, <3>3 DEF Progress, Uploading
    <3> QED
      BY <2>1, <2>3, <2>4, <3>3, <3>4, <3>5, FilesWritten
  <2>7. CASE SendFile(r)
    <3>1. blob[File(r)] = Whole(r) /\ disk[File(r)] = Whole(r)
      BY <2>0, <2>2, <2>7 DEF SendFile, Progress
    <3>2. /\ disk' = disk /\ blob' = blob
          /\ messages' \subseteq messages \cup {r} /\ pc'[r] \notin Uploading
      BY <2>7 DEF SendFile, InsertMessage, TypeOK, Uploading
    <3> QED
      BY <2>1, <2>3, <2>4, <3>1, <3>2, FilesWritten
  <2> QED
    BY <1>2, <2>c, <2>5, <2>6, <2>7
<1>3. CASE ~(CopyBlock(r) \/ ReadBack(r) \/ StoreBlob(r) \/ SendFile(r))
           /\ ~(CreateFile(r) /\ pc'[r] = "copying")
  <2>1. UNCHANGED <<disk, blob>> /\ UNCHANGED bytes /\ pc'[r] \notin Uploading
    <3>1. CASE CreateFile(r)
      BY <1>3, <3>1 DEF CreateFile, TypeOK, Uploading
    <3>2. CASE ~CreateFile(r)
      BY <1>3, <3>2 DEF Step, Look, Create, LoadParticipants, Send,
         MarkConversationAsRead, PluckConversations, CountUnread, InsertMessage, Fails,
         TypeOK, Uploading
    <3> QED
      BY <3>1, <3>2
  <2>2. FileMessages' = FileMessages
    BY <1>3 DEF Step, Look, Create, LoadParticipants, Send, MarkConversationAsRead,
       PluckConversations, CountUnread, CreateFile, InsertMessage, Fails, Starts,
       FileMessages, Requesting
  <2> QED
    BY <2>1, <2>2, FilesUntouched
<1> QED
  BY <1>1, <1>2, <1>3

-----------------------------------------------------------------------------
(* The invariant and the theorems.                                         *)

ConversationsInv ==
    /\ TypeOK /\ PlaceOK /\ ReadByOther /\ CountsOK
    /\ AnsweredWithPair /\ MarksOK /\ NamesOK
    /\ ~Overlap => SerialOK /\ OnePerPair /\ FilesOK /\ FilesKept

LEMMA ConversationsInvariant == Spec => []ConversationsInv
<1>1. Init => ConversationsInv
  <2> SUFFICES ASSUME Init PROVE ConversationsInv
    OBVIOUS
  <2> USE ConversationConstants DEF Init
  <2>1. TypeOK
    BY EmptyFile DEF TypeOK
  <2>2. PlaceOK /\ ReadByOther /\ CountsOK
    BY DEF PlaceOK, ReadByOther, CountsOK, Uploading
  <2>3. SerialOK /\ OnePerPair /\ FilesOK /\ FilesKept
    BY DEF SerialOK, OnePerPair, FilesOK, FilesKept, FileMessages, Uploading
  <2>4. AnsweredWithPair /\ MarksOK /\ NamesOK
    BY DEF AnsweredWithPair, MarksOK, NamesOK, FileMessages, Requesting, Uploading
  <2> QED
    BY <2>1, <2>2, <2>3, <2>4 DEF ConversationsInv
<1>2. ConversationsInv /\ [Next]_vars => ConversationsInv'
  <2> SUFFICES ASSUME ConversationsInv, [Next]_vars PROVE ConversationsInv'
    OBVIOUS
  <2>1. ASSUME NEW r \in Requests, Step(r) PROVE ConversationsInv'
    BY <2>1, TypeStep, PlaceStep, ReadStep, CountsStep, SerialStep, FilesStep,
       AnsweredStep, MarksStep, NamesStep
       DEF ConversationsInv
  <2>2. CASE UNCHANGED vars
    <3> USE <2>2 DEF vars, ConversationsInv
    <3>1. TypeOK' /\ PlaceOK'
      BY DEF TypeOK, PlaceOK
    <3>2. ReadByOther' /\ CountsOK'
      BY DEF ReadByOther, CountsOK, Home, Involving
    <3>3. ~Overlap => SerialOK' /\ OnePerPair'
      BY DEF SerialOK, OnePerPair, Same, File, Home
    <3>4. ~Overlap => FilesOK' /\ FilesKept'
      BY DEF FilesOK, FilesKept, FileMessages, InRedis, OnDisk, Later, File, Home
    <3>5. AnsweredWithPair' /\ MarksOK'
      BY DEF AnsweredWithPair, MarksOK, Home
    <3>6. NamesOK'
      BY DEF NamesOK, Of, OfFile, FileMessages, File, Home
    <3> QED
      BY <3>1, <3>2, <3>3, <3>4, <3>5, <3>6
  <2> QED
    BY <2>1, <2>2, NextSteps
<1> QED
  BY <1>1, <1>2, PTL DEF Spec

\* Every variable keeps its type.
THEOREM ConversationTypes == Spec => []TypeOK
<1>1. ConversationsInv => TypeOK
  BY DEF ConversationsInv
<1> QED
  BY <1>1, ConversationsInvariant, PTL

\* A pair whose users do not open it at once has one conversation, for any
\* number of users and openings and whatever fails.
THEOREM OneConversationPerPair == Spec => []OneConversation
<1>1. ConversationsInv => OneConversation
  BY DEF ConversationsInv, OnePerPair, OneConversation
<1> QED
  BY <1>1, ConversationsInvariant, PTL

\* A message is marked read only by its receiver, who could see it then.
THEOREM ReadOnlyByReceiver == Spec => []ReadByOther
<1>1. ConversationsInv => ReadByOther
  BY DEF ConversationsInv
<1> QED
  BY <1>1, ConversationsInvariant, PTL

\* Uploads of a name that do not overlap never give a message the file of an
\* earlier one, nor in Redis a part of one, wherever they fail.
THEOREM UploadsKeepFiles == Spec => []FileKept
<1>1. ConversationsInv => FileKept
  BY DEF ConversationsInv, FilesKept, InRedis, OnDisk, FileKept
<1> QED
  BY <1>1, ConversationsInvariant, PTL

\* The conversation an opening is answered with is of the pair it asked for, also
\* when openings overlap and a pair gets several.
THEOREM AnsweredIsOfPair == Spec => []AnsweredWithPair
<1>1. ConversationsInv => AnsweredWithPair
  BY DEF ConversationsInv
<1> QED
  BY <1>1, ConversationsInvariant, PTL

\* However uploads overlap and fail, a message finds its file in both stores, and no
\* block in it that an upload to another conversation or under another name sent;
\* whole it need not be, nor of one upload.
THEOREM FilesAreOfTheirName == Spec => []FileOfItsName
<1>1. ConversationsInv => FileOfItsName
  <2> SUFFICES ASSUME ConversationsInv, NEW m \in FileMessages,
                      NEW c \in {disk[File(m)], blob[File(m)]}
               PROVE  c # Null /\ \A i \in 1..Blocks : c[i] # Null => File(c[i]) = File(m)
    BY DEF FileOfItsName
  <2>1. Via[m] \in Requesting("open") /\ told[Via[m]] \in Requesting("open")
    <3>1. /\ m \in Requests /\ Kind[m] = "upload" /\ pc[m] # "new"
          /\ Via[m] \in Requests /\ Kind[Via[m]] = "open"
      BY ConversationConstants DEF ConversationsInv, PlaceOK, FileMessages, Requesting
    <3>2. told[Via[m]] \in convs
      BY <3>1 DEF ConversationsInv, PlaceOK, TypeOK
    <3> QED
      BY <3>1, <3>2 DEF ConversationsInv, TypeOK, Requesting
  <2>2. File(m) \in Files
    BY <2>1 DEF File, Home, Files, FileMessages
  <2>3. c # Null /\ Of(c, File(m))
    BY <2>2 DEF ConversationsInv, NamesOK
  <2> QED
    BY <2>3 DEF Of, OfFile
<1> QED
  BY <1>1, ConversationsInvariant, PTL

\* What a user was told to have marked is in no later unread count of theirs.
THEOREM MarkedStayUncounted == Spec => MarkedNotCounted
<1> DEFINE A == \A r \in Requesting("count"), q \in Requesting("mark") :
                  /\ By[r] = By[q] /\ answer[q] = "ok"
                  /\ answer[r] # "ok" /\ answer'[r] = "ok"
                  => \A m \in counted'[r] \cap asked[q] : Home(m) # Home(q)
<1>1. ConversationsInv /\ [Next]_vars => [A]_vars
  <2> SUFFICES ASSUME ConversationsInv, [Next]_vars, ~UNCHANGED vars PROVE A
    OBVIOUS
  <2>1. PICK r \in Requests : Step(r)
    BY NextSteps
  <2> QED
    BY <2>1, MarkedNotCountedStep DEF ConversationsInv
<1> QED
  BY <1>1, ConversationsInvariant, PTL DEF Spec, MarkedNotCounted

\* The unread count is one a single look could have given between the request
\* and the answer, but for what was read or sent meanwhile: for any number of
\* conversations and of requests in between.
THEOREM CountsCover == Spec => CountCovers
<1>1. ConversationsInv /\ [Next]_vars =>
        [\A r \in Requesting("count") :
            answer[r] # "ok" /\ answer'[r] = "ok" =>
                /\ asked'[r] \ read \subseteq counted'[r]
                /\ counted'[r] \subseteq Unread(By[r], Involving(By[r]))]_vars
  <2> SUFFICES ASSUME ConversationsInv, [Next]_vars, ~UNCHANGED vars,
                      NEW q \in Requesting("count"), answer[q] # "ok", answer'[q] = "ok"
               PROVE  /\ asked'[q] \ read \subseteq counted'[q]
                      /\ counted'[q] \subseteq Unread(By[q], Involving(By[q]))
    OBVIOUS
  <2>1. PICK r \in Requests : Step(r)
    BY NextSteps
  <2> QED
    BY <2>1, CountCoversStep DEF ConversationsInv
<1> QED
  BY <1>1, ConversationsInvariant, PTL DEF Spec, CountCovers
================================================================================
