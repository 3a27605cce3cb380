# Verification of the real-estate platform

TLA+ models of the platform's concurrent parts, the TLC runs that check them on
small instances and the TLAPS proofs that carry the safety results to every
size. Paths are relative to the repository root (`src/`).

## 1. The system

Three back-end services and a mobile app share one PostgreSQL and one Redis.
They do not call each other; what they share is tables (the chat service reads
the `users` table of the NestJS service). The Kafka bus of the top-level README
exists in no service's code.

| Component | State | Operations | Talks to |
|---|---|---|---|
| **Chat hub** `go_chat_service/websocket/websocket.go` | map user → connection; a buffered channel, two goroutines and a socket per connection | connect, register, unregister, read, broadcast, write | chat service, peers |
| **Message store** `go_chat_service/services/chat_service.go`, `handlers/chat_handlers.go` | rows of `messages`, `conversations.last_message_id`, a Redis list per conversation | send, page through the history | PostgreSQL, Redis |
| **Conversations, read flags** (same files) | rows of `conversations`, `messages.is_read` | get or create, mark read, count unread | PostgreSQL |
| **File upload** `handlers/chat_handlers.go` | files on disk, blobs in Redis | upload, download | message store |
| **Checkout** `dotnet_service/Services/PaymentService.cs` | `Payments`, `TransactionLogs`, RedLock keys, Stripe sessions | create checkout session; manual payment, status update, queries | PostgreSQL, Redis, Stripe |
| **Accounts** `nest_service/src/auth` | rows of `users` and of two profile tables | register, verify, login, forgot/reset/change password, update, photo | PostgreSQL, disk |
| **Catalogue** `nest_service/src/properties`, `companies` | properties, images, videos, companies | create, update, remove, add media, set a logo | PostgreSQL, disk, a tagging service |
| **Chat client** `real_state_app/lib/data/services/chat_service.dart` | channel, connected flag, reconnect and ping timers | connect, disconnect, callbacks, send | chat hub, chat REST |
| **Screen state** `real_state_app/lib/presentation/bloc` | one state object per screen | event handlers that await services and emit | chat client, REST |

### What is hard in it, and what makes it correct

* *Hub.* Channels are closed in two places and sent to in a third; the map is
  keyed by user, not by connection; buffers fill; peers vanish or do not read.
  Correct means: never close or send to a closed channel, never wait for a peer,
  one gap-free order of frames, no leaked goroutine, no dropped connection that
  did nothing wrong.
* *Message store.* A send is four statements on two stores without a
  transaction; Redis stands in for the table although it can lose entries;
  paging reads four times while others send. Correct means: Redis lists only
  rows, whoever follows `hasMore` sees everything, the last message is a recent
  one.
* *Conversations, files.* A look and a create without a constraint between them,
  a count made of two queries, an upload that writes disk, Redis and a table, the
  first two piecemeal or with what it finds there, and can fail after each. Correct means: one conversation per pair, a message is
  read only because its receiver asked, a count misses nothing, a message finds
  its file.
* *Checkout.* A lease that can run out, a check and a commit some time apart, an
  external side effect inside a database transaction, commits whose outcome is
  unknown; status changes that write what differs from what they once read.
  Correct means: a transaction id is recorded once, answers are true, nothing
  stays locked, no finished status change is undone by an earlier one.
* *Accounts, catalogue.* Handlers read a row, await and save it; TypeORM compares
  the object with the row of that moment. Bodies are laid over objects without a
  whitelist. Correct means: no lost update, a request changes what it was given
  and no more, a reset only with the last token, no success for half-made
  accounts, no image or logo without a file, nothing that refers to what is gone.
* *App.* State captured before an await and emitted after it, answers out of
  order, timers and callbacks of dead sockets.

`PROJECT.json` lists every hazard at its line with the properties that cover it.

## 2. Modules

| Module | What it is |
|---|---|
| `BroadcastLog` | abstract specification of the hub: one log, subscribers that are shown a run of it |
| `ChatHub` | the hub, its channels, and the goroutines of every connection |
| `MCChatHub` | who opens which connection, for TLC |
| `ChatHubProofs`, `ChatHubRefinement` | its invariants; that it implements `BroadcastLog` |
| `PaymentBook` | abstract specification of checkouts: a book of payments, sessions and answers |
| `Checkout`, `CheckoutProofs` | checkout requests, their lease, database and Stripe; its invariants, and that it implements `PaymentBook` |
| `Payments`, `PaymentsProofs` | the payment service whole: `Checkout` and beside it manual payments and status changes |
| `MCCheckout` | instances of `Payments` |
| `MessageStore`, `MCMessageStore`, `MessageStoreProofs` | sends and paged reads of one conversation |
| `AccountBook` | abstract specification of the accounts: every request is one step |
| `Accounts`, `MCAccounts`, `AccountsProofs` | account requests with their awaits and TypeORM's reads and writes |
| `Conversations`, `MCConversations`, `ConversationsProofs` | openings, sends, marks, counts and uploads, statement by statement |
| `CatalogueBook` | abstract specification of the catalogue: every request is one step, an upload one per file |
| `Catalogue`, `MCCatalogue`, `CatalogueProofs` | companies and properties with their media and files, and TypeORM's save |

### ChatHub

`clients` is `Hub.clients`, `sendq`/`closed` the `Send` channel of each
connection, `reader` and `writer` the program counters of `readPump` (with
`ServeWs` before it) and `writePump`, `draft` and `hand` the frame each holds,
`conn` the socket. A send on an unbuffered channel is one step of both sides,
so `HubRegister`, `HubUnregister` and `HubTake` are the three cases of
`Hub.Run`. The loop over a broadcast is one step per entry (`HubOffer`, with
`fanout` the entries left), so that writers drain buffers between its
iterations; the hub takes nothing else meanwhile. A panic in any goroutine ends
the process (`panicked` disables everything).

Kept as in the code, wrong or not: registering overwrites an entry; unregister
finds the entry by *user* and closes the channel of the *leaving* connection; a
closed channel still yields its contents to the writer.

Left out: frame contents (a frame is its sender, kind and number), frames that
do not parse or have another type (they change nothing), the mutexes (only the
hub's goroutine touches the map, and only one goroutine writes a socket), failed
upgrades. `log`, `since` and `inbox` record history for the properties.

`BroadcastLog` says what connections may rely on: every frame has one place in
one log; a subscriber starts at the end of the log; what it is shown is the log
from there without gap or repetition; a frame is published only once every
subscriber was offered the one before. The mapping (`INSTANCE BroadcastLog` at
the end of `ChatHub`) calls a connection live while the map holds it; its
position is what was written, is being written and is buffered, taken together.

### Checkout

One request is one call of `CreateStripeCheckoutSessionAsync`; a retry is
another request with the same transaction id. `pc` is where it is, `lease[p]`
whose token Redis holds for property `p`, `recorded` the requests whose payment
and log row are committed, `sessions` those Stripe made a session for,
`outcome` the answer. A transaction's writes become visible at the commit and
are part of it. Each await that can fail has a failing action: `Busy`,
`DatabaseFails`, `StripeFails` (the session may exist all the same),
`CommitFails` (the commit may have happened). A request can die at any step
(`Crash`); its lease stays until `Expire`. `LoseLease` takes the lease from a
live holder: RedLock renews it in the background, so that needs a long pause or
a Redis that lost the key; `lost` remembers whom it happened to, because nothing
tells the code.

`PaymentBook` is what a client may rely on, without leases, transactions or
processes: a payment enters the book in one step, if it can be paid and no other
payment of its property and transaction id keeps it out; nothing is taken out of
the book; a request has at most one answer, and that is true of the book ("busy"
and "duplicate": no payment and no session; "duplicate": somebody else's payment
is there; "created": the own one is). The mapping reads `sessions` as `payable`
and `outcome` as `answer`; requests that lost their lease (`lost`) are the ones
the book no longer keeps apart (`weak`).

Left out: amounts, currency and URLs, the contents of the log, the user id (the
code compares none of them).

### Payments

Extends `Checkout` with the table's other writers, and composes the two by
interleaving: a step is one of `Checkout` or one of an administrator
(`NextPayments`). `CreateManualPayment` is one INSERT; `FindPayment` and
`SaveStatus` are the two awaits of `UpdatePaymentStatusAsync`. Every HTTP request
has a DbContext of its own, so the row is read anew, and the UPDATE has the
status among its columns only if it differs from what was read: an update can be
skipped because of a status the row no longer has. `status[p]` is the column,
`found[u]` what an update read. `over` remembers which updates were over when one
began, for `StatusNotOvertaken`. The time stamp that is set with the status is
left out.

### MessageStore

One conversation. `table` is its rows by `created_at`, `list` the Redis list,
`last` is `last_message_id`, `pc` the position of each send. `Begin` takes the
timestamp before the insert, so rows can become visible out of order:
`older[m]` are the messages with an earlier one. Each statement of `SendMessage`
is a step and can fail; a failed push is only logged; the WebSocket's reader
pushes the message a second time (`PushAgain`). The reader runs
`GetConversationMessages` of the handlers page by page: `LRANGE`
(`FetchRange`), the table if that was empty (`FetchRows`), `LLEN` (`CountList`,
`CountListFails`), the table if that was zero or failed (`CountRows`); the
client asks for the next page at the number of entries it has as long as it is
told `hasMore`. It asks for any page size of `Limits`, 0 included: `LRANGE` from 0
to -1 is the whole list and from any other offset nothing (`RangeOf`), and the
query of the table then has no LIMIT at all (`RowsOf`). Redis can fail a push, fail a count, or expire the key, at
any time, `MaxLosses` times in all. A send that ended without success is
`failed`, whether its sender was told of an error or its process died. `before`
and `over` remember what was there when a message was begun, for
`LastNotOvertaken` and `HistoryInOrder`.

Left out: message contents, file and voice messages (the same calls), malformed
entries in the list (the code itself writes all of them), negative limits and
offsets.

### Conversations

`convs`, `messages` and `read` are the rows and the read flag, `disk` and `blob`
what a file name holds on disk and in Redis, `pc` the statement a request is at.
`GetOrCreateConversation` looks for the pair either way round and takes the row
with the smallest id (`Look`; ids are random and so given as a constant), else
creates one, and then loads the participants, which can fail with the row there.
`MarkConversationAsRead` is one UPDATE. `GetUnreadMessageCount` asks for the
conversations and then counts, so `mine` may be old when `counted` is made.
A file is a row of blocks, each named by the upload that wrote it. `UploadFile`
opens the file of its conversation and name, which empties the one that is there
(`CreateFile`), copies its blocks (`CopyBlock`), reads the file back until it ends
(`ReadBack`), stores what it read in Redis (`StoreBlob`), and only then looks for
the sender and inserts the message (`SendFile`). It can fail before and after each
block, which leaves a part of the file on disk. Two uploads at once each write at
their own place in one file and each may empty it under the other, so that the
disk, and through `ReadBack` Redis, can hold torn and mixed files.
A send and a mark go to a conversation that an opening was answered with (`Via`).
Any statement can fail, and a write can happen and its answer be lost
(`MaxFaults`). `asked` remembers what was there when a request began.

`Overlap` says whether two openings of one pair, or two uploads of one name to
one conversation, may be under way at once. Everything else always overlaps.

Left out: message contents, the list in Redis (`MessageStore` has it), which
bytes a file check refuses (one refusal), the lists that only read.

### Accounts

`users` is the table with its columns folded to what is set together (`reset` is
the token with its expiry, `names` the free profile fields, `photo` the two avatar
columns), `profiles` the two profile tables, `disk` the photos under
`uploads/users`, `pc` and `copy` how far a handler is and the object it read.
Values are named by the request that set them, so a column shows whose write is
in force. What class-validator or the upload filter refuses is refused before the
handler looks at anything, and a JWT must be there for some routes.

`main.ts` installs the validation pipe without a whitelist, so keys that a form
does not have pass. `register` spreads what it was given over the new row, after
the status and the verification token, and `updateUser` assigns its body to the
object. `Body[r]` is therefore any part of the columns with any values, not only
those of the DTO (`Required` are the ones a DTO insists on): an update may set a
status, an e-mail, a password hash, a reset token or a photo. `Assigned` is what
each request gives its object, `Over` the assignment. A photo or a token that a
body brings is taken to be a new one, called after it, and `TokenExpires` covers such a
token too. `Finds` is the query of each request; `verifyEmail` may find any row,
because TypeORM leaves the condition of an undefined token out and takes the first
row.

A user's row and the profile of a developer or broker are two INSERTs without a
transaction: when the second fails, or a broker's form left out what its table
requires (`Complete`; extra keys reach it by the same spread), the row stays and
the client is told of an error. A photo is on the disk before the row names it.

`repository.save(object)` is TypeORM's: read the row (`SaveLooks`), update the
columns in which object and row differ (`SaveWrites`), skip properties that are
`undefined`. So a save writes what it never meant to change when the row moved
on after the object was read, and `resetPassword`, which sets the token to
`undefined`, leaves it in the row; `AccountBook` lets the token that a row has be
used again for that reason. The unique columns are checked by the INSERT and UPDATE
themselves, besides the queries the code makes first. A write may happen and its
answer be lost. How a reset token reaches its owner is outside the code (the mail is
a TODO); a reset simply has one.

`Overlap` says whether clients may have two requests about one account under
way. Requests about different accounts always overlap.

`AccountBook` says that a request takes effect in one step and changes only the
columns it gives (`Gives`): for an update those its body brings, whichever they
are, for a password change the password and nothing else. It does not say that
a profile form cannot set a status, because the code lets it.

### Catalogue

`rows` are companies and properties, `listed` the rows of the two media tables,
`disk` the files under `uploads/`. An upload has all its files on disk before its
handler runs (`StoreFiles`); each file is then looked up and inserted in turn
(`FindProperty`, `InsertMedia`). A property's company, and the property of an image
or a video, is checked before the insert and decided by the foreign key in it, so a
row that is referred to cannot be deleted. As for accounts, a body may bring columns
its form does not have: creations and updates lay `Body[r]` over the object, so an
update of a company may set the logo, too.

`save` is TypeORM's, in three steps at most: it reads the row with the relations
the object has (`SaveLooks`); if the row is gone it inserts the object under its
old id (`SaveRestores`); if the row has images the object has not, it takes them
for removed and sets their `propertyId` to NULL, which the column forbids
(`SaveDetaches`); else it updates what differs (`SaveUpdates`).
`CatalogueBook` allows for this: `Late` is a save that met the removal of its
row and is lost or undoes it. `Overlap` says whether two saves of one row
(updates, logos: `Exclusive`) may be under way at once; uploads and removals
always overlap with them and each other.

Left out: tags, views and building information (tables that nothing writes),
locations (`addOrUpdateLocation` writes them and has no caller), form checks that
need no state. A `companyId` in an update has no effect: TypeORM takes the key of
the company object that `findOne` loaded.

## 3. Runs

| Run | Instance | Shows |
|---|---|---|
| `hub_one_each` | 2 users, 1 connection each, buffer 1, 2 chat messages, fairness | no panic, no leak, nobody waits for the hub for ever, kept while serving, stored before broadcast, readers that read catch up |
| `hub_twice` | 1 user, 2 connections, buffer 1, 3 frames | with evictions and double closes possible, the map holds only open channels, streams are windows of the log, channels are closed for cause, the hub implements `BroadcastLog`, and a panic has one cause only (a connection dropped for lagging leaves while its user has another) |
| `hub_evicts` | as `hub_twice` | **violation**: a serving connection is thrown out of the map |
| `checkout_race` | 3 requests, 2 properties, 1 transaction id, 1 lost lease, crashes; 1 manual payment, 3 status changes of two payments; any 3 of these calls; fairness | implements `PaymentBook` (answers are true, no payment without session), once per property under the lease, tokens protect, property freed, no finished status change overtaken |
| `checkout_two_properties` | the same, no lost lease | **violation**: one transaction id recorded for two properties |
| `store_paging` | 3 messages (1 over WebSocket), pages of 2 or of 0, 1 Redis failure | list ⊆ rows, sent ⊆ list, last message recent, table and list in one order, paging complete |
| `store_expires` | the same | **violation**: after one loss the history has a hole |
| `conversations_in_turn` | 3 users; 3 openings, two of them of one pair from both sides; 2 sends, 2 uploads of one name, of one block and of two, a mark, a count; any 7 of these, 1 failure | one conversation per pair, files kept whole, read flags set by the receiver only, counts complete and without what was marked |
| `accounts_in_turn` | 2 registrations, of a developer and of a broker whose form lacks what the profile requires; 7 requests about the first account, one after another, one of them an update that wants the second's number and brings a status and a reset token; the second registration brings its status; any 6 of these, 1 failure | answers are true, profiles complete, photos served, implements `AccountBook` |
| `accounts_overlap` | 1 account, an update, a forgot and a reset at once | **violation**: a profile update writes a password back that its body does not have |
| `catalogue_apart` | a company with an update that brings a logo in its body, an uploaded logo and a removal; a property with an update, 2 images, a video and a removal; any 7 of these 9 requests, 1 failure | answers are true, shown files exist, implements `CatalogueBook`, a removal is final once no save holds the row |
| `catalogue_overlap` | a company, a property, its update and its removal | **violation**: a removed property is back after the removal was confirmed |

**Why the bounds are enough.** The hub's code distinguishes "same user" from
"other user" and "room" from "full": two connections, once of one user and once
of two, give each pair of roles, and a buffer of 1 is empty, full and
overflowing within three frames. The panic needs two connections of one user and
a full buffer, all within `hub_twice`, which does not check `NoPanic` because
there it does not hold (section 5). For checkout, two requests race for a lease,
the third holds the other property's; a third party after a lost lease is the
worst the code can meet. For the store, three messages make two pages, a double
push shifts the positions between them, and one loss is enough to break what
losses break. Status changes meet checkouts only in the rows they find: two
overlapping changes of one payment and one of another's suffice, and the proof of
`PaymentsKeepCheckout` says that three checkouts need not be run with all of
them at once. For accounts, requests meet in two ways only: on one row, where two
and the read of a third suffice, and on a unique column, where a registration and
an update race for one number. For the catalogue, every pair of routes about one
property and about its company is in the instance. For conversations, two users,
a pair opened from both sides and a third user give each role to each request.
In these three runs `MaxMade` bounds how many of the requests are made and
`MaxFaults` the failures: TLC still takes every choice of them in every order. To
break a property takes the requests that make the rows, one that is disturbed
and one that disturbs it, four or five in all, and one failure, because after a
failure a request does nothing more; the proofs are for any number of both.
Deadlock is not checked in any run, because every system here
may come to rest: all requests answered, all connections closed.

The violations are what the documents promise and the code does not do; the
entries under `findings` quote the lines.

## 4. Fairness

* Hub: weak fairness for goroutines that can run, which the Go scheduler gives.
  Strong fairness for the three rendezvous with the hub: the hub leaves its
  `select` at every broadcast, so the rendezvous is enabled again and again but
  not continuously; Go's `select` chooses at random among ready cases and a
  channel serves its waiters in turn. Database calls end. Nothing is assumed of
  peers, neither that they send nor that they read; `Heard` assumes, for the
  connection it speaks of only, that its own writes succeed.
* Checkout: an accepted request goes on (every await ends in a result or an
  exception, the clients used have timeouts) and Redis expires keys. Requests
  need not be made.
  Status changes are given no fairness: nothing that must happen waits for one.
* Store, conversations, accounts, catalogue: none; their properties are safety,
  and every request there is a fixed sequence of statements that waits for no
  other request.

## 5. Proofs

All theorems hold for every value of the constants under the assumptions named
in the modules (`HubConstants`, `CheckoutConstants`, `PaymentConstants`,
`StoreConstants`, `ConversationConstants`, `AccountConstants`,
`CatalogueConstants`), which say that ids are ids, that a request is about
something of the right kind, and that bounds and page sizes are natural numbers.
No theorem limits the number of requests or failures: the bounds are constants
too. Section 5.1 is what is proved of the system as it is, 5.2 what is proved
under a condition, with the run that shows that the condition is needed.

### 5.1 Without conditions

* **Hub.** `RegisteredOpen` is the heart: an entry belongs to its user, its
  connection is between registering and unregistering, and its channel is open.
  It is inductive together with `TypeOK` because `HubUnregister` removes the
  user's entry, whoever's it is, before it closes the leaving channel, and the
  fan-out removes what it closes. From it: `ClosedForCause`, and that a broadcast
  never sends to a closed channel. `StreamIsWindow` is proved with it, per
  connection: a take moves the head of the buffer to the hand, an offer appends
  the last frame of the log exactly when the connection lacks that one.
  `StoredFirst` needs that a draft that is being sent is stored if it is a chat
  message. `ChatHubRefinement` maps each action to a step of `BroadcastLog` or a
  stutter, over the invariants above.
  `PanicCause` says for any number of connections per user when the process
  panics: `HubUnregister` of a connection whose channel is already closed while the
  map holds another one of its user; every other step that closes or sends does so
  to an entry, which is open. `SoleConnectionsKept` and `SoleConnectionsLetGo` say,
  connection by connection, that whoever has no second connection is kept while it
  keeps up and let go when it leaves, whatever others do. `SendersInOrder` follows from
  `NumbersOK` (a draft is numbered after every frame of its connection in the log)
  and from `StreamIsWindow`, which carries the order of the log to each receiver.
* **Checkout.** `TokensProtect` gives mutual exclusion of the requests of one
  property inside the scope, but for those that lost the lease (`OneInside`).
  `LockedOncePerRef` then needs `Unrecorded`: a request past its duplicate check
  that has kept the lease sees no other such request with its id recorded for its
  property. `AnswersOK` ties answers to `recorded` and `sessions`, `Untold` says
  that a request in the scope has no answer yet. `CheckoutImplementsBook` uses all
  of them: a commit, or a crash in the middle of one, is the book's `Record` because
  by `Unrecorded` it has no rival; an answer is one of the book's because by
  `Untold` it is the first; every other step opens a session or leaves the book
  alone. `LockedOncePerRef`, `SuccessIsRecorded`, `DuplicateIsReal`, `NoUnpayable`
  and `RefusedIsUntouched` are each also proved directly; the run checks the book in
  place of the last four.
* **Store.** `StoresOK` (rows and list), `LinksOK` (what was last before a
  message was begun) and `PagingOK`: while Redis loses nothing every due message
  is read or lies further on in the list, which only grows at its end, so
  double pushes shift nothing that was there; a reader that is sent to the
  table has read all that is due. That includes page size 0, where the first
  answer is the whole list and every later one empty or from the table.
  `HistoryIsInOrder` rests on `OverOK` (a send that was over when another began has
  the earlier time stamp), which orders the table at the insert and the list at the
  push. `AtMostTwiceListed` counts the pushes a send has left (`ListedOK`).
* **Payments.** `PaymentsKeepCheckout` makes every theorem about `Checkout` one
  about the whole service. `StatusHolds` rests on `StaleForAReason`: what an
  update has read is the status of the row, or another update that was not over
  when it began has set the row since. So an UPDATE that is skipped because
  nothing seemed to differ is skipped for a change that came after it began.
* **Conversations.** `OnePerPair` (if openings of a pair do not overlap, an
  opening that is about to create sees no conversation of its pair, and there is
  never more than one), `FilesOK` and `FilesKept` (an upload under way has a prefix
  of its file on disk, has read back a prefix of it, and has stored it whole, as far
  as it got; every message has its file or that of a later upload), and what `asked` says of a mark or a count
  under way; `CountsCover` then follows for the step that answers, and with `MarksOK`
  (a mark that was answered has marked what it was asked for, for good)
  `MarkedStayUncounted`. `AnsweredIsOfPair` and `FilesAreOfTheirName` say what is
  left of the first two when openings and uploads do overlap: the answer is a
  conversation of the pair, though perhaps a second one, and a message finds a file
  in both stores with only blocks of its name and conversation, though perhaps torn
  or of several uploads (`NamesOK` follows the blocks from the request over the disk
  and what is read back to Redis).
* **Accounts.** `CopyOK` says what the object of a request under way looks like
  whatever the row has become, so that an INSERT or UPDATE keeps the types, the
  unique columns (`DistinctOK`), the photos (`PhotosOK`) and the answers
  (`AnswersOK`). `OwnOK` adds that every column of a row or of an object in work
  has a value that a request about this account gave to this column, by its purpose
  or in its body (`Given`); so a save that writes old values back never mixes two
  accounts or two columns (`ValuesAreOwn`), and a reset went through only with a token
  that a `forgotPassword` or a body gave to this account (`ResetsAreByToken`),
  whatever overlaps. `ProfilesComplete` is about registrations that were answered with
  success: one whose second INSERT fails leaves a user without a profile, who was
  told of an error. `SerialImplementsBook` (5.2) adds `SerialOK`: without overlap the
  object still agrees with the row in every column the request does not give, so
  that an UPDATE is the request's own effect and one step of `AccountBook`.
* **Catalogue.** `PlaceOK`, `RefsOK`, `UploadsOK` and `DiskOK` say what the rows of
  an upload or a property under way stand for: in particular that an
  upload past its first file keeps its property from being removed, which is why
  a refused upload has nothing listed. `ReferencesHold` includes the rows that a
  save brings back. `RemovalsAreFinal`: a row is made again only by a save that
  found it before its removal (`GoneStep`); its creation is over (`PlaceOK`,
  `RemovedOK`), and who asks for it is refused. `SerialImplementsBook` (5.2) needs, when saves of one row do not
  overlap (`SerialOK`), that the object of a save is its row with the request's
  own edit, or that the row was removed since (`HeldOK`).

### 5.2 Under a condition

| Theorem | Holds if | Otherwise |
|---|---|---|
| `OneConnectionEachNoPanic` | no two connections have one user | a connection dropped for lagging closes its channel again when it leaves (`PanicCause`) |
| `OneConnectionEachKept` | the same | `hub_evicts` |
| `OncePerRefIfOneProperty` | a transaction id is used for one property, no lease is lost | `checkout_two_properties` |
| `SerialImplementsBook` (accounts), `UpdatesSetTheirBody` | requests about one account do not overlap | `accounts_overlap` |
| `SerialImplementsBook` (catalogue) | saves of one row do not overlap | an update writes old columns back, as in accounts |
| `RemovalsLastWithoutSaves` | no row that is removed is edited or given a logo | `catalogue_overlap` |
| `OneConversationPerPair`, `UploadsKeepFiles` | openings of one pair, uploads of one name do not overlap (the properties say so themselves) | two conversations, torn and mixed files (`FilesAreOfTheirName` says what is left) |

### 5.3 Only model-checked, only proved

Liveness (`WritersEnd`, `HubServes`, `Heard`, `PropertyFreed`) is out of the
prover's reach, because it needs fairness and ENABLED. `HistoryReachable` is
false. Every other property of a run is also a theorem.

Some theorems state properties that no run has in its configuration, because a
run has a property that implies them or that says more: `NoUnpayable`,
`SuccessIsRecorded`, `DuplicateIsReal`, `RefusedIsUntouched` (all implied by
`PaymentBook`), `SenderOrder`, `ShownIsStored`, `SoleKept`, `SoleLetGo`,
`ListedAtMostTwice`, `AdminTypeOK`, `References`, `DistinctOK`,
`AnsweredWithPair`, `FileOfItsName`, `OwnValues`, `ResetByToken`. They can be added to
the configuration of their module's run; those of the last four say most with
`Overlap = TRUE`.

Each passing run's property is also shown to be sensitive to the code: for each,
`PROJECT.json` names a plausible slip (a "wrong variant" or "mistake"
beside the definition it replaces) under which TLC finds it violated.

## 6. Not modelled

What was planned is built: hub, checkout and payments, message store, accounts,
conversations and files, catalogue. What is left, and why:

* **App, chat client.** After a lost connection it asks for the empty user id
  (the line says that the id is to be filled in), which `ServeWs` refuses, so no
  reconnect ever succeeds. A model would show a timer that fires for ever; there
  is nothing to state of a recovery until it has one.
* **App, screens.** A handler reads the state, awaits and emits what it read with
  the answer, so whatever came between is overwritten in every run that has two
  handlers under way. The hazards are listed; the properties that would hold of
  this code say little more than its assignments.
* **Reads** (`login`, `searchUsers`, the lists of conversations, payments and
  logs, downloads) change no state. `MarkMessageAsRead` has no route.
* **Chat users** are single statements.
* **Amounts.** The conversion to cents (`(long)(amount * 100)`) has neither state
  nor order and is left to unit tests.
* **Primary keys and relations in bodies.** The pipe lets an `id` or a nested
  object pass to TypeORM as well. A save of an object with another id is about
  another row; the models take a request to be about the row it names and leave
  such bodies out. All results on accounts and the catalogue are under this
  condition.
* **Locations.** `addOrUpdateLocation` has no caller.
* **Negative page limits and offsets**, which the handler passes on; the clients
  ask for 50 from 0.
* **Openings of one pair at once**, and uploads of one name at once, do make two
  conversations and torn or mixed files. No document of the repository promises
  otherwise, so no run states it; `OneConversation` and `FileKept` hold under
  `~Overlap`, and say so.
* Views, widgets, localisation and DTO mapping of the app, database migrations,
  container files, the byte checks of uploaded files, and Kafka, which has no
  code.

How to run, in this directory: `tlc -config CheckoutRace.cfg MCCheckout` for a
run (its module and configuration are in `PROJECT.json`), `tlapm
CheckoutProofs.tla` for the proofs of a module.
