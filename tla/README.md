# Football coach backend: a verification project

The backend is one Node.js process (NestJS, Prisma, PostgreSQL) that sells
subscriptions and books, charges saved cards through the Click payment
provider, renews subscriptions by a nightly job, and serves lessons, masterclasses,
AI chats, chats about books, notifications and legal documents. Requests run concurrently: a handler is interrupted at
every `await`, most handlers are several queries with calls to Click between
them, and only a few of them use a database transaction (READ COMMITTED). The
tests of the repository mock the database and run one call at a time, so what
happens between two awaits is tested nowhere. That is what this project is for.

Paths below are relative to `src/src/modules` of the repository unless they
start with `src/`.

## 1. The system's parts

| Part (code) | State | Operations | What is hard | What makes it correct |
|---|---|---|---|---|
| **Checkout** (`subscription/subscription.service.ts`, `books/books.service.ts` from 180 on, `payments/wallet.service.ts`, `payments/providers/click.provider.ts`) | WalletTransaction, Subscription, UserBook; Click's own record of charges | subscribe, devActivate, purchaseBook, devGrantBook, confirmTransaction | money moves outside the database; lost answers; crashes between writes; two requests of one user; an administrator settling what a request is still charging | goods only for money taken; the wallet agrees with Click; nobody pays twice |
| **Renewal cron** (`subscription/subscription.cron.ts`, `setAutoPay`, the last step of card removal) | endDate, autoPay, cardId, lastExpiryNoticeDay, lastRenewalAttemptAt | nightly run: renewals, notices 3 days and 1 day ahead; setAutoPay; card removal | works on a list read at its start; windows of consecutive runs; crashes and missed runs; per-subscription failures | every due subscription is tried; extended only for its own payment; announced once; nobody charged without consent |
| **Cards** (`payments/cards.service.ts`) | Card rows, Click's tokens | initAdd, verifyAdd, remove | check, Click call, write without a transaction | verified means chargeable; no duplicates; no orphaned tokens |
| **Legal** (`legal/legal.service.ts`) | LegalDocument, UserConsent | create, update, delete a document; accept consents | READ COMMITTED snapshots, row locks, drafts between versions | one text in force per type; consents to texts that were in force |
| **Users** (`users/users.service.ts`, `src/src/common/services/storage`) | User rows; avatars in a bucket | profile, role, soft delete, avatar upload and removal | object and row change in two steps, deletions are not awaited | the profile never points at an object that is gone |
| **Auth** (`auth/auth.service.ts`, `otp.service.ts`, `sms.service.ts`) | OtpCode, Session, User | code by phone and its verification, e-mail, Google and administrator logins, refresh, logout | codes are counted, checked and marked by separate calls; refresh deletes and inserts; first logins race | a code logs in once, the hourly limit, refreshes make no sessions, a logout lasts |
| **Notifications** (`notification/*`) | Notification, UserDevice | devices, six ways to send, the inbox by cursor | devices read, rows stored and pushes sent by separate calls; a token changes hands | a push rings where its notification can be read; the inbox is walked without a gap |
| **AI chat** (`ai-chat/ai-chat.service.ts`) | AiChat, AiMessage, AiRateLimit | chats, messages, hourly reset | read, compare, increment in separate calls; the job deletes rows in use | the limit holds |
| **Book RAG** (`book-rag/*`) | chunks in Weaviate, AiBookChat, AiBookMessage, a flag in memory | re-embed, delete, ask, stream, clear | long loops of remote calls; check-then-create; a client that leaves a stream | one whole set of chunks per book; an answer that was given is in the chat |
| **Lessons** (`lesson/lesson.service.ts`) | LessonProgress | gated reads, progress | three reads make one answer; edits between them | what is shown is free or paid for; completion has its reason |
| **Catalogue** (categories, lessons, books, masterclasses, plans and their blocks) | ten tables, each below its parent's | create, update, remove, paged lists | rows checked and written by separate calls; foreign keys; pages by number, over lists that edits filter and sort anew | rows stand below a parent; pages miss nothing without a reason |
| Trainings, statistics, uploads by administrators, socket, Telegram, health, interceptors, guards | none of their own | queries, transport | - | - |

How they interact: Checkout and the cron read Card rows and call Click; Cards
deletes rows they rely on and reaches into Subscription (`cardId` there is a
plain integer, `WalletTransaction.cardId` a foreign key); the cron and AI chat
call Notifications; lessons read Subscription and the role for paid access; book
chats read what the checkout sold; everything hangs on User rows. There are no queues and no in-process events between them: all
sharing is through the database, and all asynchrony is awaits, the services outside
(Click, Eskiz, Firebase, OpenAI, Gemini, Weaviate, R2), deletions of objects that
are not awaited, and two timers.

## 2. What is modelled

| Module | Models |
|---|---|
| `Purchase` | the abstract promise: a purchase is opened, its money may be taken once, its goods leave only against taken money and never after it was called off |
| `Checkout` | the checkout as it is written, one action per stretch between two awaits that others can tell apart |
| `CheckoutProofs`, `RenewalProofs`, `CardsProofs`, `LegalProofs` | theorems about those modules for all values of their constants |
| `RequestProofs` | how a step of `Application` changes the state of the requests, for the next two |
| `AccountProofs`, `ContentProofs` | theorems about `Users` and `Auth`, and about `AiChat`, `Push`, `Catalogue`, `Lessons`, `BookRag`, and conflicts and types across all components, within `Application` |
| `BoundedSets` | lemmas about finite sets of numbers that the proofs share |
| `Renewal` | the nightly run with the requests that change what it reads |
| `Legal` | documents and consents, with snapshots and row locks |
| `Cards` | one user's cards against Click's tokens |
| `Server` | what the components below share: requests suspended at awaits, the await each is at, its local variables, and which requests overlap |
| `Users`, `Auth`, `Push`, `AiChat`, `Catalogue`, `Lessons`, `BookRag` | one component each, on top of `Server` |
| `Chunking` | the chunker as a function of a text |
| `Application` | the composition: all of these components over one database, with crashes |
| `MC*` | values for TLC, symmetry for the first four, the mixes of requests for `Application` |

Definitions keep the names of the code where there is one (`Subscribe`,
`PurchaseBook`, `ConfirmTransaction`, `SetAutoPay`, ...). Operators whose
comment begins with "Mutant" belong to no specification: each is a plausible
bug of the definition below it, and shows that the property named with it in
`PROJECT.json` would notice.

### Checkout

A request `r` has a call, a program counter `pc[r]` naming the await at which
it is suspended, and inserts at most one row in each table, so `tx[r]`,
`sub[r]` and the `by` field of a `UserBook` name rows by request. `click[r]` is
Click's side of the charge keyed by the row's id: `posted` (on the wire),
`taken`, `refused`. Click decides at any time after `posted`, also after the
request has given up, which is how a lost answer, a timeout and a late
withdrawal are modelled: `Decline` is enabled whatever Click did, because
`charge` (122-165) turns every exception into `success: false`. In the other
direction `charge` counts every `payment_status` from 0 up as success (153), so also
that of a payment still in progress; here an answer of success means that the money
was taken, and what becomes of a payment in progress is not modelled. `Abort` is a
query that throws or a process that dies; a crash of the process is `Abort` for
every request in flight. A request that is turned away is a stuttering step.
The steps that share an await are merged (`Subscribe` is the plan, subscription
and card checks): nothing another request does between those reads changes
what the property can see except the active-subscription check, which is the
first of them that matters. Prices are abstracted to "free or not", the date
arithmetic to `Lapse`. `before[r]`, the requests that had ended when `r` began,
is a history variable that only properties read.

### Renewal

Time is counted in ticks; 02:00 is a multiple of `Day`, the timer is up to
`Late` ticks late (the job reads `new Date()` when it is started, and the
windows are computed from that), a run takes less than a tick. `cron` is the run
in progress: its part (renewals, notices at 3, notices at 1), the list left to
do with the rows as read (`snap`), the subscription in hand and the step. The
order of the list is left open. `BodyThrows` is an exception inside the
`try` of a loop, `QueryThrows` one of the list query outside it, `Crash` the
death of the process, `MissRun` a process that is down at 02:00. One user has
one subscription and at most one setAutoPay and one removal in flight.
`changed`, `ran`, `missed` and `sent` are history variables. The push and the
Notification row are one thing here: sent or thrown.

### Legal

`createDocument` and `updateDocument` are interactive transactions. A statement
reads what is committed when it begins; a row written stays locked until the
commit (`held`); a writer that meets a locked row waits, and looks at that row
again but not at rows inserted meanwhile (`SelectSiblings`, then
`LockSiblings`). A unique or foreign key violation, a row that is gone and a
deadlock end in `Abort`, which rolls back.

### Cards

One user, rows named by the initAdd that inserted them, tokens by the initAdd
that asked for them. A wrong SMS code and every error of Click are `Abort`
(nothing is written). The permanent token swapped in by Click keeps the name of
the temporary one.

### Server and Application

`Server` has what every handler of the other components has: `call[r]`, what the
request asks for; `pc[r]`, the await it is suspended at, or its verdict; `saw[r]`,
what its local variables hold there; `before[r]`, history. The verdicts are those
the exception filter tells apart: answered, refused by the code, `conflict` for a
row that another request took or removed after this one had looked (a unique or
foreign key or a missing row, a 500 in this program), `failed` for a call or a
process that died. A request turned away by its first reads is no step.

Components compose through the tables: `Application!Handle` lets one request of one
component take one step and leaves the tables of the others alone, except where the
code crosses over: lessons and their progress fall with the catalogue's rows
(`Cascade`), book chats and the index look at the books. The notification of an AI
reply is a request of its own, a `sendToUser` at any time: the code starts it in the
background and answers (`ai-chat.service.ts` 166). `Crash`
ends every request in flight, forgets the deletions that were sent and the flag
`ensured`, and keeps what the database, Weaviate and the bucket hold.

`Users`: rows as far as other components read them. Objects in the bucket are named
by the request that uploaded them; a deletion that was sent is in `removals` until it
arrives or fails. `isVerified` of the rows that are there at the start is the default
of the column, for which the logins have a branch. A profile update leaves the picture
alone, clears it or names any URL, among them those that uploads of anybody have been
answered with (`Handed`), whose objects may be gone.

`Auth`: codes and sessions are named by the request that issued them, so equal codes
of one phone do not occur; a session keeps its place in the order of creation, by which
the newest is found. A code's age is one of three: fresh, expired, out of the
hour of the limit. `Hashed` says what bcrypt sees of a refresh token: its first 72
bytes, which end before `iat`. Whatever Eskiz answers, the caller is told that the
code was sent (`SendSms`). bcrypt and Google's verification are outcomes.

`Push`: an inbox listing is one client's walk over all pages; what was there at its
start is kept to compare. Firebase takes what it takes. A device row has an id next to
its token, because a removal finds and deletes by id: a token registered anew in between
is another row. Ids of notifications are taken to be given out in the order in which
they are committed; PostgreSQL can commit a smaller id later, and a walk could then
meet a notification that was not there when it began.

`AiChat`: one address per user. A row of the limit is fresh or idle (its last request
is more than an hour back); `spree` counts what was admitted since the last idle hour,
across rows that the hourly job deletes. The job takes its turn as a request.

`Catalogue`: the ten tables have one shape (find the rows needed, write by a later
query, the foreign keys decide), so three pairs of actions serve all of them, with the
operations of each service as instances; `ParentOf` and `Cascading` are the schema. Rows
are kept by id, the request that inserted them, with a place in the order of creation
(`at`), which stands for both the id and the time of creation that lists are sorted by.
A list is walked page by page, with a parent or grandparent to be below, what the row's
own column may be (`isFree`), a child it must have (`hasVideo`, `hasLessons`,
`hasMasterclasses`), and a sort by id, price or number of children in either direction;
`Filters` and `Sorts` say which list has which. A page is a slice of that order, and rows
that tie come in any order, at each query another (`Slices`): no second column is given
to `orderBy`. The rows of a page and their count are one transaction of two queries, here
one step: what can come between them is an edit beside the client like any other.

`Lessons`: `findOne` reads the lesson with its blocks, then role and subscription, then
answers; `updateMyProgress` checks access, reads the lesson, writes the row. A lesson
opened by `isFree` and a block opened by its own are kept apart.

`BookRag`: every call to Weaviate first sees to the collection, so `ArriveAtWeaviate`
keeps in `saw` where to go afterwards. The client's connection at boot is taken to have
failed, which leaves the collection to the first call: the harder case. A text is a
length and the positions of its sentence ends. Whether it is the embedding of a question
or the search in Weaviate that fails makes no difference later: both are `Abort`.

## 3. What the runs check

| Run | Bounds | Shows |
|---|---|---|
| `checkout` | 2 users, a paid and a free plan, a paid book, 3 requests | `GrantsArePaid`, `LedgerMatchesClick`, `GoodsMatchLedger`, `SequentialNeverDoubles`, `RefulfilledOnlyByOverlap`, `SettledOnce`, and that `Checkout` implements `Purchase` (`KeepsPromise`) |
| `renewal` | 2 subscriptions, 1 fault, no requests, 7 ticks of half a day | `DueIsAttempted`, `DueIsAnnounced`, `RunEnds` |
| `renewal_requests` | 1 subscription, 2 cards, 2 requests, 1 fault | `AnnouncedOnce`, `ExtendedByItsPayment`, `ChargedWithConsent` |
| `legal` | 2 types, 2 users, 4 requests | `ConsentsStand`, `NeverWithoutText`, `PublishedIsShown`, `ActivationRestoresOne`, `ActiveDeletedOnlyByOverlap` |
| `cards` | 1 card number, 5 requests | `VerifiedIsChargeable`, `TwinsOnlyByOverlap`, `OrphanExplained` |
| `application` | twenty-three mixes of operations, 3 or 4 requests, 2 or 3 in flight, 1 failure or crash, lists with at most one filter or sort beyond the default | the invariants below |

`application` takes its requests from mixes: a mix names the operations, the users and
how many requests there are. Every operation of the program that is modelled here is in
one of them, beside the operations that touch the same tables. The five mixes with lists
have no failures: a write that fails moves nothing. Each passing run but `renewal` checks
the type invariant of its module as well.

| Property | Says |
|---|---|
| `AvatarIsThere` | an object that no profile update has named by its URL is missing from a profile only within or after a failed `deleteAvatar` |
| `CodeOpensOnce`, `HourlyLimit` | a code opens one session and uses up those before it, to requests that come later; more codes than the limit need requests in flight together |
| `RefreshConserves`, `LogoutHolds` | refreshes make no sessions and lose none but by failing half way; after a logout only a login or a refresh in flight brings a session back |
| `ConflictsNeedOverlap` | no request, whatever ran before it, fails on a row without another in flight beside it |
| `PushGoesHome` | a push rings for its recipient unless the token changed hands meanwhile |
| `CursorPagesExact` | a walk over the inbox gives what was there when it began, but for what was read meanwhile, and nothing else |
| `OffsetPagesExplained` | a walk by page number misses a row only if an edit or removal beside it concerned the rows the list depends on, or the row ties; additions cost it nothing |
| `AiLimit` | more messages than the limit without an idle hour need two in flight together |
| `IndexIsWhole` | a re-embedding alone leaves one vector per piece, nothing of the text without a piece |
| `AnswersAreShown` | an answer that was given is with its question in the chat shown next |
| `ShownIsOpen`, `CompletionExplained` | a lesson shows exactly what is free or paid for; a stored completion follows from the blocks, unless they were edited |

Most of these have exceptions for requests that overlap. Each exception was tried
without: every one is needed, which is to say that the code does allow the behaviour
(edits of a parent under a list in a larger mix than those of the run).

Six more runs each refute something the code says of itself; `PROJECT.json`
quotes the line.

| Run | Refuted | Because |
|---|---|---|
| `two_live` | `OneLiveSubscription` | the check and the insert are separate; a confirmation by hand does not check |
| `paid_twice` | `BookPaidOnce` | the "constant key" belongs to a row, and every request inserts its own |
| `lapses_untried` | `NoneLapsesUntried` | windows of runs that start at different times of day leave gaps |
| `dangling_auto_pay` | `RemovalTurnsAutoPayOff` | setAutoPay writes back a card removed since it was checked |
| `two_active` | `OneActivePerType` | createDocument deactivates only the newest version, which may be a draft |
| `tokens` | `TokensRotate` | bcrypt hashes 72 bytes of a refresh token, and those are the same for all tokens of a user |

Why the bounds are enough. A checkout property relates at most two requests to
each other and to an administrator, so three requests make every combination;
requests and users are interchangeable (symmetry). A renewal property relates
one subscription to at most two consecutive runs and one other subscription in
the same run; with `Day = 2` and `Late = 1` consecutive windows meet or
overlap, and `lapses_untried` uses `Day = 3`, `Late = 2`, the smallest values at
which they can leave a tick out. `endDate`s 6 and 9 put the three-day notice, the
one-day notice and the renewal inside 7 ticks. The legal failure needs three
documents and one activation: four requests. A card needs two initAdds, two
verifications and a removal: five. In `application` a property relates two
requests and what set the stage for them: two devices' worth of sends and one
registration, two logins with two refreshes or with a refresh and a logout (four), one message, one reset
and one more message. Limits, pages and recipients are one or two, so that the limit
is reached, the page turned and the recipient not everybody. A list needs two rows, a
page of one, and one edit or addition beside the walk, which three requests and the seeded
row give, and a fourth where a row is moved below another parent; two prices make books
that tie and books that do not, and one filter or sort at a time lets a row leave the
list or move in it. Several at once, and a training category that moves away under a list
of lessons by age, are left to the theorem. `size`, `atOnce` and
`failures` of a mix are the bounds; requests arrive in the order of `Line`, which costs
nothing, since they differ by name only.

Deadlock is not checked: every model comes to rest when its requests are used
up or its horizon is reached, and in `Legal` and `Cards` a statement that can
only fail waits for its `Abort`.

Fairness is assumed in `Renewal` alone, for the liveness property `RunEnds`:
`WF_vars(RunStep)`, the steps the process takes by itself inside a run. Each of
them follows a call that ends, in a result or an error: `fetch` in Node has
default header and body timeouts, Prisma has pool and transaction timeouts, and
`charge` catches. Nothing is assumed of Click's decisions, of users, or of the
clock. The other modules promise no liveness, and rightly: a handler may be cut
short at every await and nothing takes its work up again.

## 4. What is proved

Every theorem holds for all values of the constants that satisfy the named
assumption of its module. `CheckoutProofs`, `RenewalProofs`, `CardsProofs` and
`LegalProofs` have one theorem `InductiveInvariant` each, about `IInv` of the module
they are about; the others follow from it and from what a step does. `IInv` is a conjunction of named parts, each of which TLC checked on the
run of that module before it was proved. The properties themselves are not inductive:
what a handler may do at an await depends on what it did before.

**`CheckoutProofs`** assumes of the constants that plans are no books (they are rows of
two tables). Users, plans, books and requests may be infinite.
* `PaidGrants`, `WalletMatchesClick`, `WalletMatchesGoods`, `SequentialRequests`,
  `RefulfilledTogether`, `SettledUnlessTogether`, and the refinement
  `KeepsThePromise`: `Checkout` implements `Purchase` under `PhaseBar`, `TakenBar`.
* `IInv` says which kind of call waits at which await (`AwaitMatchesCall`), what it has
  written and what Click has done by then (`WritesMatchAwait`), and that an
  administrator's request names a transaction that exists (`HandlesExisting`). Each
  action has two halves, the request that acts and all the others.
* The ledger needs that a row nobody else has taken in hand has the status its own
  handler left there (`OwnStatus`). `SequentialNeverDoubles` speaks of `subscribe` and
  `devActivate`, the requests that check; a confirmation by hand checks nothing and can
  double a subscription alone. It rests on `CheckStaysTrue`: requests that had ended when
  the check was made insert nothing afterwards. The two properties about settling twice rest on `SettledBehind` and
  `HandsOverlap`: who is past the write leaves a verdict, so a row read as PENDING was
  not yet written by anybody who had ended, and who writes it later overlaps.

**`RenewalProofs`** assumes positive lengths of a day and of a period and a timer that
is less than a day late; the number of subscriptions, cards, runs, requests and faults
is arbitrary.
* `NobodyDuePassedOver`, `EveryEndAnnounced`, `NobodyToldTwice`, `AutoPayKeepsCard`,
  `OnePeriodForOnePayment`, `ChargedOnlyAsAsked`.
* What a run owes is either done or still on its list (`AttemptedOrListed`,
  `AnnouncedOrListed`), what the list says of a row is true of it unless its user
  changed it since (`ListHolds`), and what was announced of the present end is noted on
  the row, about to be noted, or lost to a fault (`NotedOrMissed`). That an end is not
  announced twice although the windows of two runs overlap is arithmetic about windows
  and `Late < Day`, done in the proof.

**`CardsProofs`** assumes finitely many requests, which any history of the server has:
the newest row is chosen by the largest number given out so far, and a set of numbers
without a bound has no largest.
* `VerifiedCardIsChargeable`, `TwinsComeOfOverlap`, `OrphansAreExplained`.
* Every row holds a token of the request that stored it there, and a request that has
  read a row goes on naming such a token (`TokensAtHome`, with `Home(t)` the row the
  token of `t` went to); so two rows never share a token and a row that is deleted does
  not come back. `TokensKnown` is what Click still knows of those tokens, `TwinsSeen`
  what initAdd has not overlooked, `ConfirmedStays` that a verification nobody ran into
  keeps its row.
* The proof corrected the model: `Overlap` used to hold also of a request that had
  not begun, which would have explained every orphan. It now speaks of two requests
  that have begun, and TLC and the proof agree on the stronger property.

**`LegalProofs`** assumes finitely many requests, for the same reason (versions are
numbers), and that "none" is not one of the types.
* `ConsentsAlwaysStand`, `PublishingNeverBlanks`, `WhatIsPublishedIsShown`,
  `ActivationLeavesOne`, `ActiveIsDeletedOnlyByOverlap`.
* Versions are bounded by the number of documents ever created (`DocsAreCreated`),
  which bounds what `Shown` chooses from. `HeldForActivation` ties the row locks of a
  transaction to the document it is about to activate, `AloneSeesAll` says that nothing
  a request has read goes stale while it is alone, `ActivatedMeanwhile` explains an
  active document at the await before its deletion.

**`BoundedSets`** has the lemmas the last two share: a non-empty set of numbers up to a
bound has a largest, by a counterexample that would be minimal; and how the size of a
finite set bounds its parts.

**`RequestProofs`** assumes that the requests come in a finite line, and nothing about the
mixes: what follows holds for every choice of operations, users and bounds.
* `ServedAlways` is what holds of the requests whatever their component: history names
  only requests that have ended, and a request that has not begun or is at its end keeps
  nothing. `OverlapStands` adds that two requests that were once in flight together
  remain so.
* A step of `Application` begins or resumes one request of one component at that
  component's awaits (`Moves`, one lemma per component over its operations), or ends
  requests, by failing, or by a client that is through with its list (`Halts`). To every
  other component both are `Foreign`: its requests stay where they are or fail. That is
  what lets a component be proved about by its own steps, though six others share its
  requests.

**`AccountProofs`** assumes further that "none" and "external", the values of a picture
that is not ours, are no requests, that the limit of codes is a number, and that a seeded
user is known by a phone or an e-mail address, as a row is when the services create it.
* `PictureCanBeShown`. A picture of ours in a profile, what an upload is about to replace
  and what is being deleted were all handed out by an upload that has ended, and each is
  one of the same user or was named by hand (`PicturesAreUploads`). So an upload still
  under way is never deleted, and an object that nobody has named and whose deletion was
  sent is shown only within `deleteAvatar` (`GoingOnlyByDelete`). The exception is needed:
  a profile update may restore the URL of an object that is gone, or share one that
  another user's upload then deletes (`users.service.ts` 60, 88).
* `CodesOpenOnce`: a code is looked for only once it is stored (`CodesAreStored`), and a
  verification past its two updates has used up the code it was shown and those before it
  (`CodesUsedUp`), so that whoever comes later finds none of them.
* `LimitOfCodes`: who has passed the check stays below the limit until another request, in
  flight beside it, has stored a code (`LetInBelowLimit`).
* `LogoutIsKept`: an open session was not done before a logout of its user began
  (`SessionsAreOpen`), so the session behind a token that refreshes later is newer.
* `RefreshKeepsCount`: counted in sets of requests, the sessions of a user and those a
  refresh holds in its hands never exceed the logins, and without a logout they make up
  for all of them but those a refresh failed to replace (`SessionsAddUp`). The upper half
  is stronger than the property, which does not count the held ones: a refresh that has
  deleted its session and not yet inserted the next one would otherwise make one.
* `LoginsWait` says which request can be at which await; all of the above need it.
* `AccountsAreRows`, the types of users, pictures, codes and sessions. Nothing removes a user
  (`UsersOnlyGrow`; a deletion is soft), so whoever a login, a session or a code names is
  there. A session's place in the order of their creation is bounded by the requests that
  have ended (`SessionsPlaced`), or the next one need not exist.

**`ContentProofs`** assumes a positive limit of messages, positive page sizes, as the code
enforces them (`@Min(1)` and `Math.max(1, ...)`), that prices are numbers and a book may
be free, finitely many seeded users, that "none"
is no row of the tables it stands beside, and of the chunker (`ChunkingAssumption`,
`RagAssumption`) that its target and the shortest text it takes are positive, as the
constants of the code are, and that the length and the sentence ends of a text are numbers.
Whoever chats or has a subscription at the start is one of the seeded users.
* `LimitOfMessages`. The row counts at least what was admitted since the last idle hour as
  long as no two of those requests overlapped (`RowCounts`), and what a request has read of
  the row remains right until another one in flight with it is admitted
  (`AdmittedBelowLimit`). The job that deletes idle rows under a waiting request costs
  nothing: the update of a deleted row fails.
* `PushesGoHome`. Notes are stored before the push and none is taken back
  (`NotedBeforePush`), and a token a send has read still belongs to one of its recipients
  unless a request that registers or removes it overlaps the send (`DevicesOfRecipients`).
  "Everybody" of a broadcast must be a finite set, hence the seeded users.
* `LessonsShowWhatIsOpen`, `CompletionIsExplained`. Both compare what a request read of a
  lesson with what the tables say when it answers or after it has written. `RowsFit` is
  what the foreign keys keep true: every row is below a row of its parent's kind. An
  erasure that cascades takes only kinds that have nothing below them, so it leaves no
  orphans. `LessonAsRead` and `ScoreAsRead` carry what was read from await to await, up
  to an edit, and `EditsAreNamed` says that every write to a lesson or a block comes from
  one of the operations the exceptions name. A lesson that is gone does not come back,
  because rows are named by requests, so a verdict about it can do no harm.
* `ConflictsAreMeetings`, over all components at once. A request that has met no other
  finds at each await what its next query relies on (`Ready`). The invariant
  `AloneIsReady` says so request by request: whoever takes a step meets all that are in
  flight (`MeetsInFlight`), so for a request that has met nobody only its own steps, a
  crash and the outside world remain, and none of these takes away a row it needs. A hit on
  the row of the message limit needs `RowCounts`, one on a foreign key `RowsFit`.
* `AnswersAlwaysShown`. The chat a request has read remains the latest of its reader and
  book unless somebody opens another beside it (`ChatIsLatest`). That nobody does so later is
  `OpensOnce`: who opens a chat has found none when it looked, so nobody who had ended
  before it began was answered in one. What is stored stays until it is cleared
  (`ExchangeStands`).
* `CursorPagesAreExact`, for any page size (`CursorInv`). What a client of the inbox
  lacks is older than everything it was given, and what is older than something it was
  given was there when it began, since new notifications are appended; so the next page
  begins where the last one ended. The proof counts the newer ones of a set to show that
  a page has all that is newer than what it leaves.
* `NoPageIsMissed`, for any page size, filters and sort (`OffsetInv`). As long as nothing
  the list depends on was changed or removed beside the client, what it began with is
  still selected, and a row that is missing after n pages and ties with no other has at
  least n pages of rows ahead of it in the order of the list. Added rows only add to
  these, in whichever direction they sort. An edit counts if it is of the list's kind, of
  its parents when the list is filtered by what is above, or of its children when it is
  filtered or sorted by them (`Shifts`); then the client and the one who edits have met.
  A page is the difference of two initial pieces of an order that ties leave open
  (`Slices`): whatever pieces the database picks, a row without a tie is in the larger one
  as soon as few enough are ahead of it. New rows come last because places are given out
  in order and never twice (`PlacesCounted`); the places are bounded by the requests that
  have ended, without which the largest place, and so the next, need not exist.
* `ChunksCover`, `IndexesAreWhole`. The pieces of a text are defined from a position to
  its end by recursion. The recursion is a function, but the library's theorems about such
  functions take operators. The proof builds the pieces from the end of the text downward
  instead (`DownTo`, an induction stated about sets), every position having one cut because
  the next begins ahead of it (`EndIsAhead`); the overlap cannot send the chunker backwards
  because of the `Math.max`. The index of a book is then what a lone re-embedding has made of
  it so far (`IndexStands`), vector for piece by a bijection.
* `TypesAreOK`, the type invariant of `Application`, from one theorem per component
  (`RequestsAreTyped`, `AccountsAreRows`, `NotesAreToUsers`, `ChatsAreRows`,
  `TablesAreTyped`, `ProgressIsRows`, `BookChatsAreRows`). It is mostly about references:
  notes, devices, messages, progress and chats name rows that are there. What crosses an
  await must therefore fit when it is stored: the recipients of a send are users
  (`PushFits`), who reports progress is seeded (`LessonsFit`), the chat a question was put
  in exists (`RagFits`). That a user's count of messages stays below the number of requests
  needs more than its type: it counts requests that are past the count (`AiFits`,
  `AdmittedGrows`). A vector has a type because every piece of a text has one
  (`ChunksCover`). Where a request can be is a set with all the awaits of the code in it:
  the provers cannot show of a string that it is one.

The inductive invariants of these components are `UsersInv`, `AuthInv`, `AiInv`, `PushInv`,
`CursorInv`, `CatalogueInv`, `OffsetInv`, `LessonsInv`, `BookChatsInv`, `IndexInv` and
`AloneIsReady`, and, for the types, `AccountsFit`, `PushFits`, `AiFits`, `LessonsFit` and
`RagFits`. They are stated in the modules they are about and were checked by TLC on the mixes
of the run `application`.

`AutoPayKeepsCard` is a part of the invariant of `Renewal` that a reader may want by
itself; no run checks it apart.

**Only model-checked.** `RunEnds`, which is liveness under fairness. Every other property
of the passing runs has its theorem.

## 5. Plan

1. Done: `Purchase`, `Checkout`, `CheckoutProofs`; `Renewal`; `Legal`; `Cards`.
2. Done: `Server`, `Users`, `Auth`, `Push`, `AiChat`, `Catalogue`, `Lessons`,
   `Chunking`, `BookRag`, composed in `Application`.
3. Open, if they turn out to matter: the throttle and the retries of
   `gemini.service.ts`, and the reconnection of the Weaviate client.
4. Proofs. Done: every safety property of `Checkout`, `Renewal`, `Cards`, `Legal` and
   `Application`, their type invariants included.

The modules to be proved about declare no recursive operators; their
invariants are conjunctions over requests so that one step can be treated
request by request.

## 6. Not modelled, and why

Statistics, the socket gateway, health and the interceptors are I/O without state of
their own; administrators' uploads store an object and keep nothing; the Telegram
service is left over from another product. `training/` is not imported by
`src/src/app.module.ts` and `route-data.ts` by nothing. `forgotPassword` and
`resetPassword` always throw. The reader's progress in a book is one upsert by the
reader alone. The roles are seeded and nothing removes them. What is sent to OpenAI
and Gemini (the window of the oldest 50 messages, prompts, detected languages), the
throttle and the retries of Gemini, and which chunks a search finds decide nothing the
properties see; a question ends in an answer or an error. `deactivateInvalidTokens`
does nothing but log. Of the filters of lists, the free-text search and the columns that
nothing else here reads (`hasDiscount`, `categoryType`) are left out, and so are the lists
by the reader's own progress or subscription (`progressStatus`, `unlocked`), which change
with every update of that reader. In the checkout prices are abstracted: rounding and
discounts decide nothing there but whether something is free. Daylight saving moves the
windows of `Renewal` like a late timer does. A run that lasts beyond the next 02:00, and two processes
serving the same database, are outside the model: the deployment starts one.
