------------------------------ MODULE Checkout ------------------------------
(***************************************************************************)
(* Everything that sells: SubscriptionService.subscribe and devActivate,   *)
(* BooksService.purchaseBook and devGrantBook, the charge they make        *)
(* through ClickProvider, and WalletService.confirmTransaction by which an *)
(* administrator settles a transaction by hand.                            *)
(*                                                                         *)
(* One Node process serves all requests.  A handler runs without           *)
(* interruption from one await to the next, so one action below is what a  *)
(* handler does between two awaits that other requests can tell apart.     *)
(* A request inserts at most one row into each table, so a row is named    *)
(* by the request that inserted it.  A request that is turned away (404,   *)
(* 400, 409) changes nothing: it is a stuttering step and has no action.   *)
(***************************************************************************)
EXTENDS Naturals, FiniteSets

CONSTANTS
    Users,
    Plans,        \* subscription plans that exist and are active
    Books,        \* books that exist
    Free,         \* the plans and books whose final price is 0
    Requests,     \* HTTP requests; bounds how many are ever made
    Production    \* NODE_ENV = 'production'

ASSUME CheckoutAssumption ==
    /\ Plans \cap Books = {}
    /\ Free \subseteq Plans \cup Books
    /\ Production \in BOOLEAN

VARIABLES
    call,       \* call[r]: what request r asks for
    pc,         \* pc[r]: the await at which r is suspended, or how it ended
    tx,         \* tx[r]: status of the WalletTransaction r inserted
    sub,        \* sub[r]: the Subscription r inserted; "live" until its endDate
    userBooks,  \* the UserBook rows
    click,      \* click[r]: what Click did with the charge keyed by tx[r]'s id
    before      \* before[r]: the requests that had ended when r was let in

db == <<tx, sub, userBooks>>
vars == <<call, pc, tx, sub, userBooks, click, before>>

-----------------------------------------------------------------------------
Verdicts == {"SUCCESS", "FAILED"}

Calls ==
    [op : {"subscribe", "devActivate"}, user : Users, item : Plans]
        \cup [op : {"purchaseBook", "devGrantBook"}, user : Users, item : Books]
        \cup [op : {"confirm"}, of : Requests, verdict : Verdicts]

NoCall == [op |-> "none"]

UserBookRows == [user : Users, book : Books, by : Requests]

Awaits == {"checked", "recorded", "charging", "paid", "granting",
           "confirming", "fulfilling"}
Ends   == {"done", "declined", "aborted"}

TypeOK ==
    /\ call \in [Requests -> Calls \cup {NoCall}]
    /\ pc \in [Requests -> {"idle"} \cup Awaits \cup Ends]
    /\ tx \in [Requests -> {"none", "PENDING"} \cup Verdicts]
    /\ sub \in [Requests -> {"none", "live", "ended"}]
    /\ userBooks \subseteq UserBookRows
    /\ click \in [Requests -> {"none", "posted", "taken", "refused"}]
    /\ before \in [Requests -> SUBSET Requests]

-----------------------------------------------------------------------------
\* A purchase is a request that has to be paid for with a card.
ForMoney(r) ==
    /\ call[r].op \in {"subscribe", "purchaseBook"}
    /\ call[r].item \notin Free

\* The user of the Subscription that request r inserted.
Subscriber(r) ==
    IF call[r].op = "confirm" THEN call[call[r].of].user ELSE call[r].user

\* { userId, isActive: true, endDate: { gte: now } }
HasActive(u) == \E s \in Requests : sub[s] = "live" /\ Subscriber(s) = u

Owns(u, b) == \E row \in userBooks : row.user = u /\ row.book = b

Goto(r, l) == pc' = [pc EXCEPT ![r] = l]

\* r has passed the checks made before the first write.
LetIn(r, c, l) ==
    /\ pc[r] = "idle"
    /\ call' = [call EXCEPT ![r] = c]
    /\ Goto(r, l)
    /\ before' = [before EXCEPT ![r] = {s \in Requests : pc[s] \in Ends}]
    /\ UNCHANGED <<tx, sub, userBooks, click>>

SetTx(r, status) == tx' = [tx EXCEPT ![r] = status]

Init ==
    /\ call = [r \in Requests |-> NoCall]
    /\ pc = [r \in Requests |-> "idle"]
    /\ tx = [r \in Requests |-> "none"]
    /\ sub = [r \in Requests |-> "none"]
    /\ userBooks = {}
    /\ click = [r \in Requests |-> "none"]
    /\ before = [r \in Requests |-> {}]

-----------------------------------------------------------------------------
(* SubscriptionService.subscribe *)

\* Mutant: the active-subscription check is forgotten.
SubscribeUnchecked(r, u, p, hasCard) ==
    /\ p \notin Free => hasCard
    /\ LetIn(r, [op |-> "subscribe", user |-> u, item |-> p], "checked")

\* The active-subscription check; hasCard: the body names a card of the user
\* that is active and verified, which a paid plan demands.
Subscribe(r, u, p, hasCard) ==
    /\ ~HasActive(u)
    /\ p \notin Free => hasCard
    /\ LetIn(r, [op |-> "subscribe", user |-> u, item |-> p], "checked")

\* The WalletTransaction is inserted as PENDING before any money moves
\* (subscribe, and purchaseBook for a book that is not free).
RecordTransaction(r) ==
    /\ pc[r] = "checked"
    /\ SetTx(r, "PENDING")
    /\ Goto(r, "recorded")
    /\ UNCHANGED <<call, sub, userBooks, click, before>>

\* A free plan is settled without Click.
SettleFree(r) ==
    /\ pc[r] = "recorded"
    /\ ~ForMoney(r)
    /\ SetTx(r, "SUCCESS")
    /\ Goto(r, "paid")
    /\ UNCHANGED <<call, sub, userBooks, click, before>>

\* Mutant: the charge is sent before its transaction is on record.
ChargeUnrecorded(r) ==
    /\ pc[r] \in {"checked", "recorded"}
    /\ ForMoney(r)
    /\ click' = [click EXCEPT ![r] = "posted"]
    /\ Goto(r, "charging")
    /\ UNCHANGED <<call, tx, sub, userBooks, before>>

\* ClickProvider.charge puts the request on the wire, keyed by tx[r]'s id.
Charge(r) ==
    /\ pc[r] = "recorded"
    /\ ForMoney(r)
    /\ click' = [click EXCEPT ![r] = "posted"]
    /\ Goto(r, "charging")
    /\ UNCHANGED <<call, tx, sub, userBooks, before>>

\* Mutant: subscribe does not look at charge.success.
SettlePaidUnheard(r) ==
    /\ pc[r] = "charging"
    /\ call[r].op = "subscribe"
    /\ SetTx(r, "SUCCESS")
    /\ Goto(r, "paid")
    /\ UNCHANGED <<call, sub, userBooks, click, before>>

\* Click's success answer reaches subscribe. charge also takes the status of a
\* payment that is still in progress for success (click.provider.ts 153); here
\* success is money taken.
SettlePaid(r) ==
    /\ pc[r] = "charging"
    /\ call[r].op = "subscribe"
    /\ click[r] = "taken"
    /\ SetTx(r, "SUCCESS")
    /\ Goto(r, "paid")
    /\ UNCHANGED <<call, sub, userBooks, click, before>>

\* Mutant: a status the enum does not have.
DeclineCanceled(r) ==
    /\ pc[r] = "charging"
    /\ SetTx(r, "CANCELED")
    /\ Goto(r, "declined")
    /\ UNCHANGED <<call, sub, userBooks, click, before>>

\* charge returns success: false: Click refused, is not configured, or the
\* answer was lost, whatever Click did or is still going to do.
Decline(r) ==
    /\ pc[r] = "charging"
    /\ SetTx(r, "FAILED")
    /\ Goto(r, "declined")
    /\ UNCHANGED <<call, sub, userBooks, click, before>>

CreateSubscription(r) ==
    /\ pc[r] = "paid"
    /\ sub' = [sub EXCEPT ![r] = "live"]
    /\ Goto(r, "done")
    /\ UNCHANGED <<call, tx, userBooks, click, before>>

-----------------------------------------------------------------------------
(* SubscriptionService.devActivate *)

DevActivate(r, u, p) ==
    /\ ~Production
    /\ ~HasActive(u)
    /\ LetIn(r, [op |-> "devActivate", user |-> u, item |-> p], "granting")

\* One database transaction: a SUCCESS transaction and the subscription.
DevCommit(r) ==
    /\ pc[r] = "granting"
    /\ call[r].op = "devActivate"
    /\ SetTx(r, "SUCCESS")
    /\ sub' = [sub EXCEPT ![r] = "live"]
    /\ Goto(r, "done")
    /\ UNCHANGED <<call, userBooks, click, before>>

-----------------------------------------------------------------------------
(* BooksService.purchaseBook and devGrantBook *)

\* hasCard: resolveCard finds the card named, or the user's only one.
PurchaseBook(r, u, b, hasCard) ==
    /\ ~Owns(u, b)
    /\ b \notin Free => hasCard
    /\ LetIn(r, [op |-> "purchaseBook", user |-> u, item |-> b],
             IF b \in Free THEN "granting" ELSE "checked")

DevGrantBook(r, u, b) ==
    /\ ~Production
    /\ ~Owns(u, b)
    /\ LetIn(r, [op |-> "devGrantBook", user |-> u, item |-> b], "granting")

\* UserBook is unique on (userId, bookId).
InsertUserBook(r) ==
    /\ ~Owns(call[r].user, call[r].item)
    /\ userBooks' = userBooks \cup
           {[user |-> call[r].user, book |-> call[r].item, by |-> r]}

\* A book given without payment: free, or by the dev endpoint.
GrantBook(r) ==
    /\ pc[r] = "granting"
    /\ call[r].op \in {"purchaseBook", "devGrantBook"}
    /\ InsertUserBook(r)
    /\ Goto(r, "done")
    /\ UNCHANGED <<call, tx, sub, click, before>>

\* Mutant: purchaseBook does not look at charge.success.
SettleBookUnheard(r) ==
    /\ pc[r] = "charging"
    /\ call[r].op = "purchaseBook"
    /\ InsertUserBook(r)
    /\ SetTx(r, "SUCCESS")
    /\ Goto(r, "done")
    /\ UNCHANGED <<call, sub, click, before>>

\* Click's success answer reaches purchaseBook: one database transaction
\* settles the payment and inserts the row.
SettleBook(r) ==
    /\ pc[r] = "charging"
    /\ call[r].op = "purchaseBook"
    /\ click[r] = "taken"
    /\ InsertUserBook(r)
    /\ SetTx(r, "SUCCESS")
    /\ Goto(r, "done")
    /\ UNCHANGED <<call, sub, click, before>>

\* Mutant: the two writes of SettleBook are not one database transaction.
AlreadyOwnedKeepsPayment(r) ==
    /\ pc[r] = "charging" /\ call[r].op = "purchaseBook" /\ click[r] = "taken"
    /\ Owns(call[r].user, call[r].item)
    /\ SetTx(r, "SUCCESS")
    /\ Goto(r, "aborted")
    /\ UNCHANGED <<call, sub, userBooks, click, before>>

\* The unique constraint rolls back SettleBook or GrantBook: a 500.
AlreadyOwned(r) ==
    /\ \/ pc[r] = "granting" /\ call[r].op # "devActivate"
       \/ pc[r] = "charging" /\ call[r].op = "purchaseBook" /\ click[r] = "taken"
    /\ Owns(call[r].user, call[r].item)
    /\ Goto(r, "aborted")
    /\ UNCHANGED <<call, db, click, before>>

-----------------------------------------------------------------------------
(* WalletService.confirmTransaction *)

\* Mutant: an administrator may also revive a FAILED transaction.
ConfirmFailedToo(a, t, verdict) ==
    /\ tx[t] \in {"PENDING", "FAILED"}
    /\ LetIn(a, [op |-> "confirm", of |-> t, verdict |-> verdict], "confirming")

\* Mutant: the status is not looked at.
ConfirmAnything(a, t, verdict) ==
    /\ tx[t] # "none"
    /\ LetIn(a, [op |-> "confirm", of |-> t, verdict |-> verdict], "confirming")

\* The read: only a PENDING transaction gets through.
ConfirmTransaction(a, t, verdict) ==
    /\ tx[t] = "PENDING"
    /\ LetIn(a, [op |-> "confirm", of |-> t, verdict |-> verdict], "confirming")

\* The write, by id alone.
WriteVerdict(a) ==
    /\ pc[a] = "confirming"
    /\ SetTx(call[a].of, call[a].verdict)
    /\ Goto(a, IF call[a].verdict = "SUCCESS" /\ call[call[a].of].item \in Plans
               THEN "fulfilling" ELSE "done")
    /\ UNCHANGED <<call, sub, userBooks, click, before>>

\* fulfillPurchase: a plan gives a subscription, a book gives nothing.
FulfillPurchase(a) ==
    /\ pc[a] = "fulfilling"
    /\ sub' = [sub EXCEPT ![a] = "live"]
    /\ Goto(a, "done")
    /\ UNCHANGED <<call, tx, userBooks, click, before>>

-----------------------------------------------------------------------------
(* Outside the handlers *)

\* A database call throws, or the process dies: the handler stops where it
\* is.  A crash is this step for every request in flight.
Abort(r) ==
    /\ pc[r] \in Awaits
    /\ Goto(r, "aborted")
    /\ UNCHANGED <<call, db, click, before>>

\* Click works on what was put on the wire, whatever became of the request.
ClickTakes(r) ==
    /\ click[r] = "posted"
    /\ click' = [click EXCEPT ![r] = "taken"]
    /\ UNCHANGED <<call, pc, db, before>>

ClickRefuses(r) ==
    /\ click[r] = "posted"
    /\ click' = [click EXCEPT ![r] = "refused"]
    /\ UNCHANGED <<call, pc, db, before>>

\* The subscription's endDate passes.
Lapse(r) ==
    /\ sub[r] = "live"
    /\ sub' = [sub EXCEPT ![r] = "ended"]
    /\ UNCHANGED <<call, pc, tx, userBooks, click, before>>

-----------------------------------------------------------------------------
Arrive(r) ==
    \/ \E u \in Users, p \in Plans, hasCard \in BOOLEAN : Subscribe(r, u, p, hasCard)
    \/ \E u \in Users, p \in Plans : DevActivate(r, u, p)
    \/ \E u \in Users, b \in Books, hasCard \in BOOLEAN : PurchaseBook(r, u, b, hasCard)
    \/ \E u \in Users, b \in Books : DevGrantBook(r, u, b)
    \/ \E t \in Requests, verdict \in Verdicts : ConfirmTransaction(r, t, verdict)

Handle(r) ==
    \/ RecordTransaction(r)
    \/ SettleFree(r)
    \/ Charge(r)
    \/ SettlePaid(r)
    \/ Decline(r)
    \/ CreateSubscription(r)
    \/ DevCommit(r)
    \/ GrantBook(r)
    \/ SettleBook(r)
    \/ AlreadyOwned(r)
    \/ WriteVerdict(r)
    \/ FulfillPurchase(r)

Environment(r) == Abort(r) \/ ClickTakes(r) \/ ClickRefuses(r) \/ Lapse(r)

Next == \E r \in Requests : Arrive(r) \/ Handle(r) \/ Environment(r)

Spec == Init /\ [][Next]_vars

-----------------------------------------------------------------------------
(* Safety *)

Confirms(a, t) == call[a].op = "confirm" /\ call[a].of = t

\* An administrator has taken t in hand.
ByHand(t) == \E a \in Requests : Confirms(a, t)

Granted(r) == sub[r] # "none" \/ \E row \in userBooks : row.by = r

\* Two requests were in flight at the same time.
Overlap(r, s) == r \notin before[s] /\ s \notin before[r]

\* No subscription and no book leaves the shop on the customer's own request
\* before Click has really taken the money of that very request: not after a
\* refusal, a lost answer, a crash, or with another request's payment.
GrantsArePaid ==
    \A r \in Requests : ForMoney(r) /\ Granted(r) => click[r] = "taken"

\* Click never holds a charge the wallet does not know of, and as long as no
\* administrator intervenes a SUCCESS row means that money was taken: what the
\* PENDING row written before the charge is for.
LedgerMatchesClick ==
    \A r \in Requests :
        /\ click[r] # "none" => tx[r] # "none"
        /\ ForMoney(r) /\ tx[r] = "SUCCESS" /\ ~ByHand(r) => click[r] = "taken"

\* Left alone, a book's payment is SUCCESS exactly when the book it paid for
\* has been handed over (one database transaction), and a subscription's
\* payment is SUCCESS before the subscription exists; only a handler that was
\* cut short between its two writes leaves a settled payment with nothing.
GoodsMatchLedger ==
    \A r \in Requests : ForMoney(r) /\ ~ByHand(r) =>
        /\ Granted(r) => tx[r] = "SUCCESS"
        /\ tx[r] = "SUCCESS" =>
              \/ Granted(r)
              \/ call[r].op = "subscribe" /\ pc[r] \in {"paid", "aborted"}

\* The active-subscription check of subscribe and devActivate holds against
\* every request that had ended before: who checks doubles a subscription only
\* beside a request in flight with it. Nothing is said of confirmTransaction,
\* which checks nothing (wallet.service.ts 100): confirmed by hand, an old
\* transaction of a user who has subscribed since is a second subscription.
SequentialNeverDoubles ==
    \A r, s \in Requests :
        /\ s \in before[r]
        /\ sub[r] = "live" /\ sub[s] = "live"
        /\ call[r].op # "confirm"
        => Subscriber(r) # Subscriber(s)

\* One transaction is fulfilled twice (by its own request and by an
\* administrator, or by two administrators) only by requests in flight
\* together: the PENDING check of confirmTransaction stops all others.
RefulfilledOnlyByOverlap ==
    \A t \in Requests :
        LET fulfilments == {r \in Requests : sub[r] # "none" /\ (r = t \/ Confirms(r, t))}
        IN  \A r, s \in fulfilments : r # s => Overlap(r, s)

\* A settled transaction changes again only if two of its writers were in
\* flight together.
SettledOnce ==
    [][\A t \in Requests :
          tx[t] \in Verdicts /\ tx'[t] # tx[t] =>
              LET writers == {t} \cup {a \in Requests : Confirms(a, t)}
              IN  \E r, s \in writers : r # s /\ Overlap(r, s)]_vars

\* The detailed checkout keeps the promise of module Purchase.
Phase(r) ==
    IF ~ForMoney(r) \/ tx[r] = "none" THEN "new"
    ELSE IF pc[r] = "declined"        THEN "void"
    ELSE IF Granted(r)                THEN "granted"
    ELSE "open"

PhaseBar == [r \in Requests |-> Phase(r)]
TakenBar == {r \in Requests : click[r] = "taken"}

P == INSTANCE Purchase WITH
        Purchases <- Requests,
        phase <- PhaseBar,
        taken <- TakenBar

\* Every step of the checkout is a step of the promise or leaves it alone:
\* money is taken at most once, only for what is on record, and goods leave
\* only against taken money and never after a 402.
KeepsPromise == P!Spec

-----------------------------------------------------------------------------
(* The inductive invariant behind the theorems of CheckoutProofs: what each
   await of a handler can rely on. *)

\* What kind of request waits where.
AwaitMatchesCall(r) ==
    /\ pc[r] = "idle" => call[r] = NoCall
    /\ pc[r] \in {"checked", "recorded"} => call[r].op \in {"subscribe", "purchaseBook"}
    /\ pc[r] \in {"checked", "recorded"} /\ call[r].op = "purchaseBook" => ForMoney(r)
    /\ pc[r] \in {"charging", "declined"} => ForMoney(r)
    /\ pc[r] = "paid" => call[r].op = "subscribe"
    /\ pc[r] = "granting" => ~ForMoney(r) /\ call[r].op \notin {"none", "confirm", "subscribe"}
    /\ pc[r] \in {"confirming", "fulfilling"} => call[r].op = "confirm"

\* What a handler has written when it waits there.
WritesMatchAwait(r) ==
    /\ Granted(r) => pc[r] = "done"
    /\ sub[r] # "none" => call[r].op \in {"subscribe", "devActivate", "confirm"}
    /\ pc[r] \in {"idle", "checked"} => tx[r] = "none"
    /\ pc[r] \in {"recorded", "charging", "paid", "declined"} => tx[r] # "none"
    /\ click[r] # "none" =>
          /\ pc[r] \in {"charging", "paid"} \cup Ends
          /\ ForMoney(r)
          /\ tx[r] # "none"
    /\ ForMoney(r) /\ pc[r] \in {"paid", "done"} => click[r] = "taken"

\* An administrator only ever handles a transaction that exists.
HandlesExisting(r) == call[r].op = "confirm" => tx[call[r].of] # "none"

IInv ==
    /\ TypeOK
    /\ \A r \in Requests :
          AwaitMatchesCall(r) /\ WritesMatchAwait(r) /\ HandlesExisting(r)

\* The status a handler has left in its own row, if nobody else wrote there.
OwnStatus ==
    \A r \in Requests : ~ByHand(r) =>
        /\ pc[r] \in {"recorded", "charging"} => tx[r] = "PENDING"
        /\ pc[r] = "paid" => tx[r] = "SUCCESS"
        /\ pc[r] = "declined" => tx[r] = "FAILED"

LedgerInv == OwnStatus /\ LedgerMatchesClick /\ GoodsMatchLedger

\* What the active-subscription check of r has seen stays true: the requests
\* that had ended before r insert nothing more.
CheckStaysTrue ==
    \A r, s \in Requests : s \in before[r] =>
        /\ pc[s] \in Ends
        /\ call[r].op \in {"subscribe", "devActivate"} /\ sub[s] = "live" =>
              Subscriber(s) # call[r].user

\* The requests that may write the transaction t: its own, and the
\* administrators' who have taken it in hand.
Writers(t) == {t} \cup {a \in Requests : Confirms(a, t)}

\* What a handler that is past its last write to a transaction leaves there, ...
SettledBehind ==
    /\ \A r, s \in Requests : s \in before[r] => pc[s] \in Ends
    /\ \A r \in Requests :
          /\ call[r].op = "confirm" \/ pc[r] = "granting" => tx[r] = "none"
          /\ pc[r] = "paid" => tx[r] \in Verdicts
          /\ sub[r] # "none" => tx[r] # "PENDING"
    /\ \A a, t \in Requests : Confirms(a, t) /\ (pc[a] = "fulfilling" \/ sub[a] # "none") =>
          tx[t] \in Verdicts

\* ... so that a PENDING transaction an administrator has read was fulfilled by
\* nobody who had ended by then, and what settles it after that read overlaps.
HandsOverlap ==
    \A a, t \in Requests : Confirms(a, t) =>
        /\ a \notin before[t]
        /\ t \in before[a] => sub[t] = "none"
        /\ \A b \in Requests : Confirms(b, t) /\ a \in before[b] => sub[a] = "none"
        /\ pc[a] = "confirming" /\ tx[t] \in Verdicts =>
              \E w \in Writers(t) \ {a} : Overlap(a, w)

-----------------------------------------------------------------------------
(* What the comments and messages of the code claim, and its steps do not
   give.  Each is refuted by a run of its own. *)

\* 'You already have an active subscription' (409): a user has at most one.
OneLiveSubscription ==
    \A r, s \in Requests :
        sub[r] = "live" /\ sub[s] = "live" /\ r # s => Subscriber(r) # Subscriber(s)

\* The constant key makes sure a retry never withdraws one payment twice: a
\* user pays for a book at most once.
BookPaidOnce ==
    \A r, s \in Requests :
        /\ ForMoney(r) /\ ForMoney(s) /\ r # s
        /\ click[r] = "taken" /\ click[s] = "taken"
        /\ call[r].item = call[s].item
        /\ call[r].item \in Books
        => call[r].user # call[s].user

=============================================================================
