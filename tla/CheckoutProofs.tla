--------------------------- MODULE CheckoutProofs ---------------------------
(***************************************************************************)
(* Theorems about Checkout for every set of users, plans, books and        *)
(* requests, finite or not.                                                *)
(***************************************************************************)
EXTENDS Checkout, TLAPS

-----------------------------------------------------------------------------
(* The inductive invariant.  What an action does to the request it is an
   action of, and what it leaves alone in every other request, are the two
   halves of each case. *)

\* The part of IInv that speaks of one request.
RequestInv(r) == AwaitMatchesCall(r) /\ WritesMatchAwait(r) /\ HandlesExisting(r)

\* The empty database satisfies the inductive invariant.
LEMMA InitIInv == Init => IInv
BY DEF Init, IInv, TypeOK, Calls, NoCall, UserBookRows, AwaitMatchesCall,
       WritesMatchAwait, HandlesExisting, Granted, ForMoney, Awaits, Ends

\* A request that is let in: only its own call, pc and before change.
LEMMA LetInIInv ==
    ASSUME IInv, NEW r \in Requests, NEW c \in Calls, NEW l \in {"checked", "granting", "confirming"},
           LetIn(r, c, l),
           l = "checked" => \/ c.op = "subscribe"
                            \/ c.op = "purchaseBook" /\ c.item \notin Free,
           l = "granting" => \/ c.op \in {"devActivate", "devGrantBook"}
                             \/ c.op = "purchaseBook" /\ c.item \in Free,
           l = "confirming" => c.op = "confirm" /\ tx[c.of] # "none",
           c.op = "confirm" => l = "confirming"
    PROVE  IInv'
<1>1. TypeOK'
  BY DEF IInv, TypeOK, LetIn, Goto, Awaits
<1>2. /\ call'[r] = c /\ pc'[r] = l
      /\ \A s \in Requests \ {r} : call'[s] = call[s] /\ pc'[s] = pc[s]
      /\ UNCHANGED <<tx, sub, userBooks, click>>
      /\ pc[r] = "idle"
  BY DEF IInv, TypeOK, LetIn, Goto
<1>3. RequestInv(r)'
  BY <1>2 DEF IInv, TypeOK, RequestInv, AwaitMatchesCall, WritesMatchAwait, HandlesExisting,
              Granted, ForMoney, Awaits, Ends, Calls
<1>4. ASSUME NEW s \in Requests \ {r}
      PROVE  RequestInv(s)'
  BY <1>2 DEF IInv, TypeOK, RequestInv, AwaitMatchesCall, WritesMatchAwait, HandlesExisting,
              Granted, ForMoney
<1>5. QED
  BY <1>1, <1>3, <1>4 DEF IInv, RequestInv

\* A request that arrives preserves IInv, one case per operation.
LEMMA ArriveIInv ==
    ASSUME IInv, NEW r \in Requests, Arrive(r)
    PROVE  IInv'
<1>1. ASSUME NEW u \in Users, NEW p \in Plans, NEW hasCard \in BOOLEAN,
             Subscribe(r, u, p, hasCard)
      PROVE  IInv'
  BY <1>1, LetInIInv DEF Subscribe, Calls
<1>2. ASSUME NEW u \in Users, NEW p \in Plans, DevActivate(r, u, p)
      PROVE  IInv'
  BY <1>2, LetInIInv DEF DevActivate, Calls
<1>3. ASSUME NEW u \in Users, NEW b \in Books, NEW hasCard \in BOOLEAN,
             PurchaseBook(r, u, b, hasCard)
      PROVE  IInv'
  BY <1>3, LetInIInv DEF PurchaseBook, Calls
<1>4. ASSUME NEW u \in Users, NEW b \in Books, DevGrantBook(r, u, b)
      PROVE  IInv'
  BY <1>4, LetInIInv DEF DevGrantBook, Calls
<1>5. ASSUME NEW t \in Requests, NEW v \in Verdicts, ConfirmTransaction(r, t, v)
      PROVE  IInv'
  BY <1>5, LetInIInv DEF ConfirmTransaction, Calls
<1>6. QED
  BY <1>1, <1>2, <1>3, <1>4, <1>5 DEF Arrive

\* A step of request r that changes nothing but r's own entries (and adds at
\* most r's own UserBook) keeps the part of IInv about every other request.
LEMMA OthersKept ==
    ASSUME IInv, NEW r \in Requests, NEW s \in Requests \ {r},
           call' = call, pc'[s] = pc[s], tx'[s] = tx[s], sub'[s] = sub[s], click'[s] = click[s],
           \A row \in userBooks' : row \in userBooks \/ row.by = r,
           \A t \in Requests : tx[t] # "none" => tx'[t] # "none"
    PROVE  RequestInv(s)'
<1>1. Granted(s)' => Granted(s)
  BY DEF Granted
<1>2. call[s].op = "confirm" => call[s].of \in Requests
  BY DEF IInv, TypeOK, Calls, NoCall
<1>3. QED
  BY <1>1, <1>2 DEF IInv, RequestInv, AwaitMatchesCall, WritesMatchAwait, HandlesExisting, ForMoney

\* Every step of a running handler preserves IInv, one case per action.
LEMMA HandleIInv ==
    ASSUME IInv, NEW r \in Requests, Handle(r)
    PROVE  IInv'
<1> USE DEF IInv, Goto, SetTx
<1> DEFINE Own == RequestInv(r)'
<1> DEFINE Local ==
      /\ call' = call
      /\ \A s \in Requests \ {r} :
            pc'[s] = pc[s] /\ tx'[s] = tx[s] /\ sub'[s] = sub[s] /\ click'[s] = click[s]
      /\ \A row \in userBooks' : row \in userBooks \/ row.by = r
      /\ \A t \in Requests : tx[t] # "none" => tx'[t] # "none"
<1>1. ASSUME TypeOK', Own, Local
      PROVE  IInv'
  BY <1>1, OthersKept DEF RequestInv
<1>2. CASE RecordTransaction(r) \/ SettleFree(r) \/ Charge(r) \/ SettlePaid(r)
           \/ Decline(r) \/ CreateSubscription(r)
  <2>1. TypeOK'
    BY <1>2 DEF RecordTransaction, SettleFree, Charge, SettlePaid, Decline,
                CreateSubscription, TypeOK, Awaits, Ends, Verdicts
  <2>2. Local
    BY <1>2 DEF RecordTransaction, SettleFree, Charge, SettlePaid, Decline,
                CreateSubscription, TypeOK
  <2>3. Own
    BY <1>2 DEF RecordTransaction, SettleFree, Charge, SettlePaid, Decline,
                CreateSubscription, TypeOK, RequestInv, AwaitMatchesCall, WritesMatchAwait,
                HandlesExisting, Granted, ForMoney, Awaits, Ends, Calls, NoCall
  <2>4. QED
    BY <2>1, <2>2, <2>3, <1>1
<1>3. CASE DevCommit(r) \/ GrantBook(r) \/ SettleBook(r) \/ AlreadyOwned(r)
           \/ FulfillPurchase(r)
  <2>1. TypeOK'
    BY <1>3 DEF DevCommit, GrantBook, SettleBook, AlreadyOwned, FulfillPurchase,
                InsertUserBook, TypeOK, Awaits, Ends, Verdicts, UserBookRows, Calls, NoCall, db
  <2>2. Local
    BY <1>3 DEF DevCommit, GrantBook, SettleBook, AlreadyOwned, FulfillPurchase,
                InsertUserBook, TypeOK, db
  <2>3. Own
    BY <1>3 DEF DevCommit, GrantBook, SettleBook, AlreadyOwned, FulfillPurchase,
                InsertUserBook, TypeOK, RequestInv, AwaitMatchesCall, WritesMatchAwait,
                HandlesExisting, Granted, ForMoney, Awaits, Ends, Calls, NoCall, db
  <2>4. QED
    BY <2>1, <2>2, <2>3, <1>1
<1>4. CASE WriteVerdict(r)
  <2>1. /\ call[r].op = "confirm" /\ call[r].of \in Requests /\ call[r].verdict \in Verdicts
        /\ tx[call[r].of] # "none"
    BY <1>4 DEF WriteVerdict, AwaitMatchesCall, HandlesExisting, TypeOK, Calls, NoCall
  <2>2. TypeOK'
    BY <1>4, <2>1 DEF WriteVerdict, TypeOK, Awaits, Ends, Verdicts
  <2>3. ASSUME NEW s \in Requests
        PROVE  RequestInv(s)'
    <3>1. call[s].op = "confirm" => call[s].of \in Requests
      BY DEF TypeOK, Calls, NoCall
    <3>2. tx'[s] = "none" <=> tx[s] = "none"
      BY <1>4, <2>1 DEF WriteVerdict, TypeOK, Verdicts
    <3>3. \A t \in Requests : tx[t] # "none" => tx'[t] # "none"
      BY <1>4, <2>1 DEF WriteVerdict, TypeOK, Verdicts
    <3>4. QED
      BY <1>4, <2>1, <3>1, <3>2, <3>3
         DEF WriteVerdict, TypeOK, RequestInv, AwaitMatchesCall, WritesMatchAwait,
             HandlesExisting, Granted, ForMoney, Awaits, Ends
  <2>4. QED
    BY <2>2, <2>3 DEF RequestInv
<1>5. QED
  BY <1>2, <1>3, <1>4 DEF Handle

\* Click's answers, a crash and the passing of an end date preserve IInv.
LEMMA EnvironmentIInv ==
    ASSUME IInv, NEW r \in Requests, Environment(r)
    PROVE  IInv'
<1>1. TypeOK'
  BY DEF Environment, Abort, ClickTakes, ClickRefuses, Lapse, TypeOK, Goto, db, Ends, IInv
<1>2. ASSUME NEW s \in Requests
      PROVE  RequestInv(s)'
  BY DEF Environment, Abort, ClickTakes, ClickRefuses, Lapse, TypeOK, Goto, db, Ends, Awaits,
         IInv, RequestInv, AwaitMatchesCall, WritesMatchAwait, HandlesExisting, Granted, ForMoney
<1>3. QED
  BY <1>1, <1>2 DEF IInv, RequestInv

\* Every await of every handler finds what it relies on.
THEOREM InductiveInvariant == Spec => []IInv
<1>1. IInv /\ [Next]_vars => IInv'
  <2>1. ASSUME IInv, UNCHANGED vars
        PROVE  IInv'
    BY <2>1 DEF IInv, vars, TypeOK, AwaitMatchesCall, WritesMatchAwait, HandlesExisting,
                Granted, ForMoney
  <2>2. QED
    BY <2>1, ArriveIInv, HandleIInv, EnvironmentIInv DEF Next
<1>2. QED
  BY InitIInv, <1>1, PTL DEF Spec

\* Every variable always holds a value of its type.
THEOREM TypeCorrect == Spec => []TypeOK
<1>1. IInv => TypeOK
  BY DEF IInv
<1>2. QED
  BY <1>1, InductiveInvariant, PTL

\* No goods leave on a customer's request before Click took its money.
THEOREM PaidGrants == Spec => []GrantsArePaid
<1>1. IInv => GrantsArePaid
  BY DEF IInv, GrantsArePaid, WritesMatchAwait
<1>2. QED
  BY <1>1, InductiveInvariant, PTL

-----------------------------------------------------------------------------
(* The checks of subscribe and devActivate against requests that had ended *)

\* A step of a handler: its own pc, its own subscription, no call.
LEMMA HandleFrame ==
    ASSUME TypeOK, NEW x \in Requests, Handle(x)
    PROVE  /\ UNCHANGED <<call, before>>
           /\ pc[x] \in Awaits
           /\ \A s \in Requests \ {x} : pc'[s] = pc[s] /\ sub'[s] = sub[s]
BY DEF TypeOK, Handle, RecordTransaction, SettleFree, Charge, SettlePaid, Decline,
       CreateSubscription, DevCommit, GrantBook, SettleBook, AlreadyOwned, WriteVerdict,
       FulfillPurchase, Goto, Awaits, db

\* The user of a subscription that exists never changes.
LEMMA SubscriberKept ==
    ASSUME IInv, NEW s \in Requests, sub[s] # "none",
           \A q \in Requests : pc[q] # "idle" => call'[q] = call[q]
    PROVE  Subscriber(s)' = Subscriber(s)
<1>1. pc[s] = "done"
  BY DEF IInv, WritesMatchAwait, Granted
<1>2. call[s].op = "confirm" => call[s].of \in Requests /\ pc[call[s].of] # "idle"
  BY DEF IInv, TypeOK, Calls, NoCall, HandlesExisting, WritesMatchAwait
<1>3. QED
  BY <1>1, <1>2 DEF Subscriber

\* A request that is let in records as ended only what has ended, and what a
\* subscriber's check sees is what the new request's call says.
LEMMA LetInCheck ==
    ASSUME IInv, CheckStaysTrue, NEW x \in Requests, NEW c \in Calls, NEW l, LetIn(x, c, l),
           c.op \in {"subscribe", "devActivate"} => ~HasActive(c.user)
    PROVE  CheckStaysTrue'
<1>1. /\ pc[x] = "idle"
      /\ call'[x] = c /\ before'[x] = {s \in Requests : pc[s] \in Ends}
      /\ \A s \in Requests \ {x} :
            call'[s] = call[s] /\ pc'[s] = pc[s] /\ before'[s] = before[s]
      /\ sub' = sub
  BY DEF IInv, TypeOK, LetIn, Goto
<1>2. ASSUME NEW r \in Requests, NEW s \in Requests, s \in before'[r]
      PROVE  s # x /\ pc'[s] \in Ends
  <2>1. CASE r = x
    BY <1>1, <1>2, <2>1 DEF Ends
  <2>2. CASE r # x
    BY <1>1, <1>2, <2>2 DEF CheckStaysTrue, Ends
  <2>3. QED
    BY <2>1, <2>2
<1>3. ASSUME NEW r \in Requests, NEW s \in Requests, s \in before'[r],
             call'[r].op \in {"subscribe", "devActivate"}, sub'[s] = "live"
      PROVE  Subscriber(s)' # call'[r].user
  <2>1. Subscriber(s)' = Subscriber(s)
    BY <1>1, <1>3, SubscriberKept
  <2>2. CASE r = x
    BY <1>1, <1>3, <2>1, <2>2 DEF HasActive
  <2>3. CASE r # x
    BY <1>1, <1>3, <2>1, <2>3 DEF CheckStaysTrue
  <2>4. QED
    BY <2>2, <2>3
<1>4. QED
  BY <1>2, <1>3 DEF CheckStaysTrue

\* What a check saw stays accounted for when another request arrives.
LEMMA ArriveCheck ==
    ASSUME IInv, CheckStaysTrue, NEW x \in Requests, Arrive(x)
    PROVE  CheckStaysTrue'
<1>1. ASSUME NEW u \in Users, NEW p \in Plans, NEW hasCard \in BOOLEAN,
             Subscribe(x, u, p, hasCard)
      PROVE  CheckStaysTrue'
  BY <1>1, LetInCheck DEF Subscribe, Calls
<1>2. ASSUME NEW u \in Users, NEW p \in Plans, DevActivate(x, u, p)
      PROVE  CheckStaysTrue'
  BY <1>2, LetInCheck DEF DevActivate, Calls
<1>3. ASSUME NEW u \in Users, NEW b \in Books, NEW hasCard \in BOOLEAN,
             PurchaseBook(x, u, b, hasCard)
      PROVE  CheckStaysTrue'
  BY <1>3, LetInCheck DEF PurchaseBook, Calls
<1>4. ASSUME NEW u \in Users, NEW b \in Books, DevGrantBook(x, u, b)
      PROVE  CheckStaysTrue'
  BY <1>4, LetInCheck DEF DevGrantBook, Calls
<1>5. ASSUME NEW t \in Requests, NEW v \in Verdicts, ConfirmTransaction(x, t, v)
      PROVE  CheckStaysTrue'
  BY <1>5, LetInCheck DEF ConfirmTransaction, Calls
<1>6. QED
  BY <1>1, <1>2, <1>3, <1>4, <1>5 DEF Arrive

\* What a check saw stays accounted for when another handler steps.
LEMMA HandleCheck ==
    ASSUME IInv, CheckStaysTrue, NEW x \in Requests, Handle(x)
    PROVE  CheckStaysTrue'
<1>1. /\ UNCHANGED <<call, before>>
      /\ pc[x] \in Awaits
      /\ \A s \in Requests \ {x} : pc'[s] = pc[s] /\ sub'[s] = sub[s]
  BY HandleFrame DEF IInv
<1>2. ASSUME NEW r \in Requests, NEW s \in Requests, s \in before'[r]
      PROVE  s # x /\ pc'[s] \in Ends
  BY <1>1, <1>2 DEF CheckStaysTrue, Awaits, Ends
<1>3. \A s \in Requests : Subscriber(s)' = Subscriber(s)
  BY <1>1 DEF Subscriber
<1>4. QED
  BY <1>1, <1>2, <1>3 DEF CheckStaysTrue

\* What a check saw stays accounted for outside the handlers.
LEMMA EnvironmentCheck ==
    ASSUME IInv, CheckStaysTrue, NEW x \in Requests, Environment(x)
    PROVE  CheckStaysTrue'
<1>1. /\ UNCHANGED <<call, before>>
      /\ \A s \in Requests : pc[s] \in Ends => pc'[s] = pc[s]
      /\ \A s \in Requests : sub'[s] = "live" => sub[s] = "live"
  BY DEF IInv, TypeOK, Environment, Abort, ClickTakes, ClickRefuses, Lapse, Goto, db,
         Awaits, Ends
<1>2. \A s \in Requests : Subscriber(s)' = Subscriber(s)
  BY <1>1 DEF Subscriber
<1>3. QED
  BY <1>1, <1>2 DEF CheckStaysTrue

\* subscribe and devActivate never give a user a second live subscription beside
\* that of a request that had ended when they began; confirmTransaction, which
\* does not check, may.
THEOREM SequentialRequests == Spec => []SequentialNeverDoubles
<1>1. Init => CheckStaysTrue
  BY DEF Init, CheckStaysTrue
<1>2. IInv /\ CheckStaysTrue /\ [Next]_vars => CheckStaysTrue'
  <2>1. ASSUME CheckStaysTrue, UNCHANGED vars
        PROVE  CheckStaysTrue'
    BY <2>1 DEF CheckStaysTrue, vars, Subscriber
  <2>2. QED
    BY <2>1, ArriveCheck, HandleCheck, EnvironmentCheck DEF Next
<1>3. IInv /\ CheckStaysTrue => SequentialNeverDoubles
  BY DEF IInv, WritesMatchAwait, CheckStaysTrue, SequentialNeverDoubles, Subscriber
<1>4. QED
  BY <1>1, <1>2, <1>3, InductiveInvariant, PTL DEF Spec

-----------------------------------------------------------------------------
(* The wallet against Click, and the goods against the wallet *)

\* Once an administrator has taken a transaction in hand, that stays so.
LEMMA ByHandStays ==
    ASSUME \A q \in Requests : call[q].op = "confirm" => call'[q] = call[q],
           NEW t \in Requests, ByHand(t)
    PROVE  ByHand(t)'
BY DEF ByHand, Confirms

\* The part of LedgerInv that speaks of one request.
LedgerOf(r) ==
    /\ click[r] # "none" => tx[r] # "none"
    /\ ForMoney(r) /\ tx[r] = "SUCCESS" /\ ~ByHand(r) => click[r] = "taken"
    /\ ~ByHand(r) =>
          /\ pc[r] \in {"recorded", "charging"} => tx[r] = "PENDING"
          /\ pc[r] = "paid" => tx[r] = "SUCCESS"
          /\ pc[r] = "declined" => tx[r] = "FAILED"
    /\ ForMoney(r) /\ ~ByHand(r) =>
          /\ Granted(r) => tx[r] = "SUCCESS"
          /\ tx[r] = "SUCCESS" =>
                \/ Granted(r)
                \/ call[r].op = "subscribe" /\ pc[r] \in {"paid", "aborted"}

\* The ledger invariant can be shown one request at a time.
LEMMA LedgerByRequest == LedgerInv <=> \A r \in Requests : LedgerOf(r)
BY DEF LedgerInv, OwnStatus, LedgerMatchesClick, GoodsMatchLedger, LedgerOf

\* A request that arrives has moved no money: the ledger is kept.
LEMMA ArriveLedger ==
    ASSUME IInv, LedgerInv, NEW x \in Requests, Arrive(x)
    PROVE  LedgerInv'
<1>1. /\ pc[x] = "idle" /\ pc'[x] \in {"checked", "granting", "confirming"}
      /\ \A s \in Requests \ {x} : call'[s] = call[s] /\ pc'[s] = pc[s]
      /\ UNCHANGED <<tx, sub, userBooks, click>>
  BY DEF IInv, TypeOK, Arrive, Subscribe, DevActivate, PurchaseBook, DevGrantBook,
         ConfirmTransaction, LetIn, Goto
<1>2. \A t \in Requests : ByHand(t) => ByHand(t)'
  <2>1. \A q \in Requests : call[q].op = "confirm" => call'[q] = call[q]
    BY <1>1 DEF IInv, AwaitMatchesCall, NoCall
  <2>2. QED
    BY <2>1, ByHandStays
<1>3. ASSUME NEW s \in Requests
      PROVE  LedgerOf(s)'
  <2>1. LedgerOf(s)
    BY LedgerByRequest
  <2>2. CASE s = x
    BY <1>1, <2>2 DEF IInv, WritesMatchAwait, LedgerOf, Granted
  <2>3. CASE s # x
    BY <1>1, <1>2, <2>1, <2>3 DEF LedgerOf, Granted, ForMoney
  <2>4. QED
    BY <2>2, <2>3
<1>4. QED
  BY <1>3 DEF LedgerInv, OwnStatus, LedgerMatchesClick, GoodsMatchLedger, LedgerOf

\* A handler's step writes a transaction and its goods in the order LedgerInv allows.
LEMMA HandleLedger ==
    ASSUME IInv, LedgerInv, NEW x \in Requests, Handle(x)
    PROVE  LedgerInv'
<1>1. \A t \in Requests : ByHand(t)' <=> ByHand(t)
  BY HandleFrame DEF IInv, ByHand, Confirms
<1>2. CASE WriteVerdict(x)
  <2>1. /\ call[x].op = "confirm" /\ call[x].of \in Requests
        /\ tx'[call[x].of] \in Verdicts
        /\ \A s \in Requests \ {call[x].of} : tx'[s] = tx[s]
        /\ \A s \in Requests \ {x} : pc'[s] = pc[s]
        /\ pc[x] \in Awaits /\ pc'[x] \in {"fulfilling", "done"}
        /\ UNCHANGED <<call, sub, userBooks, click>>
    BY <1>2 DEF WriteVerdict, IInv, AwaitMatchesCall, TypeOK, Calls, NoCall, Goto, SetTx, Awaits
  <2>2. ByHand(call[x].of)
    BY <2>1 DEF ByHand, Confirms
  <2>3. ASSUME NEW s \in Requests
        PROVE  LedgerOf(s)'
    BY <1>1, <2>1, <2>2, LedgerByRequest DEF LedgerOf, Granted, ForMoney, Verdicts
  <2>4. QED
    BY <2>3 DEF LedgerInv, OwnStatus, LedgerMatchesClick, GoodsMatchLedger, LedgerOf
<1>3. CASE ~WriteVerdict(x)
  <2>1. ASSUME NEW s \in Requests \ {x}
        PROVE  LedgerOf(s)'
    <3>1. /\ UNCHANGED call
          /\ pc'[s] = pc[s] /\ tx'[s] = tx[s] /\ sub'[s] = sub[s] /\ click'[s] = click[s]
          /\ (\E row \in userBooks' : row.by = s) <=> (\E row \in userBooks : row.by = s)
      BY <1>3 DEF IInv, TypeOK, Handle, RecordTransaction, SettleFree, Charge, SettlePaid,
                  Decline, CreateSubscription, DevCommit, GrantBook, SettleBook, AlreadyOwned,
                  FulfillPurchase, InsertUserBook, Goto, SetTx, db
    <3>2. QED
      BY <1>1, <3>1, LedgerByRequest DEF LedgerOf, Granted, ForMoney
  <2>2. LedgerOf(x)'
    <3>1. LedgerOf(x) /\ AwaitMatchesCall(x) /\ WritesMatchAwait(x)
      BY LedgerByRequest DEF IInv
    <3>2. CASE RecordTransaction(x) \/ SettleFree(x) \/ Charge(x) \/ SettlePaid(x) \/ Decline(x)
      BY <1>1, <3>1, <3>2
         DEF IInv, TypeOK, RecordTransaction, SettleFree, Charge, SettlePaid, Decline,
             Goto, SetTx, LedgerOf, AwaitMatchesCall, WritesMatchAwait, Granted, ForMoney
    <3>3. CASE CreateSubscription(x)
      BY <1>1, <3>1, <3>3
         DEF IInv, TypeOK, CreateSubscription, Goto, LedgerOf, AwaitMatchesCall,
             WritesMatchAwait, Granted, ForMoney
    <3>4. CASE DevCommit(x) \/ GrantBook(x) \/ FulfillPurchase(x)
      <4>1. ~ForMoney(x) /\ ~ForMoney(x)' /\ click'[x] = "none"
        BY <3>1, <3>4 DEF DevCommit, GrantBook, FulfillPurchase, AwaitMatchesCall,
                          WritesMatchAwait, ForMoney, Ends
      <4>2. QED
        BY <3>4, <4>1
           DEF IInv, TypeOK, DevCommit, GrantBook, FulfillPurchase, Goto, SetTx, LedgerOf
    <3>5. CASE SettleBook(x)
      <4>1. Granted(x)'
        <5> DEFINE row == [user |-> call[x].user, book |-> call[x].item, by |-> x]
        <5>1. row \in userBooks' /\ row.by = x
          BY <3>5 DEF SettleBook, InsertUserBook
        <5>2. QED
          BY <5>1 DEF Granted
      <4>2. QED
        BY <1>1, <3>1, <3>5, <4>1 DEF IInv, TypeOK, SettleBook, Goto, SetTx, LedgerOf
    <3>6. CASE AlreadyOwned(x)
      BY <1>1, <3>1, <3>6
         DEF IInv, TypeOK, AlreadyOwned, Goto, db, LedgerOf, AwaitMatchesCall,
             WritesMatchAwait, Granted, ForMoney, Ends
    <3>7. QED
      BY <1>3, <3>2, <3>3, <3>4, <3>5, <3>6 DEF Handle
  <2>3. QED
    BY <2>1, <2>2 DEF LedgerInv, OwnStatus, LedgerMatchesClick, GoodsMatchLedger, LedgerOf
<1>4. QED
  BY <1>2, <1>3

\* No step outside the handlers unbalances the ledger.
LEMMA EnvironmentLedger ==
    ASSUME IInv, LedgerInv, NEW x \in Requests, Environment(x)
    PROVE  LedgerInv'
<1>1. /\ UNCHANGED <<call, tx, userBooks>>
      /\ \A s \in Requests :
            /\ pc'[s] = pc[s] \/ (pc[s] \in Awaits /\ pc'[s] = "aborted")
            /\ sub'[s] = "none" <=> sub[s] = "none"
            /\ click[s] = "taken" => click'[s] = "taken"
            /\ click'[s] = "none" <=> click[s] = "none"
  BY DEF IInv, TypeOK, Environment, Abort, ClickTakes, ClickRefuses, Lapse, Goto, db
<1>2. ASSUME NEW s \in Requests
      PROVE  LedgerOf(s)'
  BY <1>1, LedgerByRequest
     DEF LedgerOf, Granted, ForMoney, ByHand, Confirms, Awaits
<1>3. QED
  BY <1>2 DEF LedgerInv, OwnStatus, LedgerMatchesClick, GoodsMatchLedger, LedgerOf

\* The ledger invariant holds in every reachable state.
LEMMA LedgerAlways == Spec => []LedgerInv
<1>1. Init => LedgerInv
  BY DEF Init, LedgerInv, OwnStatus, LedgerMatchesClick, GoodsMatchLedger, Granted, ForMoney, NoCall
<1>2. IInv /\ LedgerInv /\ [Next]_vars => LedgerInv'
  <2>1. ASSUME LedgerInv, UNCHANGED vars
        PROVE  LedgerInv'
    BY <2>1 DEF LedgerInv, OwnStatus, LedgerMatchesClick, GoodsMatchLedger, vars, Granted,
                ForMoney, ByHand, Confirms
  <2>2. QED
    BY <2>1, ArriveLedger, HandleLedger, EnvironmentLedger DEF Next
<1>3. QED
  BY <1>1, <1>2, InductiveInvariant, PTL DEF Spec

\* Click holds no charge the wallet does not know of, and SUCCESS means paid.
THEOREM WalletMatchesClick == Spec => []LedgerMatchesClick
<1>1. LedgerInv => LedgerMatchesClick
  BY DEF LedgerInv
<1>2. QED
  BY <1>1, LedgerAlways, PTL

\* A book's payment is SUCCESS exactly when the book has been handed over; a
\* subscription's payment is SUCCESS before the subscription exists.
THEOREM WalletMatchesGoods == Spec => []GoodsMatchLedger
<1>1. LedgerInv => GoodsMatchLedger
  BY DEF LedgerInv
<1>2. QED
  BY <1>1, LedgerAlways, PTL

-----------------------------------------------------------------------------
(* One transaction, several writers *)

\* The writes of a handler: a new PENDING row of its own, or a verdict on a
\* transaction it may write.
LEMMA HandleWrites ==
    ASSUME IInv, NEW x \in Requests, Handle(x)
    PROVE  /\ \A t \in Requests :
                 \/ tx'[t] = tx[t]
                 \/ t = x /\ pc[x] = "checked" /\ tx[t] = "none" /\ pc'[x] = "recorded"
                 \/ x \in Writers(t) /\ tx'[t] \in Verdicts
           /\ pc'[x] \notin {"confirming", "granting"}
           /\ pc'[x] = "paid" => tx'[x] \in Verdicts
           /\ sub'[x] # sub[x] => pc[x] \in {"paid", "fulfilling"} \/ tx'[x] = "SUCCESS"
           /\ sub'[x] # sub[x] /\ call[x].op = "confirm" => pc[x] = "fulfilling"
           /\ pc'[x] = "fulfilling" => pc[x] = "confirming" /\ tx'[call[x].of] \in Verdicts
           /\ call[x].op = "confirm" => tx'[x] = tx[x] \/ x = call[x].of
<1>1. TypeOK /\ AwaitMatchesCall(x) /\ WritesMatchAwait(x) /\ HandlesExisting(x)
  BY DEF IInv
<1>2. CASE WriteVerdict(x)
  <2>1. call[x].op = "confirm" /\ call[x].of \in Requests /\ call[x].verdict \in Verdicts
    BY <1>1, <1>2 DEF WriteVerdict, AwaitMatchesCall, TypeOK, Calls, NoCall
  <2>2. QED
    BY <1>1, <1>2, <2>1 DEF WriteVerdict, TypeOK, Goto, SetTx, Writers, Confirms
<1>3. CASE RecordTransaction(x) \/ SettleFree(x) \/ Charge(x) \/ SettlePaid(x) \/ Decline(x)
  BY <1>1, <1>3 DEF RecordTransaction, SettleFree, Charge, SettlePaid, Decline, TypeOK, Goto,
                    SetTx, Writers, Verdicts, AwaitMatchesCall, WritesMatchAwait, ForMoney
<1>4. CASE CreateSubscription(x) \/ DevCommit(x) \/ GrantBook(x) \/ SettleBook(x)
           \/ AlreadyOwned(x) \/ FulfillPurchase(x)
  BY <1>1, <1>4 DEF CreateSubscription, DevCommit, GrantBook, SettleBook, AlreadyOwned,
                    FulfillPurchase, InsertUserBook, TypeOK, Goto, SetTx, Writers, Verdicts,
                    AwaitMatchesCall, db
<1>5. QED
  BY <1>2, <1>3, <1>4 DEF Handle

\* A request that arrives: what it is let in with.
LEMMA ArriveFrame ==
    ASSUME IInv, NEW x \in Requests, Arrive(x)
    PROVE  /\ UNCHANGED <<tx, sub, userBooks, click>>
           /\ pc[x] = "idle" /\ pc'[x] \in {"checked", "granting", "confirming"}
           /\ before'[x] = {s \in Requests : pc[s] \in Ends}
           /\ \A s \in Requests \ {x} :
                 call'[s] = call[s] /\ pc'[s] = pc[s] /\ before'[s] = before[s]
           /\ \A t \in Requests : Confirms(x, t)' => tx[t] = "PENDING" /\ pc'[x] = "confirming"
           /\ call'[x].op # "none"
<1>1. ASSUME NEW c, NEW l \in {"checked", "granting", "confirming"}, LetIn(x, c, l)
      PROVE  /\ UNCHANGED <<tx, sub, userBooks, click>>
             /\ pc[x] = "idle" /\ pc'[x] = l /\ call'[x] = c
             /\ before'[x] = {s \in Requests : pc[s] \in Ends}
             /\ \A s \in Requests \ {x} :
                   call'[s] = call[s] /\ pc'[s] = pc[s] /\ before'[s] = before[s]
  BY <1>1 DEF IInv, TypeOK, LetIn, Goto
<1>2. CASE \E t \in Requests, v \in Verdicts : ConfirmTransaction(x, t, v)
  BY <1>1, <1>2 DEF ConfirmTransaction, Confirms
<1>3. CASE ~\E t \in Requests, v \in Verdicts : ConfirmTransaction(x, t, v)
  <2>1. \E c : \E l \in {"checked", "granting", "confirming"} :
              LetIn(x, c, l) /\ c.op \notin {"none", "confirm"}
    <3>1. ASSUME NEW u \in Users, NEW p \in Plans, NEW hasCard \in BOOLEAN,
                 Subscribe(x, u, p, hasCard)
          PROVE  \E c : LetIn(x, c, "checked") /\ c.op = "subscribe"
      BY <3>1 DEF Subscribe
    <3>2. ASSUME NEW u \in Users, NEW p \in Plans, DevActivate(x, u, p)
          PROVE  \E c : LetIn(x, c, "granting") /\ c.op = "devActivate"
      BY <3>2 DEF DevActivate
    <3>3. ASSUME NEW u \in Users, NEW b \in Books, NEW hasCard \in BOOLEAN,
                 PurchaseBook(x, u, b, hasCard)
          PROVE  \E c : \E l \in {"checked", "granting"} :
                    LetIn(x, c, l) /\ c.op = "purchaseBook"
      BY <3>3 DEF PurchaseBook
    <3>4. ASSUME NEW u \in Users, NEW b \in Books, DevGrantBook(x, u, b)
          PROVE  \E c : LetIn(x, c, "granting") /\ c.op = "devGrantBook"
      BY <3>4 DEF DevGrantBook
    <3>5. QED
      BY <1>3, <3>1, <3>2, <3>3, <3>4 DEF Arrive
  <2>2. PICK c : \E l \in {"checked", "granting", "confirming"} :
              LetIn(x, c, l) /\ c.op \notin {"none", "confirm"}
    BY <2>1
  <2>3. PICK l \in {"checked", "granting", "confirming"} :
              LetIn(x, c, l) /\ c.op \notin {"none", "confirm"}
    BY <2>2
  <2>4. call'[x] = c
    BY <1>1, <2>3
  <2>5. \A t \in Requests : ~Confirms(x, t)'
    BY <2>3, <2>4 DEF Confirms
  <2>6. QED
    BY <1>1, <2>3, <2>4, <2>5
<1>4. QED
  BY <1>2, <1>3

\* A confirmed transaction exists, and no request confirms itself.
LEMMA ConfirmedExists ==
    ASSUME IInv, NEW a \in Requests, NEW t \in Requests, Confirms(a, t)
    PROVE  tx[t] # "none" /\ pc[t] \notin {"idle", "checked"} /\ pc[a] # "idle"
BY DEF IInv, Confirms, HandlesExisting, WritesMatchAwait, AwaitMatchesCall, NoCall

\* A request that arrives finds transactions as their writers left them.
LEMMA ArriveWriters ==
    ASSUME IInv, SettledBehind, HandsOverlap, NEW x \in Requests, Arrive(x)
    PROVE  SettledBehind' /\ HandsOverlap'
<1>1. /\ UNCHANGED <<tx, sub>>
      /\ pc[x] = "idle" /\ pc'[x] \in {"checked", "granting", "confirming"}
      /\ before'[x] = {s \in Requests : pc[s] \in Ends}
      /\ \A s \in Requests \ {x} :
            call'[s] = call[s] /\ pc'[s] = pc[s] /\ before'[s] = before[s]
      /\ \A t \in Requests : Confirms(x, t)' => tx[t] = "PENDING" /\ pc'[x] = "confirming"
  BY ArriveFrame
<1>2. tx[x] = "none" /\ sub[x] = "none" /\ \A t \in Requests : ~Confirms(x, t)
  BY <1>1 DEF IInv, WritesMatchAwait, AwaitMatchesCall, Granted, NoCall, Confirms
<1>3. \A a \in Requests \ {x}, t \in Requests : Confirms(a, t)' <=> Confirms(a, t)
  BY <1>1 DEF Confirms
<1>4. ASSUME NEW r \in Requests, NEW s \in Requests, s \in before'[r]
      PROVE  s # x /\ pc'[s] \in Ends
  <2>1. pc[s] \in Ends
    BY <1>1, <1>4 DEF SettledBehind
  <2>2. QED
    BY <1>1, <2>1 DEF Ends
<1>5. SettledBehind'
  BY <1>1, <1>2, <1>3, <1>4 DEF SettledBehind, Verdicts
<1>6. ASSUME NEW a \in Requests, NEW t \in Requests, Confirms(a, t)'
      PROVE  /\ a \notin before'[t]
             /\ t \in before'[a] => sub'[t] = "none"
             /\ \A b \in Requests : Confirms(b, t)' /\ a \in before'[b] => sub'[a] = "none"
             /\ pc'[a] = "confirming" /\ tx'[t] \in Verdicts =>
                   \E w \in Writers(t)' \ {a} : Overlap(a, w)'
  <2>1. CASE a = x
    BY <1>1, <1>2, <1>4, <1>6, <2>1 DEF SettledBehind, Verdicts
  <2>2. CASE a # x
    <3>1. Confirms(a, t) /\ t # x
      BY <1>2, <1>3, <1>6, <2>2, ConfirmedExists
    <3>2. /\ a \notin before[t] /\ (t \in before[a] => sub[t] = "none")
          /\ before'[t] = before[t] /\ before'[a] = before[a] /\ pc'[a] = pc[a]
      BY <1>1, <2>2, <3>1 DEF HandsOverlap
    <3>3. ASSUME NEW b \in Requests, Confirms(b, t)', a \in before'[b]
          PROVE  sub[a] = "none"
      <4>1. CASE b = x
        BY <1>1, <3>1, <3>3, <4>1 DEF SettledBehind, Verdicts
      <4>2. CASE b # x
        BY <1>1, <1>3, <3>1, <3>3, <4>2 DEF HandsOverlap
      <4>3. QED
        BY <4>1, <4>2
    <3>4. ASSUME pc[a] = "confirming", tx[t] \in Verdicts
          PROVE  \E w \in Writers(t)' \ {a} : Overlap(a, w)'
      <4>1. PICK w \in Writers(t) \ {a} : Overlap(a, w)
        BY <3>1, <3>4 DEF HandsOverlap
      <4>2. w \in Requests /\ w # x
        BY <1>2, <3>1, <4>1 DEF Writers
      <4>3. w \in Writers(t)'
        BY <1>3, <4>1, <4>2 DEF Writers
      <4>4. Overlap(a, w)'
        BY <1>1, <2>2, <4>1, <4>2 DEF Overlap
      <4>5. QED
        BY <4>1, <4>3, <4>4
    <3>5. QED
      BY <1>1, <3>2, <3>3, <3>4
  <2>3. QED
    BY <2>1, <2>2
<1>7. QED
  BY <1>5, <1>6 DEF HandsOverlap

\* A handler that settles a transaction overlaps those who still think it
\* PENDING.
LEMMA HandleWriters ==
    ASSUME IInv, SettledBehind, HandsOverlap, NEW x \in Requests, Handle(x)
    PROVE  SettledBehind' /\ HandsOverlap'
<1>1. /\ UNCHANGED <<call, before>> /\ pc[x] \in Awaits
      /\ \A s \in Requests \ {x} : pc'[s] = pc[s] /\ sub'[s] = sub[s]
  BY HandleFrame DEF IInv
<1>2. /\ \A t \in Requests :
            \/ tx'[t] = tx[t]
            \/ t = x /\ pc[x] = "checked" /\ tx[t] = "none" /\ pc'[x] = "recorded"
            \/ x \in Writers(t) /\ tx'[t] \in Verdicts
      /\ pc'[x] \notin {"confirming", "granting"}
      /\ pc'[x] = "paid" => tx'[x] \in Verdicts
      /\ sub'[x] # sub[x] => pc[x] \in {"paid", "fulfilling"} \/ tx'[x] = "SUCCESS"
      /\ sub'[x] # sub[x] /\ call[x].op = "confirm" => pc[x] = "fulfilling"
      /\ pc'[x] = "fulfilling" => pc[x] = "confirming" /\ tx'[call[x].of] \in Verdicts
      /\ call[x].op = "confirm" => tx'[x] = tx[x] \/ x = call[x].of
  BY HandleWrites
<1>3. \A a, t \in Requests : /\ Confirms(a, t)' <=> Confirms(a, t)
                             /\ Overlap(a, t)' <=> Overlap(a, t)
  BY <1>1 DEF Confirms, Overlap
<1>4. \A t \in Requests : Writers(t)' = Writers(t)
  BY <1>1 DEF Writers, Confirms
<1>5. \A r, s \in Requests : s \in before[r] => s # x /\ pc[s] \in Ends
  BY <1>1 DEF SettledBehind, Awaits, Ends
<1>6. \A t \in Requests : tx[t] \in Verdicts => tx'[t] \in Verdicts
  BY <1>2 DEF Verdicts
<1>7. SettledBehind'
  <2>1. ASSUME NEW r \in Requests
        PROVE  /\ call'[r].op = "confirm" \/ pc'[r] = "granting" => tx'[r] = "none"
               /\ pc'[r] = "paid" => tx'[r] \in Verdicts
               /\ sub'[r] # "none" => tx'[r] # "PENDING"
    <3>1. call'[r].op = "confirm" \/ pc'[r] = "granting" => tx'[r] = "none"
      <4>1. ASSUME call[r].op = "confirm" \/ pc'[r] = "granting"
            PROVE  tx[r] = "none" /\ ~(r = x /\ pc[x] = "checked")
        BY <1>1, <1>2, <4>1 DEF SettledBehind, IInv, AwaitMatchesCall
      <4>2. ASSUME x \in Writers(r), tx[r] = "none"
            PROVE  x = r /\ (call[x].op = "confirm" => x # call[x].of)
        BY <4>2, ConfirmedExists DEF Writers, Confirms
      <4>3. QED
        BY <1>1, <1>2, <4>1, <4>2
    <3>2. pc'[r] = "paid" => tx'[r] \in Verdicts
      BY <1>1, <1>2, <1>6 DEF SettledBehind
    <3>3. sub'[r] # "none" => tx'[r] # "PENDING"
      <4>1. CASE r = x /\ sub'[x] # sub[x]
        <5>1. CASE pc[x] = "fulfilling"
          BY <1>1, <3>1, <4>1, <5>1 DEF IInv, AwaitMatchesCall
        <5>2. CASE pc[x] = "paid"
          BY <1>6, <4>1, <5>2 DEF SettledBehind, Verdicts
        <5>3. QED
          BY <1>2, <4>1, <5>1, <5>2
      <4>2. CASE sub'[r] = sub[r]
        BY <1>1, <1>2, <4>2 DEF SettledBehind, Verdicts, IInv, WritesMatchAwait, Granted
      <4>3. QED
        BY <1>1, <4>1, <4>2
    <3>4. QED
      BY <3>1, <3>2, <3>3
  <2>2. ASSUME NEW a \in Requests, NEW t \in Requests, Confirms(a, t),
               pc'[a] = "fulfilling" \/ sub'[a] # "none"
        PROVE  tx'[t] \in Verdicts
    BY <1>1, <1>2, <1>6, <2>2 DEF SettledBehind, Confirms
  <2>3. QED
    BY <1>1, <1>3, <1>5, <2>1, <2>2 DEF SettledBehind
<1>8. ASSUME NEW a \in Requests, NEW t \in Requests, Confirms(a, t)
      PROVE  /\ a \notin before[t]
             /\ t \in before[a] => sub'[t] = "none"
             /\ \A b \in Requests : Confirms(b, t) /\ a \in before[b] => sub'[a] = "none"
             /\ pc'[a] = "confirming" /\ tx'[t] \in Verdicts =>
                   \E w \in Writers(t) \ {a} : Overlap(a, w)
  <2>1. /\ a \notin before[t]
        /\ t \in before[a] => sub'[t] = "none"
        /\ \A b \in Requests : Confirms(b, t) /\ a \in before[b] => sub'[a] = "none"
    BY <1>1, <1>5, <1>8 DEF HandsOverlap
  <2>2. ASSUME pc'[a] = "confirming", tx'[t] \in Verdicts
        PROVE  \E w \in Writers(t) \ {a} : Overlap(a, w)
    <3>1. a # x /\ pc[a] = "confirming"
      BY <1>1, <1>2, <2>2
    <3>2. CASE tx[t] \in Verdicts
      BY <1>8, <3>1, <3>2 DEF HandsOverlap
    <3>3. CASE tx[t] \notin Verdicts
      <4>1. x \in Writers(t)
        BY <1>2, <1>8, <2>2, <3>3, ConfirmedExists
      <4>2. Overlap(a, x)
        BY <1>5, <3>1 DEF Overlap, Ends
      <4>3. QED
        BY <3>1, <4>1, <4>2
    <3>4. QED
      BY <3>2, <3>3
  <2>3. QED
    BY <2>1, <2>2
<1>9. HandsOverlap'
  <2>1. \A t \in Requests : Writers(t) \subseteq Requests
    BY DEF Writers
  <2>2. QED
    BY <1>1, <1>3, <1>4, <1>8, <2>1 DEF HandsOverlap
<1>10. QED
  BY <1>7, <1>9

\* No step outside the handlers writes a transaction or lets anybody in.
LEMMA EnvironmentWriters ==
    ASSUME IInv, SettledBehind, HandsOverlap, NEW x \in Requests, Environment(x)
    PROVE  SettledBehind' /\ HandsOverlap'
<1>1. /\ UNCHANGED <<call, tx, before>>
      /\ \A s \in Requests :
            /\ pc'[s] = pc[s] \/ (pc[s] \in Awaits /\ pc'[s] = "aborted")
            /\ sub'[s] = "none" <=> sub[s] = "none"
  BY DEF IInv, TypeOK, Environment, Abort, ClickTakes, ClickRefuses, Lapse, Goto, db
<1>2. /\ \A a, t \in Requests : (Confirms(a, t)' <=> Confirms(a, t))
      /\ \A a, t \in Requests : (Overlap(a, t)' <=> Overlap(a, t))
  BY <1>1 DEF Confirms, Overlap
<1>3. \A t \in Requests : Writers(t)' = Writers(t) /\ Writers(t) \subseteq Requests
  BY <1>1 DEF Writers, Confirms
<1>4. SettledBehind'
  BY <1>1, <1>2 DEF SettledBehind, Ends, Awaits
<1>5. HandsOverlap'
  BY <1>1, <1>2, <1>3 DEF HandsOverlap
<1>6. QED
  BY <1>4, <1>5

\* What the writers of a transaction rely on holds in every reachable state.
LEMMA WritersAlways == Spec => [](SettledBehind /\ HandsOverlap)
<1>1. Init => SettledBehind /\ HandsOverlap
  BY DEF Init, SettledBehind, HandsOverlap, Confirms, NoCall
<1>2. IInv /\ SettledBehind /\ HandsOverlap /\ [Next]_vars => (SettledBehind /\ HandsOverlap)'
  <2>1. ASSUME SettledBehind, HandsOverlap, UNCHANGED vars
        PROVE  SettledBehind' /\ HandsOverlap'
    BY <2>1 DEF SettledBehind, HandsOverlap, vars, Confirms, Overlap, Writers
  <2>2. QED
    BY <2>1, ArriveWriters, HandleWriters, EnvironmentWriters DEF Next
<1>3. QED
  BY <1>1, <1>2, InductiveInvariant, PTL DEF Spec

\* Whatever two requests fulfil of one transaction, they were in flight
\* together.
THEOREM RefulfilledTogether == Spec => []RefulfilledOnlyByOverlap
<1>1. ASSUME SettledBehind, HandsOverlap PROVE RefulfilledOnlyByOverlap
  <2>1. ASSUME NEW a \in Requests, NEW b \in Requests, NEW t \in Requests,
               Confirms(a, t), sub[a] # "none", sub[b] # "none",
               b = t \/ Confirms(b, t)
        PROVE  Overlap(a, b)
    <3>1. CASE b = t
      BY <1>1, <2>1, <3>1 DEF HandsOverlap, Overlap
    <3>2. CASE Confirms(b, t)
      BY <1>1, <2>1, <3>2 DEF HandsOverlap, Overlap
    <3>3. QED
      BY <2>1, <3>1, <3>2
  <2>2. QED
    BY <2>1 DEF RefulfilledOnlyByOverlap, Overlap
<1>2. QED
  BY <1>1, WritersAlways, PTL

\* A settled transaction is written again only when two of those who may write
\* it were in flight together.
THEOREM SettledUnlessTogether == Spec => SettledOnce
<1>1. ASSUME IInv, OwnStatus, SettledBehind, HandsOverlap, [Next]_vars, NEW t \in Requests,
             tx[t] \in Verdicts, tx'[t] # tx[t]
      PROVE  \E r, s \in {t} \cup {a \in Requests : Confirms(a, t)} : r # s /\ Overlap(r, s)
  <2>1. PICK x \in Requests : Handle(x)
    <3>1. ASSUME NEW x \in Requests, Arrive(x) \/ Environment(x)
          PROVE  tx' = tx
      <4>1. CASE Arrive(x)
        BY <1>1, <4>1, ArriveFrame
      <4>2. CASE Environment(x)
        BY <4>2 DEF Environment, Abort, ClickTakes, ClickRefuses, Lapse, db
      <4>3. QED
        BY <3>1, <4>1, <4>2
    <3>2. QED
      BY <1>1, <3>1 DEF Next, vars
  <2>2. x \in Writers(t) /\ pc[x] \in Awaits
    BY <1>1, <2>1, HandleWrites, HandleFrame DEF IInv, Verdicts
  <2>3. CASE Confirms(x, t) /\ x # t
    <3>1. pc[x] = "confirming"
      BY <1>1, <2>1, <2>3
         DEF Handle, RecordTransaction, SettleFree, Charge, SettlePaid, Decline,
             CreateSubscription, DevCommit, GrantBook, SettleBook, AlreadyOwned, WriteVerdict,
             FulfillPurchase, SetTx, db, IInv, TypeOK
    <3>2. PICK w \in Writers(t) \ {x} : Overlap(x, w)
      BY <1>1, <2>3, <3>1 DEF HandsOverlap
    <3>3. QED
      BY <2>2, <3>2 DEF Writers
  <2>4. CASE x = t
    <3>1. ~Confirms(t, t)
      BY <1>1, ConfirmedExists DEF SettledBehind, Confirms
    <3>2. pc[t] \in {"recorded", "charging"}
      BY <1>1, <2>1, <2>4, <3>1
         DEF Handle, RecordTransaction, SettleFree, Charge, SettlePaid, Decline,
             CreateSubscription, DevCommit, GrantBook, SettleBook, AlreadyOwned, WriteVerdict,
             FulfillPurchase, SetTx, db, IInv, TypeOK, SettledBehind, AwaitMatchesCall,
             WritesMatchAwait, Confirms, Verdicts, Calls, NoCall
    <3>3. PICK a \in Requests : Confirms(a, t)
      BY <1>1, <3>2 DEF OwnStatus, ByHand, Verdicts
    <3>4. Overlap(a, t)
      BY <1>1, <3>2, <3>3 DEF HandsOverlap, SettledBehind, Overlap, Ends
    <3>5. QED
      BY <3>1, <3>3, <3>4
  <2>5. QED
    BY <2>2, <2>3, <2>4 DEF Writers
<1>2. IInv /\ OwnStatus /\ SettledBehind /\ HandsOverlap /\ [Next]_vars =>
        [\A t \in Requests :
            tx[t] \in Verdicts /\ tx'[t] # tx[t] =>
                LET writers == {t} \cup {a \in Requests : Confirms(a, t)}
                IN  \E r, s \in writers : r # s /\ Overlap(r, s)]_vars
  BY <1>1
<1>3. LedgerInv => OwnStatus
  BY DEF LedgerInv
<1>4. QED
  BY <1>2, <1>3, InductiveInvariant, LedgerAlways, WritersAlways, PTL DEF Spec, SettledOnce

-----------------------------------------------------------------------------
(* The checkout implements Purchase *)

\* PhaseBar is a function, so it is what its values are.
LEMMA PhaseStep ==
    ASSUME NEW r \in Requests, NEW l, Phase(r)' = l,
           \A s \in Requests \ {r} : Phase(s)' = Phase(s)
    PROVE  PhaseBar' = [PhaseBar EXCEPT ![r] = l]
BY DEF PhaseBar

\* A step that moves no request's phase is a stutter of the purchase.
LEMMA PhaseKept ==
    ASSUME \A s \in Requests : Phase(s)' = Phase(s)
    PROVE  PhaseBar' = PhaseBar
BY DEF PhaseBar

\* An initial state of the checkout is one of the purchase.
LEMMA InitRefines == Init => P!Init
BY DEF Init, P!Init, PhaseBar, TakenBar, Phase, ForMoney, NoCall

\* An arrival is a step of the abstract purchase or a stutter.
LEMMA ArriveRefines ==
    ASSUME IInv, NEW x \in Requests, Arrive(x)
    PROVE  UNCHANGED <<PhaseBar, TakenBar>>
<1>1. /\ tx[x] = "none"
      /\ \A s \in Requests \ {x} : call'[s] = call[s] /\ pc'[s] = pc[s]
      /\ UNCHANGED <<tx, sub, userBooks, click>>
  BY DEF IInv, TypeOK, WritesMatchAwait, Arrive, Subscribe, DevActivate, PurchaseBook,
         DevGrantBook, ConfirmTransaction, LetIn, Goto
<1>2. \A s \in Requests : Phase(s)' = Phase(s)
  BY <1>1 DEF Phase, ForMoney, Granted
<1>3. QED
  BY <1>1, <1>2, PhaseKept DEF TakenBar

\* A step of a handler moves no other request's purchase.
LEMMA OtherPhases ==
    ASSUME IInv, NEW x \in Requests, Handle(x), NEW s \in Requests \ {x}
    PROVE  Phase(s)' = Phase(s)
<1>1. call' = call /\ pc'[s] = pc[s] /\ sub'[s] = sub[s]
  BY HandleFrame DEF IInv
<1>2. (\E row \in userBooks' : row.by = s) <=> (\E row \in userBooks : row.by = s)
  BY DEF Handle, RecordTransaction, SettleFree, Charge, SettlePaid, Decline,
         CreateSubscription, DevCommit, GrantBook, SettleBook, AlreadyOwned, WriteVerdict,
         FulfillPurchase, InsertUserBook, db
<1>3. tx'[s] = "none" <=> tx[s] = "none"
  <2>1. CASE WriteVerdict(x)
    BY <2>1 DEF WriteVerdict, IInv, AwaitMatchesCall, HandlesExisting, TypeOK, Calls, NoCall,
                SetTx, Verdicts
  <2>2. CASE ~WriteVerdict(x)
    BY <2>2 DEF IInv, TypeOK, Handle, RecordTransaction, SettleFree, Charge, SettlePaid,
                Decline, CreateSubscription, DevCommit, GrantBook, SettleBook, AlreadyOwned,
                FulfillPurchase, SetTx, db
  <2>3. QED
    BY <2>1, <2>2
<1>4. QED
  BY <1>1, <1>2, <1>3 DEF Phase, ForMoney, Granted

\* A handler's step is a step of the abstract purchase or a stutter.
LEMMA HandleRefines ==
    ASSUME IInv, NEW x \in Requests, Handle(x)
    PROVE  [P!Next]_<<PhaseBar, TakenBar>>
<1> DEFINE Rest == \A s \in Requests \ {x} : Phase(s)' = Phase(s)
<1>1. Rest
  BY OtherPhases
<1>2. AwaitMatchesCall(x) /\ WritesMatchAwait(x) /\ HandlesExisting(x) /\ TypeOK
  BY DEF IInv
<1>3. CASE RecordTransaction(x)
  <2>1. ~Granted(x) /\ ~Granted(x)' /\ pc'[x] = "recorded" /\ tx'[x] = "PENDING"
        /\ tx[x] = "none" /\ call' = call /\ TakenBar' = TakenBar
    BY <1>2, <1>3 DEF RecordTransaction, TypeOK, WritesMatchAwait, Granted, Goto, SetTx,
                      TakenBar
  <2>2. CASE ForMoney(x)
    <3>1. Phase(x) = "new" /\ Phase(x)' = "open"
      BY <2>1, <2>2 DEF Phase, ForMoney
    <3>2. P!Open(x)
      BY <1>1, <2>1, <3>1, PhaseStep DEF P!Open, PhaseBar
    <3>3. QED
      BY <3>2 DEF P!Next
  <2>3. CASE ~ForMoney(x)
    BY <1>1, <2>1, <2>3, PhaseKept DEF Phase, ForMoney
  <2>4. QED
    BY <2>2, <2>3
<1>4. CASE Decline(x)
  <2>1. ForMoney(x) /\ ForMoney(x)' /\ ~Granted(x) /\ tx[x] # "none" /\ tx'[x] = "FAILED"
        /\ pc[x] = "charging" /\ pc'[x] = "declined" /\ TakenBar' = TakenBar
    BY <1>2, <1>4 DEF Decline, TypeOK, AwaitMatchesCall, WritesMatchAwait, Goto, SetTx,
                      TakenBar, ForMoney
  <2>2. Phase(x) = "open" /\ Phase(x)' = "void"
    BY <2>1 DEF Phase
  <2>3. P!CallOff(x)
    BY <1>1, <2>1, <2>2, PhaseStep DEF P!CallOff, PhaseBar
  <2>4. QED
    BY <2>3 DEF P!Next
<1>5. CASE (CreateSubscription(x) \/ SettleBook(x)) /\ ForMoney(x)
  <2>1. Granted(x)'
    <3>1. CASE CreateSubscription(x)
      BY <1>2, <3>1 DEF CreateSubscription, TypeOK, Granted
    <3>2. CASE SettleBook(x)
      <4> DEFINE row == [user |-> call[x].user, book |-> call[x].item, by |-> x]
      <4>1. row \in userBooks' /\ row.by = x
        BY <3>2 DEF SettleBook, InsertUserBook
      <4>2. QED
        BY <4>1 DEF Granted
    <3>3. QED
      BY <1>5, <3>1, <3>2
  <2>2. ForMoney(x)' /\ ~Granted(x) /\ tx[x] # "none" /\ tx'[x] # "none"
        /\ pc[x] # "declined" /\ pc'[x] = "done" /\ x \in TakenBar /\ TakenBar' = TakenBar
    BY <1>2, <1>5 DEF CreateSubscription, SettleBook, TypeOK, WritesMatchAwait, Goto, SetTx,
                      TakenBar, ForMoney
  <2>3. Phase(x) = "open" /\ Phase(x)' = "granted"
    BY <1>5, <2>1, <2>2 DEF Phase
  <2>4. P!Grant(x)
    BY <1>1, <2>2, <2>3, PhaseStep DEF P!Grant, PhaseBar
  <2>5. QED
    BY <2>4 DEF P!Next
<1>6. CASE SettleFree(x) \/ Charge(x) \/ SettlePaid(x) \/ AlreadyOwned(x)
  <2>1. /\ call' = call /\ pc[x] # "declined" /\ pc'[x] # "declined"
        /\ tx'[x] = "none" <=> tx[x] = "none"
        /\ UNCHANGED <<sub, userBooks>>
    BY <1>2, <1>6 DEF SettleFree, Charge, SettlePaid, AlreadyOwned, TypeOK,
                      WritesMatchAwait, Goto, SetTx, db
  <2>2. Phase(x)' = Phase(x)
    BY <2>1 DEF Phase, ForMoney, Granted
  <2>3. TakenBar' = TakenBar
    BY <1>2, <1>6 DEF SettleFree, Charge, SettlePaid, AlreadyOwned, TypeOK, TakenBar,
                      WritesMatchAwait, Ends
  <2>4. QED
    BY <1>1, <2>2, <2>3, PhaseKept
<1>7. CASE \/ DevCommit(x) \/ GrantBook(x) \/ WriteVerdict(x) \/ FulfillPurchase(x)
           \/ CreateSubscription(x) /\ ~ForMoney(x)
  <2>1. ~ForMoney(x) /\ call' = call /\ click' = click
    BY <1>2, <1>7 DEF DevCommit, GrantBook, WriteVerdict, FulfillPurchase,
                      CreateSubscription, AwaitMatchesCall, ForMoney
  <2>2. Phase(x)' = Phase(x)
    BY <2>1 DEF Phase, ForMoney
  <2>3. QED
    BY <1>1, <2>1, <2>2, PhaseKept DEF TakenBar
<1>8. SettleBook(x) => ForMoney(x)
  BY <1>2 DEF SettleBook, AwaitMatchesCall
<1>9. QED
  BY <1>3, <1>4, <1>5, <1>6, <1>7, <1>8 DEF Handle

\* Any other step is a step of the abstract purchase or a stutter.
LEMMA EnvironmentRefines ==
    ASSUME IInv, NEW x \in Requests, Environment(x)
    PROVE  [P!Next]_<<PhaseBar, TakenBar>>
<1>1. CASE ClickTakes(x)
  <2>1. ForMoney(x) /\ tx[x] # "none" /\ x \notin TakenBar
    BY <1>1 DEF ClickTakes, IInv, WritesMatchAwait, TakenBar
  <2>2. Granted(x) => click[x] = "taken"
    BY <2>1 DEF IInv, WritesMatchAwait
  <2>3. Phase(x) \in {"open", "void"}
    BY <1>1, <2>1, <2>2 DEF Phase, ClickTakes
  <2>4. PhaseBar' = PhaseBar
    BY <1>1, PhaseKept DEF ClickTakes, db, Phase, ForMoney, Granted
  <2>5. TakenBar' = TakenBar \cup {x}
    BY <1>1 DEF ClickTakes, TakenBar, IInv, TypeOK
  <2>6. P!Take(x)
    BY <2>1, <2>3, <2>4, <2>5 DEF P!Take, PhaseBar
  <2>7. QED
    BY <2>6 DEF P!Next
<1>2. CASE ~ClickTakes(x)
  <2>1. /\ UNCHANGED <<call, tx, userBooks>>
        /\ \A s \in Requests : pc'[s] = "declined" <=> pc[s] = "declined"
        /\ \A s \in Requests : sub'[s] = "none" <=> sub[s] = "none"
        /\ \A s \in Requests : click'[s] = "taken" <=> click[s] = "taken"
    BY <1>2 DEF IInv, TypeOK, Environment, Abort, ClickRefuses, Lapse, Goto, db, Awaits
  <2>2. \A s \in Requests : Phase(s)' = Phase(s)
    BY <2>1 DEF Phase, ForMoney, Granted
  <2>3. QED
    BY <2>1, <2>2, PhaseKept DEF TakenBar
<1>3. QED
  BY <1>1, <1>2

\* The promise of module Purchase, kept by every checkout.
THEOREM KeepsThePromise == Spec => KeepsPromise
<1>1. IInv /\ [Next]_vars => [P!Next]_<<PhaseBar, TakenBar>>
  <2>1. ASSUME UNCHANGED vars
        PROVE  UNCHANGED <<PhaseBar, TakenBar>>
    BY <2>1 DEF vars, PhaseBar, TakenBar, Phase, ForMoney, Granted
  <2>2. QED
    BY <2>1, ArriveRefines, HandleRefines, EnvironmentRefines DEF Next
<1>2. QED
  BY InitRefines, <1>1, InductiveInvariant, PTL DEF Spec, KeepsPromise, P!Spec, P!pvars

=============================================================================
