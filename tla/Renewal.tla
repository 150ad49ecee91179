------------------------------ MODULE Renewal ------------------------------
(***************************************************************************)
(* SubscriptionCron: the daily run at 02:00 that renews the subscriptions  *)
(* with auto-pay and announces the end of the others, together with the    *)
(* requests that change what it reads while it runs: setAutoPay and the    *)
(* removal of a card.                                                      *)
(*                                                                         *)
(* Time is counted in ticks, Day of them to a day, and 02:00 is every      *)
(* multiple of Day.  The timer fires up to Late ticks after it, and a run  *)
(* takes less than a tick, so a run is named by the tick it reads as its   *)
(* `now`.  Every user has one subscription, so a subscription also names   *)
(* its user, and the user's n-th card is <<s, n>>.  A transaction is named *)
(* by the subscription and the run that inserted it.                       *)
(***************************************************************************)
EXTENDS Naturals, FiniteSets

CONSTANTS
    Subs,
    MaxCards,    \* bound: cards a user ever has
    Day,         \* ticks to a day
    Late,        \* how late the timer may be, in ticks
    Duration,    \* plan.durationDays, in ticks
    FirstEnds,   \* endDates the subscriptions may start with
    Horizon,     \* bound: the last tick looked at
    MaxOps,      \* bound: requests of users
    MaxFaults    \* bound: failed calls, crashes, missed runs

ASSUME RenewalAssumption ==
    /\ Day \in Nat \ {0} /\ Duration \in Nat \ {0}
    /\ Late \in 0..(Day - 1)
    /\ MaxCards \in Nat \ {0}
    /\ Horizon \in Nat \ {0} /\ MaxOps \in Nat /\ MaxFaults \in Nat
    /\ FirstEnds \subseteq 1..(Horizon + Day)

VARIABLES
    now,
    sub,        \* the Subscription rows; 0 stands for null
    card,       \* card[<<s, n>>]: the Card rows
    tx, click,  \* per subscription and run: status of the row, deeds of Click
    cron,       \* the run in progress
    lastDay,    \* the last day whose 02:00 has been served or missed
    setting,    \* setting[s]: setAutoPay between its read and its write
    removing,   \* removing[s]: the removal of a card, by the step it is at
    ops, faults,
    changed,    \* changed[s]: the tick of the last write to s by its user
    ran,        \* the runs that have begun
    missed,     \* what a fault kept from being done: <<s, run, kind>>
    sent        \* the announcements pushed: <<s, endDate, days, run>>

users == <<card, setting, removing, ops, changed>>
vars == <<now, sub, card, tx, click, cron, lastDay, setting, removing, ops,
          faults, changed, ran, missed, sent>>

-----------------------------------------------------------------------------
Runs == {t \in Day..Horizon : t % Day <= Late}

Kinds == {"renew", "notice3", "notice1"}
Ends == 1..(Horizon + Day + Duration)

SubRows == [end : Ends, autoPay : BOOLEAN, card : 0..MaxCards,
            noticed : {0, 1, 3}, attempt : {0} \cup Runs]

\* snap[s]: the row of s as it was read, [end |-> 0, ...] when it was not.
NotRead == [end |-> 0, card |-> 0]
NoCron == [kind |-> "idle", todo |-> {}, cur |-> {}, at |-> "pick",
           snap |-> [s \in Subs |-> NotRead]]
Idle == cron.kind = "idle"

Steps == {"pick", "record", "charge", "charging", "extend", "attempted", "sent"}

CronStates ==
    [kind : {"idle"} \cup Kinds, todo : SUBSET Subs, cur : SUBSET Subs,
     at : Steps,
     snap : [Subs -> [end : {0} \cup Ends, card : 0..MaxCards]]]

TypeOK ==
    /\ now \in 1..Horizon
    /\ sub \in [Subs -> SubRows]
    /\ card \in [Subs \X (1..MaxCards) -> {"none", "verified", "deleted"}]
    /\ tx \in [Subs \X Runs -> {"none", "PENDING", "SUCCESS", "FAILED"}]
    /\ click \in [Subs \X Runs -> {"none", "posted", "taken", "refused"}]
    /\ cron \in CronStates
    /\ lastDay \in 0..(now \div Day)
    /\ setting \in [Subs -> [busy : BOOLEAN, autoPay : BOOLEAN, card : 0..MaxCards]]
    /\ removing \in [Subs -> [at : {"no", "delete", "detach"}, card : 0..MaxCards]]
    /\ changed \in [Subs -> 0..Horizon]
    /\ ran \subseteq Runs
    /\ missed \subseteq Subs \X Runs \X Kinds
    /\ sent \subseteq Subs \X Ends \X {1, 3} \X Runs

-----------------------------------------------------------------------------
NotSetting == [busy |-> FALSE, autoPay |-> FALSE, card |-> 0]
NotRemoving == [at |-> "no", card |-> 0]

Init ==
    /\ now = 1
    /\ card \in [Subs \X (1..MaxCards) -> {"none", "verified"}]
    /\ \A s \in Subs, n \in 2..MaxCards : card[<<s, n>>] = "none"
    /\ sub \in [Subs -> [end : FirstEnds, autoPay : BOOLEAN, card : 0..1,
                         noticed : {0}, attempt : {0}]]
    /\ \A s \in Subs : sub[s].card = IF card[<<s, 1>>] = "verified" THEN 1 ELSE 0
    /\ \A s \in Subs : sub[s].autoPay => sub[s].card # 0
    /\ tx = [k \in Subs \X Runs |-> "none"]
    /\ click = [k \in Subs \X Runs |-> "none"]
    /\ cron = NoCron
    /\ lastDay = 0
    /\ setting = [s \in Subs |-> NotSetting]
    /\ removing = [s \in Subs |-> NotRemoving]
    /\ ops = 0 /\ faults = 0
    /\ changed = [s \in Subs |-> 0]
    /\ ran = {} /\ missed = {} /\ sent = {}

-----------------------------------------------------------------------------
(* The run *)

Verified(s, n) == n # 0 /\ card[<<s, n>>] = "verified"

\* Mutant: the upper end of the window is left out.
DueExclusive ==
    {s \in Subs : /\ sub[s].autoPay /\ sub[s].card # 0
                  /\ now <= sub[s].end /\ sub[s].end < now + Day}

\* Mutant: the query forgets autoPay.
DueUnasked == {s \in Subs : sub[s].card # 0 /\ now <= sub[s].end /\ sub[s].end <= now + Day}

\* processAutoRenewals: endDate in [now, now + 1 day], both ends included.
DueForRenewal ==
    {s \in Subs : /\ sub[s].autoPay /\ sub[s].card # 0
                  /\ now <= sub[s].end /\ sub[s].end <= now + Day}

\* Mutant: a subscription announced once is not announced again.
DueIfNeverNoticed(d) ==
    {s \in Subs : /\ ~sub[s].autoPay
                  /\ now + d * Day <= sub[s].end /\ sub[s].end < now + (d + 1) * Day
                  /\ sub[s].noticed = 0}

\* Mutant: lastExpiryNoticeDay >= daysBefore.
DueAgain(d) ==
    {s \in Subs : /\ ~sub[s].autoPay
                  /\ now + d * Day <= sub[s].end /\ sub[s].end < now + (d + 1) * Day
                  /\ (sub[s].noticed = 0 \/ sub[s].noticed >= d)}

\* processExpiryNotices(now, d): endDate in [now + d days, now + d + 1 days),
\* auto-pay off, this threshold not announced yet.
DueForNotice(d) ==
    {s \in Subs : /\ ~sub[s].autoPay
                  /\ now + d * Day <= sub[s].end /\ sub[s].end < now + (d + 1) * Day
                  /\ (sub[s].noticed = 0 \/ sub[s].noticed > d)}

Start(kind, todo) ==
    cron' = [kind |-> kind, todo |-> todo, cur |-> {}, at |-> "pick",
             snap |-> [s \in Subs |-> IF s \in todo
                                      THEN [end |-> sub[s].end, card |-> sub[s].card]
                                      ELSE NotRead]]

\* The timer has fired for today's 02:00, or is going to.
TimerDue == now \in Runs /\ lastDay < now \div Day

StartRun ==
    /\ TimerDue /\ Idle
    /\ lastDay' = now \div Day
    /\ ran' = ran \cup {now}
    /\ Start("renew", DueForRenewal)
    /\ UNCHANGED <<now, sub, tx, click, users, faults, missed, sent>>

\* The subscription in hand, and the step it is at.
At(kind, step, s) == cron.kind = kind /\ cron.at = step /\ cron.cur = {s}

Step(l) == cron' = [cron EXCEPT !.at = l]
PickUp(s, l) == cron' = [cron EXCEPT !.todo = @ \ {s}, !.cur = {s}, !.at = l]
LayDown == cron' = [cron EXCEPT !.cur = {}, !.at = "pick"]
CanPick(kind, s) == cron.kind = kind /\ cron.cur = {} /\ s \in cron.todo

\* The card is read anew; without a usable one the user is told so.
PickRenewal(s) ==
    /\ CanPick("renew", s)
    /\ IF Verified(s, cron.snap[s].card)
       THEN PickUp(s, "record")
       ELSE cron' = [cron EXCEPT !.todo = @ \ {s}]
    /\ UNCHANGED <<now, sub, tx, click, lastDay, users, faults, ran, missed, sent>>

\* The PENDING row; its foreign key wants the card to be there still.
RecordRenewal(s) ==
    /\ At("renew", "record", s)
    /\ card[<<s, cron.snap[s].card>>] # "deleted"
    /\ tx' = [tx EXCEPT ![<<s, now>>] = "PENDING"]
    /\ Step("charge")
    /\ UNCHANGED <<now, sub, click, lastDay, users, faults, ran, missed, sent>>

ChargeRenewal(s) ==
    /\ At("renew", "charge", s)
    /\ click' = [click EXCEPT ![<<s, now>>] = "posted"]
    /\ Step("charging")
    /\ UNCHANGED <<now, sub, tx, lastDay, users, faults, ran, missed, sent>>

\* Mutant: charge.success is not looked at.
RenewalPaidUnheard(s) ==
    /\ At("renew", "charging", s)
    /\ tx' = [tx EXCEPT ![<<s, now>>] = "SUCCESS"]
    /\ Step("extend")
    /\ UNCHANGED <<now, sub, click, lastDay, users, faults, ran, missed, sent>>

RenewalPaid(s) ==
    /\ At("renew", "charging", s)
    /\ click[<<s, now>>] = "taken"
    /\ tx' = [tx EXCEPT ![<<s, now>>] = "SUCCESS"]
    /\ Step("extend")
    /\ UNCHANGED <<now, sub, click, lastDay, users, faults, ran, missed, sent>>

\* Mutant: a lost answer is waited for.
RenewalDeclinedOnAnswer(s) ==
    /\ At("renew", "charging", s)
    /\ click[<<s, now>>] = "refused"
    /\ tx' = [tx EXCEPT ![<<s, now>>] = "FAILED"]
    /\ Step("attempted")
    /\ UNCHANGED <<now, sub, click, lastDay, users, faults, ran, missed, sent>>

\* charge returns success: false: refused, or the answer was lost.
RenewalDeclined(s) ==
    /\ At("renew", "charging", s)
    /\ tx' = [tx EXCEPT ![<<s, now>>] = "FAILED"]
    /\ Step("attempted")
    /\ UNCHANGED <<now, sub, click, lastDay, users, faults, ran, missed, sent>>

\* endDate is written from the row read when the run began.
Extend(s) ==
    /\ At("renew", "extend", s)
    /\ sub' = [sub EXCEPT ![s].end = cron.snap[s].end + Duration,
                          ![s].attempt = now, ![s].noticed = 0]
    /\ LayDown
    /\ UNCHANGED <<now, tx, click, lastDay, users, faults, ran, missed, sent>>

MarkAttempt(s) ==
    /\ At("renew", "attempted", s)
    /\ sub' = [sub EXCEPT ![s].attempt = now]
    /\ LayDown
    /\ UNCHANGED <<now, tx, click, lastDay, users, faults, ran, missed, sent>>

NoticeKind(d) == IF d = 3 THEN "notice3" ELSE "notice1"

\* The push comes first, the note of it afterwards.
SendNotice(s, d) ==
    /\ CanPick(NoticeKind(d), s)
    /\ sent' = sent \cup {<<s, cron.snap[s].end, d, now>>}
    /\ PickUp(s, "sent")
    /\ UNCHANGED <<now, sub, tx, click, lastDay, users, faults, ran, missed>>

\* Mutant: off by one.
NoteDaysLeft(s, d) ==
    /\ At(NoticeKind(d), "sent", s)
    /\ sub' = [sub EXCEPT ![s].noticed = d - 1]
    /\ LayDown
    /\ UNCHANGED <<now, tx, click, lastDay, users, faults, ran, missed, sent>>

NoteNotice(s, d) ==
    /\ At(NoticeKind(d), "sent", s)
    /\ sub' = [sub EXCEPT ![s].noticed = d]
    /\ LayDown
    /\ UNCHANGED <<now, tx, click, lastDay, users, faults, ran, missed, sent>>

\* A call of the loop body throws; the catch goes on with the next one.
BodyThrows(s) ==
    /\ faults < MaxFaults /\ faults' = faults + 1
    /\ \/ CanPick(cron.kind, s) /\ cron' = [cron EXCEPT !.todo = @ \ {s}]
       \/ cron.cur = {s} /\ LayDown
    /\ missed' = missed \cup {<<s, now, cron.kind>>}
    /\ UNCHANGED <<now, sub, tx, click, lastDay, users, ran, sent>>

\* The foreign key refuses the PENDING row of a card deleted meanwhile.
CardVanished(s) ==
    /\ At("renew", "record", s)
    /\ card[<<s, cron.snap[s].card>>] = "deleted"
    /\ LayDown
    /\ UNCHANGED <<now, sub, tx, click, lastDay, users, faults, ran, missed, sent>>

\* Renewals, then the notices three days ahead, then those one day ahead.
NextPart ==
    /\ cron.todo = {} /\ cron.cur = {}
    /\ \/ cron.kind = "renew"   /\ Start("notice3", DueForNotice(3))
       \/ cron.kind = "notice3" /\ Start("notice1", DueForNotice(1))
       \/ cron.kind = "notice1" /\ cron' = NoCron
    /\ UNCHANGED <<now, sub, tx, click, lastDay, users, faults, ran, missed, sent>>

-----------------------------------------------------------------------------
(* Requests of the users *)

CanAsk == ops < MaxOps

\* setAutoPay reads the subscription and, to enable, a verified card of the
\* user: the one named or the one on the row (n = 0: none named).
SetAutoPay(s, enabled, n) ==
    LET target == IF n # 0 THEN n ELSE sub[s].card
    IN  /\ CanAsk /\ ops' = ops + 1
        /\ ~setting[s].busy
        /\ sub[s].end >= now
        /\ enabled => Verified(s, target)
        /\ setting' = [setting EXCEPT ![s] =
               [busy |-> TRUE, autoPay |-> enabled,
                card |-> IF enabled THEN target ELSE sub[s].card]]
        /\ UNCHANGED <<now, sub, card, tx, click, cron, lastDay, removing, faults, changed,
                       ran, missed, sent>>

WriteAutoPay(s) ==
    /\ setting[s].busy
    /\ sub' = [sub EXCEPT ![s].autoPay = setting[s].autoPay, ![s].card = setting[s].card]
    /\ setting' = [setting EXCEPT ![s] = NotSetting]
    /\ changed' = [changed EXCEPT ![s] = now]
    /\ UNCHANGED <<now, card, tx, click, cron, lastDay, removing, ops, faults, ran, missed, sent>>

\* CardsService.remove: the lookup and the revocation at Click, ...
RemoveCard(s, n) ==
    /\ CanAsk /\ ops' = ops + 1
    /\ removing[s].at = "no"
    /\ card[<<s, n>>] = "verified"
    /\ removing' = [removing EXCEPT ![s] = [at |-> "delete", card |-> n]]
    /\ UNCHANGED <<now, sub, card, tx, click, cron, lastDay, setting, faults, changed, ran, missed,
                   sent>>

\* ... the row, ...
DeleteCard(s) ==
    /\ removing[s].at = "delete"
    /\ card' = [card EXCEPT ![<<s, removing[s].card>>] = "deleted"]
    /\ removing' = [removing EXCEPT ![s].at = "detach"]
    /\ UNCHANGED <<now, sub, tx, click, cron, lastDay, setting, ops, faults, changed, ran, missed,
                   sent>>

\* ... and the subscriptions that refer to it.
DetachCard(s) ==
    /\ removing[s].at = "detach"
    /\ IF sub[s].card = removing[s].card
       THEN /\ sub' = [sub EXCEPT ![s].card = 0, ![s].autoPay = FALSE]
            /\ changed' = [changed EXCEPT ![s] = now]
       ELSE UNCHANGED <<sub, changed>>
    /\ removing' = [removing EXCEPT ![s] = NotRemoving]
    /\ UNCHANGED <<now, card, tx, click, cron, lastDay, setting, ops, faults, ran, missed, sent>>

\* The user binds the next card (initAdd and verifyAdd).
AddCard(s, n) ==
    /\ CanAsk /\ ops' = ops + 1
    /\ card[<<s, n>>] = "none"
    /\ n > 1 => card[<<s, n - 1>>] # "none"
    /\ card' = [card EXCEPT ![<<s, n>>] = "verified"]
    /\ UNCHANGED <<now, sub, tx, click, cron, lastDay, setting, removing, faults, changed,
                   ran, missed, sent>>

-----------------------------------------------------------------------------
(* Outside *)

ClickTakes(k) ==
    /\ click[k] = "posted"
    /\ click' = [click EXCEPT ![k] = "taken"]
    /\ UNCHANGED <<now, sub, tx, cron, lastDay, users, faults, ran, missed, sent>>

ClickRefuses(k) ==
    /\ click[k] = "posted"
    /\ click' = [click EXCEPT ![k] = "refused"]
    /\ UNCHANGED <<now, sub, tx, cron, lastDay, users, faults, ran, missed, sent>>

\* What is left undone when the run stops where it is.
Undone ==
    LET rest == (cron.todo \cup cron.cur) \X {now} \X {cron.kind}
        later == CASE cron.kind = "renew"   -> {"notice3", "notice1"}
                   [] cron.kind = "notice3" -> {"notice1"}
                   [] OTHER                 -> {}
    IN  rest \cup (Subs \X {now} \X later)

\* The query for a part of the run throws.  It is not under the try of the
\* loops: the rest of the run is lost.
QueryThrows ==
    /\ faults < MaxFaults /\ faults' = faults + 1
    /\ \/ /\ TimerDue /\ Idle
          /\ lastDay' = now \div Day
          /\ ran' = ran \cup {now}
          /\ missed' = missed \cup (Subs \X {now} \X Kinds)
       \/ /\ cron.kind \in {"renew", "notice3"} /\ cron.todo = {} /\ cron.cur = {}
          /\ missed' = missed \cup Undone
          /\ UNCHANGED <<lastDay, ran>>
    /\ cron' = NoCron
    /\ UNCHANGED <<now, sub, tx, click, users, sent>>

\* The process dies and is started again: nothing in flight survives, and the
\* run is not taken up again before the next 02:00.
Crash ==
    /\ faults < MaxFaults /\ faults' = faults + 1
    /\ ~Idle \/ \E s \in Subs : setting[s].busy \/ removing[s].at # "no"
    /\ missed' = missed \cup Undone
    /\ cron' = NoCron
    /\ setting' = [s \in Subs |-> NotSetting]
    /\ removing' = [s \in Subs |-> NotRemoving]
    /\ UNCHANGED <<now, sub, card, tx, click, lastDay, ops, changed, ran, sent>>

\* The process is down at 02:00: nothing catches up.
MissRun ==
    /\ faults < MaxFaults /\ faults' = faults + 1
    /\ TimerDue /\ Idle
    /\ lastDay' = now \div Day
    /\ UNCHANGED <<now, sub, tx, click, cron, users, ran, missed, sent>>

Tick ==
    /\ now < Horizon
    /\ Idle
    /\ ~(TimerDue /\ now % Day = Late)
    /\ now' = now + 1
    /\ UNCHANGED <<sub, tx, click, cron, lastDay, users, faults, ran, missed, sent>>

-----------------------------------------------------------------------------
\* What the process does of itself.
RunStep ==
    \/ StartRun
    \/ NextPart
    \/ \E s \in Subs :
          \/ PickRenewal(s) \/ RecordRenewal(s) \/ ChargeRenewal(s)
          \/ RenewalPaid(s) \/ RenewalDeclined(s) \/ Extend(s) \/ MarkAttempt(s)
          \/ CardVanished(s)
          \/ \E d \in {1, 3} : SendNotice(s, d) \/ NoteNotice(s, d)

UserStep ==
    \E s \in Subs :
       \/ \E enabled \in BOOLEAN, n \in 0..MaxCards : SetAutoPay(s, enabled, n)
       \/ WriteAutoPay(s)
       \/ \E n \in 1..MaxCards : RemoveCard(s, n) \/ AddCard(s, n)
       \/ DeleteCard(s) \/ DetachCard(s)

Outside ==
    \/ \E k \in Subs \X Runs : ClickTakes(k) \/ ClickRefuses(k)
    \/ \E s \in Subs : BodyThrows(s)
    \/ QueryThrows \/ Crash \/ MissRun \/ Tick

Next == RunStep \/ UserStep \/ Outside

\* Node goes on with a run that has begun: every call of it ends, in a result
\* or in an error.  Nothing is assumed of users or of Click.
Spec == Init /\ [][Next]_vars /\ WF_vars(RunStep)

-----------------------------------------------------------------------------
(* Safety *)

\* Every subscription a run had to renew has been tried by that run or a later
\* one, unless a fault took it from the run, its user changed it meanwhile, or
\* it has no usable card: one subscription's failure does not touch the next,
\* and the windows of the query leave out no endDate a run answers for.
DueIsAttempted ==
    \A s \in Subs, t \in ran :
        /\ t < now /\ changed[s] < t /\ <<s, t, "renew">> \notin missed
        /\ sub[s].autoPay /\ Verified(s, sub[s].card)
        /\ t <= sub[s].end /\ sub[s].end <= t + Day
        => sub[s].attempt >= t

\* Likewise for the announcements of the end of a subscription without
\* auto-pay: both thresholds are announced, each by the run it belongs to.
DueIsAnnounced ==
    \A s \in Subs, t \in ran, d \in {1, 3} :
        /\ t < now /\ changed[s] < t /\ <<s, t, NoticeKind(d)>> \notin missed
        /\ ~sub[s].autoPay
        /\ t + d * Day <= sub[s].end /\ sub[s].end < t + (d + 1) * Day
        => \E r \in ran : r <= t /\ <<s, sub[s].end, d, r>> \in sent

\* lastExpiryNoticeDay keeps an end from being announced twice at the same
\* threshold, though a timer that is late one day and not the next makes the
\* windows of two runs overlap; only a run that pushed and could not note it
\* is repeated.
AnnouncedOnce ==
    \A x, y \in sent :
        /\ x[1] = y[1] /\ x[2] = y[2] /\ x[3] = y[3] /\ x[4] < y[4]
        => <<x[1], x[4], NoticeKind(x[3])>> \in missed

\* Auto-pay is never on for a subscription without a card, whatever removals,
\* crashes and setAutoPay requests run into each other: the query that skips
\* cardId = null skips nobody who counts on being renewed.
AutoPayHasCard == \A s \in Subs : sub[s].autoPay => sub[s].card # 0

\* endDate moves only by one paid period of its own: by exactly Duration, at
\* most once a run, with Click's money taken for this very run and on record,
\* although it is written from a row read before the charge.
ExtendedByItsPayment ==
    [][\A s \in Subs : sub'[s].end # sub[s].end =>
          /\ sub'[s].end = sub[s].end + Duration
          /\ now \in ran
          /\ click[<<s, now>>] = "taken" /\ tx[<<s, now>>] = "SUCCESS"
          /\ sub[s].attempt # now]_vars

\* A card is charged only for a subscription whose auto-pay is on; the list of
\* the run may be stale, but not older than the tick of the run.
ChargedWithConsent ==
    [][\A s \in Subs, t \in Runs : click'[<<s, t>>] = "posted" /\ click[<<s, t>>] = "none" =>
          /\ t = now
          /\ sub[s].autoPay \/ changed[s] = now]_vars

(* Liveness *)

\* A run that has begun comes to its end, whatever Click does or fails to do.
RunEnds == ~Idle ~> Idle

-----------------------------------------------------------------------------
(* The inductive invariant behind the theorems of RenewalProofs. *)

\* A tick has one run at most, and what is in progress is the run of this tick.
RunIsNow ==
    /\ \A t \in ran : t <= now
    /\ now \in ran => lastDay = now \div Day
    /\ IF Idle THEN cron = NoCron ELSE now \in ran
    /\ cron.todo \cap cron.cur = {}
    /\ \A s \in Subs : sub[s].attempt \in {0} \cup ran

\* What the rows on the list of a run still have in common with the rows they
\* were read from.
ListHolds ==
    \A s \in cron.todo \cup cron.cur :
        /\ cron.snap[s].end = sub[s].end
        /\ cron.kind = "renew" =>
              /\ now <= sub[s].end /\ sub[s].end <= now + Day
              /\ sub[s].attempt # now
              /\ \/ changed[s] = now
                 \/ sub[s].autoPay /\ cron.snap[s].card = sub[s].card
        /\ \A d \in {1, 3} : cron.kind = NoticeKind(d) =>
              /\ sub[s].noticed = 0 \/ sub[s].noticed > d
              /\ sub[s].end < now + (d + 1) * Day

\* A renewal is extended only with its money taken and on record.
PaidIsTaken ==
    \A s \in Subs : At("renew", "extend", s) => click[<<s, now>>] = "taken" /\ tx[<<s, now>>] = "SUCCESS"

\* Rows and the requests about to write them name cards that were bound.
CardsKnown ==
    \A s \in Subs :
        /\ sub[s].card # 0 => card[<<s, sub[s].card>>] # "none"
        /\ setting[s].card # 0 => card[<<s, setting[s].card>>] # "none"
        /\ setting[s].autoPay => setting[s].card # 0

\* A run's renewals are attempted or still to come, ...
AttemptedOrListed ==
    \A s \in Subs, t \in ran :
        /\ changed[s] < t /\ <<s, t, "renew">> \notin missed
        /\ sub[s].autoPay /\ Verified(s, sub[s].card)
        /\ t <= sub[s].end /\ sub[s].end <= t + Day
        => \/ sub[s].attempt >= t
           \/ t = now /\ cron.kind = "renew" /\ s \in cron.todo \cup cron.cur

\* ... its announcements made or still to come, ...
Ahead(s, d) ==
    \/ cron.kind = "renew"
    \/ cron.kind = "notice3" /\ d = 1
    \/ cron.kind = NoticeKind(d) /\ s \in cron.todo

AnnouncedOrListed ==
    \A s \in Subs, t \in ran, d \in {1, 3} :
        /\ changed[s] < t /\ <<s, t, NoticeKind(d)>> \notin missed
        /\ ~sub[s].autoPay
        /\ t + d * Day <= sub[s].end /\ sub[s].end < t + (d + 1) * Day
        => \/ \E r \in ran : r <= t /\ <<s, sub[s].end, d, r>> \in sent
           \/ t = now /\ Ahead(s, d)

\* ... and what was announced of the current end is noted on the row, about to
\* be noted, or lost to a fault.
NotedOrMissed ==
    /\ \A x \in sent :
          /\ x[4] <= now
          /\ x[2] <= sub[x[1]].end
          /\ x[2] = sub[x[1]].end =>
                \/ sub[x[1]].noticed # 0 /\ sub[x[1]].noticed <= x[3]
                \/ <<x[1], x[4], NoticeKind(x[3])>> \in missed
                \/ x[4] = now /\ cron.kind = NoticeKind(x[3]) /\ cron.cur = {x[1]}
    /\ \A s \in Subs, d \in {1, 3} : sub[s].noticed = d =>
          \E r \in ran : <<s, sub[s].end, d, r>> \in sent /\ sub[s].end < r + (d + 1) * Day
    /\ \A s \in Subs, d \in {1, 3} : At(NoticeKind(d), "sent", s) =>
          <<s, sub[s].end, d, now>> \in sent

IInv ==
    /\ TypeOK /\ RunIsNow /\ ListHolds /\ PaidIsTaken
    /\ CardsKnown /\ AutoPayHasCard
    /\ AttemptedOrListed /\ AnnouncedOrListed /\ NotedOrMissed /\ AnnouncedOnce

-----------------------------------------------------------------------------
(* What the comments of the code claim, and its steps do not give. *)

\* "Subscriptions expiring within the next 24h with autoPay=true -> charge
\* saved card": even without a fault, none lapses without an attempt.
NoneLapsesUntried ==
    \A s \in Subs :
        /\ changed[s] = 0 /\ sub[s].end > Day
        /\ sub[s].autoPay /\ Verified(s, sub[s].card)
        /\ sub[s].end < now
        => sub[s].attempt # 0

\* The removal of a card leaves no dangling reference and turns auto-pay off,
\* so that the user sees in the settings that nothing will be renewed.
RemovalTurnsAutoPayOff ==
    \A s \in Subs :
        /\ removing[s].at = "no" /\ ~setting[s].busy /\ faults = 0
        /\ sub[s].autoPay
        => card[<<s, sub[s].card>>] # "deleted"

=============================================================================
