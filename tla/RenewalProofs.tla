--------------------------- MODULE RenewalProofs ---------------------------
(***************************************************************************)
(* Theorems about Renewal for every set of subscriptions, every clock and  *)
(* every number of requests and faults.                                    *)
(***************************************************************************)
EXTENDS Renewal, TLAPS

-----------------------------------------------------------------------------
(* Days and runs *)

\* The day of a tick is a number and never falls from one tick to the next.
LEMMA DayGrows ==
    ASSUME NEW t \in Nat
    PROVE  /\ t \div Day \in Nat
           /\ t \div Day <= (t + 1) \div Day
<1>1. Day \in Nat /\ Day > 0
  BY RenewalAssumption
<1>2. QED
  BY <1>1

\* A run that is due is one of the runs counted, and the first of its tick.
LEMMA DueIsNew ==
    ASSUME TypeOK, RunIsNow, TimerDue
    PROVE  now \in Runs /\ now \notin ran
<1>1. now \div Day \in Nat
  BY DayGrows, RenewalAssumption DEF TypeOK
<1>2. QED
  BY <1>1 DEF TypeOK, RunIsNow, TimerDue

\* The list of a part of the run is typed like the rows it was read from.
LEMMA StartType ==
    ASSUME TypeOK, NEW kind \in Kinds, NEW todo \in SUBSET Subs, Start(kind, todo)
    PROVE  cron' \in CronStates
<1>1. \A s \in Subs : sub[s].end \in Ends /\ sub[s].card \in 0..MaxCards
  BY DEF TypeOK, SubRows
<1>2. cron'.snap \in [Subs -> [end : {0} \cup Ends, card : 0..MaxCards]]
  BY <1>1, RenewalAssumption DEF Start, NotRead
<1>3. QED
  BY <1>2 DEF Start, CronStates, Steps

\* No run in progress is a value of cron.
LEMMA NoCronType == NoCron \in CronStates
BY RenewalAssumption DEF NoCron, CronStates, NotRead, Steps

\* The ways a run moves on within a part leave cron typed.
LEMMA CronMoves ==
    ASSUME TypeOK, NEW T \in SUBSET Subs, NEW C \in SUBSET Subs, NEW l \in Steps
    PROVE  /\ [cron EXCEPT !.at = l] \in CronStates
           /\ [cron EXCEPT !.todo = T] \in CronStates
           /\ [cron EXCEPT !.cur = C, !.at = l] \in CronStates
           /\ [cron EXCEPT !.todo = T, !.cur = C, !.at = l] \in CronStates
<1> DEFINE K == {"idle"} \cup Kinds
           S == [Subs -> [end : {0} \cup Ends, card : 0..MaxCards]]
           P == SUBSET Subs
           All == [kind : K, todo : P, cur : P, at : Steps, snap : S]
<1>1. cron \in All /\ T \in P /\ C \in P
  BY DEF TypeOK, CronStates
<1> HIDE DEF K, S, P
<1>2. /\ [cron EXCEPT !.at = l] \in All
      /\ [cron EXCEPT !.todo = T] \in All
      /\ [cron EXCEPT !.cur = C, !.at = l] \in All
      /\ [cron EXCEPT !.todo = T, !.cur = C, !.at = l] \in All
  BY <1>1
<1>3. QED
  BY <1>2 DEF CronStates, K, S, P

\* Writing auto-pay and the card of a row leaves it a row.
LEMMA SubAutoPay ==
    ASSUME TypeOK, NEW s \in Subs, NEW p \in BOOLEAN, NEW c \in 0..MaxCards
    PROVE  /\ [sub EXCEPT ![s].autoPay = p, ![s].card = c] \in [Subs -> SubRows]
           /\ [sub EXCEPT ![s].card = c, ![s].autoPay = p] \in [Subs -> SubRows]
<1> DEFINE C == 0..MaxCards
           A == {0} \cup Runs
           N == {0, 1, 3}
           Rows == [end : Ends, autoPay : BOOLEAN, card : C, noticed : N, attempt : A]
<1>1. c \in C /\ sub \in [Subs -> Rows]
  BY DEF TypeOK, SubRows
<1> HIDE DEF C, A, N
<1>2. /\ [sub EXCEPT ![s].autoPay = p, ![s].card = c] \in [Subs -> Rows]
      /\ [sub EXCEPT ![s].card = c, ![s].autoPay = p] \in [Subs -> Rows]
  BY <1>1
<1>3. QED
  BY <1>2 DEF SubRows, C, A, N

\* What the cron writes of a row leaves it a row.
LEMMA SubCron ==
    ASSUME TypeOK, NEW s \in Subs, NEW n \in {0, 1, 3}, NEW a \in {0} \cup Runs, NEW e \in Ends
    PROVE  /\ [sub EXCEPT ![s].attempt = a] \in [Subs -> SubRows]
           /\ [sub EXCEPT ![s].noticed = n] \in [Subs -> SubRows]
           /\ [sub EXCEPT ![s].end = e, ![s].attempt = a, ![s].noticed = n] \in [Subs -> SubRows]
<1> DEFINE C == 0..MaxCards
           A == {0} \cup Runs
           N == {0, 1, 3}
           Rows == [end : Ends, autoPay : BOOLEAN, card : C, noticed : N, attempt : A]
<1>1. n \in N /\ a \in A /\ sub \in [Subs -> Rows]
  BY DEF SubRows, TypeOK
<1> HIDE DEF C, A, N
<1>2. /\ [sub EXCEPT ![s].attempt = a] \in [Subs -> Rows]
      /\ [sub EXCEPT ![s].noticed = n] \in [Subs -> Rows]
      /\ [sub EXCEPT ![s].end = e, ![s].attempt = a, ![s].noticed = n] \in [Subs -> Rows]
  BY <1>1
<1>3. QED
  BY <1>2 DEF SubRows, C, A, N

\* Within a part of the run only the list, the row in hand and the step change.
LEMMA CronStep ==
    ASSUME TypeOK, NEW l \in Steps, Step(l)
    PROVE  /\ cron' \in CronStates
           /\ cron'.kind = cron.kind /\ cron'.todo = cron.todo /\ cron'.cur = cron.cur
           /\ cron'.at = l /\ cron'.snap = cron.snap
<1>1. cron' \in CronStates
  BY CronMoves DEF Step
<1>2. QED
  BY <1>1 DEF Step, TypeOK, CronStates

\* A row is taken from the list and is in hand.
LEMMA CronPickUp ==
    ASSUME TypeOK, NEW s \in Subs, NEW l \in Steps, PickUp(s, l)
    PROVE  /\ cron' \in CronStates
           /\ cron'.kind = cron.kind /\ cron'.todo = cron.todo \ {s} /\ cron'.cur = {s}
           /\ cron'.at = l /\ cron'.snap = cron.snap
<1>1. cron.todo \ {s} \in SUBSET Subs /\ {s} \in SUBSET Subs
  BY DEF TypeOK, CronStates
<1>2. cron' \in CronStates
  BY <1>1, CronMoves DEF PickUp
<1>3. QED
  BY <1>2 DEF PickUp, TypeOK, CronStates

\* The row in hand is laid down.
LEMMA CronLayDown ==
    ASSUME TypeOK, LayDown
    PROVE  /\ cron' \in CronStates
           /\ cron'.kind = cron.kind /\ cron'.todo = cron.todo /\ cron'.cur = {}
           /\ cron'.at = "pick" /\ cron'.snap = cron.snap
<1>1. "pick" \in Steps
  BY DEF Steps
<1>2. cron' \in CronStates
  BY <1>1, CronMoves DEF LayDown
<1>3. QED
  BY <1>2 DEF LayDown, TypeOK, CronStates

\* A row is struck off the list.
LEMMA CronSkip ==
    ASSUME TypeOK, NEW s, cron' = [cron EXCEPT !.todo = @ \ {s}]
    PROVE  /\ cron' \in CronStates
           /\ cron'.kind = cron.kind /\ cron'.todo = cron.todo \ {s} /\ cron'.cur = cron.cur
           /\ cron'.at = cron.at /\ cron'.snap = cron.snap
<1>1. cron.todo \ {s} \in SUBSET Subs /\ {} \in SUBSET Subs /\ "pick" \in Steps
  BY DEF TypeOK, CronStates, Steps
<1>2. cron' \in CronStates
  BY <1>1, CronMoves
<1>3. QED
  BY <1>2 DEF TypeOK, CronStates

-----------------------------------------------------------------------------
(* Type correctness *)

\* The initial states are typed.
LEMMA InitType == Init => TypeOK
<1> SUFFICES ASSUME Init PROVE TypeOK
  OBVIOUS
<1>1. sub \in [Subs -> SubRows]
  <2>1. sub \in [Subs -> [end : FirstEnds, autoPay : BOOLEAN, card : 0..1, noticed : {0},
                          attempt : {0}]]
    BY DEF Init
  <2>2. FirstEnds \subseteq Ends /\ 0..1 \subseteq 0..MaxCards
    BY RenewalAssumption DEF Ends
  <2>3. \A s \in Subs : sub[s] \in SubRows
    BY <2>1, <2>2 DEF SubRows
  <2>4. QED
    BY <2>1, <2>3
<1>2. cron \in CronStates
  BY NoCronType DEF Init
<1>3. 1 \div Day \in Nat
  BY DayGrows
<1>4. card \in [Subs \X (1..MaxCards) -> {"none", "verified", "deleted"}]
  BY DEF Init
<1>5. QED
  BY <1>1, <1>2, <1>3, <1>4, RenewalAssumption DEF Init, TypeOK, NotSetting, NotRemoving

\* A run in progress is the run of a tick.
LEMMA NowIsRun ==
    ASSUME TypeOK, RunIsNow
    PROVE  now \in Nat /\ now \div Day \in Nat /\ (~Idle => now \in Runs)
BY DayGrows, RenewalAssumption DEF TypeOK, RunIsNow

\* What the process does of itself keeps the types.
LEMMA RunType ==
    ASSUME TypeOK, RunIsNow, ListHolds, RunStep
    PROVE  TypeOK'
<1>1. now \in Nat /\ now \div Day \in Nat /\ (~Idle => now \in Runs)
  BY NowIsRun
<1>2. CASE StartRun
  <2>1. cron' \in CronStates
    BY <1>2, StartType DEF StartRun, DueForRenewal, Kinds
  <2>2. QED
    BY <1>1, <1>2, <2>1 DEF StartRun, TimerDue, TypeOK, users
<1>3. CASE NextPart
  <2>1. cron' \in CronStates
    BY <1>3, StartType, NoCronType DEF NextPart, DueForNotice, Kinds
  <2>2. QED
    BY <1>3, <2>1 DEF NextPart, TypeOK, users
<1>4. ASSUME NEW s \in Subs, PickRenewal(s) \/ CardVanished(s)
      PROVE  TypeOK'
  <2>1. cron' \in CronStates
    BY <1>4, CronPickUp, CronLayDown, CronSkip DEF PickRenewal, CardVanished, Steps
  <2>2. QED
    BY <1>4, <2>1 DEF PickRenewal, CardVanished, TypeOK, users
<1>5. ASSUME NEW s \in Subs, RecordRenewal(s) \/ ChargeRenewal(s) \/ RenewalPaid(s)
             \/ RenewalDeclined(s)
      PROVE  TypeOK'
  <2>1. cron' \in CronStates
    BY <1>5, CronStep DEF RecordRenewal, ChargeRenewal, RenewalPaid, RenewalDeclined, Steps
  <2>2. tx' \in [Subs \X Runs -> {"none", "PENDING", "SUCCESS", "FAILED"}]
    BY <1>5 DEF RecordRenewal, ChargeRenewal, RenewalPaid, RenewalDeclined, TypeOK
  <2>3. click' \in [Subs \X Runs -> {"none", "posted", "taken", "refused"}]
    BY <1>5 DEF RecordRenewal, ChargeRenewal, RenewalPaid, RenewalDeclined, TypeOK
  <2>4. QED
    BY <1>5, <2>1, <2>2, <2>3
       DEF RecordRenewal, ChargeRenewal, RenewalPaid, RenewalDeclined, TypeOK, users
<1>6. ASSUME NEW s \in Subs, Extend(s) \/ MarkAttempt(s)
      PROVE  TypeOK'
  <2>1. cron' \in CronStates
    BY <1>6, CronLayDown DEF Extend, MarkAttempt
  <2>2. now \in Runs /\ sub[s].end \in Ends
    BY <1>1, <1>6 DEF Extend, MarkAttempt, At, Idle, TypeOK, SubRows
  <2>3. Extend(s) => cron.snap[s].end + Duration \in Ends
    <3>1. Extend(s) => cron.snap[s].end = sub[s].end /\ sub[s].end <= now + Day
      BY DEF Extend, At, ListHolds
    <3>2. now \in 1..Horizon
      BY DEF TypeOK
    <3>3. QED
      BY <2>2, <3>1, <3>2, RenewalAssumption DEF Ends
  <2>4. sub' \in [Subs -> SubRows]
    <3>1. 0 \in {0, 1, 3} /\ now \in {0} \cup Runs
      BY <2>2
    <3>2. CASE Extend(s)
      BY <2>3, <3>1, <3>2, SubCron DEF Extend
    <3>3. CASE MarkAttempt(s)
      BY <2>2, <3>1, <3>3, SubCron DEF MarkAttempt
    <3>4. QED
      BY <1>6, <3>2, <3>3
  <2>5. QED
    BY <1>6, <2>1, <2>4 DEF Extend, MarkAttempt, TypeOK, users
<1>7. ASSUME NEW s \in Subs, NEW d \in {1, 3}, SendNotice(s, d) \/ NoteNotice(s, d)
      PROVE  TypeOK'
  <2>1. cron' \in CronStates
    BY <1>7, CronPickUp, CronLayDown DEF SendNotice, NoteNotice, Steps
  <2>2. now \in Runs /\ sub[s].end \in Ends
    BY <1>1, <1>7 DEF SendNotice, NoteNotice, CanPick, At, Idle, NoticeKind, TypeOK, SubRows
  <2>3. SendNotice(s, d) => cron.snap[s].end = sub[s].end
    BY DEF SendNotice, CanPick, ListHolds
  <2>4. sent' \subseteq Subs \X Ends \X {1, 3} \X Runs
    BY <1>7, <2>2, <2>3 DEF SendNotice, NoteNotice, TypeOK
  <2>5. sub' \in [Subs -> SubRows]
    <3>1. d \in {0, 1, 3} /\ now \in {0} \cup Runs
      BY <2>2
    <3>2. CASE SendNotice(s, d)
      BY <3>2 DEF SendNotice, TypeOK
    <3>3. CASE NoteNotice(s, d)
      BY <2>2, <3>1, <3>3, SubCron DEF NoteNotice
    <3>4. QED
      BY <1>7, <3>2, <3>3
  <2>6. QED
    BY <1>7, <2>1, <2>4, <2>5 DEF SendNotice, NoteNotice, TypeOK, users
<1>8. QED
  BY <1>2, <1>3, <1>4, <1>5, <1>6, <1>7 DEF RunStep

\* The requests of the users keep the types.
LEMMA UserType ==
    ASSUME TypeOK, UserStep
    PROVE  TypeOK'
<1>1. ASSUME NEW s \in Subs, NEW enabled \in BOOLEAN, NEW n \in 0..MaxCards,
             SetAutoPay(s, enabled, n)
      PROVE  TypeOK'
  <2>1. sub[s].card \in 0..MaxCards
    BY DEF TypeOK, SubRows
  <2>2. setting' \in [Subs -> [busy : BOOLEAN, autoPay : BOOLEAN, card : 0..MaxCards]]
    BY <1>1, <2>1 DEF SetAutoPay, TypeOK
  <2>3. QED
    BY <1>1, <2>2 DEF SetAutoPay, TypeOK
<1>2. ASSUME NEW s \in Subs, WriteAutoPay(s)
      PROVE  TypeOK'
  <2>1. setting[s].autoPay \in BOOLEAN /\ setting[s].card \in 0..MaxCards
    BY DEF TypeOK
  <2>2. sub' \in [Subs -> SubRows]
    BY <1>2, <2>1, SubAutoPay DEF WriteAutoPay
  <2>3. changed' \in [Subs -> 0..Horizon]
    BY <1>2 DEF WriteAutoPay, TypeOK
  <2>4. setting' \in [Subs -> [busy : BOOLEAN, autoPay : BOOLEAN, card : 0..MaxCards]]
    BY <1>2, RenewalAssumption DEF WriteAutoPay, NotSetting, TypeOK
  <2>5. QED
    BY <1>2, <2>2, <2>3, <2>4 DEF WriteAutoPay, TypeOK
<1>3. ASSUME NEW s \in Subs, NEW n \in 1..MaxCards, RemoveCard(s, n)
      PROVE  TypeOK'
  <2>1. removing' \in [Subs -> [at : {"no", "delete", "detach"}, card : 0..MaxCards]]
    BY <1>3 DEF RemoveCard, TypeOK
  <2>2. QED
    BY <1>3, <2>1 DEF RemoveCard, TypeOK
<1>4. ASSUME NEW s \in Subs, DeleteCard(s)
      PROVE  TypeOK'
  <2>1. removing' \in [Subs -> [at : {"no", "delete", "detach"}, card : 0..MaxCards]]
    BY <1>4 DEF DeleteCard, TypeOK
  <2>2. card' \in [Subs \X (1..MaxCards) -> {"none", "verified", "deleted"}]
    BY <1>4 DEF DeleteCard, TypeOK
  <2>3. QED
    BY <1>4, <2>1, <2>2 DEF DeleteCard, TypeOK
<1>5. ASSUME NEW s \in Subs, DetachCard(s)
      PROVE  TypeOK'
  <2>1. removing' \in [Subs -> [at : {"no", "delete", "detach"}, card : 0..MaxCards]]
    BY <1>5, RenewalAssumption DEF DetachCard, NotRemoving, TypeOK
  <2>2. 0 \in 0..MaxCards
    BY RenewalAssumption
  <2>3. sub' \in [Subs -> SubRows]
    <3>1. [sub EXCEPT ![s].card = 0, ![s].autoPay = FALSE] \in [Subs -> SubRows]
      BY <2>2, SubAutoPay
    <3>2. QED
      BY <1>5, <3>1 DEF DetachCard, TypeOK
  <2>4. changed' \in [Subs -> 0..Horizon]
    BY <1>5 DEF DetachCard, TypeOK
  <2>5. QED
    BY <1>5, <2>1, <2>3, <2>4 DEF DetachCard, TypeOK
<1>6. ASSUME NEW s \in Subs, NEW n \in 1..MaxCards, AddCard(s, n)
      PROVE  TypeOK'
  <2>1. card' \in [Subs \X (1..MaxCards) -> {"none", "verified", "deleted"}]
    BY <1>6 DEF AddCard, TypeOK
  <2>2. QED
    BY <1>6, <2>1 DEF AddCard, TypeOK
<1>7. QED
  BY <1>1, <1>2, <1>3, <1>4, <1>5, <1>6 DEF UserStep

\* What a run leaves undone is of its tick.
LEMMA UndoneType ==
    ASSUME TypeOK, RunIsNow
    PROVE  Undone \subseteq Subs \X Runs \X Kinds
<1>1. CASE Idle
  BY <1>1 DEF Undone, RunIsNow, NoCron, Idle
<1>2. CASE ~Idle
  BY <1>2, NowIsRun DEF Undone, TypeOK, CronStates, Kinds, Idle
<1>3. QED
  BY <1>1, <1>2

\* Click, faults and time keep the types.
LEMMA OutsideType ==
    ASSUME TypeOK, RunIsNow, Outside
    PROVE  TypeOK'
<1>1. now \in Nat /\ now \div Day \in Nat /\ (~Idle => now \in Runs)
  BY NowIsRun
<1>2. ASSUME NEW k \in Subs \X Runs, ClickTakes(k) \/ ClickRefuses(k)
      PROVE  TypeOK'
  BY <1>2 DEF ClickTakes, ClickRefuses, TypeOK, users
<1>3. ASSUME NEW s \in Subs, BodyThrows(s)
      PROVE  TypeOK'
  <2>1. ~Idle
    BY <1>3 DEF BodyThrows, RunIsNow, NoCron, CanPick
  <2>2. cron' \in CronStates
    BY <1>3, CronLayDown, CronSkip DEF BodyThrows
  <2>3. cron.kind \in Kinds
    BY <2>1 DEF Idle, TypeOK, CronStates
  <2>4. QED
    BY <1>1, <1>3, <2>1, <2>2, <2>3 DEF BodyThrows, TypeOK, users
<1>4. CASE QueryThrows
  <2>1. missed' \subseteq Subs \X Runs \X Kinds
    BY <1>4, UndoneType DEF QueryThrows, TimerDue, TypeOK
  <2>2. ran' \subseteq Runs /\ lastDay' \in 0..(now \div Day)
    BY <1>1, <1>4 DEF QueryThrows, TimerDue, TypeOK
  <2>3. QED
    BY <1>4, <2>1, <2>2, NoCronType DEF QueryThrows, TypeOK, users
<1>5. CASE Crash
  <2>1. missed' \subseteq Subs \X Runs \X Kinds
    BY <1>5, UndoneType DEF Crash, TypeOK
  <2>2. setting' \in [Subs -> [busy : BOOLEAN, autoPay : BOOLEAN, card : 0..MaxCards]]
    BY <1>5, RenewalAssumption DEF Crash, NotSetting
  <2>3. removing' \in [Subs -> [at : {"no", "delete", "detach"}, card : 0..MaxCards]]
    BY <1>5, RenewalAssumption DEF Crash, NotRemoving
  <2>4. QED
    BY <1>5, <2>1, <2>2, <2>3, NoCronType DEF Crash, TypeOK
<1>6. CASE MissRun
  BY <1>1, <1>6 DEF MissRun, TypeOK, users
<1>7. CASE Tick
  <2>1. now + 1 \in 1..Horizon
    BY <1>7, RenewalAssumption DEF Tick, TypeOK
  <2>2. lastDay \in 0..((now + 1) \div Day)
    BY <1>1, DayGrows DEF TypeOK
  <2>3. QED
    BY <1>7, <2>1, <2>2 DEF Tick, TypeOK, users
<1>8. QED
  BY <1>2, <1>3, <1>4, <1>5, <1>6, <1>7 DEF Outside

-----------------------------------------------------------------------------
(* What the kinds of steps change *)

\* A step inside a part of the run that writes no row.
InPart(s) ==
    \/ PickRenewal(s) \/ RecordRenewal(s) \/ ChargeRenewal(s) \/ RenewalPaid(s)
    \/ RenewalDeclined(s) \/ CardVanished(s) \/ BodyThrows(s)
    \/ \E d \in {1, 3} : SendNotice(s, d)

\* Inside a part the rows stay as they are and the list only gets shorter.
LEMMA InPartFrame ==
    ASSUME TypeOK, RunIsNow, NEW s \in Subs, InPart(s)
    PROVE  /\ UNCHANGED <<now, sub, lastDay, users, ran>>
           /\ ~Idle
           /\ cron'.kind = cron.kind /\ cron'.snap = cron.snap
           /\ cron'.todo \subseteq cron.todo
           /\ cron'.todo \cup cron'.cur \subseteq cron.todo \cup cron.cur
           /\ cron'.todo \cap cron'.cur = {}
<1>1. CASE PickRenewal(s) \/ (\E d \in {1, 3} : SendNotice(s, d))
  <2>1. CanPick(cron.kind, s) /\ ~Idle
    BY <1>1 DEF PickRenewal, SendNotice, CanPick, NoticeKind, Idle
  <2>2. (\E l \in Steps : PickUp(s, l)) \/ cron' = [cron EXCEPT !.todo = @ \ {s}]
    BY <1>1 DEF PickRenewal, SendNotice, Steps
  <2>3. UNCHANGED <<now, sub, lastDay, users, ran>>
    BY <1>1 DEF PickRenewal, SendNotice
  <2>4. QED
    BY <2>1, <2>2, <2>3, CronPickUp, CronSkip DEF CanPick, RunIsNow
<1>2. CASE RecordRenewal(s) \/ ChargeRenewal(s) \/ RenewalPaid(s) \/ RenewalDeclined(s)
           \/ CardVanished(s)
  <2>1. At("renew", cron.at, s) /\ ~Idle
    BY <1>2 DEF RecordRenewal, ChargeRenewal, RenewalPaid, RenewalDeclined, CardVanished, At, Idle
  <2>2. (\E l \in Steps : Step(l)) \/ LayDown
    BY <1>2 DEF RecordRenewal, ChargeRenewal, RenewalPaid, RenewalDeclined, CardVanished, Steps
  <2>3. UNCHANGED <<now, sub, lastDay, users, ran>>
    BY <1>2 DEF RecordRenewal, ChargeRenewal, RenewalPaid, RenewalDeclined, CardVanished
  <2>4. QED
    BY <2>1, <2>2, <2>3, CronStep, CronLayDown DEF At, RunIsNow
<1>3. CASE BodyThrows(s)
  <2>1. ~Idle
    BY <1>3 DEF BodyThrows, CanPick, RunIsNow, NoCron
  <2>2. cron' = [cron EXCEPT !.todo = @ \ {s}] \/ LayDown
    BY <1>3 DEF BodyThrows
  <2>3. UNCHANGED <<now, sub, lastDay, users, ran>>
    BY <1>3 DEF BodyThrows
  <2>4. QED
    BY <2>1, <2>2, <2>3, CronSkip, CronLayDown DEF RunIsNow
<1>4. QED
  BY <1>1, <1>2, <1>3 DEF InPart

\* A renewed or tried subscription: its row is written and laid down.
LEMMA ExtendFrame ==
    ASSUME TypeOK, NEW s \in Subs, Extend(s)
    PROVE  /\ UNCHANGED <<now, tx, click, lastDay, users, faults, ran, missed, sent>>
           /\ At("renew", "extend", s)
           /\ \A q \in Subs \ {s} : sub'[q] = sub[q]
           /\ sub'[s].end = cron.snap[s].end + Duration
           /\ sub'[s].attempt = now /\ sub'[s].noticed = 0
           /\ sub'[s].autoPay = sub[s].autoPay /\ sub'[s].card = sub[s].card
           /\ cron'.kind = "renew" /\ cron'.todo = cron.todo /\ cron'.cur = {}
           /\ cron'.snap = cron.snap /\ cron'.at = "pick"
<1>1. LayDown /\ At("renew", "extend", s)
  BY DEF Extend
<1>2. QED
  BY <1>1, CronLayDown DEF Extend, At, TypeOK, SubRows

\* A subscription whose charge failed: only the attempt is written.
LEMMA MarkAttemptFrame ==
    ASSUME TypeOK, NEW s \in Subs, MarkAttempt(s)
    PROVE  /\ UNCHANGED <<now, tx, click, lastDay, users, faults, ran, missed, sent>>
           /\ At("renew", "attempted", s)
           /\ \A q \in Subs \ {s} : sub'[q] = sub[q]
           /\ sub'[s].attempt = now
           /\ sub'[s].end = sub[s].end /\ sub'[s].noticed = sub[s].noticed
           /\ sub'[s].autoPay = sub[s].autoPay /\ sub'[s].card = sub[s].card
           /\ cron'.kind = "renew" /\ cron'.todo = cron.todo /\ cron'.cur = {}
           /\ cron'.snap = cron.snap /\ cron'.at = "pick"
<1>1. LayDown /\ At("renew", "attempted", s)
  BY DEF MarkAttempt
<1>2. QED
  BY <1>1, CronLayDown DEF MarkAttempt, At, TypeOK, SubRows

\* An announcement is noted on the row.
LEMMA NoteNoticeFrame ==
    ASSUME TypeOK, NEW s \in Subs, NEW d \in {1, 3}, NoteNotice(s, d)
    PROVE  /\ UNCHANGED <<now, tx, click, lastDay, users, faults, ran, missed, sent>>
           /\ At(NoticeKind(d), "sent", s)
           /\ \A q \in Subs \ {s} : sub'[q] = sub[q]
           /\ sub'[s].noticed = d
           /\ sub'[s].end = sub[s].end /\ sub'[s].attempt = sub[s].attempt
           /\ sub'[s].autoPay = sub[s].autoPay /\ sub'[s].card = sub[s].card
           /\ cron'.kind = cron.kind /\ cron'.todo = cron.todo /\ cron'.cur = {}
           /\ cron'.snap = cron.snap /\ cron'.at = "pick"
<1>1. LayDown /\ At(NoticeKind(d), "sent", s)
  BY DEF NoteNotice
<1>2. QED
  BY <1>1, CronLayDown DEF NoteNotice, TypeOK, SubRows

\* A request of a user moves no date of a row, and what it writes it dates.
LEMMA UserFrame ==
    ASSUME TypeOK, UserStep
    PROVE  /\ UNCHANGED <<now, tx, click, cron, lastDay, faults, ran, missed, sent>>
           /\ \A s \in Subs :
                 /\ sub'[s].end = sub[s].end /\ sub'[s].attempt = sub[s].attempt
                 /\ sub'[s].noticed = sub[s].noticed
                 /\ \/ sub'[s] = sub[s] /\ changed'[s] = changed[s]
                    \/ changed'[s] = now
<1>1. ASSUME NEW s \in Subs, NEW enabled \in BOOLEAN, NEW n \in 0..MaxCards,
             SetAutoPay(s, enabled, n)
      PROVE  UNCHANGED <<now, sub, tx, click, cron, lastDay, faults, changed, ran, missed, sent>>
  BY <1>1 DEF SetAutoPay
<1>2. ASSUME NEW s \in Subs, NEW n \in 1..MaxCards, RemoveCard(s, n) \/ AddCard(s, n)
      PROVE  UNCHANGED <<now, sub, tx, click, cron, lastDay, faults, changed, ran, missed, sent>>
  BY <1>2 DEF RemoveCard, AddCard
<1>3. ASSUME NEW s \in Subs, DeleteCard(s)
      PROVE  UNCHANGED <<now, sub, tx, click, cron, lastDay, faults, changed, ran, missed, sent>>
  BY <1>3 DEF DeleteCard
<1>4. ASSUME NEW q \in Subs, WriteAutoPay(q) \/ DetachCard(q), NEW s \in Subs
      PROVE  /\ UNCHANGED <<now, tx, click, cron, lastDay, faults, ran, missed, sent>>
             /\ sub'[s].end = sub[s].end /\ sub'[s].attempt = sub[s].attempt
             /\ sub'[s].noticed = sub[s].noticed
             /\ \/ sub'[s] = sub[s] /\ changed'[s] = changed[s]
                \/ changed'[s] = now
  BY <1>4 DEF WriteAutoPay, DetachCard, TypeOK, SubRows
<1>5. QED
  BY <1>1, <1>2, <1>3, <1>4 DEF UserStep

\* Every step is of one of these kinds.
LEMMA StepKinds ==
    ASSUME [Next]_vars
    PROVE  \/ StartRun \/ NextPart \/ QueryThrows \/ Crash \/ MissRun \/ Tick
           \/ UserStep
           \/ \E k \in Subs \X Runs : ClickTakes(k) \/ ClickRefuses(k)
           \/ \E s \in Subs : InPart(s) \/ Extend(s) \/ MarkAttempt(s)
                              \/ \E d \in {1, 3} : NoteNotice(s, d)
           \/ UNCHANGED vars
BY DEF Next, RunStep, Outside, InPart

-----------------------------------------------------------------------------
(* A tick has one run, and its list holds *)

\* A part that begins has a fresh list.
LEMMA StartEffect ==
    ASSUME TypeOK, NEW kind \in Kinds, NEW todo \in SUBSET Subs, Start(kind, todo)
    PROVE  /\ cron'.kind = kind /\ cron'.todo = todo /\ cron'.cur = {} /\ cron'.at = "pick"
           /\ \A s \in todo : /\ cron'.snap[s].end = sub[s].end
                              /\ cron'.snap[s].card = sub[s].card
BY DEF Start

\* Every step keeps a tick to one run, the one in progress.
LEMMA RunIsNowStep ==
    ASSUME TypeOK, RunIsNow, [Next]_vars
    PROVE  RunIsNow'
<1>1. CASE StartRun
  <2>1. cron'.kind = "renew" /\ cron'.cur = {}
    BY <1>1, StartEffect DEF StartRun, DueForRenewal, Kinds
  <2>2. QED
    BY <1>1, <2>1 DEF StartRun, RunIsNow, Idle, users, TypeOK
<1>2. CASE NextPart
  <2>1. ~Idle
    BY <1>2 DEF NextPart, Idle
  <2>2. cron'.cur = {} /\ (cron' = NoCron \/ cron'.kind \in Kinds)
    BY <1>2, StartEffect DEF NextPart, DueForNotice, Kinds, NoCron
  <2>3. QED
    BY <1>2, <2>1, <2>2 DEF NextPart, RunIsNow, Idle, Kinds, users
<1>3. CASE QueryThrows \/ Crash
  BY <1>3 DEF QueryThrows, Crash, RunIsNow, users, NoCron, Idle, TypeOK
<1>4. CASE MissRun
  BY <1>4 DEF MissRun, RunIsNow, users, Idle
<1>5. CASE Tick
  <2>1. /\ now' = now + 1 /\ cron = NoCron
        /\ UNCHANGED <<sub, cron, lastDay, ran>>
    BY <1>5 DEF Tick, RunIsNow
  <2>2. now \in Nat /\ \A t \in ran : t \in Nat /\ t <= now
    BY RenewalAssumption DEF TypeOK, RunIsNow, Runs
  <2>3. now + 1 \notin ran /\ \A t \in ran : t <= now + 1
    BY <2>2
  <2>4. Idle'
    BY <1>5 DEF Tick, Idle
  <2>5. QED
    BY <2>1, <2>3, <2>4 DEF RunIsNow
<1>6. CASE UserStep
  BY <1>6, UserFrame DEF RunIsNow, Idle
<1>7. ASSUME NEW k \in Subs \X Runs, ClickTakes(k) \/ ClickRefuses(k)
      PROVE  RunIsNow'
  BY <1>7 DEF ClickTakes, ClickRefuses, RunIsNow, users, Idle
<1>8. ASSUME NEW s \in Subs, InPart(s)
      PROVE  RunIsNow'
  BY <1>8, InPartFrame DEF RunIsNow, Idle
<1>9. ASSUME NEW s \in Subs, Extend(s) \/ MarkAttempt(s)
      PROVE  RunIsNow'
  BY <1>9, ExtendFrame, MarkAttemptFrame DEF RunIsNow, Idle, At
<1>10. ASSUME NEW s \in Subs, NEW d \in {1, 3}, NoteNotice(s, d)
       PROVE  RunIsNow'
  BY <1>10, NoteNoticeFrame DEF RunIsNow, Idle, At, NoticeKind
<1>11. CASE UNCHANGED vars
  BY <1>11 DEF vars, users, RunIsNow, Idle
<1>12. QED
  BY <1>1, <1>2, <1>3, <1>4, <1>5, <1>6, <1>7, <1>8, <1>9, <1>10, <1>11, StepKinds

\* Every step leaves the rows listed as the list says they are.
LEMMA ListHoldsStep ==
    ASSUME TypeOK, RunIsNow, ListHolds, [Next]_vars
    PROVE  ListHolds'
<1>0. now \in Nat /\ Day \in Nat /\ \A s \in Subs : sub[s] \in SubRows /\ sub[s].end \in Nat
  BY NowIsRun, RenewalAssumption DEF TypeOK, SubRows, Ends
<1>1. CASE StartRun
  <2>1. DueForRenewal \in SUBSET Subs /\ Start("renew", DueForRenewal) /\ UNCHANGED <<now, sub, changed>>
    BY <1>1 DEF StartRun, DueForRenewal, users
  <2>2. /\ cron'.kind = "renew" /\ cron'.todo = DueForRenewal /\ cron'.cur = {}
        /\ \A s \in DueForRenewal : /\ cron'.snap[s].end = sub[s].end
                                    /\ cron'.snap[s].card = sub[s].card
    BY <2>1, StartEffect DEF Kinds
  <2>3. \A s \in Subs : sub[s].attempt # now
    <3>1. now \notin ran /\ now # 0
      BY <1>1, DueIsNew, RenewalAssumption DEF StartRun, TypeOK
    <3>2. QED
      BY <3>1 DEF RunIsNow
  <2>4. QED
    BY <2>1, <2>2, <2>3 DEF ListHolds, DueForRenewal, NoticeKind
<1>2. CASE NextPart
  <2>1. CASE cron' = NoCron
    BY <2>1 DEF ListHolds, NoCron
  <2>2. ASSUME NEW d \in {1, 3}, Start(NoticeKind(d), DueForNotice(d))
        PROVE  ListHolds'
    <3>1. UNCHANGED <<now, sub, changed>>
      BY <1>2 DEF NextPart, users
    <3>2. /\ cron'.kind = NoticeKind(d) /\ cron'.todo = DueForNotice(d) /\ cron'.cur = {}
          /\ \A s \in DueForNotice(d) : cron'.snap[s].end = sub[s].end
      BY <2>2, StartEffect DEF Kinds, NoticeKind, DueForNotice
    <3>3. QED
      BY <3>1, <3>2 DEF ListHolds, DueForNotice, NoticeKind
  <2>3. QED
    BY <1>2, <2>1, <2>2 DEF NextPart, NoticeKind
<1>3. CASE QueryThrows \/ Crash
  BY <1>3 DEF QueryThrows, Crash, ListHolds, NoCron
<1>4. CASE MissRun
  BY <1>4 DEF MissRun, ListHolds, users
<1>5. CASE Tick
  BY <1>5 DEF Tick, RunIsNow, ListHolds, users, NoCron, Idle
<1>6. CASE UserStep
  <2>1. cron' = cron /\ now' = now /\ cron.todo \cup cron.cur \subseteq Subs
    BY <1>6, UserFrame DEF TypeOK, CronStates
  <2>2. ASSUME NEW s \in cron.todo \cup cron.cur
        PROVE  /\ sub'[s].end = sub[s].end /\ sub'[s].attempt = sub[s].attempt
               /\ sub'[s].noticed = sub[s].noticed
               /\ \/ sub'[s] = sub[s] /\ changed'[s] = changed[s]
                  \/ changed'[s] = now
    BY <1>6, <2>1, UserFrame
  <2>3. ASSUME NEW s \in cron.todo \cup cron.cur, cron.kind = "renew"
        PROVE  \/ changed'[s] = now
               \/ sub'[s].autoPay /\ cron.snap[s].card = sub'[s].card
    BY <2>2, <2>3 DEF ListHolds
  <2>4. QED
    BY <2>1, <2>2, <2>3 DEF ListHolds
<1>7. ASSUME NEW k \in Subs \X Runs, ClickTakes(k) \/ ClickRefuses(k)
      PROVE  ListHolds'
  BY <1>7 DEF ClickTakes, ClickRefuses, ListHolds, users
<1>8. ASSUME NEW s \in Subs, InPart(s)
      PROVE  ListHolds'
  BY <1>8, InPartFrame DEF ListHolds, users
<1>9. ASSUME NEW s \in Subs, Extend(s) \/ MarkAttempt(s) \/ \E d \in {1, 3} : NoteNotice(s, d)
      PROVE  ListHolds'
  <2>1. /\ UNCHANGED <<now, users>>
        /\ \A q \in Subs \ {s} : sub'[q] = sub[q]
        /\ cron.cur = {s} /\ cron'.cur = {} /\ cron'.todo = cron.todo
        /\ cron'.kind = cron.kind /\ cron'.snap = cron.snap
    BY <1>9, ExtendFrame, MarkAttemptFrame, NoteNoticeFrame DEF At
  <2>2. s \notin cron.todo /\ cron.todo \subseteq Subs
    BY <2>1 DEF RunIsNow, TypeOK, CronStates
  <2>3. QED
    BY <2>1, <2>2 DEF ListHolds, users
<1>10. CASE UNCHANGED vars
  BY <1>10 DEF vars, users, ListHolds
<1>11. QED
  BY <1>1, <1>2, <1>3, <1>4, <1>5, <1>6, <1>7, <1>8, <1>9, <1>10, StepKinds

-----------------------------------------------------------------------------
(* Money *)

\* What stands before an extension is paid: only RenewalPaid gets there, and
\* neither Click nor a user takes it back.
LEMMA PaidIsTakenStep ==
    ASSUME TypeOK, RunIsNow, PaidIsTaken, [Next]_vars
    PROVE  PaidIsTaken'
<1>1. CASE StartRun \/ NextPart \/ QueryThrows \/ Crash
  <2>1. cron'.at = "pick"
    BY <1>1, StartEffect DEF StartRun, NextPart, QueryThrows, Crash, NoCron, DueForRenewal,
                             DueForNotice, Kinds
  <2>2. QED
    BY <2>1 DEF PaidIsTaken, At
<1>2. CASE MissRun
  BY <1>2 DEF MissRun, PaidIsTaken, At
<1>3. CASE Tick
  BY <1>3 DEF Tick, PaidIsTaken, At, Idle
<1>4. CASE UserStep
  BY <1>4, UserFrame DEF PaidIsTaken, At
<1>5. ASSUME NEW k \in Subs \X Runs, ClickTakes(k) \/ ClickRefuses(k)
      PROVE  PaidIsTaken'
  <2>1. /\ UNCHANGED <<now, tx, cron>>
        /\ click[k] = "posted"
        /\ \A j \in Subs \X Runs : j # k => click'[j] = click[j]
    BY <1>5 DEF ClickTakes, ClickRefuses, TypeOK
  <2>2. ASSUME NEW s \in Subs, At("renew", "extend", s)
        PROVE  click'[<<s, now>>] = "taken" /\ tx[<<s, now>>] = "SUCCESS"
    <3>1. <<s, now>> \in Subs \X Runs
      BY <2>2, NowIsRun DEF At, Idle
    <3>2. click[<<s, now>>] = "taken" /\ tx[<<s, now>>] = "SUCCESS"
      BY <2>2 DEF PaidIsTaken
    <3>3. QED
      BY <2>1, <3>1, <3>2
  <2>3. QED
    BY <2>1, <2>2 DEF PaidIsTaken, At
<1>6. ASSUME NEW s \in Subs, RenewalPaid(s)
      PROVE  PaidIsTaken'
  <2>1. /\ cron'.cur = {s} /\ UNCHANGED <<now, click>>
        /\ click[<<s, now>>] = "taken"
    BY <1>6, CronStep DEF RenewalPaid, At, Steps
  <2>2. <<s, now>> \in Subs \X Runs
    BY <1>6, NowIsRun DEF RenewalPaid, At, Idle
  <2>3. tx'[<<s, now>>] = "SUCCESS"
    BY <1>6, <2>2 DEF RenewalPaid, TypeOK
  <2>4. QED
    BY <2>1, <2>3 DEF PaidIsTaken, At
<1>7. ASSUME NEW s \in Subs, InPart(s), ~RenewalPaid(s)
      PROVE  PaidIsTaken'
  <2>1. CASE cron'.at # "extend"
    BY <2>1 DEF PaidIsTaken, At
  <2>2. CASE PickRenewal(s) /\ cron' = [cron EXCEPT !.todo = @ \ {s}]
    BY <2>2, CronSkip DEF PickRenewal, CanPick, PaidIsTaken, At
  <2>3. CASE BodyThrows(s)
    BY <2>3, CronSkip, CronLayDown DEF BodyThrows, CanPick, PaidIsTaken, At
  <2>4. CASE RecordRenewal(s) \/ ChargeRenewal(s) \/ RenewalDeclined(s) \/ CardVanished(s)
             \/ (\E d \in {1, 3} : SendNotice(s, d)) \/ (PickRenewal(s) /\ PickUp(s, "record"))
    <3>1. cron'.at # "extend"
      BY <2>4, CronStep, CronLayDown, CronPickUp
         DEF RecordRenewal, ChargeRenewal, RenewalDeclined, CardVanished, SendNotice, Steps
    <3>2. QED
      BY <2>1, <3>1
  <2>5. QED
    BY <1>7, <2>2, <2>3, <2>4 DEF InPart, PickRenewal
<1>8. ASSUME NEW s \in Subs, Extend(s) \/ MarkAttempt(s) \/ \E d \in {1, 3} : NoteNotice(s, d)
      PROVE  PaidIsTaken'
  BY <1>8, ExtendFrame, MarkAttemptFrame, NoteNoticeFrame DEF PaidIsTaken, At
<1>9. CASE UNCHANGED vars
  BY <1>9 DEF vars, PaidIsTaken, At
<1>10. QED
  BY <1>1, <1>2, <1>3, <1>4, <1>5, <1>6, <1>7, <1>8, <1>9, StepKinds

-----------------------------------------------------------------------------
(* Cards *)

\* Steps of the run, of Click and of the clock touch neither a card nor what
\* the rows and the requests say of cards.
LEMMA CardFrame ==
    ASSUME TypeOK, RunIsNow, [Next]_vars, ~UserStep, ~Crash
    PROVE  /\ UNCHANGED <<card, setting, changed>>
           /\ \A s \in Subs : sub'[s].card = sub[s].card /\ sub'[s].autoPay = sub[s].autoPay
<1>1. CASE StartRun \/ NextPart \/ QueryThrows \/ MissRun \/ Tick \/ UNCHANGED vars
  BY <1>1 DEF StartRun, NextPart, QueryThrows, MissRun, Tick, vars, users
<1>2. ASSUME NEW k \in Subs \X Runs, ClickTakes(k) \/ ClickRefuses(k)
      PROVE  UNCHANGED <<sub, card, setting, changed>>
  BY <1>2 DEF ClickTakes, ClickRefuses, users
<1>3. ASSUME NEW s \in Subs, InPart(s)
      PROVE  UNCHANGED <<sub, card, setting, changed>>
  BY <1>3, InPartFrame DEF users
<1>4. ASSUME NEW s \in Subs, Extend(s) \/ MarkAttempt(s) \/ \E d \in {1, 3} : NoteNotice(s, d)
      PROVE  /\ UNCHANGED <<card, setting, changed>>
             /\ \A q \in Subs : sub'[q].card = sub[q].card /\ sub'[q].autoPay = sub[q].autoPay
  BY <1>4, ExtendFrame, MarkAttemptFrame, NoteNoticeFrame DEF users
<1>5. QED
  BY <1>1, <1>2, <1>3, <1>4, StepKinds

\* Auto-pay keeps its card, and cards once bound are never unbound again.
LEMMA CardsStep ==
    ASSUME TypeOK, RunIsNow, CardsKnown, AutoPayHasCard, [Next]_vars
    PROVE  CardsKnown' /\ AutoPayHasCard'
<1>1. CASE ~UserStep /\ ~Crash
  BY <1>1, CardFrame DEF CardsKnown, AutoPayHasCard
<1>2. CASE Crash
  BY <1>2 DEF Crash, NotSetting, CardsKnown, AutoPayHasCard
<1>3. ASSUME NEW s \in Subs, NEW enabled \in BOOLEAN, NEW n \in 0..MaxCards,
             SetAutoPay(s, enabled, n)
      PROVE  CardsKnown' /\ AutoPayHasCard'
  <2>1. /\ UNCHANGED <<sub, card>>
        /\ \A q \in Subs \ {s} : setting'[q] = setting[q]
    BY <1>3 DEF SetAutoPay, TypeOK
  <2>2. /\ setting'[s].autoPay = enabled
        /\ enabled => setting'[s].card # 0 /\ card[<<s, setting'[s].card>>] = "verified"
        /\ ~enabled => setting'[s].card = sub[s].card
    BY <1>3 DEF SetAutoPay, Verified, TypeOK
  <2>3. QED
    BY <2>1, <2>2 DEF CardsKnown, AutoPayHasCard
<1>4. ASSUME NEW s \in Subs, WriteAutoPay(s)
      PROVE  CardsKnown' /\ AutoPayHasCard'
  <2>1. /\ card' = card
        /\ \A q \in Subs \ {s} : sub'[q] = sub[q] /\ setting'[q] = setting[q]
        /\ sub'[s].autoPay = setting[s].autoPay /\ sub'[s].card = setting[s].card
        /\ setting'[s] = NotSetting
    BY <1>4 DEF WriteAutoPay, TypeOK, SubRows
  <2>2. QED
    <3>1. ASSUME NEW q \in Subs
          PROVE  /\ sub'[q].card # 0 => card[<<q, sub'[q].card>>] # "none"
                 /\ setting'[q].card # 0 => card[<<q, setting'[q].card>>] # "none"
                 /\ setting'[q].autoPay => setting'[q].card # 0
                 /\ sub'[q].autoPay => sub'[q].card # 0
      <4>1. CASE q = s
        <5>1. ~setting'[s].autoPay /\ setting'[s].card = 0
          BY <2>1 DEF NotSetting
        <5>2. sub'[s].autoPay => setting[s].card # 0
          BY <2>1 DEF CardsKnown
        <5>3. QED
          BY <2>1, <4>1, <5>1, <5>2 DEF CardsKnown
      <4>2. CASE q # s
        BY <2>1, <4>2 DEF CardsKnown, AutoPayHasCard
      <4>3. QED
        BY <4>1, <4>2
    <3>2. QED
      BY <2>1, <3>1 DEF CardsKnown, AutoPayHasCard
<1>5. ASSUME NEW s \in Subs, NEW n \in 1..MaxCards, RemoveCard(s, n)
      PROVE  CardsKnown' /\ AutoPayHasCard'
  BY <1>5 DEF RemoveCard, CardsKnown, AutoPayHasCard
<1>6. ASSUME NEW s \in Subs, DetachCard(s)
      PROVE  CardsKnown' /\ AutoPayHasCard'
  <2>1. /\ UNCHANGED <<card, setting>>
        /\ \A q \in Subs \ {s} : sub'[q] = sub[q]
        /\ sub'[s] = sub[s] \/ (sub'[s].card = 0 /\ ~sub'[s].autoPay)
    BY <1>6 DEF DetachCard, TypeOK, SubRows
  <2>2. QED
    BY <2>1 DEF CardsKnown, AutoPayHasCard
<1>7. ASSUME NEW s \in Subs, DeleteCard(s) \/ \E n \in 1..MaxCards : AddCard(s, n)
      PROVE  CardsKnown' /\ AutoPayHasCard'
  <2>1. /\ UNCHANGED <<sub, setting>>
        /\ \A j \in Subs \X (1..MaxCards) : card'[j] = card[j] \/ card'[j] # "none"
    BY <1>7 DEF DeleteCard, AddCard, TypeOK
  <2>2. ASSUME NEW q \in Subs
        PROVE  /\ sub[q].card # 0 => <<q, sub[q].card>> \in Subs \X (1..MaxCards)
               /\ setting[q].card # 0 => <<q, setting[q].card>> \in Subs \X (1..MaxCards)
    BY RenewalAssumption DEF TypeOK, SubRows
  <2>3. QED
    BY <2>1, <2>2 DEF CardsKnown, AutoPayHasCard
<1>8. QED
  BY <1>1, <1>2, <1>3, <1>4, <1>5, <1>6, <1>7 DEF UserStep

\* A card in use was usable before the step already: no request of a user
\* makes the card of a row usable.
LEMMA VerifiedBefore ==
    ASSUME TypeOK, CardsKnown, UserStep, NEW s \in Subs, sub[s].card # 0,
           card'[<<s, sub[s].card>>] = "verified"
    PROVE  card[<<s, sub[s].card>>] = "verified"
<1>1. <<s, sub[s].card>> \in Subs \X (1..MaxCards)
  BY RenewalAssumption DEF TypeOK, SubRows
<1>2. card[<<s, sub[s].card>>] # "none"
  BY DEF CardsKnown
<1>3. \/ card' = card
      \/ \E q \in Subs : card' = [card EXCEPT ![<<q, removing[q].card>>] = "deleted"]
      \/ \E q \in Subs, n \in 1..MaxCards :
            card[<<q, n>>] = "none" /\ card' = [card EXCEPT ![<<q, n>>] = "verified"]
  BY DEF UserStep, SetAutoPay, WriteAutoPay, RemoveCard, AddCard, DeleteCard, DetachCard
<1>4. QED
  BY <1>1, <1>2, <1>3 DEF TypeOK

-----------------------------------------------------------------------------
(* Nobody due is passed over *)

\* Inside a part the list loses only the row in hand, and what it loses it has
\* announced, lost to a fault, or is about to charge.
LEMMA ListLoses ==
    ASSUME TypeOK, RunIsNow, ListHolds, NEW q \in Subs, InPart(q)
    PROVE  /\ missed \subseteq missed' /\ sent \subseteq sent'
           /\ cron.todo \ {q} \subseteq cron'.todo
           /\ (cron.todo \cup cron.cur) \ {q} \subseteq cron'.todo \cup cron'.cur
           /\ \/ q \in cron'.todo \cup cron'.cur
              \/ <<q, now, cron.kind>> \in missed'
              \/ q \in cron.todo \cup cron.cur /\ cron.kind = "renew"
                    /\ ~Verified(q, cron.snap[q].card)
              \/ q \notin cron.todo \cup cron.cur
           /\ \/ q \in cron'.todo \/ cron.kind = "renew" \/ q \notin cron.todo
              \/ <<q, now, cron.kind>> \in missed'
              \/ \E d \in {1, 3} : /\ cron.kind = NoticeKind(d)
                                   /\ <<q, sub[q].end, d, now>> \in sent'
<1>1. CASE PickRenewal(q)
  <2>1. CanPick("renew", q) /\ UNCHANGED <<missed, sent>>
    BY <1>1 DEF PickRenewal
  <2>2. CASE PickUp(q, "record")
    BY <2>1, <2>2, CronPickUp DEF CanPick, Steps
  <2>3. CASE ~Verified(q, cron.snap[q].card) /\ cron' = [cron EXCEPT !.todo = @ \ {q}]
    BY <2>1, <2>3, CronSkip DEF CanPick
  <2>4. QED
    BY <1>1, <2>2, <2>3 DEF PickRenewal
<1>2. CASE RecordRenewal(q) \/ ChargeRenewal(q) \/ RenewalPaid(q) \/ RenewalDeclined(q)
  <2>1. UNCHANGED <<missed, sent>> /\ \E l \in Steps : Step(l)
    BY <1>2 DEF RecordRenewal, ChargeRenewal, RenewalPaid, RenewalDeclined, Steps
  <2>2. QED
    BY <2>1, CronStep
<1>3. CASE CardVanished(q)
  BY <1>3, CronLayDown DEF CardVanished, At, Verified
<1>4. ASSUME NEW d \in {1, 3}, SendNotice(q, d)
      PROVE  /\ missed' = missed /\ sent \subseteq sent'
             /\ cron'.todo = cron.todo \ {q} /\ cron'.cur = {q} /\ cron.cur = {}
             /\ cron.kind = NoticeKind(d) /\ <<q, sub[q].end, d, now>> \in sent'
  BY <1>4, CronPickUp DEF SendNotice, CanPick, ListHolds, Steps
<1>5. CASE BodyThrows(q)
  <2>1. missed' = missed \cup {<<q, now, cron.kind>>} /\ sent' = sent
    BY <1>5 DEF BodyThrows
  <2>2. CASE CanPick(cron.kind, q) /\ cron' = [cron EXCEPT !.todo = @ \ {q}]
    BY <2>1, <2>2, CronSkip
  <2>3. CASE cron.cur = {q} /\ LayDown
    BY <2>1, <2>3, CronLayDown
  <2>4. QED
    BY <1>5, <2>2, <2>3 DEF BodyThrows
<1>6. QED
  BY <1>1, <1>2, <1>3, <1>4, <1>5 DEF InPart

\* Every step leaves the renewals of every run attempted, listed, or lost to
\* something the property names.
LEMMA AttemptedStep ==
    ASSUME TypeOK, RunIsNow, ListHolds, CardsKnown, AttemptedOrListed, [Next]_vars
    PROVE  AttemptedOrListed'
<1> DEFINE Due(s, t) == /\ changed[s] < t /\ <<s, t, "renew">> \notin missed
                        /\ sub[s].autoPay /\ Verified(s, sub[s].card)
                        /\ t <= sub[s].end /\ sub[s].end <= t + Day
           Listed(s, t) == t = now /\ cron.kind = "renew" /\ s \in cron.todo \cup cron.cur
<1>0. /\ \A t \in ran : t \in Nat /\ t <= now
      /\ now \in Nat
  BY NowIsRun, RenewalAssumption DEF TypeOK, RunIsNow, Runs
<1>a. \A s \in Subs, t \in ran : Due(s, t) => sub[s].attempt >= t \/ Listed(s, t)
  BY DEF AttemptedOrListed
<1> SUFFICES ASSUME NEW s \in Subs, NEW t \in ran', Due(s, t)'
             PROVE  sub'[s].attempt >= t \/ Listed(s, t)'
  BY DEF AttemptedOrListed
<1>1. CASE StartRun
  <2>1. /\ ran' = ran \cup {now} /\ UNCHANGED <<now, sub, card, changed, missed>>
        /\ Start("renew", DueForRenewal)
    BY <1>1 DEF StartRun, users
  <2>2. now \notin ran /\ ~(cron.kind = "renew")
    BY <1>1, DueIsNew DEF StartRun, Idle
  <2>3. cron'.kind = "renew" /\ cron'.todo = DueForRenewal
    BY <2>1, StartEffect DEF Kinds, DueForRenewal
  <2>4. CASE t = now
    BY <2>1, <2>3, <2>4 DEF DueForRenewal, Verified
  <2>5. CASE t # now
    BY <1>a, <2>1, <2>2, <2>5 DEF Verified
  <2>6. QED
    BY <2>4, <2>5
<1>2. CASE NextPart
  BY <1>2, <1>a DEF NextPart, users, Verified
<1>3. CASE QueryThrows
  <2>1. /\ UNCHANGED <<now, sub, card, changed>> /\ missed \subseteq missed'
        /\ ~(cron.kind = "renew" /\ s \in cron.todo \cup cron.cur)
    BY <1>3 DEF QueryThrows, users, Idle
  <2>2. t \in ran \/ <<s, t, "renew">> \in missed'
    BY <1>3 DEF QueryThrows, Kinds
  <2>3. QED
    BY <1>a, <2>1, <2>2 DEF Verified
<1>4. CASE Crash
  <2>1. UNCHANGED <<now, sub, card, changed, ran>> /\ missed' = missed \cup Undone
    BY <1>4 DEF Crash
  <2>2. Listed(s, t) => <<s, t, "renew">> \in Undone
    BY DEF Undone
  <2>3. QED
    BY <1>a, <2>1, <2>2 DEF Verified
<1>5. CASE MissRun
  BY <1>5, <1>a DEF MissRun, users, Verified
<1>6. CASE Tick
  BY <1>6, <1>a DEF Tick, users, Verified, Idle
<1>7. CASE UserStep
  <2>1. /\ UNCHANGED <<now, cron, ran, missed>>
        /\ \/ sub'[s] = sub[s] /\ changed'[s] = changed[s]
           \/ changed'[s] = now
    BY <1>7, UserFrame
  <2>2. sub'[s] = sub[s] /\ changed'[s] = changed[s]
    BY <1>0, <2>1
  <2>3. Verified(s, sub[s].card)
    BY <1>7, <2>2, VerifiedBefore DEF Verified
  <2>4. Due(s, t)
    BY <2>1, <2>2, <2>3
  <2>5. QED
    BY <1>a, <2>1, <2>2, <2>4
<1>8. ASSUME NEW k \in Subs \X Runs, ClickTakes(k) \/ ClickRefuses(k)
      PROVE  sub'[s].attempt >= t \/ Listed(s, t)'
  BY <1>8, <1>a DEF ClickTakes, ClickRefuses, users, Verified
<1>9. ASSUME NEW q \in Subs, InPart(q)
      PROVE  sub'[s].attempt >= t \/ Listed(s, t)'
  <2>1. /\ UNCHANGED <<now, sub, card, changed, ran>> /\ cron'.kind = cron.kind
        /\ missed \subseteq missed'
        /\ (cron.todo \cup cron.cur) \ {q} \subseteq cron'.todo \cup cron'.cur
    BY <1>9, InPartFrame, ListLoses DEF users
  <2>2. Due(s, t)
    BY <2>1 DEF Verified
  <2>3. CASE sub[s].attempt >= t \/ s # q
    BY <1>a, <2>1, <2>2, <2>3
  <2>4. CASE Listed(s, t) /\ s = q
    <3>1. cron.snap[s].card = sub[s].card
      BY <1>0, <2>2, <2>4 DEF ListHolds
    <3>2. q \in cron'.todo \cup cron'.cur
      BY <1>9, <2>1, <2>4, <3>1, ListLoses DEF Verified
    <3>3. QED
      BY <2>1, <2>4, <3>2
  <2>5. QED
    BY <1>a, <2>1, <2>2, <2>3, <2>4
<1>10. ASSUME NEW q \in Subs, Extend(q) \/ MarkAttempt(q)
       PROVE  sub'[s].attempt >= t \/ Listed(s, t)'
  <2>1. /\ UNCHANGED <<now, card, changed, ran, missed>> /\ cron'.kind = cron.kind
        /\ cron'.todo = cron.todo /\ cron.cur = {q}
        /\ sub'[q].attempt = now /\ \A r \in Subs \ {q} : sub'[r] = sub[r]
    BY <1>10, ExtendFrame, MarkAttemptFrame DEF users, At
  <2>2. CASE s = q
    BY <1>0, <2>1, <2>2
  <2>3. CASE s # q
    <3>1. Due(s, t)
      BY <2>1, <2>3 DEF Verified
    <3>2. QED
      BY <1>a, <2>1, <2>3, <3>1
  <2>4. QED
    BY <2>2, <2>3
<1>11. ASSUME NEW q \in Subs, NEW d \in {1, 3}, NoteNotice(q, d)
       PROVE  sub'[s].attempt >= t \/ Listed(s, t)'
  <2>1. /\ UNCHANGED <<now, card, changed, ran, missed>>
        /\ sub'[s].attempt = sub[s].attempt /\ sub'[s].end = sub[s].end
        /\ sub'[s].autoPay = sub[s].autoPay /\ sub'[s].card = sub[s].card
        /\ cron.kind # "renew"
    BY <1>11, NoteNoticeFrame DEF users, At, NoticeKind
  <2>2. Due(s, t)
    BY <2>1 DEF Verified
  <2>3. QED
    BY <1>a, <2>1, <2>2
<1>12. CASE UNCHANGED vars
  BY <1>12, <1>a DEF vars, users, Verified
<1>13. QED
  BY <1>1, <1>2, <1>3, <1>4, <1>5, <1>6, <1>7, <1>8, <1>9, <1>10, <1>11, <1>12, StepKinds

\* A row that the query for a notice passes over was announced already.
LEMMA PassedOverWasSent ==
    ASSUME TypeOK, RunIsNow, NotedOrMissed, NEW s \in Subs, NEW d \in {1, 3},
           ~sub[s].autoPay,
           now + d * Day <= sub[s].end, sub[s].end < now + (d + 1) * Day,
           s \notin DueForNotice(d)
    PROVE  \E r \in ran : r <= now /\ <<s, sub[s].end, d, r>> \in sent
<1>1. sub[s].noticed \in {0, 1, 3} /\ sub[s].noticed # 0 /\ ~(sub[s].noticed > d)
  BY DEF DueForNotice, TypeOK, SubRows
<1>2. /\ now \in Nat /\ Day \in Nat /\ sub[s].end \in Nat
      /\ \A r \in ran : r \in Nat /\ r <= now
  BY NowIsRun, RenewalAssumption DEF TypeOK, SubRows, Ends, RunIsNow, Runs
<1>3. PICK r \in ran : /\ <<s, sub[s].end, sub[s].noticed, r>> \in sent
                       /\ sub[s].end < r + (sub[s].noticed + 1) * Day
  BY <1>1 DEF NotedOrMissed
<1>4. sub[s].noticed = d
  <2>1. CASE d = 1
    BY <1>1, <2>1
  <2>2. CASE d = 3 /\ sub[s].noticed = 1
    <3>1. sub[s].end < r + 2 * Day /\ now + 3 * Day <= sub[s].end /\ r <= now
      BY <1>2, <1>3, <2>2
    <3>2. QED
      BY <1>2, <3>1
  <2>3. QED
    BY <1>1, <2>1, <2>2
<1>5. QED
  BY <1>2, <1>3, <1>4

\* Every step leaves the announcements of every run made, ahead of it, or lost
\* to something the property names.
LEMMA AnnouncedStep ==
    ASSUME TypeOK, RunIsNow, ListHolds, NotedOrMissed, AnnouncedOrListed, [Next]_vars
    PROVE  AnnouncedOrListed'
<1> DEFINE Due(s, t, d) == /\ changed[s] < t /\ <<s, t, NoticeKind(d)>> \notin missed
                           /\ ~sub[s].autoPay
                           /\ t + d * Day <= sub[s].end /\ sub[s].end < t + (d + 1) * Day
           Sent(s, t, d) == \E r \in ran : r <= t /\ <<s, sub[s].end, d, r>> \in sent
           Coming(s, t, d) == t = now /\ Ahead(s, d)
<1>0. /\ \A t \in ran : t \in Nat /\ t <= now
      /\ now \in Nat
  BY NowIsRun, RenewalAssumption DEF TypeOK, RunIsNow, Runs
<1>a. \A s \in Subs, t \in ran, d \in {1, 3} : Due(s, t, d) => Sent(s, t, d) \/ Coming(s, t, d)
  BY DEF AnnouncedOrListed
<1> SUFFICES ASSUME NEW s \in Subs, NEW t \in ran', NEW d \in {1, 3}, Due(s, t, d)'
             PROVE  Sent(s, t, d)' \/ Coming(s, t, d)'
  BY DEF AnnouncedOrListed
<1>b. /\ NoticeKind(d) \in {"notice3", "notice1"} /\ NoticeKind(d)' = NoticeKind(d)
      /\ Idle => ~Ahead(s, d)
  BY DEF NoticeKind, Ahead, Idle
\* While rows, sent and ran stand, only what is ahead has to be looked at.
<1>c. ASSUME UNCHANGED <<now, sub, changed, ran>>, missed \subseteq missed', sent \subseteq sent',
             Coming(s, t, d) /\ Due(s, t, d) => Sent(s, t, d)' \/ Coming(s, t, d)'
      PROVE  Sent(s, t, d)' \/ Coming(s, t, d)'
  <2>1. Due(s, t, d)
    BY <1>b, <1>c
  <2>2. CASE Sent(s, t, d)
    BY <1>c, <2>2
  <2>3. QED
    BY <1>a, <1>c, <2>1, <2>2
<1>1. CASE StartRun
  <2>1. /\ ran' = ran \cup {now} /\ UNCHANGED <<now, sub, changed, missed, sent>>
        /\ Start("renew", DueForRenewal)
    BY <1>1 DEF StartRun, users
  <2>2. ~Ahead(s, d)
    BY <1>1, <1>b DEF StartRun
  <2>3. cron'.kind = "renew"
    BY <2>1, StartEffect DEF Kinds, DueForRenewal
  <2>4. CASE t = now
    BY <2>1, <2>3, <2>4 DEF Ahead
  <2>5. CASE t # now
    <3>1. t \in ran /\ Due(s, t, d)
      BY <1>b, <2>1, <2>5
    <3>2. Sent(s, t, d)
      BY <1>a, <2>2, <3>1
    <3>3. QED
      BY <2>1, <3>2
  <2>6. QED
    BY <2>4, <2>5
<1>2. CASE NextPart
  <2>1. UNCHANGED <<now, sub, changed, ran, missed, sent>> /\ cron.todo = {}
    BY <1>2 DEF NextPart, users
  <2>2. ASSUME Coming(s, t, d), Due(s, t, d)
        PROVE  Sent(s, t, d)' \/ Coming(s, t, d)'
    <3>1. CASE s \notin DueForNotice(d)
      BY <2>1, <2>2, <3>1, PassedOverWasSent
    <3>2. CASE s \in DueForNotice(d) /\ cron.kind = "renew"
      <4>1. cron'.kind = "notice3" /\ cron'.todo = DueForNotice(3)
        BY <1>2, <3>2, StartEffect DEF NextPart, Kinds, DueForNotice
      <4>2. QED
        BY <2>1, <2>2, <3>2, <4>1 DEF Ahead, NoticeKind
    <3>3. CASE s \in DueForNotice(d) /\ cron.kind # "renew"
      <4>1. cron.kind = "notice3" /\ d = 1
        BY <2>1, <2>2, <3>3 DEF Ahead
      <4>2. cron'.kind = "notice1" /\ cron'.todo = DueForNotice(1)
        BY <1>2, <4>1, StartEffect DEF NextPart, Kinds, DueForNotice
      <4>3. QED
        BY <2>1, <2>2, <3>3, <4>1, <4>2 DEF Ahead, NoticeKind
    <3>4. QED
      BY <3>1, <3>2, <3>3
  <2>3. QED
    BY <1>c, <2>1, <2>2
<1>3. CASE QueryThrows
  <2>1. UNCHANGED <<now, sub, changed, sent>> /\ missed \subseteq missed'
    BY <1>3 DEF QueryThrows, users
  <2>2. CASE TimerDue /\ Idle /\ ran' = ran \cup {now}
                 /\ missed' = missed \cup (Subs \X {now} \X Kinds)
    <3>1. t # now
      BY <1>b, <2>2 DEF Kinds
    <3>2. t \in ran /\ Due(s, t, d) /\ ~Ahead(s, d)
      BY <1>b, <2>1, <2>2, <3>1
    <3>3. QED
      BY <1>a, <2>1, <2>2, <3>2
  <2>3. CASE cron.kind \in {"renew", "notice3"} /\ cron.todo = {} /\ cron.cur = {}
                 /\ missed' = missed \cup Undone /\ ran' = ran
    <3>1. Coming(s, t, d) => <<s, t, NoticeKind(d)>> \in Undone
      BY <2>3 DEF Ahead, NoticeKind, Undone
    <3>2. QED
      BY <1>b, <1>c, <2>1, <2>3, <3>1
  <2>4. QED
    BY <1>3, <2>2, <2>3 DEF QueryThrows
<1>4. CASE Crash
  <2>1. UNCHANGED <<now, sub, changed, ran, sent>> /\ missed' = missed \cup Undone
    BY <1>4 DEF Crash
  <2>2. Coming(s, t, d) => <<s, t, NoticeKind(d)>> \in Undone
    BY DEF Ahead, NoticeKind, Undone
  <2>3. QED
    BY <1>b, <1>c, <2>1, <2>2
<1>5. CASE MissRun
  BY <1>5, <1>b, <1>c DEF MissRun, users
<1>6. CASE Tick
  <2>1. UNCHANGED <<sub, changed, ran, missed, sent>> /\ Idle
    BY <1>6 DEF Tick, users
  <2>2. t \in ran /\ Due(s, t, d)
    BY <1>b, <2>1
  <2>3. QED
    BY <1>a, <1>b, <2>1, <2>2
<1>7. CASE UserStep
  <2>1. /\ UNCHANGED <<now, cron, ran, missed, sent>>
        /\ \/ sub'[s] = sub[s] /\ changed'[s] = changed[s]
           \/ changed'[s] = now
    BY <1>7, UserFrame
  <2>2. sub'[s] = sub[s] /\ changed'[s] = changed[s]
    BY <1>0, <2>1
  <2>3. Due(s, t, d)
    BY <1>b, <2>1, <2>2
  <2>4. QED
    BY <1>a, <2>1, <2>2, <2>3 DEF Ahead, NoticeKind
<1>8. ASSUME NEW k \in Subs \X Runs, ClickTakes(k) \/ ClickRefuses(k)
      PROVE  Sent(s, t, d)' \/ Coming(s, t, d)'
  BY <1>8, <1>b, <1>c DEF ClickTakes, ClickRefuses, users, Ahead
<1>9. ASSUME NEW q \in Subs, InPart(q)
      PROVE  Sent(s, t, d)' \/ Coming(s, t, d)'
  <2>1. /\ UNCHANGED <<now, sub, changed, ran>> /\ cron'.kind = cron.kind
        /\ missed \subseteq missed' /\ sent \subseteq sent'
        /\ cron.todo \ {q} \subseteq cron'.todo
    BY <1>9, InPartFrame, ListLoses DEF users
  <2>2. ASSUME Coming(s, t, d), Due(s, t, d)
        PROVE  Sent(s, t, d)' \/ Coming(s, t, d)'
    <3>1. CASE s # q \/ cron.kind # NoticeKind(d)
      BY <1>b, <2>1, <2>2, <3>1 DEF Ahead
    <3>2. CASE s = q /\ cron.kind = NoticeKind(d)
      <4>1. s \in cron.todo
        BY <2>2, <3>2 DEF Ahead, NoticeKind
      <4>2. \/ s \in cron'.todo
            \/ <<s, now, cron.kind>> \in missed'
            \/ \E e \in {1, 3} : /\ cron.kind = NoticeKind(e)
                                 /\ <<s, sub[s].end, e, now>> \in sent'
        BY <1>9, <3>2, <4>1, ListLoses DEF NoticeKind
      <4>3. CASE s \in cron'.todo
        BY <1>b, <2>1, <2>2, <3>2, <4>3 DEF Ahead
      <4>4. CASE <<s, now, cron.kind>> \in missed'
        BY <1>b, <2>2, <3>2, <4>4
      <4>5. ASSUME NEW e \in {1, 3}, cron.kind = NoticeKind(e),
                   <<s, sub[s].end, e, now>> \in sent'
            PROVE  Sent(s, t, d)'
        <5>1. e = d
          BY <3>2, <4>5 DEF NoticeKind
        <5>2. QED
          BY <1>0, <2>1, <2>2, <4>5, <5>1
      <4>6. QED
        BY <4>2, <4>3, <4>4, <4>5
    <3>3. QED
      BY <3>1, <3>2
  <2>3. QED
    BY <1>c, <2>1, <2>2
<1>10. ASSUME NEW q \in Subs, Extend(q) \/ MarkAttempt(q) \/ \E e \in {1, 3} : NoteNotice(q, e)
       PROVE  Sent(s, t, d)' \/ Coming(s, t, d)'
  <2>1. /\ UNCHANGED <<now, changed, ran, missed, sent>> /\ cron'.kind = cron.kind
        /\ cron'.todo = cron.todo
        /\ sub'[s].autoPay = sub[s].autoPay
        /\ sub'[s].end = sub[s].end \/ (s = q /\ Extend(q))
    BY <1>10, ExtendFrame, MarkAttemptFrame, NoteNoticeFrame DEF users, At
  <2>2. CASE sub'[s].end = sub[s].end
    <3>1. Due(s, t, d)
      BY <1>b, <2>1, <2>2
    <3>2. CASE Coming(s, t, d)
      BY <1>b, <2>1, <3>2 DEF Ahead
    <3>3. QED
      BY <1>a, <2>1, <2>2, <3>1, <3>2
  <2>3. CASE s = q /\ Extend(q)
    <3>1. changed[s] = now \/ sub[s].autoPay
      BY <2>3, ExtendFrame DEF At, ListHolds
    <3>2. QED
      BY <1>0, <2>1, <3>1
  <2>4. QED
    BY <2>1, <2>2, <2>3
<1>11. CASE UNCHANGED vars
  BY <1>11, <1>b, <1>c DEF vars, users, Ahead
<1>12. QED
  BY <1>1, <1>2, <1>3, <1>4, <1>5, <1>6, <1>7, <1>8, <1>9, <1>10, <1>11, StepKinds

-----------------------------------------------------------------------------
(* Nobody is told twice *)

\* The names of the parts of a run tell the thresholds apart.
LEMMA NoticeKinds ==
    ASSUME NEW d \in {1, 3}, NEW e \in {1, 3}
    PROVE  /\ NoticeKind(d) = NoticeKind(e) <=> d = e
           /\ NoticeKind(d) \notin {"renew", "idle"}
BY DEF NoticeKind

\* What an announcement already sent still has to say of the row it was for.
Noted(x) ==
    \/ sub[x[1]].noticed # 0 /\ sub[x[1]].noticed <= x[3]
    \/ <<x[1], x[4], NoticeKind(x[3])>> \in missed
    \/ x[4] = now /\ cron.kind = NoticeKind(x[3]) /\ cron.cur = {x[1]}

\* The two halves of the invariant about the rows: a step that leaves the ends
\* and the thresholds of the rows alone keeps them if it keeps what is in hand.
LEMMA NotedFrame ==
    ASSUME TypeOK, RunIsNow, NotedOrMissed,
           now' \in {now, now + 1}, sent \subseteq sent', missed \subseteq missed',
           ran \subseteq ran',
           \A s \in Subs : sub'[s].end = sub[s].end /\ sub'[s].noticed = sub[s].noticed,
           \A x \in sent : cron.cur = {x[1]} /\ cron.kind = NoticeKind(x[3]) /\ x[4] = now => Noted(x)',
           \A x \in sent' \ sent : x[4] = now' /\ x[1] \in Subs /\ x[2] = sub[x[1]].end /\ Noted(x)',
           \A s \in Subs, d \in {1, 3} : At(NoticeKind(d), "sent", s)' =>
                <<s, sub'[s].end, d, now'>> \in sent'
    PROVE  NotedOrMissed'
<1>1. now \in Nat /\ \A x \in sent : x[1] \in Subs /\ x[4] \in Nat
  BY NowIsRun, RenewalAssumption DEF TypeOK, Runs
<1>2. \A s \in Subs : sub[s].end \in Nat
  BY RenewalAssumption DEF TypeOK, SubRows, Ends
<1>3. ASSUME NEW x \in sent'
      PROVE  /\ x[4] <= now' /\ x[2] <= sub'[x[1]].end
             /\ x[2] = sub'[x[1]].end => Noted(x)'
  <2>1. CASE x \in sent
    <3>0. x[4] <= now /\ x[2] <= sub[x[1]].end
      BY <2>1 DEF NotedOrMissed
    <3>1. x[4] <= now' /\ x[2] <= sub'[x[1]].end
      BY <1>1, <2>1, <3>0
    <3>2. ASSUME x[2] = sub'[x[1]].end
          PROVE  Noted(x)'
      <4>1. Noted(x)
        BY <1>1, <2>1, <3>2 DEF NotedOrMissed, Noted
      <4>2. CASE sub[x[1]].noticed # 0 /\ sub[x[1]].noticed <= x[3]
        BY <1>1, <2>1, <4>2 DEF Noted
      <4>3. CASE <<x[1], x[4], NoticeKind(x[3])>> \in missed
        BY <4>3 DEF Noted, NoticeKind
      <4>4. QED
        BY <2>1, <4>1, <4>2, <4>3 DEF Noted
    <3>3. QED
      BY <3>1, <3>2
  <2>2. CASE x \notin sent
    BY <1>1, <1>2, <2>2
  <2>3. QED
    BY <2>1, <2>2
<1>4. ASSUME NEW s \in Subs, NEW d \in {1, 3}, sub'[s].noticed = d
      PROVE  \E r \in ran' : /\ <<s, sub'[s].end, d, r>> \in sent'
                             /\ sub'[s].end < r + (d + 1) * Day
  BY <1>4 DEF NotedOrMissed
<1>5. QED
  BY <1>3, <1>4 DEF NotedOrMissed, Noted

\* Every step leaves the announcements of a current end noted, about to be
\* noted, or lost to a fault, and what is noted announced.
LEMMA NotedStep ==
    ASSUME TypeOK, RunIsNow, ListHolds, NotedOrMissed, [Next]_vars
    PROVE  NotedOrMissed'
<1>1. CASE StartRun \/ NextPart
  <2>1. /\ UNCHANGED <<now, sub, missed, sent>> /\ ran \subseteq ran' /\ cron.cur = {}
    BY <1>1 DEF StartRun, NextPart, users, RunIsNow, NoCron
  <2>2. cron'.at = "pick"
    BY <1>1, StartEffect DEF StartRun, NextPart, NoCron, DueForRenewal, DueForNotice, Kinds
  <2>3. QED
    BY <2>1, <2>2, NotedFrame DEF At
<1>2. CASE QueryThrows \/ Crash
  <2>1. /\ UNCHANGED <<now, sub, sent>> /\ ran \subseteq ran' /\ missed \subseteq missed'
        /\ cron'.at = "pick"
        /\ cron.cur # {} => missed' = missed \cup Undone
    BY <1>2 DEF QueryThrows, Crash, NoCron, users, RunIsNow
  <2>2. ASSUME NEW x \in sent, cron.cur = {x[1]}, cron.kind = NoticeKind(x[3]), x[4] = now
        PROVE  Noted(x)'
    BY <2>1, <2>2 DEF Noted, NoticeKind, Undone
  <2>3. QED
    BY <2>1, <2>2, NotedFrame DEF At
<1>3. CASE MissRun \/ UserStep \/ UNCHANGED vars
  <2>1. /\ UNCHANGED <<now, cron, ran, missed, sent>>
        /\ \A s \in Subs : sub'[s].end = sub[s].end /\ sub'[s].noticed = sub[s].noticed
    BY <1>3, UserFrame DEF MissRun, vars
  <2>2. ASSUME NEW x \in sent, cron.cur = {x[1]}, cron.kind = NoticeKind(x[3]), x[4] = now
        PROVE  Noted(x)'
    BY <2>1, <2>2 DEF Noted, NoticeKind
  <2>3. ASSUME NEW s \in Subs, NEW d \in {1, 3}, At(NoticeKind(d), "sent", s)'
        PROVE  <<s, sub'[s].end, d, now'>> \in sent'
    BY <2>1, <2>3 DEF NotedOrMissed, At, NoticeKind
  <2>4. QED
    BY <2>1, <2>2, <2>3, NotedFrame
<1>4. CASE Tick
  <2>1. /\ UNCHANGED <<sub, cron, ran, missed, sent>> /\ now' = now + 1
        /\ cron.cur = {}
    BY <1>4 DEF Tick, RunIsNow, NoCron
  <2>2. QED
    BY <2>1, NotedFrame DEF At
<1>5. ASSUME NEW k \in Subs \X Runs, ClickTakes(k) \/ ClickRefuses(k)
      PROVE  NotedOrMissed'
  <2>1. UNCHANGED <<now, sub, cron, ran, missed, sent>>
    BY <1>5 DEF ClickTakes, ClickRefuses
  <2>2. QED
    BY <2>1 DEF NotedOrMissed, At, NoticeKind
<1>6. ASSUME NEW q \in Subs, NEW d \in {1, 3}, SendNotice(q, d)
      PROVE  NotedOrMissed'
  <2>1. /\ UNCHANGED <<now, sub, ran, missed>> /\ q \in cron.todo /\ cron.cur = {}
        /\ cron.kind = NoticeKind(d)
        /\ sent' = sent \cup {<<q, sub[q].end, d, now>>}
        /\ cron'.cur = {q} /\ cron'.kind = cron.kind /\ cron'.at = "sent"
    BY <1>6, CronPickUp DEF SendNotice, CanPick, ListHolds, Steps
  <2>2. ASSUME NEW s \in Subs, NEW e \in {1, 3}, At(NoticeKind(e), "sent", s)'
        PROVE  s = q /\ e = d
    <3>1. NoticeKind(e)' = NoticeKind(e)
      BY DEF NoticeKind
    <3>2. QED
      BY <2>1, <2>2, <3>1, NoticeKinds DEF At
  <2>3. \A x \in sent' \ sent : x = <<q, sub[q].end, d, now>>
    BY <2>1
  <2>4. Noted(<<q, sub[q].end, d, now>>)'
    BY <2>1 DEF Noted, NoticeKind
  <2>5. QED
    BY <2>1, <2>2, <2>3, <2>4, NotedFrame
<1>7. ASSUME NEW q \in Subs, InPart(q), \A d \in {1, 3} : ~SendNotice(q, d)
      PROVE  NotedOrMissed'
  <2>1. CASE cron.kind = "renew"
    <3>1. UNCHANGED <<now, sub, ran, sent>> /\ cron'.kind = cron.kind /\ missed \subseteq missed'
      BY <1>7, InPartFrame, ListLoses
         DEF InPart, PickRenewal, RecordRenewal, ChargeRenewal, RenewalPaid, RenewalDeclined,
             CardVanished, BodyThrows
    <3>2. \A x \in sent : x[3] \in {1, 3}
      BY DEF TypeOK
    <3>3. QED
      BY <2>1, <3>1, <3>2, NotedFrame, NoticeKinds DEF At, NoticeKind
  <2>2. CASE cron.kind # "renew"
    <3>1. BodyThrows(q)
      BY <1>7, <2>2 DEF InPart, PickRenewal, RecordRenewal, ChargeRenewal, RenewalPaid,
                        RenewalDeclined, CardVanished, CanPick, At
    <3>2. /\ UNCHANGED <<now, sub, ran, sent>> /\ missed' = missed \cup {<<q, now, cron.kind>>}
          /\ cron.cur \in {{}, {q}} /\ cron'.cur = {}
      BY <3>1, CronSkip, CronLayDown DEF BodyThrows, CanPick
    <3>3. ASSUME NEW x \in sent, cron.cur = {x[1]}, cron.kind = NoticeKind(x[3]), x[4] = now
          PROVE  Noted(x)'
      BY <3>2, <3>3 DEF Noted, NoticeKind
    <3>4. QED
      BY <3>2, <3>3, NotedFrame DEF At
  <2>3. QED
    BY <2>1, <2>2
<1>8. ASSUME NEW q \in Subs, MarkAttempt(q)
      PROVE  NotedOrMissed'
  <2>1. /\ UNCHANGED <<now, ran, missed, sent>> /\ cron'.at = "pick" /\ cron.kind = "renew"
        /\ \A s \in Subs : sub'[s].end = sub[s].end /\ sub'[s].noticed = sub[s].noticed
    BY <1>8, MarkAttemptFrame DEF At
  <2>2. \A x \in sent : x[3] \in {1, 3}
    BY DEF TypeOK
  <2>3. QED
    BY <2>1, <2>2, NotedFrame, NoticeKinds DEF At
<1>9. ASSUME NEW q \in Subs, Extend(q)
      PROVE  NotedOrMissed'
  <2>1. /\ UNCHANGED <<now, ran, missed, sent>> /\ cron'.at = "pick" /\ cron.kind = "renew"
        /\ \A s \in Subs \ {q} : sub'[s] = sub[s]
        /\ sub'[q].end = sub[q].end + Duration /\ sub'[q].noticed = 0
    BY <1>9, ExtendFrame DEF At, ListHolds
  <2>2. sub[q].end \in Nat /\ sub[q].end < sub'[q].end /\ sub'[q].end \in Nat
    BY <2>1, RenewalAssumption DEF TypeOK, SubRows, Ends
  <2>3. ASSUME NEW x \in sent
        PROVE  /\ x[4] <= now' /\ x[2] <= sub'[x[1]].end
               /\ x[2] = sub'[x[1]].end => Noted(x)'
    <3>1. x[1] \in Subs /\ x[3] \in {1, 3} /\ x[2] \in Nat
      BY RenewalAssumption DEF TypeOK, Ends
    <3>2. x[4] <= now /\ x[2] <= sub[x[1]].end /\ (x[2] = sub[x[1]].end => Noted(x))
      BY DEF NotedOrMissed, Noted
    <3>3. CASE x[1] = q
      BY <2>1, <2>2, <3>1, <3>2, <3>3
    <3>4. CASE x[1] # q
      BY <2>1, <3>1, <3>2, <3>4, NoticeKinds DEF Noted, NoticeKind
    <3>5. QED
      BY <3>3, <3>4
  <2>4. ASSUME NEW s \in Subs, NEW d \in {1, 3}, sub'[s].noticed = d
        PROVE  \E r \in ran' : /\ <<s, sub'[s].end, d, r>> \in sent'
                               /\ sub'[s].end < r + (d + 1) * Day
    <3>1. s # q
      BY <2>1, <2>4
    <3>2. QED
      BY <2>1, <2>4, <3>1 DEF NotedOrMissed
  <2>5. QED
    BY <2>1, <2>3, <2>4 DEF NotedOrMissed, Noted, At
<1>10. ASSUME NEW q \in Subs, NEW e \in {1, 3}, NoteNotice(q, e)
       PROVE  NotedOrMissed'
  <2>1. /\ UNCHANGED <<now, ran, missed, sent>> /\ cron'.at = "pick"
        /\ cron.kind = NoticeKind(e) /\ cron.cur = {q}
        /\ \A s \in Subs \ {q} : sub'[s] = sub[s]
        /\ sub'[q].end = sub[q].end /\ sub'[q].noticed = e
    BY <1>10, NoteNoticeFrame DEF At
  <2>2. /\ sub[q].noticed = 0 \/ sub[q].noticed > e
        /\ sub[q].end < now + (e + 1) * Day
        /\ <<q, sub[q].end, e, now>> \in sent
    BY <1>10, <2>1 DEF ListHolds, NotedOrMissed, NoteNotice
  <2>3. sub[q].noticed \in {0, 1, 3}
    BY DEF TypeOK, SubRows
  <2>4. ASSUME NEW x \in sent
        PROVE  /\ x[4] <= now' /\ x[2] <= sub'[x[1]].end
               /\ x[2] = sub'[x[1]].end => Noted(x)'
    <3>1. x[1] \in Subs /\ x[3] \in {1, 3}
      BY DEF TypeOK
    <3>2. x[4] <= now /\ x[2] <= sub[x[1]].end /\ (x[2] = sub[x[1]].end => Noted(x))
      BY DEF NotedOrMissed, Noted
    <3>3. CASE x[1] = q
      <4>1. ASSUME x[2] = sub[q].end
            PROVE  Noted(x)'
        <5>1. CASE <<x[1], x[4], NoticeKind(x[3])>> \in missed
          BY <2>1, <5>1 DEF Noted, NoticeKind
        <5>2. CASE cron.kind = NoticeKind(x[3])
          <6>1. x[3] = e
            BY <2>1, <3>1, <5>2, NoticeKinds
          <6>2. QED
            BY <2>1, <3>1, <3>3, <6>1 DEF Noted
        <5>3. CASE sub[q].noticed # 0 /\ sub[q].noticed <= x[3]
          BY <2>1, <2>2, <2>3, <3>1, <3>3, <5>3 DEF Noted
        <5>4. QED
          BY <3>2, <3>3, <4>1, <5>1, <5>2, <5>3 DEF Noted
      <4>2. QED
        BY <2>1, <3>2, <3>3, <4>1
    <3>4. CASE x[1] # q
      BY <2>1, <3>1, <3>2, <3>4 DEF Noted, NoticeKind
    <3>5. QED
      BY <3>3, <3>4
  <2>5. ASSUME NEW s \in Subs, NEW d \in {1, 3}, sub'[s].noticed = d
        PROVE  \E r \in ran' : /\ <<s, sub'[s].end, d, r>> \in sent'
                               /\ sub'[s].end < r + (d + 1) * Day
    <3>1. CASE s = q
      BY <2>1, <2>2, <2>5, <3>1, NoticeKinds DEF RunIsNow, Idle
    <3>2. CASE s # q
      BY <2>1, <2>5, <3>2 DEF NotedOrMissed
    <3>3. QED
      BY <3>1, <3>2
  <2>6. QED
    BY <2>1, <2>4, <2>5 DEF NotedOrMissed, Noted, At
<1>11. QED
  BY <1>1, <1>2, <1>3, <1>4, <1>5, <1>6, <1>7, <1>8, <1>9, <1>10, StepKinds

\* An announcement is pushed only when the earlier ones like it could not be
\* noted.
LEMMA OnceStep ==
    ASSUME TypeOK, RunIsNow, ListHolds, NotedOrMissed, AnnouncedOnce, [Next]_vars
    PROVE  AnnouncedOnce'
<1>1. CASE sent' = sent /\ missed \subseteq missed'
  BY <1>1 DEF AnnouncedOnce, NoticeKind
<1>2. ASSUME NEW q \in Subs, NEW d \in {1, 3}, SendNotice(q, d)
      PROVE  AnnouncedOnce'
  <2>1. /\ q \in cron.todo /\ cron.cur = {} /\ missed' = missed
        /\ sent' = sent \cup {<<q, sub[q].end, d, now>>}
        /\ sub[q].noticed = 0 \/ sub[q].noticed > d
    BY <1>2 DEF SendNotice, CanPick, ListHolds
  <2>2. sub[q].noticed \in {0, 1, 3}
    BY DEF TypeOK, SubRows
  <2>3. SUFFICES ASSUME NEW x \in sent', NEW y \in sent',
                        x[1] = y[1], x[2] = y[2], x[3] = y[3], x[4] < y[4]
                 PROVE  <<x[1], x[4], NoticeKind(x[3])>> \in missed
    BY <2>1 DEF AnnouncedOnce, NoticeKind
  <2>4. now \in Nat /\ \A z \in sent : z[4] \in Nat /\ z[4] <= now
    <3>1. now \in Nat /\ \A z \in sent : z[4] \in Nat
      BY NowIsRun, RenewalAssumption DEF TypeOK, Runs
    <3>2. QED
      BY <3>1 DEF NotedOrMissed
  <2>5. CASE y \in sent
    <3>1. x \in sent
      BY <2>1, <2>3, <2>4, <2>5
    <3>2. QED
      BY <2>3, <2>5, <3>1 DEF AnnouncedOnce
  <2>6. CASE y = <<q, sub[q].end, d, now>>
    <3>1. x \in sent /\ x[1] = q /\ x[2] = sub[q].end /\ x[3] = d /\ x[4] # now
      BY <2>1, <2>3, <2>4, <2>6
    <3>2. QED
      BY <2>1, <2>2, <3>1 DEF NotedOrMissed
  <2>7. QED
    BY <2>1, <2>5, <2>6
<1>3. CASE StartRun \/ NextPart \/ QueryThrows \/ Crash \/ MissRun \/ Tick \/ UNCHANGED vars
  BY <1>1, <1>3 DEF StartRun, NextPart, QueryThrows, Crash, MissRun, Tick, vars
<1>4. CASE UserStep
  BY <1>1, <1>4, UserFrame
<1>5. ASSUME NEW k \in Subs \X Runs, ClickTakes(k) \/ ClickRefuses(k)
      PROVE  AnnouncedOnce'
  BY <1>1, <1>5 DEF ClickTakes, ClickRefuses
<1>6. ASSUME NEW q \in Subs, InPart(q), \A d \in {1, 3} : ~SendNotice(q, d)
      PROVE  AnnouncedOnce'
  BY <1>1, <1>6
     DEF InPart, PickRenewal, RecordRenewal, ChargeRenewal, RenewalPaid, RenewalDeclined,
         CardVanished, BodyThrows
<1>7. ASSUME NEW q \in Subs, Extend(q) \/ MarkAttempt(q) \/ \E d \in {1, 3} : NoteNotice(q, d)
      PROVE  AnnouncedOnce'
  BY <1>1, <1>7, ExtendFrame, MarkAttemptFrame, NoteNoticeFrame
<1>8. QED
  BY <1>2, <1>3, <1>4, <1>5, <1>6, <1>7, StepKinds

-----------------------------------------------------------------------------
(* The invariant, and what follows from it *)

\* Every step keeps the types: the steps of the three kinds, put together.
LEMMA TypeStep ==
    ASSUME TypeOK, RunIsNow, ListHolds, [Next]_vars
    PROVE  TypeOK'
<1>1. CASE UNCHANGED vars
  BY <1>1 DEF vars, users, TypeOK
<1>2. QED
  BY <1>1, RunType, UserType, OutsideType DEF Next

\* The initial states satisfy the invariant: nothing has run or been sent.
LEMMA InitIInv == Init => IInv
<1> SUFFICES ASSUME Init PROVE IInv
  OBVIOUS
<1>1. TypeOK
  BY InitType
<1>2. /\ cron = NoCron /\ ran = {} /\ sent = {} /\ missed = {}
      /\ setting = [s \in Subs |-> NotSetting]
      /\ sub \in [Subs -> [end : FirstEnds, autoPay : BOOLEAN, card : 0..1, noticed : {0},
                           attempt : {0}]]
      /\ \A s \in Subs : sub[s].card = IF card[<<s, 1>>] = "verified" THEN 1 ELSE 0
      /\ \A s \in Subs : sub[s].autoPay => sub[s].card # 0
  BY DEF Init
<1>3. Idle /\ cron.todo = {} /\ cron.cur = {}
  BY <1>2 DEF NoCron, Idle
<1>4. \A s \in Subs : sub[s].attempt = 0 /\ sub[s].noticed = 0
  BY <1>2
<1>5. RunIsNow /\ ListHolds /\ PaidIsTaken
  BY <1>2, <1>3, <1>4 DEF RunIsNow, ListHolds, PaidIsTaken, At
<1>6. CardsKnown /\ AutoPayHasCard
  BY <1>2 DEF CardsKnown, AutoPayHasCard, NotSetting
<1>7. AttemptedOrListed /\ AnnouncedOrListed /\ NotedOrMissed /\ AnnouncedOnce
  <2>1. AttemptedOrListed /\ AnnouncedOrListed /\ AnnouncedOnce
    BY <1>2 DEF AttemptedOrListed, AnnouncedOrListed, AnnouncedOnce
  <2>2. NotedOrMissed
    <3>1. \A s \in Subs, d \in {1, 3} : sub[s].noticed # d
      BY <1>4
    <3>2. \A s \in Subs, d \in {1, 3} : ~At(NoticeKind(d), "sent", s)
      BY <1>3 DEF At
    <3>3. QED
      BY <1>2, <3>1, <3>2 DEF NotedOrMissed
  <2>3. QED
    BY <2>1, <2>2
<1>8. QED
  BY <1>1, <1>5, <1>6, <1>7 DEF IInv

\* The inductive invariant of the renewal holds in every reachable state.
THEOREM InductiveInvariant == Spec => []IInv
<1>1. IInv /\ [Next]_vars => IInv'
  <2> SUFFICES ASSUME IInv, [Next]_vars PROVE IInv'
    OBVIOUS
  <2>1. /\ TypeOK /\ RunIsNow /\ ListHolds /\ PaidIsTaken /\ CardsKnown /\ AutoPayHasCard
        /\ AttemptedOrListed /\ AnnouncedOrListed /\ NotedOrMissed /\ AnnouncedOnce
    BY DEF IInv
  <2>2. TypeOK' /\ RunIsNow' /\ ListHolds' /\ PaidIsTaken' /\ CardsKnown' /\ AutoPayHasCard'
    BY <2>1, TypeStep, RunIsNowStep, ListHoldsStep, PaidIsTakenStep, CardsStep
  <2>3. AttemptedOrListed' /\ AnnouncedOrListed' /\ NotedOrMissed' /\ AnnouncedOnce'
    BY <2>1, AttemptedStep, AnnouncedStep, NotedStep, OnceStep
  <2>4. QED
    BY <2>2, <2>3 DEF IInv
<1>2. QED
  BY InitIInv, <1>1, PTL DEF Spec

\* The rows, cards, payments and the run in progress always have their types:
\* an endDate never leaves the range that one period beyond the last run gives.
THEOREM TypeCorrect == Spec => []TypeOK
<1>1. IInv => TypeOK
  BY DEF IInv
<1>2. QED
  BY <1>1, InductiveInvariant, PTL

\* Whoever a run had to renew has been tried by it or a later one, but for
\* faults, requests of the user and cards that are not usable.
THEOREM NobodyDuePassedOver == Spec => []DueIsAttempted
<1>1. IInv => DueIsAttempted
  BY DEF IInv, AttemptedOrListed, DueIsAttempted, TypeOK
<1>2. QED
  BY <1>1, InductiveInvariant, PTL

\* Whoever a run had to warn has been warned of this end at this threshold.
THEOREM EveryEndAnnounced == Spec => []DueIsAnnounced
<1>1. ASSUME IInv PROVE DueIsAnnounced
  <2>1. AnnouncedOrListed /\ now \in Nat /\ \A t \in ran : t \in Nat
    BY <1>1, RenewalAssumption DEF IInv, TypeOK, Runs
  <2>2. \A t \in ran : t < now => t # now
    BY <2>1
  <2>3. QED
    BY <2>1, <2>2 DEF AnnouncedOrListed, DueIsAnnounced
<1>2. QED
  BY <1>1, InductiveInvariant, PTL

\* Nobody is warned twice of one end at one threshold, but after a fault.
THEOREM NobodyToldTwice == Spec => []AnnouncedOnce
<1>1. IInv => AnnouncedOnce
  BY DEF IInv
<1>2. QED
  BY <1>1, InductiveInvariant, PTL

\* The query that leaves out rows without a card leaves out nobody with
\* auto-pay on.
THEOREM AutoPayKeepsCard == Spec => []AutoPayHasCard
<1>1. IInv => AutoPayHasCard
  BY DEF IInv
<1>2. QED
  BY <1>1, InductiveInvariant, PTL

\* A step that moves an endDate is the extension of that subscription.
LEMMA EndMoves ==
    ASSUME TypeOK, RunIsNow, [Next]_vars, NEW s \in Subs, sub'[s].end # sub[s].end
    PROVE  Extend(s)
<1>1. CASE StartRun \/ NextPart \/ QueryThrows \/ Crash \/ MissRun \/ Tick \/ UNCHANGED vars
  BY <1>1 DEF StartRun, NextPart, QueryThrows, Crash, MissRun, Tick, vars
<1>2. CASE UserStep
  BY <1>2, UserFrame
<1>3. ASSUME NEW k \in Subs \X Runs, ClickTakes(k) \/ ClickRefuses(k)
      PROVE  Extend(s)
  BY <1>3 DEF ClickTakes, ClickRefuses
<1>4. ASSUME NEW q \in Subs, InPart(q)
      PROVE  Extend(s)
  BY <1>4, InPartFrame
<1>5. ASSUME NEW q \in Subs, Extend(q) \/ MarkAttempt(q) \/ \E d \in {1, 3} : NoteNotice(q, d)
      PROVE  Extend(s)
  <2>1. q = s \/ sub'[s] = sub[s]
    BY <1>5, ExtendFrame, MarkAttemptFrame, NoteNoticeFrame
  <2>2. QED
    BY <1>5, <2>1, MarkAttemptFrame, NoteNoticeFrame
<1>6. QED
  BY <1>1, <1>2, <1>3, <1>4, <1>5, StepKinds

\* An endDate moves only by its own paid period, once a run.
THEOREM OnePeriodForOnePayment == Spec => ExtendedByItsPayment
<1>1. ASSUME IInv, [Next]_vars, NEW s \in Subs, sub'[s].end # sub[s].end
      PROVE  /\ sub'[s].end = sub[s].end + Duration
             /\ now \in ran
             /\ click[<<s, now>>] = "taken" /\ tx[<<s, now>>] = "SUCCESS"
             /\ sub[s].attempt # now
  <2>1. TypeOK /\ RunIsNow /\ ListHolds /\ PaidIsTaken
    BY <1>1 DEF IInv
  <2>2. Extend(s)
    BY <1>1, <2>1, EndMoves
  <2>3. At("renew", "extend", s) /\ sub'[s].end = cron.snap[s].end + Duration
    BY <2>1, <2>2, ExtendFrame
  <2>4. cron.snap[s].end = sub[s].end /\ sub[s].attempt # now
    BY <2>1, <2>3 DEF ListHolds, At
  <2>5. now \in ran /\ click[<<s, now>>] = "taken" /\ tx[<<s, now>>] = "SUCCESS"
    BY <2>1, <2>3 DEF RunIsNow, PaidIsTaken, At, Idle
  <2>6. QED
    BY <2>3, <2>4, <2>5
<1>2. IInv /\ [Next]_vars =>
        [\A s \in Subs : sub'[s].end # sub[s].end =>
            /\ sub'[s].end = sub[s].end + Duration
            /\ now \in ran
            /\ click[<<s, now>>] = "taken" /\ tx[<<s, now>>] = "SUCCESS"
            /\ sub[s].attempt # now]_vars
  BY <1>1
<1>3. QED
  BY <1>2, InductiveInvariant, PTL DEF Spec, ExtendedByItsPayment

\* A card is charged only for a subscription with auto-pay on, or changed by
\* its user since the run began.
THEOREM ChargedOnlyAsAsked == Spec => ChargedWithConsent
<1>1. ASSUME IInv, [Next]_vars, NEW s \in Subs, NEW t \in Runs,
             click'[<<s, t>>] = "posted", click[<<s, t>>] = "none"
      PROVE  t = now /\ (sub[s].autoPay \/ changed[s] = now)
  <2>1. TypeOK /\ RunIsNow /\ ListHolds
    BY <1>1 DEF IInv
  <2>2. click' # click
    BY <1>1
  <2>3. ASSUME NEW k \in Subs \X Runs, ClickTakes(k) \/ ClickRefuses(k)
        PROVE  FALSE
    <3>1. click[k] = "posted" /\ \A j \in Subs \X Runs : j # k => click'[j] = click[j]
      BY <2>1, <2>3 DEF ClickTakes, ClickRefuses, TypeOK
    <3>2. <<s, t>> \in Subs \X Runs /\ <<s, t>> # k
      BY <1>1, <3>1
    <3>3. QED
      BY <1>1, <3>1, <3>2
  <2>4. \E q \in Subs : ChargeRenewal(q)
    <3>1. CASE StartRun \/ NextPart \/ QueryThrows \/ Crash \/ MissRun \/ Tick \/ UNCHANGED vars
      BY <2>2, <3>1 DEF StartRun, NextPart, QueryThrows, Crash, MissRun, Tick, vars
    <3>2. CASE UserStep
      BY <2>1, <2>2, <3>2, UserFrame
    <3>3. ASSUME NEW q \in Subs, InPart(q)
          PROVE  ChargeRenewal(q)
      BY <2>2, <3>3 DEF InPart, PickRenewal, RecordRenewal, RenewalPaid, RenewalDeclined,
                        CardVanished, BodyThrows, SendNotice
    <3>4. ASSUME NEW q \in Subs, Extend(q) \/ MarkAttempt(q) \/ \E d \in {1, 3} : NoteNotice(q, d)
          PROVE  FALSE
      BY <2>1, <2>2, <3>4, ExtendFrame, MarkAttemptFrame, NoteNoticeFrame
    <3>5. QED
      BY <1>1, <2>3, <3>1, <3>2, <3>3, <3>4, StepKinds
  <2>5. PICK q \in Subs : ChargeRenewal(q)
    BY <2>4
  <2>6. q = s /\ t = now
    BY <1>1, <2>1, <2>5 DEF ChargeRenewal, TypeOK
  <2>7. QED
    BY <2>1, <2>5, <2>6 DEF ChargeRenewal, At, ListHolds
<1>2. IInv /\ [Next]_vars =>
        [\A s \in Subs, t \in Runs : click'[<<s, t>>] = "posted" /\ click[<<s, t>>] = "none" =>
            /\ t = now
            /\ sub[s].autoPay \/ changed[s] = now]_vars
  BY <1>1
<1>3. QED
  BY <1>2, InductiveInvariant, PTL DEF Spec, ChargedWithConsent

=============================================================================
