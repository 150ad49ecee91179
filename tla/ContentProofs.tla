---------------------------- MODULE ContentProofs ----------------------------
(***************************************************************************)
(* Theorems about what is served, for all values of the constants of       *)
(* Application: the limit on messages to the assistant, what a push        *)
(* announces, the administrators' tables with lessons and progress, why    *)
(* a request fails on a row that is gone or taken, the chats about         *)
(* books, the pages of inboxes and lists, and the index of a book; and, at *)
(* the end, the types of all that Application keeps.                       *)
(***************************************************************************)
EXTENDS AccountProofs, SequenceTheorems

-----------------------------------------------------------------------------
(* The limit on messages: what the steps of AiChat do. *)

\* A message arrives and reads the row of the limit.
ReadsLimit(r) ==
    LET u == call'[r].who IN
    /\ u \in AiUsers /\ pc'[r] = "counting" /\ saw'[r] = LimitOf(u)
    /\ LimitOf(u) # Nothing /\ ~LimitOf(u).idle => LimitOf(u).count < AiMax
    /\ UNCHANGED <<limits, spree>>

\* The hourly job.
DropsIdleRows ==
    /\ limits' = [u \in {v \in DOMAIN limits : ~limits[v].idle} |-> limits[u]]
    /\ spree' = spree

\* Every step of AiChat either writes the limit or has nothing to do with it.
LEMMA AiStepKinds ==
    ASSUME Served, NEW r \in Requests, AiStep(r)
    PROVE  /\ Moves(r, AiOps, AiWaits)
           /\ \/ pc[r] = "idle" /\ ReadsLimit(r)
              \/ pc'[r] # "counting" /\ DropsIdleRows
              \/ CountRequest(r)
              \/ pc'[r] # "counting" /\ UNCHANGED <<limits, spree>>
<1>0. Moves(r, AiOps, AiWaits)
  BY AiMoves
<1>1. ASSUME pc[r] = "idle", NEW u \in AiUsers, NEW c, SendMessage(r, u, c)
      PROVE  ReadsLimit(r)
  BY <1>1 DEF SendMessage, Arrive, Served, WellFormed, ReadsLimit, Verdicts, aiVars
<1>2. ASSUME pc[r] = "idle", NEW u, NEW c, CreateChat(r, u) \/ DeleteChat(r, u, c)
      PROVE  pc'[r] # "counting" /\ UNCHANGED <<limits, spree>>
  BY <1>2 DEF CreateChat, DeleteChat, Arrive, Served, WellFormed, aiVars
<1>3. ASSUME pc[r] = "idle", ResetRateLimits(r)
      PROVE  pc'[r] # "counting" /\ DropsIdleRows
  BY <1>3 DEF ResetRateLimits, Arrive, Served, WellFormed, DropsIdleRows
<1>4. CASE IsNext(r) /\ (ChatRequest(r) \/ ResetRateLimits(r))
  BY <1>0, <1>1, <1>2, <1>3, <1>4 DEF IsNext, ChatRequest
<1>5. CASE CountConflicts(r) \/ AskOpenAI(r) \/ TouchChat(r)
  BY <1>0, <1>5, AwaitAt DEF CountConflicts, AskOpenAI, TouchChat, Leave, aiVars
<1>6. CASE StoreQuestion(r) \/ StoreReply(r) \/ DropChat(r)
  BY <1>0, <1>6, AwaitAt DEF StoreQuestion, StoreReply, DropChat, StoreMessage, Gone, Leave
<1>7. QED
  BY <1>0, <1>4, <1>5, <1>6 DEF AiStep, ChatStep

\* Nothing else writes it, but for time.
LEMMA AiFrame ==
    ASSUME Served, [Next]_appVars
    PROVE  \/ \E r \in Requests : AiStep(r)
           \/ Foreign(AiOps, AiWaits) /\ UNCHANGED aiVars
           \/ Foreign(AiOps, AiWaits) /\ \E u \in AiUsers : IdleHour(u)
<1>1. ASSUME NEW r \in Requests, Handle(r), ~AiStep(r)
      PROVE  Foreign(AiOps, AiWaits) /\ UNCHANGED aiVars
  <2>1. CASE UsersStep(r) /\ UNCHANGED aiVars
    BY <2>1, UsersMoves, MovesAreForeign
       DEF AiOps, AiWaits, UserOps, UserWaits, Rest, Verdicts
  <2>2. CASE AuthStep(r) /\ UNCHANGED aiVars
    BY <2>2, AuthMoves, MovesAreForeign
       DEF AiOps, AiWaits, AuthOps, Logins, AuthWaits, Rest, Verdicts
  <2>3. CASE PushStep(r) /\ UNCHANGED aiVars
    BY <2>3, PushMoves, MovesAreForeign
       DEF AiOps, AiWaits, PushOps, PushWaits, Rest, Verdicts
  <2>4. CASE CatalogueStep(r) /\ UNCHANGED aiVars
    BY <2>4, CatalogueMoves, MovesAreForeign
       DEF AiOps, AiWaits, CatalogueOps, CatalogueWaits, Rest, Verdicts
  <2>5. CASE LessonsStep(r) /\ UNCHANGED aiVars
    BY <2>5, LessonsMoves, MovesAreForeign
       DEF AiOps, AiWaits, LessonOps, LessonWaits, Rest, Verdicts
  <2>6. CASE BookRagStep(r) /\ UNCHANGED aiVars
    BY <2>6, BookRagMoves, MovesAreForeign
       DEF AiOps, AiWaits, RagOps, RagWaits, Rest, Verdicts
  <2>7. QED
    BY <1>1, <2>1, <2>2, <2>3, <2>4, <2>5, <2>6 DEF Handle
<1>2. CASE Halts /\ (NoTableChanges \/ Crash)
  BY <1>2, HaltsIsForeign DEF NoTableChanges, aiVars, Crash
<1>3. CASE Halts /\ Pass
  BY <1>3, HaltsIsForeign DEF Pass, aiVars
<1>4. QED
  BY <1>1, <1>2, <1>3, StepKinds

\* Requests that are apart after a step were apart before it.
LEMMA WereApart ==
    ASSUME Onward, NEW S \in SUBSET Requests, Apart(S)'
    PROVE  Apart(S)
BY OverlapStands DEF Apart

\* A step that lets nobody read or count keeps the request that is counting, or ends it.
LEMMA CountingStays ==
    ASSUME Foreign(AiOps, AiWaits), NEW q \in Requests, pc'[q] = "counting"
    PROVE  Stays(q)
BY DEF Foreign, Breaks, AiWaits

\* The requests of a spree can be counted.
LEMMA SpreeIsFinite ==
    ASSUME RowCounts, NEW u \in AiUsers
    PROVE  spree[u] \in SUBSET Requests /\ IsFiniteSet(spree[u]) /\ Cardinality(spree[u]) \in Nat
<1>1. spree[u] \in SUBSET Requests
  BY DEF RowCounts
<1>2. QED
  BY <1>1, RequestsAreFinite, PartCounted

\* Steps that admit nobody, rows being left alone or dropped when they are idle.
LEMMA NobodyAdmitted ==
    ASSUME Served, AiInv, Onward, spree' = spree, limits' = limits \/ DropsIdleRows,
           \A q \in Requests : pc'[q] = "counting" =>
               Stays(q) \/ (pc[q] = "idle" /\ ReadsLimit(q))
    PROVE  AiInv'
<1> DEFINE Row == [id : Requests, count : Nat, idle : BOOLEAN]
<1>0. RowCounts /\ AdmittedBelowLimit /\ AiLimit
  BY DEF AiInv
<1>1. \A u \in AiUsers : spree[u] \in SUBSET Requests /\ (Apart(spree[u])' => Apart(spree[u]))
  BY <1>0, WereApart, SpreeIsFinite
<1>2. /\ limits' \in [DOMAIN limits' -> Row]
      /\ \A u \in DOMAIN limits' : u \in DOMAIN limits /\ limits'[u] = limits[u]
      /\ \A u \in DOMAIN limits : u \in DOMAIN limits' \/ limits[u].idle
  BY <1>0 DEF RowCounts, DropsIdleRows
<1>3. ASSUME NEW u \in AiUsers, NEW r \in spree[u]
      PROVE  pc'[r] \notin {"idle", "counting"}
  BY <1>0, <1>3 DEF RowCounts, Onward, Stays
<1>4. RowCounts'
  BY <1>0, <1>1, <1>2, <1>3 DEF RowCounts, Apart
<1>5. AdmittedBelowLimit'
  <2> SUFFICES ASSUME NEW q \in Requests, pc'[q] = "counting", NEW u, u = call'[q].who
               PROVE  /\ u \in AiUsers
                      /\ saw'[q] # Nothing /\ Apart(spree[u])' /\ spree[u] \subseteq before'[q] =>
                            \/ saw'[q].idle /\ spree[u] = {}
                            \/ ~saw'[q].idle /\ Cardinality(spree[u]) < AiMax
    BY DEF AdmittedBelowLimit, Apart, Overlap, Begun
  <2>1. CASE Stays(q)
    BY <1>0, <1>1, <2>1 DEF Stays, AdmittedBelowLimit
  <2>2. CASE pc[q] = "idle" /\ ReadsLimit(q)
    <3>1. /\ u \in AiUsers /\ saw'[q] = LimitOf(u)
          /\ LimitOf(u) # Nothing /\ ~LimitOf(u).idle => LimitOf(u).count < AiMax
      BY <2>2 DEF ReadsLimit
    <3>2. ASSUME saw'[q] # Nothing, Apart(spree[u])'
          PROVE  \/ saw'[q].idle /\ spree[u] = {}
                 \/ ~saw'[q].idle /\ Cardinality(spree[u]) < AiMax
      <4>1. u \in DOMAIN limits /\ LimitOf(u) = limits[u] /\ limits[u].count \in Nat
        BY <1>0, <3>1, <3>2 DEF LimitOf, RowCounts
      <4>2. Cardinality(spree[u]) <= limits[u].count /\ (limits[u].idle => spree[u] = {})
        BY <1>0, <1>1, <3>1, <3>2, <4>1 DEF RowCounts
      <4>3. Cardinality(spree[u]) \in Nat
        BY <1>0, <3>1, SpreeIsFinite
      <4>4. QED
        BY <3>1, <3>2, <4>1, <4>2, <4>3, AiAssumption
    <3>3. QED
      BY <3>1, <3>2
  <2>3. QED
    BY <2>1, <2>2
<1>6. AiLimit'
  <2> SUFFICES ASSUME NEW u \in AiUsers, Cardinality(spree[u]) > AiMax
               PROVE  \E r, s \in spree[u] : Overlap(r, s)'
    BY DEF AiLimit
  <2>1. PICK r \in spree[u], s \in spree[u] : Overlap(r, s)
    BY <1>0 DEF AiLimit
  <2>2. QED
    BY <1>1, <2>1, OverlapStands
<1>7. QED
  BY <1>4, <1>5, <1>6 DEF AiInv

\* A message is counted: whoever else was admitted since the last idle hour
\* had ended when it came, or was in flight with it.
LEMMA OneIsAdmitted ==
    ASSUME Served, AiInv, Onward, NEW r \in Requests, AiStep(r), CountRequest(r)
    PROVE  AiInv'
<1> DEFINE Row == [id : Requests, count : Nat, idle : BOOLEAN]
           w == call[r].who
<1>0. RowCounts /\ AdmittedBelowLimit /\ AiLimit
  BY DEF AiInv
<1>1. /\ pc[r] = "counting" /\ pc'[r] = "asking" /\ call' = call /\ before' = before
      /\ \A s \in Requests \ {r} : Stays(s)
  BY AwaitAt DEF CountRequest
<1>2. w \in AiUsers
  BY <1>0, <1>1 DEF AdmittedBelowLimit
<1>3. /\ spree' = [spree EXCEPT ![w] = @ \cup {r}]
      /\ spree \in [AiUsers -> SUBSET Requests] /\ r \notin spree[w]
  BY <1>0, <1>1, <1>2 DEF CountRequest, RowCounts
<1>4. spree'[w] = spree[w] \cup {r} /\ \A u \in AiUsers \ {w} : spree'[u] = spree[u]
  BY <1>2, <1>3
<1>5. Cardinality(spree'[w]) = Cardinality(spree[w]) + 1 /\ Cardinality(spree[w]) \in Nat
  BY <1>0, <1>2, <1>3, <1>4, SpreeIsFinite, FS_AddElement
<1>6. ASSUME NEW S \in SUBSET Requests, spree[w] \cup {r} \subseteq S, Apart(S)'
      PROVE  Apart(spree[w]) /\ spree[w] \subseteq before[r]
  <2>1. Apart(S)
    BY <1>6, WereApart
  <2>2. ASSUME NEW s \in spree[w]
        PROVE  s \in before[r]
    <3>1. s \in Requests /\ s # r /\ pc[s] # "idle" /\ r \notin before[s] /\ s \in S
      BY <1>0, <1>1, <1>2, <1>3, <1>6, <2>2 DEF RowCounts, Served, Verdicts
    <3>2. ~Overlap(r, s)
      BY <1>6, <2>1, <3>1 DEF Apart
    <3>3. QED
      BY <1>1, <3>1, <3>2 DEF Overlap, Begun
  <2>3. QED
    BY <1>6, <2>1, <2>2 DEF Apart
<1>7. ASSUME Apart(spree[w]), spree[w] \subseteq before[r]
      PROVE  /\ Cardinality(spree[w]) < AiMax
             /\ \/ spree[w] = {} \/ (saw[r] # Nothing /\ ~saw[r].idle)
  <2>0. AiMax \in Nat \ {0}
    BY AiAssumption
  <2>1. CASE saw[r] = Nothing
    <3>1. spree[w] = {}
      BY <1>0, <1>2, <2>1 DEF CountRequest, RowCounts
    <3>2. QED
      BY <3>1, FS_EmptySet, <2>0
  <2>2. CASE saw[r] # Nothing
    <3>1. \/ saw[r].idle /\ spree[w] = {}
          \/ ~saw[r].idle /\ Cardinality(spree[w]) < AiMax
      BY <1>0, <1>1, <1>7, <2>2 DEF AdmittedBelowLimit
    <3>2. CASE spree[w] = {}
      BY <2>0, <3>2, FS_EmptySet
    <3>3. CASE spree[w] # {}
      BY <2>2, <3>1, <3>3
    <3>4. QED
      BY <3>2, <3>3
  <2>3. QED
    BY <2>1, <2>2
<1>8. /\ DOMAIN limits' = DOMAIN limits \cup {w} /\ limits' \in [DOMAIN limits' -> Row]
      /\ \A u \in DOMAIN limits \ {w} : limits'[u] = limits[u]
      /\ ~limits'[w].idle
      /\ \/ w \notin DOMAIN limits /\ limits'[w].count = 1
         \/ /\ saw[r] # Nothing /\ w \in DOMAIN limits
            /\ limits'[w].count = IF saw[r].idle THEN 1 ELSE limits[w].count + 1
  <2>1. limits \in [DOMAIN limits -> Row]
    BY <1>0 DEF RowCounts
  <2>2. CASE w \notin DOMAIN limits /\ PutLimit(w, [id |-> r, count |-> 1, idle |-> FALSE])
    BY <2>1, <2>2 DEF PutLimit
  <2>3. CASE /\ saw[r] # Nothing /\ w \in DOMAIN limits /\ limits[w].id = saw[r].id
             /\ PutLimit(w, [id |-> saw[r].id,
                             count |-> IF saw[r].idle THEN 1 ELSE limits[w].count + 1,
                             idle |-> FALSE])
    <3> DEFINE row == [id |-> limits[w].id,
                       count |-> IF saw[r].idle THEN 1 ELSE limits[w].count + 1, idle |-> FALSE]
    <3>1. limits[w].id \in Requests /\ limits[w].count \in Nat
      BY <2>1, <2>3
    <3>2. row \in Row /\ ~row.idle /\ row.count = IF saw[r].idle THEN 1 ELSE limits[w].count + 1
      BY <3>1
    <3>3. limits' = [v \in DOMAIN limits \cup {w} |-> IF v = w THEN row ELSE limits[v]]
      BY <2>3 DEF PutLimit
    <3> HIDE DEF row, Row
    <3>4. QED
      BY <2>1, <2>3, <3>2, <3>3
  <2>4. QED
    BY <2>2, <2>3 DEF CountRequest
<1>9. ASSUME NEW u \in AiUsers, NEW s \in spree'[u]
      PROVE  s \in Requests /\ pc'[s] \notin {"idle", "counting"}
  BY <1>0, <1>1, <1>3, <1>4, <1>9 DEF RowCounts, Stays
<1>10. RowCounts'
  <2>1. ASSUME NEW u \in AiUsers
        PROVE  /\ u \notin DOMAIN limits' \/ limits'[u].idle => spree'[u] = {}
               /\ u \in DOMAIN limits' /\ Apart(spree[u])' => Cardinality(spree'[u]) <= limits'[u].count
    <3>1. CASE u # w
      <4>1. spree'[u] = spree[u] /\ (Apart(spree[u])' => Apart(spree[u]))
        BY <1>0, <1>4, <2>1, <3>1, WereApart, SpreeIsFinite
      <4>2. QED
        BY <1>0, <1>8, <2>1, <3>1, <4>1 DEF RowCounts
    <3>2. CASE u = w
      <4>1. spree'[w] \in SUBSET Requests
        BY <1>2, <1>9
      <4>2. CASE ~Apart(spree[u])'
        BY <1>8, <3>2, <4>2
      <4>3. CASE Apart(spree[u])'
        <5>1. Apart(spree[w]) /\ spree[w] \subseteq before[r]
          BY <1>4, <1>6, <3>2, <4>1, <4>3
        <5>2. \/ spree[w] = {} \/ (saw[r] # Nothing /\ ~saw[r].idle)
          BY <1>7, <5>1
        <5>3. w \notin DOMAIN limits => spree[w] = {}
          BY <1>0, <1>2 DEF RowCounts
        <5>4. w \in DOMAIN limits => /\ limits[w].count \in Nat
                                     /\ Cardinality(spree[w]) <= limits[w].count
          BY <1>0, <1>2, <5>1 DEF RowCounts
        <5>5. spree[w] = {} => Cardinality(spree[w]) = 0
          BY FS_EmptySet
        <5>6. Cardinality(spree'[w]) <= limits'[w].count
          BY <1>5, <1>8, <5>2, <5>3, <5>4, <5>5
        <5>7. QED
          BY <1>8, <3>2, <5>6
      <4>4. QED
        BY <4>2, <4>3
    <3>3. QED
      BY <3>1, <3>2
  <2>2. QED
    BY <1>3, <1>8, <1>9, <2>1 DEF RowCounts
<1>11. AdmittedBelowLimit'
  <2> SUFFICES ASSUME NEW q \in Requests, pc'[q] = "counting", NEW u, u = call'[q].who
               PROVE  /\ u \in AiUsers
                      /\ saw'[q] # Nothing /\ Apart(spree[u])' /\ spree'[u] \subseteq before'[q] =>
                            \/ saw'[q].idle /\ spree'[u] = {}
                            \/ ~saw'[q].idle /\ Cardinality(spree'[u]) < AiMax
    BY DEF AdmittedBelowLimit, Apart, Overlap, Begun
  <2>1. q # r /\ Stays(q)
    BY <1>1
  <2>2. u \in AiUsers
    BY <1>0, <2>1 DEF AdmittedBelowLimit, Stays
  <2>3. CASE u = w
    <3>1. r \in spree'[u] /\ r \notin before'[q]
      BY <1>1, <1>4, <2>3 DEF Served, Verdicts
    <3>2. QED
      BY <2>2, <3>1
  <2>4. CASE u # w
    <3>1. spree'[u] = spree[u] /\ (Apart(spree[u])' => Apart(spree[u]))
      BY <1>0, <1>4, <2>2, <2>4, WereApart, SpreeIsFinite
    <3>2. QED
      BY <1>0, <2>1, <2>2, <3>1 DEF AdmittedBelowLimit, Stays
  <2>5. QED
    BY <2>3, <2>4
<1>12. AiLimit'
  <2> SUFFICES ASSUME NEW u \in AiUsers, Cardinality(spree'[u]) > AiMax
               PROVE  \E x, y \in spree'[u] : Overlap(x, y)'
    BY DEF AiLimit
  <2>1. CASE u # w
    <3>1. spree'[u] = spree[u] /\ spree[u] \in SUBSET Requests
      BY <1>0, <1>4, <2>1, SpreeIsFinite
    <3>2. PICK x \in spree[u], y \in spree[u] : Overlap(x, y)
      BY <1>0, <3>1 DEF AiLimit
    <3>3. QED
      BY <3>1, <3>2, OverlapStands
  <2>2. CASE u = w /\ Apart(spree[u])'
    <3>1. spree'[w] \in SUBSET Requests
      BY <1>2, <1>9
    <3>2. Apart(spree[w]) /\ spree[w] \subseteq before[r]
      BY <1>4, <1>6, <2>2, <3>1
    <3>3. QED
      BY <1>5, <1>7, <2>2, <3>2, AiAssumption
  <2>3. CASE u = w /\ ~Apart(spree[u])'
    BY <2>3 DEF Apart
  <2>4. QED
    BY <2>1, <2>2, <2>3
<1>13. QED
  BY <1>10, <1>11, <1>12 DEF AiInv

\* An hour goes by: the spree is over and the row is idle.
LEMMA HourGoesBy ==
    ASSUME Served, AiInv, Onward, Foreign(AiOps, AiWaits), NEW w \in AiUsers, IdleHour(w)
    PROVE  AiInv'
<1> DEFINE Row == [id : Requests, count : Nat, idle : BOOLEAN]
<1>0. RowCounts /\ AdmittedBelowLimit /\ AiLimit
  BY DEF AiInv
<1>1. /\ spree' = [spree EXCEPT ![w] = {}] /\ spree \in [AiUsers -> SUBSET Requests]
      /\ w \in DOMAIN limits /\ UNCHANGED serverVars
  BY <1>0 DEF IdleHour, RowCounts
<1>2. spree'[w] = {} /\ \A u \in AiUsers \ {w} : spree'[u] = spree[u]
  BY <1>1
<1>3. Cardinality(spree'[w]) = 0
  BY <1>2, FS_EmptySet
<1>4. /\ DOMAIN limits' = DOMAIN limits /\ limits' \in [DOMAIN limits -> Row]
      /\ \A u \in DOMAIN limits : u # w => limits'[u] = limits[u]
      /\ limits'[w].idle
  <2>1. limits \in [DOMAIN limits -> Row]
    BY <1>0 DEF RowCounts
  <2> DEFINE row == [limits[w] EXCEPT !.idle = TRUE]
  <2>2. row \in Row /\ row.idle
    BY <1>1, <2>1
  <2>3. limits' = [v \in DOMAIN limits \cup {w} |-> IF v = w THEN row ELSE limits[v]]
    BY DEF IdleHour, PutLimit
  <2> HIDE DEF row, Row
  <2>4. QED
    BY <1>1, <2>1, <2>2, <2>3
<1>5. ASSUME NEW u \in AiUsers, Apart(spree[u])'
      PROVE  u # w => Apart(spree[u])
  BY <1>0, <1>2, <1>5, WereApart, SpreeIsFinite
<1>6. RowCounts'
  <2>1. spree' \in [AiUsers -> SUBSET Requests]
    BY <1>1
  <2>2. ASSUME NEW u \in AiUsers, u # w
        PROVE  /\ u \notin DOMAIN limits' \/ limits'[u].idle => spree'[u] = {}
               /\ u \in DOMAIN limits' /\ Apart(spree[u])' => Cardinality(spree'[u]) <= limits'[u].count
               /\ \A r \in spree'[u] : pc'[r] \notin {"idle", "counting"}
    BY <1>0, <1>1, <1>2, <1>4, <1>5, <2>2 DEF RowCounts, serverVars
  <2>3. limits'[w].count \in Nat
    BY <1>1, <1>4
  <2>4. QED
    BY <1>1, <1>2, <1>3, <1>4, <2>1, <2>2, <2>3 DEF RowCounts
<1>7. AdmittedBelowLimit'
  <2> SUFFICES ASSUME NEW q \in Requests, pc'[q] = "counting", NEW u, u = call'[q].who
               PROVE  /\ u \in AiUsers
                      /\ saw'[q] # Nothing /\ Apart(spree[u])' /\ spree'[u] \subseteq before'[q] =>
                            \/ saw'[q].idle /\ spree'[u] = {}
                            \/ ~saw'[q].idle /\ Cardinality(spree'[u]) < AiMax
    BY DEF AdmittedBelowLimit, Apart, Overlap, Begun
  <2>1. Stays(q)
    BY CountingStays
  <2>2. u \in AiUsers
    BY <1>0, <2>1 DEF AdmittedBelowLimit, Stays
  <2>3. CASE u = w
    BY <1>2, <1>3, <2>2, <2>3, AiAssumption
  <2>4. CASE u # w
    BY <1>0, <1>2, <1>5, <2>1, <2>2, <2>4 DEF AdmittedBelowLimit, Stays
  <2>5. QED
    BY <2>3, <2>4
<1>8. AiLimit'
  <2> SUFFICES ASSUME NEW u \in AiUsers, Cardinality(spree'[u]) > AiMax
               PROVE  \E x, y \in spree'[u] : Overlap(x, y)'
    BY DEF AiLimit
  <2>1. u # w
    BY <1>3, AiAssumption
  <2>2. spree'[u] = spree[u] /\ spree[u] \in SUBSET Requests
    BY <1>0, <1>2, <2>1, SpreeIsFinite
  <2>3. PICK x \in spree[u], y \in spree[u] : Overlap(x, y)
    BY <1>0, <2>2 DEF AiLimit
  <2>4. QED
    BY <2>2, <2>3, OverlapStands
<1>9. QED
  BY <1>6, <1>7, <1>8 DEF AiInv

\* The row of the limit counts what was admitted, and what a request has read
\* of it holds good unless another one overtakes it: in every state.
THEOREM LimitInvariant == Spec => []AiInv
<1>1. Init => AiInv
  <2> SUFFICES ASSUME Init PROVE AiInv
    OBVIOUS
  <2>1. /\ limits = <<>> /\ spree = [u \in AiUsers |-> {}] /\ \A r \in Requests : pc[r] = "idle"
    BY DEF Init, AiInit, ServerInit
  <2>2. limits \in [DOMAIN limits -> [id : Requests, count : Nat, idle : BOOLEAN]]
        /\ DOMAIN limits = {}
    BY <2>1
  <2>3. RowCounts
    BY <2>1, <2>2 DEF RowCounts
  <2>4. AdmittedBelowLimit
    BY <2>1 DEF AdmittedBelowLimit
  <2>5. AiLimit
    BY <2>1, FS_EmptySet, AiAssumption DEF AiLimit
  <2>6. QED
    BY <2>3, <2>4, <2>5 DEF AiInv
<1>2. Served /\ AiInv /\ [Next]_appVars => AiInv'
  <2> SUFFICES ASSUME Served, AiInv, [Next]_appVars PROVE AiInv'
    OBVIOUS
  <2>1. ASSUME NEW r \in Requests, AiStep(r)
        PROVE  AiInv'
    <3>1. Onward
      BY <2>1, AiMoves, MovesGoOnward DEF AiWaits, Verdicts
    <3>2. \A q \in Requests \ {r} : Stays(q)
      BY <2>1, AiMoves DEF Moves
    <3>3. CASE CountRequest(r)
      BY <2>1, <3>1, <3>3, OneIsAdmitted
    <3>4. CASE pc[r] = "idle" /\ ReadsLimit(r)
      BY <3>1, <3>2, <3>4, NobodyAdmitted DEF ReadsLimit
    <3>5. CASE pc'[r] # "counting" /\ (DropsIdleRows \/ UNCHANGED <<limits, spree>>)
      BY <3>1, <3>2, <3>5, NobodyAdmitted DEF DropsIdleRows
    <3>6. QED
      BY <2>1, <3>3, <3>4, <3>5, AiStepKinds
  <2>2. ASSUME Foreign(AiOps, AiWaits), UNCHANGED aiVars
        PROVE  AiInv'
    BY <2>2, ForeignGoesOnward, CountingStays, NobodyAdmitted DEF aiVars
  <2>3. ASSUME Foreign(AiOps, AiWaits), NEW u \in AiUsers, IdleHour(u)
        PROVE  AiInv'
    BY <2>3, ForeignGoesOnward, HourGoesBy
  <2>4. QED
    BY <2>1, <2>2, <2>3, AiFrame
<1>3. QED
  BY <1>1, <1>2, ServedAlways, PTL DEF Spec

\* More than AiMax messages without an idle hour take two in flight together.
THEOREM LimitOfMessages == Spec => []AiLimit
<1>1. AiInv => AiLimit
  BY DEF AiInv
<1>2. QED
  BY <1>1, LimitInvariant, PTL

-----------------------------------------------------------------------------
(* Pushes: the rows of Notification. *)

\* Notifications are never taken back, addressed anew or unread again.
NotesStay ==
    /\ notes' \in Seq(ToSet(notes'))
    /\ \A i \in DOMAIN notes' : DOMAIN notes'[i] = {"to", "by", "read"}
    /\ \A i \in DOMAIN notes : /\ i \in DOMAIN notes'
                               /\ notes'[i].to = notes[i].to /\ notes'[i].by = notes[i].by
                               /\ notes[i].read => notes'[i].read

\* A sequence is one of the values in it.
LEMMA SeqOfItsValues ==
    ASSUME NEW S, NEW s \in Seq(S)
    PROVE  s \in Seq(ToSet(s))
<1>1. s \in [1 .. Len(s) -> S] /\ Len(s) \in Nat
  OBVIOUS
<1>2. s \in [1 .. Len(s) -> ToSet(s)]
  BY <1>1 DEF ToSet
<1>3. QED
  BY <1>1, <1>2

\* What StoreNotes may add.
NewNotes(us, r) == [to : us, by : {r}, read : {FALSE}]

\* Whoever is to have a notification gets one.
LEMMA EveryoneIsNoted ==
    ASSUME NEW us, IsFiniteSet(us), NEW r
    PROVE  /\ NotesFor(us, r) \in Seq(NewNotes(us, r))
           /\ \A u \in us : \E i \in DOMAIN NotesFor(us, r) : NotesFor(us, r)[i].to = u
<1> DEFINE n  == Cardinality(us)
           to == SetToSeq(us)
<1>1. n \in Nat /\ IsFiniteSet(1 .. n) /\ Cardinality(1 .. n) = n
  BY FS_CardinalityType, FS_Interval
<1>2. PICK f : f \in Bijection(1 .. n, us)
  BY FS_CardinalityType DEF ExistsBijection
<1>3. f \in [1 .. n -> us] /\ IsInjective(f)
  BY <1>2 DEF Bijection, Injection, IsInjective
<1>4. to \in [1 .. n -> us] /\ IsInjective(to)
  BY <1>3 DEF SetToSeq
<1>5. to \in Injection(1 .. n, us)
  BY <1>4 DEF Injection, IsInjective
<1>6. to \in Surjection(1 .. n, us)
  BY <1>1, <1>5, FS_Injection
<1>7. NotesFor(us, r) = [i \in 1 .. n |-> [to |-> to[i], by |-> r, read |-> FALSE]]
  BY <1>4 DEF NotesFor
<1> HIDE DEF n, to
<1>8. NotesFor(us, r) \in Seq(NewNotes(us, r))
  BY <1>1, <1>4, <1>7 DEF NewNotes
<1>9. \A u \in us : \E i \in 1 .. n : to[i] = u
  BY <1>6 DEF Surjection
<1>10. QED
  BY <1>7, <1>8, <1>9

\* They come after those that are there.
LEMMA NotesAreAdded ==
    ASSUME NotesAreRows, NEW us, IsFiniteSet(us), NEW r, notes' = notes \o NotesFor(us, r)
    PROVE  /\ NotesStay
           /\ \A u \in us : \E i \in DOMAIN notes' : notes'[i].to = u /\ notes'[i].by = r
<1> DEFINE new == NotesFor(us, r)
           S   == ToSet(notes) \cup NewNotes(us, r)
<1>1. /\ new \in Seq(NewNotes(us, r))
      /\ \A u \in us : \E i \in DOMAIN new : new[i].to = u
  BY EveryoneIsNoted
<1>2. notes \in Seq(ToSet(notes))
  BY DEF NotesAreRows
<1> HIDE DEF new
<1>3. notes \in Seq(S) /\ new \in Seq(S)
  BY <1>1, <1>2
<1>4. \A s \in S : DOMAIN s = {"to", "by", "read"}
  BY DEF NotesAreRows, ToSet, NewNotes
<1> HIDE DEF S
<1>5. /\ notes' \in Seq(S) /\ Len(notes') = Len(notes) + Len(new)
      /\ \A i \in 1 .. Len(notes) + Len(new) :
            notes'[i] = IF i <= Len(notes) THEN notes[i] ELSE new[i - Len(notes)]
  BY <1>3, ConcatProperties DEF new
<1>6. /\ Len(notes) \in Nat /\ Len(new) \in Nat
      /\ DOMAIN notes = 1 .. Len(notes) /\ DOMAIN new = 1 .. Len(new)
      /\ DOMAIN notes' = 1 .. Len(notes')
  BY <1>3, <1>5
<1>7. notes' \in Seq(ToSet(notes'))
  BY <1>5, SeqOfItsValues
<1>8. \A i \in DOMAIN notes' : DOMAIN notes'[i] = {"to", "by", "read"}
  BY <1>4, <1>5, <1>6
<1>9. ASSUME NEW u \in us
      PROVE  \E i \in DOMAIN notes' : notes'[i].to = u /\ notes'[i].by = r
  <2>1. PICK i \in DOMAIN new : new[i].to = u
    BY <1>1
  <2>2. new[i] \in NewNotes(us, r)
    BY <1>1, <1>6
  <2>3. Len(notes) + i \in DOMAIN notes' /\ notes'[Len(notes) + i] = new[i]
    BY <1>5, <1>6
  <2>4. QED
    BY <2>1, <2>2, <2>3 DEF NewNotes
<1>10. \A i \in DOMAIN notes : i \in DOMAIN notes' /\ notes'[i] = notes[i]
  BY <1>5, <1>6
<1>11. NotesStay
  BY <1>7, <1>8, <1>10 DEF NotesStay
<1>12. QED
  BY <1>9, <1>11

\* Reading one or all of them changes nothing else.
LEMMA NotesAreRead ==
    ASSUME NotesAreRows,
           \/ notes' = notes
           \/ \E i \in DOMAIN notes : notes' = [notes EXCEPT ![i].read = TRUE]
           \/ \E u : notes' = [i \in DOMAIN notes |-> [notes[i] EXCEPT !.read = @ \/ notes[i].to = u]]
    PROVE  NotesStay
<1>1. Len(notes) \in Nat /\ DOMAIN notes = 1 .. Len(notes)
  BY DEF NotesAreRows
<1>2. CASE notes' = notes
  BY <1>2 DEF NotesStay, NotesAreRows
<1>3. ASSUME NEW i \in DOMAIN notes, notes' = [notes EXCEPT ![i].read = TRUE]
      PROVE  NotesStay
  <2>1. /\ notes' = [j \in 1 .. Len(notes) |-> notes'[j]]
        /\ notes'[i] = [notes[i] EXCEPT !.read = TRUE]
        /\ \A j \in 1 .. Len(notes) : j # i => notes'[j] = notes[j]
    BY <1>1, <1>3 DEF NotesAreRows
  <2>2. notes' \in Seq(ToSet(notes'))
    BY <1>1, <2>1 DEF ToSet
  <2>3. QED
    BY <1>1, <2>1, <2>2 DEF NotesStay, NotesAreRows
<1>4. ASSUME NEW u,
             notes' = [i \in DOMAIN notes |-> [notes[i] EXCEPT !.read = @ \/ notes[i].to = u]]
      PROVE  NotesStay
  <2>1. /\ notes' = [j \in 1 .. Len(notes) |-> notes'[j]]
        /\ \A j \in 1 .. Len(notes) :
              notes'[j] = [notes[j] EXCEPT !.read = @ \/ notes[j].to = u]
    BY <1>1, <1>4 DEF NotesAreRows
  <2>2. notes' \in Seq(ToSet(notes'))
    BY <1>1, <2>1 DEF ToSet
  <2>3. QED
    BY <1>1, <2>1, <2>2 DEF NotesStay, NotesAreRows
<1>5. QED
  BY <1>2, <1>3, <1>4

-----------------------------------------------------------------------------
(* What the steps of NotificationService do to devices and sends. *)

\* A token is registered: the row moves to its new owner.
TakesDevice(r, u, t, id) ==
    /\ call'[r].op = "registerDevice" /\ call'[r].what = t /\ pc'[r] = "done"
    /\ devices' = [d \in DOMAIN devices \cup {t} |-> IF d = t THEN [user |-> u, id |-> id] ELSE devices[d]]
    /\ notes' = notes

\* A send reads the devices of its recipients.
ReadsDevices(r) ==
    /\ pc'[r] = "noting" /\ saw'[r] = DevicesOf(call'[r].what) /\ IsFiniteSet(call'[r].what)
    /\ UNCHANGED <<devices, notes>>

\* A request that has read no devices: it is about to, is about to remove one,
\* or is done with them.
WaitsForDevices(r) ==
    /\ pc'[r] = "collecting" => IsFiniteSet(call'[r].what)
    /\ pc'[r] = "removing" => call'[r].op = "removeDevice"
    /\ pc'[r] \notin {"noting", "pushing"} /\ devices' = devices
    /\ NotesStay

\* A device is removed.
DropsDevice(r) ==
    /\ pc[r] = "removing" /\ pc'[r] = "done" /\ notes' = notes
    /\ devices' = [d \in DOMAIN devices \ {call[r].what} |-> devices[d]]

\* A send stores a notification for each recipient, and pushes if there are devices.
StoresNotes(r) ==
    /\ pc[r] = "noting" /\ devices' = devices
    /\ notes' = notes \o NotesFor(call[r].what, r)
    /\ pc'[r] \in {"done", "pushing"}
    /\ pc'[r] = "pushing" => saw'[r] = saw[r]

\* The requests of DeviceController and the sends arrive.
LEMMA SendsArrive ==
    ASSUME Served, PushInv, NEW r \in Requests, pc[r] = "idle",
           DeviceRequest(r) \/ AdminSendRequest(r) \/ SendRequest(r)
    PROVE  (\E u, t, id : TakesDevice(r, u, t, id)) \/ ReadsDevices(r) \/ WaitsForDevices(r)
<1>0. NotesAreRows
  BY DEF PushInv
<1>1. CASE DeviceRequest(r)
  <2>1. PICK u \in Seeded, t \in Tokens : RegisterDevice(r, u, t) \/ RemoveDeviceById(r, u, t)
    BY <1>1 DEF DeviceRequest
  <2>2. CASE RegisterDevice(r, u, t)
    <3>1. Arrive(r, "registerDevice", u, t, "done", Nothing)
      BY <2>2 DEF RegisterDevice
    <3>2. pc'[r] = "done" /\ call'[r] = [op |-> "registerDevice", who |-> u, what |-> t]
      BY <3>1, ArriveAt
    <3>3. TakesDevice(r, u, t, IF t \in DOMAIN devices THEN devices[t].id ELSE r)
      BY <2>2, <3>2 DEF RegisterDevice, TakesDevice
    <3>4. QED
      BY <3>3
  <2>3. CASE RemoveDeviceById(r, u, t)
    <3>1. /\ Arrive(r, "removeDevice", u, t, "removing", devices[t].id)
          /\ UNCHANGED <<devices, notes>>
      BY <2>3 DEF RemoveDeviceById, pushVars
    <3>2. pc'[r] = "removing" /\ call'[r] = [op |-> "removeDevice", who |-> u, what |-> t]
      BY <3>1, ArriveAt
    <3>3. QED
      BY <1>0, <3>1, <3>2, NotesAreRead DEF WaitsForDevices
  <2>4. QED
    BY <2>1, <2>2, <2>3
<1>2. \A us \in SUBSET Seeded : IsFiniteSet(us)
  BY UsersAssumption, FS_Subset
<1>3. \A us \in SUBSET DOMAIN users : IsFiniteSet(us)
  BY <1>0, FS_Subset DEF NotesAreRows
<1>4. IsFiniteSet(Owners)
  <2>1. IsFiniteSet(DOMAIN devices)
    BY <1>0 DEF NotesAreRows
  <2> DEFINE own == [t \in DOMAIN devices |-> devices[t].user]
  <2>2. own \in Surjection(DOMAIN devices, Owners)
    BY DEF Surjection, Owners
  <2>3. QED
    BY <2>1, <2>2, FS_Surjection
<1>5. ASSUME NEW op, NEW us, IsFiniteSet(us), Send(r, op, us)
      PROVE  ReadsDevices(r)
  <2>1. /\ Arrive(r, op, Nothing, us, "noting", DevicesOf(us))
        /\ UNCHANGED <<devices, notes>>
    BY <1>5 DEF Send, pushVars
  <2>2. /\ pc'[r] = "noting" /\ call'[r] = [op |-> op, who |-> Nothing, what |-> us]
        /\ saw'[r] = IF "noting" \in Verdicts THEN Nothing ELSE DevicesOf(us)
    BY <2>1, ArriveAt
  <2>3. QED
    BY <1>5, <2>1, <2>2 DEF ReadsDevices, Verdicts
<1>6. CASE SendRequest(r)
  BY <1>2, <1>4, <1>5, <1>6 DEF SendRequest, SendToUser, SendToMany, Broadcast
<1>7. ASSUME NEW op, NEW us, IsFiniteSet(us), UNCHANGED pushVars,
             Arrive(r, op, Nothing, us, "collecting", Nothing)
      PROVE  WaitsForDevices(r)
  <2>1. pc'[r] = "collecting" /\ call'[r] = [op |-> op, who |-> Nothing, what |-> us]
    BY <1>7, ArriveAt
  <2>2. QED
    BY <1>0, <1>7, <2>1, NotesAreRead DEF WaitsForDevices, pushVars
<1>8. CASE AdminSendRequest(r)
  <2>1. ASSUME NEW u \in Seeded, AdminSendToUser(r, u)
        PROVE  ReadsDevices(r)
    BY <1>2, <1>5, <2>1 DEF AdminSendToUser
  <2>2. ASSUME NEW us \in SUBSET Seeded, AdminSendToMany(r, us)
        PROVE  WaitsForDevices(r)
    BY <1>3, <1>7, <2>2 DEF AdminSendToMany
  <2>3. CASE AdminBroadcast(r)
    BY <1>3, <1>7, <2>3 DEF AdminBroadcast, Active
  <2>4. QED
    BY <1>8, <2>1, <2>2, <2>3 DEF AdminSendRequest
<1>9. QED
  BY <1>1, <1>6, <1>8

\* Every step of NotificationService is one of these.
LEMMA PushStepKinds ==
    ASSUME Served, PushInv, NEW r \in Requests, PushStep(r)
    PROVE  /\ Moves(r, PushOps, PushWaits)
           /\ \/ \E u, t, id : TakesDevice(r, u, t, id)
              \/ ReadsDevices(r)
              \/ WaitsForDevices(r)
              \/ DropsDevice(r)
              \/ StoresNotes(r)
<1>0. NotesAreRows /\ Moves(r, PushOps, PushWaits)
  BY PushMoves DEF PushInv
<1>1. CASE IsNext(r) /\ (DeviceRequest(r) \/ AdminSendRequest(r) \/ SendRequest(r))
  BY <1>0, <1>1, SendsArrive DEF IsNext
<1>2. CASE IsNext(r) /\ InboxRequest(r)
  <2>1. PICK u \in Seeded : \/ \E unread \in BOOLEAN : ListMy(r, u, unread)
                            \/ \E i \in DOMAIN notes : MarkRead(r, u, i)
                            \/ MarkAllRead(r, u)
    BY <1>2 DEF InboxRequest
  <2>2. NotesStay /\ devices' = devices
    BY <1>0, <2>1, NotesAreRead DEF ListMy, MarkRead, MarkAllRead, pushVars
  <2>3. pc'[r] \in {"paging", "listed", "done"}
    <3>1. ASSUME NEW op, NEW what, NEW l, NEW read, Arrive(r, op, u, what, l, read)
          PROVE  pc'[r] = l
      BY <3>1 DEF Arrive, Served, WellFormed
    <3>2. QED
      BY <2>1, <3>1 DEF ListMy, MarkRead, MarkAllRead, After
  <2>4. QED
    BY <1>0, <2>2, <2>3 DEF WaitsForDevices
<1>3. CASE RemoveDevice(r)
  <2>1. pc[r] = "removing" /\ notes' = notes
    BY <1>3 DEF RemoveDevice
  <2>2. CASE call[r].what \in DOMAIN devices /\ devices[call[r].what].id = saw[r]
    BY <1>0, <1>3, <2>1, <2>2, AwaitAt DEF RemoveDevice, Leave, DropsDevice
  <2>3. CASE ~(call[r].what \in DOMAIN devices /\ devices[call[r].what].id = saw[r])
    BY <1>0, <1>3, <2>1, <2>3, AwaitAt, NotesAreRead DEF RemoveDevice, Leave, WaitsForDevices
  <2>4. QED
    BY <2>2, <2>3
<1>4. CASE CollectDevices(r)
  <2>1. IsFiniteSet(call[r].what)
    BY <1>0, <1>4 DEF NotesAreRows, CollectDevices
  <2>2. QED
    BY <1>0, <1>4, <2>1, AwaitAt DEF CollectDevices, ReadsDevices, DevicesOf, pushVars
<1>5. CASE StoreNotes(r)
  <2>1. pc[r] = "noting" /\ notes' = notes \o NotesFor(call[r].what, r) /\ devices' = devices
    BY <1>5 DEF StoreNotes
  <2>2. Await(r, "done", Nothing) \/ Await(r, "pushing", saw[r])
    BY <1>5 DEF StoreNotes, Leave
  <2>3. \/ pc'[r] = "done"
        \/ pc'[r] = "pushing" /\ saw'[r] = saw[r]
    BY <2>2, AwaitAt
  <2>4. QED
    BY <1>0, <2>1, <2>3 DEF StoresNotes
<1>6. CASE SendMulticast(r) \/ NextPage(r)
  <2>1. pc'[r] \in {"done", "paging", "listed"} /\ UNCHANGED <<devices, notes>>
    BY <1>6, AwaitAt DEF SendMulticast, NextPage, After, Leave, pushVars
  <2>2. QED
    BY <1>0, <2>1, NotesAreRead DEF WaitsForDevices
<1>7. QED
  BY <1>0, <1>1, <1>2, <1>3, <1>4, <1>5, <1>6 DEF PushStep

\* Nothing else touches devices, sends or notes.
LEMMA PushFrame ==
    ASSUME Served, PushInv, [Next]_appVars
    PROVE  \/ \E r \in Requests : PushStep(r)
           \/ Foreign(PushOps, PushWaits) /\ devices' = devices /\ NotesStay
<1>0. NotesAreRows
  BY DEF PushInv
<1>1. UNCHANGED pushVars => devices' = devices /\ NotesStay
  BY <1>0, NotesAreRead DEF pushVars
<1>2. ASSUME NEW r \in Requests, Handle(r), ~PushStep(r)
      PROVE  Foreign(PushOps, PushWaits) /\ devices' = devices /\ NotesStay
  <2>1. CASE UsersStep(r) /\ UNCHANGED pushVars
    BY <1>1, <2>1, UsersMoves, MovesAreForeign
       DEF PushOps, PushWaits, UserOps, UserWaits, Rest, Verdicts
  <2>2. CASE AuthStep(r) /\ UNCHANGED pushVars
    BY <1>1, <2>2, AuthMoves, MovesAreForeign
       DEF PushOps, PushWaits, AuthOps, Logins, AuthWaits, Rest, Verdicts
  <2>3. CASE AiStep(r) /\ UNCHANGED pushVars
    BY <1>1, <2>3, AiMoves, MovesAreForeign
       DEF PushOps, PushWaits, AiOps, AiWaits, Rest, Verdicts
  <2>4. CASE CatalogueStep(r) /\ UNCHANGED pushVars
    BY <1>1, <2>4, CatalogueMoves, MovesAreForeign
       DEF PushOps, PushWaits, CatalogueOps, CatalogueWaits, Rest, Verdicts
  <2>5. CASE LessonsStep(r) /\ UNCHANGED pushVars
    BY <1>1, <2>5, LessonsMoves, MovesAreForeign
       DEF PushOps, PushWaits, LessonOps, LessonWaits, Rest, Verdicts
  <2>6. CASE BookRagStep(r) /\ UNCHANGED pushVars
    BY <1>1, <2>6, BookRagMoves, MovesAreForeign
       DEF PushOps, PushWaits, RagOps, RagWaits, Rest, Verdicts
  <2>7. QED
    BY <1>2, <2>1, <2>2, <2>3, <2>4, <2>5, <2>6 DEF Handle, AiStep
<1>3. CASE Halts /\ (NoTableChanges \/ Crash \/ Pass)
  <2>1. UNCHANGED pushVars
    BY <1>3 DEF NoTableChanges, Crash, Pass, IdleHour
  <2>2. QED
    BY <1>1, <1>3, <2>1, HaltsIsForeign
<1>4. QED
  BY <1>2, <1>3, StepKinds

-----------------------------------------------------------------------------
(* What the awaits of NotificationService can rely on. *)

\* What PushInv says of one request.
SendHolds(r) ==
    /\ pc[r] \in {"collecting", "noting"} => IsFiniteSet(call[r].what)
    /\ pc[r] = "removing" => call[r].op = "removeDevice"
    /\ pc[r] \in {"noting", "pushing"} => \A t \in saw[r] :
          \/ t \in DOMAIN devices /\ devices[t].user \in call[r].what
          \/ ChangesHands(t, r)
    /\ pc[r] = "pushing" => \A u \in call[r].what :
          \E i \in DOMAIN notes : notes[i].by = r /\ notes[i].to = u

\* The devices as they were, but for a token that changes hands under r.
DevicesStayFor(r) ==
    \A t \in DOMAIN devices :
        \/ t \in DOMAIN devices' /\ devices'[t] = devices[t]
        \/ ChangesHands(t, r)'

\* A token that changed hands during r has done so for good.
LEMMA HandsStayChanged ==
    ASSUME Onward, NEW r \in Requests, NEW t, ChangesHands(t, r)
    PROVE  ChangesHands(t, r)'
<1>1. PICK q \in Requests : /\ Overlap(q, r) /\ call[q].what = t
                            /\ call[q].op \in {"registerDevice", "removeDevice"}
  BY DEF ChangesHands
<1>2. Overlap(q, r)' /\ call'[q] = call[q]
  BY <1>1, OverlapStands DEF Onward, Overlap, Begun
<1>3. QED
  BY <1>1, <1>2 DEF ChangesHands

\* A request keeps what it has, when another one acts.
LEMMA SendStays ==
    ASSUME PushInv, Onward, NotesStay, NEW r \in Requests,
           Stays(r) \/ pc'[r] \notin {"collecting", "noting", "removing", "pushing"},
           pc'[r] \in {"noting", "pushing"} => DevicesStayFor(r)
    PROVE  SendHolds(r)'
<1>1. CASE pc'[r] \notin {"collecting", "noting", "removing", "pushing"}
  BY <1>1 DEF SendHolds
<1>2. CASE Stays(r)
  <2>1. /\ pc[r] = "removing" => call[r].op = "removeDevice"
        /\ pc[r] \in {"collecting", "noting"} => IsFiniteSet(call[r].what)
    BY DEF PushInv, NotesAreRows, DevicesOfRecipients
  <2>2. ASSUME pc[r] \in {"noting", "pushing"}, NEW t \in saw[r]
        PROVE  \/ t \in DOMAIN devices' /\ devices'[t].user \in call[r].what
               \/ ChangesHands(t, r)'
    <3>1. CASE t \in DOMAIN devices /\ devices[t].user \in call[r].what
      BY <1>2, <2>2, <3>1 DEF DevicesStayFor, Stays
    <3>2. CASE ChangesHands(t, r)
      BY <3>2, HandsStayChanged
    <3>3. QED
      BY <2>2, <3>1, <3>2 DEF PushInv, DevicesOfRecipients
  <2>3. ASSUME pc[r] = "pushing", NEW u \in call[r].what
        PROVE  \E i \in DOMAIN notes' : notes'[i].by = r /\ notes'[i].to = u
    BY <2>3 DEF PushInv, NotedBeforePush, NotesStay
  <2>4. QED
    BY <1>2, <2>1, <2>2, <2>3 DEF SendHolds, Stays
<1>3. QED
  BY <1>1, <1>2

\* The invariant is that of every request, and the rows.
LEMMA EverySendHolds ==
    ASSUME NotesStay, IsFiniteSet(DOMAIN users'), IsFiniteSet(DOMAIN devices'),
           \A r \in Requests : SendHolds(r)'
    PROVE  PushInv'
BY DEF NotesStay, SendHolds, PushInv, NotesAreRows, DevicesOfRecipients, NotedBeforePush

\* A step of NotificationService.
LEMMA PushSteps ==
    ASSUME Served, PushInv, NEW r \in Requests, PushStep(r), IsFiniteSet(DOMAIN users')
    PROVE  PushInv'
<1>1. /\ Moves(r, PushOps, PushWaits) /\ Onward
      /\ \A q \in Requests \ {r} : Stays(q)
  BY PushMoves, MovesGoOnward DEF Moves, PushWaits, Verdicts
<1>2. pc[r] \notin Verdicts /\ pc'[r] # "idle"
  BY <1>1 DEF Moves, Begins, Runs, PushWaits, Rest, Verdicts
<1>3. NotesAreRows /\ IsFiniteSet(DOMAIN devices)
  BY DEF PushInv, NotesAreRows
<1>4. ASSUME NEW q \in Requests \ {r}, pc'[q] \in {"noting", "pushing"}
      PROVE  Overlap(r, q)'
  <2>1. q \in InFlight
    BY <1>1, <1>4 DEF Stays, InFlight, Begun, Ended, Verdicts
  <2>2. QED
    BY <1>1, <1>2, <2>1, MeetsInFlight
<1>5. ASSUME NEW t, call'[r].what = t, call'[r].op \in {"registerDevice", "removeDevice"},
             NEW q \in Requests \ {r}, pc'[q] \in {"noting", "pushing"}
      PROVE  ChangesHands(t, q)'
  BY <1>4, <1>5 DEF ChangesHands
<1>6. ASSUME NEW u, NEW t, NEW id, TakesDevice(r, u, t, id)
      PROVE  PushInv'
  <2>1. DOMAIN devices' = DOMAIN devices \cup {t}
    BY <1>6 DEF TakesDevice
  <2>2. IsFiniteSet(DOMAIN devices')
    BY <1>3, <2>1, FS_AddElement
  <2>3. \A q \in Requests \ {r} : pc'[q] \in {"noting", "pushing"} => DevicesStayFor(q)
    BY <1>5, <1>6 DEF TakesDevice, DevicesStayFor
  <2>4. NotesStay
    BY <1>3, <1>6, NotesAreRead DEF TakesDevice
  <2>5. pc'[r] = "done"
    BY <1>6 DEF TakesDevice
  <2>6. QED
    BY <1>1, <2>2, <2>3, <2>4, <2>5, SendStays, EverySendHolds
<1>7. CASE DropsDevice(r)
  <2>1. call'[r] = call[r] /\ call[r].op = "removeDevice" /\ pc'[r] = "done"
    BY <1>1, <1>7 DEF DropsDevice, Onward, PushInv, DevicesOfRecipients
  <2>2. DOMAIN devices' = DOMAIN devices \ {call[r].what}
    BY <1>7 DEF DropsDevice
  <2>3. IsFiniteSet(DOMAIN devices')
    BY <1>3, <2>2, FS_Subset
  <2>4. \A q \in Requests \ {r} : pc'[q] \in {"noting", "pushing"} => DevicesStayFor(q)
    BY <1>5, <1>7, <2>1 DEF DropsDevice, DevicesStayFor
  <2>5. NotesStay
    BY <1>3, <1>7, NotesAreRead DEF DropsDevice
  <2>6. QED
    BY <1>1, <2>1, <2>3, <2>4, <2>5, SendStays, EverySendHolds
<1>8. ASSUME devices' = devices, NotesStay, SendHolds(r)'
      PROVE  PushInv'
  <2>1. \A q \in Requests : DevicesStayFor(q)
    BY <1>8 DEF DevicesStayFor
  <2>2. QED
    BY <1>1, <1>3, <1>8, <2>1, SendStays, EverySendHolds
<1>9. CASE ReadsDevices(r)
  <2>1. NotesStay
    BY <1>3, <1>9, NotesAreRead DEF ReadsDevices
  <2>2. SendHolds(r)'
    BY <1>9 DEF ReadsDevices, SendHolds, DevicesOf
  <2>3. QED
    BY <1>8, <1>9, <2>1, <2>2 DEF ReadsDevices
<1>10. CASE WaitsForDevices(r)
  BY <1>8, <1>10 DEF WaitsForDevices, SendHolds
<1>11. CASE StoresNotes(r)
  <2>1. pc[r] = "noting" /\ call'[r] = call[r] /\ IsFiniteSet(call[r].what)
    BY <1>1, <1>3, <1>11 DEF StoresNotes, Onward, NotesAreRows
  <2>2. /\ NotesStay
        /\ \A u \in call[r].what : \E i \in DOMAIN notes' : notes'[i].to = u /\ notes'[i].by = r
    <3>1. notes' = notes \o NotesFor(call[r].what, r)
      BY <1>11 DEF StoresNotes
    <3>2. QED
      BY <1>3, <2>1, <3>1, NotesAreAdded
  <2>3. ASSUME NEW t \in saw[r]
        PROVE  \/ t \in DOMAIN devices' /\ devices'[t].user \in call[r].what
               \/ ChangesHands(t, r)'
    <3>1. CASE t \in DOMAIN devices /\ devices[t].user \in call[r].what
      BY <1>11, <3>1 DEF StoresNotes
    <3>2. CASE ChangesHands(t, r)
      BY <1>1, <3>2, HandsStayChanged
    <3>3. QED
      BY <2>1, <2>3, <3>1, <3>2 DEF PushInv, DevicesOfRecipients
  <2>4. SendHolds(r)'
    BY <1>11, <2>1, <2>2, <2>3 DEF StoresNotes, SendHolds
  <2>5. QED
    BY <1>8, <1>11, <2>2, <2>4 DEF StoresNotes
<1>12. QED
  BY <1>6, <1>7, <1>9, <1>10, <1>11, PushStepKinds

\* Every recipient has the notification a push announces, and every device the
\* push goes to is a recipient's, or has changed hands: in every state.
THEOREM PushInvariant == Spec => []PushInv
<1>1. Init => PushInv
  <2> SUFFICES ASSUME Init PROVE PushInv
    OBVIOUS
  <2>1. /\ devices = <<>> /\ notes = <<>> /\ DOMAIN users = Seeded
        /\ \A r \in Requests : pc[r] = "idle"
    BY DEF Init, PushInit, UsersInit, ServerInit
  <2>2. notes \in Seq(ToSet(notes)) /\ DOMAIN notes = {} /\ DOMAIN devices = {}
    BY <2>1
  <2>3. IsFiniteSet(DOMAIN users) /\ IsFiniteSet(DOMAIN devices)
    BY <2>1, <2>2, UsersAssumption, FS_EmptySet
  <2>4. QED
    BY <2>1, <2>2, <2>3 DEF PushInv, NotesAreRows, DevicesOfRecipients, NotedBeforePush
<1>2. Served /\ PushInv /\ [Next]_appVars => PushInv'
  <2> SUFFICES ASSUME Served, PushInv, [Next]_appVars PROVE PushInv'
    OBVIOUS
  <2>1. IsFiniteSet(DOMAIN users') /\ IsFiniteSet(DOMAIN devices)
    BY UsersAreCounted DEF PushInv, NotesAreRows
  <2>2. CASE \E r \in Requests : PushStep(r)
    BY <2>1, <2>2, PushSteps
  <2>3. CASE Foreign(PushOps, PushWaits) /\ devices' = devices /\ NotesStay
    <3>1. Onward
      BY <2>3, ForeignGoesOnward
    <3>2. \A r \in Requests :
             Stays(r) \/ pc'[r] \notin {"collecting", "noting", "removing", "pushing"}
      BY <2>3 DEF Foreign, Breaks, PushWaits
    <3>3. \A r \in Requests : DevicesStayFor(r)
      BY <2>3 DEF DevicesStayFor
    <3>4. QED
      BY <2>1, <2>3, <3>1, <3>2, <3>3, SendStays, EverySendHolds
  <2>4. QED
    BY <2>2, <2>3, PushFrame
<1>3. QED
  BY <1>1, <1>2, ServedAlways, PTL DEF Spec

\* Whoever's device rings finds the notification in the inbox.
THEOREM PushesGoHome == Spec => []PushGoesHome
<1>1. PushInv => PushGoesHome
  BY DEF PushInv, DevicesOfRecipients, NotedBeforePush, PushGoesHome
<1>2. QED
  BY <1>1, PushInvariant, PTL

-----------------------------------------------------------------------------
(* The administrators' tables. *)

\* A parent is of a kind whose rows do not go with others.
LEMMA KindsAreThese ==
    /\ Kinds = {"ageCategory", "trainingCategory", "lesson", "lessonBlock", "bookCategory", "book",
                "masterclassCategory", "masterclass", "masterclassBlock", "plan"}
    /\ ParentOf["lessonBlock"] = "lesson"
    /\ \A kind \in Kinds : ParentOf[kind] # Nothing => ParentOf[kind] \in Kinds \ Cascading
<1>1. Kinds = {"ageCategory", "trainingCategory", "lesson", "lessonBlock", "bookCategory", "book",
               "masterclassCategory", "masterclass", "masterclassBlock", "plan"}
  BY DEF Kinds, ParentOf
<1>2. QED
  BY <1>1 DEF ParentOf, Cascading

\* What CatalogueInv and EditsAreNamed say of one request, but for the row it inserted.
CallFits(r) ==
    LET new == call[r].what IN
    /\ pc[r] \in {"inserting", "updating"} => new.kind \in Kinds /\ new.data \in Contents(new.kind)
    /\ pc[r] = "updating" /\ new.kind \in Cascading => new.under = Nothing
    /\ pc[r] \in {"inserting", "updating", "erasing"} /\ new.kind = "lessonBlock"
          => call[r].op \in BlockEdits
    /\ pc[r] \in {"updating", "erasing"} /\ new.kind = "lesson" => call[r].op \in Edits

\* A request of these services writes nothing when it arrives.
LEMMA CatalogueArrives ==
    ASSUME Served, NEW r \in Requests, pc[r] = "idle", CatalogueRequest(r)
    PROVE  rows' = rows /\ CallFits(r)'
<1>1. ASSUME NEW op, NEW kind \in Kinds, CreateIn(r, op, kind),
             kind = "lessonBlock" => op \in BlockEdits
      PROVE  rows' = rows /\ CallFits(r)'
  <2>1. PICK under \in Ids(ParentOf[kind]) \cup {Nothing}, data \in Contents(kind) :
           Arrive(r, op, Nothing, [kind |-> kind, under |-> under, data |-> data],
                  "inserting", Nothing)
    BY <1>1 DEF CreateIn
  <2>2. /\ pc'[r] = "inserting"
        /\ call'[r] = [op |-> op, who |-> Nothing,
                       what |-> [kind |-> kind, under |-> under, data |-> data]]
    BY <2>1, ArriveAt
  <2>3. QED
    BY <1>1, <2>2 DEF CreateIn, CallFits
<1>2. ASSUME NEW op, NEW kind \in Kinds, UpdateIn(r, op, kind),
             kind = "lessonBlock" => op \in BlockEdits, kind = "lesson" => op \in Edits
      PROVE  rows' = rows /\ CallFits(r)'
  <2>1. PICK id \in Ids(kind), under \in Places(kind), data \in Contents(kind) :
           Arrive(r, op, Nothing, [id |-> id, kind |-> kind, under |-> under, data |-> data],
                  "updating", Nothing)
    BY <1>2 DEF UpdateIn
  <2>2. /\ pc'[r] = "updating"
        /\ call'[r] = [op |-> op, who |-> Nothing,
                       what |-> [id |-> id, kind |-> kind, under |-> under, data |-> data]]
    BY <2>1, ArriveAt
  <2>3. kind \in Cascading => under = Nothing
    BY <2>1 DEF Places
  <2>4. QED
    BY <1>2, <2>2, <2>3 DEF UpdateIn, CallFits
<1>3. ASSUME NEW op, NEW kind \in Kinds, RemoveFrom(r, op, kind),
             kind = "lessonBlock" => op \in BlockEdits, kind = "lesson" => op \in Edits
      PROVE  rows' = rows /\ CallFits(r)'
  <2>1. PICK id \in Ids(kind) :
           Arrive(r, op, Nothing, [id |-> id, kind |-> kind], "erasing", Nothing)
    BY <1>3 DEF RemoveFrom
  <2>2. /\ pc'[r] = "erasing"
        /\ call'[r] = [op |-> op, who |-> Nothing, what |-> [id |-> id, kind |-> kind]]
    BY <2>1, ArriveAt
  <2>3. QED
    BY <1>3, <2>2 DEF RemoveFrom, CallFits
<1>4. ASSUME NEW op, NEW kind, ListOf(r, op, kind)
      PROVE  rows' = rows /\ CallFits(r)'
  <2>1. pc'[r] \in {"turning", "listed"}
    BY <1>4 DEF ListOf, NextWait, Arrive, Served, WellFormed
  <2>2. QED
    BY <1>4, <2>1 DEF ListOf, CallFits
<1>5. CASE SoftDeletePlan(r)
  <2>1. PICK id \in Ids("plan") :
           Arrive(r, "softDeletePlan", Nothing,
                  [id |-> id, kind |-> "plan", under |-> Nothing, data |-> FALSE], "updating", Nothing)
    BY <1>5 DEF SoftDeletePlan
  <2>2. /\ pc'[r] = "updating" /\ rows' = rows
        /\ call'[r] = [op |-> "softDeletePlan", who |-> Nothing,
                       what |-> [id |-> id, kind |-> "plan", under |-> Nothing, data |-> FALSE]]
    BY <1>5, <2>1 DEF SoftDeletePlan, Arrive, Served, WellFormed
  <2>3. "plan" \in Kinds /\ FALSE \in Contents("plan")
    BY KindsAreThese DEF Contents
  <2>4. /\ call'[r].what.kind = "plan" /\ call'[r].what.data = FALSE
        /\ call'[r].what.under = Nothing
    BY <2>2
  <2>5. QED
    BY <2>2, <2>3, <2>4 DEF CallFits
<1>6. CASE AgeCategoryAdmin(r) \/ TrainingCategoryAdmin(r) \/ TrainingCategories(r)
  BY <1>1, <1>2, <1>3, <1>4, <1>6, KindsAreThese
     DEF AgeCategoryAdmin, CreateAgeCategory, UpdateAgeCategory, RemoveAgeCategory,
         TrainingCategoryAdmin, CreateTrainingCategory, UpdateTrainingCategory,
         RemoveTrainingCategory, TrainingCategories, FindAllTrainingCategories
<1>7. CASE LessonAdmin(r) \/ LessonList(r) \/ LessonBlockAdmin(r)
  BY <1>1, <1>2, <1>3, <1>4, <1>7, KindsAreThese
     DEF LessonAdmin, CreateLesson, UpdateLesson, RemoveLesson, LessonList, FindAllLessons,
         LessonBlockAdmin, CreateLessonBlock, UpdateLessonBlock, RemoveLessonBlock,
         Edits, BlockEdits
<1>8. CASE Books(r)
  BY <1>1, <1>2, <1>3, <1>4, <1>8, KindsAreThese
     DEF Books, CreateBookCategory, UpdateBookCategory, DeleteBookCategory, FindAllBooks,
         CreateBook, UpdateBook, DeleteBook
<1>9. CASE MasterclassCategoryAdmin(r) \/ MasterclassCategories(r)
  BY <1>1, <1>2, <1>3, <1>4, <1>9, KindsAreThese
     DEF MasterclassCategoryAdmin, CreateMasterclassCategory, UpdateMasterclassCategory,
         RemoveMasterclassCategory, MasterclassCategories, FindAllMasterclassCategories
<1>10. CASE MasterclassAdmin(r) \/ Masterclasses(r) \/ MasterclassBlockAdmin(r)
  BY <1>1, <1>2, <1>3, <1>4, <1>10, KindsAreThese
     DEF MasterclassAdmin, CreateMasterclass, UpdateMasterclass, RemoveMasterclass,
         Masterclasses, FindAllMasterclasses, MasterclassBlockAdmin, CreateMasterclassBlock,
         UpdateMasterclassBlock, RemoveMasterclassBlock
<1>11. CASE Plans(r)
  BY <1>1, <1>2, <1>5, <1>11, KindsAreThese DEF Plans, CreatePlan, UpdatePlan
<1>12. QED
  BY <1>6, <1>7, <1>8, <1>9, <1>10, <1>11 DEF CatalogueRequest

-----------------------------------------------------------------------------
(* Writes. *)

\* What a write that op asked for does to the lessons there are.
LessonsChange(op) ==
    \A l \in Ids("lesson") :
        /\ l \in Ids("lesson")' => Blocks(l)' = Blocks(l) \/ op \in BlockEdits
        /\ \/ l \in Ids("lesson")' /\ rows'[l].data = rows[l].data /\ Blocks(l)' = Blocks(l)
           \/ op \in Edits

\* The blocks of a lesson, as rows.
BlockIds(l) == {c \in DOMAIN rows : rows[c].under = l /\ rows[c].kind = "lessonBlock"}

\* The same rows with the same contents are the same blocks.
LEMMA BlocksStay ==
    ASSUME NEW l, BlockIds(l)' = BlockIds(l),
           \A b \in BlockIds(l) : rows'[b].data = rows[b].data
    PROVE  Blocks(l)' = Blocks(l)
<1>1. Blocks(l) = {[id |-> b, data |-> rows[b].data] : b \in BlockIds(l)}
  BY DEF Blocks, BlockIds, Under
<1>2. Blocks(l)' = {[id |-> b, data |-> rows'[b].data] : b \in BlockIds(l)'}
  BY DEF Blocks, BlockIds, Under
<1>3. QED
  BY <1>1, <1>2

\* What a write keeps.
WriteFits(q) ==
    /\ RowsFit'
    /\ DOMAIN rows' \subseteq DOMAIN rows \cup {q}
    /\ q \in DOMAIN rows' => pc'[q] = "done"
    /\ LessonsChange(call[q].op)
    /\ Ids("lesson")' \subseteq Ids("lesson") \cup {q}

\* A new row.
LEMMA RowIsAdded ==
    ASSUME Served, RowsFit, NEW q \in Requests, CallFits(q), q \notin DOMAIN rows,
           InsertRow(q), rows' # rows
    PROVE  WriteFits(q)
<1> DEFINE new == call[q].what
<1>1. /\ Fits(new.kind, new.under) /\ pc[q] = "inserting"
      /\ rows' = [id \in DOMAIN rows \cup {q} |-> IF id = q THEN NewRow(new) ELSE rows[id]]
      /\ Leave(q, "done")
  BY DEF InsertRow
<1>2. /\ new.kind \in Kinds /\ new.data \in Contents(new.kind)
      /\ new.kind = "lessonBlock" => call[q].op \in BlockEdits
  BY <1>1 DEF CallFits
<1>3. pc'[q] = "done"
  BY <1>1, AwaitAt DEF Leave
<1>4. /\ DOMAIN rows' = DOMAIN rows \cup {q}
      /\ rows'[q] = NewRow(new)
      /\ \A id \in DOMAIN rows : rows'[id] = rows[id]
  BY <1>1
<1>5. /\ DOMAIN rows'[q] = {"kind", "under", "data", "at"}
      /\ rows'[q].kind = new.kind /\ rows'[q].under = new.under /\ rows'[q].data = new.data
  BY <1>4 DEF NewRow
<1>6. \A kind \in Kinds : Ids(kind) \subseteq Ids(kind)'
  BY <1>4 DEF Ids
<1>7. Ids("lesson")' \subseteq Ids("lesson") \cup {q}
  BY <1>4 DEF Ids
<1>8. RowsFit'
  <2>1. \A kind \in Kinds : ParentOf[kind] # Nothing => ParentOf[kind] \in Kinds
    BY KindsAreThese
  <2>2. Fits(rows[q].kind, rows[q].under)'
    BY <1>1, <1>2, <1>5, <1>6, <2>1 DEF Fits
  <2>3. ASSUME NEW id \in DOMAIN rows
        PROVE  Fits(rows[id].kind, rows[id].under)'
    <3>1. Fits(rows[id].kind, rows[id].under) /\ rows[id].kind \in Kinds
      BY DEF RowsFit
    <3>2. QED
      BY <1>4, <1>6, <2>1, <3>1 DEF Fits
  <2>4. DOMAIN rows' \subseteq Kinds \cup Requests
    BY <1>4 DEF RowsFit
  <2>5. ASSUME NEW id \in DOMAIN rows'
        PROVE  /\ DOMAIN rows'[id] = {"kind", "under", "data", "at"}
               /\ rows'[id].kind \in Kinds /\ rows'[id].data \in Contents(rows'[id].kind)
               /\ Fits(rows[id].kind, rows[id].under)'
    <3>1. CASE id = q
      BY <1>2, <1>5, <2>2, <3>1
    <3>2. CASE id # q
      BY <1>4, <2>3, <3>2 DEF RowsFit
    <3>3. QED
      BY <3>1, <3>2
  <2>6. QED
    BY <2>4, <2>5 DEF RowsFit
<1>9. ASSUME NEW l \in Ids("lesson")
      PROVE  Blocks(l)' = Blocks(l) \/ call[q].op \in BlockEdits
  <2>1. CASE new.kind = "lessonBlock"
    BY <1>2, <2>1
  <2>2. CASE new.kind # "lessonBlock"
    <3>1. BlockIds(l)' = BlockIds(l)
      BY <1>4, <1>5, <2>2 DEF BlockIds
    <3>2. QED
      BY <1>4, <3>1, BlocksStay DEF BlockIds
  <2>3. QED
    BY <2>1, <2>2
<1>10. LessonsChange(call[q].op)
  BY <1>4, <1>9 DEF LessonsChange, Ids, Edits
<1>11. QED
  BY <1>3, <1>4, <1>7, <1>8, <1>10 DEF WriteFits

\* A row that is changed.
LEMMA RowIsChanged ==
    ASSUME Served, RowsFit, NEW q \in Requests, CallFits(q), q \notin DOMAIN rows,
           UpdateRow(q), rows' # rows
    PROVE  WriteFits(q)
<1> DEFINE new == call[q].what
           was == rows[new.id]
<1>1. /\ new.id \in Ids(new.kind) /\ (new.under # Nothing => Fits(new.kind, new.under))
      /\ rows' = [rows EXCEPT ![new.id] = Changed(@, new)] /\ pc[q] = "updating"
  BY DEF UpdateRow
<1>2. /\ new.kind \in Kinds /\ new.data \in Contents(new.kind)
      /\ new.kind = "lessonBlock" => call[q].op \in BlockEdits
      /\ new.kind = "lesson" => call[q].op \in Edits
  BY <1>1 DEF CallFits
<1>3. new.id \in DOMAIN rows /\ was.kind = new.kind
  BY <1>1 DEF Ids
<1>4. /\ DOMAIN rows' = DOMAIN rows /\ rows'[new.id] = Changed(was, new)
      /\ \A id \in DOMAIN rows \ {new.id} : rows'[id] = rows[id]
  BY <1>1, <1>3
<1>5. /\ DOMAIN rows'[new.id] = {"kind", "under", "data", "at"}
      /\ rows'[new.id].kind = new.kind /\ rows'[new.id].data = new.data
      /\ rows'[new.id].under = IF new.under = Nothing THEN was.under ELSE new.under
  <2>1. DOMAIN was = {"kind", "under", "data", "at"}
    BY <1>3 DEF RowsFit
  <2>2. QED
    BY <1>3, <1>4, <2>1 DEF Changed
<1>6. \A kind : Ids(kind)' = Ids(kind)
  BY <1>3, <1>4, <1>5 DEF Ids
<1>7. RowsFit'
  <2>1. Fits(rows[new.id].kind, rows[new.id].under)
    BY <1>3 DEF RowsFit
  <2>2. ASSUME NEW id \in DOMAIN rows'
        PROVE  /\ DOMAIN rows'[id] = {"kind", "under", "data", "at"}
               /\ rows'[id].kind \in Kinds /\ rows'[id].data \in Contents(rows'[id].kind)
               /\ Fits(rows[id].kind, rows[id].under)'
    <3>1. CASE id = new.id
      BY <1>1, <1>2, <1>3, <1>5, <1>6, <2>1, <3>1 DEF Fits
    <3>2. CASE id # new.id
      BY <1>4, <1>6, <3>2 DEF RowsFit, Fits, Ids
    <3>3. QED
      BY <3>1, <3>2
  <2>3. QED
    BY <1>4, <2>2 DEF RowsFit
<1>8. ASSUME NEW l \in Ids("lesson"), new.kind # "lessonBlock"
      PROVE  Blocks(l)' = Blocks(l)
  <2>1. BlockIds(l)' = BlockIds(l)
    BY <1>3, <1>4, <1>5, <1>8 DEF BlockIds
  <2>2. QED
    BY <1>3, <1>4, <1>8, <2>1, BlocksStay DEF BlockIds
<1>9. ASSUME NEW l \in Ids("lesson"), new.kind # "lesson"
      PROVE  l \in Ids("lesson")' /\ rows'[l].data = rows[l].data
  BY <1>3, <1>4, <1>6, <1>9 DEF Ids
<1>10. LessonsChange(call[q].op)
  BY <1>2, <1>8, <1>9 DEF LessonsChange, Edits
<1>11. QED
  BY <1>4, <1>6, <1>7, <1>10 DEF WriteFits

\* A row that goes, with its blocks.
LEMMA RowIsErased ==
    ASSUME Served, RowsFit, NEW q \in Requests, CallFits(q), q \notin DOMAIN rows,
           EraseRow(q), rows' # rows
    PROVE  WriteFits(q)
<1> DEFINE id == call[q].what.id
           kind == call[q].what.kind
           gone == {id} \cup Under(id)
<1>1. /\ id \in Ids(kind) /\ ~Restricted(id) /\ KeepAllBut(gone) /\ pc[q] = "erasing"
  BY DEF EraseRow
<1>2. /\ kind = "lessonBlock" => call[q].op \in BlockEdits
      /\ kind = "lesson" => call[q].op \in Edits
  BY <1>1 DEF CallFits
<1>3. /\ DOMAIN rows' = DOMAIN rows \ gone
      /\ \A c \in DOMAIN rows' : rows'[c] = rows[c]
  BY <1>1 DEF KeepAllBut
<1>4. id \in DOMAIN rows /\ rows[id].kind = kind
  BY <1>1 DEF Ids
<1>5. \A c \in Under(id) : c \in DOMAIN rows /\ rows[c].under = id /\ rows[c].kind \in Cascading
  BY <1>1 DEF Restricted, Under
<1>6. \A k : Ids(k)' \subseteq Ids(k)
  BY <1>3 DEF Ids
<1>7. RowsFit'
  <2>1. ASSUME NEW c \in DOMAIN rows'
        PROVE  Fits(rows[c].kind, rows[c].under)'
    <3>1. c \in DOMAIN rows /\ rows[c].kind \in Kinds /\ Fits(rows[c].kind, rows[c].under)
      BY <1>3 DEF RowsFit
    <3>2. CASE ParentOf[rows[c].kind] = Nothing
      BY <1>3, <3>1, <3>2 DEF Fits
    <3>3. CASE ParentOf[rows[c].kind] # Nothing
      <4> DEFINE p == rows[c].under
      <4>1. p \in Ids(ParentOf[rows[c].kind]) /\ ParentOf[rows[c].kind] \notin Cascading
        BY <3>1, <3>3, KindsAreThese DEF Fits, Ids
      <4>2. p \in DOMAIN rows /\ rows[p].kind \notin Cascading
        BY <4>1 DEF Ids
      <4>3. p # id
        BY <1>3, <3>1 DEF Under
      <4>4. p \in DOMAIN rows'
        BY <1>3, <1>5, <4>2, <4>3
      <4>5. QED
        BY <1>3, <3>1, <3>3, <4>1, <4>4 DEF Fits, Ids
    <3>4. QED
      BY <3>2, <3>3
  <2>2. QED
    BY <1>3, <2>1 DEF RowsFit
<1>8. ASSUME NEW l \in Ids("lesson"), kind # "lessonBlock", l # id
      PROVE  Blocks(l)' = Blocks(l)
  <2>1. BlockIds(l) \cap gone = {}
    BY <1>4, <1>5, <1>8 DEF BlockIds
  <2>2. BlockIds(l)' = BlockIds(l)
    BY <1>3, <2>1 DEF BlockIds
  <2>3. QED
    BY <1>3, <2>2, BlocksStay DEF BlockIds
<1>9. ASSUME NEW l \in Ids("lesson"), l # id
      PROVE  l \in Ids("lesson")' /\ rows'[l].data = rows[l].data
  <2>1. l \notin gone
    BY <1>5, <1>9 DEF Ids, Cascading
  <2>2. QED
    BY <1>3, <2>1 DEF Ids
<1>10. id \notin DOMAIN rows'
  BY <1>3
<1>11. LessonsChange(call[q].op)
  <2>1. CASE kind = "lessonBlock"
    BY <1>2, <2>1 DEF LessonsChange, Edits
  <2>2. CASE kind # "lessonBlock"
    BY <1>2, <1>4, <1>8, <1>9, <1>10, <2>2 DEF LessonsChange, Ids
  <2>3. QED
    BY <2>1, <2>2
<1>12. QED
  BY <1>3, <1>6, <1>7, <1>11 DEF WriteFits

\* A step of these services writes a row as it should, or none.
LEMMA CatalogueWrites ==
    ASSUME Served, RowsFit, NEW q \in Requests, CallFits(q), CatalogueStep(q),
           q \in DOMAIN rows => pc[q] = "done"
    PROVE  /\ CallFits(q)'
           /\ pc[q] # "done"
           /\ rows' = rows \/ (WriteFits(q) /\ pc[q] # "idle")
<1>1. CASE IsNext(q) /\ CatalogueRequest(q)
  <2>1. pc[q] = "idle"
    BY <1>1 DEF IsNext
  <2>2. rows' = rows /\ CallFits(q)'
    BY <1>1, <2>1, CatalogueArrives
  <2>3. QED
    BY <2>1, <2>2
<1>2. CASE InsertRow(q) \/ UpdateRow(q) \/ EraseRow(q)
  <2>1. pc[q] \in {"inserting", "updating", "erasing"} /\ q \notin DOMAIN rows
    BY <1>2 DEF InsertRow, UpdateRow, EraseRow
  <2>2. PICK verdict \in {"done", "conflict", "refused"} : Leave(q, verdict)
    BY <1>2 DEF InsertRow, UpdateRow, EraseRow
  <2>3. pc'[q] \in {"done", "conflict", "refused"}
    BY <2>2, AwaitAt DEF Leave
  <2>4. QED
    BY <1>2, <2>1, <2>3, RowIsAdded, RowIsChanged, RowIsErased DEF CallFits
<1>3. CASE TurnPage(q)
  <2>1. pc[q] = "turning" /\ pc'[q] \in {"turning", "listed"} /\ rows' = rows
    BY <1>3 DEF TurnPage, NextWait, Await, Served, WellFormed
  <2>2. QED
    BY <2>1 DEF CallFits
<1>4. QED
  BY <1>1, <1>2, <1>3 DEF CatalogueStep

-----------------------------------------------------------------------------
(* What LessonService can rely on between two queries. *)

\* What has been read of a lesson is so still, and shown as it should be.
ReadStands(r) ==
    LET l == call[r].what IN
    /\ pc[r] \in {"gating", "showing"} =>
          /\ call[r].who \in Seeded
          /\ \/ /\ l \in Ids("lesson")
                /\ pc[r] = "gating" => saw[r] = [free |-> rows[l].data, blocks |-> Blocks(l)]
             \/ Edited(r)
    /\ pc[r] = "showing" =>
          \/ r \in lapsed
          \/ Edited(r)
          \/ LET u == call[r].who IN
             saw[r] = {b \in Blocks(l) : b.data.free \/ rows[l].data \/ users[u].admin \/ u \in subscribed}

\* A lesson whose score is computed has been there, and the score is right.
ScoreStands(r) ==
    pc[r] \in {"scoring", "recording"} =>
        LET l == call[r].what.lesson IN
        /\ l \in Requests => pc[l] = "done"
        /\ pc[r] = "recording" /\ l \in Ids("lesson") =>
              saw[r] = IsCompleted(l, call[r].what.last) \/ BlocksEdited(r)

\* What the invariant says of one request.
LessonHolds(r) ==
    /\ CallFits(r)
    /\ r \in DOMAIN rows => pc[r] = "done"
    /\ ReadStands(r)
    /\ ScoreStands(r)

\* What it says of the rows that are written here.
ProgressHolds ==
    \A k \in DOMAIN progress :
        /\ k[2] \in Ids("lesson") /\ progress[k].by \in Ended
        /\ \/ progress[k].completed = IsCompleted(k[2], progress[k].last)
           \/ BlocksEdited(progress[k].by)

\* The invariant, request by request.
AllHold == RowsFit /\ SeededStay /\ ProgressHolds /\ \A r \in Requests : LessonHolds(r)

\* That is the same.
LEMMA InvIsOfEach == CatalogueInv /\ LessonsInv <=> AllHold
<1>1. ASSUME CatalogueInv, LessonsInv
      PROVE  \A r \in Requests : LessonHolds(r)
  BY <1>1 DEF CatalogueInv, CallsFit, LessonsInv, EditsAreNamed, LessonAsRead, ShownIsOpen,
              ScoreAsRead, LessonHolds, CallFits, ReadStands, ScoreStands
<1>2. ASSUME CatalogueInv, LessonsInv
      PROVE  RowsFit /\ SeededStay /\ ProgressHolds
  BY <1>2 DEF CatalogueInv, LessonsInv, ScoreAsRead, CompletionExplained, ProgressHolds
<1>3. ASSUME RowsFit, SeededStay, ProgressHolds, \A r \in Requests : LessonHolds(r)
      PROVE  CatalogueInv /\ LessonsInv
  <2>1. CatalogueInv /\ EditsAreNamed
    BY <1>3 DEF CatalogueInv, CallsFit, EditsAreNamed, LessonHolds, CallFits
  <2>2. LessonAsRead /\ ShownIsOpen
    BY <1>3 DEF LessonAsRead, ShownIsOpen, LessonHolds, ReadStands
  <2>3. ScoreAsRead /\ CompletionExplained
    BY <1>3 DEF ScoreAsRead, CompletionExplained, LessonHolds, ScoreStands, ProgressHolds
  <2>4. QED
    BY <1>3, <2>1, <2>2, <2>3 DEF LessonsInv
<1>4. QED
  BY <1>1, <1>2, <1>3 DEF AllHold

\* An edit is seen by those who are in flight, and remembered.
LEMMA EditIsSeen ==
    ASSUME Served, Onward, NEW q \in Requests, pc[q] \notin Verdicts, pc'[q] # "idle"
    PROVE  /\ call'[q].op \in Edits => \A r \in InFlight \ {q} : Edited(r)'
           /\ call'[q].op \in BlockEdits =>
                 \A r \in Begun \ {q} : BlocksEdited(r)'
<1>1. ASSUME NEW r \in InFlight \ {q}, call'[q].op \in Edits
      PROVE  Edited(r)'
  <2>1. r \in Requests
    BY DEF InFlight, Begun
  <2>2. QED
    BY <1>1, <2>1, MeetsInFlight DEF Edited
<1>2. ASSUME NEW r \in Begun \ {q}, call'[q].op \in BlockEdits
      PROVE  BlocksEdited(r)'
  <2>1. r \in Requests /\ before'[r] = before[r]
    BY DEF Onward, Begun
  <2>2. q \notin before'[r]
    BY <2>1 DEF Served
  <2>3. QED
    BY <1>2, <2>2 DEF BlocksEdited, Begun
<1>3. QED
  BY <1>1, <1>2

\* It remains so.
LEMMA EditsStand ==
    ASSUME Onward, NEW r \in Requests
    PROVE  /\ Edited(r) => Edited(r)'
           /\ BlocksEdited(r) /\ r \in Begun => BlocksEdited(r)'
<1>1. ASSUME Edited(r)
      PROVE  Edited(r)'
  <2>1. PICK q \in Requests : call[q].op \in Edits /\ Overlap(q, r)
    BY <1>1 DEF Edited
  <2>2. Overlap(q, r)' /\ call'[q] = call[q]
    BY <2>1, OverlapStands DEF Onward, Overlap, Begun
  <2>3. QED
    BY <2>1, <2>2 DEF Edited
<1>2. ASSUME BlocksEdited(r), r \in Begun
      PROVE  BlocksEdited(r)'
  BY <1>2 DEF BlocksEdited, Begun, Onward
<1>3. QED
  BY <1>1, <1>2

-----------------------------------------------------------------------------
(* Requests and rows that a step of another request leaves as they are. *)

\* What is so of the lessons for r, whoever acts.
StandsFor(r) ==
    /\ \A l \in Ids("lesson") :
          /\ l \in Ids("lesson")' => Blocks(l)' = Blocks(l) \/ BlocksEdited(r)'
          /\ \/ l \in Ids("lesson")' /\ rows'[l].data = rows[l].data /\ Blocks(l)' = Blocks(l)
             \/ r \in InFlight => Edited(r)'
    /\ \A l \in Ids("lesson")' \ Ids("lesson") : l \in Requests /\ pc[l] # "done"

\* And of its user's access.
AccessFor(r) ==
    \/ r \in InFlight => Edited(r)' \/ r \in lapsed'
    \/ \A u \in Seeded : u = call[r].who =>
          users'[u].admin = users[u].admin /\ (u \in subscribed' <=> u \in subscribed)

\* A write of a request is that.
LEMMA WritesStand ==
    ASSUME Served, Onward, NEW q \in Requests, pc[q] \notin Verdicts, pc'[q] # "idle",
           call'[q] = call[q], WriteFits(q), NEW r \in Begun \ {q}
    PROVE  StandsFor(r)
<1>1. /\ call[q].op \in Edits => (r \in InFlight => Edited(r)')
      /\ call[q].op \in BlockEdits => BlocksEdited(r)'
  BY EditIsSeen
<1>2. \A l \in Ids("lesson")' \ Ids("lesson") : l = q
  BY DEF WriteFits
<1>3. QED
  BY <1>1, <1>2 DEF WriteFits, LessonsChange, StandsFor, Verdicts

\* So is a step that does not touch the tables.
LEMMA UntouchedStand ==
    ASSUME rows' = rows, NEW r \in Requests
    PROVE  StandsFor(r)
BY DEF StandsFor, Ids, Blocks, Under

\* A request that waits here keeps what it has.
LEMMA ReadStays ==
    ASSUME Onward, NEW r \in Requests, LessonHolds(r), Stays(r), StandsFor(r), AccessFor(r),
           lapsed \subseteq lapsed'
    PROVE  ReadStands(r)'
<1> SUFFICES ASSUME NEW l, l = call[r].what, NEW u, u = call[r].who
             PROVE  ReadStands(r)'
  OBVIOUS
<1>1. CASE pc[r] \notin {"gating", "showing"}
  BY <1>1 DEF Stays, ReadStands
<1>2. CASE pc[r] \in {"gating", "showing"}
  <2>1. r \in InFlight /\ u \in Seeded
    BY <1>2 DEF LessonHolds, ReadStands, InFlight, Begun, Ended, Verdicts
  <2>2. CASE Edited(r)'
    BY <2>1, <2>2 DEF ReadStands, Stays
  <2>3. CASE ~Edited(r)'
    <3>1. ~Edited(r)
      BY <2>3, EditsStand
    <3>2. l \in Ids("lesson")
      BY <1>2, <3>1 DEF LessonHolds, ReadStands
    <3>3. l \in Ids("lesson")' /\ rows'[l].data = rows[l].data /\ Blocks(l)' = Blocks(l)
      BY <2>1, <2>3, <3>2 DEF StandsFor
    <3>4. /\ l = call'[r].what /\ u = call'[r].who
          /\ pc'[r] = pc[r] /\ saw'[r] = saw[r]
      BY DEF Stays
    <3>5. CASE pc[r] = "gating"
      <4>1. saw[r] = [free |-> rows[l].data, blocks |-> Blocks(l)]
        BY <3>1, <3>5 DEF LessonHolds, ReadStands
      <4>2. saw'[r] = [free |-> rows'[l].data, blocks |-> Blocks(l)']
        BY <3>3, <3>4, <4>1
      <4>3. QED
        BY <2>1, <3>3, <3>4, <3>5, <4>2 DEF ReadStands
    <3>6. CASE pc[r] = "showing"
      <4>1. CASE r \in lapsed'
        BY <2>1, <3>3, <3>4, <3>6, <4>1 DEF ReadStands
      <4>2. CASE r \notin lapsed'
        <5>1. saw[r] = {b \in Blocks(l) : b.data.free \/ rows[l].data \/ users[u].admin \/ u \in subscribed}
          BY <3>1, <3>6, <4>2 DEF LessonHolds, ReadStands
        <5>2. users'[u].admin = users[u].admin /\ (u \in subscribed' <=> u \in subscribed)
          BY <2>1, <2>3, <4>2 DEF AccessFor
        <5>3. saw'[r] = {b \in Blocks(l)' : b.data.free \/ rows'[l].data \/ users'[u].admin \/ u \in subscribed'}
          BY <3>3, <3>4, <5>1, <5>2
        <5>4. QED
          BY <2>1, <3>3, <3>4, <3>6, <5>3 DEF ReadStands
      <4>3. QED
        BY <4>1, <4>2
    <3>7. QED
      BY <1>2, <3>5, <3>6
  <2>4. QED
    BY <2>2, <2>3
<1>3. QED
  BY <1>1, <1>2

\* So does one that is about to record a score.
LEMMA ScoreStays ==
    ASSUME Onward, NEW r \in Requests, LessonHolds(r), Stays(r), StandsFor(r)
    PROVE  ScoreStands(r)'
<1> SUFFICES ASSUME NEW l, l = call[r].what.lesson, NEW last, last = call[r].what.last,
                    pc[r] \in {"scoring", "recording"}
             PROVE  ScoreStands(r)'
  BY DEF Stays, ScoreStands
<1>1. /\ l = call'[r].what.lesson /\ last = call'[r].what.last
      /\ pc'[r] = pc[r] /\ saw'[r] = saw[r]
  BY DEF Stays
<1>2. l \in Requests => pc[l] = "done"
  BY DEF LessonHolds, ScoreStands
<1>3. l \in Requests => pc'[l] = "done"
  BY <1>2 DEF Onward, Verdicts
<1>4. CASE pc[r] = "recording" /\ l \in Ids("lesson")'
  <2>1. l \in Ids("lesson") /\ r \in Begun
    BY <1>2, <1>4 DEF StandsFor, Begun
  <2>2. saw[r] = IsCompleted(l, last) \/ BlocksEdited(r)
    BY <1>4, <2>1 DEF LessonHolds, ScoreStands
  <2>3. Blocks(l)' = Blocks(l) \/ BlocksEdited(r)'
    BY <1>4, <2>1 DEF StandsFor
  <2>4. saw[r] = IsCompleted(l, last)' \/ BlocksEdited(r)'
    BY <2>1, <2>2, <2>3, EditsStand DEF IsCompleted
  <2>5. QED
    BY <1>1, <1>3, <1>4, <2>4 DEF ScoreStands
<1>5. QED
  BY <1>1, <1>3, <1>4 DEF ScoreStands

\* And what has been recorded stands.
LEMMA ProgressStays ==
    ASSUME Served, Onward, RowsFit, ProgressHolds, NEW k \in DOMAIN progress, k[2] \in Ids("lesson")',
           k \in DOMAIN progress', progress'[k] = progress[k], StandsFor(progress[k].by)
    PROVE  /\ progress'[k].by \in Ended'
           /\ \/ progress'[k].completed = IsCompleted(k[2], progress[k].last)'
              \/ BlocksEdited(progress[k].by)'
<1> SUFFICES ASSUME NEW l, l = k[2], NEW by, by = progress[k].by, NEW last, last = progress[k].last
             PROVE  /\ by \in Ended'
                    /\ \/ progress[k].completed = IsCompleted(l, last)'
                       \/ BlocksEdited(by)'
  BY DEF IsCompleted, BlocksEdited
<1>1. by \in Requests /\ by \in Ended /\ by \in Begun /\ l \in Ids("lesson")
  BY DEF ProgressHolds, Ended, Begun, Verdicts
<1>2. by \in Ended'
  BY <1>1 DEF Onward, Ended
<1>3. progress[k].completed = IsCompleted(l, last) \/ BlocksEdited(by)
  BY DEF ProgressHolds
<1>4. Blocks(l)' = Blocks(l) \/ BlocksEdited(by)'
  BY <1>1 DEF StandsFor
<1>5. QED
  BY <1>1, <1>2, <1>3, <1>4, EditsStand DEF IsCompleted

\* A request that does not act has what it had.
LEMMA OthersHold ==
    ASSUME Onward, NEW r \in Requests, LessonHolds(r), Stays(r),
           r \in Begun => StandsFor(r) /\ AccessFor(r),
           lapsed \subseteq lapsed', r \in DOMAIN rows' => r \in DOMAIN rows
    PROVE  LessonHolds(r)'
<1>1. CallFits(r)' /\ (r \in DOMAIN rows' => pc'[r] = "done")
  BY DEF LessonHolds, CallFits, Stays
<1>2. CASE r \in Begun
  BY <1>1, <1>2, ReadStays, ScoreStays DEF LessonHolds
<1>3. CASE r \notin Begun
  BY <1>1, <1>3 DEF LessonHolds, ReadStands, ScoreStands, Stays, Begun
<1>4. QED
  BY <1>2, <1>3

-----------------------------------------------------------------------------
(* The steps. *)

\* An administrator's role changes by adminUpdate alone, and rows of users stay.
LEMMA RolesStay ==
    ASSUME Served, SeededStay, [Next]_appVars
    PROVE  /\ SeededStay'
           /\ \/ \A u \in Seeded : users'[u].admin = users[u].admin
              \/ \E q \in Requests :
                    pc[q] = "idle" /\ pc'[q] = "done" /\ call'[q].op = "adminUpdate"
<1> DEFINE RolesKept == SeededStay' /\ \A u \in Seeded : users'[u].admin = users[u].admin
<1>1. UNCHANGED users => RolesKept
  BY DEF SeededStay
<1>2. ASSUME NEW u, NEW row, PutUser(u, row),
             u \in Seeded => row \in Profile /\ row.admin = users[u].admin
      PROVE  RolesKept
  BY <1>2 DEF PutUser, SeededStay
<1>3. ASSUME NEW r \in Requests, pc[r] = "idle", NEW u \in Seeded, NEW active \in BOOLEAN,
             NEW admin \in BOOLEAN, AdminUpdate(r, u, active, admin)
      PROVE  SeededStay' /\ pc[r] = "idle" /\ pc'[r] = "done" /\ call'[r].op = "adminUpdate"
  <2>1. pc[r] = "idle" /\ pc'[r] = "done" /\ call'[r].op = "adminUpdate"
    BY <1>3 DEF AdminUpdate, Arrive, Served, WellFormed
  <2>2. [users[u] EXCEPT !.active = active, !.admin = admin] \in Profile
    BY DEF SeededStay, Profile
  <2>3. SeededStay'
    BY <1>3, <2>2 DEF AdminUpdate, PutUser, SeededStay
  <2>4. QED
    BY <2>1, <2>3
<1>4. ASSUME NEW r \in Requests, NEW u \in Seeded, AdminSoftDelete(r, u)
      PROVE  RolesKept
  BY <1>2, <1>4 DEF AdminSoftDelete, SeededStay, Profile
<1>5. ASSUME NEW r \in Requests, VerifyUser(r) \/ LinkGoogle(r) \/ CreateUser(r)
      PROVE  RolesKept
  <2> DEFINE u == call[r].who
  <2>1. CASE VerifyUser(r)
    <3>1. PutUser(u, [users[u] EXCEPT !.verified = TRUE])
      BY <2>1 DEF VerifyUser
    <3>2. u \in Seeded => /\ [users[u] EXCEPT !.verified = TRUE] \in Profile
                          /\ [users[u] EXCEPT !.verified = TRUE].admin = users[u].admin
      BY DEF SeededStay, Profile
    <3>3. QED
      BY <1>2, <3>1, <3>2
  <2>2. CASE LinkGoogle(r)
    <3>1. PutUser(u, [users[u] EXCEPT !.google = TRUE])
      BY <2>2 DEF LinkGoogle
    <3>2. u \in Seeded => /\ [users[u] EXCEPT !.google = TRUE] \in Profile
                          /\ [users[u] EXCEPT !.google = TRUE].admin = users[u].admin
      BY DEF SeededStay, Profile
    <3>3. QED
      BY <1>2, <3>1, <3>2
  <2>3. CASE CreateUser(r)
    <3>1. CASE Exists(u)
      BY <1>1, <2>3, <3>1 DEF CreateUser
    <3>2. CASE ~Exists(u)
      <4>1. u \notin Seeded
        BY <3>2 DEF SeededStay, Exists
      <4>2. PICK row : PutUser(u, row)
        BY <2>3, <3>2 DEF CreateUser
      <4>3. QED
        BY <1>2, <4>1, <4>2
    <3>3. QED
      BY <3>1, <3>2
  <2>4. QED
    BY <1>5, <2>1, <2>2, <2>3
<1>6. QED
  BY <1>1, <1>3, <1>4, <1>5, UsersAreWritten DEF WritesUser, EditsUser

\* A step that concerns neither lessons nor the tables, but that a
\* subscription may end in.
Aside ==
    /\ Onward /\ rows' = rows /\ progress' = progress /\ lapsed \subseteq lapsed'
    /\ \A r \in Requests : Stays(r) \/ pc'[r] \notin LessonWaits \cup CatalogueWaits
    /\ \/ subscribed' = subscribed
       \/ \E u \in Seeded : /\ subscribed' = subscribed \ {u}
                            /\ {r \in InFlight : call[r].who = u} \subseteq lapsed'

\* Every other step is one.
LEMMA LessonFrame ==
    ASSUME Served, [Next]_appVars
    PROVE  \/ \E q \in Requests : CatalogueStep(q) /\ Cascade /\ UNCHANGED userVars
           \/ \E q \in Requests : LessonsStep(q)
           \/ Aside
<1>1. ASSUME Foreign(LessonOps, LessonWaits), Foreign(CatalogueOps, CatalogueWaits)
      PROVE  /\ Onward
             /\ \A r \in Requests : Stays(r) \/ pc'[r] \notin LessonWaits \cup CatalogueWaits
  <2>1. Onward
    BY <1>1, ForeignGoesOnward
  <2>2. QED
    BY <1>1, <2>1 DEF Foreign, Breaks, LessonWaits, CatalogueWaits
<1>2. ASSUME UNCHANGED <<rows, lessonVars>>, Foreign(LessonOps, LessonWaits),
             Foreign(CatalogueOps, CatalogueWaits)
      PROVE  Aside
  BY <1>1, <1>2 DEF Aside, lessonVars
<1>3. ASSUME NEW r \in Requests, Handle(r), ~LessonsStep(r),
             ~(CatalogueStep(r) /\ Cascade /\ UNCHANGED userVars)
      PROVE  Aside
  <2>1. CASE UsersStep(r) /\ UNCHANGED <<rows, lessonVars>>
    BY <1>2, <2>1, UsersMoves, MovesAreForeign
       DEF LessonOps, LessonWaits, CatalogueOps, CatalogueWaits, UserOps, UserWaits, Rest, Verdicts
  <2>2. CASE AuthStep(r) /\ UNCHANGED <<rows, lessonVars>>
    BY <1>2, <2>2, AuthMoves, MovesAreForeign
       DEF LessonOps, LessonWaits, CatalogueOps, CatalogueWaits, AuthOps, Logins, AuthWaits,
           Rest, Verdicts
  <2>3. CASE PushStep(r) /\ UNCHANGED <<rows, lessonVars>>
    BY <1>2, <2>3, PushMoves, MovesAreForeign
       DEF LessonOps, LessonWaits, CatalogueOps, CatalogueWaits, PushOps, PushWaits, Rest, Verdicts
  <2>4. CASE AiStep(r) /\ UNCHANGED <<rows, lessonVars>>
    BY <1>2, <2>4, AiMoves, MovesAreForeign
       DEF LessonOps, LessonWaits, CatalogueOps, CatalogueWaits, AiOps, AiWaits, Rest, Verdicts
  <2>5. CASE BookRagStep(r) /\ UNCHANGED lessonVars
    <3>1. UNCHANGED rows
      BY <2>5 DEF BookRagStep
    <3>2. QED
      BY <1>2, <2>5, <3>1, BookRagMoves, MovesAreForeign
         DEF LessonOps, LessonWaits, CatalogueOps, CatalogueWaits, RagOps, RagWaits, Rest, Verdicts
  <2>6. QED
    BY <1>3, <2>1, <2>2, <2>3, <2>4, <2>5 DEF Handle
<1>4. CASE Halts /\ (NoTableChanges \/ Crash \/ Pass)
  <2>1. Foreign(LessonOps, LessonWaits) /\ Foreign(CatalogueOps, CatalogueWaits)
    BY <1>4, HaltsIsForeign
  <2>2. CASE UNCHANGED <<rows, lessonVars>>
    BY <1>2, <2>1, <2>2
  <2>3. ASSUME NEW u \in Seeded, Lapse(u)
        PROVE  Aside
    BY <1>1, <2>1, <2>3 DEF Lapse, Aside
  <2>4. QED
    BY <1>4, <2>2, <2>3 DEF NoTableChanges, Crash, Pass
<1>5. QED
  BY <1>3, <1>4, StepKinds

\* Rows that were fit are fit where no table changes.
LEMMA UntouchedFit ==
    ASSUME RowsFit, rows' = rows
    PROVE  RowsFit' /\ Ids("lesson")' = Ids("lesson") /\ \A l : Blocks(l)' = Blocks(l)
BY DEF RowsFit, Fits, Ids, Blocks, Under

\* Progress that is not written stands where its lesson does.
LEMMA ProgressKept ==
    ASSUME Served, Onward, RowsFit, ProgressHolds, DOMAIN progress' \subseteq DOMAIN progress,
           \A k \in DOMAIN progress' : k[2] \in Ids("lesson")' /\ progress'[k] = progress[k],
           \A by \in Ended : StandsFor(by)
    PROVE  ProgressHolds'
<1> SUFFICES ASSUME NEW k \in DOMAIN progress'
             PROVE  (/\ k[2] \in Ids("lesson") /\ progress[k].by \in Ended
                     /\ \/ progress[k].completed = IsCompleted(k[2], progress[k].last)
                        \/ BlocksEdited(progress[k].by))'
  BY DEF ProgressHolds
<1>1. k \in DOMAIN progress /\ progress[k].by \in Ended
  BY DEF ProgressHolds
<1>2. StandsFor(progress[k].by)
  BY <1>1
<1>3. QED
  BY <1>1, <1>2, ProgressStays

\* A step of an administrator's service.
LEMMA CatalogueHolds ==
    ASSUME Served, AllHold, SeededStay', NEW q \in Requests, CatalogueStep(q), Cascade,
           UNCHANGED userVars
    PROVE  AllHold'
<1>1. /\ Moves(q, CatalogueOps, CatalogueWaits) /\ Onward
      /\ \A r \in Requests \ {q} : Stays(r)
  BY CatalogueMoves, MovesGoOnward DEF Moves, CatalogueWaits, Verdicts
<1>2. pc[q] \notin Verdicts /\ pc'[q] # "idle" /\ pc'[q] \notin LessonWaits
  BY <1>1 DEF Moves, Begins, Runs, CatalogueWaits, LessonWaits, Rest, Verdicts
<1>3. /\ CallFits(q)' /\ q \notin DOMAIN rows
      /\ rows' = rows \/ (WriteFits(q) /\ pc[q] # "idle")
  BY <1>2, CatalogueWrites DEF AllHold, LessonHolds, Verdicts
<1>4. RowsFit' /\ DOMAIN rows' \subseteq DOMAIN rows \cup {q} /\ (q \in DOMAIN rows' => pc'[q] = "done")
  BY <1>3, UntouchedFit DEF AllHold, WriteFits
<1>5. ASSUME NEW r \in Begun \ {q}
      PROVE  StandsFor(r) /\ AccessFor(r)
  <2>1. r \in Requests
    BY DEF Begun
  <2>2. StandsFor(r)
    BY <1>1, <1>2, <1>3, <2>1, UntouchedStand, WritesStand DEF Onward
  <2>3. AccessFor(r)
    BY DEF AccessFor, Cascade, userVars
  <2>4. QED
    BY <2>2, <2>3
<1>6. ASSUME NEW r \in Requests \ {q}
      PROVE  LessonHolds(r)'
  BY <1>1, <1>4, <1>5, OthersHold DEF AllHold, Cascade
<1>7. LessonHolds(q)'
  BY <1>2, <1>3, <1>4 DEF LessonHolds, ReadStands, ScoreStands, LessonWaits
<1>8. ProgressHolds'
  <2>1. /\ DOMAIN progress' \subseteq DOMAIN progress
        /\ \A k \in DOMAIN progress' : k[2] \in Ids("lesson")' /\ progress'[k] = progress[k]
    BY DEF Cascade
  <2>2. \A by \in Ended : by \in Begun \ {q}
    BY <1>2 DEF Ended, Begun, Verdicts
  <2>3. QED
    BY <1>1, <1>5, <2>1, <2>2, ProgressKept DEF AllHold
<1>9. QED
  BY <1>4, <1>6, <1>7, <1>8 DEF AllHold

\* A step aside.
LEMMA AsideHolds ==
    ASSUME Served, AllHold, Aside, SeededStay',
           \/ \A u \in Seeded : users'[u].admin = users[u].admin
           \/ \E q \in Requests :
                 pc[q] = "idle" /\ pc'[q] = "done" /\ call'[q].op = "adminUpdate"
    PROVE  AllHold'
<1>1. Onward /\ rows' = rows /\ progress' = progress /\ RowsFit'
  BY UntouchedFit DEF Aside, AllHold
<1>2. ASSUME NEW r \in Begun, Stays(r)
      PROVE  StandsFor(r) /\ AccessFor(r)
  <2>1. r \in Requests /\ StandsFor(r)
    BY <1>1, UntouchedStand DEF Begun
  <2>2. CASE \E q \in Requests :
                pc[q] = "idle" /\ pc'[q] = "done" /\ call'[q].op = "adminUpdate"
    <3>1. PICK q \in Requests : pc[q] = "idle" /\ pc'[q] = "done" /\ call'[q].op = "adminUpdate"
      BY <2>2
    <3>2. r # q
      BY <3>1 DEF Begun
    <3>3. r \in InFlight => Edited(r)'
      BY <1>1, <3>1, <3>2, EditIsSeen DEF Edits, Verdicts
    <3>4. QED
      BY <2>1, <3>3 DEF AccessFor
  <2>3. CASE \A u \in Seeded : users'[u].admin = users[u].admin
    BY <2>1, <2>3 DEF AccessFor, Aside
  <2>4. QED
    BY <2>2, <2>3
<1>3. ASSUME NEW r \in Requests
      PROVE  LessonHolds(r)'
  <2>1. CASE Stays(r)
    BY <1>1, <1>2, <2>1, OthersHold DEF AllHold, Aside
  <2>2. CASE pc'[r] \notin LessonWaits \cup CatalogueWaits
    BY <1>1, <2>2
       DEF AllHold, LessonHolds, CallFits, ReadStands, ScoreStands, LessonWaits, CatalogueWaits,
           Onward, Verdicts
  <2>3. QED
    BY <2>1, <2>2 DEF Aside
<1>4. ProgressHolds'
  <2>1. \A k \in DOMAIN progress' : k[2] \in Ids("lesson")' /\ progress'[k] = progress[k]
    BY <1>1, UntouchedFit DEF AllHold, ProgressHolds
  <2>2. \A by \in Ended : StandsFor(by)
    BY <1>1, UntouchedStand DEF Ended
  <2>3. QED
    BY <1>1, <2>1, <2>2, ProgressKept DEF AllHold
<1>5. QED
  BY <1>1, <1>3, <1>4 DEF AllHold

\* Progress is recorded as it was scored.
LEMMA ProgressIsRecorded ==
    ASSUME Served, Onward, AllHold, NEW q \in Requests, RecordProgress(q), rows' = rows
    PROVE  ProgressHolds'
<1>1. CASE call[q].what.lesson \notin Ids("lesson")
  <2>1. progress' = progress
    BY <1>1 DEF RecordProgress
  <2>2. \A k \in DOMAIN progress' : k[2] \in Ids("lesson")' /\ progress'[k] = progress[k]
    BY <2>1, UntouchedFit DEF AllHold, ProgressHolds
  <2>3. \A by \in Ended : StandsFor(by)
    BY UntouchedStand DEF Ended
  <2>4. QED
    BY <2>1, <2>2, <2>3, ProgressKept DEF AllHold
<1>2. CASE call[q].what.lesson \in Ids("lesson")
  <2> SUFFICES ASSUME NEW l, l = call[q].what.lesson, NEW last, last = call[q].what.last,
                      NEW key, key = <<call[q].who, call[q].what.lesson>>
               PROVE  ProgressHolds'
    OBVIOUS
  <2>1. /\ pc[q] = "recording" /\ Leave(q, "done")
        /\ progress' = [k \in DOMAIN progress \cup {key} |->
                           IF k = key THEN [last |-> last, completed |-> saw[q], by |-> q]
                                      ELSE progress[k]]
    BY <1>2 DEF RecordProgress
  <2>2. /\ DOMAIN progress' = DOMAIN progress \cup {key}
        /\ progress'[key] = [last |-> last, completed |-> saw[q], by |-> q]
        /\ \A k \in DOMAIN progress \ {key} : progress'[k] = progress[k]
    BY <2>1
  <2>3. l \in Ids("lesson")' /\ key[2] = l
    BY <1>2, UntouchedFit DEF AllHold
  <2>4. q \in Ended'
    BY <2>1, AwaitAt DEF Leave, Ended, Verdicts
  <2>5. saw[q] = IsCompleted(l, last) \/ BlocksEdited(q)
    BY <1>2, <2>1 DEF AllHold, LessonHolds, ScoreStands
  <2>6. saw[q] = IsCompleted(l, last)' \/ BlocksEdited(q)'
    <3>1. Blocks(l)' = Blocks(l)
      BY UntouchedFit DEF AllHold
    <3>2. q \in Begun
      BY <2>1 DEF Begun
    <3>3. QED
      BY <2>5, <3>1, <3>2, EditsStand DEF IsCompleted
  <2>7. (/\ key[2] \in Ids("lesson") /\ progress[key].by \in Ended
         /\ \/ progress[key].completed = IsCompleted(key[2], progress[key].last)
            \/ BlocksEdited(progress[key].by))'
    BY <2>2, <2>3, <2>4, <2>6
  <2>8. ASSUME NEW k \in DOMAIN progress \ {key}
        PROVE  (/\ k[2] \in Ids("lesson") /\ progress[k].by \in Ended
                /\ \/ progress[k].completed = IsCompleted(k[2], progress[k].last)
                   \/ BlocksEdited(progress[k].by))'
    <3>1. k \in DOMAIN progress' /\ progress'[k] = progress[k]
      BY <2>2
    <3>2. k[2] \in Ids("lesson")' /\ progress[k].by \in Requests
      BY UntouchedFit DEF AllHold, ProgressHolds, Ended
    <3>3. StandsFor(progress[k].by)
      BY <3>2, UntouchedStand
    <3>4. QED
      BY <3>1, <3>2, <3>3, ProgressStays DEF AllHold
  <2>9. QED
    BY <2>2, <2>7, <2>8 DEF ProgressHolds
<1>3. QED
  BY <1>1, <1>2

\* A request of LessonService has what it will rely on.
LEMMA ReaderHolds ==
    ASSUME Served, Onward, AllHold, NEW q \in Requests, LessonsStep(q), rows' = rows
    PROVE  ReadStands(q)' /\ ScoreStands(q)'
<1>0. Ids("lesson")' = Ids("lesson") /\ \A l : Blocks(l)' = Blocks(l)
  BY UntouchedFit DEF AllHold
<1>1. ASSUME NEW u \in Seeded, NEW l \in Ids("lesson"), FindOneLesson(q, u, l)
      PROVE  ReadStands(q)' /\ ScoreStands(q)'
  <2>1. /\ pc'[q] = "gating" /\ saw'[q] = [free |-> rows[l].data, blocks |-> Blocks(l)]
        /\ call'[q] = [op |-> "findOneLesson", who |-> u, what |-> l]
    BY <1>1 DEF FindOneLesson, Arrive, Served, WellFormed, Verdicts
  <2>2. QED
    BY <1>0, <2>1 DEF ReadStands, ScoreStands
<1>2. ASSUME NEW u \in Seeded, NEW l \in Ids("lesson"), NEW last, UpdateMyProgress(q, u, l, last)
      PROVE  ReadStands(q)' /\ ScoreStands(q)'
  <2>1. /\ pc'[q] = "scoring"
        /\ call'[q] = [op |-> "updateMyProgress", who |-> u, what |-> [lesson |-> l, last |-> last]]
    BY <1>2 DEF UpdateMyProgress, Arrive, Served, WellFormed
  <2>2. l \in Requests => pc'[l] = "done"
    BY DEF AllHold, LessonHolds, Ids, Onward, Verdicts
  <2>3. QED
    BY <2>1, <2>2 DEF ReadStands, ScoreStands
<1>3. CASE ShowBlocks(q)
  <2> SUFFICES ASSUME NEW l, l = call[q].what, NEW u, u = call[q].who
               PROVE  ReadStands(q)' /\ ScoreStands(q)'
    OBVIOUS
  <2>1. /\ pc[q] = "gating" /\ pc'[q] = "showing" /\ call' = call
        /\ saw'[q] = Open(saw[q].free, HasPaidAccess(u), saw[q].blocks)
        /\ users' = users /\ subscribed' = subscribed
    BY <1>3, AwaitAt DEF ShowBlocks, LessonsStep, lessonVars, userVars
  <2>2. u \in Seeded
    BY <2>1 DEF AllHold, LessonHolds, ReadStands
  <2>3. CASE Edited(q)
    BY <2>1, <2>2, <2>3, EditsStand DEF ReadStands, ScoreStands
  <2>4. CASE ~Edited(q)
    <3>1. l \in Ids("lesson") /\ saw[q] = [free |-> rows[l].data, blocks |-> Blocks(l)]
      BY <2>1, <2>4 DEF AllHold, LessonHolds, ReadStands
    <3>2. saw'[q] = {b \in Blocks(l)' : b.data.free \/ rows'[l].data \/ users'[u].admin \/ u \in subscribed'}
      BY <1>0, <2>1, <3>1 DEF Open, HasPaidAccess
    <3>3. QED
      BY <1>0, <2>1, <2>2, <3>1, <3>2 DEF ReadStands, ScoreStands
  <2>5. QED
    BY <2>3, <2>4
<1>4. CASE ScoreProgress(q)
  <2> SUFFICES ASSUME NEW l, l = call[q].what.lesson, NEW last, last = call[q].what.last
               PROVE  ReadStands(q)' /\ ScoreStands(q)'
    OBVIOUS
  <2>1. l \in Requests => pc'[l] = "done"
    BY <1>4 DEF ScoreProgress, AllHold, LessonHolds, ScoreStands, Onward, Verdicts
  <2>2. /\ call' = call
        /\ \/ pc'[q] = "refused"
           \/ pc'[q] = "recording" /\ saw'[q] = IsCompleted(l, last)
    BY <1>4, AwaitAt DEF ScoreProgress, Leave
  <2>3. IsCompleted(l, last)' = IsCompleted(l, last)
    BY <1>0 DEF IsCompleted
  <2>4. QED
    BY <2>1, <2>2, <2>3 DEF ReadStands, ScoreStands
<1>5. CASE SendLesson(q) \/ RecordProgress(q) \/ \E u \in Seeded : Subscribe(q, u)
  <2>1. pc'[q] \in {"done", "conflict"}
    BY <1>5 DEF SendLesson, RecordProgress, Leave, Subscribe, Await, Arrive, Served, WellFormed
  <2>2. QED
    BY <2>1 DEF ReadStands, ScoreStands
<1>6. QED
  BY <1>1, <1>2, <1>3, <1>4, <1>5 DEF LessonsStep, Lesson, LessonProgress

\* A step of LessonService.
LEMMA LessonsHold ==
    ASSUME Served, AllHold, SeededStay', NEW q \in Requests, LessonsStep(q)
    PROVE  AllHold'
<1>1. /\ Moves(q, LessonOps, LessonWaits) /\ Onward
      /\ \A r \in Requests \ {q} : Stays(r)
  BY LessonsMoves, MovesGoOnward DEF Moves, LessonWaits, Verdicts
<1>2. pc[q] \notin Verdicts /\ pc'[q] # "idle" /\ pc'[q] \notin CatalogueWaits
  BY <1>1 DEF Moves, Begins, Runs, CatalogueWaits, LessonWaits, Rest, Verdicts
<1>3. rows' = rows /\ users' = users /\ lapsed' = lapsed
  BY DEF LessonsStep, Lesson, LessonProgress, FindOneLesson, UpdateMyProgress, Subscribe,
         ShowBlocks, SendLesson, ScoreProgress, RecordProgress, lessonVars, userVars
<1>4. RowsFit'
  BY <1>3, UntouchedFit DEF AllHold
<1>5. ASSUME NEW r \in Begun \ {q}
      PROVE  StandsFor(r) /\ AccessFor(r)
  <2>1. r \in Requests /\ StandsFor(r)
    BY <1>3, UntouchedStand DEF Begun
  <2>2. CASE subscribed' = subscribed
    BY <1>3, <2>1, <2>2 DEF AccessFor
  <2>3. ASSUME NEW u \in Seeded, Subscribe(q, u)
        PROVE  AccessFor(r)
    <3>1. call'[q].op = "subscribe"
      BY <2>3 DEF Subscribe, Arrive, Served, WellFormed
    <3>2. r \in InFlight => Edited(r)'
      BY <1>1, <1>2, <3>1, EditIsSeen DEF Edits
    <3>3. QED
      BY <3>2 DEF AccessFor
  <2>4. QED
    BY <2>1, <2>2, <2>3
       DEF LessonsStep, Lesson, LessonProgress, FindOneLesson, UpdateMyProgress, ShowBlocks,
           SendLesson, ScoreProgress, RecordProgress, lessonVars
<1>6. ASSUME NEW r \in Requests \ {q}
      PROVE  LessonHolds(r)'
  BY <1>1, <1>3, <1>5, OthersHold DEF AllHold
<1>7. LessonHolds(q)'
  <2>1. CallFits(q)'
    BY <1>2 DEF CallFits, CatalogueWaits
  <2>2. q \notin DOMAIN rows'
    BY <1>2, <1>3 DEF AllHold, LessonHolds, Verdicts
  <2>3. QED
    BY <1>1, <1>3, <2>1, <2>2, ReaderHolds DEF LessonHolds
<1>8. ProgressHolds'
  <2>1. CASE RecordProgress(q)
    BY <1>1, <1>3, <2>1, ProgressIsRecorded
  <2>2. CASE progress' = progress
    <3>1. \A k \in DOMAIN progress' : k[2] \in Ids("lesson")' /\ progress'[k] = progress[k]
      BY <1>3, <2>2, UntouchedFit DEF AllHold, ProgressHolds
    <3>2. \A by \in Ended : StandsFor(by)
      BY <1>3, UntouchedStand DEF Ended
    <3>3. QED
      BY <1>1, <2>2, <3>1, <3>2, ProgressKept DEF AllHold
  <2>3. QED
    BY <2>1, <2>2
       DEF LessonsStep, Lesson, LessonProgress, FindOneLesson, UpdateMyProgress, Subscribe,
           ShowBlocks, SendLesson, ScoreProgress, lessonVars
<1>9. QED
  BY <1>4, <1>6, <1>7, <1>8 DEF AllHold

\* Every row of the tables stands below one of its parent's kind, and what
\* LessonService has read or recorded is right, but for edits: in every state.
THEOREM LessonsInvariant == Spec => [](CatalogueInv /\ LessonsInv)
<1>1. Init => AllHold
  <2> SUFFICES ASSUME Init PROVE AllHold
    OBVIOUS
  <2>1. /\ rows = [kind \in Kinds |-> Seed(kind)] /\ progress = <<>>
        /\ users = [u \in Seeded |-> [Account(FALSE, TRUE) EXCEPT !.verified = FALSE]]
        /\ \A r \in Requests : pc[r] = "idle"
    BY DEF Init, CatalogueInit, LessonsInit, UsersInit, ServerInit
  <2>2. SeededStay
    BY <2>1 DEF SeededStay, Account, Profile
  <2>3. ProgressHolds
    BY <2>1 DEF ProgressHolds
  <2>4. RowsFit
    <3>1. ASSUME NEW kind \in Kinds
          PROVE  /\ DOMAIN rows[kind] = {"kind", "under", "data", "at"} /\ rows[kind].kind = kind
                 /\ rows[kind].under = ParentOf[kind]
      BY <2>1 DEF Seed
    <3>2. ASSUME NEW kind \in Kinds
          PROVE  rows[kind].data \in Contents(kind)
      <4>1. \E d : d \in Contents(kind)
        BY CatalogueAssumption DEF Contents
      <4>2. rows[kind].data = CHOOSE d \in Contents(kind) : TRUE
        BY <2>1 DEF Seed
      <4>3. QED
        BY <4>1, <4>2
    <3>3. ASSUME NEW kind \in Kinds
          PROVE  Fits(kind, ParentOf[kind])
      BY <2>1, <3>1, KindsAreThese DEF Fits, Ids
    <3>4. QED
      BY <2>1, <3>1, <3>2, <3>3 DEF RowsFit
  <2>5. ASSUME NEW r \in Requests
        PROVE  LessonHolds(r)
    BY <2>1, CatalogueAssumption DEF LessonHolds, CallFits, ReadStands, ScoreStands
  <2>6. QED
    BY <2>2, <2>3, <2>4, <2>5 DEF AllHold
<1>2. Served /\ AllHold /\ [Next]_appVars => AllHold'
  <2> SUFFICES ASSUME Served, AllHold, [Next]_appVars PROVE AllHold'
    OBVIOUS
  <2>1. /\ SeededStay'
        /\ \/ \A u \in Seeded : users'[u].admin = users[u].admin
           \/ \E q \in Requests :
                 pc[q] = "idle" /\ pc'[q] = "done" /\ call'[q].op = "adminUpdate"
    BY RolesStay DEF AllHold
  <2>2. QED
    BY <2>1, LessonFrame, CatalogueHolds, LessonsHold, AsideHolds
<1>3. QED
  BY <1>1, <1>2, InvIsOfEach, ServedAlways, PTL DEF Spec

\* A user is shown the blocks that are free or paid for, and no others.
THEOREM LessonsShowWhatIsOpen == Spec => []ShownIsOpen
<1>1. LessonsInv => ShownIsOpen
  BY DEF LessonsInv
<1>2. QED
  BY <1>1, LessonsInvariant, PTL

\* And isCompleted compares the position with the blocks.
THEOREM CompletionIsExplained == Spec => []CompletionExplained
<1>1. LessonsInv => CompletionExplained
  BY DEF LessonsInv
<1>2. QED
  BY <1>1, LessonsInvariant, PTL

-----------------------------------------------------------------------------
(* Requests that are alone. *)

\* A step of UsersService puts nobody where something could be missing.
LEMMA UsersReady ==
    ASSUME Served, NEW r \in Requests, UsersStep(r)
    PROVE  Ready(r)'
<1>1. pc'[r] \in {"uploading", "storing", "clearing", "done"}
  BY DEF UsersStep, UsersRequest, AdminUpdate, AdminSoftDelete, UpdateMe, UploadAvatar,
         DeleteAvatar, PutObject, StoreAvatar, ClearAvatar, Leave, Await, Arrive, Served, WellFormed
<1>2. QED
  BY <1>1 DEF Ready

\* A login that is to create its user found none; a refresh found its session.
LEMMA AuthReady ==
    ASSUME Served, NEW r \in Requests, AuthStep(r), pc[r] = "idle" \/ Ready(r)
    PROVE  Ready(r)'
<1>1. ASSUME NEW u, EmailRegister(r, u) \/ GoogleAuth(r, u)
      PROVE  Ready(r)'
  <2>1. CASE EmailRegister(r, u)
    <3>1. pc'[r] = "creating" /\ call'[r].who = u /\ users' = users /\ ~Exists(u)
      BY <2>1 DEF EmailRegister, Arrive, Served, WellFormed, userVars
    <3>2. QED
      BY <3>1 DEF Ready, Exists
  <2>2. CASE GoogleAuth(r, u)
    <3>1. PICK l \in {"creating", "issuing", "linking"} :
             /\ l = "creating" => ~Exists(u)
             /\ \E read : Arrive(r, "googleAuth", u, Account(TRUE, FALSE), l, read)
      BY <2>2 DEF GoogleAuth
    <3>2. pc'[r] = l /\ call'[r].who = u /\ users' = users
      BY <2>2, <3>1 DEF GoogleAuth, Arrive, Served, WellFormed, userVars
    <3>3. QED
      BY <3>1, <3>2 DEF Ready, Exists
  <2>3. QED
    BY <1>1, <2>1, <2>2
<1>2. ASSUME NEW u, NEW t, Refresh(r, u, t)
      PROVE  Ready(r)'
  <2>1. PICK s \in Matching(u, t) : Arrive(r, "refresh", u, t, "exchanging", s)
    BY <1>2 DEF Refresh
  <2>2. pc'[r] = "exchanging" /\ saw'[r] = s /\ sessions' = sessions
    BY <1>2, <2>1 DEF Refresh, Arrive, Served, WellFormed, Verdicts, authVars
  <2>3. s \in DOMAIN sessions
    BY <2>1 DEF Matching, SessionsOf
  <2>4. QED
    BY <2>2, <2>3 DEF Ready
<1>3. CASE FindByPhone(r)
  <2>1. /\ pc'[r] \in {"creating", "issuing", "verifying"} /\ call' = call /\ users' = users
        /\ pc'[r] = "creating" => ~Exists(call[r].who)
    BY <1>3 DEF FindByPhone, Await, Served, WellFormed, userVars
  <2>2. QED
    BY <2>1 DEF Ready, Exists
<1>4. CASE CreateUser(r) \/ ExchangeSession(r)
  <2>1. pc'[r] = "issuing"
    BY <1>4 DEF CreateUser, ExchangeSession, Ready, Await, Served, WellFormed
  <2>2. QED
    BY <2>1 DEF Ready
<1>5. ASSUME NEW l \in {"hashing", "texting", "marking", "sweeping", "identifying", "verifying",
                        "linking", "issuing", "done", "refused"}, pc'[r] = l
      PROVE  Ready(r)'
  BY <1>5 DEF Ready
<1>6. CASE IsNext(r) /\ (AuthRequest(r) \/ AdminAuthRequest(r))
  <2>1. ASSUME NEW u, NEW c,
               \/ PhoneRequestOtp(r, u) \/ PhoneVerifyOtp(r, u, c) \/ EmailLogin(r, u)
               \/ Logout(r, u) \/ AdminLogin(r, u) \/ AdminGoogleAuth(r, u)
        PROVE  Ready(r)'
    BY <1>5, <2>1
       DEF PhoneRequestOtp, PhoneVerifyOtp, EmailLogin, Logout, AdminLogin, AdminGoogleAuth,
           Arrive, Served, WellFormed
  <2>2. QED
    BY <1>1, <1>2, <1>6, <2>1 DEF AuthRequest, AdminAuthRequest
<1>7. CASE VerifyUser(r) \/ LinkGoogle(r)
  BY <1>5, <1>7 DEF VerifyUser, LinkGoogle, Leave, Await, Served, WellFormed
<1>8. CASE StoreOtp(r) \/ SendSms(r) \/ MarkCode(r) \/ MarkOthers(r) \/ IssueTokens(r)
  BY <1>5, <1>8
     DEF StoreOtp, SendSms, MarkCode, MarkOthers, IssueTokens, Leave, Await, Served, WellFormed
<1>9. QED
  BY <1>3, <1>4, <1>6, <1>7, <1>8 DEF AuthStep, IdentityStep, RowsStep

\* A removal found the device.
LEMMA PushReady ==
    ASSUME Served, NEW r \in Requests, PushStep(r), pc[r] = "idle" \/ Ready(r)
    PROVE  Ready(r)'
<1>1. ASSUME NEW l \in {"collecting", "noting", "pushing", "paging", "listed", "done"}, pc'[r] = l
      PROVE  Ready(r)'
  BY <1>1 DEF Ready
<1>2. ASSUME NEW u, NEW t, RemoveDeviceById(r, u, t)
      PROVE  Ready(r)'
  <2>1. /\ pc'[r] = "removing" /\ call'[r] = [op |-> "removeDevice", who |-> u, what |-> t]
        /\ devices' = devices /\ t \in DOMAIN devices /\ saw'[r] = devices[t].id
    BY <1>2 DEF RemoveDeviceById, Arrive, Served, WellFormed, Verdicts, pushVars
  <2>2. QED
    BY <2>1 DEF Ready
<1>3. CASE IsNext(r) /\ (DeviceRequest(r) \/ AdminSendRequest(r))
  BY <1>1, <1>2, <1>3
     DEF DeviceRequest, RegisterDevice, AdminSendRequest, AdminSendToUser, AdminSendToMany,
         AdminBroadcast, Send, Arrive, Served, WellFormed
<1>4. CASE IsNext(r) /\ (SendRequest(r) \/ InboxRequest(r))
  BY <1>1, <1>4
     DEF SendRequest, SendToUser, SendToMany, Broadcast, Send, InboxRequest, ListMy, After,
         MarkRead, MarkAllRead, Arrive, Served, WellFormed
<1>5. CASE RemoveDevice(r)
  BY <1>1, <1>5 DEF RemoveDevice, Ready, Leave, Await, Served, WellFormed
<1>6. CASE CollectDevices(r) \/ StoreNotes(r) \/ SendMulticast(r) \/ NextPage(r)
  BY <1>1, <1>6
     DEF CollectDevices, StoreNotes, SendMulticast, NextPage, After, Leave, Await, Served, WellFormed
<1>7. QED
  BY <1>3, <1>4, <1>5, <1>6 DEF PushStep

\* A message found its chat and has the row of the limit as it is; a deletion
\* found the chat.
LEMMA AiReady ==
    ASSUME Served, NEW r \in Requests, AiStep(r), pc[r] = "idle" \/ Ready(r), RowCounts
    PROVE  Ready(r)'
<1>1. ASSUME NEW l \in {"refused", "done"}, pc'[r] = l
      PROVE  Ready(r)'
  BY <1>1 DEF Ready
<1>2. ASSUME NEW u, NEW c, SendMessage(r, u, c)
      PROVE  Ready(r)'
  <2>1. /\ pc'[r] = "counting" /\ saw'[r] = LimitOf(u) /\ c \in DOMAIN chats
        /\ call'[r] = [op |-> "sendMessage", who |-> u, what |-> c]
        /\ chats' = chats /\ limits' = limits
    BY <1>2 DEF SendMessage, Arrive, Served, WellFormed, Verdicts, aiVars
  <2>2. u \in DOMAIN limits => limits[u] # Nothing
    BY AiAssumption DEF RowCounts
  <2>3. QED
    BY <2>1, <2>2 DEF Ready, LimitOf
<1>3. ASSUME NEW u, NEW c, c \in DOMAIN chats, DeleteChat(r, u, c)
      PROVE  Ready(r)'
  <2>1. /\ pc'[r] = "deleting" /\ call'[r] = [op |-> "deleteChat", who |-> u, what |-> c]
        /\ chats' = chats
    BY <1>3 DEF DeleteChat, Arrive, Served, WellFormed, aiVars
  <2>2. QED
    BY <1>3, <2>1 DEF Ready
<1>4. ASSUME NEW l \in {"asking", "consulting", "replying", "touching"}, pc'[r] = l,
             pc[r] \in {"counting", "asking", "consulting", "replying"},
             UNCHANGED <<call, chats>>
      PROVE  Ready(r)'
  <2>1. call[r].what \in DOMAIN chats
    BY <1>4 DEF Ready
  <2>2. QED
    BY <1>4, <2>1 DEF Ready
<1>5. CASE IsNext(r) /\ (ChatRequest(r) \/ ResetRateLimits(r))
  <2>1. ASSUME NEW u, CreateChat(r, u) \/ ResetRateLimits(r)
        PROVE  Ready(r)'
    BY <1>1, <2>1 DEF CreateChat, ResetRateLimits, Arrive, Served, WellFormed
  <2>2. QED
    BY <1>2, <1>3, <1>5, <2>1 DEF ChatRequest
<1>6. CASE CountRequest(r)
  BY <1>4, <1>6 DEF CountRequest, Await, Served, WellFormed
<1>7. CASE CountConflicts(r)
  BY <1>7 DEF CountConflicts, Ready
<1>8. CASE StoreQuestion(r) \/ StoreReply(r)
  <2>1. call[r].what \in DOMAIN chats /\ pc[r] \in {"asking", "replying"}
    BY <1>8 DEF StoreQuestion, StoreReply, Ready
  <2>2. PICK l \in {"consulting", "touching"} : Await(r, l, Nothing) /\ chats' = chats
    BY <1>8, <2>1 DEF StoreQuestion, StoreReply, StoreMessage, Gone
  <2>3. pc'[r] = l /\ call' = call
    BY <2>2, AwaitAt
  <2>4. QED
    BY <1>4, <2>1, <2>2, <2>3
<1>9. CASE AskOpenAI(r)
  <2>1. /\ pc'[r] \in {"replying", "refused"} /\ pc[r] = "consulting" /\ UNCHANGED <<call, chats>>
    BY <1>9, AwaitAt DEF AskOpenAI, Leave, aiVars
  <2>2. QED
    BY <1>1, <1>4, <2>1
<1>10. CASE TouchChat(r) \/ DropChat(r)
  <2>1. pc'[r] = "done"
    BY <1>10, AwaitAt DEF TouchChat, DropChat, Gone, Ready, Leave
  <2>2. QED
    BY <1>1, <2>1
<1>11. QED
  BY <1>5, <1>6, <1>7, <1>8, <1>9, <1>10 DEF AiStep, ChatStep

\* Administrators found the row, and its parent.
LEMMA CatalogueReady ==
    ASSUME Served, RowsFit, NEW r \in Requests, CatalogueStep(r), pc[r] = "idle" \/ Ready(r)
    PROVE  Ready(r)'
<1>1. ASSUME rows' = rows
      PROVE  /\ \A kind : Ids(kind)' = Ids(kind)
             /\ \A kind, id : Fits(kind, id)' <=> Fits(kind, id)
  BY <1>1 DEF Ids, Fits
<1>2. ASSUME NEW op, NEW kind \in Kinds, CreateIn(r, op, kind)
      PROVE  Ready(r)'
  <2>1. PICK under, data :
           /\ Fits(kind, under)
           /\ Arrive(r, op, Nothing, [kind |-> kind, under |-> under, data |-> data],
                     "inserting", Nothing)
    BY <1>2 DEF CreateIn
  <2>2. /\ pc'[r] = "inserting" /\ rows' = rows
        /\ call'[r].what = [kind |-> kind, under |-> under, data |-> data]
    BY <1>2, <2>1 DEF CreateIn, Arrive, Served, WellFormed
  <2>3. call'[r].what.kind = kind /\ call'[r].what.under = under
    BY <2>2
  <2>4. QED
    BY <1>1, <2>1, <2>2, <2>3 DEF Ready
<1>3. ASSUME NEW op, NEW kind \in Kinds, UpdateIn(r, op, kind)
      PROVE  Ready(r)'
  <2>1. PICK id \in Ids(kind), under \in Places(kind), data \in Contents(kind) :
           Arrive(r, op, Nothing, [id |-> id, kind |-> kind, under |-> under, data |-> data],
                  "updating", Nothing)
    BY <1>3 DEF UpdateIn
  <2>2. /\ pc'[r] = "updating" /\ rows' = rows
        /\ call'[r].what = [id |-> id, kind |-> kind, under |-> under, data |-> data]
    BY <1>3, <2>1 DEF UpdateIn, Arrive, Served, WellFormed
  <2>3. under = Nothing \/ Fits(kind, under)
    <3>1. Ids(Nothing) = {}
      BY CatalogueAssumption DEF RowsFit, Ids
    <3>2. QED
      BY <3>1 DEF Places, Fits, Ids
  <2>4. call'[r].what.kind = kind /\ call'[r].what.under = under /\ call'[r].what.id = id
    BY <2>2
  <2>5. QED
    BY <1>1, <2>2, <2>3, <2>4 DEF Ready
<1>4. ASSUME NEW op, NEW kind \in Kinds, RemoveFrom(r, op, kind)
      PROVE  Ready(r)'
  <2>1. PICK id \in Ids(kind) :
           Arrive(r, op, Nothing, [id |-> id, kind |-> kind], "erasing", Nothing)
    BY <1>4 DEF RemoveFrom
  <2>2. /\ pc'[r] = "erasing" /\ rows' = rows /\ call'[r].what = [id |-> id, kind |-> kind]
    BY <1>4, <2>1 DEF RemoveFrom, Arrive, Served, WellFormed
  <2>3. call'[r].what.kind = kind /\ call'[r].what.id = id
    BY <2>2
  <2>4. QED
    BY <1>1, <2>2, <2>3 DEF Ready
<1>5. ASSUME pc'[r] \in {"turning", "listed", "done", "refused"}
      PROVE  Ready(r)'
  BY <1>5 DEF Ready
<1>6. ASSUME NEW op, NEW kind, ListOf(r, op, kind) \/ TurnPage(r)
      PROVE  Ready(r)'
  BY <1>5, <1>6 DEF ListOf, TurnPage, NextWait, Await, Arrive, Served, WellFormed
<1>7. CASE SoftDeletePlan(r)
  <2>1. PICK id \in Ids("plan") :
           Arrive(r, "softDeletePlan", Nothing,
                  [id |-> id, kind |-> "plan", under |-> Nothing, data |-> FALSE], "updating", Nothing)
    BY <1>7 DEF SoftDeletePlan
  <2>2. /\ pc'[r] = "updating" /\ rows' = rows
        /\ call'[r].what = [id |-> id, kind |-> "plan", under |-> Nothing, data |-> FALSE]
    BY <1>7, <2>1 DEF SoftDeletePlan, Arrive, Served, WellFormed
  <2>3. call'[r].what.kind = "plan" /\ call'[r].what.under = Nothing /\ call'[r].what.id = id
    BY <2>2
  <2>4. QED
    BY <1>1, <2>2, <2>3 DEF Ready
<1>8. CASE InsertRow(r) \/ UpdateRow(r)
  <2>1. Leave(r, "done")
    BY <1>8 DEF InsertRow, UpdateRow, Ready
  <2>2. QED
    BY <1>5, <2>1, AwaitAt DEF Leave
<1>9. CASE EraseRow(r)
  <2>1. Leave(r, "done") \/ Leave(r, "refused")
    BY <1>9 DEF EraseRow, Ready
  <2>2. QED
    BY <1>5, <2>1, AwaitAt DEF Leave
<1>10. ASSUME CatalogueRequest(r)
       PROVE  Ready(r)'
  <2>1. CASE AgeCategoryAdmin(r) \/ TrainingCategoryAdmin(r) \/ TrainingCategories(r)
    BY <1>2, <1>3, <1>4, <1>6, <2>1, KindsAreThese
       DEF AgeCategoryAdmin, CreateAgeCategory, UpdateAgeCategory, RemoveAgeCategory,
           TrainingCategoryAdmin, CreateTrainingCategory, UpdateTrainingCategory,
           RemoveTrainingCategory, TrainingCategories, FindAllTrainingCategories
  <2>2. CASE LessonAdmin(r) \/ LessonList(r) \/ LessonBlockAdmin(r)
    BY <1>2, <1>3, <1>4, <1>6, <2>2, KindsAreThese
       DEF LessonAdmin, CreateLesson, UpdateLesson, RemoveLesson, LessonList, FindAllLessons,
           LessonBlockAdmin, CreateLessonBlock, UpdateLessonBlock, RemoveLessonBlock
  <2>3. CASE Books(r)
    BY <1>2, <1>3, <1>4, <1>6, <2>3, KindsAreThese
       DEF Books, CreateBookCategory, UpdateBookCategory, DeleteBookCategory, FindAllBooks,
           CreateBook, UpdateBook, DeleteBook
  <2>4. CASE MasterclassCategoryAdmin(r) \/ MasterclassCategories(r)
    BY <1>2, <1>3, <1>4, <1>6, <2>4, KindsAreThese
       DEF MasterclassCategoryAdmin, CreateMasterclassCategory, UpdateMasterclassCategory,
           RemoveMasterclassCategory, MasterclassCategories, FindAllMasterclassCategories
  <2>5. CASE MasterclassAdmin(r) \/ Masterclasses(r) \/ MasterclassBlockAdmin(r)
    BY <1>2, <1>3, <1>4, <1>6, <2>5, KindsAreThese
       DEF MasterclassAdmin, CreateMasterclass, UpdateMasterclass, RemoveMasterclass,
           Masterclasses, FindAllMasterclasses, MasterclassBlockAdmin, CreateMasterclassBlock,
           UpdateMasterclassBlock, RemoveMasterclassBlock
  <2>6. CASE Plans(r)
    BY <1>2, <1>3, <1>7, <2>6, KindsAreThese DEF Plans, CreatePlan, UpdatePlan
  <2>7. QED
    BY <1>10, <2>1, <2>2, <2>3, <2>4, <2>5, <2>6 DEF CatalogueRequest
<1>11. QED
  BY <1>6, <1>8, <1>9, <1>10 DEF CatalogueStep

\* A score is recorded for a lesson that is there.
LEMMA LessonsReady ==
    ASSUME Served, NEW r \in Requests, LessonsStep(r), pc[r] = "idle" \/ Ready(r)
    PROVE  Ready(r)'
<1>1. ASSUME pc'[r] \in {"gating", "showing", "scoring", "refused", "done"}
      PROVE  Ready(r)'
  BY <1>1 DEF Ready
<1>2. CASE IsNext(r) /\ (Lesson(r) \/ LessonProgress(r) \/ \E u \in Seeded : Subscribe(r, u))
  BY <1>1, <1>2
     DEF Lesson, FindOneLesson, LessonProgress, UpdateMyProgress, Subscribe, Arrive, Served, WellFormed
<1>3. CASE ShowBlocks(r) \/ SendLesson(r)
  BY <1>1, <1>3 DEF ShowBlocks, SendLesson, Leave, Await, Served, WellFormed
<1>4. CASE ScoreProgress(r)
  <2>1. /\ pc'[r] \in {"recording", "refused"} /\ call' = call /\ rows' = rows
        /\ pc'[r] = "recording" => call[r].what.lesson \in Ids("lesson")
    BY <1>4, AwaitAt DEF ScoreProgress, Leave, LessonsStep
  <2>2. QED
    BY <2>1 DEF Ready, Ids
<1>5. CASE RecordProgress(r)
  <2>1. Leave(r, "done")
    BY <1>5 DEF RecordProgress, Ready
  <2>2. QED
    BY <1>1, <2>1, AwaitAt DEF Leave
<1>6. QED
  BY <1>2, <1>3, <1>4, <1>5 DEF LessonsStep

\* The collection is declared where there was none.
LEMMA BookRagReady ==
    ASSUME Served, NEW r \in Requests, BookRagStep(r), pc[r] = "idle" \/ Ready(r)
    PROVE  Ready(r)'
<1>1. ASSUME pc'[r] \in (RagWaits \ {"declaring"}) \cup {"done", "refused", "failed"}
      PROVE  Ready(r)'
  BY <1>1 DEF Ready, RagWaits
<1>2. CASE IsNext(r) /\ (EmbedRequest(r) \/ BookChatRequest(r) \/ StreamRequest(r))
  BY <1>1, <1>2
     DEF EmbedRequest, DeleteEmbeddings, ReembedBook, BookChatRequest, GetMyChat, SendBookMessage,
         ClearMyChat, StreamRequest, SendBookMessageStream, Ask, ArriveAtWeaviate, RagWaits,
         Arrive, Served, WellFormed
<1>3. CASE CheckCollection(r)
  <2>1. /\ saw[r] \in {"wiping", "searching"} /\ collection' = collection
        /\ Await(r, IF ensured' THEN saw[r] ELSE "declaring", saw[r])
        /\ ensured' = (ensured \/ collection)
    BY <1>3 DEF CheckCollection, Served
  <2>2. pc'[r] \in {"wiping", "searching"} \/ (pc'[r] = "declaring" /\ ~collection')
    BY <2>1 DEF Await, Served, WellFormed
  <2>3. QED
    BY <2>2 DEF Ready
<1>4. CASE DeclareCollection(r)
  <2>1. saw[r] \in {"wiping", "searching"} /\ Await(r, saw[r], saw[r])
    BY <1>4 DEF DeclareCollection, Served, Ready
  <2>2. pc'[r] \in {"wiping", "searching"}
    BY <2>1, AwaitAt
  <2>3. QED
    BY <1>1, <2>2 DEF RagWaits
<1>5. CASE DeleteByBook(r) \/ DeletionFails(r) \/ ExtractText(r) \/ EmbedChunk(r)
  BY <1>1, <1>5
     DEF DeleteByBook, DeletionFails, ExtractText, EmbedChunk, Leave, Await, Served, WellFormed, RagWaits
<1>6. CASE BookChatStep(r)
  BY <1>1, <1>6
     DEF BookChatStep, SearchBookChunks, GetChat, OrCreateChat, AskGemini, SaveExchange, TellDone,
         Disconnect, EmptyChat, Leave, Await, Served, WellFormed, RagWaits
<1>7. QED
  BY <1>2, <1>3, <1>4, <1>5, <1>6 DEF BookRagStep, IndexStep

\* A request that acts meets everybody who is in flight, and is ready itself.
LEMMA ActingIsReady ==
    ASSUME Served, RowCounts, RowsFit, AloneIsReady, NEW q \in Requests, Handle(q)
    PROVE  AloneIsReady'
<1>1. PICK ops \in {UserOps, AuthOps, PushOps, AiOps, CatalogueOps, LessonOps, RagOps},
           waits \in OwnWaits : Moves(q, ops, waits)
  BY HandleMoves DEF OwnWaits
<1>2. Onward /\ pc[q] \notin Verdicts /\ pc'[q] # "idle"
  <2>1. "idle" \notin waits /\ waits \cap Verdicts = {}
    BY WaitsAreNoVerdicts DEF Rest
  <2>2. QED
    BY <1>1, <2>1, MovesGoOnward DEF Moves, Begins, Runs, Rest, Verdicts
<1>3. ASSUME NEW r \in Requests, Met(r)
      PROVE  Met(r)'
  BY <1>2, <1>3, OverlapStands DEF Met
<1>4. ASSUME NEW r \in Requests \ {q}
      PROVE  Met(r)' \/ Ready(r)'
  <2>1. CASE r \in InFlight
    BY <1>2, <2>1, MeetsInFlight DEF Met
  <2>2. CASE r \notin InFlight
    <3>1. Met(r) \/ pc[r] # "conflict"
      BY DEF AloneIsReady, Ready
    <3>2. pc'[r] = pc[r] /\ pc[r] \in Verdicts \cup {"idle"}
      BY <1>1, <2>2 DEF Moves, Stays, InFlight, Begun, Ended
    <3>3. QED
      BY <1>3, <3>1, <3>2 DEF Ready, Verdicts
  <2>3. QED
    BY <2>1, <2>2
<1>5. Met(q)' \/ Ready(q)'
  <2>1. CASE Met(q)
    BY <1>3, <2>1
  <2>2. CASE Ready(q)
    BY <2>2, UsersReady, AuthReady, PushReady, AiReady, CatalogueReady, LessonsReady, BookRagReady
       DEF Handle
  <2>3. QED
    BY <2>1, <2>2 DEF AloneIsReady
<1>6. QED
  BY <1>4, <1>5 DEF AloneIsReady

\* Time and failures take nothing away that a request relies on.
LEMMA HaltsKeepReady ==
    ASSUME Served, RowCounts, AloneIsReady, Halts, NoTableChanges \/ Crash \/ Pass
    PROVE  AloneIsReady'
<1>1. /\ UNCHANGED <<sessions, devices, chats, rows, collection>> /\ DOMAIN users' = DOMAIN users
      /\ DOMAIN limits' = DOMAIN limits /\ \A u \in DOMAIN limits : limits'[u].id = limits[u].id
  <2>1. CASE NoTableChanges \/ Crash
    BY <2>1 DEF NoTableChanges, Crash, userVars, authVars, pushVars, aiVars, indexVars
  <2>2. CASE Pass
    <3>1. UNCHANGED <<users, sessions, devices, chats, rows, collection>>
      BY <2>2 DEF Pass, RemoveObject, CodesAge, IdleHour, Lapse, userVars, authVars, pushVars,
                  aiVars, indexVars
    <3>2. ASSUME NEW u, IdleHour(u)
          PROVE  /\ DOMAIN limits' = DOMAIN limits
                 /\ \A v \in DOMAIN limits : limits'[v].id = limits[v].id
      <4>1. /\ u \in DOMAIN limits
            /\ limits' = [v \in DOMAIN limits \cup {u} |->
                             IF v = u THEN [limits[u] EXCEPT !.idle = TRUE] ELSE limits[v]]
        BY <3>2 DEF IdleHour, PutLimit
      <4>2. [limits[u] EXCEPT !.idle = TRUE].id = limits[u].id
        BY <4>1 DEF RowCounts
      <4>3. QED
        BY <4>1, <4>2
    <3>3. QED
      BY <2>2, <3>1, <3>2 DEF Pass, RemoveObject, CodesAge, Lapse, aiVars
  <2>3. QED
    BY <2>1, <2>2
<1>2. Onward
  BY HaltsIsForeign, ForeignGoesOnward
<1>3. ASSUME NEW r \in Requests
      PROVE  Met(r)' \/ Ready(r)'
  <2>1. CASE Met(r)
    BY <1>2, <2>1, OverlapStands DEF Met
  <2>2. CASE Breaks(r)
    BY <2>2 DEF Breaks, Ready
  <2>3. CASE Stays(r) /\ Ready(r)
    <3>1. \A kind : Ids(kind)' = Ids(kind)
      BY <1>1 DEF Ids
    <3>2. \A kind, id : Fits(kind, id)' <=> Fits(kind, id)
      BY <3>1 DEF Fits, Ids
    <3>3. QED
      BY <1>1, <2>3, <3>1, <3>2 DEF Stays, Ready, Exists
  <2>4. QED
    BY <2>1, <2>2, <2>3 DEF Halts, AloneIsReady
<1>4. QED
  BY <1>3 DEF AloneIsReady

\* A request that is alone finds what it relies on, whatever the operation.
THEOREM AloneAlwaysReady == Spec => []AloneIsReady
<1>1. Init => AloneIsReady
  <2> SUFFICES ASSUME Init PROVE AloneIsReady
    OBVIOUS
  <2>1. \A r \in Requests : pc[r] = "idle"
    BY DEF Init, ServerInit
  <2>2. QED
    BY <2>1 DEF AloneIsReady, Ready
<1>2. Served /\ AiInv /\ CatalogueInv /\ AloneIsReady /\ [Next]_appVars => AloneIsReady'
  <2> SUFFICES ASSUME Served, RowCounts, RowsFit, AloneIsReady, [Next]_appVars
               PROVE  AloneIsReady'
    BY DEF AiInv, CatalogueInv
  <2>1. QED
    BY StepKinds, ActingIsReady, HaltsKeepReady
<1>3. QED
  BY <1>1, <1>2, ServedAlways, LimitInvariant, LessonsInvariant, PTL DEF Spec

\* So it fails on a row that is gone or taken only if it met somebody.
THEOREM ConflictsAreMeetings == Spec => []ConflictsNeedOverlap
<1>1. AloneIsReady => ConflictsNeedOverlap
  BY DEF AloneIsReady, Ready, ConflictsNeedOverlap
<1>2. QED
  BY <1>1, AloneAlwaysReady, PTL

-----------------------------------------------------------------------------
(* Chats about books. *)

\* What BookChatsInv says of one request.
ChatHolds(r) ==
    /\ ChatCallsWait(r) /\ ChatIsLatest(r) /\ ExchangeStands(r) /\ OpensOnce(r)
    /\ AnswerIsShown(r)

BookChatRows == bookChats \in Seq([id : Requests, user : Readers, book : Kept])

\* The chat a request opens.
OpensFor(r, u, b) ==
    bookChats' = Append(bookChats, [id |-> r, user |-> u, book |-> b])

\* What explains a missing answer does so for good.
LEMMA ExplainedForGood ==
    ASSUME Onward, NEW r \in Requests, pc[r] # "idle"
    PROVE  /\ ClearedSince(r) => ClearedSince(r)'
           /\ OpenedBeside(r) => OpenedBeside(r)'
<1>1. ClearedSince(r) => ClearedSince(r)'
  BY DEF Onward, ClearedSince, Begun
<1>2. ASSUME OpenedBeside(r)
      PROVE  OpenedBeside(r)'
  <2>1. PICK q \in Requests : call[q].op \in Openers /\ Overlap(q, r)
    BY <1>2 DEF OpenedBeside
  <2>2. Overlap(q, r)' /\ call'[q] = call[q]
    BY <2>1, OverlapStands DEF Onward, Overlap, Begun
  <2>3. QED
    BY <2>1, <2>2 DEF OpenedBeside
<1>3. QED
  BY <1>1, <1>2

\* A chat that is opened is the latest of its reader and book, and no others'.
LEMMA ChatIsAppended ==
    ASSUME BookChatRows, NEW r \in Requests, NEW u \in Readers, NEW b \in Kept, OpensFor(r, u, b)
    PROVE  /\ BookChatRows'
           /\ ChatsOf(u, b)' # {} /\ LatestChat(u, b)' = r
           /\ \A v, d : ChatsOf(v, d) # {} => ChatsOf(v, d)' # {}
           /\ \A v, d : <<v, d>> # <<u, b>> /\ ChatsOf(v, d) # {} =>
                           LatestChat(v, d)' = LatestChat(v, d)
<1> DEFINE n == Len(bookChats)
           Chat == [id : Requests, user : Readers, book : Kept]
           new == [id |-> r, user |-> u, book |-> b]
<1>1. /\ n \in Nat /\ DOMAIN bookChats = 1 .. n /\ DOMAIN bookChats' = 1 .. (n + 1)
      /\ bookChats' \in Seq(Chat)
      /\ \A i \in 1 .. n : bookChats'[i] = bookChats[i]
      /\ bookChats'[n + 1] = new
  BY DEF BookChatRows, OpensFor
<1> HIDE DEF n
<1>2. \A v, d : ChatsOf(v, d) \subseteq ChatsOf(v, d)'
  BY <1>1 DEF ChatsOf
<1>3. n + 1 \in ChatsOf(u, b)' /\ \A i \in ChatsOf(u, b)' : i <= n + 1
  BY <1>1 DEF ChatsOf
<1>4. Max(ChatsOf(u, b)') = n + 1
  <2>1. \A i \in ChatsOf(u, b)' : i \in Nat
    BY <1>1 DEF ChatsOf
  <2>2. QED
    BY <1>1, <1>3, <2>1 DEF Max
<1>5. LatestChat(u, b)' = r
  BY <1>1, <1>4 DEF LatestChat
<1>6. ASSUME NEW v, NEW d, <<v, d>> # <<u, b>>, ChatsOf(v, d) # {}
      PROVE  LatestChat(v, d)' = LatestChat(v, d)
  <2>1. ChatsOf(v, d)' = ChatsOf(v, d)
    BY <1>1, <1>6 DEF ChatsOf
  <2>2. ChatsOf(v, d) \in SUBSET (0 .. n) /\ ChatsOf(v, d) \subseteq 1 .. n
    BY <1>1 DEF ChatsOf
  <2>3. Max(ChatsOf(v, d)) \in 1 .. n
    BY <1>1, <1>6, <2>2, LargestExists DEF Max
  <2>4. QED
    BY <1>1, <2>1, <2>3 DEF LatestChat
<1>7. QED
  BY <1>1, <1>2, <1>3, <1>5, <1>6 DEF BookChatRows

\* What can become of the tables while request q acts.
ChatsKept == bookChats' = bookChats /\ bookMessages' = bookMessages
Opens(q) ==
    /\ pc[q] = "opening" /\ OpensFor(q, call[q].who, call[q].what)
    /\ bookMessages' = bookMessages
Stores(q) ==
    /\ bookChats' = bookChats
    /\ bookMessages' = bookMessages \cup
          {[chat |-> saw[q], by |-> q, role |-> role] : role \in {"user", "assistant"}}
Empties(q) ==
    /\ pc[q] = "emptying" /\ bookChats' = bookChats
    /\ bookMessages' = {msg \in bookMessages : msg.chat # saw[q]}

\* The same tables say the same.
LEMMA SameChats ==
    ASSUME bookChats' = bookChats
    PROVE  \A u, b : ChatsOf(u, b)' = ChatsOf(u, b) /\ LatestChat(u, b)' = LatestChat(u, b)
BY DEF ChatsOf, LatestChat

\* What others have stored, when q acts.
LEMMA StoredByOthers ==
    ASSUME Served, Onward, NEW q \in Requests, NEW s \in Requests, s # q,
           pc[q] \notin Verdicts, pc'[q] # "idle", ChatCallsWait(q),
           ChatsKept \/ Opens(q) \/ Stores(q) \/ Empties(q)
    PROVE  \/ StoredBy(s)' = StoredBy(s)
           \/ StoredBy(s)' \subseteq StoredBy(s) /\ (pc[s] # "idle" => ClearedSince(s)')
<1>1. CASE ChatsKept \/ Opens(q)
  BY <1>1 DEF ChatsKept, Opens, StoredBy
<1>2. CASE Stores(q)
  BY <1>2 DEF Stores, StoredBy
<1>3. CASE Empties(q)
  <2>1. StoredBy(s)' \subseteq StoredBy(s)
    BY <1>3 DEF Empties, StoredBy
  <2>2. call[q].op = "clearMyChat" /\ pc[q] # "idle"
    BY <1>3 DEF Empties, ChatCallsWait
  <2>3. pc[s] # "idle" => q \notin before'[s] /\ call'[q] = call[q]
    BY <2>2 DEF Onward, Served
  <2>4. QED
    BY <2>1, <2>2, <2>3 DEF ClearedSince, Begun
<1>4. QED
  BY <1>1, <1>2, <1>3

\* A request at rest, when another one acts: its chat remains the latest.
LEMMA LatestForOthers ==
    ASSUME Served, Onward, BookChatRows, NEW q \in Requests, NEW s \in Requests, s # q,
           pc[q] \notin Verdicts, pc'[q] # "idle", ChatCallsWait(q), OpensOnce(q),
           ChatsKept \/ Opens(q) \/ Stores(q) \/ Empties(q),
           call[s].op \in Asks, pc[s] \in {"chatting", "saving", "telling", "done"},
           NEW u, NEW b, u = call[s].who, b = call[s].what, ChatsOf(u, b) # {}
    PROVE  /\ ChatsOf(u, b)' # {}
           /\ LatestChat(u, b)' = LatestChat(u, b) \/ OpenedBeside(s)'
<1>1. CASE bookChats' = bookChats
  BY <1>1, SameChats
<1>2. CASE Opens(q)
  <2> SUFFICES ASSUME NEW v, NEW d, v = call[q].who, d = call[q].what
               PROVE  /\ ChatsOf(u, b)' # {}
                      /\ LatestChat(u, b)' = LatestChat(u, b) \/ OpenedBeside(s)'
    OBVIOUS
  <2>1. v \in Readers /\ d \in Kept /\ OpensFor(q, v, d)
    BY <1>2 DEF Opens, ChatCallsWait, Owns
  <2>2. /\ ChatsOf(u, b)' # {}
        /\ <<u, b>> # <<v, d>> => LatestChat(u, b)' = LatestChat(u, b)
    BY <2>1, ChatIsAppended
  <2>3. ASSUME u = v, b = d
        PROVE  OpenedBeside(s)'
    <3>1. pc[q] = "opening" /\ call[q].op \in Openers
      BY <1>2 DEF Opens, ChatCallsWait
    <3>2. q \notin before[s]
      BY <3>1 DEF Served, Verdicts
    <3>3. s \notin before[q]
      <4>1. CASE pc[s] = "done"
        BY <2>3, <3>1, <4>1 DEF OpensOnce
      <4>2. CASE pc[s] # "done"
        BY <4>2 DEF Served, Verdicts
      <4>3. QED
        BY <4>1, <4>2
    <3>4. Overlap(q, s)
      BY <3>1, <3>2, <3>3 DEF Overlap, Begun
    <3>5. Overlap(q, s)' /\ call'[q] = call[q]
      BY <3>1, <3>4, OverlapStands DEF Onward
    <3>6. QED
      BY <3>1, <3>5 DEF OpenedBeside
  <2>4. QED
    BY <2>2, <2>3
<1>3. QED
  BY <1>1, <1>2 DEF ChatsKept, Stores, Empties

\* What holds of a request is not undone by another.
LEMMA ChatStays ==
    ASSUME Served, Onward, BookChatRows, NEW q \in Requests, NEW s \in Requests, s # q,
           pc[q] \notin Verdicts, pc'[q] # "idle", ChatHolds(q), ChatHolds(s), Stays(s),
           ChatsKept \/ Opens(q) \/ Stores(q) \/ Empties(q)
    PROVE  ChatHolds(s)'
<1> SUFFICES ASSUME NEW u, NEW b, u = call[s].who, b = call[s].what
             PROVE  ChatHolds(s)'
  OBVIOUS
<1>0. /\ pc'[s] = pc[s] /\ call'[s] = call[s] /\ saw'[s] = saw[s] /\ before'[s] = before[s]
      /\ u = call'[s].who /\ b = call'[s].what
  BY DEF Stays
<1>1. ChatCallsWait(s)'
  BY <1>0 DEF ChatHolds, ChatCallsWait, Owns
<1>2. OpensOnce(s)'
  <2>1. \A t \in before[s] : t \in Requests /\ pc'[t] = pc[t] /\ call'[t] = call[t]
    BY DEF Served, WellFormed, Onward, Verdicts
  <2>2. QED
    BY <1>0, <2>1 DEF ChatHolds, OpensOnce
<1>3. pc[s] # "idle" => /\ ClearedSince(s) => ClearedSince(s)'
                        /\ OpenedBeside(s) => OpenedBeside(s)'
  BY ExplainedForGood
<1>4. \/ StoredBy(s)' = StoredBy(s)
      \/ StoredBy(s)' \subseteq StoredBy(s) /\ (pc[s] # "idle" => ClearedSince(s)')
  BY StoredByOthers DEF ChatHolds
<1>5. ASSUME NEW c
      PROVE  StoredIn(s, c) => StoredIn(s, c)' \/ (pc[s] # "idle" => ClearedSince(s)')
  BY <1>4 DEF StoredIn
<1>6. ExchangeStands(s)'
  <2>1. pc[s] \notin {"telling", "done", "failed"} => StoredBy(s)' = {}
    BY <1>4 DEF ChatHolds, ExchangeStands
  <2>2. ASSUME pc[s] = "telling", NEW c, c = saw[s]
        PROVE  StoredIn(s, c)' \/ ClearedSince(s)'
    BY <1>3, <1>5, <2>2 DEF ChatHolds, ExchangeStands
  <2>3. QED
    BY <1>0, <2>1, <2>2 DEF ExchangeStands, StoredIn
<1>7. call[s].op \in Asks /\ pc[s] \in {"chatting", "saving", "telling", "done"} =>
         /\ ChatsOf(u, b)' # {}
         /\ LatestChat(u, b)' = LatestChat(u, b) \/ OpenedBeside(s)'
  BY LatestForOthers DEF ChatHolds, ChatIsLatest
<1>8. ChatIsLatest(s)'
  BY <1>0, <1>3, <1>7 DEF ChatHolds, ChatIsLatest
<1>9. AnswerIsShown(s)'
  <2>1. call[s].op \in Asks /\ pc[s] = "refused" => StoredBy(s)' = {}
    BY <1>4 DEF ChatHolds, ExchangeStands
  <2>2. ASSUME call[s].op \in Asks, pc[s] = "done", NEW c, c = LatestChat(u, b)
        PROVE  \/ StoredIn(s, c)' /\ LatestChat(u, b)' = c
               \/ ClearedSince(s)' \/ OpenedBeside(s)'
    <3>1. StoredIn(s, c) \/ ClearedSince(s)' \/ OpenedBeside(s)'
      BY <1>3, <2>2 DEF ChatHolds, AnswerIsShown
    <3>2. LatestChat(u, b)' = c \/ OpenedBeside(s)'
      BY <1>7, <2>2
    <3>3. StoredIn(s, c) => StoredIn(s, c)' \/ ClearedSince(s)'
      BY <1>5, <2>2
    <3>4. QED
      BY <3>1, <3>2, <3>3
  <2>3. QED
    BY <1>0, <2>1, <2>2 DEF AnswerIsShown, StoredIn
<1>10. QED
  BY <1>1, <1>2, <1>6, <1>8, <1>9 DEF ChatHolds

\* A request that arrives has stored nothing yet, and opens a chat only if
\* none is there.
LEMMA ChatArrives ==
    ASSUME Served, BookChatRows, NEW r \in Requests, \A s \in Requests : ChatHolds(s),
           IsNext(r), EmbedRequest(r) \/ BookChatRequest(r) \/ StreamRequest(r)
    PROVE  ChatsKept /\ ChatHolds(r)'
<1>1. pc[r] = "idle" /\ StoredBy(r) = {}
  BY DEF IsNext, ChatHolds, ExchangeStands, Verdicts
<1>2. ASSUME ChatsKept, pc'[r] # "telling"
      PROVE  StoredBy(r)' = {} /\ ExchangeStands(r)'
  <2>1. StoredBy(r)' = {}
    BY <1>1, <1>2 DEF ChatsKept, StoredBy
  <2>2. QED
    BY <1>2, <2>1 DEF ExchangeStands
<1>3. ASSUME NEW u \in Readers, NEW b \in Kept, GetMyChat(r, u, b)
      PROVE  ChatsKept /\ ChatHolds(r)'
  <2>1. /\ call'[r] = [op |-> "getMyChat", who |-> u, what |-> b] /\ before'[r] = Ended
        /\ pc'[r] = IF ChatsOf(u, b) = {} THEN "opening" ELSE "done"
        /\ \A s \in Requests \ {r} : Stays(s)
    BY <1>3, ArriveAt DEF GetMyChat
  <2>2. ChatsKept /\ Owns(u, b)
    BY <1>3 DEF GetMyChat, ragChatVars, ChatsKept
  <2>3. ASSUME pc'[r] = "opening", NEW s \in before'[r], call'[s].op \in Asks, pc'[s] = "done"
        PROVE  call'[s].who # u \/ call'[s].what # b
    <3>1. s \in Requests \ {r} /\ Stays(s)
      BY <1>1, <2>1, <2>3 DEF Ended, Verdicts
    <3>2. ChatsOf(call[s].who, call[s].what) # {}
      BY <2>3, <3>1 DEF Stays, ChatHolds, ChatIsLatest
    <3>3. QED
      BY <2>1, <2>3, <3>1, <3>2 DEF Stays
  <2>4. OpensOnce(r)'
    BY <2>1, <2>3 DEF OpensOnce
  <2>5. ChatCallsWait(r)' /\ ChatIsLatest(r)' /\ AnswerIsShown(r)'
    BY <2>1, <2>2 DEF ChatCallsWait, ChatIsLatest, AnswerIsShown, Asks, Openers, Verdicts, Owns
  <2>6. QED
    BY <1>2, <2>1, <2>2, <2>4, <2>5 DEF ChatHolds
<1>4. ASSUME NEW op, NEW u, NEW b, NEW l, NEW read, Arrive(r, op, u, b, l, read),
             \/ op \in Asks /\ (l = "searching" \/ (l = "checking" /\ read = "searching")) /\ Owns(u, b)
             \/ op = "clearMyChat" /\ l = "emptying"
             \/ /\ op \in {"reembedBook", "deleteEmbeddings"}
                /\ l = "wiping" \/ (l = "checking" /\ read = "wiping"),
             ChatsKept
      PROVE  ChatHolds(r)'
  <2>1. /\ call'[r].op = op /\ call'[r].who = u /\ call'[r].what = b /\ pc'[r] = l
        /\ saw'[r] = IF l \in Verdicts THEN Nothing ELSE read
    BY <1>4 DEF Arrive, Served, WellFormed
  <2>2. ChatCallsWait(r)' /\ ChatIsLatest(r)' /\ AnswerIsShown(r)' /\ OpensOnce(r)'
    BY <1>4, <2>1
       DEF ChatCallsWait, ChatIsLatest, AnswerIsShown, OpensOnce, Asks, Openers, Verdicts, Owns
  <2>3. QED
    BY <1>2, <1>4, <2>1, <2>2 DEF ChatHolds
<1>5. ASSUME NEW u, NEW b, SendBookMessage(r, u, b) \/ SendBookMessageStream(r, u, b)
      PROVE  ChatsKept /\ ChatHolds(r)'
  <2>1. PICK op \in Asks : /\ Owns(u, b) /\ ChatsKept
                           /\ Arrive(r, op, u, b, IF ensured THEN "searching" ELSE "checking", "searching")
    BY <1>5 DEF SendBookMessage, SendBookMessageStream, Ask, ArriveAtWeaviate, Asks, ragChatVars,
                ChatsKept
  <2>2. QED
    BY <1>4, <2>1
<1>6. ASSUME NEW u, NEW b, ClearMyChat(r, u, b)
      PROVE  ChatsKept /\ ChatHolds(r)'
  <2>1. PICK i \in ChatsOf(u, b) : Arrive(r, "clearMyChat", u, b, "emptying", bookChats[i].id)
    BY <1>6 DEF ClearMyChat
  <2>2. ChatsKept
    BY <1>6 DEF ClearMyChat, ragChatVars, ChatsKept
  <2>3. QED
    BY <1>4, <2>1, <2>2
<1>7. ASSUME NEW b, NEW t, DeleteEmbeddings(r, b) \/ ReembedBook(r, b, t)
      PROVE  ChatsKept /\ ChatHolds(r)'
  <2>1. PICK op \in {"reembedBook", "deleteEmbeddings"} : \E what :
           Arrive(r, op, Nothing, what, IF ensured THEN "wiping" ELSE "checking", "wiping")
    BY <1>7 DEF DeleteEmbeddings, ReembedBook, ArriveAtWeaviate
  <2>2. ChatsKept
    BY <1>7 DEF DeleteEmbeddings, ReembedBook, ragChatVars, ChatsKept
  <2>3. QED
    BY <1>4, <2>1, <2>2
<1>8. QED
  BY <1>3, <1>5, <1>6, <1>7 DEF EmbedRequest, BookChatRequest, StreamRequest

\* On the way to the chat, and about the index.
LEMMA ChatWaits ==
    ASSUME Served, NEW r \in Requests, \A s \in Requests : ChatHolds(s),
           IndexStep(r) \/ SearchBookChunks(r) \/ GetChat(r)
    PROVE  ChatsKept /\ ChatHolds(r)'
<1>0. /\ pc[r] \notin {"telling", "done", "failed"} /\ call' = call /\ before' = before
      /\ ChatsKept
  BY AwaitAt
     DEF IndexStep, CheckCollection, DeclareCollection, DeleteByBook, DeletionFails, ExtractText,
         EmbedChunk, SearchBookChunks, GetChat, Leave, ragChatVars, ChatsKept
<1>1. StoredBy(r)' = {}
  BY <1>0 DEF ChatHolds, ExchangeStands, ChatsKept, StoredBy
<1>2. ASSUME ChatCallsWait(r)', pc'[r] \notin {"chatting", "saving", "telling", "opening"},
             call[r].op \in Asks => pc'[r] # "done"
      PROVE  ChatHolds(r)'
  BY <1>0, <1>1, <1>2
     DEF ChatHolds, ExchangeStands, ChatIsLatest, OpensOnce, AnswerIsShown
<1>3. ChatCallsWait(r)
  BY DEF ChatHolds
<1>4. CASE CheckCollection(r) \/ DeclareCollection(r)
  <2>1. pc[r] \in {"checking", "declaring"} /\ saw[r] \in {"wiping", "searching"}
    BY <1>4 DEF CheckCollection, DeclareCollection, Served
  <2>2. \/ pc'[r] \in {saw[r], "declaring"} /\ saw'[r] = saw[r]
        \/ pc'[r] = "extracting" /\ call[r].op = "reembedBook"
        \/ pc'[r] = "conflict"
    BY <1>4, AwaitAt DEF CheckCollection, DeclareCollection, Leave
  <2>3. ChatCallsWait(r)'
    BY <1>0, <1>3, <2>1, <2>2 DEF ChatCallsWait, Owns, Asks, Openers, Verdicts
  <2>4. pc'[r] \notin {"chatting", "saving", "telling", "opening", "done"}
    BY <2>1, <2>2
  <2>5. QED
    BY <1>0, <1>2, <2>3, <2>4
<1>5. CASE DeleteByBook(r) \/ DeletionFails(r) \/ ExtractText(r) \/ EmbedChunk(r)
  <2>1. call[r].op \notin Asks
    BY <1>3, <1>5
       DEF DeleteByBook, DeletionFails, ExtractText, EmbedChunk, ChatCallsWait, Asks, Verdicts
  <2>2. pc'[r] \in {"extracting", "embedding", "done", "refused"}
    BY <1>5, AwaitAt DEF DeleteByBook, DeletionFails, ExtractText, EmbedChunk, Leave
  <2>3. ChatCallsWait(r)'
    BY <1>0, <1>3, <2>1, <2>2 DEF ChatCallsWait, Owns
  <2>4. QED
    BY <1>0, <1>2, <2>1, <2>2, <2>3
<1>6. CASE SearchBookChunks(r)
  <2>1. pc[r] = "searching" /\ pc'[r] = "finding"
    BY <1>6, AwaitAt DEF SearchBookChunks
  <2>2. ChatCallsWait(r)'
    BY <1>0, <1>3, <2>1 DEF ChatCallsWait, Owns
  <2>3. QED
    BY <1>0, <1>2, <2>1, <2>2
<1>7. CASE GetChat(r)
  <2> SUFFICES ASSUME NEW u, NEW b, u = call[r].who, b = call[r].what
               PROVE  ChatHolds(r)'
    BY <1>0
  <2>1. /\ pc[r] = "finding" /\ call[r].op \in Asks
        /\ IF ChatsOf(u, b) = {} THEN pc'[r] = "opening"
           ELSE pc'[r] = "chatting" /\ saw'[r] = LatestChat(u, b)
    BY <1>3, <1>7, AwaitAt DEF GetChat, ChatCallsWait
  <2>2. ChatCallsWait(r)'
    BY <1>0, <1>3, <2>1 DEF ChatCallsWait, Owns, Openers
  <2>3. ChatsOf(u, b)' = ChatsOf(u, b) /\ LatestChat(u, b)' = LatestChat(u, b)
    BY <1>0, SameChats DEF ChatsKept
  <2>4. ChatIsLatest(r)' /\ ExchangeStands(r)' /\ AnswerIsShown(r)'
    BY <1>0, <1>1, <2>1, <2>3 DEF ChatIsLatest, ExchangeStands, AnswerIsShown
  <2>5. ASSUME pc'[r] = "opening", NEW s \in before'[r], call'[s].op \in Asks, pc'[s] = "done"
        PROVE  call'[s].who # u \/ call'[s].what # b
    <3>1. s \in Requests /\ pc[s] \in Verdicts
      BY <1>0, <2>5 DEF Served, WellFormed
    <3>2. Stays(s)
      BY <1>7, <2>1, <3>1, AwaitAt DEF GetChat, Verdicts
    <3>3. ChatsOf(call[s].who, call[s].what) # {}
      BY <2>5, <3>1, <3>2 DEF Stays, ChatHolds, ChatIsLatest
    <3>4. QED
      BY <2>1, <2>5, <3>2, <3>3 DEF Stays
  <2>6. OpensOnce(r)'
    BY <1>0, <2>5 DEF OpensOnce
  <2>7. QED
    BY <2>2, <2>4, <2>6 DEF ChatHolds
<1>8. QED
  BY <1>0, <1>4, <1>5, <1>6, <1>7 DEF IndexStep

\* The chat is opened.
LEMMA ChatOpens ==
    ASSUME Served, BookChatRows, NEW r \in Requests, ChatHolds(r), OrCreateChat(r)
    PROVE  Opens(r) /\ BookChatRows' /\ ChatHolds(r)'
<1> SUFFICES ASSUME NEW u, NEW b, u = call[r].who, b = call[r].what
             PROVE  Opens(r) /\ BookChatRows' /\ ChatHolds(r)'
  OBVIOUS
<1>1. /\ call' = call /\ before' = before /\ pc[r] = "opening" /\ call[r].op \in Openers
      /\ IF call[r].op = "getMyChat" THEN pc'[r] = "done" ELSE pc'[r] = "chatting" /\ saw'[r] = r
  BY AwaitAt DEF OrCreateChat, Leave, ChatHolds, ChatCallsWait
<1>2. u \in Readers /\ b \in Kept /\ OpensFor(r, u, b) /\ Opens(r)
  BY <1>1 DEF OrCreateChat, ChatHolds, ChatCallsWait, Owns, OpensFor, Opens
<1>3. BookChatRows' /\ ChatsOf(u, b)' # {} /\ LatestChat(u, b)' = r
  BY <1>2, ChatIsAppended
<1>4. StoredBy(r)' = {}
  BY <1>1, <1>2 DEF ChatHolds, ExchangeStands, Opens, StoredBy
<1>5. ChatCallsWait(r)'
  BY <1>1 DEF ChatHolds, ChatCallsWait, Asks, Openers, Owns, Verdicts
<1>6. ChatIsLatest(r)' /\ ExchangeStands(r)' /\ AnswerIsShown(r)' /\ OpensOnce(r)'
  BY <1>1, <1>3, <1>4
     DEF ChatIsLatest, ExchangeStands, AnswerIsShown, OpensOnce, Asks, Openers
<1>7. QED
  BY <1>2, <1>3, <1>5, <1>6 DEF ChatHolds

\* Question and answer are asked for, stored and told, or the chat is emptied.
LEMMA ChatGoesOn ==
    ASSUME Served, Onward, BookChatRows, NEW r \in Requests, ChatHolds(r),
           \/ AskGemini(r) \/ SaveExchange(r) \/ TellDone(r) \/ Disconnect(r) \/ EmptyChat(r)
    PROVE  (ChatsKept \/ Stores(r) \/ Empties(r)) /\ ChatHolds(r)'
<1> SUFFICES ASSUME NEW u, NEW b, u = call[r].who, b = call[r].what, NEW c, c = saw[r]
             PROVE  (ChatsKept \/ Stores(r) \/ Empties(r)) /\ ChatHolds(r)'
  OBVIOUS
<1>1. /\ call' = call /\ before' = before /\ bookChats' = bookChats
      /\ ChatsKept \/ Stores(r) \/ Empties(r)
  BY AwaitAt
     DEF AskGemini, SaveExchange, TellDone, Disconnect, EmptyChat, Leave, ragChatVars, ChatsKept,
         Stores, Empties
<1>2. ChatsOf(u, b)' = ChatsOf(u, b) /\ LatestChat(u, b)' = LatestChat(u, b)
  BY <1>1, SameChats
<1>3. pc[r] # "idle" /\ (OpenedBeside(r) => OpenedBeside(r)') /\ (ClearedSince(r) => ClearedSince(r)')
  BY ExplainedForGood DEF AskGemini, SaveExchange, TellDone, Disconnect, EmptyChat
<1>4. CASE Disconnect(r)
  BY <1>1, <1>4, AwaitAt
     DEF Disconnect, Leave, ChatHolds, ChatCallsWait, ChatIsLatest, ExchangeStands, OpensOnce,
         AnswerIsShown, Owns, Verdicts
<1>5. CASE EmptyChat(r)
  <2>1. pc[r] = "emptying" /\ pc'[r] = "done" /\ call[r].op = "clearMyChat"
    BY <1>5, AwaitAt DEF EmptyChat, Leave, ChatHolds, ChatCallsWait
  <2>2. QED
    BY <1>1, <2>1
       DEF ChatHolds, ChatCallsWait, ChatIsLatest, ExchangeStands, OpensOnce, AnswerIsShown, Asks,
           Openers, Verdicts
<1>6. CASE AskGemini(r)
  <2>1. /\ pc[r] = "chatting" /\ call[r].op \in Asks
        /\ pc'[r] = "refused" \/ (pc'[r] = "saving" /\ saw'[r] = c)
    BY <1>6, AwaitAt DEF AskGemini, Leave, ChatHolds, ChatCallsWait
  <2>2. StoredBy(r)' = {}
    BY <1>6, <2>1 DEF AskGemini, ragChatVars, ChatHolds, ExchangeStands, StoredBy
  <2>3. ChatCallsWait(r)'
    BY <1>1, <2>1 DEF ChatHolds, ChatCallsWait, Owns, Verdicts
  <2>4. ChatIsLatest(r)'
    BY <1>1, <1>2, <1>3, <2>1 DEF ChatHolds, ChatIsLatest
  <2>5. QED
    BY <1>1, <2>1, <2>2, <2>3, <2>4 DEF ChatHolds, ExchangeStands, OpensOnce, AnswerIsShown
<1>7. CASE SaveExchange(r)
  <2>1. /\ pc[r] = "saving" /\ call[r].op \in Asks
        /\ pc'[r] = "done" \/ (pc'[r] = "telling" /\ saw'[r] = c)
    BY <1>7, AwaitAt DEF SaveExchange, Leave, ChatHolds, ChatCallsWait
  <2>2. StoredIn(r, c)'
    <3>1. StoredBy(r) = {}
      BY <2>1 DEF ChatHolds, ExchangeStands
    <3>2. bookMessages' = bookMessages \cup
             {[chat |-> c, by |-> r, role |-> role] : role \in {"user", "assistant"}}
      BY <1>7 DEF SaveExchange
    <3>3. \A role : [chat |-> c, by |-> r, role |-> role].by = r
      OBVIOUS
    <3>4. QED
      BY <3>1, <3>2, <3>3 DEF StoredBy, StoredIn
  <2>3. ChatCallsWait(r)'
    BY <1>1, <2>1 DEF ChatHolds, ChatCallsWait, Owns, Verdicts
  <2>4. ChatIsLatest(r)'
    BY <1>1, <1>2, <1>3, <2>1 DEF ChatHolds, ChatIsLatest
  <2>5. c = LatestChat(u, b) \/ OpenedBeside(r)'
    BY <1>3, <2>1 DEF ChatHolds, ChatIsLatest
  <2>6. ExchangeStands(r)' /\ OpensOnce(r)' /\ AnswerIsShown(r)'
    BY <1>1, <1>2, <2>1, <2>2, <2>5 DEF ExchangeStands, OpensOnce, AnswerIsShown, StoredIn
  <2>7. QED
    BY <1>1, <2>3, <2>4, <2>6 DEF ChatHolds
<1>8. CASE TellDone(r)
  <2>1. pc[r] = "telling" /\ call[r].op \in Asks /\ pc'[r] = "done"
    BY <1>8, AwaitAt DEF TellDone, Leave, ChatHolds, ChatCallsWait
  <2>2. c = LatestChat(u, b) \/ OpenedBeside(r)'
    BY <1>3, <2>1 DEF ChatHolds, ChatIsLatest
  <2>3. StoredIn(r, c)' \/ ClearedSince(r)'
    <3>1. StoredIn(r, c) => StoredIn(r, c)'
      BY <1>8 DEF TellDone, ragChatVars, StoredIn, StoredBy
    <3>2. QED
      BY <1>3, <2>1, <3>1 DEF ChatHolds, ExchangeStands
  <2>4. ChatCallsWait(r)'
    BY <1>1, <2>1 DEF ChatHolds, ChatCallsWait, Owns, Verdicts
  <2>5. ChatIsLatest(r)'
    BY <1>1, <1>2, <2>1 DEF ChatHolds, ChatIsLatest
  <2>6. ExchangeStands(r)' /\ OpensOnce(r)' /\ AnswerIsShown(r)'
    BY <1>1, <1>2, <2>1, <2>2, <2>3 DEF ExchangeStands, OpensOnce, AnswerIsShown, StoredIn
  <2>7. QED
    BY <1>1, <2>4, <2>5, <2>6 DEF ChatHolds
<1>9. QED
  BY <1>1, <1>4, <1>5, <1>6, <1>7, <1>8

\* A request of another component, or one that is cut short or idle.
LEMMA ChatLeftAlone ==
    ASSUME Served, Onward, BookChatRows, Foreign(RagOps, RagWaits), ChatsKept,
           NEW s \in Requests, ChatHolds(s)
    PROVE  ChatHolds(s)'
<1> SUFFICES ASSUME NEW u, NEW b, u = call[s].who, b = call[s].what
             PROVE  ChatHolds(s)'
  OBVIOUS
<1>1. StoredBy(s)' = StoredBy(s)
  BY DEF ChatsKept, StoredBy
<1>2. ChatsOf(u, b)' = ChatsOf(u, b) /\ LatestChat(u, b)' = LatestChat(u, b)
  BY SameChats DEF ChatsKept
<1>3. CASE Stays(s)
  <2>1. pc[s] # "idle" => /\ ClearedSince(s) => ClearedSince(s)'
                          /\ OpenedBeside(s) => OpenedBeside(s)'
    BY ExplainedForGood
  <2>2. \A t \in before[s] : pc'[t] = pc[t] /\ call'[t] = call[t]
    BY DEF Served, WellFormed, Onward, Verdicts
  <2>3. ChatCallsWait(s)' /\ ChatIsLatest(s)' /\ OpensOnce(s)'
    BY <1>2, <1>3, <2>1, <2>2 DEF ChatHolds, Stays, ChatCallsWait, ChatIsLatest, OpensOnce, Owns
  <2>4. ExchangeStands(s)' /\ AnswerIsShown(s)'
    BY <1>1, <1>2, <1>3, <2>1 DEF ChatHolds, Stays, ExchangeStands, AnswerIsShown, StoredIn
  <2>5. QED
    BY <2>3, <2>4 DEF ChatHolds
<1>4. ASSUME StoredBy(s)' = {}, call'[s].op \notin RagOps, pc'[s] \notin RagWaits
      PROVE  ChatHolds(s)'
  BY <1>4
     DEF ChatHolds, ChatCallsWait, ChatIsLatest, ExchangeStands, OpensOnce, AnswerIsShown, RagOps,
         RagWaits, Asks, Openers
<1>5. CASE Breaks(s)
  <2>1. /\ pc'[s] = "failed" \/ (pc[s] = "listed" /\ pc'[s] = "done")
        /\ call'[s] = call[s]
    BY <1>5 DEF Breaks
  <2>2. pc[s] = "listed" => call[s].op \notin Asks
    BY DEF ChatHolds, ChatCallsWait, Verdicts
  <2>3. ChatCallsWait(s)'
    BY <2>1 DEF ChatHolds, ChatCallsWait, Owns, Verdicts
  <2>4. ChatIsLatest(s)' /\ ExchangeStands(s)' /\ OpensOnce(s)' /\ AnswerIsShown(s)'
    BY <2>1, <2>2 DEF ChatIsLatest, ExchangeStands, OpensOnce, AnswerIsShown
  <2>5. QED
    BY <2>3, <2>4 DEF ChatHolds
<1>6. CASE pc[s] = "idle" /\ pc'[s] \notin RagWaits /\ call'[s].op \notin RagOps
  <2>1. StoredBy(s) = {}
    BY <1>6 DEF ChatHolds, ExchangeStands
  <2>2. QED
    BY <1>1, <1>4, <1>6, <2>1
<1>7. CASE /\ s \in InFlight /\ pc[s] \notin RagWaits /\ pc'[s] \notin RagWaits
           /\ call'[s] = call[s]
  <2>1. pc[s] \notin Verdicts /\ call[s].op \notin Asks /\ StoredBy(s)' = {}
    BY <1>1, <1>7
       DEF InFlight, Ended, ChatHolds, ChatCallsWait, ExchangeStands, RagWaits, Verdicts
  <2>2. QED
    BY <1>7, <2>1
       DEF ChatHolds, ChatCallsWait, ChatIsLatest, ExchangeStands, OpensOnce, AnswerIsShown, Owns,
           RagWaits
<1>8. QED
  BY <1>3, <1>5, <1>6, <1>7 DEF Foreign

\* A step of BookRagService.
LEMMA BookRagSteps ==
    ASSUME Served, BookChatsInv, NEW r \in Requests, BookRagStep(r)
    PROVE  BookChatsInv'
<1>1. Moves(r, RagOps, RagWaits) /\ Onward
  BY BookRagMoves, MovesGoOnward DEF RagWaits, Verdicts
<1>2. pc[r] \notin Verdicts /\ pc'[r] # "idle" /\ \A s \in Requests \ {r} : Stays(s)
  BY <1>1 DEF Moves, Begins, Runs, RagWaits, Rest, Verdicts
<1>3. BookChatRows /\ \A s \in Requests : ChatHolds(s)
  BY DEF BookChatsInv, BookChatRows, ChatHolds
<1>4. ASSUME ChatsKept \/ Opens(r) \/ Stores(r) \/ Empties(r), ChatHolds(r)', BookChatRows'
      PROVE  BookChatsInv'
  <2>1. \A s \in Requests : ChatHolds(s)'
    BY <1>1, <1>2, <1>3, <1>4, ChatStays
  <2>2. QED
    BY <1>4, <2>1 DEF BookChatsInv, BookChatRows, ChatHolds, AnswersAreShown
<1>5. CASE IsNext(r) /\ (EmbedRequest(r) \/ BookChatRequest(r) \/ StreamRequest(r))
  <2>1. ChatsKept /\ ChatHolds(r)'
    BY <1>3, <1>5, ChatArrives
  <2>2. QED
    BY <1>3, <1>4, <2>1 DEF ChatsKept, BookChatRows
<1>6. CASE IndexStep(r) \/ SearchBookChunks(r) \/ GetChat(r)
  <2>1. ChatsKept /\ ChatHolds(r)'
    BY <1>3, <1>6, ChatWaits
  <2>2. QED
    BY <1>3, <1>4, <2>1 DEF ChatsKept, BookChatRows
<1>7. CASE OrCreateChat(r)
  BY <1>3, <1>4, <1>7, ChatOpens
<1>8. CASE AskGemini(r) \/ SaveExchange(r) \/ TellDone(r) \/ Disconnect(r) \/ EmptyChat(r)
  <2>1. (ChatsKept \/ Stores(r) \/ Empties(r)) /\ ChatHolds(r)'
    BY <1>1, <1>3, <1>8, ChatGoesOn
  <2>2. QED
    BY <1>3, <1>4, <2>1 DEF ChatsKept, Stores, Empties, BookChatRows
<1>9. QED
  BY <1>5, <1>6, <1>7, <1>8 DEF BookRagStep, BookChatStep

\* Nothing else opens a chat, writes into one, or writes an index.
LEMMA BookRagFrame ==
    ASSUME Served, [Next]_appVars
    PROVE  \/ \E r \in Requests : BookRagStep(r)
           \/ Foreign(RagOps, RagWaits) /\ ChatsKept /\ UNCHANGED <<vectors, uncleared>>
<1>1. ASSUME NEW r \in Requests, Handle(r), ~BookRagStep(r)
      PROVE  Foreign(RagOps, RagWaits) /\ ChatsKept /\ UNCHANGED <<vectors, uncleared>>
  <2>1. ChatsKept /\ UNCHANGED <<vectors, uncleared>>
    BY <1>1 DEF Handle, ragChatVars, indexVars, ChatsKept
  <2>2. PICK ops \in {UserOps, AuthOps, PushOps, AiOps, CatalogueOps, LessonOps},
             waits \in {UserWaits, AuthWaits, PushWaits, AiWaits, CatalogueWaits, LessonWaits} :
          Moves(r, ops, waits)
    BY <1>1, UsersMoves, AuthMoves, PushMoves, AiMoves, CatalogueMoves, LessonsMoves DEF Handle
  <2>3. ops \cap RagOps = {}
    BY DEF UserOps, AuthOps, Logins, PushOps, AiOps, CatalogueOps, LessonOps, RagOps
  <2>4. waits \cap RagWaits = {}
    BY DEF UserWaits, AuthWaits, PushWaits, AiWaits, CatalogueWaits, LessonWaits, RagWaits
  <2>5. waits \in OwnWaits /\ RagWaits \in OwnWaits
    BY DEF OwnWaits
  <2>6. QED
    BY <2>1, <2>2, <2>3, <2>4, <2>5, MovesAreForeign, WaitsAreNoVerdicts DEF Rest
<1>2. CASE Halts /\ (NoTableChanges \/ Crash \/ Pass)
  <2>1. ChatsKept /\ UNCHANGED <<vectors, uncleared>>
    BY <1>2 DEF NoTableChanges, Crash, Pass, ragChatVars, indexVars, ChatsKept
  <2>2. QED
    BY <1>2, <2>1, HaltsIsForeign
<1>3. QED
  BY <1>1, <1>2, StepKinds

\* What the requests about chats find at each await: in every state.
THEOREM BookChatsInvariant == Spec => []BookChatsInv
<1>1. Init => BookChatsInv
  <2> SUFFICES ASSUME Init PROVE BookChatsInv
    OBVIOUS
  <2>1. /\ bookChats = <<>> /\ bookMessages = {}
        /\ \A r \in Requests : pc[r] = "idle" /\ call[r].op = "none"
    BY DEF Init, BookRagInit, ServerInit, NoCall
  <2>2. bookChats \in Seq([id : Requests, user : Readers, book : Kept])
    BY <2>1
  <2>3. QED
    BY <2>1, <2>2
       DEF BookChatsInv, ChatCallsWait, ChatIsLatest, ExchangeStands, OpensOnce, AnswerIsShown,
           AnswersAreShown, StoredBy, Asks, Openers
<1>2. Served /\ BookChatsInv /\ [Next]_appVars => BookChatsInv'
  <2> SUFFICES ASSUME Served, BookChatsInv, [Next]_appVars PROVE BookChatsInv'
    OBVIOUS
  <2>1. CASE \E r \in Requests : BookRagStep(r)
    BY <2>1, BookRagSteps
  <2>2. CASE Foreign(RagOps, RagWaits) /\ ChatsKept
    <3>1. Onward
      BY <2>2, ForeignGoesOnward
    <3>2. ASSUME NEW s \in Requests
          PROVE  ChatHolds(s)'
      BY <2>2, <3>1, ChatLeftAlone DEF BookChatsInv, BookChatRows, ChatHolds
    <3>3. QED
      BY <2>2, <3>2 DEF BookChatsInv, ChatsKept, ChatHolds, AnswersAreShown
  <2>3. QED
    BY <2>1, <2>2, BookRagFrame
<1>3. QED
  BY <1>1, <1>2, ServedAlways, PTL DEF Spec

\* An answer that was given is in the chat that is shown next.
THEOREM AnswersAlwaysShown == Spec => []AnswersAreShown
<1>1. BookChatsInv => AnswersAreShown
  BY DEF BookChatsInv, AnswersAreShown
<1>2. QED
  BY <1>1, BookChatsInvariant, PTL

-----------------------------------------------------------------------------
(* The pages of an inbox. *)

\* A non-empty set of natural numbers has a smallest one.
LEMMA SmallestExists ==
    ASSUME NEW S \in SUBSET Nat, S # {}
    PROVE  /\ Min(S) \in S /\ \A y \in S : Min(S) <= y
<1>1. \E m \in S : \A y \in S : ~ (<<y, m>> \in OpToRel(<, Nat))
  BY NatLessThanWellFounded, WFMin
<1>2. PICK m \in S : \A y \in S : ~ (<<y, m>> \in OpToRel(<, Nat))
  BY <1>1
<1>3. ASSUME NEW y \in S PROVE m <= y
  <2>1. y < m => <<y, m>> \in OpToRel(<, Nat)
    BY DEF OpToRel
  <2>2. ~(y < m)
    BY <1>2, <2>1, Zenon
  <2>3. QED
    BY <2>2
<1>4. QED
  BY <1>3 DEF Min

\* What a page holds, and what it leaves for later: the older ones.
LEMMA PageIsNewest ==
    ASSUME NEW n \in Nat, NEW ids \in SUBSET (1 .. n)
    PROVE  /\ Page(ids) \subseteq ids /\ (ids # {} => Page(ids) # {})
           /\ \A i \in ids \ Page(ids) : After(ids) = "paging" /\ \A j \in Page(ids) : i < j
<1> DEFINE Above(i) == {j \in ids : j > i}
<1>0. ids \subseteq 0 .. n /\ \A i \in ids : i \in Nat
  OBVIOUS
<1>1. IsFiniteSet(ids) /\ \A S \in SUBSET ids : Cardinality(S) \in Nat /\ IsFiniteSet(S)
  <2>1. IsFiniteSet(1 .. n)
    BY FS_Interval
  <2>2. IsFiniteSet(ids)
    BY <2>1, FS_Subset
  <2>3. QED
    BY <2>2, PartCounted
<1>2. PageSize \in Nat \ {0}
  BY PushAssumption
<1>3. Page(ids) = {i \in ids : Cardinality(Above(i)) < PageSize}
  BY DEF Page
<1>4. ASSUME ids # {}
      PROVE  Page(ids) # {}
  <2>1. PICK i \in ids : \A j \in ids : i >= j
    BY <1>0, <1>4, LargestExists
  <2>2. Above(i) = {}
    <3>1. \A j \in ids : ~(j > i)
      BY <1>0, <2>1
    <3>2. QED
      BY <3>1
  <2>3. Cardinality(Above(i)) = 0
    BY <2>2, FS_EmptySet
  <2>4. QED
    BY <1>2, <1>3, <2>3
<1>5. ASSUME NEW i \in ids \ Page(ids)
      PROVE  After(ids) = "paging" /\ \A j \in Page(ids) : i < j
  <2>1. Above(i) \in SUBSET ids /\ i \notin Above(i) /\ Cardinality(Above(i)) >= PageSize
    BY <1>1, <1>2, <1>3
  <2>2. Cardinality(Above(i)) + 1 <= Cardinality(ids)
    BY <1>1, <2>1, OneMoreCounted
  <2>3. After(ids) = "paging"
    BY <1>1, <1>2, <2>1, <2>2 DEF After
  <2>4. ASSUME NEW j \in Page(ids), ~(i < j)
        PROVE  FALSE
    <3>1. Above(i) \in SUBSET Above(j) /\ Above(j) \in SUBSET ids
      <4>0. i \in ids /\ j \in ids
        BY <1>3, <1>5, <2>4
      <4>1. i \in Nat /\ j \in Nat /\ i >= j
        BY <1>0, <2>4, <4>0
      <4>2. \A k \in ids : k > i => k > j
        BY <1>0, <4>1
      <4>3. QED
        BY <4>2
    <3>2. Cardinality(Above(i)) <= Cardinality(Above(j)) /\ Cardinality(Above(j)) \in Nat
      BY <1>1, <3>1, PartCounted
    <3>3. QED
      BY <1>1, <1>2, <1>3, <2>1, <3>2
  <2>5. QED
    BY <2>3, <2>4
<1>6. QED
  BY <1>3, <1>4, <1>5

\* A listing that waits stands while notifications come in and are read.
LEMMA CursorKept ==
    ASSUME NotesAreRows, NotesStay, NEW r \in Requests, Stays(r), CursorStands(r)
    PROVE  CursorStands(r)'
<1> SUFFICES ASSUME NEW own, own = call[r].what, NEW got, got = saw[r], NEW u, u = call[r].who,
                    NEW op, op = call[r].op, NEW at, at = pc[r],
                    call'[r] = call[r], saw'[r] = saw[r], pc'[r] = pc[r]
             PROVE  CursorStands(r)'
  BY DEF Stays
<1>1. /\ DOMAIN notes = 1 .. Len(notes) /\ Len(notes) \in Nat
      /\ DOMAIN notes' = 1 .. Len(notes') /\ Len(notes') \in Nat
  BY DEF NotesAreRows, NotesStay
<1>2. own \subseteq DOMAIN notes /\ got \subseteq own /\ own \subseteq DOMAIN notes'
  BY DEF CursorStands, NotesStay
<1>3. \A i \in own : notes'[i].to = u
  BY <1>2 DEF CursorStands, NotesStay
<1>4. \A i \in own \ got : \/ op = "listUnread" /\ notes'[i].read
                           \/ at = "paging" /\ \A j \in got : i < j
  BY <1>2 DEF CursorStands, NotesStay
<1>5. ASSUME NEW j \in got, NEW i \in DOMAIN notes', i < j,
             notes'[i].to = u, op = "listUnread" => ~notes'[i].read
      PROVE  i \in own
  <2>1. i \in DOMAIN notes
    BY <1>1, <1>2, <1>5
  <2>2. notes[i].to = u /\ (op = "listUnread" => ~notes[i].read)
    BY <1>5, <2>1 DEF NotesStay
  <2>3. QED
    BY <1>5, <2>1, <2>2 DEF CursorStands, Mine
<1>6. at = "paging" => got # {}
  BY DEF CursorStands
<1>7. QED
  BY <1>2, <1>3, <1>4, <1>5, <1>6 DEF CursorStands, Mine

\* The first page of an inbox.
LEMMA InboxIsOpened ==
    ASSUME Served, NotesAreRows, NEW r \in Requests, NEW u, NEW unread \in BOOLEAN,
           ListMy(r, u, unread)
    PROVE  /\ pc'[r] \in {"paging", "listed"} /\ call'[r].op \in InboxLists
           /\ CursorStands(r)'
<1> DEFINE op == IF unread THEN "listUnread" ELSE "listMy"
           ids == Mine(u, unread)
<1>1. Arrive(r, op, u, ids, After(ids), Page(ids)) /\ notes' = notes
  BY DEF ListMy, pushVars
<1>2. After(ids) \in {"paging", "listed"}
  BY DEF After
<1>3. /\ pc'[r] = After(ids) /\ call'[r] = [op |-> op, who |-> u, what |-> ids]
      /\ saw'[r] = Page(ids)
  BY <1>1, <1>2 DEF Arrive, Served, WellFormed, Verdicts
<1>4. DOMAIN notes = 1 .. Len(notes) /\ Len(notes) \in Nat
  BY DEF NotesAreRows
<1>5. /\ Page(ids) \subseteq ids /\ (ids # {} => Page(ids) # {})
      /\ \A i \in ids \ Page(ids) : After(ids) = "paging" /\ \A j \in Page(ids) : i < j
  BY <1>4, PageIsNewest DEF Mine
<1>6. After(ids) = "paging" => ids # {}
  BY FS_EmptySet, PushAssumption DEF After
<1>7. ids = {i \in DOMAIN notes : notes[i].to = u /\ (op = "listUnread" => ~notes[i].read)}
  BY DEF Mine
<1>8. QED
  BY <1>1, <1>2, <1>3, <1>5, <1>6, <1>7 DEF CursorStands, Mine, InboxLists

\* The next one.
LEMMA InboxGoesOn ==
    ASSUME Served, NotesAreRows, NEW r \in Requests, NextPage(r), CursorStands(r)
    PROVE  pc'[r] \in {"paging", "listed"} /\ call'[r] = call[r] /\ CursorStands(r)'
<1> DEFINE own == call[r].what
           u   == call[r].who
           unread == call[r].op = "listUnread"
           mine == Mine(u, unread)
           m   == Min(saw[r])
           ids == {i \in mine : i < m}
<1>1. /\ pc[r] = "paging" /\ notes' = notes
      /\ Await(r, After(ids), saw[r] \cup Page(ids))
  BY DEF NextPage, Cursor, pushVars
<1>2. After(ids) \in {"paging", "listed"}
  BY DEF After
<1>3. pc'[r] = After(ids) /\ saw'[r] = saw[r] \cup Page(ids) /\ call' = call
  BY <1>1, AwaitAt
<1>4. DOMAIN notes = 1 .. Len(notes) /\ Len(notes) \in Nat /\ own \subseteq DOMAIN notes
  BY DEF NotesAreRows, CursorStands
<1>5. saw[r] \in SUBSET Nat /\ saw[r] # {} /\ saw[r] \subseteq own
  BY <1>1, <1>4 DEF CursorStands
<1>6. m \in saw[r] /\ \A j \in saw[r] : m <= j
  BY <1>5, SmallestExists
<1>7. mine \subseteq DOMAIN notes
  BY DEF Mine
<1> HIDE DEF m
<1>8. /\ Page(ids) \subseteq ids
      /\ \A i \in ids \ Page(ids) : After(ids) = "paging" /\ \A j \in Page(ids) : i < j
  <2>1. ids \in SUBSET (1 .. Len(notes))
    BY <1>4, <1>7
  <2> HIDE DEF ids
  <2>2. QED
    BY <1>4, <2>1, PageIsNewest
<1>9. \A i \in mine : i < m => i \in own
  BY <1>6 DEF CursorStands
<1>10. ASSUME NEW i \in own \ (saw[r] \cup Page(ids))
       PROVE  \/ unread /\ notes[i].read
              \/ After(ids) = "paging" /\ \A j \in saw[r] \cup Page(ids) : i < j
  <2>1. CASE unread /\ notes[i].read
    BY <2>1
  <2>2. CASE ~(unread /\ notes[i].read)
    <3>1. \A j \in saw[r] : i < j
      BY <1>10, <2>2 DEF CursorStands
    <3>2. i \in DOMAIN notes /\ notes[i].to = u
      BY <1>4, <1>10 DEF CursorStands
    <3>3. i \in ids
      BY <1>6, <2>2, <3>1, <3>2 DEF Mine
    <3>4. QED
      BY <1>8, <1>10, <3>1, <3>3
  <2>3. QED
    BY <2>1, <2>2
<1>11. ASSUME NEW j \in saw[r] \cup Page(ids), NEW i \in mine, i < j
       PROVE  i \in own
  <2>1. CASE j \in saw[r]
    BY <1>11, <2>1 DEF CursorStands
  <2>2. CASE j \in Page(ids)
    <3>1. j < m /\ j \in Nat /\ i \in Nat /\ m \in Nat
      BY <1>4, <1>5, <1>6, <1>7, <1>8, <2>2
    <3>2. QED
      BY <1>9, <1>11, <3>1
  <2>3. QED
    BY <2>1, <2>2
<1>12. QED
  <2>1. Page(ids) \subseteq own
    BY <1>8, <1>9
  <2>2. own \subseteq DOMAIN notes /\ \A i \in own : notes[i].to = u
    BY DEF CursorStands
  <2>3. Mine(u, unread)' = mine
    BY <1>1, <1>3 DEF Mine
  <2> HIDE DEF own, ids, mine
  <2>4. QED
    BY <1>1, <1>2, <1>3, <1>5, <1>10, <1>11, <2>1, <2>2, <2>3 DEF CursorStands, own, u, unread

\* A step of NotificationService turns a page of an inbox, or has nothing to do with one.
LEMMA InboxKinds ==
    ASSUME Served, NEW r \in Requests, PushStep(r)
    PROVE  \/ \E u : \E unread \in BOOLEAN : ListMy(r, u, unread)
           \/ NextPage(r)
           \/ /\ pc'[r] \notin {"paging", "listed"}
              /\ \/ pc[r] = "idle" /\ call'[r].op \notin InboxLists
                 \/ pc[r] \in PushWaits \ {"paging"} /\ call'[r] = call[r]
<1> DEFINE Otherwise ==
             /\ pc'[r] \notin {"paging", "listed"}
             /\ \/ pc[r] = "idle" /\ call'[r].op \notin InboxLists
                \/ pc[r] \in PushWaits \ {"paging"} /\ call'[r] = call[r]
<1>1. ASSUME NEW op, NEW who, NEW what, NEW l, NEW read, Arrive(r, op, who, what, l, read),
             IsNext(r), op \notin InboxLists, l \notin {"paging", "listed"}
      PROVE  Otherwise
  BY <1>1 DEF IsNext, Arrive, Served, WellFormed
<1> HIDE DEF Otherwise
<1>2. CASE IsNext(r) /\ DeviceRequest(r)
  <2>1. Otherwise
    BY <1>1, <1>2 DEF DeviceRequest, RegisterDevice, RemoveDeviceById, InboxLists
  <2>2. QED
    BY <2>1 DEF Otherwise
<1>3. CASE IsNext(r) /\ (AdminSendRequest(r) \/ SendRequest(r))
  <2>1. ASSUME NEW op, NEW to, Send(r, op, to), op \notin InboxLists
        PROVE  Otherwise
    BY <1>1, <1>3, <2>1 DEF Send
  <2>2. ASSUME SendRequest(r)
        PROVE  Otherwise
    BY <2>1, <2>2 DEF SendRequest, SendToUser, SendToMany, Broadcast, InboxLists
  <2>3. ASSUME NEW us, AdminSendToMany(r, us) \/ AdminBroadcast(r)
        PROVE  Otherwise
    BY <1>1, <1>3, <2>3 DEF AdminSendToMany, AdminBroadcast, InboxLists
  <2>4. ASSUME NEW u, AdminSendToUser(r, u)
        PROVE  Otherwise
    BY <2>1, <2>4 DEF AdminSendToUser, InboxLists
  <2>5. Otherwise
    BY <1>3, <2>2, <2>3, <2>4 DEF AdminSendRequest
  <2>6. QED
    BY <2>5 DEF Otherwise
<1>4. CASE IsNext(r) /\ InboxRequest(r)
  <2>1. ASSUME NEW u, NEW i, MarkRead(r, u, i) \/ MarkAllRead(r, u)
        PROVE  Otherwise
    BY <1>1, <1>4, <2>1 DEF MarkRead, MarkAllRead, InboxLists
  <2>2. Otherwise \/ \E u : \E unread \in BOOLEAN : ListMy(r, u, unread)
    BY <1>4, <2>1 DEF InboxRequest
  <2>3. QED
    BY <2>2 DEF Otherwise
<1>5. CASE RemoveDevice(r) \/ CollectDevices(r) \/ StoreNotes(r) \/ SendMulticast(r)
  BY <1>5, AwaitAt
     DEF RemoveDevice, CollectDevices, StoreNotes, SendMulticast, Leave, PushWaits
<1>6. QED
  BY <1>2, <1>3, <1>4, <1>5 DEF PushStep

\* Notifications stay, whatever happens.
LEMMA NotesAlwaysStay ==
    ASSUME Served, PushInv, [Next]_appVars
    PROVE  NotesStay
<1>1. NotesAreRows
  BY DEF PushInv
<1>2. ASSUME NEW r \in Requests, StoresNotes(r)
      PROVE  NotesStay
  <2>1. IsFiniteSet(call[r].what) /\ notes' = notes \o NotesFor(call[r].what, r)
    BY <1>1, <1>2 DEF StoresNotes, NotesAreRows
  <2>2. QED
    BY <1>1, <2>1, NotesAreAdded
<1>3. notes' = notes => NotesStay
  BY <1>1, NotesAreRead
<1>4. ASSUME NEW r \in Requests, PushStep(r)
      PROVE  NotesStay
  BY <1>2, <1>3, <1>4, PushStepKinds
     DEF TakesDevice, ReadsDevices, WaitsForDevices, DropsDevice
<1>5. QED
  BY <1>4, PushFrame

\* What a client of an inbox has and lacks, page after page: in every state.
THEOREM CursorInvariant == Spec => []CursorInv
<1>1. Init => CursorInv
  BY DEF Init, ServerInit, CursorInv, CursorHolds, NoCall, InboxLists
<1>2. Served /\ PushInv /\ CursorInv /\ [Next]_appVars => CursorInv'
  <2> SUFFICES ASSUME Served, PushInv, CursorInv, [Next]_appVars, NEW q \in Requests
               PROVE  CursorHolds(q)'
    BY DEF CursorInv
  <2>1. NotesAreRows /\ NotesStay /\ CursorHolds(q)
    BY NotesAlwaysStay DEF PushInv, CursorInv
  <2>2. CASE Stays(q)
    BY <2>1, <2>2, CursorKept DEF CursorHolds, Stays
  <2>3. CASE ~Stays(q) /\ \E r \in Requests : PushStep(r)
    <3>1. PICK r \in Requests : PushStep(r)
      BY <2>3
    <3>2. q = r /\ Moves(q, PushOps, PushWaits)
      BY <2>3, <3>1, PushMoves DEF Moves
    <3>3. ASSUME NEW u, NEW unread \in BOOLEAN, ListMy(q, u, unread)
          PROVE  CursorHolds(q)'
      BY <2>1, <3>3, InboxIsOpened DEF CursorHolds
    <3>4. CASE NextPage(q)
      <4>1. pc[q] = "paging"
        BY <3>4 DEF NextPage
      <4>2. call[q].op \in InboxLists /\ CursorStands(q)
        BY <2>1, <4>1 DEF CursorHolds
      <4>3. QED
        BY <2>1, <3>4, <4>2, InboxGoesOn DEF CursorHolds
    <3>5. ASSUME pc[q] \in PushWaits \ {"paging"}
          PROVE  call[q].op \notin InboxLists
      BY <2>1, <3>5 DEF CursorHolds, PushWaits, Verdicts
    <3>6. QED
      BY <3>1, <3>2, <3>3, <3>4, <3>5, InboxKinds DEF CursorHolds
  <2>4. CASE ~Stays(q) /\ Foreign(PushOps, PushWaits)
    <3>1. CASE Breaks(q)
      BY <2>1, <3>1 DEF Breaks, CursorHolds, Verdicts
    <3>2. CASE /\ pc[q] = "idle" /\ pc'[q] \notin PushWaits /\ call'[q].op \notin PushOps
      BY <3>2 DEF CursorHolds, InboxLists, PushOps, PushWaits
    <3>3. CASE /\ q \in InFlight /\ pc[q] \notin PushWaits \cup Rest
               /\ pc'[q] \notin PushWaits /\ call'[q] = call[q]
      BY <2>1, <3>3 DEF CursorHolds, Rest, PushWaits
    <3>4. QED
      BY <2>4, <3>1, <3>2, <3>3 DEF Foreign
  <2>5. QED
    BY <2>2, <2>3, <2>4, PushFrame
<1>3. QED
  BY <1>1, <1>2, ServedAlways, PushInvariant, PTL DEF Spec

-----------------------------------------------------------------------------
(* Pages by number. *)

\* The rows of the tables can be counted.
LEMMA RowsAreCounted ==
    ASSUME NEW ids, ids \subseteq Kinds \cup Requests
    PROVE  IsFiniteSet(ids)
<1>1. IsFiniteSet(Kinds)
  <2>1. \A x, y, z : IsFiniteSet({x} \cup {y} \cup {z})
    BY FS_Singleton, FS_Union
  <2> DEFINE A == {"ageCategory"} \cup {"trainingCategory"} \cup {"lesson"}
             B == {"lessonBlock"} \cup {"bookCategory"} \cup {"book"}
             C == {"masterclassCategory"} \cup {"masterclass"} \cup {"masterclassBlock"}
             D == {"plan"} \cup {"plan"} \cup {"plan"}
  <2>2. IsFiniteSet(A) /\ IsFiniteSet(B) /\ IsFiniteSet(C) /\ IsFiniteSet(D)
    BY <2>1
  <2>3. Kinds = (A \cup B) \cup (C \cup D)
    BY KindsAreThese
  <2> HIDE DEF A, B, C, D
  <2>4. IsFiniteSet(A \cup B) /\ IsFiniteSet(C \cup D)
    BY <2>2, FS_Union
  <2>5. QED
    BY <2>3, <2>4, FS_Union
<1>2. QED
  BY <1>1, RequestsAreFinite, FS_Union, FS_Subset

\* What a write leaves of the places of rows: those that stay keep theirs.
PlacesStay ==
    \A id \in DOMAIN rows \cap DOMAIN rows' :
        rows'[id].kind = rows[id].kind /\ rows'[id].at = rows[id].at

\* Rows that stay where they are have places of their own.
LEMMA PlacesKept ==
    ASSUME PlacesCounted, Onward, DOMAIN rows' \subseteq DOMAIN rows, PlacesStay
    PROVE  PlacesCounted'
<1>1. /\ Cardinality(Ended) \in Nat /\ Cardinality(Ended') \in Nat
      /\ Cardinality(Ended) <= Cardinality(Ended')
  BY EndedGrows
<1>2. ASSUME NEW id \in DOMAIN rows'
      PROVE  rows'[id].at \in 1 .. 1 + Cardinality(Ended')
  <2>1. id \in DOMAIN rows /\ rows'[id].at = rows[id].at
    BY <1>2 DEF PlacesStay
  <2>2. rows[id].at \in 1 .. 1 + Cardinality(Ended)
    BY <2>1 DEF PlacesCounted
  <2>3. QED
    BY <1>1, <2>1, <2>2
<1>3. ASSUME NEW id \in DOMAIN rows', NEW other \in DOMAIN rows',
             rows'[other].kind = rows'[id].kind, rows'[other].at = rows'[id].at
      PROVE  other = id
  BY <1>3 DEF PlacesCounted, PlacesStay, Ids
<1>4. QED
  BY <1>2, <1>3 DEF PlacesCounted, Ids

\* A new row comes after all of its kind.
LEMMA PlaceIsTaken ==
    ASSUME Served, PlacesCounted, Onward, NEW q \in Requests, q \notin DOMAIN rows,
           InsertRow(q), rows' # rows
    PROVE  PlacesCounted'
<1> DEFINE new == call[q].what
           n == Cardinality(Ended)
           S == {0} \cup {rows[id].at : id \in Ids(new.kind)}
<1>1. /\ pc[q] = "inserting"
      /\ rows' = [id \in DOMAIN rows \cup {q} |-> IF id = q THEN NewRow(new) ELSE rows[id]]
      /\ Leave(q, "done")
  BY DEF InsertRow
<1>2. pc'[q] = "done"
  BY <1>1, AwaitAt DEF Leave
<1>3. n \in Nat /\ Cardinality(Ended') \in Nat /\ n + 1 <= Cardinality(Ended')
  BY <1>1, <1>2, EndedGrows DEF Verdicts
<1>4. S \in SUBSET (0 .. n + 1) /\ S # {}
  BY <1>3 DEF PlacesCounted, Ids
<1> HIDE DEF S
<1>5. Max(S) \in 0 .. n + 1 /\ \A y \in S : Max(S) >= y
  <2>1. n + 1 \in Nat
    BY <1>3
  <2> HIDE DEF n
  <2>2. QED
    BY <1>4, <2>1, LargestOf
<1>6. /\ DOMAIN rows' = DOMAIN rows \cup {q}
      /\ rows'[q] = NewRow(new)
      /\ \A id \in DOMAIN rows : rows'[id] = rows[id]
  BY <1>1
<1>7. rows'[q].kind = new.kind /\ rows'[q].at = 1 + Max(S)
  BY <1>6 DEF NewRow, S
<1>9. \A id \in DOMAIN rows : rows[id].at \in 1 .. 1 + n
  BY DEF PlacesCounted
<1>10. \A id \in DOMAIN rows : rows[id].kind = new.kind => rows[id].at \in S
  BY DEF S, Ids
<1>11. ASSUME NEW id \in DOMAIN rows, rows[id].kind = new.kind
       PROVE  rows[id].at # 1 + Max(S)
  BY <1>3, <1>5, <1>9, <1>10, <1>11
<1>12. ASSUME NEW id \in DOMAIN rows'
       PROVE  rows'[id].at \in 1 .. 1 + Cardinality(Ended')
  <2>1. CASE id = q
    BY <1>3, <1>5, <1>7, <2>1
  <2>2. CASE id # q
    <3>1. id \in DOMAIN rows /\ rows'[id].at = rows[id].at
      BY <1>6, <2>2
    <3>2. QED
      BY <1>3, <1>9, <3>1
  <2>3. QED
    BY <2>1, <2>2
<1>13. ASSUME NEW id \in DOMAIN rows', NEW other \in DOMAIN rows',
              rows'[other].kind = rows'[id].kind, rows'[other].at = rows'[id].at
       PROVE  other = id
  BY <1>6, <1>7, <1>11, <1>13 DEF PlacesCounted, Ids
<1>14. QED
  BY <1>12, <1>13 DEF PlacesCounted, Ids

\* A row that is changed stays in its place.
LEMMA PlaceIsKept ==
    ASSUME Served, RowsFit, PlacesCounted, Onward, NEW q \in Requests, UpdateRow(q), rows' # rows
    PROVE  PlacesCounted'
<1> DEFINE new == call[q].what
           was == rows[new.id]
<1>1. new.id \in Ids(new.kind) /\ rows' = [rows EXCEPT ![new.id] = Changed(@, new)]
  BY DEF UpdateRow
<1>2. new.id \in DOMAIN rows /\ DOMAIN was = {"kind", "under", "data", "at"}
  BY <1>1 DEF Ids, RowsFit
<1>3. /\ DOMAIN rows' = DOMAIN rows /\ rows'[new.id] = Changed(was, new)
      /\ \A id \in DOMAIN rows \ {new.id} : rows'[id] = rows[id]
  BY <1>1, <1>2
<1>4. rows'[new.id].kind = was.kind /\ rows'[new.id].at = was.at
  BY <1>2, <1>3 DEF Changed
<1>5. PlacesStay
  BY <1>3, <1>4 DEF PlacesStay
<1>6. QED
  BY <1>3, <1>5, PlacesKept

\* The rows that go leave the others in their places.
LEMMA PlaceIsGivenUp ==
    ASSUME Served, PlacesCounted, Onward, NEW q \in Requests, EraseRow(q), rows' # rows
    PROVE  PlacesCounted'
<1> DEFINE gone == {call[q].what.id} \cup Under(call[q].what.id)
<1>1. KeepAllBut(gone)
  BY DEF EraseRow
<1>2. DOMAIN rows' = DOMAIN rows \ gone /\ \A c \in DOMAIN rows' : rows'[c] = rows[c]
  BY <1>1 DEF KeepAllBut
<1>3. PlacesStay
  BY <1>2 DEF PlacesStay
<1>4. QED
  BY <1>2, <1>3, PlacesKept

-----------------------------------------------------------------------------
(* Lists: rows by their filters, in the order of a column. *)

\* Rows are compared by a number.
LEMMA ColumnsCount ==
    ASSUME RowsFit, PlacesCounted, NEW list, list.kind \in Listed,
           list.sort.by \in Sorts(list.kind), NEW id \in Selected(list)
    PROVE  Column(list, id) \in Nat
<1>1. id \in DOMAIN rows /\ rows[id].kind = list.kind
  BY DEF Selected, Ids
<1>2. rows[id].at \in Nat
  BY <1>1 DEF PlacesCounted
<1>3. Cardinality(Filling(id)) \in Nat
  <2>1. Filling(id) \subseteq Kinds \cup Requests
    BY DEF Filling, Under, RowsFit
  <2>2. QED
    BY <2>1, RowsAreCounted, FS_CardinalityType
<1>4. ASSUME list.sort.by = "basePrice"
      PROVE  rows[id].data \in Nat
  <2>1. list.kind = "book"
    BY <1>4 DEF Sorts, Countable
  <2>2. rows[id].data \in Prices
    BY <1>1, <2>1 DEF RowsFit, Contents
  <2>3. QED
    BY <2>2, CatalogueAssumption
<1>5. QED
  BY <1>2, <1>3, <1>4 DEF Column

\* What n pages hold, and what the rows on them have ahead.
LEMMA FirstsAre ==
    ASSUME NEW list, NEW n \in Nat, NEW first \in Firsts(list, n)
    PROVE  /\ first \subseteq Selected(list)
           /\ Cardinality(first) = n \/ (Cardinality(first) < n /\ first = Selected(list))
           /\ \A id \in first : Ahead(list, id) \subseteq first
BY DEF Firsts

\* A row that ties with none, is not on a page and was not on those before it,
\* is on a later one.
LEMMA PageIsTurned ==
    ASSUME RowsFit, PlacesCounted, NEW list, list.kind \in Listed,
           list.sort.by \in Sorts(list.kind),
           NEW id \in Selected(list), ~Tied(list, id),
           NEW back \in Nat, NEW n, n = back + 1, NEW page \in Pages(list, n), id \notin page,
           Cardinality(Ahead(list, id)) >= back * Limit
    PROVE  NextWait(list, n) = "turning" /\ Cardinality(Ahead(list, id)) >= n * Limit
<1> DEFINE all   == Selected(list)
           ahead == Ahead(list, id)
<1>1. n - 1 = back /\ Limit \in Nat \ {0}
  BY CatalogueAssumption
<1>2. back * Limit \in Nat /\ n * Limit \in Nat
  BY <1>1
<1>3. PICK skipped \in Firsts(list, back * Limit), upTo \in Firsts(list, n * Limit) :
         page = upTo \ skipped
  BY <1>1 DEF Pages, Slices
<1>4. IsFiniteSet(all) /\ ahead \in SUBSET all /\ id \in all
  <2>1. all \subseteq Kinds \cup Requests
    BY DEF Selected, Ids, RowsFit
  <2>2. QED
    BY <2>1, RowsAreCounted DEF Ahead
<1>5. \A x \in all : Column(list, x) \in Nat
  BY ColumnsCount
<1>6. id \notin ahead /\ \A x \in all : x = id \/ x \in ahead \/ id \in Ahead(list, x)
  BY <1>5 DEF Ahead, Tied
<1>7. /\ Cardinality(ahead) \in Nat /\ Cardinality(ahead) + 1 <= Cardinality(all)
      /\ Cardinality(all) \in Nat
  BY <1>4, <1>6, OneMoreCounted, PartCounted
<1>8. skipped \in SUBSET all /\ upTo \in SUBSET all
  BY <1>2, <1>3, FirstsAre
<1>9. id \notin skipped
  <2> SUFFICES ASSUME id \in skipped PROVE FALSE
    OBVIOUS
  <2>1. ahead \in SUBSET skipped
    BY <1>2, <1>3, FirstsAre
  <2>2. IsFiniteSet(skipped)
    BY <1>4, <1>8, FS_Subset
  <2>3. Cardinality(ahead) + 1 <= Cardinality(skipped) /\ Cardinality(skipped) \in Nat
    BY <1>6, <2>1, <2>2, OneMoreCounted, PartCounted
  <2>4. Cardinality(skipped) = back * Limit \/ Cardinality(skipped) < back * Limit
    BY <1>2, <1>3, FirstsAre
  <2>5. QED
    BY <1>2, <1>7, <2>3, <2>4
<1>10. id \notin upTo
  BY <1>3, <1>9
<1>11. upTo \in SUBSET ahead
  <2>1. \A x \in upTo : id \notin Ahead(list, x)
    BY <1>2, <1>3, <1>10, FirstsAre
  <2>2. QED
    BY <1>6, <1>8, <1>10, <2>1
<1>12. Cardinality(upTo) = n * Limit
  BY <1>2, <1>3, <1>4, <1>10, FirstsAre
<1>13. Cardinality(upTo) <= Cardinality(ahead)
  <2>1. IsFiniteSet(ahead)
    BY <1>4, FS_Subset
  <2>2. QED
    BY <1>11, <2>1, PartCounted
<1>14. n * Limit < Cardinality(all)
  BY <1>2, <1>7, <1>12, <1>13
<1>15. QED
  BY <1>12, <1>13, <1>14 DEF NextWait

\* A step that leaves the rows of a list on it, each with its column.
Standing(list) ==
    \A id \in Selected(list) : id \in Selected(list)' /\ Column(list, id)' = Column(list, id)

\* A row that a step leaves alone.
Alike(id) == id \in DOMAIN rows /\ id \in DOMAIN rows' /\ rows'[id] = rows[id]

\* It does so if it leaves alone the rows of that kind, their parents where the
\* list is below one, and their children where it looks at them.
LEMMA ListStands ==
    ASSUME RowsFit, RowsFit', NEW list, list.kind \in Listed,
           \A id \in Ids(list.kind) : Alike(id),
           list.below # Nothing => \A id \in Ids(ParentOf[list.kind]) : Alike(id),
           LooksBelow(list) =>
               /\ \A c \in DOMAIN rows  : ParentOf[rows[c].kind] = list.kind => Alike(c)
               /\ \A c \in DOMAIN rows' : ParentOf[rows'[c].kind] = list.kind => Alike(c)
    PROVE  Standing(list)
<1> SUFFICES ASSUME NEW id \in Selected(list)
             PROVE  id \in Selected(list)' /\ Column(list, id)' = Column(list, id)
  BY DEF Standing
<1>1. id \in Ids(list.kind) /\ Alike(id)
  BY DEF Selected
<1>2. id \in Ids(list.kind)' /\ rows'[id] = rows[id] /\ id \in DOMAIN rows /\ id \in DOMAIN rows'
  BY <1>1 DEF Alike, Ids
<1>3. list.kind \in Kinds /\ Nothing \notin DOMAIN rows
  BY CatalogueAssumption, KindsAreThese DEF Listed, RowsFit
<1>4. ASSUME list.below # Nothing
      PROVE  IsBelow(id, list.below)'
  <2> DEFINE up == rows[id].under
  <2>1. IsBelow(id, list.below)
    BY <1>4 DEF Selected
  <2>2. CASE up = list.below
    BY <1>2, <2>2 DEF IsBelow
  <2>3. CASE up # list.below
    <3>1. up \in DOMAIN rows /\ rows[up].under = list.below
      BY <2>1, <2>3 DEF IsBelow
    <3>2. up \in Ids(ParentOf[list.kind])
      <4>1. Fits(list.kind, up)
        BY <1>1, <1>2 DEF RowsFit, Ids
      <4>2. up # Nothing
        BY <1>3, <3>1
      <4>3. QED
        BY <4>1, <4>2 DEF Fits, Ids
    <3>3. Alike(up)
      BY <1>4, <3>2
    <3>4. QED
      BY <1>2, <3>1, <3>3 DEF Alike, IsBelow
  <2>4. QED
    BY <2>2, <2>3
<1>5. ASSUME LooksBelow(list)
      PROVE  Filling(id)' = Filling(id)
  <2>1. ASSUME NEW c \in Under(id)
        PROVE  Alike(c)
    <3>1. c \in DOMAIN rows /\ rows[c].under = id /\ Fits(rows[c].kind, id) /\ id # Nothing
      BY <1>2, <1>3 DEF Under, RowsFit
    <3>2. id \in Ids(ParentOf[rows[c].kind])
      BY <3>1 DEF Fits, Ids
    <3>3. ParentOf[rows[c].kind] = list.kind
      BY <1>1, <3>2 DEF Ids
    <3>4. QED
      BY <1>5, <3>1, <3>3
  <2>2. ASSUME NEW c \in Under(id)'
        PROVE  Alike(c)
    <3>1. c \in DOMAIN rows' /\ rows'[c].under = id /\ Fits(rows[c].kind, id)' /\ id # Nothing
      BY <1>2, <1>3 DEF Under, RowsFit
    <3>2. id \in Ids(ParentOf[rows[c].kind])'
      BY <3>1 DEF Fits, Ids
    <3>3. ParentOf[rows'[c].kind] = list.kind
      BY <1>2, <3>2 DEF Ids
    <3>4. QED
      BY <1>5, <3>1, <3>3
  <2>3. Under(id)' = Under(id) /\ \A c \in Under(id) : rows'[c] = rows[c]
    BY <2>1, <2>2 DEF Under, Alike
  <2>4. QED
    BY <2>3 DEF Filling
<1>6. id \in Selected(list)'
  BY <1>2, <1>4, <1>5 DEF Selected, LooksBelow
<1>7. Column(list, id)' = Column(list, id)
  BY <1>2, <1>5 DEF Column, LooksBelow
<1>8. QED
  BY <1>6, <1>7

\* What a write does to lists, it can be told by: see Shifts.
LEMMA OtherWrites ==
    ASSUME RowsFit, RowsFit', CallsFit, NEW q \in Requests, OffsetHolds(q), rows' # rows,
           InsertRow(q) \/ UpdateRow(q) \/ EraseRow(q),
           NEW list, list.kind \in Listed, ~Shifts(q, list)
    PROVE  Standing(list)
<1> DEFINE kind == call[q].what.kind
<1>0. /\ list.kind \in Kinds \ Cascading /\ ParentOf[list.kind] \notin Cascading
      /\ Nothing \notin Kinds
  BY KindsAreThese, CatalogueAssumption DEF Listed, Cascading, ParentOf
<1>1. CASE InsertRow(q)
  <2>1. /\ pc[q] = "inserting"
        /\ rows' = [id \in DOMAIN rows \cup {q} |-> IF id = q THEN NewRow(call[q].what) ELSE rows[id]]
    BY <1>1 DEF InsertRow
  <2>2. q \notin DOMAIN rows /\ call[q].op \in Creates
    BY <2>1 DEF CallsFit, OffsetHolds
  <2>3. /\ \A id \in DOMAIN rows : Alike(id)
        /\ \A id \in DOMAIN rows' : Alike(id) \/ rows'[id].kind = kind
    BY <2>1, <2>2 DEF Alike, NewRow
  <2>4. LooksBelow(list) => ParentOf[kind] # list.kind
    BY <2>2 DEF Shifts
  <2>5. /\ \A id \in Ids(list.kind) : Alike(id)
        /\ \A id \in Ids(ParentOf[list.kind]) : Alike(id)
    BY <2>3 DEF Ids
  <2>6. QED
    BY <2>3, <2>4, <2>5, ListStands
<1>2. CASE UpdateRow(q)
  <2> DEFINE id == call[q].what.id
  <2>1. /\ pc[q] = "updating" /\ id \in Ids(kind)
        /\ rows' = [rows EXCEPT ![id] = Changed(@, call[q].what)]
    BY <1>2 DEF UpdateRow
  <2>2. id \in DOMAIN rows /\ rows[id].kind = kind /\ DOMAIN rows[id] = {"kind", "under", "data", "at"}
    BY <2>1 DEF Ids, RowsFit
  <2>3. /\ DOMAIN rows' = DOMAIN rows /\ rows'[id].kind = kind
        /\ \A other \in DOMAIN rows \ {id} : rows'[other] = rows[other]
    BY <2>1, <2>2 DEF Changed
  <2>4. /\ \A other \in DOMAIN rows : Alike(other) \/ (rows[other].kind = kind /\ rows'[other].kind = kind)
        /\ DOMAIN rows' = DOMAIN rows
    BY <2>2, <2>3 DEF Alike
  <2>5. call[q].op \in RowChanges
    BY <2>1 DEF OffsetHolds
  <2>6. /\ kind # list.kind
        /\ list.below # Nothing => kind # ParentOf[list.kind]
        /\ LooksBelow(list) => ParentOf[kind] # list.kind
    BY <2>5 DEF Shifts
  <2>7. /\ \A other \in Ids(list.kind) : Alike(other)
        /\ list.below # Nothing => \A other \in Ids(ParentOf[list.kind]) : Alike(other)
    BY <2>4, <2>6 DEF Ids
  <2>8. LooksBelow(list) =>
               /\ \A c \in DOMAIN rows  : ParentOf[rows[c].kind] = list.kind => Alike(c)
               /\ \A c \in DOMAIN rows' : ParentOf[rows'[c].kind] = list.kind => Alike(c)
    BY <2>4, <2>6
  <2>9. QED
    BY <2>7, <2>8, ListStands
<1>3. CASE EraseRow(q)
  <2> DEFINE id == call[q].what.id
             gone == {id} \cup Under(id)
  <2>1. pc[q] = "erasing" /\ id \in Ids(kind) /\ ~Restricted(id) /\ KeepAllBut(gone)
    BY <1>3 DEF EraseRow
  <2>2. DOMAIN rows' = DOMAIN rows \ gone /\ \A c \in DOMAIN rows' : rows'[c] = rows[c]
    BY <2>1 DEF KeepAllBut
  <2>3. id \in DOMAIN rows /\ rows[id].kind = kind /\ id # Nothing
    BY <2>1, <1>0, CatalogueAssumption DEF Ids, RowsFit
  <2>4. ASSUME NEW c \in Under(id)
        PROVE  rows[c].kind \in Cascading /\ ParentOf[rows[c].kind] = kind
    <3>1. rows[c].kind \in Cascading /\ Fits(rows[c].kind, id)
      BY <2>1 DEF Restricted, Under, RowsFit
    <3>2. id \in Ids(ParentOf[rows[c].kind])
      BY <2>3, <3>1 DEF Fits, Ids
    <3>3. QED
      BY <2>3, <3>1, <3>2 DEF Ids
  <2>5. call[q].op \in RowChanges
    BY <2>1 DEF OffsetHolds
  <2>6. /\ kind # list.kind
        /\ list.below # Nothing => kind # ParentOf[list.kind]
        /\ LooksBelow(list) => ParentOf[kind] # list.kind
    BY <2>5 DEF Shifts
  <2>7. \A c \in DOMAIN rows : Alike(c) \/ c = id \/ c \in Under(id)
    BY <2>2 DEF Alike
  <2>8. /\ \A other \in Ids(list.kind) : Alike(other)
        /\ list.below # Nothing => \A other \in Ids(ParentOf[list.kind]) : Alike(other)
    BY <1>0, <2>3, <2>4, <2>6, <2>7 DEF Ids
  <2>9. LooksBelow(list) =>
               /\ \A c \in DOMAIN rows  : ParentOf[rows[c].kind] = list.kind => Alike(c)
               /\ \A c \in DOMAIN rows' : ParentOf[rows'[c].kind] = list.kind => Alike(c)
    BY <2>2, <2>3, <2>4, <2>6, <2>7 DEF Alike
  <2>10. QED
    BY <2>8, <2>9, ListStands
<1>4. QED
  BY <1>1, <1>2, <1>3

-----------------------------------------------------------------------------
(* Listings, step by step. *)

\* A listing begins with the rows its filters select; who asks for anything
\* else does not list, and writes by the name of what it does.
LEMMA ListsArrive ==
    ASSUME Served, NEW r \in Requests, pc[r] = "idle", CatalogueRequest(r)
    PROVE  /\ rows' = rows
           /\ \/ \E op \in Listings, kind \in Listed : ListOf(r, op, kind)
              \/ call'[r].op \in Creates /\ pc'[r] = "inserting"
              \/ call'[r].op \in RowChanges /\ pc'[r] \in {"updating", "erasing"}
<1> DEFINE Otherwise ==
             /\ rows' = rows
             /\ \/ call'[r].op \in Creates /\ pc'[r] = "inserting"
                \/ call'[r].op \in RowChanges /\ pc'[r] \in {"updating", "erasing"}
           Lists == \E op \in Listings, kind \in Listed : ListOf(r, op, kind)
<1>0. ASSUME NEW op, NEW who, NEW what, NEW l, NEW read, Arrive(r, op, who, what, l, read),
             rows' = rows, \/ op \in Creates /\ l = "inserting"
                           \/ op \in RowChanges /\ l \in {"updating", "erasing"}
      PROVE  Otherwise
  BY <1>0 DEF Arrive, Served, WellFormed
<1> HIDE DEF Otherwise
<1>1. ASSUME NEW op \in Creates, NEW kind, CreateIn(r, op, kind)
      PROVE  Otherwise
  BY <1>0, <1>1 DEF CreateIn
<1>2. ASSUME NEW op \in RowChanges, NEW kind, UpdateIn(r, op, kind) \/ RemoveFrom(r, op, kind)
      PROVE  Otherwise
  BY <1>0, <1>2 DEF UpdateIn, RemoveFrom
<1>3. ASSUME NEW op \in Listings, NEW kind \in Listed, ListOf(r, op, kind)
      PROVE  rows' = rows /\ Lists
  BY <1>3 DEF ListOf
<1> HIDE DEF Lists
<1>4. ASSUME SoftDeletePlan(r)
      PROVE  Otherwise
  <2>1. "softDeletePlan" \in RowChanges
    BY DEF RowChanges
  <2>2. QED
    BY <1>0, <1>4, <2>1 DEF SoftDeletePlan
<1> SUFFICES Otherwise \/ (rows' = rows /\ Lists)
  BY DEF Otherwise, Lists
<1>6. CASE AgeCategoryAdmin(r) \/ TrainingCategoryAdmin(r) \/ TrainingCategories(r)
  BY <1>1, <1>2, <1>3, <1>6
     DEF AgeCategoryAdmin, CreateAgeCategory, UpdateAgeCategory, RemoveAgeCategory,
         TrainingCategoryAdmin, CreateTrainingCategory, UpdateTrainingCategory,
         RemoveTrainingCategory, TrainingCategories, FindAllTrainingCategories,
         Listings, Listed, Creates, RowChanges
<1>7. CASE LessonAdmin(r) \/ LessonList(r) \/ LessonBlockAdmin(r)
  BY <1>1, <1>2, <1>3, <1>7
     DEF LessonAdmin, CreateLesson, UpdateLesson, RemoveLesson, LessonList, FindAllLessons,
         LessonBlockAdmin, CreateLessonBlock, UpdateLessonBlock, RemoveLessonBlock,
         Listings, Listed, Creates, RowChanges
<1>8. CASE Books(r)
  BY <1>1, <1>2, <1>3, <1>8
     DEF Books, CreateBookCategory, UpdateBookCategory, DeleteBookCategory, FindAllBooks,
         CreateBook, UpdateBook, DeleteBook, Listings, Listed, Creates, RowChanges
<1>9. CASE MasterclassCategoryAdmin(r) \/ MasterclassCategories(r)
  BY <1>1, <1>2, <1>3, <1>9
     DEF MasterclassCategoryAdmin, CreateMasterclassCategory, UpdateMasterclassCategory,
         RemoveMasterclassCategory, MasterclassCategories, FindAllMasterclassCategories,
         Listings, Listed, Creates, RowChanges
<1>10. CASE MasterclassAdmin(r) \/ Masterclasses(r) \/ MasterclassBlockAdmin(r)
  BY <1>1, <1>2, <1>3, <1>10
     DEF MasterclassAdmin, CreateMasterclass, UpdateMasterclass, RemoveMasterclass,
         Masterclasses, FindAllMasterclasses, MasterclassBlockAdmin, CreateMasterclassBlock,
         UpdateMasterclassBlock, RemoveMasterclassBlock, Listings, Listed, Creates, RowChanges
<1>11. CASE Plans(r)
  BY <1>1, <1>2, <1>4, <1>11 DEF Plans, CreatePlan, UpdatePlan, Creates, RowChanges
<1>12. QED
  BY <1>6, <1>7, <1>8, <1>9, <1>10, <1>11 DEF CatalogueRequest

\* The first page of a list.
LEMMA ListIsOpened ==
    ASSUME Served, RowsFit, PlacesCounted, NEW r \in Requests, NEW op \in Listings,
           NEW kind \in Listed, ListOf(r, op, kind)
    PROVE  /\ pc'[r] \in {"turning", "listed"} /\ call'[r].op = op
           /\ OffsetStands(r)'
<1>1. PICK list \in Filters(kind) : \E page \in Pages(list, 1) :
         /\ Arrive(r, op, Nothing, [list |-> list, ids |-> Selected(list)],
                   NextWait(list, 1), [page |-> 1, seen |-> page])
         /\ rows' = rows
  BY DEF ListOf
<1>2. PICK page \in Pages(list, 1) :
         /\ Arrive(r, op, Nothing, [list |-> list, ids |-> Selected(list)],
                   NextWait(list, 1), [page |-> 1, seen |-> page])
         /\ rows' = rows
  BY <1>1
<1>3. list.kind = kind /\ list.sort.by \in Sorts(kind)
  <2>1. list.kind \in {kind} /\ list.sort \in [by : Sorts(kind), desc : BOOLEAN]
    BY DEF Filters
  <2>2. QED
    BY <2>1
<1> DEFINE ids == Selected(list)
<1>4. NextWait(list, 1) \in {"turning", "listed"}
  BY DEF NextWait
<1>5. /\ pc'[r] = NextWait(list, 1) /\ saw'[r] = [page |-> 1, seen |-> page]
      /\ call'[r] = [op |-> op, who |-> Nothing, what |-> [list |-> list, ids |-> ids]]
  BY <1>2, <1>4 DEF Arrive, Served, WellFormed, Verdicts
<1>6. /\ saw'[r].page = 1 /\ saw'[r].seen = page
      /\ call'[r].what.list = list /\ call'[r].what.ids = ids /\ call'[r].op = op
  BY <1>5
<1>7. ASSUME NEW id \in ids \ page, ~Tied(list, id)
      PROVE  NextWait(list, 1) = "turning" /\ Cardinality(Ahead(list, id)) >= 1 * Limit
  <2>1. Ahead(list, id) \subseteq Kinds \cup Requests
    BY DEF Ahead, Selected, Ids, RowsFit
  <2>2. Cardinality(Ahead(list, id)) \in Nat /\ 0 * Limit = 0
    BY <2>1, RowsAreCounted, FS_CardinalityType, CatalogueAssumption
  <2>3. Cardinality(Ahead(list, id)) >= 0 * Limit
    BY <2>2
  <2>4. QED
    BY <1>3, <1>7, <2>3, PageIsTurned
<1>8. /\ Selected(list)' = ids
      /\ \A id : Ahead(list, id)' = Ahead(list, id) /\ Tied(list, id)' = Tied(list, id)
  <2>1. rows' = rows
    BY <1>2
  <2>2. QED
    BY <2>1 DEF Selected, Ahead, Tied, Column, Ids, IsBelow, Filling, Under
<1> SUFFICES OffsetStands(r)'
  BY <1>4, <1>5, <1>6
<1>9. ASSUME NEW id \in ids \ page
      PROVE  \/ Tied(list, id)'
             \/ pc'[r] = "turning" /\ Cardinality(Ahead(list, id))' >= 1 * Limit
  BY <1>5, <1>7, <1>8, <1>9
<1> HIDE DEF ids
<1>10. QED
  BY <1>3, <1>6, <1>8, <1>9 DEF OffsetStands

\* Rows that moved while r was in flight have moved.
LEMMA MovedForGood ==
    ASSUME Onward, NEW r \in Requests, RowsMove(r)
    PROVE  RowsMove(r)'
<1>1. PICK q \in Requests : Overlap(q, r) /\ Shifts(q, call[r].what.list)
  BY DEF RowsMove
<1>2. Overlap(q, r)' /\ call'[q] = call[q] /\ call'[r] = call[r]
  BY <1>1, OverlapStands DEF Onward, Overlap, Begun
<1>3. Shifts(q, call[r].what.list)'
  BY <1>1, <1>2 DEF Shifts
<1>4. QED
  BY <1>2, <1>3 DEF RowsMove

\* The next page of a list.
LEMMA ListGoesOn ==
    ASSUME Served, RowsFit, PlacesCounted, Onward, NEW r \in Requests, TurnPage(r), OffsetStands(r)
    PROVE  pc'[r] \in {"turning", "listed"} /\ call'[r] = call[r] /\ OffsetStands(r)'
<1> SUFFICES ASSUME NEW list, list = call[r].what.list, NEW own, own = call[r].what.ids,
                    NEW at, at = saw[r].page, NEW seen, seen = saw[r].seen, NEW n, n = at + 1
             PROVE  pc'[r] \in {"turning", "listed"} /\ call'[r] = call[r] /\ OffsetStands(r)'
  OBVIOUS
<1>1. PICK page \in Pages(list, n) :
         /\ Await(r, NextWait(list, n), [page |-> n, seen |-> seen \cup page])
         /\ pc[r] = "turning" /\ rows' = rows
  BY DEF TurnPage
<1>2. NextWait(list, n) \in {"turning", "listed"}
  BY DEF NextWait
<1>3. /\ pc'[r] = NextWait(list, n) /\ saw'[r] = [page |-> n, seen |-> seen \cup page]
      /\ call' = call
  BY <1>1, AwaitAt
<1>4. saw'[r].page = n /\ saw'[r].seen = seen \cup page
  BY <1>3
<1>5. /\ list.kind \in Listed /\ list.sort.by \in Sorts(list.kind)
      /\ at \in Nat \ {0} /\ n \in Nat \ {0}
  BY DEF OffsetStands
<1>6. CASE RowsMove(r)
  BY <1>2, <1>3, <1>4, <1>5, <1>6, MovedForGood DEF OffsetStands
<1>7. CASE ~RowsMove(r)
  <2>1. /\ own \subseteq Selected(list)
        /\ \A id \in own \ seen :
              Tied(list, id) \/ Cardinality(Ahead(list, id)) >= at * Limit
    BY <1>7 DEF OffsetStands
  <2>2. ASSUME NEW id \in own \ (seen \cup page), ~Tied(list, id)
        PROVE  NextWait(list, n) = "turning" /\ Cardinality(Ahead(list, id)) >= n * Limit
    <3>1. id \in Selected(list) /\ id \notin page /\ Cardinality(Ahead(list, id)) >= at * Limit
      BY <2>1, <2>2
    <3>2. QED
      BY <1>5, <2>2, <3>1, PageIsTurned
  <2>3. /\ Selected(list)' = Selected(list)
        /\ \A id : Ahead(list, id)' = Ahead(list, id) /\ Tied(list, id)' = Tied(list, id)
    <3>1. rows' = rows
      BY <1>1
    <3>2. QED
      BY <3>1 DEF Selected, Ahead, Tied, Column, Ids, IsBelow, Filling, Under
  <2>4. ASSUME NEW id \in own \ saw'[r].seen
        PROVE  \/ Tied(list, id)'
               \/ pc'[r] = "turning" /\ Cardinality(Ahead(list, id))' >= saw'[r].page * Limit
    BY <1>3, <1>4, <2>2, <2>3, <2>4
  <2>5. own \subseteq Selected(list)' /\ call'[r].what.list = list /\ call'[r].what.ids = own
    BY <1>3, <2>1, <2>3
  <2>6. OffsetStands(r)'
    BY <1>4, <1>5, <2>4, <2>5 DEF OffsetStands
  <2>7. QED
    BY <1>2, <1>3, <2>6
<1>8. QED
  BY <1>6, <1>7

\* A client that looks at a page, while others write.
LEMMA OffsetKept ==
    ASSUME Onward, NEW r \in Requests, Stays(r), OffsetStands(r), RowsFit',
           RowsMove(r)' \/ Standing(call[r].what.list)
    PROVE  OffsetStands(r)'
<1> SUFFICES ASSUME NEW list, list = call[r].what.list, NEW own, own = call[r].what.ids,
                    NEW got, got = saw[r], NEW at, at = pc[r],
                    call'[r] = call[r], saw'[r] = got, pc'[r] = at,
                    call'[r].what.list = list, call'[r].what.ids = own
             PROVE  OffsetStands(r)'
  BY DEF Stays
<1>1. list.kind \in Listed /\ list.sort.by \in Sorts(list.kind) /\ got.page \in Nat \ {0}
  BY DEF OffsetStands
<1>2. CASE RowsMove(r) \/ RowsMove(r)'
  BY <1>1, <1>2, MovedForGood DEF OffsetStands
<1>3. CASE ~RowsMove(r) /\ ~RowsMove(r)'
  <2>1. /\ own \subseteq Selected(list)
        /\ \A id \in own \ got.seen :
              \/ Tied(list, id)
              \/ at = "turning" /\ Cardinality(Ahead(list, id)) >= got.page * Limit
    BY <1>3 DEF OffsetStands
  <2>2. \A id \in Selected(list) : id \in Selected(list)' /\ Column(list, id)' = Column(list, id)
    BY <1>3 DEF Standing
  <2>3. ASSUME NEW id \in Selected(list)
        PROVE  Tied(list, id) => Tied(list, id)'
    BY <2>2, <2>3 DEF Tied
  <2>4. ASSUME NEW id \in Selected(list), Cardinality(Ahead(list, id)) >= got.page * Limit
        PROVE  Cardinality(Ahead(list, id))' >= got.page * Limit
    <3>1. /\ Ahead(list, id) \in SUBSET Ahead(list, id)'
          /\ Ahead(list, id)' \subseteq Kinds \cup Requests
      BY <2>2, <2>4 DEF Ahead, Selected, Ids, RowsFit
    <3> SUFFICES ASSUME NEW A, A = Ahead(list, id), NEW B, B = Ahead(list, id)'
                 PROVE  Cardinality(B) >= got.page * Limit
      OBVIOUS
    <3>2. A \in SUBSET B /\ IsFiniteSet(B) /\ Cardinality(A) >= got.page * Limit
      BY <2>4, <3>1, RowsAreCounted
    <3>3. Cardinality(A) \in Nat /\ Cardinality(B) \in Nat /\ Cardinality(A) <= Cardinality(B)
      BY <3>2, PartCounted
    <3>4. got.page * Limit \in Nat
      BY <1>1, CatalogueAssumption
    <3>5. QED
      BY <3>2, <3>3, <3>4
  <2>5. ASSUME NEW id \in own \ got.seen
        PROVE  \/ Tied(list, id)'
               \/ at = "turning" /\ Cardinality(Ahead(list, id))' >= got.page * Limit
    BY <2>1, <2>3, <2>4, <2>5
  <2>6. own \subseteq Selected(list)'
    BY <2>1, <2>2
  <2>7. QED
    BY <1>1, <2>5, <2>6 DEF OffsetStands
<1>4. QED
  BY <1>2, <1>3

\* The tables are written by the services that are for it.
LEMMA CatalogueFrame ==
    ASSUME Served, [Next]_appVars
    PROVE  \/ \E q \in Requests : CatalogueStep(q)
           \/ rows' = rows /\ Foreign(CatalogueOps, CatalogueWaits)
<1> DEFINE Untouched == rows' = rows /\ Foreign(CatalogueOps, CatalogueWaits)
<1>1. ASSUME NEW r \in Requests, Handle(r), ~CatalogueStep(r)
      PROVE  Untouched
  <2>1. CASE UsersStep(r) /\ UNCHANGED rows
    BY <2>1, UsersMoves, MovesAreForeign
       DEF CatalogueOps, CatalogueWaits, UserOps, UserWaits, Rest, Verdicts
  <2>2. CASE AuthStep(r) /\ UNCHANGED rows
    BY <2>2, AuthMoves, MovesAreForeign
       DEF CatalogueOps, CatalogueWaits, AuthOps, Logins, AuthWaits, Rest, Verdicts
  <2>3. CASE PushStep(r) /\ UNCHANGED rows
    BY <2>3, PushMoves, MovesAreForeign
       DEF CatalogueOps, CatalogueWaits, PushOps, PushWaits, Rest, Verdicts
  <2>4. CASE AiStep(r) /\ UNCHANGED rows
    BY <2>4, AiMoves, MovesAreForeign
       DEF CatalogueOps, CatalogueWaits, AiOps, AiWaits, Rest, Verdicts
  <2>5. CASE BookRagStep(r)
    <3>1. UNCHANGED rows
      BY <2>5 DEF BookRagStep
    <3>2. QED
      BY <2>5, <3>1, BookRagMoves, MovesAreForeign
         DEF CatalogueOps, CatalogueWaits, RagOps, RagWaits, Rest, Verdicts
  <2>6. CASE LessonsStep(r)
    <3>1. UNCHANGED rows
      BY <2>6 DEF LessonsStep
    <3>2. QED
      BY <2>6, <3>1, LessonsMoves, MovesAreForeign
         DEF CatalogueOps, CatalogueWaits, LessonOps, LessonWaits, Rest, Verdicts
  <2>7. QED
    BY <1>1, <2>1, <2>2, <2>3, <2>4, <2>5, <2>6 DEF Handle
<1>2. CASE Halts /\ (NoTableChanges \/ Crash \/ Pass)
  <2>1. UNCHANGED rows
    BY <1>2 DEF NoTableChanges, Crash, Pass, Lapse
  <2>2. QED
    BY <1>2, <2>1, HaltsIsForeign
<1>3. QED
  BY <1>1, <1>2, StepKinds

\* A step that concerns no table leaves the listings as they are.
LEMMA OffsetAside ==
    ASSUME Served, OffsetInv, RowsFit', rows' = rows, Foreign(CatalogueOps, CatalogueWaits)
    PROVE  OffsetInv'
<1>1. Onward
  BY ForeignGoesOnward
<1>2. PlacesCounted /\ \A list : Standing(list)
  BY DEF OffsetInv, Standing, Selected, Column, Ids, IsBelow, Filling, Under
<1>3. PlacesCounted'
  <2>1. PlacesStay
    BY DEF PlacesStay
  <2>2. QED
    BY <1>1, <1>2, <2>1, PlacesKept
<1>4. ASSUME NEW r \in Requests
      PROVE  OffsetHolds(r)'
  <2>0. OffsetHolds(r)
    BY DEF OffsetInv
  <2>1. CASE Stays(r)
    <3>1. CASE call[r].op \in Listings /\ pc[r] \in {"turning", "listed"}
      <4>1. OffsetStands(r)'
        BY <1>1, <1>2, <2>0, <2>1, <3>1, OffsetKept DEF OffsetHolds
      <4>2. QED
        BY <2>0, <2>1, <4>1 DEF OffsetHolds, Stays
    <3>2. QED
      BY <2>0, <2>1, <3>1 DEF OffsetHolds, Stays
  <2>2. CASE Breaks(r)
    BY <2>0, <2>2 DEF Breaks, OffsetHolds, Verdicts
  <2>3. CASE pc[r] = "idle" /\ pc'[r] \notin CatalogueWaits /\ call'[r].op \notin CatalogueOps
    BY <2>3 DEF OffsetHolds, Listings, CatalogueOps, CatalogueWaits
  <2>4. CASE /\ r \in InFlight /\ pc[r] \notin CatalogueWaits \cup Rest
             /\ pc'[r] \notin CatalogueWaits /\ call'[r] = call[r]
    BY <2>0, <2>4 DEF OffsetHolds, Rest, CatalogueWaits
  <2>5. QED
    BY <2>1, <2>2, <2>3, <2>4 DEF Foreign
<1>5. QED
  BY <1>3, <1>4 DEF OffsetInv

\* After a step of a service too, rows have places of their own.
LEMMA PlacesHold ==
    ASSUME Served, RowsFit, CallsFit, OffsetInv, NEW q \in Requests, CatalogueStep(q)
    PROVE  PlacesCounted'
<1>1. Onward
  BY CatalogueMoves, MovesGoOnward DEF CatalogueWaits, Verdicts
<1>2. PlacesCounted
  BY DEF OffsetInv
<1>3. CASE rows' = rows
  <2>1. PlacesStay
    BY <1>3 DEF PlacesStay
  <2>2. QED
    BY <1>1, <1>2, <1>3, <2>1, PlacesKept
<1>4. CASE rows' # rows
  <2>1. CASE IsNext(q) /\ CatalogueRequest(q)
    BY <1>4, <2>1, ListsArrive DEF IsNext
  <2>2. CASE InsertRow(q)
    <3>1. q \notin DOMAIN rows
      BY <2>2 DEF InsertRow, CallsFit
    <3>2. QED
      BY <1>1, <1>2, <1>4, <2>2, <3>1, PlaceIsTaken
  <2>3. CASE UpdateRow(q)
    BY <1>1, <1>2, <1>4, <2>3, PlaceIsKept
  <2>4. CASE EraseRow(q)
    BY <1>1, <1>2, <1>4, <2>4, PlaceIsGivenUp
  <2>5. CASE TurnPage(q)
    BY <1>4, <2>5 DEF TurnPage
  <2>6. QED
    BY <2>1, <2>2, <2>3, <2>4, <2>5 DEF CatalogueStep
<1>5. QED
  BY <1>3, <1>4

\* Who takes it is where the invariant says.
LEMMA ListerHolds ==
    ASSUME Served, RowsFit, OffsetInv, NEW q \in Requests, CatalogueStep(q)
    PROVE  OffsetHolds(q)'
<1>1. Onward /\ PlacesCounted /\ OffsetHolds(q)
  BY CatalogueMoves, MovesGoOnward DEF CatalogueWaits, Verdicts, OffsetInv
<1>2. CASE IsNext(q) /\ CatalogueRequest(q)
  <2>1. pc[q] = "idle"
    BY <1>2 DEF IsNext
  <2>2. ASSUME NEW op \in Listings, NEW kind \in Listed, ListOf(q, op, kind)
        PROVE  OffsetHolds(q)'
    BY <1>1, <2>2, ListIsOpened DEF OffsetHolds
  <2>3. ASSUME \/ call'[q].op \in Creates /\ pc'[q] = "inserting"
               \/ call'[q].op \in RowChanges /\ pc'[q] \in {"updating", "erasing"}
        PROVE  OffsetHolds(q)'
    BY <2>3 DEF OffsetHolds, Creates, RowChanges, Listings
  <2>4. QED
    BY <1>2, <2>1, <2>2, <2>3, ListsArrive
<1>3. CASE InsertRow(q) \/ UpdateRow(q) \/ EraseRow(q)
  <2>1. pc[q] \in {"inserting", "updating", "erasing"}
    BY <1>3 DEF InsertRow, UpdateRow, EraseRow
  <2>2. PICK verdict \in Verdicts : Leave(q, verdict)
    BY <1>3 DEF InsertRow, UpdateRow, EraseRow, Verdicts
  <2>3. pc'[q] \in Verdicts /\ call'[q] = call[q]
    BY <2>2, AwaitAt DEF Leave
  <2>4. call[q].op \notin Listings
    BY <1>1, <2>1 DEF OffsetHolds, Verdicts
  <2>5. QED
    BY <2>3, <2>4 DEF OffsetHolds, Verdicts
<1>4. CASE TurnPage(q)
  <2>1. pc[q] = "turning"
    BY <1>4 DEF TurnPage
  <2>2. call[q].op \in Listings /\ OffsetStands(q)
    BY <1>1, <2>1 DEF OffsetHolds
  <2>3. QED
    BY <1>1, <1>4, <2>2, ListGoesOn DEF OffsetHolds
<1>5. QED
  BY <1>2, <1>3, <1>4 DEF CatalogueStep

\* The others have their rows, or have met the one who moves them.
LEMMA OffsetHeld ==
    ASSUME Served, RowsFit, CallsFit, RowsFit', OffsetInv, NEW q \in Requests, CatalogueStep(q)
    PROVE  OffsetInv'
<1>1. Onward /\ \A r \in Requests \ {q} : Stays(r)
  BY CatalogueMoves, MovesGoOnward DEF Moves, CatalogueWaits, Verdicts
<1>2. pc[q] \notin Verdicts /\ pc'[q] # "idle" /\ OffsetHolds(q)
  BY CatalogueMoves DEF Moves, Begins, Runs, CatalogueWaits, Rest, Verdicts, OffsetInv
<1>3. ASSUME NEW list, list.kind \in Listed, ~Shifts(q, list)
      PROVE  Standing(list)
  <2>1. CASE rows' = rows
    BY <2>1 DEF Standing, Selected, Column, Ids, IsBelow, Filling, Under
  <2>2. CASE rows' # rows
    <3>1. InsertRow(q) \/ UpdateRow(q) \/ EraseRow(q)
      BY <2>2, ListsArrive DEF CatalogueStep, IsNext, TurnPage
    <3>2. QED
      BY <1>2, <1>3, <2>2, <3>1, OtherWrites
  <2>3. QED
    BY <2>1, <2>2
<1>4. ASSUME NEW r \in Requests \ {q}
      PROVE  OffsetHolds(r)'
  <2>1. OffsetHolds(r) /\ Stays(r)
    BY <1>1 DEF OffsetInv
  <2>2. CASE call[r].op \in Listings /\ pc[r] \in {"turning", "listed"}
    <3> DEFINE list == call[r].what.list
    <3>1. r \in InFlight
      BY <2>2 DEF InFlight, Begun, Ended, Verdicts
    <3>2. Overlap(q, r)'
      BY <1>1, <1>2, <3>1, MeetsInFlight
    <3>3. ASSUME Shifts(q, list)
          PROVE  RowsMove(r)'
      <4>1. pc[q] # "idle"
        BY <3>3 DEF Served, NoCall, Shifts, RowChanges, Creates
      <4>2. call'[q] = call[q] /\ call'[r] = call[r]
        BY <1>1, <2>1, <4>1 DEF Onward, Stays
      <4>3. Shifts(q, list)'
        BY <3>3, <4>2 DEF Shifts
      <4>4. QED
        BY <3>2, <4>3 DEF RowsMove
    <3>4. list.kind \in Listed
      BY <2>1, <2>2 DEF OffsetHolds, OffsetStands
    <3>5. OffsetStands(r)'
      BY <1>1, <1>3, <2>1, <2>2, <3>3, <3>4, OffsetKept DEF OffsetHolds
    <3>6. QED
      BY <2>1, <3>5 DEF OffsetHolds, Stays
  <2>3. QED
    BY <2>1, <2>2 DEF OffsetHolds, Stays
<1>5. QED
  BY <1>4, PlacesHold, ListerHolds DEF OffsetInv

\* What a client of a list has and lacks, page after page: in every state.
THEOREM OffsetInvariant == Spec => []OffsetInv
<1>1. Init => OffsetInv
  <2> SUFFICES ASSUME Init PROVE OffsetInv
    OBVIOUS
  <2>1. /\ rows = [kind \in Kinds |-> Seed(kind)]
        /\ \A r \in Requests : pc[r] = "idle" /\ call[r] = NoCall
    BY DEF Init, CatalogueInit, ServerInit
  <2>2. \A kind \in Kinds : rows[kind].kind = kind /\ rows[kind].at = 1
    BY <2>1 DEF Seed
  <2>3. Cardinality(Ended) = 0
    <3>1. Ended = {}
      BY <2>1 DEF Ended, Verdicts
    <3>2. QED
      BY <3>1, FS_EmptySet
  <2>4. PlacesCounted
    BY <2>1, <2>2, <2>3 DEF PlacesCounted, Ids
  <2>5. \A r \in Requests : OffsetHolds(r)
    BY <2>1 DEF OffsetHolds, NoCall, Listings
  <2>6. QED
    BY <2>4, <2>5 DEF OffsetInv
<1>2. Served /\ CatalogueInv /\ CatalogueInv' /\ OffsetInv /\ [Next]_appVars => OffsetInv'
  BY CatalogueFrame, OffsetAside, OffsetHeld DEF CatalogueInv
<1>3. QED
  BY <1>1, <1>2, ServedAlways, LessonsInvariant, PTL DEF Spec

\* A client that turns all the pages of its notifications by cursor has been
\* given every one it began with, and none that came later.
THEOREM CursorPagesAreExact == Spec => []CursorPagesExact
<1>1. CursorInv => CursorPagesExact
  BY DEF CursorInv, CursorHolds, CursorStands, CursorPagesExact, InboxLists
<1>2. QED
  BY <1>1, CursorInvariant, PTL

\* A client that turns all the pages of a list by number has been given every
\* row it began with, unless a request it met changed or removed rows the list
\* depends on, or the row ties with another in the list's sort.
THEOREM NoPageIsMissed == Spec => []OffsetPagesExplained
<1>1. OffsetInv => OffsetPagesExplained
  BY DEF OffsetInv, OffsetHolds, OffsetStands, OffsetPagesExplained
<1>2. QED
  BY <1>1, OffsetInvariant, PTL

-----------------------------------------------------------------------------
(* The pieces of a text. *)

\* What holds at n, and one below wherever it holds, holds from 0 on.
LEMMA DownTo ==
    ASSUME NEW n \in Nat, NEW S, n \in S, \A k \in 1 .. n : k \in S => k - 1 \in S
    PROVE  \A k \in 0 .. n : k \in S
<1> SUFFICES ASSUME NEW b \in 0 .. n, b \notin S PROVE FALSE
  OBVIOUS
<1> DEFINE T == {k \in 0 .. n : k \notin S}
<1>1. T \in SUBSET (0 .. n) /\ T # {}
  OBVIOUS
<1>2. PICK m \in T : \A y \in T : m >= y
  <2> HIDE DEF T
  <2>1. QED
    BY <1>1, LargestExists
<1>3. m \in 0 .. n /\ m \notin S /\ m # n
  BY <1>2
<1>4. m + 1 \in 1 .. n /\ m + 1 \notin T
  BY <1>2, <1>3
<1>5. m + 1 \in S
  BY <1>4
<1>6. QED
  BY <1>3, <1>4, <1>5

\* The larger and the smaller of two numbers.
LEMMA MaxOfTwo ==
    ASSUME NEW a \in Int, NEW b \in Int
    PROVE  Max({a, b}) = IF a >= b THEN a ELSE b
<1>1. \E x \in {a, b} : \A y \in {a, b} : x >= y
  OBVIOUS
<1>2. Max({a, b}) \in {a, b} /\ \A y \in {a, b} : Max({a, b}) >= y
  BY <1>1 DEF Max
<1>3. QED
  BY <1>2

LEMMA MinOfTwo ==
    ASSUME NEW a \in Int, NEW b \in Int
    PROVE  Min({a, b}) = IF a <= b THEN a ELSE b
<1>1. \E x \in {a, b} : \A y \in {a, b} : x <= y
  OBVIOUS
<1>2. Min({a, b}) \in {a, b} /\ \A y \in {a, b} : Min({a, b}) <= y
  BY <1>1 DEF Min
<1>3. QED
  BY <1>2

\* A text as Chunking has it.
IsText(text) == text.length \in Nat /\ text.marks \subseteq Nat

\* Where the next piece begins.
Onto(text, pos) == Max({End(text, pos) - OverlapChars, pos + 1})

\* Every piece ends ahead of where it begins, and the next one begins after it and leaves no gap.
LEMMA EndIsAhead ==
    ASSUME NEW text, IsText(text), NEW pos \in 0 .. text.length, pos # text.length
    PROVE  /\ End(text, pos) \in pos + 1 .. text.length /\ End(text, pos) - pos <= TargetChars
           /\ Onto(text, pos) \in pos + 1 .. End(text, pos)
<1> DEFINE n   == text.length
           end == Min({n, pos + TargetChars})
           marks == Marks(text, pos, end)
<1>1. n \in Nat /\ pos \in Nat /\ pos < n /\ TargetChars \in Nat \ {0} /\ OverlapChars \in Nat
  BY ChunkingAssumption DEF IsText
<1>2. end \in Nat /\ end <= n /\ end - pos <= TargetChars /\ pos < end
  <2> HIDE DEF n
  <2>1. pos + TargetChars \in Int /\ n \in Int
    BY <1>1
  <2>2. QED
    BY <1>1, <2>1, MinOfTwo
<1> HIDE DEF end, n
<1>3. CASE end < n /\ marks # {}
  <2>1. marks \in SUBSET (0 .. end) /\ \A b \in marks : pos <= b /\ b + 1 < end
    BY <1>1, <1>2 DEF Marks, IsText
  <2>2. Max(marks) \in marks
    <3> HIDE DEF marks
    <3>1. QED
      BY <1>2, <1>3, <2>1, LargestOf
  <2>3. End(text, pos) = Max(marks) + 1
    BY <1>3 DEF End, end, n
  <2>4. End(text, pos) \in pos + 1 .. n /\ End(text, pos) - pos <= TargetChars
    <3>1. PICK b \in marks : b = Max(marks)
      BY <2>2
    <3>2. b \in Nat /\ pos <= b /\ b + 1 < end /\ End(text, pos) = b + 1
      <4> HIDE DEF marks
      <4>1. QED
        BY <1>2, <2>1, <2>3, <3>1
    <3>3. QED
      BY <1>1, <1>2, <3>2
  <2>5. QED
    <3> HIDE DEF marks
    <3>1. End(text, pos) - OverlapChars \in Int /\ pos + 1 \in Int
      BY <1>1, <2>4
    <3>2. QED
      BY <1>1, <2>4, <3>1, MaxOfTwo DEF Onto, n
<1>4. CASE ~(end < n /\ marks # {})
  <2>1. End(text, pos) = end
    BY <1>4 DEF End, end, n
  <2>2. End(text, pos) - OverlapChars \in Int /\ pos + 1 \in Int
    BY <1>1, <1>2, <2>1
  <2>3. QED
    BY <1>1, <1>2, <2>1, <2>2, MaxOfTwo DEF Onto, n
<1>5. QED
  BY <1>3, <1>4

Piece(text, pos) == [from |-> pos, to |-> End(text, pos)]

\* One step of the recursion.
Cut(text, pos, f) ==
    IF pos = text.length THEN <<>>
    ELSE <<Piece(text, pos)>> \o IF End(text, pos) = text.length THEN <<>> ELSE f[Onto(text, pos)]

\* The recursion has a solution, which PiecesFrom is.
LEMMA PiecesAreCut ==
    ASSUME NEW text, IsText(text)
    PROVE  \A pos \in 0 .. text.length : PiecesFrom(text)[pos] = Cut(text, pos, PiecesFrom(text))
<1> DEFINE n == text.length
           S == {k \in 0 .. n : \E f : f = [pos \in k .. n |-> Cut(text, pos, f)]}
<1>0. n \in Nat
  BY DEF IsText
<1>1. n \in S
  <2> DEFINE f == [pos \in n .. n |-> <<>>]
  <2>1. f = [pos \in n .. n |-> Cut(text, pos, f)]
    BY <1>0 DEF Cut
  <2> HIDE DEF f
  <2>2. QED
    BY <1>0, <2>1
<1>2. ASSUME NEW k \in 1 .. n, k \in S
      PROVE  k - 1 \in S
  <2>1. PICK f : f = [pos \in k .. n |-> Cut(text, pos, f)]
    BY <1>2
  <2> DEFINE g == [pos \in k - 1 .. n |-> IF pos = k - 1 THEN Cut(text, pos, f) ELSE f[pos]]
  <2>2. \A pos \in k - 1 .. n : pos # n => Onto(text, pos) \in k .. n
    BY <1>0, EndIsAhead
  <2>3. \A pos \in k .. n : g[pos] = f[pos]
    BY <1>0
  <2>4. ASSUME NEW pos \in k - 1 .. n
        PROVE  g[pos] = Cut(text, pos, g)
    <3>1. Cut(text, pos, g) = Cut(text, pos, f)
      BY <2>2, <2>3 DEF Cut
    <3>2. CASE pos = k - 1
      BY <3>1, <3>2
    <3>3. CASE pos # k - 1
      <4>1. pos \in k .. n
        BY <1>0, <3>3
      <4>2. f[pos] = Cut(text, pos, f)
        BY <2>1, <4>1
      <4>3. QED
        BY <2>3, <3>1, <4>1, <4>2
    <3>4. QED
      BY <3>2, <3>3
  <2>5. g = [pos \in k - 1 .. n |-> Cut(text, pos, g)]
    BY <2>4
  <2> HIDE DEF g
  <2>6. QED
    BY <1>0, <2>5
<1>3. \E f : f = [pos \in 0 .. n |-> Cut(text, pos, f)]
  <2> HIDE DEF S
  <2>1. 0 \in S
    BY <1>0, <1>1, <1>2, DownTo
  <2> USE DEF S
  <2>2. QED
    BY <2>1
<1>4. PiecesFrom(text) = [pos \in 0 .. n |-> Cut(text, pos, PiecesFrom(text))]
  BY <1>3 DEF PiecesFrom, Cut, Piece, Onto
<1>5. QED
  BY <1>4

\* What a piece is: not empty, not longer than the target, inside the text.
IsPiece(text, x) ==
    /\ x = [from |-> x.from, to |-> x.to] /\ x.from \in Nat /\ x.to \in Nat
    /\ x.from < x.to /\ x.to <= text.length /\ x.to - x.from <= TargetChars

\* The pieces from a position on cover the text from there.
Covers(text, pos, pieces) ==
    /\ pieces \in Seq(ToSet(pieces))
    /\ \A i \in DOMAIN pieces : IsPiece(text, pieces[i])
    /\ \A p \in pos .. text.length - 1 : \E i \in DOMAIN pieces : p \in pieces[i].from .. pieces[i].to - 1

\* The chunks of a text are pieces that cover it, whatever the target, the overlap and
\* the ends of its sentences (chunking.service.ts 22-57).
THEOREM ChunksCover ==
    ASSUME NEW text, IsText(text)
    PROVE  Covers(text, 0, Chunk(text))
<1> DEFINE n == text.length
           f == PiecesFrom(text)
           S == {k \in 0 .. n : \A pos \in k .. n : Covers(text, pos, f[pos])}
<1>0. n \in Nat /\ TargetChars \in Nat
  BY ChunkingAssumption DEF IsText
<1>1. n \in S
  <2>1. f[n] = <<>>
    <3>1. n \in 0 .. n
      BY <1>0
    <3>2. f[n] = Cut(text, n, f)
      BY <3>1, PiecesAreCut
    <3>3. QED
      BY <3>2 DEF Cut
  <2>2. Covers(text, n, <<>>)
    BY <1>0 DEF Covers
  <2> HIDE DEF f
  <2>3. QED
    BY <1>0, <2>1, <2>2
<1>2. ASSUME NEW k \in 1 .. n, k \in S
      PROVE  k - 1 \in S
  <2> DEFINE at == k - 1
             x  == Piece(text, at)
             rest == IF End(text, at) = n THEN <<>> ELSE f[Onto(text, at)]
  <2>1. at \in 0 .. n /\ at # n
    BY <1>0
  <2>2. /\ End(text, at) \in at + 1 .. n /\ End(text, at) - at <= TargetChars
        /\ Onto(text, at) \in k .. End(text, at)
    <3> HIDE DEF n
    <3>1. QED
      BY <2>1, EndIsAhead DEF n
  <2>3. IsPiece(text, x)
    BY <1>0, <2>1, <2>2 DEF IsPiece, Piece
  <2>4. /\ rest \in Seq(ToSet(rest))
        /\ \A i \in DOMAIN rest : IsPiece(text, rest[i])
        /\ \A p \in End(text, at) .. n - 1 : \E i \in DOMAIN rest : p \in rest[i].from .. rest[i].to - 1
    <3>1. CASE End(text, at) = n
      BY <1>0, <3>1
    <3>2. CASE End(text, at) # n
      <4>1. Covers(text, Onto(text, at), f[Onto(text, at)])
        BY <1>0, <1>2, <2>2
      <4>2. rest = f[Onto(text, at)]
        BY <3>2
      <4> HIDE DEF rest, f
      <4>3. \A p \in End(text, at) .. n - 1 : p \in Onto(text, at) .. n - 1
        BY <1>0, <2>2
      <4>4. QED
        BY <4>1, <4>2, <4>3 DEF Covers
    <3>3. QED
      BY <3>1, <3>2
  <2>5. f[at] = <<x>> \o rest
    <3> HIDE DEF x
    <3>1. QED
      BY <2>1, PiecesAreCut DEF Cut, x
  <2>6. Covers(text, at, f[at])
    <3> SUFFICES ASSUME NEW t, t = rest, NEW y, y = x
                 PROVE  Covers(text, at, <<y>> \o t)
      BY <2>5
    <3> HIDE DEF rest, x
    <3> DEFINE all == <<y>> \o t
    <3>1. /\ t \in Seq(ToSet(t)) /\ Len(t) \in Nat /\ DOMAIN t = 1 .. Len(t)
      BY <2>4
    <3>2. /\ DOMAIN all = 1 .. Len(t) + 1 /\ all[1] = y
          /\ \A i \in DOMAIN t : i + 1 \in DOMAIN all /\ all[i + 1] = t[i]
          /\ \A i \in DOMAIN all : i = 1 \/ i - 1 \in DOMAIN t
          /\ all \in Seq(ToSet(all))
      <4> DEFINE U == {y} \cup ToSet(t)
      <4>1. <<y>> \in Seq(U) /\ t \in Seq(U)
        BY <3>1 DEF ToSet
      <4> HIDE DEF U
      <4>2. all \in Seq(U) /\ Len(all) = Len(t) + 1
        BY <4>1
      <4>3. DOMAIN all = 1 .. Len(t) + 1
        BY <4>2
      <4>4. all[1] = y /\ \A i \in DOMAIN t : i + 1 \in DOMAIN all /\ all[i + 1] = t[i]
        BY <3>1, <4>1, <4>3
      <4>5. \A i \in DOMAIN all : i = 1 \/ i - 1 \in DOMAIN t
        BY <3>1, <4>3
      <4>6. all \in Seq(ToSet(all))
        <5> HIDE DEF all
        <5>1. QED
          BY <4>2, SeqOfItsValues
      <4>7. QED
        BY <4>3, <4>4, <4>5, <4>6
    <3>3. ASSUME NEW i \in DOMAIN all
          PROVE  IsPiece(text, all[i])
      <4>1. CASE i = 1
        BY <2>3, <3>2, <4>1
      <4>2. CASE i # 1
        <5>1. i - 1 \in DOMAIN t /\ i = (i - 1) + 1
          BY <3>1, <3>2, <3>3, <4>2
        <5>2. all[i] = t[i - 1]
          BY <3>2, <5>1
        <5>3. QED
          BY <2>4, <5>1, <5>2
      <4>3. QED
        BY <4>1, <4>2
    <3>4. ASSUME NEW p \in at .. n - 1
          PROVE  \E i \in DOMAIN all : p \in all[i].from .. all[i].to - 1
      <4>1. CASE p < End(text, at)
        <5>1. y.from = at /\ y.to = End(text, at)
          BY DEF Piece, x
        <5>2. p \in y.from .. y.to - 1
          BY <1>0, <2>1, <2>2, <3>4, <4>1, <5>1
        <5>3. 1 \in DOMAIN all
          BY <3>1, <3>2
        <5>4. QED
          BY <3>2, <5>2, <5>3
      <4>2. CASE ~(p < End(text, at))
        <5>1. p \in End(text, at) .. n - 1
          BY <1>0, <2>1, <2>2, <3>4, <4>2
        <5>2. PICK i \in DOMAIN t : p \in t[i].from .. t[i].to - 1
          BY <2>4, <5>1
        <5>3. i + 1 \in DOMAIN all /\ all[i + 1] = t[i]
          BY <3>2
        <5>4. QED
          BY <5>2, <5>3
      <4>3. QED
        BY <4>1, <4>2
    <3>5. QED
      BY <3>2, <3>3, <3>4 DEF Covers
  <2>7. \A pos \in at .. n : pos = at \/ pos \in k .. n
    BY <1>0
  <2>8. QED
    <3> HIDE DEF f
    <3>1. QED
      BY <1>0, <1>2, <2>6, <2>7
<1>3. 0 \in S
  <2> HIDE DEF S
  <2>1. QED
    BY <1>0, <1>1, <1>2, DownTo
<1>4. QED
  BY <1>0, <1>3 DEF Chunk

\* A text that is indexed has a piece.
LEMMA LongTextsHavePieces ==
    ASSUME NEW text \in Texts, text.length >= MinChars
    PROVE  Len(Chunk(text)) \in Nat \ {0} /\ DOMAIN Chunk(text) = 1 .. Len(Chunk(text))
<1>1. text.length \in Nat /\ MinChars \in Nat \ {0} /\ Covers(text, 0, Chunk(text))
  BY RagAssumption, ChunksCover DEF IsText
<1>2. 0 \in 0 .. text.length - 1
  BY <1>1
<1>3. PICK i \in DOMAIN Chunk(text) : TRUE
  BY <1>1, <1>2 DEF Covers
<1>4. Len(Chunk(text)) \in Nat /\ DOMAIN Chunk(text) = 1 .. Len(Chunk(text))
  BY <1>1 DEF Covers
<1>5. QED
  BY <1>3, <1>4

-----------------------------------------------------------------------------
(* The index of a book. *)

\* What a step may do to the index while r does not take it.
IndexKept(r) ==
    /\ uncleared \subseteq uncleared'
    /\ AloneAtIndex(r)' => IndexOf(call[r].what.book)' = IndexOf(call[r].what.book)

\* Who is alone has been.
LEMMA AloneBefore ==
    ASSUME Onward, NEW r \in Requests, pc[r] # "idle", AloneAtIndex(r)'
    PROVE  AloneAtIndex(r)
BY DEF Onward, AloneAtIndex, Begun

\* The vectors of a request stay the same.
LEMMA VectorsStay ==
    ASSUME NEW r \in Requests, call'[r] = call[r]
    PROVE  /\ \A i : Vector(r, i)' = Vector(r, i)
           /\ \A n : Inserted(r, n)' = Inserted(r, n)
BY DEF Vector, Inserted

\* A request that stays where it is.
LEMMA IndexStays ==
    ASSUME Onward, NEW r \in Requests, Stays(r), pc[r] # "idle", IndexKept(r), IndexStands(r)
    PROVE  IndexStands(r)'
<1> SUFFICES ASSUME NEW b, b = call[r].what.book, NEW text, text = call[r].what.text,
                    NEW at, at = pc[r], NEW n, n = saw[r], NEW op, op = call[r].op,
                    pc'[r] = at, call'[r] = call[r], saw'[r] = n,
                    op = "reembedBook", r \notin uncleared', AloneAtIndex(r)'
             PROVE  /\ at = "extracting" => IndexOf(b)' = {}
                    /\ at = "embedding"  => IndexOf(b)' = Inserted(r, n - 1)
                    /\ at = "done" =>
                         IndexOf(b)' = IF text.length < MinChars THEN {}
                                       ELSE Inserted(r, Len(Chunk(text)))
  <2>1. call'[r] = call[r] /\ pc'[r] = pc[r] /\ saw'[r] = saw[r]
    BY DEF Stays
  <2>2. \A n : Inserted(r, n)' = Inserted(r, n)
    BY <2>1, VectorsStay
  <2>3. QED
    BY <2>1, <2>2 DEF IndexStands
<1>1. r \notin uncleared /\ AloneAtIndex(r) /\ IndexOf(b)' = IndexOf(b)
  BY AloneBefore DEF IndexKept
<1>2. QED
  BY <1>1 DEF IndexStands

\* What others write is of another book, if r is alone.
LEMMA IndexWrites ==
    ASSUME Served, Onward, NEW r \in Requests, pc[r] # "idle", NEW q \in Requests, q # r,
           IndexCallWaits(q), BookRagStep(q)
    PROVE  IndexKept(r)
<1> SUFFICES ASSUME NEW b, b = call[r].what.book, b = call'[r].what.book
             PROVE  IndexKept(r)
  BY DEF Onward
<1>1. uncleared \subseteq uncleared'
  BY DEF BookRagStep, EmbedRequest, DeleteEmbeddings, ReembedBook, BookChatRequest, GetMyChat,
         SendBookMessage, ClearMyChat, StreamRequest, SendBookMessageStream, Ask, IndexStep,
         CheckCollection, DeclareCollection, DeleteByBook, DeletionFails, ExtractText, EmbedChunk,
         BookChatStep, SearchBookChunks, GetChat, OrCreateChat, AskGemini, SaveExchange, TellDone,
         Disconnect, EmptyChat, indexVars
<1>2. CASE vectors' = vectors
  <2>1. IndexOf(b)' = IndexOf(b)
    BY <1>2 DEF IndexOf
  <2>2. QED
    BY <1>1, <2>1 DEF IndexKept
<1>3. CASE vectors' # vectors
  <2>1. DeleteByBook(q) \/ EmbedChunk(q)
    BY <1>3
       DEF BookRagStep, EmbedRequest, DeleteEmbeddings, ReembedBook, BookChatRequest, GetMyChat,
           SendBookMessage, ClearMyChat, StreamRequest, SendBookMessageStream, Ask, IndexStep,
           CheckCollection, DeclareCollection, DeletionFails, ExtractText,
           BookChatStep, SearchBookChunks, GetChat, OrCreateChat, AskGemini, SaveExchange, TellDone,
           Disconnect, EmptyChat, indexVars
  <2>2. pc[q] \in {"wiping", "embedding"} /\ call[q].op \in IndexOps
    BY <2>1 DEF DeleteByBook, EmbedChunk, IndexCallWaits, IndexOps
  <2>3. q \in Begun' /\ call'[q] = call[q] /\ q \notin before'[r] /\ call'[r] = call[r]
    BY <2>2 DEF Onward, Served, Verdicts, Begun
  <2>4. AloneAtIndex(r)' => call[q].what.book # b
    BY <2>2, <2>3 DEF AloneAtIndex
  <2>5. ASSUME call[q].what.book # b
        PROVE  IndexOf(b)' = IndexOf(b)
    <3>1. CASE DeleteByBook(q)
      BY <2>5, <3>1 DEF DeleteByBook, IndexOf
    <3>2. CASE EmbedChunk(q)
      BY <2>5, <3>2 DEF EmbedChunk, IndexOf, Vector
    <3>3. QED
      BY <2>1, <3>1, <3>2
  <2>6. QED
    BY <1>1, <2>4, <2>5 DEF IndexKept
<1>4. QED
  BY <1>2, <1>3

\* A request arrives.
LEMMA IndexArrives ==
    ASSUME Served, NEW r \in Requests, pc[r] = "idle",
           EmbedRequest(r) \/ BookChatRequest(r) \/ StreamRequest(r)
    PROVE  IndexCallWaits(r)' /\ IndexStands(r)'
<1>1. ASSUME NEW b \in Kept, DeleteEmbeddings(r, b)
      PROVE  IndexCallWaits(r)' /\ IndexStands(r)'
  <2>1. /\ pc'[r] \in {"checking", "wiping"} /\ saw'[r] = "wiping"
        /\ call'[r].op = "deleteEmbeddings" /\ call'[r].what.book = b
    BY <1>1 DEF DeleteEmbeddings, ArriveAtWeaviate, Arrive, Served, WellFormed, Verdicts
  <2>2. QED
    BY <2>1 DEF IndexCallWaits, IndexStands, IndexOps
<1>2. ASSUME NEW b \in Kept, NEW text \in Texts, ReembedBook(r, b, text)
      PROVE  IndexCallWaits(r)' /\ IndexStands(r)'
  <2>1. /\ pc'[r] \in {"checking", "wiping"} /\ saw'[r] = "wiping"
        /\ call'[r].op = "reembedBook" /\ call'[r].what.book = b /\ call'[r].what.text = text
    BY <1>2 DEF ReembedBook, ArriveAtWeaviate, Arrive, Served, WellFormed, Verdicts
  <2>2. QED
    BY <2>1 DEF IndexCallWaits, IndexStands, IndexOps
<1>3. CASE BookChatRequest(r) \/ StreamRequest(r)
  <2>1. /\ pc'[r] \in {"checking", "searching", "opening", "emptying", "done"}
        /\ pc'[r] = "checking" => saw'[r] = "searching"
        /\ call'[r].op \notin IndexOps
    BY <1>3
       DEF BookChatRequest, GetMyChat, SendBookMessage, ClearMyChat, StreamRequest,
           SendBookMessageStream, Ask, ArriveAtWeaviate, Arrive, Served, WellFormed, Verdicts,
           IndexOps
  <2>2. QED
    BY <2>1 DEF IndexCallWaits, IndexStands, IndexOps
<1>4. QED
  BY <1>1, <1>2, <1>3 DEF EmbedRequest

\* A step of the way to the index, or into it.
LEMMA IndexGoesOn ==
    ASSUME Served, Onward, NEW r \in Requests, IndexCallWaits(r), IndexStands(r), IndexStep(r)
    PROVE  IndexCallWaits(r)' /\ IndexStands(r)'
<1>0. /\ call'[r] = call[r] /\ pc[r] # "idle" /\ pc[r] \notin Verdicts
      /\ uncleared \subseteq uncleared'
  BY DEF Onward, IndexStep, CheckCollection, DeclareCollection, DeleteByBook, DeletionFails,
         ExtractText, EmbedChunk, indexVars, Verdicts
<1>1. AloneAtIndex(r)' => AloneAtIndex(r)
  BY <1>0, AloneBefore
<1>2. \A n : Inserted(r, n)' = Inserted(r, n)
  BY <1>0, VectorsStay
<1>3. CASE CheckCollection(r)
  <2>1. pc[r] = "checking" /\ saw'[r] = saw[r] /\ pc'[r] \in {saw[r], "declaring"}
    BY <1>3, AwaitAt DEF CheckCollection
  <2>2. saw[r] \in {"wiping", "searching"}
    BY <2>1 DEF Served
  <2>3. QED
    BY <1>0, <2>1, <2>2 DEF IndexCallWaits, IndexStands, IndexOps, Verdicts
<1>4. CASE DeclareCollection(r) \/ DeletionFails(r)
  <2>1. /\ pc[r] \in {"checking", "declaring", "wiping"}
        /\ \/ pc[r] = "declaring" /\ saw'[r] = saw[r] /\ pc'[r] = saw[r]
           \/ pc'[r] = "extracting" /\ call[r].op = "reembedBook" /\ r \in uncleared'
           \/ pc'[r] = "conflict"
    BY <1>4, AwaitAt DEF DeclareCollection, DeletionFails, Leave
  <2>2. pc[r] = "declaring" => saw[r] \in {"wiping", "searching"}
    BY DEF Served
  <2>3. QED
    BY <1>0, <2>1, <2>2 DEF IndexCallWaits, IndexStands, IndexOps, Verdicts
<1>5. CASE DeleteByBook(r)
  <2>1. /\ pc[r] = "wiping" /\ vectors' = vectors \ IndexOf(call[r].what.book)
        /\ IF call[r].op = "reembedBook" THEN pc'[r] = "extracting" ELSE pc'[r] = "done"
    BY <1>5, AwaitAt DEF DeleteByBook, Leave
  <2>2. IndexOf(call[r].what.book)' = {}
    BY <1>0, <2>1 DEF IndexOf
  <2>3. QED
    BY <1>0, <2>1, <2>2 DEF IndexCallWaits, IndexStands, IndexOps, Verdicts
<1>6. CASE ExtractText(r)
  <2> DEFINE text == call[r].what.text
  <2>1. /\ pc[r] = "extracting" /\ call[r].op = "reembedBook" /\ text \in Texts
        /\ vectors' = vectors /\ uncleared' = uncleared
        /\ \/ pc'[r] = "refused"
           \/ text.length < MinChars /\ pc'[r] = "done"
           \/ text.length >= MinChars /\ pc'[r] = "embedding" /\ saw'[r] = 1
    BY <1>6, AwaitAt DEF ExtractText, Leave, indexVars, IndexCallWaits
  <2>2. IndexOf(call[r].what.book)' = IndexOf(call[r].what.book)
    BY <1>0, <2>1 DEF IndexOf
  <2>3. Inserted(r, 0) = {}
    BY DEF Inserted
  <2>4. IndexCallWaits(r)'
    <3>1. text.length >= MinChars => 1 \in 1 .. Len(Chunk(text))
      BY <2>1, LongTextsHavePieces
    <3>2. QED
      BY <1>0, <2>1, <3>1 DEF IndexCallWaits, IndexOps, Verdicts
  <2>5. ASSUME r \notin uncleared', AloneAtIndex(r)'
        PROVE  IndexOf(call[r].what.book)' = {}
    BY <1>1, <2>1, <2>2, <2>5 DEF IndexStands
  <2>6. Inserted(r, 0)' = {} /\ (saw'[r] = 1 => saw'[r] - 1 = 0)
    BY <1>2, <2>3
  <2>7. QED
    BY <1>0, <2>1, <2>4, <2>5, <2>6 DEF IndexStands
<1>7. CASE EmbedChunk(r)
  <2> DEFINE text == call[r].what.text
             b    == call[r].what.book
             n    == Len(Chunk(text))
  <2>1. /\ pc[r] = "embedding" /\ call[r].op = "reembedBook" /\ text \in Texts
        /\ text.length >= MinChars /\ saw[r] \in 1 .. n
        /\ vectors' = vectors \cup {Vector(r, saw[r])} /\ uncleared' = uncleared
        /\ IF saw[r] = n THEN pc'[r] = "done"
           ELSE pc'[r] = "embedding" /\ saw'[r] = saw[r] + 1
    BY <1>7, AwaitAt DEF EmbedChunk, Leave, IndexCallWaits
  <2>2. n \in Nat /\ text.length \in Nat /\ MinChars \in Nat
    BY <2>1, LongTextsHavePieces, RagAssumption
  <2>3. IndexOf(b)' = IndexOf(b) \cup {Vector(r, saw[r])}
    BY <1>0, <2>1 DEF IndexOf, Vector
  <2>4. Inserted(r, saw[r] - 1) \cup {Vector(r, saw[r])} = Inserted(r, saw[r])
    <3>1. saw[r] \in Nat \ {0} /\ 1 .. saw[r] = (1 .. saw[r] - 1) \cup {saw[r]}
      BY <2>1, <2>2
    <3>2. QED
      BY <3>1 DEF Inserted
  <2>5. ASSUME r \notin uncleared', AloneAtIndex(r)'
        PROVE  IndexOf(b)' = Inserted(r, saw[r])
    BY <1>1, <2>1, <2>3, <2>4, <2>5 DEF IndexStands
  <2>6. IndexCallWaits(r)'
    <3>1. saw[r] # n => saw[r] + 1 \in 1 .. n
      BY <2>1, <2>2
    <3>2. QED
      BY <1>0, <2>1, <3>1 DEF IndexCallWaits, IndexOps, Verdicts
  <2>7. saw[r] + 1 - 1 = saw[r] /\ ~(text.length < MinChars)
    BY <2>1, <2>2
  <2>8. QED
    BY <1>0, <1>2, <2>1, <2>5, <2>6, <2>7 DEF IndexStands
<1>8. QED
  BY <1>3, <1>4, <1>5, <1>6, <1>7 DEF IndexStep

\* A step of a chat.
LEMMA IndexNotMeant ==
    ASSUME Served, Onward, NEW r \in Requests, IndexCallWaits(r), BookChatStep(r)
    PROVE  IndexCallWaits(r)' /\ IndexStands(r)'
<1>1. /\ pc[r] \in {"searching", "finding", "opening", "chatting", "saving", "telling", "emptying"}
      /\ pc'[r] \in {"finding", "opening", "chatting", "saving", "telling"} \cup Verdicts
      /\ call'[r] = call[r]
  BY AwaitAt
     DEF BookChatStep, SearchBookChunks, GetChat, OrCreateChat, AskGemini, SaveExchange, TellDone,
         Disconnect, EmptyChat, Leave, Verdicts
<1>2. call[r].op # "reembedBook"
  BY <1>1 DEF IndexCallWaits, Verdicts
<1>3. QED
  BY <1>1, <1>2 DEF IndexCallWaits, IndexStands, IndexOps, Verdicts

\* A request that has nothing to do with an index, or is cut short.
LEMMA IndexLeftAlone ==
    ASSUME Served, Foreign(RagOps, RagWaits), NEW r \in Requests,
           UNCHANGED <<vectors, uncleared>>, IndexCallWaits(r), IndexStands(r)
    PROVE  IndexCallWaits(r)' /\ IndexStands(r)'
<1>1. Onward
  BY ForeignGoesOnward
<1>2. CASE pc[r] = "idle" /\ pc'[r] = "idle"
  <2>1. call'[r] = call[r] /\ call[r].op = "none"
    BY <1>2 DEF Foreign, Stays, Breaks, Served, NoCall, InFlight, Begun
  <2>2. QED
    BY <1>2, <2>1 DEF IndexCallWaits, IndexStands, IndexOps
<1>3. CASE pc[r] # "idle" /\ Stays(r)
  <2>1. IndexKept(r)
    BY <1>1, <1>3 DEF IndexKept, IndexOf, Onward
  <2>2. IndexCallWaits(r)'
    BY <1>3 DEF IndexCallWaits, Stays
  <2>3. QED
    BY <1>1, <1>3, <2>1, <2>2, IndexStays
<1>4. CASE Breaks(r)
  <2>1. /\ pc'[r] = "failed" \/ (pc[r] = "listed" /\ pc'[r] = "done")
        /\ call'[r] = call[r]
    BY <1>4 DEF Breaks
  <2>2. pc[r] = "listed" => call[r].op # "reembedBook"
    BY DEF IndexCallWaits, Verdicts
  <2>3. QED
    BY <2>1, <2>2 DEF IndexCallWaits, IndexStands, IndexOps, Verdicts
<1>5. CASE pc'[r] \notin RagWaits /\ call'[r].op \notin RagOps
  BY <1>5 DEF IndexCallWaits, IndexStands, IndexOps, RagOps, RagWaits
<1>6. CASE /\ r \in InFlight /\ pc[r] \notin RagWaits /\ pc'[r] \notin RagWaits
           /\ call'[r] = call[r]
  <2>1. pc[r] \notin Verdicts
    BY <1>6 DEF InFlight, Ended
  <2>2. call[r].op # "reembedBook"
    BY <1>6, <2>1 DEF IndexCallWaits, RagWaits
  <2>3. QED
    BY <1>6, <2>2 DEF IndexCallWaits, IndexStands, RagWaits, IndexOps
<1>7. QED
  BY <1>2, <1>3, <1>4, <1>5, <1>6 DEF Foreign, Stays

\* A step of BookRagService.
LEMMA IndexHolds ==
    ASSUME Served, IndexInv, NEW q \in Requests, BookRagStep(q)
    PROVE  IndexInv'
<1>1. Onward /\ \A r \in Requests \ {q} : Stays(r)
  BY BookRagMoves, MovesGoOnward DEF Moves, RagWaits, Verdicts
<1>2. \A r \in Requests : IndexCallWaits(r) /\ IndexStands(r)
  BY DEF IndexInv
<1>3. IndexCallWaits(q)' /\ IndexStands(q)'
  BY <1>1, <1>2, IndexArrives, IndexGoesOn, IndexNotMeant DEF BookRagStep, IsNext
<1>4. ASSUME NEW r \in Requests \ {q}
      PROVE  IndexCallWaits(r)' /\ IndexStands(r)'
  <2>1. IndexCallWaits(r)'
    BY <1>1, <1>2 DEF Stays, IndexCallWaits
  <2>2. CASE pc[r] = "idle"
    <3>1. call'[r].op = "none"
      BY <1>1, <2>2 DEF Stays, Served, NoCall
    <3>2. QED
      BY <2>1, <3>1 DEF IndexStands
  <2>3. CASE pc[r] # "idle"
    BY <1>1, <1>2, <2>1, <2>3, IndexWrites, IndexStays
  <2>4. QED
    BY <2>2, <2>3
<1>5. QED
  BY <1>3, <1>4 DEF IndexInv

\* What the requests about the index of a book find at each await: in every state.
THEOREM IndexInvariant == Spec => []IndexInv
<1>1. Init => IndexInv
  BY DEF Init, ServerInit, NoCall, IndexInv, IndexCallWaits, IndexStands, IndexOps
<1>2. Served /\ IndexInv /\ [Next]_appVars => IndexInv'
  <2> SUFFICES ASSUME Served, IndexInv, [Next]_appVars PROVE IndexInv'
    OBVIOUS
  <2>1. CASE \E r \in Requests : BookRagStep(r)
    BY <2>1, IndexHolds
  <2>2. CASE Foreign(RagOps, RagWaits) /\ UNCHANGED <<vectors, uncleared>>
    BY <2>2, IndexLeftAlone DEF IndexInv
  <2>3. QED
    BY <2>1, <2>2, BookRagFrame
<1>3. QED
  BY <1>1, <1>2, ServedAlways, PTL DEF Spec

\* As many vectors as pieces.
LEMMA InsertedAreCounted ==
    ASSUME NEW r, NEW n \in Nat
    PROVE  Cardinality(Inserted(r, n)) = n
<1> DEFINE f == [i \in 1 .. n |-> Vector(r, i)]
<1>1. \A i, j : Vector(r, i) = Vector(r, j) => i = j
  BY DEF Vector
<1>2. f \in Bijection(1 .. n, Inserted(r, n))
  BY <1>1 DEF Bijection, Injection, Surjection, IsInjective, Inserted
<1>3. QED
  BY <1>2, FS_CountingElements DEF ExistsBijection

\* A book that was embedded by one request alone can be searched from end to end.
THEOREM IndexesAreWhole == Spec => []IndexIsWhole
<1>1. IndexInv => IndexIsWhole
  <2> DEFINE Whole(r, text, index) ==
               IF text.length < MinChars THEN index = {}
               ELSE /\ \A v \in index : v.by = r /\ v.to - v.from \in 1 .. TargetChars
                    /\ {v.index : v \in index} = 1 .. Cardinality(index)
                    /\ \A p \in 0 .. text.length - 1 : \E v \in index : p \in v.from .. v.to - 1
  <2> SUFFICES ASSUME IndexInv, NEW r \in Requests, call[r].op = "reembedBook", pc[r] = "done",
                      r \notin uncleared, AloneAtIndex(r)
               PROVE  Whole(r, call[r].what.text, IndexOf(call[r].what.book))
    BY DEF IndexIsWhole
  <2> SUFFICES ASSUME NEW text, text = call[r].what.text,
                      NEW index, index = IndexOf(call[r].what.book)
               PROVE  Whole(r, text, index)
    OBVIOUS
  <2>1. text \in Texts /\ index = IF text.length < MinChars THEN {} ELSE Inserted(r, Len(Chunk(text)))
    BY DEF IndexInv, IndexCallWaits, IndexStands
  <2>2. CASE text.length < MinChars
    BY <2>1, <2>2
  <2>3. CASE ~(text.length < MinChars)
    <3> DEFINE pieces == Chunk(text)
               n == Len(pieces)
    <3>1. text.length >= MinChars /\ IsText(text)
      BY <2>1, <2>3, RagAssumption DEF IsText
    <3>2. n \in Nat /\ DOMAIN pieces = 1 .. n
      BY <2>1, <3>1, LongTextsHavePieces
    <3>3. Covers(text, 0, pieces)
      BY <3>1, ChunksCover
    <3>4. /\ index = {Vector(r, i) : i \in 1 .. n} /\ Cardinality(index) = n
      BY <2>1, <2>3, <3>2, InsertedAreCounted DEF Inserted
    <3>5. ASSUME NEW i \in 1 .. n
          PROVE  /\ Vector(r, i).by = r /\ Vector(r, i).index = i
                 /\ Vector(r, i).from = pieces[i].from /\ Vector(r, i).to = pieces[i].to
                 /\ Vector(r, i).to - Vector(r, i).from \in 1 .. TargetChars
      <4>1. IsPiece(text, pieces[i])
        BY <3>2, <3>3 DEF Covers
      <4>2. /\ Vector(r, i).from = pieces[i].from /\ Vector(r, i).to = pieces[i].to
            /\ Vector(r, i).by = r /\ Vector(r, i).index = i
        BY DEF Vector
      <4> HIDE DEF pieces
      <4>3. QED
        BY <4>1, <4>2, ChunkingAssumption DEF IsPiece
    <3>6. \A p \in 0 .. text.length - 1 : \E i \in 1 .. n : p \in pieces[i].from .. pieces[i].to - 1
      BY <3>2, <3>3 DEF Covers
    <3>7. {v.index : v \in index} = 1 .. n
      <4> HIDE DEF pieces, n
      <4>1. QED
        BY <3>4, <3>5
    <3> HIDE DEF pieces, n
    <3>8. \A v \in index : v.by = r /\ v.to - v.from \in 1 .. TargetChars
      BY <3>4, <3>5
    <3>9. \A p \in 0 .. text.length - 1 : \E v \in index : p \in v.from .. v.to - 1
      BY <3>4, <3>5, <3>6
    <3>10. QED
      BY <2>3, <3>4, <3>7, <3>8, <3>9
  <2>4. QED
    BY <2>2, <2>3
<1>2. QED
  BY <1>1, IndexInvariant, PTL

-----------------------------------------------------------------------------
(* Types: chats, messages and limits. *)

AiUserWaits == {"counting", "asking", "consulting", "replying", "touching"}

\* Who sends a message is one of those who chat, from its first await on.
LEMMA WhoChats ==
    ASSUME Served, NEW r \in Requests, AiStep(r), call[r].who \in AiUsers \/ pc[r] \notin AiUserWaits,
           pc'[r] \in AiUserWaits
    PROVE  call'[r].who \in AiUsers
<1>1. CASE pc[r] = "idle"
  <2>1. ASSUME NEW u \in AiUsers, NEW c, SendMessage(r, u, c)
        PROVE  call'[r].who \in AiUsers
    BY <2>1 DEF SendMessage, Arrive, Served, WellFormed
  <2>2. ASSUME NEW u, NEW c, CreateChat(r, u) \/ DeleteChat(r, u, c) \/ ResetRateLimits(r)
        PROVE  pc'[r] \in {"done", "deleting"}
    BY <2>2 DEF CreateChat, DeleteChat, ResetRateLimits, Arrive, Served, WellFormed
  <2>3. CASE ChatRequest(r) \/ ResetRateLimits(r)
    BY <2>1, <2>2, <2>3 DEF ChatRequest, AiUserWaits
  <2>4. QED
    BY <1>1, <2>3
       DEF AiStep, ChatStep, CountRequest, CountConflicts, StoreQuestion, AskOpenAI, StoreReply,
           TouchChat, DropChat
<1>2. CASE pc[r] # "idle"
  <2>1. pc[r] \in AiWaits /\ call'[r] = call[r]
    BY <1>2, AiMoves DEF Moves, Begins, Runs
  <2>2. pc[r] = "deleting" => pc'[r] \in {"done", "conflict"}
    BY AwaitAt
       DEF AiStep, ChatStep, IsNext, CountRequest, CountConflicts, StoreQuestion, AskOpenAI,
           StoreReply, TouchChat, DropChat, Gone, Leave
  <2>3. QED
    BY <2>1, <2>2 DEF AiWaits, AiUserWaits
<1>3. QED
  BY <1>1, <1>2

\* What is known of chats and their messages.
ChatsFit ==
    /\ DOMAIN chats \subseteq Requests /\ chats \in [DOMAIN chats -> AiUsers]
    /\ messages \subseteq [chat : DOMAIN chats, by : Requests, role : {"user", "assistant"}]

\* A message is stored in a chat that is there, and goes with it.
LEMMA ChatsFitOn ==
    ASSUME Served, ChatsFit, NEW r \in Requests, AiStep(r)
    PROVE  ChatsFit'
<1>1. CASE UNCHANGED <<chats, messages>>
  BY <1>1 DEF ChatsFit
<1>2. ASSUME NEW u \in AiUsers, CreateChat(r, u)
      PROVE  ChatsFit'
  BY <1>2 DEF CreateChat, ChatsFit
<1>3. ASSUME NEW role \in {"user", "assistant"}, NEW l, StoreMessage(r, role, l)
      PROVE  ChatsFit'
  BY <1>1, <1>3 DEF StoreMessage, Gone, ChatsFit
<1>4. CASE DropChat(r)
  <2>1. CASE Gone(r, call[r].what)
    BY <1>1, <2>1 DEF Gone
  <2>2. CASE ~Gone(r, call[r].what)
    <3>1. /\ chats' = [c \in DOMAIN chats \ {call[r].what} |-> chats[c]]
          /\ messages' = {m \in messages : m.chat # call[r].what}
      BY <1>4, <2>2 DEF DropChat
    <3>2. QED
      BY <3>1 DEF ChatsFit
  <2>3. QED
    BY <2>1, <2>2
<1>5. QED
  BY <1>1, <1>2, <1>3, <1>4
     DEF AiStep, ChatStep, ChatRequest, SendMessage, DeleteChat, ResetRateLimits, CountRequest,
         CountConflicts, StoreQuestion, AskOpenAI, StoreReply, TouchChat, aiVars

\* Whoever was admitted remains so.
LEMMA AdmittedGrows ==
    ASSUME Served, [Next]_appVars
    PROVE  /\ Cardinality(Admitted) \in Nat /\ Cardinality(Admitted') \in Nat
           /\ Cardinality(Admitted) <= Cardinality(Admitted')
           /\ Cardinality(Admitted') <= Cardinality(Requests)
           /\ \A q \in Requests : CountRequest(q) => Cardinality(Admitted) + 1 <= Cardinality(Admitted')
<1>1. ASSUME NEW q \in Requests, pc[q] # "idle", pc'[q] = "counting"
      PROVE  pc[q] = "counting"
  <2>1. CASE Foreign(AiOps, AiWaits)
    BY <1>1, <2>1, CountingStays DEF Stays
  <2>2. ASSUME NEW r \in Requests, AiStep(r)
        PROVE  pc[q] = "counting"
    <3>1. CASE q = r
      BY <1>1, <2>2, <3>1, AiStepKinds, AwaitAt DEF CountRequest
    <3>2. CASE q # r
      BY <1>1, <2>2, <3>2, AiMoves DEF Moves, Stays
    <3>3. QED
      BY <3>1, <3>2
  <2>3. QED
    BY <2>1, <2>2, AiFrame
<1>2. Onward
  <2>1. CASE Foreign(AiOps, AiWaits)
    BY <2>1, ForeignGoesOnward
  <2>2. ASSUME NEW r \in Requests, AiStep(r)
        PROVE  Onward
    BY <2>2, AiMoves, MovesGoOnward DEF AiWaits, Verdicts
  <2>3. QED
    BY <2>1, <2>2, AiFrame
<1>3. Admitted \in SUBSET Admitted' /\ Admitted' \in SUBSET Requests
  BY <1>1, <1>2 DEF Admitted, Begun, Onward
<1>4. IsFiniteSet(Admitted') /\ Cardinality(Admitted') <= Cardinality(Requests)
  BY <1>3, RequestsAreFinite, PartCounted
<1>5. ASSUME NEW q \in Requests, CountRequest(q)
      PROVE  Cardinality(Admitted) + 1 <= Cardinality(Admitted')
  <2>1. pc[q] = "counting" /\ pc'[q] = "asking"
    BY <1>5, AwaitAt DEF CountRequest
  <2>2. q \in Admitted' /\ q \notin Admitted
    BY <2>1 DEF Admitted, Begun
  <2>3. QED
    BY <1>3, <1>4, <2>2, OneMoreCounted
<1>6. QED
  BY <1>3, <1>4, <1>5, PartCounted

\* What is known of a row of the limit, and of all of them.
LimitRow == [id : Requests, count : 1 .. Cardinality(Requests), idle : BOOLEAN]

LimitsFit ==
    /\ DOMAIN limits \subseteq AiUsers /\ limits \in [DOMAIN limits -> LimitRow]
    /\ \A u \in DOMAIN limits : limits[u].count <= Cardinality(Admitted)

\* A row counts what was admitted, and starts again after an idle hour.
LEMMA LimitsFitOn ==
    ASSUME Served, LimitsFit, [Next]_appVars,
           \A r \in Requests : pc[r] = "counting" => call[r].who \in AiUsers
    PROVE  LimitsFit'
<1> DEFINE n == Cardinality(Admitted)
           m == Cardinality(Admitted')
           k == Cardinality(Requests)
<1>1. n \in Nat /\ m \in Nat /\ n <= m /\ m <= k /\ k \in Nat
  BY AdmittedGrows, RequestsAreFinite, PartCounted
<1>2. \A r \in Requests : CountRequest(r) => n + 1 <= m
  BY AdmittedGrows
<1> HIDE DEF n, m, k
<1>3. \A u \in DOMAIN limits :
          /\ u \in AiUsers /\ limits[u] \in [id : Requests, count : 1 .. k, idle : BOOLEAN]
          /\ limits[u].count <= n
  BY DEF LimitsFit, LimitRow, n, k
<1>4. ASSUME limits' = [u \in DOMAIN limits' |-> limits'[u]],
             \A u \in DOMAIN limits' :
                 /\ u \in AiUsers /\ limits'[u] \in [id : Requests, count : 1 .. k, idle : BOOLEAN]
                 /\ limits'[u].count <= m
      PROVE  LimitsFit'
  BY <1>4 DEF LimitsFit, LimitRow, m, k
<1>5. CASE limits' = limits
  <2>1. limits = [u \in DOMAIN limits |-> limits[u]]
    BY DEF LimitsFit
  <2>2. \A u \in DOMAIN limits : limits[u].count <= m
    BY <1>1, <1>3
  <2>3. QED
    BY <1>3, <1>4, <1>5, <2>1, <2>2
<1>6. CASE DropsIdleRows
  <2>1. \A u \in DOMAIN limits : limits[u].count <= m
    BY <1>1, <1>3
  <2>2. QED
    BY <1>3, <1>4, <1>6, <2>1 DEF DropsIdleRows
<1>7. ASSUME NEW u \in AiUsers, PutLimit(u, limits'[u]),
             limits'[u] \in [id : Requests, count : 1 .. k, idle : BOOLEAN], limits'[u].count <= m
      PROVE  LimitsFit'
  <2>1. \A v \in DOMAIN limits : limits[v].count <= m
    BY <1>1, <1>3
  <2>2. QED
    BY <1>3, <1>4, <1>7, <2>1 DEF PutLimit
<1>8. ASSUME NEW r \in Requests, CountRequest(r)
      PROVE  LimitsFit'
  <2> DEFINE u == call[r].who
  <2>1. u \in AiUsers
    BY <1>8 DEF CountRequest
  <2>2. PICK id, count :
            /\ PutLimit(u, [id |-> id, count |-> count, idle |-> FALSE])
            /\ id = r \/ (u \in DOMAIN limits /\ id = limits[u].id)
            /\ count = 1 \/ (u \in DOMAIN limits /\ count = limits[u].count + 1)
    BY <1>8 DEF CountRequest
  <2>3. n + 1 <= m
    BY <1>2, <1>8
  <2>4. id \in Requests /\ count \in 1 .. k /\ count <= m
    BY <1>1, <1>3, <2>2, <2>3
  <2>5. limits'[u] = [id |-> id, count |-> count, idle |-> FALSE]
    BY <2>2 DEF PutLimit
  <2>6. /\ PutLimit(u, limits'[u]) /\ limits'[u].count <= m
        /\ limits'[u] \in [id : Requests, count : 1 .. k, idle : BOOLEAN]
    BY <2>2, <2>4, <2>5
  <2>7. QED
    BY <1>7, <2>1, <2>6
<1>9. ASSUME NEW u \in AiUsers, IdleHour(u)
      PROVE  LimitsFit'
  <2>1. u \in DOMAIN limits /\ PutLimit(u, [limits[u] EXCEPT !.idle = TRUE])
    BY <1>9 DEF IdleHour
  <2>2. limits'[u] = [limits[u] EXCEPT !.idle = TRUE]
    BY <2>1 DEF PutLimit
  <2>3. limits'[u] \in [id : Requests, count : 1 .. k, idle : BOOLEAN] /\ limits'[u].count = limits[u].count
    BY <1>3, <2>1, <2>2
  <2>4. limits[u].count <= m
    BY <1>1, <1>3, <2>1
  <2>5. QED
    BY <1>7, <2>1, <2>2, <2>3, <2>4
<1>10. QED
  BY <1>5, <1>6, <1>8, <1>9, AiFrame, AiStepKinds DEF aiVars, ReadsLimit

\* Chats, messages and limits are rows of their tables, in every state of the application.
THEOREM ChatsAreRows == Spec => []AiFits
<1>1. Init => AiFits
  <2> SUFFICES ASSUME Init PROVE AiFits
    OBVIOUS
  <2>1. /\ chats = <<>> /\ messages = {} /\ limits = <<>> /\ spree = [u \in AiUsers |-> {}]
        /\ \A r \in Requests : pc[r] = "idle"
    BY DEF Init, AiInit, ServerInit
  <2>2. AiTypeOK
    BY <2>1 DEF AiTypeOK
  <2>3. QED
    BY <2>1, <2>2 DEF AiFits
<1>2. Served /\ AiInv' /\ AiFits /\ [Next]_appVars => AiFits'
  <2> SUFFICES ASSUME Served, AiInv', AiFits, [Next]_appVars PROVE AiFits'
    OBVIOUS
  <2>1. \A r \in Requests : pc[r] \in AiUserWaits => call[r].who \in AiUsers
    BY DEF AiFits, AiUserWaits
  <2>2. LimitsFit'
    BY <2>1, LimitsFitOn DEF LimitsFit, LimitRow, AiFits, AiTypeOK, AiUserWaits
  <2>3. ChatsFit'
    <3>1. ChatsFit
      BY DEF ChatsFit, AiFits, AiTypeOK
    <3>2. QED
      BY <3>1, ChatsFitOn, AiFrame DEF ChatsFit, aiVars, IdleHour
  <2>4. spree' \in [AiUsers -> SUBSET Requests]
    BY DEF AiInv, RowCounts
  <2>5. ASSUME NEW q \in Requests, pc'[q] \in AiUserWaits
        PROVE  call'[q].who \in AiUsers
    <3>1. CASE Stays(q)
      BY <2>1, <2>5, <3>1 DEF Stays
    <3>2. CASE Foreign(AiOps, AiWaits)
      BY <2>5, <3>1, <3>2 DEF Foreign, Breaks, AiWaits, AiUserWaits
    <3>3. ASSUME NEW r \in Requests, AiStep(r)
          PROVE  call'[q].who \in AiUsers
      BY <2>1, <2>5, <3>1, <3>3, WhoChats, AiMoves DEF Moves
    <3>4. QED
      BY <3>2, <3>3, AiFrame
  <2>6. QED
    BY <2>2, <2>3, <2>4, <2>5 DEF AiFits, AiTypeOK, ChatsFit, LimitsFit, LimitRow, AiUserWaits
<1>3. QED
  BY <1>1, <1>2, ServedAlways, LimitInvariant, PTL DEF Spec

-----------------------------------------------------------------------------
(* Types: requests and catalogue. *)

\* Requests, and what is noted of them, in every state of the application.
THEOREM RequestsAreTyped ==
    Spec => [](ServerTypeOK /\ pc \in [Requests -> {"idle"} \cup Rest \cup UNION OwnWaits])
<1> DEFINE Placed == \A r \in Requests : pc[r] \in {"idle"} \cup Rest \cup UNION OwnWaits
           Typed  == ServerTypeOK /\ pc \in [Requests -> {"idle"} \cup Rest \cup UNION OwnWaits]
<1>1. Init => Placed
  BY DEF Init, ServerInit
<1>2. Served /\ Placed /\ [Next]_appVars => Placed'
  <2> SUFFICES ASSUME Served, Placed, [Next]_appVars PROVE Placed'
    OBVIOUS
  <2>1. ASSUME NEW r \in Requests, Handle(r)
        PROVE  Placed'
    <3>1. PICK ops \in {UserOps, AuthOps, PushOps, AiOps, CatalogueOps, LessonOps, RagOps},
               waits \in OwnWaits : Moves(r, ops, waits)
      BY <2>1, HandleMoves DEF OwnWaits
    <3>2. pc'[r] \in Rest \cup UNION OwnWaits /\ \A s \in Requests \ {r} : pc'[s] = pc[s]
      BY <3>1 DEF Moves, Begins, Runs, Stays
    <3>3. QED
      BY <3>2
  <2>2. CASE Halts
    BY <2>2 DEF Halts, Stays, Breaks, Rest, Verdicts
  <2>3. QED
    BY <2>1, <2>2, StepKinds
<1>3. Served /\ Placed => Typed
  BY DEF Served, WellFormed, ServerTypeOK
<1>4. QED
  BY <1>1, <1>2, <1>3, ServedAlways, PTL DEF Spec

\* The administrators' tables, in every state of the application.
THEOREM TablesAreTyped == Spec => []CatalogueTypeOK
<1>1. Served /\ CatalogueInv /\ OffsetInv => CatalogueTypeOK
  <2> SUFFICES ASSUME CatalogueInv, OffsetInv PROVE CatalogueTypeOK
    OBVIOUS
  <2>1. Ended \in SUBSET Requests
    BY DEF Ended
  <2>2. Cardinality(Ended) \in Nat
    BY <2>1, RequestsAreFinite, PartCounted
  <2>3. QED
    BY <2>2 DEF CatalogueInv, OffsetInv, PlacesCounted, CatalogueTypeOK, Ids
<1>2. QED
  BY <1>1, ServedAlways, LessonsInvariant, OffsetInvariant, PTL

-----------------------------------------------------------------------------
(* Types: devices and notifications. *)

NoteRow(us) == [to : us, by : Requests, read : BOOLEAN]

LEMMA RowsInLine ==
    ASSUME NEW S, NEW n \in Nat, NEW f \in [1 .. n -> S]
    PROVE  f \in Seq(S)
OBVIOUS

\* Notifications to people who are there, whatever is added or read.
LEMMA NotesAreTyped ==
    ASSUME NEW D, NEW E, D \subseteq E, notes \in Seq(NoteRow(D)),
           \/ notes' = notes
           \/ \E us \in SUBSET E, r \in Requests : IsFiniteSet(us) /\ notes' = notes \o NotesFor(us, r)
           \/ \E i \in DOMAIN notes : notes' = [notes EXCEPT ![i].read = TRUE]
           \/ \E u : notes' = [i \in DOMAIN notes |-> [notes[i] EXCEPT !.read = @ \/ notes[i].to = u]]
    PROVE  notes' \in Seq(NoteRow(E))
<1>1. NoteRow(D) \subseteq NoteRow(E)
  BY DEF NoteRow
<1>2. Len(notes) \in Nat /\ DOMAIN notes = 1 .. Len(notes) /\ \A i \in DOMAIN notes : notes[i] \in NoteRow(E)
  BY <1>1
<1>3. notes \in Seq(NoteRow(E))
  BY <1>1
<1>4. ASSUME NEW us \in SUBSET E, NEW r \in Requests, IsFiniteSet(us), notes' = notes \o NotesFor(us, r)
      PROVE  notes' \in Seq(NoteRow(E))
  <2>1. NotesFor(us, r) \in Seq(NewNotes(us, r))
    BY <1>4, EveryoneIsNoted
  <2>2. NewNotes(us, r) \subseteq NoteRow(E)
    BY DEF NewNotes, NoteRow
  <2> DEFINE new == NotesFor(us, r)
  <2>3. new \in Seq(NoteRow(E))
    <3> HIDE DEF new
    <3> QED
      BY <2>1, <2>2 DEF new
  <2> HIDE DEF new
  <2>4. notes \o new \in Seq(NoteRow(E))
    BY <1>3, <2>3, ConcatProperties
  <2>5. QED
    BY <1>4, <2>4 DEF new
<1>5. ASSUME NEW i \in DOMAIN notes, notes' = [notes EXCEPT ![i].read = TRUE]
      PROVE  notes' \in Seq(NoteRow(E))
  <2>1. [notes[i] EXCEPT !.read = TRUE] \in NoteRow(E)
    BY <1>2 DEF NoteRow
  <2>2. notes' = [j \in 1 .. Len(notes) |-> IF j = i THEN [notes[i] EXCEPT !.read = TRUE] ELSE notes[j]]
    BY <1>2, <1>3, <1>5
  <2>3. notes' \in [1 .. Len(notes) -> NoteRow(E)]
    BY <1>2, <2>1, <2>2
  <2>4. QED
    BY <1>2, <2>3, RowsInLine
<1>6. ASSUME NEW u,
             notes' = [i \in DOMAIN notes |-> [notes[i] EXCEPT !.read = @ \/ notes[i].to = u]]
      PROVE  notes' \in Seq(NoteRow(E))
  <2>1. \A i \in DOMAIN notes : [notes[i] EXCEPT !.read = @ \/ notes[i].to = u] \in NoteRow(E)
    BY <1>2 DEF NoteRow
  <2>2. notes' \in [1 .. Len(notes) -> NoteRow(E)]
    BY <1>2, <1>6, <2>1
  <2>3. QED
    BY <1>2, <2>2, RowsInLine
<1>7. QED
  BY <1>3, <1>4, <1>5, <1>6


\* The notifications of a step are to people who are there.
LEMMA NotesAreWritten ==
    ASSUME Served, PushInv, PushFits, [Next]_appVars
    PROVE  \/ notes' = notes
           \/ \E us \in SUBSET DOMAIN users, r \in Requests :
                 IsFiniteSet(us) /\ notes' = notes \o NotesFor(us, r)
           \/ \E i \in DOMAIN notes : notes' = [notes EXCEPT ![i].read = TRUE]
           \/ \E u : notes' = [i \in DOMAIN notes |-> [notes[i] EXCEPT !.read = @ \/ notes[i].to = u]]
<1> DEFINE Added  == \E us \in SUBSET DOMAIN users, r \in Requests :
                        IsFiniteSet(us) /\ notes' = notes \o NotesFor(us, r)
           OneRead == \E i \in DOMAIN notes : notes' = [notes EXCEPT ![i].read = TRUE]
           AllRead == \E u : notes' = [i \in DOMAIN notes |->
                                         [notes[i] EXCEPT !.read = @ \/ notes[i].to = u]]
<1>1. ASSUME NEW r \in Requests, PushStep(r)
      PROVE  notes' = notes \/ Added \/ OneRead \/ AllRead
  <2>1. CASE StoreNotes(r)
    <3>1. call[r].what \in SUBSET DOMAIN users /\ IsFiniteSet(call[r].what)
      BY <2>1 DEF StoreNotes, PushFits, PushInv, NotesAreRows
    <3>2. notes' = notes \o NotesFor(call[r].what, r)
      BY <2>1 DEF StoreNotes
    <3>3. QED
      BY <3>1, <3>2
  <2>2. CASE \E u : (\E i \in DOMAIN notes : MarkRead(r, u, i)) \/ MarkAllRead(r, u)
    BY <2>2 DEF MarkRead, MarkAllRead
  <2>3. CASE RemoveDevice(r) \/ CollectDevices(r) \/ SendMulticast(r) \/ NextPage(r)
    BY <2>3 DEF RemoveDevice, CollectDevices, SendMulticast, NextPage, pushVars
  <2>4. CASE DeviceRequest(r) \/ AdminSendRequest(r) \/ SendRequest(r)
    BY <2>4
       DEF DeviceRequest, RegisterDevice, RemoveDeviceById, AdminSendRequest, AdminSendToUser,
           AdminSendToMany, AdminBroadcast, SendRequest, SendToUser, SendToMany, Broadcast, Send, pushVars
  <2>5. QED
    BY <1>1, <2>1, <2>2, <2>3, <2>4 DEF PushStep, InboxRequest, ListMy, pushVars
<1>2. ASSUME NEW r \in Requests, Handle(r), ~PushStep(r)
      PROVE  notes' = notes
  BY <1>2 DEF Handle, AiStep, pushVars
<1>3. NoTableChanges \/ Crash \/ Pass => notes' = notes
  BY DEF NoTableChanges, Crash, Pass, IdleHour, pushVars
<1>4. QED
  BY <1>1, <1>2, <1>3, StepKinds

\* The owner of a device is a user who was there when it was registered.
LEMMA DevicesAreWritten ==
    ASSUME Served, PushInv, PushFits, [Next]_appVars
    PROVE  \/ devices' = devices
           \/ \E u \in Seeded, t \in Tokens, id \in Requests :
                 devices' = [d \in DOMAIN devices \cup {t} |->
                               IF d = t THEN [user |-> u, id |-> id] ELSE devices[d]]
           \/ \E t : devices' = [d \in DOMAIN devices \ {t} |-> devices[d]]
<1>1. ASSUME NEW r \in Requests, PushStep(r), ~DeviceRequest(r), ~RemoveDevice(r)
      PROVE  devices' = devices
  BY <1>1
     DEF PushStep, AdminSendRequest, AdminSendToUser, AdminSendToMany, AdminBroadcast, SendRequest,
         SendToUser, SendToMany, Broadcast, Send, InboxRequest, ListMy, MarkRead, MarkAllRead,
         CollectDevices, StoreNotes, SendMulticast, NextPage, pushVars
<1>2. ASSUME NEW r \in Requests, NEW u, NEW t \in Tokens, RegisterDevice(r, u, t)
      PROVE  \E id \in Requests :
                devices' = [d \in DOMAIN devices \cup {t} |->
                              IF d = t THEN [user |-> u, id |-> id] ELSE devices[d]]
  <2>1. t \in DOMAIN devices => devices[t].id \in Requests
    BY DEF PushFits, PushTypeOK
  <2>2. QED
    BY <1>2, <2>1 DEF RegisterDevice
<1>3. ASSUME NEW r \in Requests, RemoveDevice(r)
      PROVE  devices' = devices \/ \E t : devices' = [d \in DOMAIN devices \ {t} |-> devices[d]]
  BY <1>3 DEF RemoveDevice
<1>4. ASSUME NEW u, NEW t, NEW r, RemoveDeviceById(r, u, t)
      PROVE  devices' = devices
  BY <1>4 DEF RemoveDeviceById, pushVars
<1>5. ASSUME NEW r \in Requests, PushStep(r), devices' # devices
      PROVE  \/ RemoveDevice(r)
             \/ \E u \in Seeded, t \in Tokens : RegisterDevice(r, u, t)
  BY <1>1, <1>4, <1>5 DEF DeviceRequest
<1>6. ASSUME NEW r \in Requests, NEW u \in Seeded, NEW t \in Tokens, RegisterDevice(r, u, t)
      PROVE  \E v \in Seeded, d \in Tokens, id \in Requests :
                devices' = [e \in DOMAIN devices \cup {d} |->
                              IF e = d THEN [user |-> v, id |-> id] ELSE devices[e]]
  BY <1>2, <1>6
<1>7. CASE \E r \in Requests : PushStep(r) /\ devices' # devices
  <2>1. PICK r \in Requests : \/ RemoveDevice(r)
                              \/ \E u \in Seeded, t \in Tokens : RegisterDevice(r, u, t)
    BY <1>5, <1>7
  <2>2. CASE RemoveDevice(r)
    BY <1>3, <2>2
  <2>3. CASE \E u \in Seeded, t \in Tokens : RegisterDevice(r, u, t)
    BY <1>6, <2>3
  <2>4. QED
    BY <2>1, <2>2, <2>3
<1>8. QED
  BY <1>7, PushFrame

\* Who is sent to is there.
LEMMA RecipientsAreThere ==
    ASSUME Served, PushFits, SeededStay, NEW r \in Requests, PushStep(r),
           pc'[r] \in {"collecting", "noting"}
    PROVE  call'[r].what \subseteq DOMAIN users
<1>1. ASSUME NEW op, NEW what, NEW l, NEW read, Arrive(r, op, Nothing, what, l, read)
      PROVE  call'[r].what = what
  BY <1>1 DEF Arrive, Served, WellFormed
<1>2. ASSUME NEW op, NEW who, NEW what, NEW l, NEW read, Arrive(r, op, who, what, l, read)
      PROVE  pc'[r] = l
  BY <1>2 DEF Arrive, Served, WellFormed
<1>3. Seeded \subseteq DOMAIN users /\ Owners \subseteq DOMAIN users
  BY DEF SeededStay, Owners, PushFits, PushTypeOK
<1>4. CASE SendRequest(r) \/ AdminSendRequest(r)
  <2>1. ASSUME NEW op, NEW to \in SUBSET DOMAIN users, Send(r, op, to)
        PROVE  call'[r].what \subseteq DOMAIN users
    BY <1>1, <2>1 DEF Send
  <2>2. CASE SendRequest(r)
    BY <1>3, <2>1, <2>2 DEF SendRequest, SendToUser, SendToMany, Broadcast
  <2>3. CASE \E u \in Seeded : AdminSendToUser(r, u)
    BY <1>3, <2>1, <2>3 DEF AdminSendToUser
  <2>4. CASE AdminBroadcast(r) \/ \E us : AdminSendToMany(r, us)
    BY <1>1, <2>4 DEF AdminSendToMany, AdminBroadcast, Active
  <2>5. QED
    BY <1>4, <2>2, <2>3, <2>4 DEF AdminSendRequest
<1>5. CASE DeviceRequest(r) \/ InboxRequest(r)
  BY <1>2, <1>5
     DEF DeviceRequest, RegisterDevice, RemoveDeviceById, InboxRequest, ListMy, After, MarkRead, MarkAllRead
<1>6. CASE CollectDevices(r)
  BY <1>6, AwaitAt DEF CollectDevices, PushFits
<1>7. CASE RemoveDevice(r) \/ StoreNotes(r) \/ SendMulticast(r) \/ NextPage(r)
  BY <1>7, AwaitAt DEF RemoveDevice, StoreNotes, SendMulticast, NextPage, After, Leave
<1>8. QED
  BY <1>4, <1>5, <1>6, <1>7 DEF PushStep

\* Devices and notifications belong to people who are there, in every state of the application.
THEOREM NotesAreToUsers == Spec => []PushFits
<1>1. Init => PushFits
  <2> SUFFICES ASSUME Init PROVE PushFits
    OBVIOUS
  <2>1. devices = <<>> /\ notes = <<>> /\ \A r \in Requests : pc[r] = "idle"
    BY DEF Init, PushInit, ServerInit
  <2>2. QED
    BY <2>1 DEF PushFits, PushTypeOK
<1>2. Served /\ PushInv /\ SeededStay /\ PushFits /\ [Next]_appVars => PushFits'
  <2> SUFFICES ASSUME Served, PushInv, SeededStay, PushFits, [Next]_appVars PROVE PushFits'
    OBVIOUS
  <2>1. DOMAIN users \subseteq DOMAIN users'
    BY UsersOnlyGrow
  <2>2. notes' \in Seq(NoteRow(DOMAIN users'))
    <3>1. notes \in Seq(NoteRow(DOMAIN users))
      BY DEF PushFits, PushTypeOK, NoteRow
    <3>2. \A us \in SUBSET DOMAIN users : us \in SUBSET DOMAIN users'
      BY <2>1
    <3>3. QED
      BY <2>1, <3>1, <3>2, NotesAreWritten, NotesAreTyped
  <2>3. DOMAIN devices' \subseteq Tokens /\ devices' \in [DOMAIN devices' -> [user : DOMAIN users', id : Requests]]
    <3>1. /\ DOMAIN devices \subseteq Tokens /\ Seeded \subseteq DOMAIN users'
          /\ \A t \in DOMAIN devices : devices[t] \in [user : DOMAIN users', id : Requests]
          /\ devices = [t \in DOMAIN devices |-> devices[t]]
      BY <2>1 DEF PushFits, PushTypeOK, SeededStay
    <3>2. CASE devices' = devices
      BY <3>1, <3>2
    <3>3. ASSUME NEW u \in Seeded, NEW t \in Tokens, NEW id \in Requests,
                 devices' = [d \in DOMAIN devices \cup {t} |->
                               IF d = t THEN [user |-> u, id |-> id] ELSE devices[d]]
          PROVE  DOMAIN devices' \subseteq Tokens
                 /\ devices' \in [DOMAIN devices' -> [user : DOMAIN users', id : Requests]]
      BY <3>1, <3>3
    <3>4. ASSUME NEW t, devices' = [d \in DOMAIN devices \ {t} |-> devices[d]]
          PROVE  DOMAIN devices' \subseteq Tokens
                 /\ devices' \in [DOMAIN devices' -> [user : DOMAIN users', id : Requests]]
      BY <3>1, <3>4
    <3>5. QED
      BY <3>2, <3>3, <3>4, DevicesAreWritten
  <2>4. ASSUME NEW q \in Requests, pc'[q] \in {"collecting", "noting"}
        PROVE  call'[q].what \subseteq DOMAIN users'
    <3>1. CASE Stays(q)
      BY <2>1, <2>4, <3>1 DEF Stays, PushFits
    <3>2. CASE Foreign(PushOps, PushWaits)
      BY <2>4, <3>1, <3>2 DEF Foreign, Breaks, PushWaits
    <3>3. ASSUME NEW r \in Requests, PushStep(r)
          PROVE  call'[q].what \subseteq DOMAIN users'
      BY <2>1, <2>4, <3>1, <3>3, RecipientsAreThere, PushMoves DEF Moves
    <3>4. QED
      BY <3>2, <3>3, PushFrame
  <2>5. QED
    BY <2>2, <2>3, <2>4 DEF PushFits, PushTypeOK, NoteRow
<1>3. LessonsInv => SeededStay
  BY DEF LessonsInv
<1>4. QED
  BY <1>1, <1>2, <1>3, ServedAlways, PushInvariant, LessonsInvariant, PTL DEF Spec

-----------------------------------------------------------------------------
(* Types: progress and subscriptions. *)

\* Subscriptions are those of seeded users, and they lapse under requests.
LEMMA SubscriptionsFit ==
    ASSUME Served, LessonsFit, [Next]_appVars
    PROVE  subscribed' \subseteq Seeded /\ lapsed' \subseteq Requests
<1>1. subscribed \subseteq Seeded /\ lapsed \subseteq Requests
  BY DEF LessonsFit, LessonsTypeOK
<1>2. ASSUME NEW r \in Requests, LessonsStep(r)
      PROVE  /\ lapsed' = lapsed
             /\ subscribed' = subscribed \/ \E u \in Seeded : subscribed' = subscribed \cup {u}
  BY <1>2
     DEF LessonsStep, Lesson, FindOneLesson, LessonProgress, UpdateMyProgress, Subscribe, ShowBlocks,
         SendLesson, ScoreProgress, RecordProgress, lessonVars
<1>3. ASSUME NEW r \in Requests, Handle(r), ~LessonsStep(r)
      PROVE  UNCHANGED <<subscribed, lapsed>>
  BY <1>3 DEF Handle, Cascade, lessonVars
<1>4. CASE NoTableChanges \/ Crash \/ Pass
  BY <1>1, <1>4 DEF NoTableChanges, Crash, Pass, Lapse, lessonVars, InFlight, Begun
<1>5. QED
  BY <1>1, <1>2, <1>3, <1>4, StepKinds

\* A row of a person's progress.
ProgressRow == [last : {1, 2}, completed : BOOLEAN, by : Requests]

\* Progress is written for a lesson that is there, and goes with it.
LEMMA ProgressFits ==
    ASSUME Served, LessonsFit, [Next]_appVars
    PROVE  /\ DOMAIN progress' \subseteq Seeded \X Ids("lesson")'
           /\ progress' \in [DOMAIN progress' -> ProgressRow]
<1>1. /\ DOMAIN progress \subseteq Seeded \X Ids("lesson")
      /\ progress \in [DOMAIN progress -> ProgressRow]
  BY DEF LessonsFit, LessonsTypeOK, ProgressRow
<1>2. rows' = rows => Ids("lesson")' = Ids("lesson")
  BY DEF Ids
<1>3. CASE Cascade
  <2> DEFINE kept == {k \in DOMAIN progress : k[2] \in Ids("lesson")'}
  <2>1. progress' = [k \in kept |-> progress[k]]
    BY <1>3 DEF Cascade
  <2>2. kept \subseteq Seeded \X Ids("lesson")'
    BY <1>1
  <2>3. QED
    BY <1>1, <2>1, <2>2
<1>4. CASE rows' = rows /\ progress' = progress
  BY <1>1, <1>2, <1>4
<1>5. ASSUME NEW r \in Requests, LessonsStep(r)
      PROVE  rows' = rows /\ (progress' = progress \/ RecordProgress(r))
  BY <1>5
     DEF LessonsStep, Lesson, FindOneLesson, LessonProgress, UpdateMyProgress, Subscribe, ShowBlocks,
         SendLesson, ScoreProgress, lessonVars
<1>6. ASSUME NEW r \in Requests, RecordProgress(r), progress' # progress, rows' = rows
      PROVE  /\ DOMAIN progress' \subseteq Seeded \X Ids("lesson")'
             /\ progress' \in [DOMAIN progress' -> ProgressRow]
  <2> DEFINE key == <<call[r].who, call[r].what.lesson>>
             row == [last |-> call[r].what.last, completed |-> saw[r], by |-> r]
  <2>1. /\ pc[r] = "recording" /\ call[r].what.lesson \in Ids("lesson")
        /\ progress' = [k \in DOMAIN progress \cup {key} |-> IF k = key THEN row ELSE progress[k]]
    BY <1>6 DEF RecordProgress
  <2>2. key \in Seeded \X Ids("lesson") /\ row \in ProgressRow
    BY <2>1 DEF LessonsFit, ProgressRow
  <2> HIDE DEF key, row
  <2>3. QED
    BY <1>1, <1>2, <1>6, <2>1, <2>2
<1>7. QED
  BY <1>3, <1>4, <1>5, <1>6, LessonFrame DEF Aside

\* A report of progress is a seeded user's, and says how far.
LEMMA ReportsFit ==
    ASSUME Served, LessonsFit, NEW r \in Requests, LessonsStep(r), pc'[r] \in {"scoring", "recording"}
    PROVE  /\ call'[r].who \in Seeded /\ call'[r].what.last \in {1, 2}
           /\ pc'[r] = "recording" => saw'[r] \in BOOLEAN
<1>1. ASSUME NEW op, NEW who, NEW what, NEW l, NEW read, Arrive(r, op, who, what, l, read)
      PROVE  pc'[r] = l /\ call'[r].who = who /\ call'[r].what = what
  BY <1>1 DEF Arrive, Served, WellFormed
<1>2. CASE \E u \in Seeded : Subscribe(r, u) \/ \E l : FindOneLesson(r, u, l)
  <2>1. ASSUME NEW u, NEW l, Subscribe(r, u) \/ FindOneLesson(r, u, l)
        PROVE  pc'[r] \in {"done", "gating"}
    BY <1>1, <2>1 DEF Subscribe, FindOneLesson
  <2>2. QED
    BY <1>2, <2>1
<1>3. ASSUME NEW u \in Seeded, NEW l, NEW last \in {1, 2}, UpdateMyProgress(r, u, l, last)
      PROVE  call'[r].who \in Seeded /\ call'[r].what.last \in {1, 2} /\ pc'[r] = "scoring"
  BY <1>1, <1>3 DEF UpdateMyProgress
<1>4. CASE ScoreProgress(r)
  <2>1. pc[r] = "scoring" /\ call'[r] = call[r]
    BY <1>4, AwaitAt DEF ScoreProgress, Leave
  <2>2. pc'[r] = "recording" => saw'[r] = IsCompleted(call[r].what.lesson, call[r].what.last)
    BY <1>4, AwaitAt DEF ScoreProgress, Leave
  <2>3. IsCompleted(call[r].what.lesson, call[r].what.last) \in BOOLEAN
    BY DEF IsCompleted
  <2>4. QED
    BY <2>1, <2>2, <2>3 DEF LessonsFit
<1>5. CASE ShowBlocks(r) \/ SendLesson(r) \/ RecordProgress(r)
  BY <1>5, AwaitAt DEF ShowBlocks, SendLesson, RecordProgress, Leave
<1>6. QED
  BY <1>2, <1>3, <1>4, <1>5 DEF LessonsStep, Lesson, LessonProgress

\* Progress and subscriptions are rows of their tables, in every state of the application.
THEOREM ProgressIsRows == Spec => []LessonsFit
<1>1. Init => LessonsFit
  <2> SUFFICES ASSUME Init PROVE LessonsFit
    OBVIOUS
  <2>1. subscribed = Members /\ progress = <<>> /\ lapsed = {} /\ \A r \in Requests : pc[r] = "idle"
    BY DEF Init, LessonsInit, ServerInit
  <2>2. QED
    BY <2>1, LessonsAssumption DEF LessonsFit, LessonsTypeOK
<1>2. Served /\ LessonsFit /\ [Next]_appVars => LessonsFit'
  <2> SUFFICES ASSUME Served, LessonsFit, [Next]_appVars PROVE LessonsFit'
    OBVIOUS
  <2>1. LessonsTypeOK'
    BY SubscriptionsFit, ProgressFits DEF LessonsTypeOK, ProgressRow
  <2>2. ASSUME NEW q \in Requests, pc'[q] \in {"scoring", "recording"}
        PROVE  /\ call'[q].who \in Seeded /\ call'[q].what.last \in {1, 2}
               /\ pc'[q] = "recording" => saw'[q] \in BOOLEAN
    <3>1. CASE Stays(q)
      BY <2>2, <3>1 DEF Stays, LessonsFit
    <3>2. ASSUME NEW r \in Requests, LessonsStep(r), ~Stays(q)
          PROVE  q = r
      BY <3>2, LessonsMoves DEF Moves
    <3>3. ASSUME NEW r \in Requests, CatalogueStep(r), ~Stays(q)
          PROVE  FALSE
      <4>1. q = r /\ pc'[r] \in CatalogueWaits \cup Rest
        BY <3>3, CatalogueMoves DEF Moves, Begins, Runs
      <4>2. QED
        BY <2>2, <4>1 DEF CatalogueWaits, Rest, Verdicts
    <3>4. Aside => Stays(q)
      BY <2>2 DEF Aside, LessonWaits
    <3>5. QED
      BY <2>2, <3>1, <3>2, <3>3, <3>4, LessonFrame, ReportsFit
  <2>3. QED
    BY <2>1, <2>2 DEF LessonsFit
<1>3. QED
  BY <1>1, <1>2, ServedAlways, PTL DEF Spec

-----------------------------------------------------------------------------
(* Types: chunks, chats and messages. *)

\* A vector holds a piece of a text.
VectorRow == [book : Kept, by : Requests, index : Nat, from : Nat, to : Nat]

LEMMA VectorsAreRows ==
    ASSUME IndexInv, NEW r \in Requests, pc[r] = "embedding"
    PROVE  Vector(r, saw[r]) \in VectorRow
<1> DEFINE text   == call[r].what.text
           pieces == Chunk(text)
<1>1. /\ call[r].what.book \in Kept /\ text \in Texts /\ text.length >= MinChars
      /\ saw[r] \in 1 .. Len(pieces)
  BY DEF IndexInv, IndexCallWaits, IndexOps
<1>2. DOMAIN pieces = 1 .. Len(pieces) /\ Len(pieces) \in Nat
  BY <1>1, LongTextsHavePieces
<1>3. IsPiece(text, pieces[saw[r]])
  BY <1>1, <1>2, RagAssumption, ChunksCover DEF IsText, Covers
<1>4. pieces[saw[r]].from \in Nat /\ pieces[saw[r]].to \in Nat
  BY <1>1, <1>3, RagAssumption DEF IsPiece
<1> HIDE DEF pieces
<1>5. Vector(r, saw[r]) =
         [book |-> call[r].what.book, by |-> r, index |-> saw[r],
          from |-> pieces[saw[r]].from, to |-> pieces[saw[r]].to]
  BY DEF Vector, pieces
<1>6. saw[r] \in Nat
  BY <1>1, <1>2
<1>7. QED
  BY <1>1, <1>4, <1>5, <1>6 DEF VectorRow

\* What is known of the index.
IndexFits ==
    /\ vectors \subseteq VectorRow
    /\ collection \in BOOLEAN /\ ensured \in BOOLEAN
    /\ vectors # {} => collection
    /\ uncleared \subseteq Requests

\* A vector is put into a collection that is there from then on.
LEMMA IndexFitsOn ==
    ASSUME Served, IndexInv, IndexFits, [Next]_appVars
    PROVE  IndexFits'
<1>1. CASE UNCHANGED <<vectors, collection, uncleared>> /\ ensured' \in {ensured, FALSE}
  BY <1>1 DEF IndexFits, VectorRow
<1>2. ASSUME NEW r \in Requests, BookRagStep(r)
      PROVE  IndexFits'
  <2>1. CASE CheckCollection(r)
    BY <2>1 DEF CheckCollection, IndexFits, VectorRow
  <2>2. CASE DeclareCollection(r)
    BY <2>2 DEF DeclareCollection, IndexFits, VectorRow
  <2>3. CASE DeleteByBook(r)
    BY <2>3 DEF DeleteByBook, IndexFits, VectorRow
  <2>4. CASE DeletionFails(r)
    BY <2>4 DEF DeletionFails, IndexFits, VectorRow
  <2>5. CASE EmbedChunk(r)
    <3>1. Vector(r, saw[r]) \in VectorRow
      BY <2>5, VectorsAreRows DEF EmbedChunk
    <3>2. QED
      BY <2>5, <3>1 DEF EmbedChunk, IndexFits, VectorRow
  <2>6. CASE ExtractText(r) \/ BookChatStep(r)
    BY <1>1, <2>6
       DEF ExtractText, BookChatStep, SearchBookChunks, GetChat, OrCreateChat, AskGemini, SaveExchange,
           TellDone, Disconnect, EmptyChat, indexVars
  <2>7. CASE EmbedRequest(r) \/ BookChatRequest(r) \/ StreamRequest(r)
    BY <1>1, <2>7
       DEF EmbedRequest, DeleteEmbeddings, ReembedBook, BookChatRequest, GetMyChat, SendBookMessage,
           ClearMyChat, StreamRequest, SendBookMessageStream, Ask, indexVars
  <2>8. QED
    BY <1>2, <2>1, <2>2, <2>3, <2>4, <2>5, <2>6, <2>7 DEF BookRagStep, IndexStep
<1>3. ASSUME NEW r \in Requests, Handle(r), ~BookRagStep(r)
      PROVE  UNCHANGED indexVars
  BY <1>3 DEF Handle
<1>4. CASE NoTableChanges \/ Crash \/ Pass
  BY <1>1, <1>4 DEF NoTableChanges, Crash, Pass, indexVars
<1>5. QED
  BY <1>1, <1>2, <1>3, <1>4, StepKinds DEF indexVars

\* Chats that are there remain there.
ChatIsThere(c) == \E i \in DOMAIN bookChats : bookChats[i].id = c

LEMMA ChatsAreAdded ==
    ASSUME BookChatsInv, NEW r \in Requests, NEW chat, bookChats' = Append(bookChats, chat), chat.id = r
    PROVE  ChatIsThere(r)' /\ \A c : ChatIsThere(c) => ChatIsThere(c)'
<1>1. bookChats \in Seq([id : Requests, user : Readers, book : Kept])
  BY DEF BookChatsInv
<1>2. Len(bookChats) \in Nat /\ DOMAIN bookChats = 1 .. Len(bookChats)
  BY <1>1
<1>3. /\ DOMAIN bookChats' = 1 .. Len(bookChats) + 1
      /\ bookChats'[Len(bookChats) + 1] = chat
      /\ \A i \in DOMAIN bookChats : bookChats'[i] = bookChats[i]
  BY <1>1, <1>2
<1>4. QED
  BY <1>2, <1>3 DEF ChatIsThere

LEMMA LatestIsOne ==
    ASSUME BookChatsInv, NEW u, NEW b, ChatsOf(u, b) # {}
    PROVE  Max(ChatsOf(u, b)) \in DOMAIN bookChats
<1> DEFINE n == Len(bookChats)
<1>1. n \in Nat /\ DOMAIN bookChats = 1 .. n
  BY DEF BookChatsInv
<1> HIDE DEF n
<1>2. ChatsOf(u, b) \in SUBSET (0 .. n) /\ ChatsOf(u, b) \subseteq DOMAIN bookChats
  BY <1>1 DEF ChatsOf
<1>3. QED
  BY <1>1, <1>2, LargestOf

\* A message is in a chat that is there, and so is the chat of a request that has found it.
MessagesFit == \A msg \in bookMessages : ChatIsThere(msg.chat)
FoundFits(r) == pc[r] \in {"chatting", "saving"} => ChatIsThere(saw[r])

LEMMA MessagesFitOn ==
    ASSUME Served, BookChatsInv, MessagesFit, NEW r \in Requests, BookRagStep(r), FoundFits(r)
    PROVE  MessagesFit' /\ FoundFits(r)' /\ \A c : ChatIsThere(c) => ChatIsThere(c)'
<1>1. bookChats' = bookChats => \A c : ChatIsThere(c) <=> ChatIsThere(c)'
  BY DEF ChatIsThere
<1>2. CASE UNCHANGED ragChatVars /\ pc'[r] \notin {"chatting", "saving"}
  BY <1>1, <1>2 DEF ragChatVars, MessagesFit, FoundFits
<1>3. CASE OrCreateChat(r)
  <2> DEFINE chat == [id |-> r, user |-> call[r].who, book |-> call[r].what]
  <2>1. bookChats' = Append(bookChats, chat) /\ chat.id = r /\ bookMessages' = bookMessages
    BY <1>3 DEF OrCreateChat
  <2>2. ChatIsThere(r)' /\ \A c : ChatIsThere(c) => ChatIsThere(c)'
    <3> HIDE DEF chat
    <3> QED
      BY <2>1, ChatsAreAdded
  <2>3. pc'[r] = "chatting" => saw'[r] = r
    BY <1>3, AwaitAt DEF OrCreateChat, Leave
  <2>4. pc'[r] # "saving"
    BY <1>3, AwaitAt DEF OrCreateChat, Leave
  <2>5. QED
    BY <2>1, <2>2, <2>3, <2>4 DEF MessagesFit, FoundFits
<1>4. CASE GetChat(r)
  <2> DEFINE ids == ChatsOf(call[r].who, call[r].what)
  <2>1. UNCHANGED ragChatVars /\ pc'[r] # "saving"
    BY <1>4, AwaitAt DEF GetChat
  <2>2. pc'[r] = "chatting" => ids # {} /\ saw'[r] = bookChats[Max(ids)].id
    BY <1>4, AwaitAt DEF GetChat, LatestChat
  <2>3. ids # {} => Max(ids) \in DOMAIN bookChats
    BY LatestIsOne
  <2>4. pc'[r] = "chatting" => ChatIsThere(saw'[r])
    BY <2>2, <2>3 DEF ChatIsThere
  <2>5. QED
    BY <1>1, <2>1, <2>4 DEF ragChatVars, MessagesFit, FoundFits
<1>5. CASE AskGemini(r)
  <2>1. UNCHANGED ragChatVars /\ pc[r] = "chatting" /\ (pc'[r] = "refused" \/ saw'[r] = saw[r])
    BY <1>5, AwaitAt DEF AskGemini, Leave
  <2>2. QED
    BY <1>1, <2>1 DEF ragChatVars, MessagesFit, FoundFits
<1>6. CASE SaveExchange(r)
  <2>1. /\ bookChats' = bookChats /\ pc[r] = "saving" /\ pc'[r] \in {"done", "telling"}
        /\ \A msg \in bookMessages' : msg \in bookMessages \/ msg.chat = saw[r]
    BY <1>6, AwaitAt DEF SaveExchange, Leave
  <2>2. QED
    BY <1>1, <2>1 DEF MessagesFit, FoundFits
<1>7. CASE EmptyChat(r)
  <2>1. bookChats' = bookChats /\ pc'[r] = "done" /\ bookMessages' \subseteq bookMessages
    BY <1>7, AwaitAt DEF EmptyChat, Leave
  <2>2. QED
    BY <1>1, <2>1 DEF MessagesFit, FoundFits
<1>8. CASE SearchBookChunks(r) \/ TellDone(r) \/ Disconnect(r) \/ IndexStep(r)
  <2>1. UNCHANGED ragChatVars
    BY <1>8
       DEF SearchBookChunks, TellDone, Disconnect, IndexStep, CheckCollection, DeclareCollection,
           DeleteByBook, DeletionFails, ExtractText, EmbedChunk
  <2>2. pc'[r] \notin {"chatting", "saving"}
    BY <1>8, AwaitAt
       DEF SearchBookChunks, TellDone, Disconnect, IndexStep, CheckCollection, DeclareCollection,
           DeleteByBook, DeletionFails, ExtractText, EmbedChunk, Leave, Served
  <2>3. QED
    BY <1>2, <2>1, <2>2
<1>9. CASE EmbedRequest(r) \/ BookChatRequest(r) \/ StreamRequest(r)
  <2>1. UNCHANGED ragChatVars
    BY <1>9
       DEF EmbedRequest, DeleteEmbeddings, ReembedBook, BookChatRequest, GetMyChat, SendBookMessage,
           ClearMyChat, StreamRequest, SendBookMessageStream, Ask
  <2>2. ASSUME NEW op, NEW who, NEW what, NEW l, NEW read, Arrive(r, op, who, what, l, read)
        PROVE  pc'[r] = l
    BY <2>2 DEF Arrive, Served, WellFormed
  <2>3. pc'[r] \notin {"chatting", "saving"}
    BY <1>9, <2>2
       DEF EmbedRequest, DeleteEmbeddings, ReembedBook, BookChatRequest, GetMyChat, SendBookMessage,
           ClearMyChat, StreamRequest, SendBookMessageStream, Ask, ArriveAtWeaviate
  <2>4. QED
    BY <1>2, <2>1, <2>3
<1>10. QED
  BY <1>3, <1>4, <1>5, <1>6, <1>7, <1>8, <1>9 DEF BookRagStep, BookChatStep

\* Chunks, chats and messages are rows of their tables, in every state of the application.
THEOREM BookChatsAreRows == Spec => []RagFits
<1> DEFINE Fit == IndexFits /\ MessagesFit /\ \A r \in Requests : FoundFits(r)
<1>1. Init => Fit
  <2> SUFFICES ASSUME Init PROVE Fit
    OBVIOUS
  <2>1. /\ vectors = {} /\ collection = FALSE /\ ensured = FALSE /\ uncleared = {} /\ bookMessages = {}
        /\ \A r \in Requests : pc[r] = "idle"
    BY DEF Init, BookRagInit, ServerInit
  <2>2. QED
    BY <2>1 DEF IndexFits, MessagesFit, FoundFits
<1>2. Served /\ IndexInv /\ BookChatsInv /\ Fit /\ [Next]_appVars => Fit'
  <2> SUFFICES ASSUME Served, IndexInv, BookChatsInv, Fit, [Next]_appVars PROVE Fit'
    OBVIOUS
  <2>1. IndexFits'
    BY IndexFitsOn
  <2>2. ASSUME NEW q \in Requests, BookRagStep(q)
        PROVE  MessagesFit' /\ \A r \in Requests : FoundFits(r)'
    <3>1. MessagesFit' /\ FoundFits(q)' /\ \A c : ChatIsThere(c) => ChatIsThere(c)'
      BY <2>2, MessagesFitOn
    <3>2. \A r \in Requests \ {q} : Stays(r)
      BY <2>2, BookRagMoves DEF Moves
    <3>3. \A r \in Requests \ {q} : FoundFits(r)'
      BY <3>1, <3>2 DEF Stays, FoundFits
    <3>4. QED
      BY <3>1, <3>3
  <2>3. CASE Foreign(RagOps, RagWaits) /\ ChatsKept
    <3>1. bookMessages' = bookMessages /\ \A c : ChatIsThere(c) <=> ChatIsThere(c)'
      BY <2>3 DEF ChatsKept, ChatIsThere
    <3>2. ASSUME NEW r \in Requests
          PROVE  FoundFits(r)'
      <4>1. Stays(r) \/ pc'[r] \notin {"chatting", "saving"}
        BY <2>3 DEF Foreign, Breaks, RagWaits
      <4>2. QED
        BY <3>1, <4>1 DEF Stays, FoundFits
    <3>3. QED
      BY <2>1, <3>1, <3>2 DEF MessagesFit
  <2>4. QED
    BY <2>1, <2>2, <2>3, BookRagFrame
<1>3. BookChatsInv /\ Fit => RagFits
  BY DEF BookChatsInv, IndexFits, VectorRow, MessagesFit, FoundFits, ChatIsThere, RagFits, BookRagTypeOK
<1>4. QED
  BY <1>1, <1>2, <1>3, ServedAlways, IndexInvariant, BookChatsInvariant, PTL DEF Spec

-----------------------------------------------------------------------------
(* Types: all of them. *)

\* Every request is where the code can suspend or end it, and every table holds
\* rows of its kind that refer to rows that are there.
THEOREM TypesAreOK == Spec => []TypeOK
<1>1. /\ ServerTypeOK /\ pc \in [Requests -> {"idle"} \cup Rest \cup UNION OwnWaits]
      /\ AccountsFit /\ PushFits /\ AiFits /\ CatalogueTypeOK /\ LessonsFit /\ RagFits
      => TypeOK
  BY DEF AccountsFit, PushFits, AiFits, LessonsFit, RagFits, TypeOK
<1>2. QED
  BY <1>1, RequestsAreTyped, AccountsAreRows, NotesAreToUsers, ChatsAreRows, TablesAreTyped,
     ProgressIsRows, BookChatsAreRows, PTL
=============================================================================
