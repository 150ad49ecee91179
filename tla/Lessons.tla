------------------------------ MODULE Lessons ------------------------------
(* lesson.service.ts for the people who learn: what they are shown of a lesson,
   and how far they have come in it. *)
EXTENDS Catalogue, Users

CONSTANT Members        \* users with a live subscription at the start

ASSUME LessonsAssumption == Members \subseteq Seeded

VARIABLES subscribed,   \* users with a live subscription
          progress,     \* LessonProgress rows by <<user, lesson>>: [last, completed, by]
          lapsed        \* history: requests in flight when their user's subscription ended

lessonVars == <<subscribed, progress, lapsed>>

LessonsInit == subscribed = Members /\ progress = <<>> /\ lapsed = {}

Blocks(lesson) ==
    {[id |-> b, data |-> rows[b].data] : b \in {c \in Under(lesson) : rows[c].kind = "lessonBlock"}}

\* Mutant: administrators pay too.
HasSubscription(u) == u \in subscribed
HasPaidAccess(u) == users[u].admin \/ u \in subscribed

\* The blocks of a lesson that are shown with their contents.
Open(free, paid, blocks) == {b \in blocks : paid \/ free \/ b.data.free}

\* The lesson and its blocks are read before the user's role and subscription.
FindOneLesson(r, u, lesson) ==
    /\ lesson \in Ids("lesson")
    /\ Arrive(r, "findOneLesson", u, lesson, "gating",
              [free |-> rows[lesson].data, blocks |-> Blocks(lesson)])
    /\ UNCHANGED lessonVars

ShowBlocks(r) ==
    /\ pc[r] = "gating"
    /\ Await(r, "showing", Open(saw[r].free, HasPaidAccess(call[r].who), saw[r].blocks))
    /\ UNCHANGED lessonVars

\* Media are signed, then the answer is sent.
SendLesson(r) ==
    /\ pc[r] = "showing"
    /\ Leave(r, "done")
    /\ UNCHANGED lessonVars

UpdateMyProgress(r, u, lesson, last) ==
    /\ HasPaidAccess(u)
    /\ Arrive(r, "updateMyProgress", u, [lesson |-> lesson, last |-> last], "scoring", Nothing)
    /\ UNCHANGED lessonVars

IsCompleted(lesson, last) ==
    LET orders == {b.data.order : b \in Blocks(lesson)} IN orders # {} /\ \A o \in orders : o <= last

\* Mutant: a lesson without blocks is complete.
ScoreEmptyLesson(r) ==
    /\ pc[r] = "scoring"
    /\ call[r].what.lesson \in Ids("lesson")
    /\ Await(r, "recording", \A b \in Blocks(call[r].what.lesson) : b.data.order <= call[r].what.last)
    /\ UNCHANGED lessonVars

\* The lesson is complete when the client is at its last block as it is now.
ScoreProgress(r) ==
    LET lesson == call[r].what.lesson IN
    /\ pc[r] = "scoring"
    /\ IF lesson \in Ids("lesson")
       THEN Await(r, "recording", IsCompleted(lesson, call[r].what.last))
       ELSE Leave(r, "refused")
    /\ UNCHANGED lessonVars

\* Whatever the row says: the last update to be written wins.
RecordProgress(r) ==
    LET key == <<call[r].who, call[r].what.lesson>> IN
    /\ pc[r] = "recording"
    /\ IF call[r].what.lesson \in Ids("lesson")
       THEN /\ progress' = [k \in DOMAIN progress \cup {key} |->
                               IF k = key THEN [last |-> call[r].what.last, completed |-> saw[r], by |-> r]
                                          ELSE progress[k]]
            /\ Leave(r, "done")
       ELSE Leave(r, "conflict") /\ UNCHANGED progress
    /\ UNCHANGED <<subscribed, lapsed>>

\* What the checkout does in the end.
Subscribe(r, u) ==
    /\ Arrive(r, "subscribe", u, Nothing, "done", Nothing)
    /\ subscribed' = subscribed \cup {u}
    /\ UNCHANGED <<progress, lapsed>>

Lesson(r)         == \E u \in Seeded, l \in Ids("lesson") : FindOneLesson(r, u, l)
LessonProgress(r) == \E u \in Seeded, l \in Ids("lesson"), last \in {1, 2} : UpdateMyProgress(r, u, l, last)

LessonsStep(r) ==
    /\ \/ IsNext(r) /\ (Lesson(r) \/ LessonProgress(r) \/ \E u \in Seeded : Subscribe(r, u))
       \/ ShowBlocks(r)
       \/ SendLesson(r)
       \/ ScoreProgress(r)
       \/ RecordProgress(r)
    /\ UNCHANGED <<rows, userVars>>

\* endDate passes. It matters to those who look at lessons.
Lapse(u) ==
    /\ u \in subscribed
    /\ \E r \in InFlight : call[r].op \in {"findOneLesson", "updateMyProgress"} /\ call[r].who = u
    /\ subscribed' = subscribed \ {u}
    /\ lapsed' = lapsed \cup {r \in InFlight : call[r].who = u}
    /\ UNCHANGED <<serverVars, rows, userVars, progress>>

\* The progress in a lesson goes with it.
Cascade ==
    LET kept == {k \in DOMAIN progress : k[2] \in Ids("lesson")'} IN
    /\ progress' = [k \in kept |-> progress[k]]
    /\ UNCHANGED <<subscribed, lapsed>>

LessonsTypeOK ==
    /\ subscribed \subseteq Seeded
    /\ DOMAIN progress \subseteq Seeded \X Ids("lesson")
    /\ progress \in [DOMAIN progress -> [last : {1, 2}, completed : BOOLEAN, by : Requests]]
    /\ lapsed \subseteq Requests

BlockEdits == {"createBlock", "updateBlock", "removeBlock"}
Edits      == BlockEdits \cup {"updateLesson", "removeLesson", "adminUpdate", "subscribe"}

\* Somebody edits while r is in flight.
Edited(r) == \E q \in Requests : call[q].op \in Edits /\ Overlap(q, r)

\* Blocks have been edited since r began.
BlocksEdited(r) == \E q \in Begun : call[q].op \in BlockEdits /\ q \notin before[r]

\* A user is shown exactly the blocks that are free or paid for, unless a
\* lesson, a block, the user's role or subscription changes while the answer
\* is put together from three queries (lesson.service.ts 196-255).
ShownIsOpen ==
    \A r \in Requests : pc[r] = "showing" =>
        \/ r \in lapsed
        \/ Edited(r)
        \/ LET u == call[r].who l == call[r].what IN
           saw[r] = {b \in Blocks(l) : b.data.free \/ rows[l].data \/ users[u].admin \/ u \in subscribed}

\* isCompleted says what a comparison of the stored position with the lesson's
\* blocks would say, unless blocks have been edited since the update that
\* wrote it began (lesson.service.ts 329-349).
CompletionExplained ==
    \A k \in DOMAIN progress :
        \/ progress[k].completed = IsCompleted(k[2], progress[k].last)
        \/ BlocksEdited(progress[k].by)

-----------------------------------------------------------------------------
(* The inductive invariant behind these two. *)

SeededStay == \A u \in Seeded : u \in DOMAIN users /\ users[u] \in Profile

\* Lessons and blocks that are there are written by those who edit them.
EditsAreNamed ==
    \A r \in Requests :
        /\ pc[r] \in {"inserting", "updating", "erasing"} /\ call[r].what.kind = "lessonBlock"
              => call[r].op \in BlockEdits
        /\ pc[r] \in {"updating", "erasing"} /\ call[r].what.kind = "lesson" => call[r].op \in Edits

\* What has been read of a lesson is so still, unless it was edited.
LessonAsRead ==
    \A r \in Requests : pc[r] \in {"gating", "showing"} =>
        LET l == call[r].what IN
        /\ call[r].who \in Seeded
        /\ \/ /\ l \in Ids("lesson")
              /\ pc[r] = "gating" => saw[r] = [free |-> rows[l].data, blocks |-> Blocks(l)]
           \/ Edited(r)

\* A verdict on a lesson that is still there is right, unless its blocks were
\* edited; a lesson that is gone does not come back.
ScoreAsRead ==
    /\ \A r \in Requests : pc[r] \in {"scoring", "recording"} =>
          LET l == call[r].what.lesson IN
          /\ l \in Requests => pc[l] = "done"
          /\ pc[r] = "recording" /\ l \in Ids("lesson") =>
                saw[r] = IsCompleted(l, call[r].what.last) \/ BlocksEdited(r)
    /\ \A k \in DOMAIN progress : k[2] \in Ids("lesson") /\ progress[k].by \in Ended

LessonsInv ==
    /\ SeededStay /\ EditsAreNamed /\ LessonAsRead /\ ShownIsOpen
    /\ ScoreAsRead /\ CompletionExplained

(* And the one behind the types of progress and subscriptions. *)

LessonsFit ==
    /\ LessonsTypeOK
    /\ \A r \in Requests :
          /\ pc[r] \in {"scoring", "recording"} =>
                call[r].who \in Seeded /\ call[r].what.last \in {1, 2}
          /\ pc[r] = "recording" => saw[r] \in BOOLEAN
=============================================================================
