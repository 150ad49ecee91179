---------------------------- MODULE Application ----------------------------
(* The process that serves the requests of all these components at once, over
   one database; Checkout, Renewal, Cards and Legal have models of their own. *)
EXTENDS Auth, AiChat, Lessons, BookRag

appVars == <<serverVars, userVars, authVars, pushVars, aiVars, rows, lessonVars,
             indexVars, ragChatVars>>

Init ==
    /\ ServerInit /\ UsersInit /\ AuthInit /\ PushInit /\ AiInit
    /\ CatalogueInit /\ LessonsInit /\ BookRagInit

\* A step of a component leaves the state of the others alone.
Handle(r) ==
    \/ UsersStep(r) /\ UNCHANGED <<authVars, pushVars, aiVars, rows, lessonVars, indexVars, ragChatVars>>
    \/ AuthStep(r) /\ UNCHANGED <<pushVars, aiVars, rows, lessonVars, indexVars, ragChatVars>>
    \/ PushStep(r) /\ UNCHANGED <<authVars, aiVars, rows, lessonVars, indexVars, ragChatVars>>
    \/ AiStep(r) /\ UNCHANGED <<authVars, rows, lessonVars, indexVars, ragChatVars>>
    \/ CatalogueStep(r) /\ Cascade /\ UNCHANGED <<userVars, authVars, pushVars, aiVars, indexVars, ragChatVars>>
    \/ LessonsStep(r) /\ UNCHANGED <<authVars, pushVars, aiVars, indexVars, ragChatVars>>
    \/ BookRagStep(r) /\ UNCHANGED <<userVars, authVars, pushVars, aiVars, lessonVars>>

NoTableChanges ==
    UNCHANGED <<userVars, authVars, pushVars, aiVars, rows, lessonVars, indexVars, ragChatVars>>

\* Every request in flight ends where it is, and what was in memory is lost.
Crash ==
    /\ CanFail /\ InFlight # {}
    /\ pc' = [r \in Requests |-> IF r \in InFlight THEN "failed" ELSE pc[r]]
    /\ saw' = [r \in Requests |-> Nothing]
    /\ removals' = {}
    /\ ensured' = FALSE
    /\ UNCHANGED <<mix, call, before, users, avatar, objects, authVars, pushVars, aiVars, rows, lessonVars,
                   vectors, collection, uncleared, ragChatVars>>

\* Time passes, and what was sent and not awaited arrives.
Pass ==
    \/ \E o \in removals : RemoveObject(o) /\ UNCHANGED <<authVars, pushVars, aiVars, rows, lessonVars,
                                                         indexVars, ragChatVars>>
    \/ CodesAge /\ UNCHANGED <<pushVars, aiVars, rows, lessonVars, indexVars, ragChatVars>>
    \/ \E u \in AiUsers : IdleHour(u) /\ UNCHANGED <<authVars, rows, lessonVars, indexVars, ragChatVars>>
    \/ \E u \in Seeded : Lapse(u) /\ UNCHANGED <<authVars, pushVars, aiVars, indexVars, ragChatVars>>

Next ==
    \/ \E r \in InFlight \cup {s \in Requests : IsNext(s)} :
          \/ Handle(r)
          \/ CloseListing(r) /\ NoTableChanges
          \/ Abort(r) /\ NoTableChanges
    \/ Crash
    \/ Pass

Spec == Init /\ [][Next]_appVars

-----------------------------------------------------------------------------
(* Where a request can be: at an await of the component that serves it, or at
   one where it no longer does anything by itself. *)

UserWaits == {"uploading", "storing", "clearing"}
AuthWaits == {"hashing", "texting", "marking", "sweeping", "identifying", "verifying",
              "linking", "creating", "issuing", "exchanging"}
PushWaits == {"removing", "collecting", "noting", "pushing", "paging"}
AiWaits   == {"counting", "asking", "consulting", "replying", "touching", "deleting"}
CatalogueWaits == {"inserting", "updating", "erasing", "turning"}
LessonWaits == {"gating", "showing", "scoring", "recording"}
RagWaits == {"checking", "declaring", "wiping", "extracting", "embedding", "searching",
             "finding", "opening", "chatting", "saving", "telling", "emptying"}

Rest     == Verdicts \cup {"listed"}
OwnWaits == {UserWaits, AuthWaits, PushWaits, AiWaits, CatalogueWaits, LessonWaits, RagWaits}

\* Requests are at places where the code can suspend or end them, and every table
\* holds rows of its own kind that refer to rows that are there.
TypeOK ==
    /\ pc \in [Requests -> {"idle"} \cup Rest \cup UNION OwnWaits]
    /\ ServerTypeOK /\ UsersTypeOK /\ AuthTypeOK /\ PushTypeOK /\ AiTypeOK
    /\ CatalogueTypeOK /\ LessonsTypeOK /\ BookRagTypeOK

\* Another request was in flight together with r.
Met(r) == \E q \in Requests : Overlap(q, r)

\* A request that has passed its checks fails on a row that another one took
\* or removed only if the two were in flight together: no handler, whatever
\* ran before it, writes on what has been gone or taken since before it began
\* (auth.service.ts 109-113, lesson.service.ts 257-273 and their likes).
ConflictsNeedOverlap == \A r \in Requests : pc[r] = "conflict" => Met(r)

-----------------------------------------------------------------------------
(* The inductive invariant behind ConflictsNeedOverlap. *)

\* What the next query of r relies on is there, or is not there yet.
Ready(r) ==
    LET u    == call[r].who
        what == call[r].what
    IN /\ pc[r] # "conflict"
       /\ pc[r] = "creating"   => ~Exists(u)
       /\ pc[r] = "exchanging" => saw[r] \in DOMAIN sessions
       /\ pc[r] = "removing"   => what \in DOMAIN devices /\ devices[what].id = saw[r]
       /\ pc[r] \in {"counting", "asking", "consulting", "replying", "touching", "deleting"} =>
             what \in DOMAIN chats
       /\ pc[r] = "counting"   => IF saw[r] = Nothing THEN u \notin DOMAIN limits
                                  ELSE u \in DOMAIN limits /\ limits[u].id = saw[r].id
       /\ pc[r] = "inserting"  => Fits(what.kind, what.under)
       /\ pc[r] \in {"updating", "erasing"} => what.id \in Ids(what.kind)
       /\ pc[r] = "updating"   => what.under = Nothing \/ Fits(what.kind, what.under)
       /\ pc[r] = "recording"  => what.lesson \in Ids("lesson")
       /\ pc[r] = "declaring"  => ~collection

\* A request meets another one, or finds what it relies on.
AloneIsReady == \A r \in Requests : Met(r) \/ Ready(r)
=============================================================================
