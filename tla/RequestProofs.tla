--------------------------- MODULE RequestProofs ---------------------------
(***************************************************************************)
(* What the proofs about Application share: how a step changes the state   *)
(* of the requests, whichever component it belongs to.  A component has    *)
(* operations and awaits of its own; its steps begin or resume one request *)
(* there, and everything else leaves its requests alone, ends them, or     *)
(* begins and resumes requests elsewhere.                                  *)
(***************************************************************************)
EXTENDS Application, FiniteSetTheorems, BoundedSets, TLAPS

UserOps   == {"adminUpdate", "adminSoftDelete", "updateMe", "uploadAvatar", "deleteAvatar"}

AuthOps   == {"phoneRequestOtp", "refresh", "logout"} \cup Logins

PushOps   == {"registerDevice", "removeDevice", "sendToUser", "sendToMany", "broadcast",
              "adminSendToUser", "adminSendToMany", "adminBroadcast", "listMy", "listUnread",
              "markRead", "markAllRead"}

AiOps     == {"createChat", "sendMessage", "deleteChat", "resetRateLimits"}

CatalogueOps == {"createAgeCategory", "updateAgeCategory", "removeAgeCategory",
    "createTrainingCategory", "updateTrainingCategory", "removeTrainingCategory",
    "findAllTrainingCategories", "createLesson", "updateLesson", "removeLesson",
    "findAllLessons", "createBlock", "updateBlock", "removeBlock", "createCategory",
    "updateCategory", "deleteCategory", "createBook", "updateBook", "deleteBook",
    "findAllBooks", "createMasterclassCategory", "updateMasterclassCategory",
    "removeMasterclassCategory", "findAllMasterclassCategories", "createMasterclass",
    "updateMasterclass", "removeMasterclass", "findAllMasterclasses",
    "createMasterclassBlock", "updateMasterclassBlock", "removeMasterclassBlock",
    "createPlan", "updatePlan", "softDeletePlan"}

LessonOps   == {"findOneLesson", "updateMyProgress", "subscribe"}

RagOps   == {"reembedBook", "deleteEmbeddings", "getMyChat", "bookSendMessage",
             "bookSendMessageStream", "clearMyChat"}

-----------------------------------------------------------------------------
(* One request in one step. *)

Stays(r) ==
    pc'[r] = pc[r] /\ call'[r] = call[r] /\ saw'[r] = saw[r] /\ before'[r] = before[r]

Begins(r, ops, waits) ==
    /\ pc[r] = "idle" /\ pc'[r] \in waits \cup Rest
    /\ call'[r].op \in ops /\ before'[r] = Ended

Runs(r, waits) ==
    /\ pc[r] \in waits /\ pc'[r] \in waits \cup Rest
    /\ call'[r] = call[r] /\ before'[r] = before[r]

\* The verdict of a failure, or of a client that turned its pages.
Breaks(r) ==
    /\ r \in InFlight /\ saw'[r] = Nothing
    /\ \/ pc'[r] = "failed"
       \/ pc[r] = "listed" /\ pc'[r] = "done"
    /\ call'[r] = call[r] /\ before'[r] = before[r]

WellFormed ==
    /\ mix \in Traffic
    /\ pc = [r \in Requests |-> pc[r]] /\ before \in [Requests -> SUBSET Requests]
    /\ call = [r \in Requests |-> call[r]] /\ saw = [r \in Requests |-> saw[r]]

\* A component lets r begin or run on.
Moves(r, ops, waits) ==
    /\ WellFormed'
    /\ Begins(r, ops, waits) \/ Runs(r, waits)
    /\ pc'[r] \in Verdicts => saw'[r] = Nothing
    /\ \A s \in Requests \ {r} : Stays(s)

\* No step of the component with these operations and awaits.
Foreign(ops, waits) ==
    /\ WellFormed'
    /\ \A r \in Requests :
          \/ Stays(r)
          \/ Breaks(r)
          \/ /\ pc[r] = "idle" /\ pc'[r] \notin waits \cup {"idle"}
             /\ call'[r].op \notin ops /\ before'[r] = Ended
          \/ /\ r \in InFlight /\ pc[r] \notin waits \cup Rest
             /\ pc'[r] \notin waits \cup {"idle"}
             /\ call'[r] = call[r] /\ before'[r] = before[r]

\* What holds of requests at all times: history names ended requests, and a
\* book request that sees to the collection first knows where to go then.
Served ==
    /\ WellFormed
    /\ \A r \in Requests : pc[r] = "idle" => call[r] = NoCall /\ before[r] = {}
    /\ \A r \in Requests : pc[r] \in Verdicts \cup {"idle"} => saw[r] = Nothing
    /\ \A r \in Requests : \A s \in before[r] : pc[s] \in Verdicts
    /\ \A r \in Requests : pc[r] \in {"checking", "declaring"} => saw[r] \in {"wiping", "searching"}

\* A request that arrives and stops at one of the component's awaits, or ends.
LEMMA ArriveMoves ==
    ASSUME Served, NEW r \in Requests, pc[r] = "idle", NEW ops, NEW waits,
           NEW op \in ops, NEW who, NEW what, NEW l \in waits \cup Rest, NEW read,
           Arrive(r, op, who, what, l, read)
    PROVE  Moves(r, ops, waits)
<1>1. /\ mix \in Traffic /\ mix' = mix
      /\ pc = [s \in Requests |-> pc[s]] /\ before \in [Requests -> SUBSET Requests]
      /\ call = [s \in Requests |-> call[s]] /\ saw = [s \in Requests |-> saw[s]]
  BY DEF Served, WellFormed, Arrive
<1>2. call' = [call EXCEPT ![r] = [op |-> op, who |-> who, what |-> what]]
  BY DEF Arrive
<1>3. call' = [s \in Requests |-> call'[s]] /\ call'[r].op = op
      /\ \A s \in Requests \ {r} : call'[s] = call[s]
  BY <1>1, <1>2
<1>4. PICK x : saw' = [saw EXCEPT ![r] = x] /\ (l \in Verdicts => x = Nothing)
  BY DEF Arrive
<1>5. saw' = [s \in Requests |-> saw'[s]] /\ saw'[r] = x
      /\ \A s \in Requests \ {r} : saw'[s] = saw[s]
  BY <1>1, <1>4
<1>6. pc' = [pc EXCEPT ![r] = l] /\ before' = [before EXCEPT ![r] = Ended]
  BY DEF Arrive
<1>7. Ended \in SUBSET Requests
  BY DEF Ended
<1>8. QED
  BY <1>1, <1>3, <1>4, <1>5, <1>6, <1>7 DEF WellFormed, Moves, Begins, Stays

\* A request that is resumed at one of the component's awaits and stops at
\* another, or ends.
LEMMA AwaitMoves ==
    ASSUME Served, NEW r \in Requests, NEW ops, NEW waits, pc[r] \in waits,
           NEW l \in waits \cup Rest, NEW read, l \in Verdicts => read = Nothing,
           Await(r, l, read)
    PROVE  Moves(r, ops, waits)
<1>1. /\ mix \in Traffic /\ UNCHANGED <<mix, call, before>>
      /\ pc = [s \in Requests |-> pc[s]] /\ before \in [Requests -> SUBSET Requests]
      /\ call = [s \in Requests |-> call[s]] /\ saw = [s \in Requests |-> saw[s]]
      /\ pc' = [pc EXCEPT ![r] = l] /\ saw' = [saw EXCEPT ![r] = read]
  BY DEF Served, WellFormed, Await
<1>2. saw' = [s \in Requests |-> saw'[s]] /\ saw'[r] = read
      /\ \A s \in Requests \ {r} : saw'[s] = saw[s]
  BY <1>1
<1>3. WellFormed'
  BY <1>1, <1>2 DEF WellFormed
<1>4. QED
  BY <1>1, <1>2, <1>3 DEF Moves, Runs, Stays

\* Where the two put a request, and that they leave the others alone.
LEMMA ArriveAt ==
    ASSUME Served, NEW r \in Requests, NEW op, NEW who, NEW what, NEW l, NEW read,
           Arrive(r, op, who, what, l, read)
    PROVE  /\ pc'[r] = l /\ call'[r] = [op |-> op, who |-> who, what |-> what]
           /\ saw'[r] = IF l \in Verdicts THEN Nothing ELSE read
           /\ before'[r] = Ended
           /\ \A s \in Requests \ {r} : Stays(s)
BY DEF Arrive, Served, WellFormed, Stays

LEMMA AwaitAt ==
    ASSUME Served, NEW r \in Requests, NEW l, NEW read, Await(r, l, read)
    PROVE  /\ pc'[r] = l /\ saw'[r] = read /\ call' = call /\ before' = before
           /\ \A s \in Requests \ {r} : Stays(s)
BY DEF Await, Served, WellFormed, Stays

\* UsersService (users.service.ts): one lemma per component says that its steps are moves of its own.
LEMMA UsersMoves ==
    ASSUME Served, NEW r \in Requests, UsersStep(r)
    PROVE  Moves(r, UserOps, UserWaits)
<1>1. CASE IsNext(r) /\ UsersRequest(r)
  BY <1>1, ArriveMoves
     DEF IsNext, UsersRequest, AdminUpdate, AdminSoftDelete, UpdateMe, UploadAvatar,
         DeleteAvatar, UserOps, UserWaits, Rest, Verdicts
<1>2. CASE PutObject(r) \/ StoreAvatar(r) \/ ClearAvatar(r)
  BY <1>2, AwaitMoves
     DEF PutObject, StoreAvatar, ClearAvatar, Leave, UserOps, UserWaits, Rest, Verdicts
<1>3. QED
  BY <1>1, <1>2 DEF UsersStep

\* The logins, codes and sessions (auth.service.ts, otp.service.ts).
LEMMA AuthMoves ==
    ASSUME Served, NEW r \in Requests, AuthStep(r)
    PROVE  Moves(r, AuthOps, AuthWaits)
<1>1. CASE IsNext(r) /\ AuthRequest(r)
  BY <1>1, ArriveMoves
     DEF IsNext, AuthRequest, PhoneRequestOtp, PhoneVerifyOtp, EmailRegister, EmailLogin,
         GoogleAuth, Logout, Refresh, AuthOps, Logins, AuthWaits, Rest, Verdicts
<1>2. CASE IsNext(r) /\ AdminAuthRequest(r)
  BY <1>2, ArriveMoves
     DEF IsNext, AdminAuthRequest, AdminLogin, AdminGoogleAuth, AuthOps, Logins, AuthWaits,
         Rest, Verdicts
<1>3. CASE IdentityStep(r)
  BY <1>3, AwaitMoves
     DEF IdentityStep, FindByPhone, VerifyUser, LinkGoogle, CreateUser, Leave, AuthWaits,
         Rest, Verdicts
<1>4. CASE RowsStep(r)
  BY <1>4, AwaitMoves
     DEF RowsStep, StoreOtp, SendSms, MarkCode, MarkOthers, IssueTokens, ExchangeSession,
         Leave, AuthWaits, Rest, Verdicts
<1>5. QED
  BY <1>1, <1>2, <1>3, <1>4 DEF AuthStep

\* Devices, sends and the inbox (notification.service.ts).
LEMMA PushMoves ==
    ASSUME Served, NEW r \in Requests, PushStep(r)
    PROVE  Moves(r, PushOps, PushWaits)
<1>1. CASE IsNext(r) /\ (DeviceRequest(r) \/ AdminSendRequest(r))
  BY <1>1, ArriveMoves
     DEF IsNext, DeviceRequest, RegisterDevice, RemoveDeviceById, AdminSendRequest,
         AdminSendToUser, AdminSendToMany, AdminBroadcast, Send, PushOps, PushWaits, Rest,
         Verdicts
<1>2. CASE IsNext(r) /\ (SendRequest(r) \/ InboxRequest(r))
  BY <1>2, ArriveMoves
     DEF IsNext, SendRequest, SendToUser, SendToMany, Broadcast, Send, InboxRequest, ListMy,
         After, MarkRead, MarkAllRead, PushOps, PushWaits, Rest, Verdicts
<1>3. CASE RemoveDevice(r) \/ CollectDevices(r) \/ StoreNotes(r) \/ SendMulticast(r) \/ NextPage(r)
  BY <1>3, AwaitMoves
     DEF RemoveDevice, CollectDevices, StoreNotes, SendMulticast, NextPage, After, Leave,
         PushWaits, Rest, Verdicts
<1>4. QED
  BY <1>1, <1>2, <1>3 DEF PushStep

\* Chats, the request limit and messages (ai-chat.service.ts).
LEMMA AiMoves ==
    ASSUME Served, NEW r \in Requests, AiStep(r)
    PROVE  Moves(r, AiOps, AiWaits)
<1>1. CASE IsNext(r) /\ (ChatRequest(r) \/ ResetRateLimits(r))
  BY <1>1, ArriveMoves
     DEF IsNext, ChatRequest, CreateChat, SendMessage, DeleteChat, ResetRateLimits, AiOps,
         AiWaits, Rest, Verdicts
<1>2. CASE CountRequest(r) \/ CountConflicts(r) \/ StoreQuestion(r) \/ AskOpenAI(r)
  BY <1>2, AwaitMoves
     DEF CountRequest, CountConflicts, StoreQuestion, StoreMessage, Gone, AskOpenAI, Leave,
         AiWaits, Rest, Verdicts
<1>3. CASE StoreReply(r) \/ TouchChat(r) \/ DropChat(r)
  BY <1>3, AwaitMoves
     DEF StoreReply, StoreMessage, Gone, TouchChat, DropChat, Leave,
         AiWaits, Rest, Verdicts
<1>4. QED
  BY <1>1, <1>2, <1>3 DEF AiStep, ChatStep

\* The administrators' tables and their lists (the catalogue services).
LEMMA CatalogueMoves ==
    ASSUME Served, NEW r \in Requests, CatalogueStep(r)
    PROVE  Moves(r, CatalogueOps, CatalogueWaits)
<1>1. ASSUME NEW op \in CatalogueOps, NEW kind, pc[r] = "idle",
             \/ CreateIn(r, op, kind) \/ UpdateIn(r, op, kind)
             \/ RemoveFrom(r, op, kind) \/ ListOf(r, op, kind)
      PROVE  Moves(r, CatalogueOps, CatalogueWaits)
  BY <1>1, ArriveMoves
     DEF CreateIn, UpdateIn, RemoveFrom, ListOf, NextWait, CatalogueWaits, Rest
<1>2. CASE IsNext(r) /\ (AgeCategoryAdmin(r) \/ TrainingCategoryAdmin(r) \/ TrainingCategories(r))
  BY <1>1, <1>2
     DEF IsNext, AgeCategoryAdmin, CreateAgeCategory, UpdateAgeCategory, RemoveAgeCategory,
         TrainingCategoryAdmin, CreateTrainingCategory, UpdateTrainingCategory,
         RemoveTrainingCategory, TrainingCategories, FindAllTrainingCategories, CatalogueOps
<1>3. CASE IsNext(r) /\ (LessonAdmin(r) \/ LessonList(r) \/ LessonBlockAdmin(r))
  BY <1>1, <1>3
     DEF IsNext, LessonAdmin, CreateLesson, UpdateLesson, RemoveLesson, LessonList,
         FindAllLessons, LessonBlockAdmin, CreateLessonBlock, UpdateLessonBlock,
         RemoveLessonBlock, CatalogueOps
<1>4. CASE IsNext(r) /\ Books(r)
  BY <1>1, <1>4
     DEF IsNext, Books, CreateBookCategory, UpdateBookCategory, DeleteBookCategory,
         FindAllBooks, CreateBook, UpdateBook, DeleteBook, CatalogueOps
<1>5. CASE IsNext(r) /\ (MasterclassCategoryAdmin(r) \/ MasterclassCategories(r))
  BY <1>1, <1>5
     DEF IsNext, MasterclassCategoryAdmin, CreateMasterclassCategory,
         UpdateMasterclassCategory, RemoveMasterclassCategory, MasterclassCategories,
         FindAllMasterclassCategories, CatalogueOps
<1>6. CASE IsNext(r) /\ (MasterclassAdmin(r) \/ Masterclasses(r) \/ MasterclassBlockAdmin(r))
  BY <1>1, <1>6
     DEF IsNext, MasterclassAdmin, CreateMasterclass, UpdateMasterclass, RemoveMasterclass,
         Masterclasses, FindAllMasterclasses, MasterclassBlockAdmin, CreateMasterclassBlock,
         UpdateMasterclassBlock, RemoveMasterclassBlock, CatalogueOps
<1>7. CASE IsNext(r) /\ (CreatePlan(r) \/ UpdatePlan(r))
  BY <1>1, <1>7 DEF IsNext, CreatePlan, UpdatePlan, CatalogueOps
<1>8. CASE IsNext(r) /\ SoftDeletePlan(r)
  BY <1>8, ArriveMoves DEF IsNext, SoftDeletePlan, CatalogueOps, CatalogueWaits, Rest
<1>9. CASE InsertRow(r) \/ UpdateRow(r) \/ EraseRow(r) \/ TurnPage(r)
  BY <1>9, AwaitMoves
     DEF InsertRow, UpdateRow, EraseRow, TurnPage, NextWait, Leave, CatalogueWaits, Rest,
         Verdicts
<1>10. QED
  BY <1>2, <1>3, <1>4, <1>5, <1>6, <1>7, <1>8, <1>9 DEF CatalogueStep, CatalogueRequest, Plans

\* Lessons as they are shown, and progress (lesson.service.ts).
LEMMA LessonsMoves ==
    ASSUME Served, NEW r \in Requests, LessonsStep(r)
    PROVE  Moves(r, LessonOps, LessonWaits)
<1>1. CASE IsNext(r) /\ (Lesson(r) \/ LessonProgress(r) \/ \E u \in Seeded : Subscribe(r, u))
  BY <1>1, ArriveMoves
     DEF IsNext, Lesson, FindOneLesson, LessonProgress, UpdateMyProgress, Subscribe,
         LessonOps, LessonWaits, Rest, Verdicts
<1>2. CASE ShowBlocks(r) \/ SendLesson(r) \/ ScoreProgress(r) \/ RecordProgress(r)
  BY <1>2, AwaitMoves
     DEF ShowBlocks, SendLesson, ScoreProgress, RecordProgress, Leave, LessonWaits, Rest,
         Verdicts
<1>3. QED
  BY <1>1, <1>2 DEF LessonsStep

\* The index and the chats about books (book-rag.service.ts).
LEMMA BookRagMoves ==
    ASSUME Served, NEW r \in Requests, BookRagStep(r)
    PROVE  Moves(r, RagOps, RagWaits)
<1>1. CASE IsNext(r) /\ (EmbedRequest(r) \/ BookChatRequest(r) \/ StreamRequest(r))
  BY <1>1, ArriveMoves
     DEF IsNext, EmbedRequest, DeleteEmbeddings, ReembedBook, BookChatRequest, GetMyChat,
         SendBookMessage, ClearMyChat, StreamRequest, SendBookMessageStream, Ask,
         ArriveAtWeaviate, RagOps, RagWaits, Rest, Verdicts
<1>2. CASE CheckCollection(r) \/ DeclareCollection(r)
  BY <1>2, AwaitMoves
     DEF Served, CheckCollection, DeclareCollection, Leave, RagWaits, Rest, Verdicts
<1>3. CASE DeleteByBook(r) \/ DeletionFails(r) \/ ExtractText(r) \/ EmbedChunk(r)
  BY <1>3, AwaitMoves
     DEF DeleteByBook, DeletionFails, ExtractText, EmbedChunk, Leave, RagWaits, Rest, Verdicts
<1>4. CASE BookChatStep(r)
  BY <1>4, AwaitMoves
     DEF BookChatStep, SearchBookChunks, GetChat, OrCreateChat, AskGemini, SaveExchange,
         TellDone, Disconnect, EmptyChat, Leave, RagWaits, Rest, Verdicts
<1>5. QED
  BY <1>1, <1>2, <1>3, <1>4 DEF BookRagStep, IndexStep

-----------------------------------------------------------------------------
(* Every step of the application. *)

\* No request begins or runs on.
Halts == WellFormed' /\ \A r \in Requests : Stays(r) \/ Breaks(r)

\* The bucket, the codes, the hour and the subscriptions take their time; a
\* query or the process fails; a client closes its listing.
LEMMA OthersHalt ==
    ASSUME Served,
           \/ Pass \/ Crash \/ UNCHANGED appVars
           \/ \E r \in Requests : CloseListing(r) \/ Abort(r)
    PROVE  Halts
<1>1. CASE Pass \/ UNCHANGED appVars
  <2>1. UNCHANGED serverVars
    BY <1>1 DEF Pass, RemoveObject, CodesAge, IdleHour, Lapse, appVars
  <2>2. QED
    BY <2>1 DEF serverVars, Served, WellFormed, Halts, Stays
<1>2. CASE Crash
  <2>1. /\ UNCHANGED <<mix, call, before>>
        /\ pc' = [r \in Requests |-> IF r \in InFlight THEN "failed" ELSE pc[r]]
        /\ saw' = [r \in Requests |-> Nothing]
    BY <1>2 DEF Crash
  <2>2. WellFormed'
    BY <2>1 DEF Served, WellFormed
  <2>3. ASSUME NEW r \in Requests PROVE Stays(r) \/ Breaks(r)
    <3>1. CASE r \in InFlight
      BY <2>1, <3>1 DEF Breaks, Verdicts
    <3>2. CASE r \notin InFlight
      BY <2>1, <3>2 DEF Stays, Served, InFlight, Begun, Ended
    <3>3. QED
      BY <3>1, <3>2
  <2>4. QED
    BY <2>2, <2>3 DEF Halts
<1>3. ASSUME NEW r \in Requests, CloseListing(r) \/ Abort(r)
      PROVE  Halts
  <2>1. PICK v \in {"done", "failed"} :
          Await(r, v, Nothing) /\ (v = "done" => pc[r] = "listed")
    BY <1>3 DEF CloseListing, Abort, Leave
  <2>2. r \in InFlight
    BY <1>3 DEF CloseListing, Abort, InFlight, Begun, Ended, Verdicts
  <2>3. WellFormed'
    BY <2>1 DEF Served, WellFormed, Await
  <2>4. Breaks(r) /\ \A s \in Requests \ {r} : Stays(s)
    BY <2>1, <2>2, AwaitAt DEF Breaks
  <2>5. QED
    BY <2>3, <2>4 DEF Halts
<1>4. QED
  BY <1>1, <1>2, <1>3

\* A step of the application is one of a component, or nobody runs on.
LEMMA StepKinds ==
    ASSUME Served, [Next]_appVars
    PROVE  \/ \E r \in Requests : Handle(r)
           \/ Halts /\ (NoTableChanges \/ Crash \/ Pass)
<1>1. CASE \E r \in InFlight \cup {s \in Requests : IsNext(s)} :
              \/ Handle(r)
              \/ CloseListing(r) /\ NoTableChanges
              \/ Abort(r) /\ NoTableChanges
  BY <1>1, OthersHalt DEF InFlight, Begun
<1>2. CASE Crash \/ Pass
  BY <1>2, OthersHalt
<1>3. CASE UNCHANGED appVars
  BY <1>3, OthersHalt DEF appVars, NoTableChanges
<1>4. QED
  BY <1>1, <1>2, <1>3 DEF Next

\* Who moves, by component.
LEMMA HandleMoves ==
    ASSUME Served, NEW r \in Requests, Handle(r)
    PROVE  \/ Moves(r, UserOps, UserWaits) \/ Moves(r, AuthOps, AuthWaits)
           \/ Moves(r, PushOps, PushWaits) \/ Moves(r, AiOps, AiWaits)
           \/ Moves(r, CatalogueOps, CatalogueWaits)
           \/ Moves(r, LessonOps, LessonWaits) \/ Moves(r, RagOps, RagWaits)
BY UsersMoves, AuthMoves, PushMoves, AiMoves, CatalogueMoves, LessonsMoves, BookRagMoves
   DEF Handle

\* Moves elsewhere are foreign.
LEMMA MovesAreForeign ==
    ASSUME NEW r \in Requests, NEW ops, NEW waits, NEW others, NEW awaits,
           Moves(r, others, awaits),
           others \cap ops = {}, awaits \cap waits = {}, Rest \cap waits = {},
           "idle" \notin awaits, awaits \cap Rest = {}
    PROVE  Foreign(ops, waits)
<1>1. CASE Begins(r, others, awaits)
  BY <1>1 DEF Moves, Foreign, Begins, Rest, Verdicts
<1>2. CASE Runs(r, awaits)
  <2>1. r \in InFlight
    BY <1>2 DEF Runs, InFlight, Begun, Ended, Rest
  <2>2. pc[r] \notin waits \cup Rest /\ pc'[r] \notin waits \cup {"idle"}
    BY <1>2 DEF Runs, Rest, Verdicts
  <2>3. QED
    BY <1>2, <2>1, <2>2 DEF Moves, Foreign, Runs
<1>3. QED
  BY <1>1, <1>2 DEF Moves

\* So is a step in which nobody runs on.
LEMMA HaltsIsForeign ==
    ASSUME NEW ops, NEW waits, Halts
    PROVE  Foreign(ops, waits)
BY DEF Halts, Foreign

\* Where a request that sees to the collection goes then.
LEMMA ThenIsKnown ==
    ASSUME Served, NEW r \in Requests, Handle(r), pc'[r] \in {"checking", "declaring"}
    PROVE  saw'[r] \in {"wiping", "searching"}
<1>1. CASE ~BookRagStep(r)
  BY <1>1, UsersMoves, AuthMoves, PushMoves, AiMoves, CatalogueMoves, LessonsMoves
     DEF Handle, Moves, Begins, Runs, Rest, Verdicts, UserWaits, AuthWaits, PushWaits, AiWaits,
         CatalogueWaits, LessonWaits
<1>2. CASE BookRagStep(r)
  <2>0. pc = [s \in Requests |-> pc[s]] /\ saw = [s \in Requests |-> saw[s]]
    BY DEF Served, WellFormed
  <2>1. CASE IsNext(r) /\ (EmbedRequest(r) \/ BookChatRequest(r) \/ StreamRequest(r))
    BY <2>0, <2>1
       DEF EmbedRequest, DeleteEmbeddings, ReembedBook, BookChatRequest, GetMyChat,
           SendBookMessage, ClearMyChat, StreamRequest, SendBookMessageStream, Ask,
           ArriveAtWeaviate, Arrive, Verdicts
  <2>2. CASE CheckCollection(r) \/ DeclareCollection(r)
    BY <2>0, <2>2 DEF CheckCollection, DeclareCollection, Leave, Await, Served
  <2>3. CASE DeleteByBook(r) \/ DeletionFails(r) \/ ExtractText(r) \/ EmbedChunk(r)
    BY <2>0, <2>3 DEF DeleteByBook, DeletionFails, ExtractText, EmbedChunk, Leave, Await
  <2>4. CASE BookChatStep(r)
    BY <2>0, <2>4
       DEF BookChatStep, SearchBookChunks, GetChat, OrCreateChat, AskGemini, SaveExchange,
           TellDone, Disconnect, EmptyChat, Leave, Await
  <2>5. QED
    BY <1>2, <2>1, <2>2, <2>3, <2>4 DEF BookRagStep, IndexStep
<1>3. QED
  BY <1>1, <1>2

\* A move, and a step in which nobody runs on, keep what is true of requests.
LEMMA MovesKeepServed ==
    ASSUME Served, NEW r \in Requests, NEW ops, NEW waits, Moves(r, ops, waits),
           "idle" \notin waits, waits \cap Verdicts = {},
           pc'[r] \in {"checking", "declaring"} => saw'[r] \in {"wiping", "searching"}
    PROVE  Served'
<1>1. pc'[r] # "idle" /\ pc[r] \notin Verdicts
  BY DEF Moves, Begins, Runs, Rest, Verdicts
<1>2. \A q \in Requests : pc[q] \in Verdicts => pc'[q] = pc[q]
  BY <1>1 DEF Moves, Stays
<1>3. ASSUME NEW q \in Requests, NEW s \in before'[q]
      PROVE  pc'[s] \in Verdicts
  <2>1. s \in Requests
    BY <1>3 DEF Moves, WellFormed
  <2>2. pc[s] \in Verdicts
    BY <1>3, <2>1 DEF Moves, Stays, Begins, Runs, Served, Ended
  <2>3. QED
    BY <1>2, <2>1, <2>2
<1>4. QED
  BY <1>1, <1>3 DEF Served, Moves, Stays

\* The same of steps in which nobody runs on.
LEMMA HaltsKeepServed ==
    ASSUME Served, Halts
    PROVE  Served'
<1>1. \A q \in Requests : pc[q] \in Verdicts => pc'[q] = pc[q]
  BY DEF Halts, Stays, Breaks, InFlight, Ended
<1>2. ASSUME NEW q \in Requests, NEW s \in before'[q]
      PROVE  pc'[s] \in Verdicts
  <2>1. before'[q] = before[q]
    BY DEF Halts, Stays, Breaks
  <2>2. s \in Requests /\ pc[s] \in Verdicts
    BY <1>2, <2>1 DEF Served, WellFormed
  <2>3. QED
    BY <1>1, <2>2
<1>3. QED
  BY <1>2 DEF Served, Halts, Stays, Breaks, Verdicts

\* No component waits where a request rests.
LEMMA WaitsAreNoVerdicts ==
    \A waits \in OwnWaits : "idle" \notin waits /\ waits \cap Rest = {}
BY DEF OwnWaits, UserWaits, AuthWaits, PushWaits, AiWaits, CatalogueWaits, LessonWaits,
       RagWaits, Rest, Verdicts

\* Served holds in every state of the application.
THEOREM ServedAlways == Spec => []Served
<1>1. Init => Served
  BY DEF Init, ServerInit, Served, WellFormed, Verdicts
<1>2. Served /\ [Next]_appVars => Served'
  <2> SUFFICES ASSUME Served, [Next]_appVars PROVE Served'
    OBVIOUS
  <2>1. ASSUME NEW r \in Requests, Handle(r)
        PROVE  Served'
    <3>1. PICK ops \in {UserOps, AuthOps, PushOps, AiOps, CatalogueOps, LessonOps, RagOps},
               waits \in OwnWaits : Moves(r, ops, waits)
      BY <2>1, HandleMoves DEF OwnWaits
    <3>2. QED
      BY <2>1, <3>1, MovesKeepServed, ThenIsKnown, WaitsAreNoVerdicts DEF Rest
  <2>2. QED
    BY <2>1, StepKinds, HaltsKeepServed
<1>3. QED
  BY <1>1, <1>2, PTL DEF Spec

-----------------------------------------------------------------------------
(* What later proofs count and compare. *)

\* The requests are those of a finite line.
LEMMA RequestsAreFinite == IsFiniteSet(Requests)
<1>1. Line \in Surjection(1 .. Len(Line), Requests)
  BY ServerAssumption DEF Surjection, Requests, ToSet
<1>2. IsFiniteSet(1 .. Len(Line))
  BY ServerAssumption, FS_Interval
<1>3. QED
  BY <1>1, <1>2, FS_Surjection

\* A bounded set of numbers has a largest one.
LEMMA LargestOf ==
    ASSUME NEW k \in Nat, NEW S \in SUBSET (0 .. k), S # {}
    PROVE  Max(S) \in S /\ \A y \in S : Max(S) >= y
BY LargestExists DEF Max

\* A request that has begun keeps its call and its history, a verdict stands,
\* and a request that begins comes after all that have ended.
Onward ==
    \A r \in Requests :
        /\ pc[r] # "idle" => pc'[r] # "idle" /\ call'[r] = call[r] /\ before'[r] = before[r]
        /\ pc[r] \in Verdicts => pc'[r] = pc[r]
        /\ pc[r] = "idle" /\ pc'[r] # "idle" => before'[r] = Ended

LEMMA MovesGoOnward ==
    ASSUME NEW r \in Requests, NEW ops, NEW waits, Moves(r, ops, waits),
           "idle" \notin waits, waits \cap Verdicts = {}
    PROVE  Onward
BY DEF Moves, Begins, Runs, Stays, Rest, Verdicts, Onward

LEMMA ForeignGoesOnward ==
    ASSUME NEW ops, NEW waits, Foreign(ops, waits)
    PROVE  Onward
BY DEF Foreign, Stays, Breaks, InFlight, Begun, Ended, Verdicts, Onward

\* A request that ends is one more.
LEMMA EndedGrows ==
    ASSUME Onward
    PROVE  /\ Cardinality(Ended) \in Nat /\ Cardinality(Ended') \in Nat
           /\ Cardinality(Ended) <= Cardinality(Ended')
           /\ \A q \in Requests : pc[q] \notin Verdicts /\ pc'[q] \in Verdicts
                 => Cardinality(Ended) + 1 <= Cardinality(Ended')
<1>1. Ended \in SUBSET Ended' /\ Ended' \in SUBSET Requests
  BY DEF Ended, Onward
<1>2. IsFiniteSet(Ended')
  BY <1>1, RequestsAreFinite, FS_Subset
<1>3. ASSUME NEW q \in Requests, pc[q] \notin Verdicts, pc'[q] \in Verdicts
      PROVE  Cardinality(Ended) + 1 <= Cardinality(Ended')
  <2>1. q \in Ended' /\ q \notin Ended
    BY <1>3 DEF Ended
  <2>2. QED
    BY <1>1, <1>2, <2>1, OneMoreCounted
<1>4. QED
  BY <1>1, <1>2, <1>3, PartCounted

\* Two requests that were in flight together remain so.
LEMMA OverlapStands ==
    ASSUME Onward, NEW r \in Requests, NEW s \in Requests, Overlap(r, s)
    PROVE  Overlap(r, s)'
BY DEF Onward, Overlap, Begun

\* A request that begins or runs on meets those that are in flight.
LEMMA MeetsInFlight ==
    ASSUME Served, Onward, NEW q \in Requests, NEW r \in Requests, q # r,
           r \in InFlight, pc[q] \notin Verdicts, pc'[q] # "idle"
    PROVE  Overlap(q, r)'
<1>1. pc'[r] # "idle" /\ before'[r] = before[r] /\ r \notin Ended
  BY DEF Onward, InFlight, Begun
<1>2. q \notin before[r] /\ r \notin before[q]
  BY <1>1 DEF Served, Ended
<1>3. before'[q] = Ended \/ before'[q] = before[q]
  BY DEF Onward
<1>4. QED
  BY <1>1, <1>2, <1>3 DEF Overlap, Begun
=============================================================================
