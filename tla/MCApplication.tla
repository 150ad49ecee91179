--------------------------- MODULE MCApplication ---------------------------
(* Application with one or two of everything. A behaviour takes its requests
   from one of the mixes: together they hold every operation, and
   each holds operations that share tables. *)
EXTENDS Application

CONSTANTS r1, r2, r3, r4, r5

MCLine == <<r1, r2, r3, r4, r5>>

Mix(ops, people, size, atOnce) ==
    [ops |-> ops, people |-> people, size |-> size, atOnce |-> atOnce, failures |-> 1]

\* One user logs in, refreshes and logs out, size requests in all.
Visits(size) == Mix({"emailLogin", "refresh", "logout"}, {"em"}, size, 2)

MCSessions == {Visits(5)}

\* What belongs to one user: logins, profile, devices, inbox, chats.
MCPeople ==
    { Visits(4),
      Mix({"phoneRequestOtp", "phoneVerifyOtp"}, {"ph"}, 4, 2),
      Mix({"phoneRequestOtp", "phoneVerifyOtp"}, {"an"}, 3, 2),
      Mix({"emailRegister", "emailLogin", "googleAuth", "adminLogin", "adminGoogleAuth",
           "adminUpdate", "adminSoftDelete"}, {"ed", "em"}, 3, 2),
      Mix({"updateMe", "uploadAvatar", "deleteAvatar"}, {"em"}, 3, 3),
      Mix({"registerDevice", "removeDevice", "sendToUser", "sendToMany", "broadcast"},
          {"em", "an"}, 3, 2),
      Mix({"registerDevice", "adminSendToUser", "adminSendToMany", "adminBroadcast"},
          {"em", "an"}, 3, 2),
      Mix({"sendToUser", "listMy", "markRead"}, {"em"}, 4, 2),
      Mix({"sendToUser", "listUnread", "markRead", "markAllRead"}, {"em"}, 4, 2),
      Mix({"createChat", "sendMessage", "deleteChat", "resetRateLimits"}, {"em"}, 4, 2) }

\* What is shown to everybody: the administrators' tables, lessons, books' texts.
MCContent ==
    { Mix({"reembedBook", "deleteEmbeddings"}, {}, 3, 2),
      Mix({"getMyChat", "bookSendMessage", "bookSendMessageStream", "clearMyChat"}, {"em"}, 3, 2),
      Mix({"findOneLesson", "updateMyProgress", "createBlock", "updateBlock", "removeBlock"},
          {"em"}, 3, 2),
      Mix({"findOneLesson", "updateMyProgress", "updateLesson", "removeLesson", "subscribe",
           "adminUpdate"}, {"an"}, 3, 2),
      Mix({"createAgeCategory", "updateAgeCategory", "removeAgeCategory", "createTrainingCategory",
           "updateTrainingCategory", "removeTrainingCategory"}, {}, 3, 2),
      Mix({"removeMasterclass", "createMasterclassBlock", "updateMasterclassBlock",
           "removeMasterclassBlock"}, {}, 3, 2),
      Mix({"createBook", "deleteBook", "createCategory", "updateCategory", "deleteCategory"}, {}, 3, 2),
      Mix({"createPlan", "updatePlan", "softDeletePlan"}, {}, 3, 2) }

\* Tables with their lists, beside all that can change or move what is on them.
Lists(ops, size) == [Mix(ops, {}, size, 2) EXCEPT !.failures = 0]

MCListings ==
    { Lists({"findAllTrainingCategories", "createTrainingCategory", "updateTrainingCategory",
             "removeTrainingCategory", "createLesson", "removeLesson"}, 3),
      Lists({"findAllLessons", "createLesson", "updateLesson", "removeLesson"}, 3),
      Lists({"findAllBooks", "createBook", "updateBook", "deleteBook"}, 3),
      Lists({"findAllMasterclassCategories", "createMasterclassCategory",
             "updateMasterclassCategory", "removeMasterclassCategory", "createMasterclass",
             "updateMasterclass", "removeMasterclass"}, 3),
      Lists({"findAllMasterclasses", "createMasterclass", "updateMasterclass",
             "createMasterclassCategory"}, 4) }

MCTraffic == MCPeople \cup MCContent \cup MCListings

\* A text too short to be indexed, and one cut at the end of a sentence.
MCTexts == {[length |-> 0, marks |-> {}], [length |-> 9, marks |-> {4}]}
=============================================================================
