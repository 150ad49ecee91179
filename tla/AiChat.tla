------------------------------- MODULE AiChat -------------------------------
(* ai-chat.service.ts: chats, the request limit, and messages answered by
   OpenAI. A chat, a limit row and a message are named by the request that
   inserted them; the hourly job takes its turn as a request. *)
EXTENDS Push

CONSTANTS AiUsers,    \* the users who chat, each from one address
          AiMax       \* AI_RATE_LIMIT_MAX

ASSUME AiAssumption ==
    /\ AiMax \in Nat \ {0} /\ AiUsers \subseteq Seeded
    /\ Nothing \notin [id : Requests, count : Nat, idle : BOOLEAN]

VARIABLES chats,      \* AiChat rows: the owner by chat
          messages,   \* AiMessage rows: [chat, by, role]
          limits,     \* AiRateLimit rows by user: [id, count, idle]
          spree       \* history: the requests admitted since the user's last idle hour

aiVars == <<chats, messages, limits, spree>>

AiInit ==
    /\ chats    = <<>>
    /\ messages = {}
    /\ limits   = <<>>
    /\ spree    = [u \in AiUsers |-> {}]

PutLimit(u, row) == limits' = [v \in DOMAIN limits \cup {u} |-> IF v = u THEN row ELSE limits[v]]
LimitOf(u)       == IF u \in DOMAIN limits THEN limits[u] ELSE Nothing

\* Every step of a message whose chat has been deleted meets a foreign key or a missing row.
Gone(r, chat) == chat \notin DOMAIN chats /\ Leave(r, "conflict") /\ UNCHANGED <<chats, messages>>

CreateChat(r, u) ==
    /\ Arrive(r, "createChat", u, Nothing, "done", Nothing)
    /\ chats' = [c \in DOMAIN chats \cup {r} |-> IF c = r THEN u ELSE chats[c]]
    /\ UNCHANGED <<messages, limits, spree>>

\* Mutant: one message too many.
SendMessageLoosely(r, u, chat) ==
    LET row == LimitOf(u) IN
    /\ chat \in DOMAIN chats /\ chats[chat] = u
    /\ row # Nothing /\ ~row.idle => row.count <= AiMax
    /\ Arrive(r, "sendMessage", u, chat, "counting", row)
    /\ UNCHANGED aiVars

\* Finds the chat, then the row of the limit.
SendMessage(r, u, chat) ==
    LET row == LimitOf(u) IN
    /\ chat \in DOMAIN chats /\ chats[chat] = u
    /\ row # Nothing /\ ~row.idle => row.count < AiMax
    /\ Arrive(r, "sendMessage", u, chat, "counting", row)
    /\ UNCHANGED aiVars

\* The verdict is the one on the row as it was read; the row is found by its id.
CountRequest(r) ==
    LET u == call[r].who IN
    /\ pc[r] = "counting"
    /\ \/ /\ saw[r] = Nothing /\ u \notin DOMAIN limits
          /\ PutLimit(u, [id |-> r, count |-> 1, idle |-> FALSE])
       \/ /\ saw[r] # Nothing /\ u \in DOMAIN limits /\ limits[u].id = saw[r].id
          /\ PutLimit(u, [id |-> saw[r].id, count |-> IF saw[r].idle THEN 1 ELSE limits[u].count + 1,
                          idle |-> FALSE])
    /\ spree' = [spree EXCEPT ![u] = @ \cup {r}]
    /\ Await(r, "asking", Nothing)
    /\ UNCHANGED <<chats, messages>>

\* Another request has inserted the row, or the hourly job has deleted it.
CountConflicts(r) ==
    LET u == call[r].who IN
    /\ pc[r] = "counting"
    /\ IF saw[r] = Nothing THEN u \in DOMAIN limits
                           ELSE u \in DOMAIN limits => limits[u].id # saw[r].id
    /\ Leave(r, "conflict")
    /\ UNCHANGED aiVars

StoreMessage(r, role, l) ==
    \/ Gone(r, call[r].what)
    \/ /\ call[r].what \in DOMAIN chats
       /\ messages' = messages \cup {[chat |-> call[r].what, by |-> r, role |-> role]}
       /\ Await(r, l, Nothing)
       /\ UNCHANGED chats

StoreQuestion(r) ==
    /\ pc[r] = "asking"
    /\ StoreMessage(r, "user", "consulting")
    /\ UNCHANGED <<limits, spree>>

\* An error of OpenAI is a 503, and the question stays.
AskOpenAI(r) ==
    /\ pc[r] = "consulting"
    /\ Await(r, "replying", Nothing) \/ Leave(r, "refused")
    /\ UNCHANGED aiVars

StoreReply(r) ==
    /\ pc[r] = "replying"
    /\ StoreMessage(r, "assistant", "touching")
    /\ UNCHANGED <<limits, spree>>

\* Answers. The notification it sends in the background is a SendToUser, which
\* may come at any time.
TouchChat(r) ==
    /\ pc[r] = "touching"
    /\ Leave(r, IF call[r].what \in DOMAIN chats THEN "done" ELSE "conflict")
    /\ UNCHANGED aiVars

DeleteChat(r, u, chat) ==
    /\ chat \in DOMAIN chats /\ chats[chat] = u
    /\ Arrive(r, "deleteChat", u, chat, "deleting", Nothing)
    /\ UNCHANGED aiVars

DropChat(r) ==
    LET chat == call[r].what IN
    /\ pc[r] = "deleting"
    /\ \/ Gone(r, chat)
       \/ /\ chat \in DOMAIN chats
          /\ chats'    = [c \in DOMAIN chats \ {chat} |-> chats[c]]
          /\ messages' = {m \in messages : m.chat # chat}
          /\ Leave(r, "done")
    /\ UNCHANGED <<limits, spree>>

ResetRateLimits(r) ==
    /\ \E u \in DOMAIN limits : limits[u].idle
    /\ Arrive(r, "resetRateLimits", Nothing, Nothing, "done", Nothing)
    /\ limits' = [u \in {v \in DOMAIN limits : ~limits[v].idle} |-> limits[u]]
    /\ UNCHANGED <<chats, messages, spree>>

ChatRequest(r) ==
    \E u \in AiUsers : \/ CreateChat(r, u)
                       \/ \E c \in DOMAIN chats : SendMessage(r, u, c) \/ DeleteChat(r, u, c)

ChatStep(r) ==
    \/ IsNext(r) /\ (ChatRequest(r) \/ ResetRateLimits(r))
    \/ CountRequest(r)
    \/ CountConflicts(r)
    \/ StoreQuestion(r)
    \/ AskOpenAI(r)
    \/ StoreReply(r)
    \/ TouchChat(r)
    \/ DropChat(r)

AiStep(r) == ChatStep(r) /\ UNCHANGED <<userVars, pushVars>>

\* An hour goes by in which u sends nothing that is counted.
IdleHour(u) ==
    /\ u \in DOMAIN limits /\ ~limits[u].idle
    /\ PutLimit(u, [limits[u] EXCEPT !.idle = TRUE])
    /\ spree' = [spree EXCEPT ![u] = {}]
    /\ UNCHANGED <<serverVars, userVars, pushVars, chats, messages>>

AiTypeOK ==
    /\ DOMAIN chats \subseteq Requests /\ chats \in [DOMAIN chats -> AiUsers]
    /\ messages \subseteq [chat : DOMAIN chats, by : Requests, role : {"user", "assistant"}]
    /\ DOMAIN limits \subseteq AiUsers
    /\ limits \in [DOMAIN limits -> [id : Requests, count : 1 .. Cardinality(Requests), idle : BOOLEAN]]
    /\ spree \in [AiUsers -> SUBSET Requests]

\* Without an idle hour between them, more than AiMax messages are admitted
\* only if two of them were in flight together (ai-chat.service.ts 176-214).
AiLimit ==
    \A u \in AiUsers : Cardinality(spree[u]) > AiMax => \E r, s \in spree[u] : Overlap(r, s)

-----------------------------------------------------------------------------
(* The inductive invariant behind AiLimit. *)

Apart(rs) == \A r, s \in rs : ~Overlap(r, s)

\* The row counts what was admitted since the last idle hour, but for requests
\* that overlap, which may both take the row for an idle one.
RowCounts ==
    /\ limits \in [DOMAIN limits -> [id : Requests, count : Nat, idle : BOOLEAN]]
    /\ spree \in [AiUsers -> SUBSET Requests]
    /\ \A u \in AiUsers :
          /\ u \notin DOMAIN limits \/ limits[u].idle => spree[u] = {}
          /\ u \in DOMAIN limits /\ Apart(spree[u]) => Cardinality(spree[u]) <= limits[u].count
          /\ \A r \in spree[u] : pc[r] \notin {"idle", "counting"}

\* What a request has read of the row is right, until another one, in flight
\* with it, is admitted.
AdmittedBelowLimit ==
    \A r \in Requests : pc[r] = "counting" =>
        LET u == call[r].who IN
        /\ u \in AiUsers
        /\ saw[r] # Nothing /\ Apart(spree[u]) /\ spree[u] \subseteq before[r] =>
              \/ saw[r].idle /\ spree[u] = {}
              \/ ~saw[r].idle /\ Cardinality(spree[u]) < AiMax

AiInv == RowCounts /\ AdmittedBelowLimit /\ AiLimit

(* And the one behind the types of chats and limits. *)

\* A limit counts requests that have been admitted.
Admitted == {r \in Begun : pc[r] # "counting"}

AiFits ==
    /\ AiTypeOK
    /\ \A u \in DOMAIN limits : limits[u].count <= Cardinality(Admitted)
    /\ \A r \in Requests :
          pc[r] \in {"counting", "asking", "consulting", "replying", "touching"} =>
              call[r].who \in AiUsers
=============================================================================
