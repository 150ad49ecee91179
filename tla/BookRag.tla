------------------------------ MODULE BookRag ------------------------------
(* book-rag.service.ts with weaviate.service.ts, gemini.service.ts,
   pdf-extractor.service.ts and the stream handler of book-rag.controller.ts:
   the index of a book's text in Weaviate, and the chats of its readers. A
   vector, a chat and a message are named by the request that inserted them. *)
EXTENDS Catalogue, Chunking

CONSTANTS Readers,     \* users who have bought the kept books
          Texts,       \* what the file of a book may hold
          MinChars     \* a shorter text is not indexed

ASSUME RagAssumption ==
    /\ MinChars \in Nat \ {0}
    /\ \A text \in Texts : text.length \in Nat /\ text.marks \subseteq Nat

VARIABLES vectors,       \* BookChunk objects: [book, by, index, from, to]
          collection,    \* whether Weaviate has the collection BookChunk
          ensured,       \* collectionEnsured, in the memory of the process
          uncleared,     \* history: re-embeddings that could not delete what was there
          bookChats,     \* AiBookChat rows in creation order: [id, user, book]
          bookMessages   \* AiBookMessage rows: [chat, by, role]

indexVars == <<vectors, collection, ensured, uncleared>>
ragChatVars == <<bookChats, bookMessages>>

BookRagInit ==
    /\ vectors = {} /\ collection = FALSE /\ ensured = FALSE /\ uncleared = {}
    /\ bookChats = <<>> /\ bookMessages = {}

Owns(u, book) == u \in Readers /\ book \in Kept

-----------------------------------------------------------------------------
(* Every call to Weaviate sees to the collection first: saw is where to go then. *)

ArriveAtWeaviate(r, op, who, what, then) ==
    Arrive(r, op, who, what, IF ensured THEN then ELSE "checking", then)

CheckCollection(r) ==
    /\ pc[r] = "checking"
    /\ ensured' = (ensured \/ collection)
    /\ Await(r, IF ensured' THEN saw[r] ELSE "declaring", saw[r])
    /\ UNCHANGED <<vectors, collection, uncleared, ragChatVars>>

\* Of two that found none, one creates it and the other fails, which
\* reembedBook takes for a failed deletion and goes on.
DeclareCollection(r) ==
    /\ pc[r] = "declaring"
    /\ collection' = TRUE
    /\ IF ~collection
       THEN Await(r, saw[r], saw[r]) /\ ensured' = TRUE /\ UNCHANGED uncleared
       ELSE /\ UNCHANGED ensured
            /\ IF call[r].op = "reembedBook"
               THEN Await(r, "extracting", Nothing) /\ uncleared' = uncleared \cup {r}
               ELSE Leave(r, "conflict") /\ UNCHANGED uncleared
    /\ UNCHANGED <<vectors, ragChatVars>>

-----------------------------------------------------------------------------
(* The index. *)

IndexOf(book) == {v \in vectors : v.book = book}

\* The vector of the i-th piece of the text r embeds.
Vector(r, i) ==
    LET piece == Chunk(call[r].what.text)[i] IN
    [book |-> call[r].what.book, by |-> r, index |-> i, from |-> piece.from, to |-> piece.to]

ReembedBook(r, book, text) ==
    /\ book \in Ids("book")
    /\ ArriveAtWeaviate(r, "reembedBook", Nothing, [book |-> book, text |-> text], "wiping")
    /\ UNCHANGED <<indexVars, ragChatVars>>

DeleteEmbeddings(r, book) ==
    /\ book \in Ids("book")
    /\ ArriveAtWeaviate(r, "deleteEmbeddings", Nothing, [book |-> book], "wiping")
    /\ UNCHANGED <<indexVars, ragChatVars>>

DeleteByBook(r) ==
    /\ pc[r] = "wiping"
    /\ vectors' = vectors \ IndexOf(call[r].what.book)
    /\ IF call[r].op = "reembedBook" THEN Await(r, "extracting", Nothing) ELSE Leave(r, "done")
    /\ UNCHANGED <<collection, ensured, uncleared, ragChatVars>>

\* An error of the deletion, or on the way to it, is only logged.
DeletionFails(r) ==
    /\ pc[r] \in {"checking", "declaring", "wiping"} /\ call[r].op = "reembedBook"
    /\ uncleared' = uncleared \cup {r}
    /\ Await(r, "extracting", Nothing)
    /\ UNCHANGED <<vectors, collection, ensured, ragChatVars>>

\* The file may be unreadable, which is a 400 after the deletion, or as good as empty.
ExtractText(r) ==
    LET text == call[r].what.text IN
    /\ pc[r] = "extracting"
    /\ \/ Leave(r, "refused")
       \/ text.length < MinChars /\ Leave(r, "done")
       \/ text.length >= MinChars /\ Await(r, "embedding", 1)
    /\ UNCHANGED <<indexVars, ragChatVars>>

\* One piece is embedded by Gemini and inserted; saw is its index.
EmbedChunk(r) ==
    /\ pc[r] = "embedding"
    /\ vectors' = vectors \cup {Vector(r, saw[r])}
    /\ collection' = TRUE /\ ensured' = TRUE
    /\ IF saw[r] = Len(Chunk(call[r].what.text)) THEN Leave(r, "done")
       ELSE Await(r, "embedding", saw[r] + 1)
    /\ UNCHANGED <<uncleared, ragChatVars>>

-----------------------------------------------------------------------------
(* Chats. Nothing makes the chat of a user and a book unique: the newest counts. *)

ChatsOf(u, book) == {i \in DOMAIN bookChats : bookChats[i].user = u /\ bookChats[i].book = book}

LatestChat(u, book) == bookChats[Max(ChatsOf(u, book))].id

GetMyChat(r, u, book) ==
    /\ Owns(u, book)
    /\ Arrive(r, "getMyChat", u, book, IF ChatsOf(u, book) = {} THEN "opening" ELSE "done", Nothing)
    /\ UNCHANGED <<indexVars, ragChatVars>>

\* A question, answered at once or as a stream of events. That its embedding or
\* Weaviate fails before the search is an Abort.
Ask(r, op, u, book) ==
    /\ Owns(u, book)
    /\ ArriveAtWeaviate(r, op, u, book, "searching")
    /\ UNCHANGED <<indexVars, ragChatVars>>

SendBookMessage(r, u, book)       == Ask(r, "bookSendMessage", u, book)
SendBookMessageStream(r, u, book) == Ask(r, "bookSendMessageStream", u, book)

SearchBookChunks(r) ==
    /\ pc[r] = "searching"
    /\ Await(r, "finding", Nothing)
    /\ UNCHANGED <<indexVars, ragChatVars>>

\* Mutant: the oldest chat is taken.
GetFirstChat(r) ==
    LET mine == ChatsOf(call[r].who, call[r].what) IN
    /\ pc[r] = "finding"
    /\ IF mine = {} THEN Await(r, "opening", Nothing)
       ELSE Await(r, "chatting", bookChats[Min(mine)].id)
    /\ UNCHANGED <<indexVars, ragChatVars>>

GetChat(r) ==
    LET u    == call[r].who
        book == call[r].what
    IN /\ pc[r] = "finding"
       /\ IF ChatsOf(u, book) = {} THEN Await(r, "opening", Nothing)
          ELSE Await(r, "chatting", LatestChat(u, book))
       /\ UNCHANGED <<indexVars, ragChatVars>>

OrCreateChat(r) ==
    /\ pc[r] = "opening"
    /\ bookChats' = Append(bookChats, [id |-> r, user |-> call[r].who, book |-> call[r].what])
    /\ IF call[r].op = "getMyChat" THEN Leave(r, "done") ELSE Await(r, "chatting", r)
    /\ UNCHANGED <<indexVars, bookMessages>>

\* An answer of Gemini, or its failure: an error event, or a 500.
AskGemini(r) ==
    /\ pc[r] = "chatting"
    /\ Await(r, "saving", saw[r]) \/ Leave(r, "refused")
    /\ UNCHANGED <<indexVars, ragChatVars>>

\* Question and answer in one transaction, and only then the event done.
SaveExchange(r) ==
    /\ pc[r] = "saving"
    /\ bookMessages' = bookMessages \cup
          {[chat |-> saw[r], by |-> r, role |-> role] : role \in {"user", "assistant"}}
    /\ IF call[r].op = "bookSendMessage" THEN Leave(r, "done") ELSE Await(r, "telling", saw[r])
    /\ UNCHANGED <<indexVars, bookChats>>

TellDone(r) ==
    /\ pc[r] = "telling"
    /\ Leave(r, "done")
    /\ UNCHANGED <<indexVars, ragChatVars>>

\* A client that is gone ends the stream at its next event, for good.
Disconnect(r) ==
    /\ pc[r] \in {"chatting", "telling"} /\ call[r].op = "bookSendMessageStream"
    /\ Leave(r, "failed")
    /\ UNCHANGED <<indexVars, ragChatVars>>

\* findFirst without an order: any of the user's chats.
ClearMyChat(r, u, book) ==
    /\ Owns(u, book)
    /\ \E i \in ChatsOf(u, book) : Arrive(r, "clearMyChat", u, book, "emptying", bookChats[i].id)
    /\ UNCHANGED <<indexVars, ragChatVars>>

EmptyChat(r) ==
    /\ pc[r] = "emptying"
    /\ bookMessages' = {msg \in bookMessages : msg.chat # saw[r]}
    /\ Leave(r, "done")
    /\ UNCHANGED <<indexVars, bookChats>>

-----------------------------------------------------------------------------

EmbedRequest(r) ==
    \E b \in Kept : DeleteEmbeddings(r, b) \/ \E text \in Texts : ReembedBook(r, b, text)

BookChatRequest(r) ==
    \E u \in Readers, b \in Kept : GetMyChat(r, u, b) \/ SendBookMessage(r, u, b) \/ ClearMyChat(r, u, b)

StreamRequest(r) == \E u \in Readers, b \in Kept : SendBookMessageStream(r, u, b)

IndexStep(r) ==
    \/ CheckCollection(r)
    \/ DeclareCollection(r)
    \/ DeleteByBook(r)
    \/ DeletionFails(r)
    \/ ExtractText(r)
    \/ EmbedChunk(r)

BookChatStep(r) ==
    \/ SearchBookChunks(r)
    \/ GetChat(r)
    \/ OrCreateChat(r)
    \/ AskGemini(r)
    \/ SaveExchange(r)
    \/ TellDone(r)
    \/ Disconnect(r)
    \/ EmptyChat(r)

BookRagStep(r) ==
    /\ \/ IsNext(r) /\ (EmbedRequest(r) \/ BookChatRequest(r) \/ StreamRequest(r))
       \/ IndexStep(r)
       \/ BookChatStep(r)
    /\ UNCHANGED rows

BookRagTypeOK ==
    /\ vectors \subseteq [book : Kept, by : Requests, index : Nat, from : Nat, to : Nat]
    /\ collection \in BOOLEAN /\ ensured \in BOOLEAN
    /\ vectors # {} => collection
    /\ uncleared \subseteq Requests
    /\ bookChats \in Seq([id : Requests, user : Readers, book : Kept])
    /\ \A msg \in bookMessages : \E i \in DOMAIN bookChats : bookChats[i].id = msg.chat

\* Whoever else writes the index of r's book had ended before r began.
IndexOps == {"reembedBook", "deleteEmbeddings"}
AloneAtIndex(r) ==
    \A q \in Begun \ {r} :
        call[q].op \in IndexOps /\ call[q].what.book = call[r].what.book => q \in before[r]

\* A re-embedding that was alone and could clear the index leaves exactly one
\* vector for each piece of its text, none longer than the target, and nothing
\* of the text is in no piece (book-rag.service.ts 373-449, chunking.service.ts
\* 22-57).
IndexIsWhole ==
    \A r \in Requests :
        call[r].op = "reembedBook" /\ pc[r] = "done" /\ r \notin uncleared /\ AloneAtIndex(r)
        => LET index == IndexOf(call[r].what.book)
               text  == call[r].what.text
           IN IF text.length < MinChars THEN index = {}
              ELSE /\ \A v \in index : v.by = r /\ v.to - v.from \in 1 .. TargetChars
                   /\ {v.index : v \in index} = 1 .. Cardinality(index)
                   /\ \A p \in 0 .. text.length - 1 : \E v \in index : p \in v.from .. v.to - 1

\* The requests that want an answer, and all that may open a chat.
Asks    == {"bookSendMessage", "bookSendMessageStream"}
Openers == {"getMyChat"} \cup Asks

\* Question and answer of r, each once, are in chat c.
StoredBy(r)     == {msg \in bookMessages : msg.by = r}
StoredIn(r, c)  == StoredBy(r) = {[chat |-> c, by |-> r, role |-> role] : role \in {"user", "assistant"}}

\* A chat has been emptied since r began, or was opened beside r.
ClearedSince(r) == \E q \in Begun : call[q].op = "clearMyChat" /\ q \notin before[r]
OpenedBeside(r) == \E q \in Requests : call[q].op \in Openers /\ Overlap(q, r)

\* An answer the reader was given is in the chat that is shown next time, with
\* its question; one that failed has left neither. Otherwise the chat has been
\* cleared since, or two requests found none and opened one each
\* (book-rag.service.ts 51-62, 132-207, 227-338).
AnswerIsShown(r) ==
    call[r].op \in Asks =>
        /\ pc[r] = "refused" => StoredBy(r) = {}
        /\ pc[r] = "done"    => \/ StoredIn(r, LatestChat(call[r].who, call[r].what))
                                \/ ClearedSince(r)
                                \/ OpenedBeside(r)

AnswersAreShown == \A r \in Requests : AnswerIsShown(r)

-----------------------------------------------------------------------------
(* The inductive invariant behind AnswersAreShown. *)

\* A request about a chat is at one of its own awaits.
ChatCallsWait(r) ==
    /\ call[r].op \in Openers => Owns(call[r].who, call[r].what)
    /\ call[r].op \in Asks => pc[r] \in {"checking", "declaring", "searching", "finding", "opening",
                                         "chatting", "saving", "telling"} \cup Verdicts
    /\ pc[r] \in {"checking", "declaring"} => (saw[r] = "searching" <=> call[r].op \in Asks)
    /\ pc[r] \in {"searching", "finding", "chatting", "saving", "telling"} => call[r].op \in Asks
    /\ pc[r] = "opening"  => call[r].op \in Openers
    /\ pc[r] = "emptying" => call[r].op = "clearMyChat"

\* The chat whose messages r read is the one that is shown.
ChatIsLatest(r) ==
    LET u    == call[r].who
        book == call[r].what
    IN call[r].op \in Asks =>
         /\ pc[r] \in {"chatting", "saving", "telling", "done"} => ChatsOf(u, book) # {}
         /\ pc[r] \in {"chatting", "saving", "telling"} =>
               saw[r] = LatestChat(u, book) \/ OpenedBeside(r)

\* Nothing is stored before the answer; what is stored is there until it is cleared.
ExchangeStands(r) ==
    /\ pc[r] \notin {"telling", "done", "failed"} => StoredBy(r) = {}
    /\ pc[r] = "telling" => StoredIn(r, saw[r]) \/ ClearedSince(r)

\* Nobody opens a chat where somebody was answered in one before.
OpensOnce(r) ==
    pc[r] = "opening" => \A s \in before[r] :
        ~ /\ call[s].op \in Asks /\ pc[s] = "done"
          /\ call[s].who = call[r].who /\ call[s].what = call[r].what

BookChatsInv ==
    /\ bookChats \in Seq([id : Requests, user : Readers, book : Kept])
    /\ \A r \in Requests :
          /\ ChatCallsWait(r) /\ ChatIsLatest(r) /\ ExchangeStands(r) /\ OpensOnce(r)
          /\ AnswerIsShown(r)

(* And the one behind IndexIsWhole. *)

Inserted(r, n) == {Vector(r, i) : i \in 1 .. n}

\* A request about the index is at one of its own awaits.
IndexCallWaits(r) ==
    /\ call[r].op \in IndexOps => call[r].what.book \in Kept
    /\ call[r].op = "reembedBook" =>
          /\ call[r].what.text \in Texts
          /\ pc[r] \in {"checking", "declaring", "wiping", "extracting", "embedding"} \cup Verdicts
    /\ pc[r] \in {"checking", "declaring"} /\ saw[r] = "wiping" => call[r].op \in IndexOps
    /\ pc[r] \in {"checking", "declaring"} /\ call[r].op \in IndexOps => saw[r] = "wiping"
    /\ pc[r] = "wiping" => call[r].op \in IndexOps
    /\ pc[r] \in {"extracting", "embedding"} => call[r].op = "reembedBook"
    /\ pc[r] = "embedding" =>
          /\ call[r].what.text.length >= MinChars
          /\ saw[r] \in 1 .. Len(Chunk(call[r].what.text))

\* While r is alone the index of its book is what r has made of it.
IndexStands(r) ==
    LET index == IndexOf(call[r].what.book)
        text  == call[r].what.text
    IN call[r].op = "reembedBook" /\ r \notin uncleared /\ AloneAtIndex(r) =>
         /\ pc[r] = "extracting" => index = {}
         /\ pc[r] = "embedding"  => index = Inserted(r, saw[r] - 1)
         /\ pc[r] = "done" =>
               index = IF text.length < MinChars THEN {} ELSE Inserted(r, Len(Chunk(text)))

IndexInv == \A r \in Requests : IndexCallWaits(r) /\ IndexStands(r)

(* And the one behind the types of chunks, chats and messages. *)

RagFits ==
    /\ BookRagTypeOK
    /\ \A r \in Requests : pc[r] \in {"chatting", "saving"} =>
          \E i \in DOMAIN bookChats : bookChats[i].id = saw[r]
=============================================================================
