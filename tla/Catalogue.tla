----------------------------- MODULE Catalogue -----------------------------
(* What administrators edit and everybody lists: the tables of trainings,
   books and masterclasses, each below its parent's, and the plans. Every
   service checks that the rows it needs are there and writes by a later
   query; the foreign keys have the last word. *)
EXTENDS Server

CONSTANTS Limit,    \* rows on a page
          Prices,   \* of books; a free one costs 0
          MaxOptions,  \* bound: what one list request asks for beyond the default
          Kept      \* seeded rows other tables refer to: books that have been bought

VARIABLE rows       \* of all tables by id: [kind, under, data, at], at the place among its kind

ParentOf == [ageCategory |-> Nothing, trainingCategory |-> "ageCategory",
             lesson |-> "trainingCategory", lessonBlock |-> "lesson",
             bookCategory |-> Nothing, book |-> "bookCategory",
             masterclassCategory |-> Nothing, masterclass |-> "masterclassCategory",
             masterclassBlock |-> "masterclass", plan |-> Nothing]
Kinds == DOMAIN ParentOf

\* onDelete: Cascade; a parent with other children is kept by their foreign key.
Cascading == {"lessonBlock", "masterclassBlock"}

\* Of all the columns: isFree of a lesson, order, isFree and type of a block, the
\* price of a book, isActive of a plan.
Contents(kind) ==
    IF kind \in {"lesson", "plan"} THEN BOOLEAN
    ELSE IF kind = "lessonBlock" THEN {[order |-> 1, free |-> TRUE, video |-> TRUE],
                                      [order |-> 2, free |-> FALSE, video |-> FALSE]}
    ELSE IF kind = "book" THEN Prices
    ELSE {Nothing}

ASSUME CatalogueAssumption ==
    /\ Kinds \cap Requests = {} /\ Nothing \notin Kinds \cup Requests
    /\ Limit \in Nat \ {0} /\ Prices \subseteq Nat /\ 0 \in Prices

\* The seed: one row of each kind, named like it.
Seed(kind) == [kind |-> kind, under |-> ParentOf[kind],
               data |-> CHOOSE d \in Contents(kind) : TRUE, at |-> 1]

CatalogueInit == rows = [kind \in Kinds |-> Seed(kind)]

Ids(kind)       == {id \in DOMAIN rows : rows[id].kind = kind}
Under(id)       == {c \in DOMAIN rows : rows[c].under = id}
Fits(kind, id)  == IF ParentOf[kind] = Nothing THEN id = Nothing
                   ELSE id \in DOMAIN rows /\ rows[id].kind = ParentOf[kind]

-----------------------------------------------------------------------------
(* What every service does. *)

CreateIn(r, op, kind) ==
    \E under \in Ids(ParentOf[kind]) \cup {Nothing}, data \in Contents(kind) :
        /\ Fits(kind, under)
        /\ Arrive(r, op, Nothing, [kind |-> kind, under |-> under, data |-> data],
                  "inserting", Nothing)
        /\ UNCHANGED rows

\* A new row comes after all others of its kind.
NewRow(new) ==
    [kind |-> new.kind, under |-> new.under, data |-> new.data,
     at   |-> 1 + Max({0} \cup {rows[id].at : id \in Ids(new.kind)})]

InsertRow(r) ==
    LET new == call[r].what IN
    /\ pc[r] = "inserting"
    /\ IF Fits(new.kind, new.under)
       THEN /\ rows' = [id \in DOMAIN rows \cup {r} |-> IF id = r THEN NewRow(new) ELSE rows[id]]
            /\ Leave(r, "done")
       ELSE Leave(r, "conflict") /\ UNCHANGED rows

\* A row is changed where it is, under is Nothing, or moved below another
\* parent; a block cannot be moved.
Places(kind) == {Nothing} \cup IF kind \in Cascading THEN {} ELSE Ids(ParentOf[kind])

UpdateIn(r, op, kind) ==
    \E id \in Ids(kind), under \in Places(kind), data \in Contents(kind) :
        /\ Arrive(r, op, Nothing, [id |-> id, kind |-> kind, under |-> under, data |-> data],
                  "updating", Nothing)
        /\ UNCHANGED rows

Changed(row, new) ==
    [row EXCEPT !.data = new.data, !.under = IF new.under = Nothing THEN @ ELSE new.under]

UpdateRow(r) ==
    LET new == call[r].what IN
    /\ pc[r] = "updating"
    /\ IF new.id \in Ids(new.kind) /\ (new.under # Nothing => Fits(new.kind, new.under))
       THEN rows' = [rows EXCEPT ![new.id] = Changed(@, new)] /\ Leave(r, "done")
       ELSE Leave(r, "conflict") /\ UNCHANGED rows

RemoveFrom(r, op, kind) ==
    \E id \in Ids(kind) :
        /\ Arrive(r, op, Nothing, [id |-> id, kind |-> kind], "erasing", Nothing)
        /\ UNCHANGED rows

Restricted(id)   == id \in Kept \/ \E c \in Under(id) : rows[c].kind \notin Cascading
KeepAllBut(gone) == rows' = [id \in DOMAIN rows \ gone |-> rows[id]]

\* Mutant: the blocks stay.
EraseRowAlone(r) ==
    LET id == call[r].what.id IN
    /\ pc[r] = "erasing"
    /\ id \in Ids(call[r].what.kind) /\ ~Restricted(id)
    /\ KeepAllBut({id})
    /\ Leave(r, "done")

EraseRow(r) ==
    LET id == call[r].what.id IN
    /\ pc[r] = "erasing"
    /\ \/ id \notin Ids(call[r].what.kind) /\ Leave(r, "conflict") /\ UNCHANGED rows
       \/ id \in Ids(call[r].what.kind) /\ Restricted(id) /\ Leave(r, "refused") /\ UNCHANGED rows
       \/ /\ id \in Ids(call[r].what.kind) /\ ~Restricted(id)
          /\ KeepAllBut({id} \cup Under(id))
          /\ Leave(r, "done")

-----------------------------------------------------------------------------
(* Lists, by page number; the client stops at the last page of the answer it
   has. A list has filters and a sort, which the client keeps while it turns
   pages: below names a parent or grandparent, only is what the row's own
   columns may be, filled asks for a child (a video, of a lesson's blocks). *)

Countable == {"trainingCategory", "masterclassCategory"}

\* isFree, where there is such a filter.
Frees(kind) == CASE kind = "lesson" -> {BOOLEAN, {TRUE}, {FALSE}}
                 [] kind = "book"   -> {Prices, {0}, Prices \ {0}}
                 [] OTHER           -> {Contents(kind)}

\* sortBy; ids and creation times are one order.
Sorts(kind) == CASE kind = "book"      -> {"id", "basePrice"}
                 [] kind \in Countable -> {"id", "count"}
                 [] OTHER              -> {"id"}

\* All rows, the newest first.
Default(kind) == [kind |-> kind, below |-> Nothing, only |-> Contents(kind),
                  filled |-> FALSE, sort |-> [by |-> "id", desc |-> TRUE]]

Filters(kind) ==
    [kind   : {kind},
     below  : {Nothing} \cup Ids(ParentOf[kind]) \cup {rows[id].under : id \in Ids(ParentOf[kind])},
     only   : Frees(kind),
     filled : IF kind \in Countable \cup {"lesson"} THEN BOOLEAN ELSE {FALSE},
     sort   : [by : Sorts(kind), desc : BOOLEAN]]
Options(list) == {f \in DOMAIN list : list[f] # Default(list.kind)[f]}

IsBelow(id, top) ==
    \/ rows[id].under = top
    \/ rows[id].under \in DOMAIN rows /\ rows[rows[id].under].under = top
Filling(id) == {c \in Under(id) : rows[c].kind = "lessonBlock" => rows[c].data.video}

Selected(list) ==
    {id \in Ids(list.kind) : /\ list.below # Nothing => IsBelow(id, list.below)
                             /\ rows[id].data \in list.only
                             /\ list.filled => Filling(id) # {}}

Column(list, id) == CASE list.sort.by = "basePrice" -> rows[id].data
                      [] list.sort.by = "count"     -> Cardinality(Filling(id))
                      [] OTHER                 -> rows[id].at

Ahead(list, id) ==
    {other \in Selected(list) : IF list.sort.desc THEN Column(list, other) > Column(list, id)
                                             ELSE Column(list, other) < Column(list, id)}
Tied(list, id) == \E other \in Selected(list) \ {id} : Column(list, other) = Column(list, id)

\* What may come first in the order, n rows or all there are: rows that tie come
\* in any order, and in another one at the next query.
Firsts(list, n) ==
    {first \in SUBSET Selected(list) :
        /\ \/ Cardinality(first) = n
           \/ Cardinality(first) < n /\ first = Selected(list)
        /\ \A id \in first : Ahead(list, id) \subseteq first}

\* The rows a query may take up to the to-th that skips those up to the from-th.
Slices(list, from, to) ==
    {cut[2] \ cut[1] : cut \in
        {cut \in Firsts(list, from) \X Firsts(list, to) : cut[1] \subseteq cut[2]}}

\* Mutant: pages counted from 0.
PagesFromZero(list, page) == Slices(list, page * Limit, (page + 1) * Limit)
Pages(list, page) == Slices(list, (page - 1) * Limit, page * Limit)

NextWait(list, page) == IF page * Limit < Cardinality(Selected(list)) THEN "turning" ELSE "listed"

\* what is the list and the rows it had; saw is the page the client is at and
\* the rows it was given.
ListOf(r, op, kind) ==
    /\ op \in mix.ops
    /\ \E list \in Filters(kind) :
          /\ Cardinality(Options(list)) <= MaxOptions
          /\ \E page \in Pages(list, 1) :
                Arrive(r, op, Nothing, [list |-> list, ids |-> Selected(list)],
                       NextWait(list, 1), [page |-> 1, seen |-> page])
    /\ UNCHANGED rows

TurnPage(r) ==
    LET list == call[r].what.list
        n    == saw[r].page + 1
    IN /\ pc[r] = "turning"
       /\ \E page \in Pages(list, n) :
             Await(r, NextWait(list, n), [page |-> n, seen |-> saw[r].seen \cup page])
       /\ UNCHANGED rows

-----------------------------------------------------------------------------
(* Who does it. *)

CreateAgeCategory(r)         == CreateIn(r, "createAgeCategory", "ageCategory")
UpdateAgeCategory(r)         == UpdateIn(r, "updateAgeCategory", "ageCategory")
RemoveAgeCategory(r)         == RemoveFrom(r, "removeAgeCategory", "ageCategory")
FindAllTrainingCategories(r) == ListOf(r, "findAllTrainingCategories", "trainingCategory")
CreateTrainingCategory(r)    == CreateIn(r, "createTrainingCategory", "trainingCategory")
UpdateTrainingCategory(r)    == UpdateIn(r, "updateTrainingCategory", "trainingCategory")
RemoveTrainingCategory(r)    == RemoveFrom(r, "removeTrainingCategory", "trainingCategory")
FindAllLessons(r)            == ListOf(r, "findAllLessons", "lesson")
CreateLesson(r)              == CreateIn(r, "createLesson", "lesson")
UpdateLesson(r)              == UpdateIn(r, "updateLesson", "lesson")
RemoveLesson(r)              == RemoveFrom(r, "removeLesson", "lesson")
CreateLessonBlock(r)         == CreateIn(r, "createBlock", "lessonBlock")
UpdateLessonBlock(r)         == UpdateIn(r, "updateBlock", "lessonBlock")
RemoveLessonBlock(r)         == RemoveFrom(r, "removeBlock", "lessonBlock")

CreateBookCategory(r)        == CreateIn(r, "createCategory", "bookCategory")
UpdateBookCategory(r)        == UpdateIn(r, "updateCategory", "bookCategory")
DeleteBookCategory(r)        == RemoveFrom(r, "deleteCategory", "bookCategory")
FindAllBooks(r)              == ListOf(r, "findAllBooks", "book")
CreateBook(r)                == CreateIn(r, "createBook", "book")
UpdateBook(r)                == UpdateIn(r, "updateBook", "book")
DeleteBook(r)                == RemoveFrom(r, "deleteBook", "book")

FindAllMasterclassCategories(r) == ListOf(r, "findAllMasterclassCategories", "masterclassCategory")
CreateMasterclassCategory(r) == CreateIn(r, "createMasterclassCategory", "masterclassCategory")
UpdateMasterclassCategory(r) == UpdateIn(r, "updateMasterclassCategory", "masterclassCategory")
RemoveMasterclassCategory(r) == RemoveFrom(r, "removeMasterclassCategory", "masterclassCategory")
FindAllMasterclasses(r)      == ListOf(r, "findAllMasterclasses", "masterclass")
CreateMasterclass(r)         == CreateIn(r, "createMasterclass", "masterclass")
UpdateMasterclass(r)         == UpdateIn(r, "updateMasterclass", "masterclass")
RemoveMasterclass(r)         == RemoveFrom(r, "removeMasterclass", "masterclass")
CreateMasterclassBlock(r)    == CreateIn(r, "createMasterclassBlock", "masterclassBlock")
UpdateMasterclassBlock(r)    == UpdateIn(r, "updateMasterclassBlock", "masterclassBlock")
RemoveMasterclassBlock(r)    == RemoveFrom(r, "removeMasterclassBlock", "masterclassBlock")

CreatePlan(r)                == CreateIn(r, "createPlan", "plan")
UpdatePlan(r)                == UpdateIn(r, "updatePlan", "plan")

\* A plan is only ever switched off.
SoftDeletePlan(r) ==
    \E id \in Ids("plan") :
        /\ Arrive(r, "softDeletePlan", Nothing,
                  [id |-> id, kind |-> "plan", under |-> Nothing, data |-> FALSE], "updating", Nothing)
        /\ UNCHANGED rows

(* Where it is asked for: one controller each, but for lists. *)

AgeCategoryAdmin(r)         == CreateAgeCategory(r) \/ UpdateAgeCategory(r) \/ RemoveAgeCategory(r)
TrainingCategoryAdmin(r)    == \/ CreateTrainingCategory(r) \/ UpdateTrainingCategory(r)
                               \/ RemoveTrainingCategory(r)
TrainingCategories(r)       == FindAllTrainingCategories(r)
LessonAdmin(r)              == CreateLesson(r) \/ UpdateLesson(r) \/ RemoveLesson(r)
LessonList(r)               == FindAllLessons(r)
LessonBlockAdmin(r)         == CreateLessonBlock(r) \/ UpdateLessonBlock(r) \/ RemoveLessonBlock(r)
Books(r)                    == \/ CreateBookCategory(r) \/ UpdateBookCategory(r) \/ DeleteBookCategory(r)
                               \/ FindAllBooks(r) \/ CreateBook(r) \/ UpdateBook(r) \/ DeleteBook(r)
MasterclassCategoryAdmin(r) == \/ CreateMasterclassCategory(r) \/ UpdateMasterclassCategory(r)
                               \/ RemoveMasterclassCategory(r)
MasterclassCategories(r)    == FindAllMasterclassCategories(r)
MasterclassAdmin(r)         == CreateMasterclass(r) \/ UpdateMasterclass(r) \/ RemoveMasterclass(r)
Masterclasses(r)            == FindAllMasterclasses(r)
MasterclassBlockAdmin(r)    == \/ CreateMasterclassBlock(r) \/ UpdateMasterclassBlock(r)
                               \/ RemoveMasterclassBlock(r)
Plans(r)                    == CreatePlan(r) \/ UpdatePlan(r) \/ SoftDeletePlan(r)

CatalogueRequest(r) ==
    \/ AgeCategoryAdmin(r) \/ TrainingCategoryAdmin(r) \/ TrainingCategories(r)
    \/ LessonAdmin(r) \/ LessonList(r) \/ LessonBlockAdmin(r) \/ Books(r)
    \/ MasterclassCategoryAdmin(r) \/ MasterclassCategories(r)
    \/ MasterclassAdmin(r) \/ Masterclasses(r) \/ MasterclassBlockAdmin(r)
    \/ Plans(r)

CatalogueStep(r) ==
    \/ IsNext(r) /\ CatalogueRequest(r)
    \/ InsertRow(r)
    \/ UpdateRow(r)
    \/ EraseRow(r)
    \/ TurnPage(r)

\* Every row is of its kind and stands below a row of the parent's kind.
RowsFit ==
    /\ DOMAIN rows \subseteq Kinds \cup Requests
    /\ \A id \in DOMAIN rows :
          LET row == rows[id] IN
          /\ DOMAIN row = {"kind", "under", "data", "at"}
          /\ row.kind \in Kinds /\ row.data \in Contents(row.kind) /\ Fits(row.kind, row.under)

\* And it has a place of its own among its kind.
CatalogueTypeOK ==
    /\ RowsFit
    /\ \A id \in DOMAIN rows : rows[id].at \in Nat \ {0}
    /\ \A id, other \in DOMAIN rows :
          rows[id].kind = rows[other].kind /\ rows[id].at = rows[other].at => id = other

Listings   == {"findAllTrainingCategories", "findAllLessons", "findAllBooks",
               "findAllMasterclassCategories", "findAllMasterclasses"}
Creates    == {"createAgeCategory", "createTrainingCategory", "createLesson", "createBlock",
               "createCategory", "createBook", "createMasterclassCategory", "createMasterclass",
               "createMasterclassBlock", "createPlan"}
RowChanges == {"updateAgeCategory", "removeAgeCategory", "updateTrainingCategory",
               "removeTrainingCategory", "updateLesson", "removeLesson", "updateBlock", "removeBlock",
               "updateCategory", "deleteCategory", "updateBook", "deleteBook",
               "updateMasterclassCategory", "removeMasterclassCategory", "updateMasterclass",
               "removeMasterclass", "updateMasterclassBlock", "removeMasterclassBlock",
               "updatePlan", "softDeletePlan"}

\* Whether rows are on the list, and where, depends on their children.
LooksBelow(list) == list.filled \/ list.sort.by = "count"

\* What q writes can take rows out of the list or move them up in it: it changes
\* or removes rows of its kind, or their parents, or anything in their children.
Shifts(q, list) ==
    LET kind == call[q].what.kind IN
    \/ call[q].op \in RowChanges
       /\ kind \in {list.kind} \cup IF list.below = Nothing THEN {} ELSE {ParentOf[list.kind]}
    \/ call[q].op \in RowChanges \cup Creates /\ LooksBelow(list) /\ ParentOf[kind] = list.kind

RowsMove(r) == \E q \in Requests : Overlap(q, r) /\ Shifts(q, call[r].what.list)

\* A client that turns the pages of a list by number, whatever its filters and
\* its sort, sees every row that was on it when it began, unless rows the list
\* depends on were changed or removed meanwhile, or the row ties with another
\* in a sort by price or count, which no second column decides. Rows that are
\* only added cost it nothing, wherever in the order they come
\* (books.service.ts 80-142 and its likes). The lists by the reader's own
\* progress or subscription (lesson.service.ts 102-118,
\* training-category.service.ts 42-45) are not among them.
OffsetPagesExplained ==
    \A r \in Requests : pc[r] = "listed" /\ call[r].op \in Listings =>
        \A id \in call[r].what.ids \ saw[r].seen : RowsMove(r) \/ Tied(call[r].what.list, id)

-----------------------------------------------------------------------------
(* The inductive invariant. *)

\* What is about to be written is a row of its kind; blocks are not moved, and
\* a row is named by a request that has inserted it.
CallsFit ==
    \A r \in Requests :
        LET new == call[r].what IN
        /\ pc[r] \in {"inserting", "updating"} =>
              new.kind \in Kinds /\ new.data \in Contents(new.kind)
        /\ pc[r] = "updating" /\ new.kind \in Cascading => new.under = Nothing
        /\ r \in DOMAIN rows => pc[r] = "done"

CatalogueInv == RowsFit /\ CallsFit

(* And the one behind OffsetPagesExplained. *)

Listed == {"trainingCategory", "lesson", "book", "masterclassCategory", "masterclass"}

\* Rows have places of their own among their kind, and a new one comes last.
PlacesCounted ==
    \A id \in DOMAIN rows :
        /\ rows[id].at \in 1 .. 1 + Cardinality(Ended)
        /\ \A other \in Ids(rows[id].kind) : rows[other].at = rows[id].at => other = id

\* What a client lacks of the rows it began with is on the pages to come,
\* unless rows moved or tie.
OffsetStands(r) ==
    LET list == call[r].what.list
        ids  == call[r].what.ids
    IN /\ list.kind \in Listed /\ list.sort.by \in Sorts(list.kind)
       /\ saw[r].page \in Nat \ {0}
       /\ \/ RowsMove(r)
          \/ /\ ids \subseteq Selected(list)
             /\ \A id \in ids \ saw[r].seen :
                   \/ Tied(list, id)
                   \/ pc[r] = "turning" /\ Cardinality(Ahead(list, id)) >= saw[r].page * Limit

\* What the invariant says of one request.
OffsetHolds(r) ==
    /\ pc[r] = "turning" => call[r].op \in Listings
    /\ pc[r] = "inserting" => call[r].op \in Creates
    /\ pc[r] \in {"updating", "erasing"} => call[r].op \in RowChanges
    /\ call[r].op \in Listings => pc[r] \in {"turning", "listed"} \cup Verdicts
    /\ call[r].op \in Listings /\ pc[r] \in {"turning", "listed"} => OffsetStands(r)

OffsetInv == PlacesCounted /\ \A r \in Requests : OffsetHolds(r)
=============================================================================
