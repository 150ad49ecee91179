------------------------------- MODULE Legal --------------------------------
(***************************************************************************)
(* LegalService: versions of the legal documents of every type, of which   *)
(* one is meant to be active, and the consents users give to them.         *)
(*                                                                         *)
(* createDocument and updateDocument are interactive transactions at READ  *)
(* COMMITTED: every statement sees what is committed when it begins, rows  *)
(* written stay locked until the commit, and a writer that meets a locked  *)
(* row waits and looks at the row again.  A document is named by the       *)
(* request that inserted it.  Requests that are turned away (404, 409) and *)
(* the queries change nothing and have no action; the types of a request   *)
(* and of the documents it touches always agree.                           *)
(***************************************************************************)
EXTENDS Naturals, FiniteSets

CONSTANTS
    Types,
    Users,
    Requests    \* HTTP requests; bounds how many are ever made

ASSUME LegalAssumption == IsFiniteSet(Requests) /\ "none" \notin Types

VARIABLES
    doc,        \* doc[r]: the LegalDocument r inserted, NoDoc if there is none
    consents,   \* the UserConsent rows: <<user, document>>
    call,       \* call[r]: what request r asks for, and what it has read
    pc,         \* pc[r]: the statement r is at, or how it ended
    held,       \* held[r]: the rows r's open transaction has set inactive
    before,     \* before[r]: the requests that had ended when r began
    published   \* the documents that have ever been active

vars == <<doc, consents, call, pc, held, before, published>>

-----------------------------------------------------------------------------
NoDoc  == [type |-> "none", version |-> 0, active |-> FALSE]
NoCall == [op |-> "none"]

Versions == 1..Cardinality(Requests)
Docs == [type : Types, version : Versions, active : BOOLEAN]

Calls ==
    [op : {"create"}, type : Types, active : BOOLEAN, prev : SUBSET Requests, version : Versions]
        \cup [op : {"update"}, of : Requests, active : {"on", "off", "same"},
              siblings : SUBSET Requests]
        \cup [op : {"delete"}, of : Requests]
        \cup [op : {"accept"}, user : Users, docs : SUBSET Requests]

Waits == {"previous", "insert", "siblings", "lock", "write", "delete", "accept"}
Ends  == {"done", "aborted"}

TypeOK ==
    /\ doc \in [Requests -> Docs \cup {NoDoc}]
    /\ consents \subseteq Users \X Requests
    /\ call \in [Requests -> Calls \cup {NoCall}]
    /\ pc \in [Requests -> {"idle"} \cup Waits \cup Ends]
    /\ held \in [Requests -> SUBSET Requests]
    /\ before \in [Requests -> SUBSET Requests]
    /\ published \subseteq Requests

Exists(d) == doc[d] # NoDoc

\* Documents of type t, the active ones, and the one with the highest version.
Of(t) == {d \in Requests : doc[d].type = t}
Active(t) == {d \in Of(t) : doc[d].active}
Latest(D) == {d \in D : \A e \in D : doc[e].version <= doc[d].version}

\* Mutant: getActiveByType orders by version the other way round.
ShownOldest(t) ==
    {d \in Active(t) : \A e \in Active(t) : doc[d].version <= doc[e].version}

\* getActiveByType: the active document with the highest version.
Shown(t) == Latest(Active(t))

\* No other transaction has written d and is still open.
Unlocked(r, d) == \A s \in Requests \ {r} : d \notin held[s]

Init ==
    /\ doc = [r \in Requests |-> NoDoc]
    /\ consents = {}
    /\ call = [r \in Requests |-> NoCall]
    /\ pc = [r \in Requests |-> "idle"]
    /\ held = [r \in Requests |-> {}]
    /\ before = [r \in Requests |-> {}]
    /\ published = {}

Begin(r, c, l) ==
    /\ pc[r] = "idle"
    /\ call' = [call EXCEPT ![r] = c]
    /\ pc' = [pc EXCEPT ![r] = l]
    /\ before' = [before EXCEPT ![r] = {s \in Requests : pc[s] \in Ends}]
    /\ UNCHANGED <<doc, consents, held, published>>

Goto(r, l) == pc' = [pc EXCEPT ![r] = l]

\* r's transaction commits: what it holds becomes inactive, and changed[d] is
\* the new value of the documents in the domain of changed.
Commit(r, changed) ==
    /\ doc' = [d \in Requests |-> IF d \in DOMAIN changed THEN changed[d]
                                  ELSE IF d \in held[r] THEN [doc[d] EXCEPT !.active = FALSE]
                                  ELSE doc[d]]
    /\ published' = published \cup {d \in Requests : doc'[d].active}
    /\ held' = [held EXCEPT ![r] = {}]
    /\ Goto(r, "done")

-----------------------------------------------------------------------------
(* createDocument *)

\* Mutant: the first version is 0.
CreateFromZero(r, t, active) ==
    LET prev == Latest(Of(t))
        version == IF prev = {} THEN 0 ELSE 1 + doc[CHOOSE d \in prev : TRUE].version
    IN  Begin(r, [op |-> "create", type |-> t, active |-> active, prev |-> prev,
                  version |-> version],
              IF active /\ prev \cap Active(t) # {} THEN "previous" ELSE "insert")

\* The newest document of the type is read: its version decides the new one.
CreateDocument(r, t, active) ==
    LET prev == Latest(Of(t))
        version == IF prev = {} THEN 1 ELSE 1 + doc[CHOOSE d \in prev : TRUE].version
    IN  Begin(r, [op |-> "create", type |-> t, active |-> active, prev |-> prev,
                  version |-> version],
              IF active /\ prev \cap Active(t) # {} THEN "previous" ELSE "insert")

\* Mutant: the previous version is set inactive outside the transaction.
DeactivateAtOnce(r) ==
    /\ pc[r] = "previous"
    /\ \A d \in call[r].prev : Exists(d) /\ Unlocked(r, d)
    /\ doc' = [d \in Requests |-> IF d \in call[r].prev THEN [doc[d] EXCEPT !.active = FALSE]
                                  ELSE doc[d]]
    /\ Goto(r, "insert")
    /\ UNCHANGED <<call, before, consents, held, published>>

\* Only that document is set inactive, by its id.
DeactivatePrevious(r) ==
    /\ pc[r] = "previous"
    /\ \A d \in call[r].prev : Exists(d) /\ Unlocked(r, d)
    /\ held' = [held EXCEPT ![r] = call[r].prev]
    /\ Goto(r, "insert")
    /\ UNCHANGED <<doc, consents, call, before, published>>

\* (type, version) is unique.
InsertDocument(r) ==
    /\ pc[r] = "insert"
    /\ \A d \in Of(call[r].type) : doc[d].version # call[r].version
    /\ Commit(r, [d \in {r} |-> [type |-> call[r].type, version |-> call[r].version,
                                 active |-> call[r].active]])
    /\ UNCHANGED <<consents, call, before>>

-----------------------------------------------------------------------------
(* updateDocument *)

\* The document is read; only its activation looks at its siblings.
UpdateDocument(r, d, active) ==
    /\ Exists(d)
    /\ Begin(r, [op |-> "update", of |-> d, active |-> active, siblings |-> {}],
             IF active = "on" /\ ~doc[d].active THEN "siblings" ELSE "write")

\* Mutant: only the sibling that is shown is set inactive.
SelectShown(r) ==
    /\ pc[r] = "siblings"
    /\ call' = [call EXCEPT ![r].siblings = Shown(doc[call[r].of].type) \ {call[r].of}]
    /\ Goto(r, "lock")
    /\ UNCHANGED <<doc, consents, held, before, published>>

\* updateMany: the active siblings committed by now, ...
SelectSiblings(r) ==
    /\ pc[r] = "siblings"
    /\ Exists(call[r].of)
    /\ call' = [call EXCEPT ![r].siblings = Active(doc[call[r].of].type) \ {call[r].of}]
    /\ Goto(r, "lock")
    /\ UNCHANGED <<doc, consents, held, before, published>>

\* ... of which it takes those still active once nobody else holds them.
LockSiblings(r) ==
    /\ pc[r] = "lock"
    /\ \A d \in call[r].siblings : Unlocked(r, d)
    /\ held' = [held EXCEPT ![r] = {d \in call[r].siblings : doc[d].active}]
    /\ Goto(r, "write")
    /\ UNCHANGED <<doc, consents, call, before, published>>

\* isActive is written as the body says, or left alone.
WriteDocument(r) ==
    LET d == call[r].of
        active == IF call[r].active = "same" THEN doc[d].active ELSE call[r].active = "on"
    IN  /\ pc[r] = "write"
        /\ Exists(d) /\ Unlocked(r, d)
        /\ Commit(r, [e \in {d} |-> [doc[e] EXCEPT !.active = active]])
        /\ UNCHANGED <<consents, call, before>>

-----------------------------------------------------------------------------
(* deleteDocument and acceptConsents *)

\* Mutant: any document may be deleted.
DeleteAnything(r, d) ==
    /\ Exists(d)
    /\ Begin(r, [op |-> "delete", of |-> d], "delete")

\* An active document is refused.
DeleteDocument(r, d) ==
    /\ Exists(d) /\ ~doc[d].active
    /\ Begin(r, [op |-> "delete", of |-> d], "delete")

\* The row goes by its id, and the consents given to it with it.
DeleteRow(r) ==
    LET d == call[r].of
    IN  /\ pc[r] = "delete"
        /\ Exists(d) /\ Unlocked(r, d)
        /\ doc' = [doc EXCEPT ![d] = NoDoc]
        /\ consents' = {c \in consents : c[2] # d}
        /\ Goto(r, "done")
        /\ UNCHANGED <<call, held, before, published>>

\* All the documents named exist and are active.
AcceptConsents(r, u, docs) ==
    /\ docs # {} /\ \A d \in docs : Exists(d) /\ doc[d].active
    /\ Begin(r, [op |-> "accept", user |-> u, docs |-> docs], "accept")

\* Mutant: the foreign key of UserConsent does not look.
WriteConsentsUnchecked(r) ==
    /\ pc[r] = "accept"
    /\ consents' = consents \cup {<<call[r].user, d>> : d \in call[r].docs}
    /\ Goto(r, "done")
    /\ UNCHANGED <<doc, call, held, before, published>>

\* One transaction; accepting twice changes nothing.
WriteConsents(r) ==
    /\ pc[r] = "accept"
    /\ \A d \in call[r].docs : Exists(d)
    /\ consents' = consents \cup {<<call[r].user, d>> : d \in call[r].docs}
    /\ Goto(r, "done")
    /\ UNCHANGED <<doc, call, held, before, published>>

\* A statement throws (a unique or foreign key, a row that is gone, a
\* deadlock) or the process dies: the transaction is rolled back.
Abort(r) ==
    /\ pc[r] \in Waits
    /\ held' = [held EXCEPT ![r] = {}]
    /\ Goto(r, "aborted")
    /\ UNCHANGED <<doc, consents, call, before, published>>

-----------------------------------------------------------------------------
Arrive(r) ==
    \/ \E t \in Types, active \in BOOLEAN : CreateDocument(r, t, active)
    \/ \E d \in Requests, active \in {"on", "off", "same"} : UpdateDocument(r, d, active)
    \/ \E d \in Requests : DeleteDocument(r, d)
    \/ \E u \in Users, docs \in SUBSET Requests : AcceptConsents(r, u, docs)

Handle(r) ==
    \/ DeactivatePrevious(r)
    \/ InsertDocument(r)
    \/ SelectSiblings(r)
    \/ LockSiblings(r)
    \/ WriteDocument(r)
    \/ DeleteRow(r)
    \/ WriteConsents(r)
    \/ Abort(r)

Next == \E r \in Requests : Arrive(r) \/ Handle(r)

Spec == Init /\ [][Next]_vars

-----------------------------------------------------------------------------
(* Safety *)

Overlap(r, s) == r # s /\ r \notin before[s] /\ s \notin before[r]

\* Nothing was in flight while r was.
Alone(r) == \A s \in Requests \ {r} : pc[s] = "idle" \/ s \in before[r]

\* The step completes r's call of the given kind.
Completes(r, op) == call[r].op = op /\ pc[r] \in Waits /\ pc'[r] = "done"

\* Users agree only to texts that were in force at some time, and their
\* agreement never outlives the text: a row deleted between the check of
\* acceptConsents and its writes takes the request down, not the reference.
ConsentsStand ==
    \A c \in consents : c[2] \in published /\ Exists(c[2])

\* Publishing replaces the text of a type without a moment in which there is
\* none: only an explicit deactivation or a deletion takes the last one away.
NeverWithoutText ==
    [][\A t \in Types : Active(t) # {} /\ Active(t)' = {} =>
          \E r \in Requests :
             \/ Completes(r, "delete")
             \/ Completes(r, "update") /\ call[r].active = "off"]_vars

\* A version published while no other request is in flight is what everybody
\* is shown from then on, whatever drafts and deleted versions came before.
PublishedIsShown ==
    [][\A r \in Requests :
          Completes(r, "create") /\ call[r].active /\ Alone(r) =>
             Shown(call[r].type)' = {r}]_vars

\* An activation with no other request in flight restores the one active
\* document per type, even where createDocument has left several.
ActivationRestoresOne ==
    [][\A r \in Requests :
          Completes(r, "update") /\ ~doc[call[r].of].active /\ doc'[call[r].of].active /\ Alone(r) =>
             Active(doc[call[r].of].type)' = {call[r].of}]_vars

\* A document that is active is deleted only by a request that overlaps the
\* one that activated it: the 409 of deleteDocument stops all others.
ActiveDeletedOnlyByOverlap ==
    [][\A d \in Requests : doc[d].active /\ doc'[d] = NoDoc =>
          \E r, s \in Requests :
             /\ Completes(r, "delete") /\ call[r].of = d
             /\ call[s].op = "update" /\ call[s].of = d /\ Overlap(r, s)]_vars

-----------------------------------------------------------------------------
(* What the code claims, and its steps do not give. *)

\* 'preserve the "one active per type" invariant': at least while requests
\* come one after the other, no type has two active documents.
OneActivePerType ==
    (\A r, s \in Requests : pc[r] # "idle" /\ pc[s] # "idle" => ~Overlap(r, s))
        => \A t \in Types : Cardinality(Active(t)) <= 1

-----------------------------------------------------------------------------
(* The inductive invariant behind the theorems of LegalProofs. *)

\* The requests that have inserted their document, which may be deleted since.
Created == {r \in Requests : call[r].op = "create" /\ pc[r] = "done"}

\* What kind of request stands at which statement.
WaitMatchesCall ==
    \A r \in Requests :
        /\ pc[r] = "idle" <=> call[r].op = "none"
        /\ pc[r] \in {"previous", "insert"} => call[r].op = "create"
        /\ pc[r] = "previous" => call[r].active
        /\ pc[r] \in {"siblings", "lock", "write"} => call[r].op = "update"
        /\ pc[r] \in {"siblings", "lock"} => call[r].active = "on"
        /\ pc[r] = "delete" => call[r].op = "delete"
        /\ pc[r] = "accept" => call[r].op = "accept"
        /\ \A s \in before[r] : pc[s] \in Ends

\* What a transaction has set inactive is of the type of the document it is
\* about to activate.
HeldForActivation ==
    \A r \in Requests : held[r] # {} =>
        \/ pc[r] = "insert" /\ call[r].active /\ held[r] \subseteq call[r].prev
        \/ pc[r] = "write" /\ call[r].active = "on" /\ held[r] \subseteq call[r].siblings

\* Documents come from their requests, and what the others have read of them
\* does not change.
DocsAreCreated ==
    /\ \A d \in Requests : Exists(d) =>
          d \in Created /\ doc[d].type = call[d].type /\ doc[d].version <= Cardinality(Created)
    /\ \A r \in Requests : call[r].op = "create" =>
          /\ call[r].version <= Cardinality(Created) + 1
          /\ \A d \in call[r].prev : d \in Created /\ call[d].type = call[r].type
    /\ \A r \in Requests : call[r].op \in {"update", "delete"} => call[r].of \in Created
    /\ \A r \in Requests : call[r].op = "update" =>
          \A d \in call[r].siblings : d \in Created /\ call[d].type = call[call[r].of].type

\* What is agreed to was in force.
AcceptedWasPublished ==
    /\ \A d \in Requests : doc[d].active => d \in published
    /\ \A r \in Requests : call[r].op = "accept" => call[r].docs \subseteq published

\* While a request runs alone nothing it has read goes stale.
AloneSeesAll ==
    \A r \in Requests : Alone(r) =>
        /\ pc[r] \in {"previous", "insert"} =>
              \A d \in Of(call[r].type) : doc[d].version < call[r].version
        /\ pc[r] = "lock" =>
              Active(call[call[r].of].type) \ {call[r].of} \subseteq call[r].siblings
        /\ pc[r] = "write" /\ call[r].active = "on" /\ ~doc[call[r].of].active =>
              Active(call[call[r].of].type) \ {call[r].of} \subseteq held[r]

\* A document found inactive and active since was activated meanwhile.
ActivatedMeanwhile ==
    \A r \in Requests : pc[r] = "delete" /\ doc[call[r].of].active =>
        \E s \in Requests : call[s].op = "update" /\ call[s].of = call[r].of /\ Overlap(r, s)

IInv ==
    /\ TypeOK /\ WaitMatchesCall /\ HeldForActivation /\ DocsAreCreated
    /\ AcceptedWasPublished /\ ConsentsStand /\ AloneSeesAll /\ ActivatedMeanwhile

=============================================================================
