------------------------------- MODULE Cards --------------------------------
(***************************************************************************)
(* CardsService for one user: adding a card in two steps (initAdd,         *)
(* verifyAdd) and removing it, each a handful of queries with calls to     *)
(* Click between them and no transaction around them.                      *)
(*                                                                         *)
(* A number stands for the pair (last4, expireDate) by which the service   *)
(* recognises a card.  A row is named by the initAdd that inserted it, and *)
(* a token by the initAdd that asked Click for it; the permanent token     *)
(* that verification swaps in keeps that name.  What the removal does to   *)
(* the subscriptions is in module Renewal.                                 *)
(***************************************************************************)
EXTENDS Naturals, FiniteSets, FiniteSetsExt

CONSTANTS
    Numbers,
    Requests    \* HTTP requests; bounds how many are ever made

ASSUME CardsAssumption == IsFiniteSet(Requests)

VARIABLES
    row,      \* row[r]: the Card row r inserted, NoRow if there is none
    token,    \* token[r]: what Click knows of the token issued to r
    call,     \* call[r]: what request r asks for, and what it has read
    pc,       \* pc[r]: the await at which r is suspended, or how it ended
    before    \* before[r]: the requests that had ended when r began

vars == <<row, token, call, pc, before>>

-----------------------------------------------------------------------------
NoRow  == [nr |-> 0]
NoCall == [op |-> "none"]

\* nr: the order of createdAt
Rows == [nr : 1..Cardinality(Requests), number : Numbers, token : Requests, verified : BOOLEAN]

Calls ==
    [op : {"init"}, number : Numbers, pending : SUBSET Requests]
        \cup [op : {"verify", "remove"}, of : Requests, token : Requests]

Awaits == {"token", "pending", "store", "sms", "confirm", "revoke", "delete"}
Ends   == {"done", "aborted"}

\* "kept": confirmed, and the revocation failed.
TypeOK ==
    /\ row \in [Requests -> Rows \cup {NoRow}]
    /\ token \in [Requests -> {"none", "temporary", "confirmed", "kept", "revoked"}]
    /\ call \in [Requests -> Calls \cup {NoCall}]
    /\ pc \in [Requests -> {"idle"} \cup Awaits \cup Ends]
    /\ before \in [Requests -> SUBSET Requests]

Present == {d \in Requests : row[d] # NoRow}
OfNumber(n) == {d \in Present : row[d].number = n}

Goto(r, l) == pc' = [pc EXCEPT ![r] = l]

Begin(r, c, l) ==
    /\ pc[r] = "idle"
    /\ call' = [call EXCEPT ![r] = c]
    /\ Goto(r, l)
    /\ before' = [before EXCEPT ![r] = {s \in Requests : pc[s] \in Ends}]
    /\ UNCHANGED <<row, token>>

Init ==
    /\ row = [r \in Requests |-> NoRow]
    /\ token = [r \in Requests |-> "none"]
    /\ call = [r \in Requests |-> NoCall]
    /\ pc = [r \in Requests |-> "idle"]
    /\ before = [r \in Requests |-> {}]

-----------------------------------------------------------------------------
(* initAdd *)

\* Mutant: a card already saved is not refused.
InitAddAgain(r, n) == Begin(r, [op |-> "init", number |-> n, pending |-> {}], "token")

\* A verified row of the same number is refused.
InitAdd(r, n) ==
    /\ \A d \in OfNumber(n) : ~row[d].verified
    /\ Begin(r, [op |-> "init", number |-> n, pending |-> {}], "token")

\* Click issues a token and sends the SMS.
TokenIssued(r) ==
    /\ pc[r] = "token"
    /\ token' = [token EXCEPT ![r] = "temporary"]
    /\ Goto(r, "pending")
    /\ UNCHANGED <<row, call, before>>

\* The newest unverified row of the number is taken up again.
FindPending(r) ==
    LET unverified == {d \in OfNumber(call[r].number) : ~row[d].verified}
    IN  /\ pc[r] = "pending"
        /\ call' = [call EXCEPT ![r].pending =
                       {d \in unverified : \A e \in unverified : row[e].nr <= row[d].nr}]
        /\ Goto(r, "store")
        /\ UNCHANGED <<row, token, before>>

\* The row the token of t goes into: the one taken up again, by its id, or a
\* new one.
Home(t) == IF call[t].pending = {} THEN t ELSE CHOOSE d \in call[t].pending : TRUE

\* That row gets the token, unverified.
StoreToken(r) ==
    LET target == Home(r)
        nr == IF target = r THEN 1 + Max({0} \cup {row[d].nr : d \in Present})
                            ELSE row[target].nr
    IN  /\ pc[r] = "store"
        /\ call[r].pending \subseteq Present
        /\ row' = [row EXCEPT ![target] = [nr |-> nr, number |-> call[r].number, token |-> r,
                                           verified |-> FALSE]]
        /\ Goto(r, "done")
        /\ UNCHANGED <<token, call, before>>

-----------------------------------------------------------------------------
(* verifyAdd *)

\* The row is read; a verified one is refused.
VerifyAdd(r, d) ==
    /\ d \in Present /\ ~row[d].verified
    /\ Begin(r, [op |-> "verify", of |-> d, token |-> row[d].token], "sms")

\* Click accepts the SMS code for the token that was read.
SmsAccepted(r) ==
    /\ pc[r] = "sms"
    /\ token[call[r].token] \in {"temporary", "confirmed", "kept"}
    /\ token' = [token EXCEPT ![call[r].token] = IF @ = "kept" THEN "kept" ELSE "confirmed"]
    /\ Goto(r, "confirm")
    /\ UNCHANGED <<row, call, before>>

\* Mutant: the row keeps whatever token it has by now.
ConfirmKeepingToken(r) ==
    LET d == call[r].of
    IN  /\ pc[r] = "confirm"
        /\ d \in Present
        /\ row' = [row EXCEPT ![d].verified = TRUE]
        /\ Goto(r, "done")
        /\ UNCHANGED <<token, call, before>>

\* The token Click confirmed goes into the row, whatever is there by now.
ConfirmCard(r) ==
    LET d == call[r].of
    IN  /\ pc[r] = "confirm"
        /\ d \in Present
        /\ row' = [row EXCEPT ![d].verified = TRUE, ![d].token = call[r].token]
        /\ Goto(r, "done")
        /\ UNCHANGED <<token, call, before>>

-----------------------------------------------------------------------------
(* remove *)

RemoveCard(r, d) ==
    /\ d \in Present
    /\ Begin(r, [op |-> "remove", of |-> d, token |-> row[d].token], "revoke")

\* Mutant: Click is not told.
RevokeNothing(r) ==
    /\ pc[r] = "revoke"
    /\ Goto(r, "delete")
    /\ UNCHANGED <<row, token, call, before>>

\* Click revokes the token that was read, or fails to: the error is caught.
Revoke(r) ==
    /\ pc[r] = "revoke"
    /\ \/ token' = [token EXCEPT ![call[r].token] = "revoked"]
       \/ token' = [token EXCEPT ![call[r].token] = IF @ = "confirmed" THEN "kept" ELSE @]
    /\ Goto(r, "delete")
    /\ UNCHANGED <<row, call, before>>

\* Mutant: the row is blanked instead of deleted.
DeleteContents(r) ==
    /\ pc[r] = "delete"
    /\ call[r].of \in Present
    /\ row' = [row EXCEPT ![call[r].of] = [nr |-> row[call[r].of].nr]]
    /\ Goto(r, "done")
    /\ UNCHANGED <<token, call, before>>

DeleteCard(r) ==
    /\ pc[r] = "delete"
    /\ call[r].of \in Present
    /\ row' = [row EXCEPT ![call[r].of] = NoRow]
    /\ Goto(r, "done")
    /\ UNCHANGED <<token, call, before>>

\* Click answers with an error, a query throws (the row is gone), or the
\* process dies.
Abort(r) ==
    /\ pc[r] \in Awaits
    /\ Goto(r, "aborted")
    /\ UNCHANGED <<row, token, call, before>>

-----------------------------------------------------------------------------
Arrive(r) ==
    \/ \E n \in Numbers : InitAdd(r, n)
    \/ \E d \in Requests : VerifyAdd(r, d) \/ RemoveCard(r, d)

Handle(r) ==
    \/ TokenIssued(r)
    \/ FindPending(r)
    \/ StoreToken(r)
    \/ SmsAccepted(r)
    \/ ConfirmCard(r)
    \/ Revoke(r)
    \/ DeleteCard(r)
    \/ Abort(r)

Next == \E r \in Requests : Arrive(r) \/ Handle(r)

Spec == Init /\ [][Next]_vars

-----------------------------------------------------------------------------
(* Safety *)

\* Two requests were in flight at the same time.
Overlap(r, s) ==
    /\ r # s /\ pc[r] # "idle" /\ pc[s] # "idle"
    /\ r \notin before[s] /\ s \notin before[r]

\* A card the service calls verified can be charged: its holder confirmed that
\* very token by SMS, although the row may have got another token between the
\* read and the write of verifyAdd.  Only a removal that has revoked the token
\* and not (or never) deleted the row leaves a verified card that is dead.
VerifiedIsChargeable ==
    \A d \in Present : row[d].verified =>
        \/ token[row[d].token] \in {"confirmed", "kept"}
        \/ /\ token[row[d].token] = "revoked"
           /\ \E r \in Requests : call[r].op = "remove" /\ call[r].of = d /\ pc[r] # "done"

\* The same card is in two rows only if the requests that inserted them were
\* in flight together, or the older row was being verified while the second
\* was inserted: the check for duplicates and the reuse of the pending row
\* stop everything else.
TwinsOnlyByOverlap ==
    \A c, d \in Present : c # d /\ row[c].number = row[d].number =>
        \/ Overlap(c, d)
        \/ \E v, i \in {c, d} : \E r \in Requests :
              call[r].op = "verify" /\ call[r].of = v /\ v # i /\ Overlap(r, i)

\* A card that Click would still charge and no row knows of (nobody can revoke
\* it any more) is left behind only by a failed revocation, a request that was
\* cut short, or a verification that another request ran into.
OrphanExplained ==
    \A t \in Requests :
        token[t] = "confirmed" /\ (\A d \in Present : row[d].token # t) =>
           \E v \in Requests :
              /\ call[v].op = "verify" /\ call[v].token = t
              /\ pc[v] # "done" \/ \E r \in Requests : Overlap(v, r)

-----------------------------------------------------------------------------
(* The inductive invariant behind the theorems of CardsProofs. *)

\* The requests that have stored the token issued to them.
Stored == {r \in Requests : call[r].op = "init" /\ pc[r] = "done"}

\* What kind of request waits where.
AwaitMatchesCall ==
    \A r \in Requests :
        /\ pc[r] = "idle" <=> call[r].op = "none"
        /\ pc[r] \in {"token", "pending", "store"} => call[r].op = "init"
        /\ pc[r] \in {"sms", "confirm"} => call[r].op = "verify"
        /\ pc[r] \in {"revoke", "delete"} => call[r].op = "remove"
        /\ \A s \in before[r] : pc[s] \in Ends

\* A token is only ever seen in one row: in the table, and in what the requests
\* about that row have read.
TokensAtHome ==
    /\ \A d \in Present :
          d \in Stored /\ row[d].token \in Stored /\ Home(row[d].token) = d
    /\ \A r \in Requests : call[r].op \in {"verify", "remove"} =>
          call[r].of \in Stored /\ call[r].token \in Stored /\ Home(call[r].token) = call[r].of

\* What Click still knows of the tokens the service relies on; a row deleted
\* does not come back.
TokensKnown ==
    /\ \A r \in Requests : call[r].op = "verify" /\ pc[r] \in {"confirm", "done"} =>
          token[call[r].token] \in {"confirmed", "kept", "revoked"}
    /\ \A d \in Present : row[d].verified =>
          token[row[d].token] \in {"confirmed", "kept", "revoked"}
    /\ \A t \in Requests :
          /\ token[t] = "confirmed" => \E v \in Requests : call[v].op = "verify" /\ call[v].token = t
          /\ token[t] = "revoked" => \E r \in Requests : call[r].op = "remove" /\ call[r].token = t
    /\ \A r \in Requests : call[r].op = "remove" /\ pc[r] = "done" => call[r].of \notin Present

\* The rows taken up again are older rows of the same number, and every
\* insertion raises the order of creation by one at most.
PendingIsOlder ==
    /\ \A r \in Requests : call[r].op = "init" =>
          /\ call[r].pending \subseteq Stored \ {r}
          /\ \A d \in call[r].pending \cap Present : row[d].number = call[r].number
    /\ \A d \in Present :
          /\ call[d].pending = {}
          /\ row[d].number = call[d].number
          /\ row[d].nr <= Cardinality(Stored)

\* An initAdd that began after the row c was there goes on to a row of its own
\* only if c was verified meanwhile.
VerifiedMeanwhile(c, d) ==
    \E r \in Requests : call[r].op = "verify" /\ call[r].of = c /\ Overlap(r, d)

TwinsSeen ==
    \A d \in Requests : call[d].op = "init" =>
        \A c \in before[d] \cap Present : row[c].number = call[d].number =>
            /\ pc[d] \in {"token", "pending"} /\ row[c].verified => VerifiedMeanwhile(c, d)
            /\ pc[d] \in {"store", "done"} /\ call[d].pending = {} => VerifiedMeanwhile(c, d)

\* A verification that nobody ran into: its row stays as it left it until a
\* removal has dealt with its token.
Undisturbed(v) == \A r \in Requests : ~Overlap(v, r)

ConfirmedStays ==
    \A v \in Requests :
        /\ call[v].op = "verify" /\ pc[v] = "done"
        /\ token[call[v].token] = "confirmed" /\ Undisturbed(v)
        => /\ call[v].of \in Present
           /\ row[call[v].of].verified /\ row[call[v].of].token = call[v].token
           /\ \A r \in Requests :
                 /\ pc[r] = "store" => call[v].of \notin call[r].pending
                 /\ pc[r] \in {"sms", "confirm", "delete"} => call[r].of # call[v].of
                 /\ pc[r] = "revoke" /\ call[r].of = call[v].of => call[r].token = call[v].token

IInv ==
    /\ TypeOK /\ AwaitMatchesCall /\ TokensAtHome /\ TokensKnown
    /\ PendingIsOlder /\ TwinsSeen /\ ConfirmedStays

=============================================================================
