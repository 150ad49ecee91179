---------------------------- MODULE CardsProofs -----------------------------
(***************************************************************************)
(* Theorems about Cards for every set of card numbers and every finite set *)
(* of requests.                                                            *)
(***************************************************************************)
EXTENDS Cards, BoundedSets

-----------------------------------------------------------------------------
(* Counting *)

\* Max finds the largest one of a set of bounded numbers.
LEMMA MaxBounded ==
    ASSUME NEW k \in Nat, NEW S \in SUBSET (0..k), S # {}
    PROVE  Max(S) \in S /\ \A x \in S : x <= Max(S)
<1>1. PICK x \in S : \A y \in S : x >= y
  BY LargestExists
<1>2. QED
  BY <1>1 DEF Max

\* The requests that have stored their token can be counted.
LEMMA StoredCount ==
    /\ IsFiniteSet(Stored)
    /\ Cardinality(Stored) \in Nat /\ Cardinality(Requests) \in Nat
    /\ Cardinality(Stored) <= Cardinality(Requests)
<1>1. Stored \in SUBSET Requests
  BY DEF Stored
<1>2. QED
  BY <1>1, CardsAssumption, PartCounted

\* One more of them makes the count one larger.
LEMMA OneMoreStored ==
    ASSUME NEW x \in Requests, x \notin Stored
    PROVE  /\ Cardinality(Stored \cup {x}) = Cardinality(Stored) + 1
           /\ Cardinality(Stored) + 1 <= Cardinality(Requests)
<1>1. Stored \in SUBSET Requests
  BY DEF Stored
<1>2. QED
  BY <1>1, CardsAssumption, OneMoreCounted

-----------------------------------------------------------------------------
(* What the steps change *)

\* The row of a request is present when it has the fields of a row.
LEMMA RowPresent ==
    ASSUME TypeOK, NEW d \in Requests
    PROVE  /\ d \in Present <=> row[d] \in Rows
           /\ d \in Present => /\ row[d].token \in Requests /\ row[d].verified \in BOOLEAN
                               /\ row[d].number \in Numbers /\ row[d].nr \in Nat
                               /\ row[d].nr >= 1
BY StoredCount DEF TypeOK, Rows, NoRow, Present

\* A request that arrives: what its first query has read.
LEMMA ArriveFrame ==
    ASSUME TypeOK, NEW x \in Requests, Arrive(x)
    PROVE  /\ UNCHANGED <<row, token>>
           /\ pc[x] = "idle" /\ before'[x] = {s \in Requests : pc[s] \in Ends}
           /\ \A s \in Requests \ {x} :
                 pc'[s] = pc[s] /\ call'[s] = call[s] /\ before'[s] = before[s]
           /\ \/ /\ pc'[x] = "token" /\ call'[x].op = "init" /\ call'[x].pending = {}
                 /\ \A d \in Present : row[d].number = call'[x].number => ~row[d].verified
              \/ /\ pc'[x] = "sms" /\ call'[x].op = "verify"
                 /\ call'[x].of \in Present /\ ~row[call'[x].of].verified
                 /\ call'[x].token = row[call'[x].of].token
              \/ /\ pc'[x] = "revoke" /\ call'[x].op = "remove"
                 /\ call'[x].of \in Present /\ call'[x].token = row[call'[x].of].token
           /\ call'[x] \in Calls
<1>1. ASSUME NEW c, NEW l, Begin(x, c, l)
      PROVE  /\ UNCHANGED <<row, token>>
             /\ pc[x] = "idle" /\ pc'[x] = l /\ call'[x] = c
             /\ before'[x] = {s \in Requests : pc[s] \in Ends}
             /\ \A s \in Requests \ {x} :
                   pc'[s] = pc[s] /\ call'[s] = call[s] /\ before'[s] = before[s]
  BY <1>1 DEF Begin, Goto, TypeOK
<1>2. ASSUME NEW n \in Numbers, InitAdd(x, n)
      PROVE  /\ Begin(x, [op |-> "init", number |-> n, pending |-> {}], "token")
             /\ [op |-> "init", number |-> n, pending |-> {}] \in Calls
             /\ \A d \in Present : row[d].number = n => ~row[d].verified
  BY <1>2 DEF InitAdd, OfNumber, Calls
<1>3. ASSUME NEW d \in Requests, VerifyAdd(x, d)
      PROVE  /\ d \in Present /\ ~row[d].verified
             /\ Begin(x, [op |-> "verify", of |-> d, token |-> row[d].token], "sms")
             /\ [op |-> "verify", of |-> d, token |-> row[d].token] \in Calls
  BY <1>3, RowPresent DEF VerifyAdd, Calls
<1>4. ASSUME NEW d \in Requests, RemoveCard(x, d)
      PROVE  /\ d \in Present
             /\ Begin(x, [op |-> "remove", of |-> d, token |-> row[d].token], "revoke")
             /\ [op |-> "remove", of |-> d, token |-> row[d].token] \in Calls
  BY <1>4, RowPresent DEF RemoveCard, Calls
<1>5. ASSUME NEW n \in Numbers, InitAdd(x, n)
      PROVE  /\ pc'[x] = "token" /\ call'[x].op = "init" /\ call'[x].pending = {}
             /\ \A d \in Present : row[d].number = call'[x].number => ~row[d].verified
             /\ call'[x] \in Calls
  <2>1. call'[x] = [op |-> "init", number |-> n, pending |-> {}] /\ pc'[x] = "token"
    BY <1>1, <1>2, <1>5
  <2>2. QED
    BY <1>2, <1>5, <2>1
<1>6. ASSUME NEW d \in Requests, VerifyAdd(x, d)
      PROVE  /\ pc'[x] = "sms" /\ call'[x].op = "verify"
             /\ call'[x].of \in Present /\ ~row[call'[x].of].verified
             /\ call'[x].token = row[call'[x].of].token
             /\ call'[x] \in Calls
  <2>1. call'[x] = [op |-> "verify", of |-> d, token |-> row[d].token] /\ pc'[x] = "sms"
    BY <1>1, <1>3, <1>6
  <2>2. QED
    BY <1>3, <1>6, <2>1
<1>7. ASSUME NEW d \in Requests, RemoveCard(x, d)
      PROVE  /\ pc'[x] = "revoke" /\ call'[x].op = "remove"
             /\ call'[x].of \in Present /\ call'[x].token = row[call'[x].of].token
             /\ call'[x] \in Calls
  <2>1. call'[x] = [op |-> "remove", of |-> d, token |-> row[d].token] /\ pc'[x] = "revoke"
    BY <1>1, <1>4, <1>7
  <2>2. QED
    BY <1>4, <1>7, <2>1
<1>8. PICK c, l : Begin(x, c, l)
  BY DEF Arrive, InitAdd, VerifyAdd, RemoveCard
<1>9. /\ UNCHANGED <<row, token>>
      /\ pc[x] = "idle" /\ before'[x] = {s \in Requests : pc[s] \in Ends}
      /\ \A s \in Requests \ {x} :
            pc'[s] = pc[s] /\ call'[s] = call[s] /\ before'[s] = before[s]
  BY <1>1, <1>8
<1>10. \/ \E n \in Numbers : InitAdd(x, n)
       \/ \E d \in Requests : VerifyAdd(x, d)
       \/ \E d \in Requests : RemoveCard(x, d)
  BY DEF Arrive
<1>11. CASE \E n \in Numbers : InitAdd(x, n)
  <2>1. PICK n \in Numbers : InitAdd(x, n)
    BY <1>11
  <2>2. QED
    BY <1>5, <1>9, <2>1
<1>12. CASE \E d \in Requests : VerifyAdd(x, d)
  <2>1. PICK d \in Requests : VerifyAdd(x, d)
    BY <1>12
  <2>2. QED
    BY <1>6, <1>9, <2>1
<1>13. CASE \E d \in Requests : RemoveCard(x, d)
  <2>1. PICK d \in Requests : RemoveCard(x, d)
    BY <1>13
  <2>2. QED
    BY <1>7, <1>9, <2>1
<1>14. QED
  BY <1>10, <1>11, <1>12, <1>13

\* A step of a handler: its own pc, its own call, nobody's before.
LEMMA HandleFrame ==
    ASSUME TypeOK, NEW x \in Requests, Handle(x)
    PROVE  /\ before' = before
           /\ pc[x] \in Awaits /\ pc'[x] \in Awaits \cup Ends
           /\ \A s \in Requests \ {x} : pc'[s] = pc[s] /\ call'[s] = call[s]
           /\ pc[x] # "pending" => call' = call
BY DEF TypeOK, Handle, TokenIssued, FindPending, StoreToken, SmsAccepted, ConfirmCard, Revoke,
       DeleteCard, Abort, Goto, Awaits, Ends

\* Looking for a row to take up again changes the call's pending rows alone.
LEMMA FindFrame ==
    ASSUME TypeOK, AwaitMatchesCall, NEW x \in Requests, FindPending(x)
    PROVE  /\ UNCHANGED <<row, token>>
           /\ pc[x] = "pending" /\ pc'[x] = "store"
           /\ call'[x].op = "init" /\ call'[x].number = call[x].number
           /\ call'[x] \in Calls
           /\ call'[x].pending =
                {d \in Present : /\ row[d].number = call[x].number /\ ~row[d].verified
                                 /\ \A e \in Present : /\ row[e].number = call[x].number
                                                       /\ ~row[e].verified
                                                       => row[e].nr <= row[d].nr}
<1> DEFINE unverified == {d \in OfNumber(call[x].number) : ~row[d].verified}
           newest == {d \in unverified : \A e \in unverified : row[e].nr <= row[d].nr}
<1>1. call[x].op = "init" /\ call[x].number \in Numbers
      /\ call[x] \in [op : {"init"}, number : Numbers, pending : SUBSET Requests]
  BY DEF FindPending, AwaitMatchesCall, TypeOK, Calls, NoCall
<1>2. newest \in SUBSET Requests
  BY DEF OfNumber, Present
<1>3. call' = [call EXCEPT ![x].pending = newest]
  BY DEF FindPending
<1> HIDE DEF newest
<1>4. /\ call'[x].op = "init" /\ call'[x].number = call[x].number
      /\ call'[x].pending = newest /\ call'[x] \in Calls
  BY <1>1, <1>2, <1>3 DEF TypeOK, Calls
<1>5. QED
  BY <1>4 DEF FindPending, Goto, TypeOK, newest, OfNumber

\* Where the token of x goes.
LEMMA HomeChoice ==
    ASSUME TypeOK, NEW x \in Requests, call[x].op = "init"
    PROVE  /\ Home(x) \in Requests
           /\ call[x].pending = {} => Home(x) = x
           /\ call[x].pending # {} => Home(x) \in call[x].pending
<1>1. call[x].pending \in SUBSET Requests
  BY DEF TypeOK, Calls, NoCall
<1>2. QED
  BY <1>1 DEF Home

\* Storing a token writes one row, its own or one that is there, and numbers a
\* new one in the order of creation.
LEMMA StoreFrame ==
    ASSUME TypeOK, AwaitMatchesCall, PendingIsOlder, NEW x \in Requests, StoreToken(x)
    PROVE  /\ UNCHANGED <<token, call>>
           /\ pc[x] = "store" /\ pc'[x] = "done" /\ call[x].op = "init"
           /\ call[x].pending \subseteq Present
           /\ row'[Home(x)] \in Rows
           /\ row'[Home(x)].number = call[x].number
           /\ row'[Home(x)].token = x /\ ~row'[Home(x)].verified
           /\ row'[Home(x)].nr <= Cardinality(Stored) + 1
           /\ \A d \in Requests \ {Home(x)} : row'[d] = row[d]
<1> DEFINE h == Home(x)
           S == {0} \cup {row[d].nr : d \in Present}
           nr == IF h = x THEN 1 + Max(S) ELSE row[h].nr
           new == [nr |-> nr, number |-> call[x].number, token |-> x, verified |-> FALSE]
<1>1. /\ pc[x] = "store" /\ pc' = [pc EXCEPT ![x] = "done"]
      /\ call[x].pending \subseteq Present
      /\ row' = [row EXCEPT ![h] = new]
      /\ UNCHANGED <<token, call, before>>
  BY DEF StoreToken, Goto
<1>2. call[x].op = "init" /\ call[x].number \in Numbers
  BY <1>1 DEF AwaitMatchesCall, TypeOK, Calls, NoCall
<1>3. h \in Requests /\ (h = x \/ h \in call[x].pending)
  BY <1>2, HomeChoice
<1>4. x \notin Stored
  BY <1>1 DEF Stored
<1>5. nr \in 1..Cardinality(Requests) /\ nr <= Cardinality(Stored) + 1
  <2>1. Cardinality(Stored) \in Nat /\ Cardinality(Requests) \in Nat
    BY StoredCount
  <2>2. CASE h = x
    <3>1. S \in SUBSET (0..Cardinality(Stored)) /\ S # {}
      BY <2>1, RowPresent DEF PendingIsOlder, Present
    <3>2. Max(S) \in 0..Cardinality(Stored)
      BY <2>1, <3>1, MaxBounded
    <3>3. Cardinality(Stored) + 1 <= Cardinality(Requests)
      BY <1>4, OneMoreStored
    <3> HIDE DEF S
    <3>4. QED
      BY <2>1, <2>2, <3>2, <3>3
  <2>3. CASE h # x
    <3>1. h \in Present
      BY <1>1, <1>3, <2>3
    <3>2. row[h].nr \in 1..Cardinality(Requests) /\ row[h].nr <= Cardinality(Stored)
      BY <1>3, <3>1, RowPresent DEF PendingIsOlder, Rows
    <3>3. QED
      BY <2>1, <2>3, <3>2
  <2>4. QED
    BY <2>2, <2>3
<1> HIDE DEF nr, h
<1>6. new \in Rows /\ new.number = call[x].number /\ new.token = x /\ ~new.verified
      /\ new.nr = nr
  BY <1>2, <1>5 DEF Rows
<1> HIDE DEF new
<1>7. /\ row'[h] = new /\ pc'[x] = "done"
      /\ \A d \in Requests \ {h} : row'[d] = row[d]
  BY <1>1, <1>3 DEF TypeOK
<1>8. QED
  BY <1>1, <1>2, <1>5, <1>6, <1>7 DEF h

\* Click issues a token: x's own.
LEMMA IssueFrame ==
    ASSUME TypeOK, NEW x \in Requests, TokenIssued(x)
    PROVE  /\ UNCHANGED <<row, call>>
           /\ pc[x] = "token" /\ pc'[x] = "pending"
           /\ token'[x] = "temporary"
           /\ \A t \in Requests \ {x} : token'[t] = token[t]
BY DEF TypeOK, TokenIssued, Goto

\* An SMS code accepted confirms the token that was read.
LEMMA SmsFrame ==
    ASSUME TypeOK, AwaitMatchesCall, NEW x \in Requests, SmsAccepted(x)
    PROVE  /\ UNCHANGED <<row, call>>
           /\ pc[x] = "sms" /\ pc'[x] = "confirm" /\ call[x].op = "verify"
           /\ call[x].of \in Requests /\ call[x].token \in Requests
           /\ token[call[x].token] \in {"temporary", "confirmed", "kept"}
           /\ token'[call[x].token] \in {"confirmed", "kept"}
           /\ token[call[x].token] = "kept" => token'[call[x].token] = "kept"
           /\ \A t \in Requests \ {call[x].token} : token'[t] = token[t]
<1>1. pc[x] = "sms" /\ call[x].op = "verify" /\ call[x].token \in Requests /\ call[x].of \in Requests
  BY DEF SmsAccepted, AwaitMatchesCall, TypeOK, Calls, NoCall
<1>2. QED
  BY <1>1 DEF TypeOK, SmsAccepted, Goto

\* A confirmation writes the row that was read.
LEMMA ConfirmFrame ==
    ASSUME TypeOK, AwaitMatchesCall, NEW x \in Requests, ConfirmCard(x)
    PROVE  /\ UNCHANGED <<token, call>>
           /\ pc[x] = "confirm" /\ pc'[x] = "done" /\ call[x].op = "verify"
           /\ call[x].of \in Present /\ call[x].token \in Requests
           /\ row'[call[x].of] \in Rows
           /\ row'[call[x].of].nr = row[call[x].of].nr
           /\ row'[call[x].of].number = row[call[x].of].number
           /\ row'[call[x].of].token = call[x].token /\ row'[call[x].of].verified
           /\ \A d \in Requests \ {call[x].of} : row'[d] = row[d]
<1> DEFINE d == call[x].of
           t == call[x].token
           new == [row[d] EXCEPT !.verified = TRUE, !.token = t]
<1>1. pc[x] = "confirm" /\ call[x].op = "verify" /\ t \in Requests /\ d \in Requests /\ d \in Present
  BY DEF ConfirmCard, AwaitMatchesCall, TypeOK, Calls, NoCall
<1>2. row' = [row EXCEPT ![d] = new]
  BY <1>1 DEF ConfirmCard, TypeOK
<1>3. row[d] \in Rows
  BY <1>1, RowPresent
<1>4. UNCHANGED <<token, call, before>> /\ pc' = [pc EXCEPT ![x] = "done"]
  BY DEF ConfirmCard, Goto
<1> HIDE DEF d, t
<1>5. /\ new \in Rows /\ new.nr = row[d].nr /\ new.number = row[d].number
      /\ new.token = t /\ new.verified
  BY <1>1, <1>3 DEF Rows
<1> HIDE DEF new
<1>6. row'[d] = new /\ \A e \in Requests \ {d} : row'[e] = row[e]
  BY <1>1, <1>2 DEF TypeOK
<1>7. pc'[x] = "done"
  BY <1>4 DEF TypeOK
<1>8. QED
  BY <1>1, <1>4, <1>5, <1>6, <1>7 DEF d, t

\* A revocation, carried out or failed.
LEMMA RevokeFrame ==
    ASSUME TypeOK, AwaitMatchesCall, NEW x \in Requests, Revoke(x)
    PROVE  /\ UNCHANGED <<row, call>>
           /\ pc[x] = "revoke" /\ pc'[x] = "delete" /\ call[x].op = "remove"
           /\ call[x].of \in Requests /\ call[x].token \in Requests
           /\ token'[call[x].token] # "confirmed"
           /\ \/ token'[call[x].token] = "revoked"
              \/ token[call[x].token] = "confirmed" /\ token'[call[x].token] = "kept"
              \/ token'[call[x].token] = token[call[x].token]
           /\ \A t \in Requests \ {call[x].token} : token'[t] = token[t]
<1>1. pc[x] = "revoke" /\ call[x].op = "remove" /\ call[x].token \in Requests /\ call[x].of \in Requests
  BY DEF Revoke, AwaitMatchesCall, TypeOK, Calls, NoCall
<1>2. QED
  BY <1>1 DEF TypeOK, Revoke, Goto

\* A deletion takes the row that was read.
LEMMA DeleteFrame ==
    ASSUME TypeOK, AwaitMatchesCall, NEW x \in Requests, DeleteCard(x)
    PROVE  /\ UNCHANGED <<token, call>>
           /\ pc[x] = "delete" /\ pc'[x] = "done" /\ call[x].op = "remove"
           /\ call[x].of \in Present
           /\ row'[call[x].of] = NoRow
           /\ \A d \in Requests \ {call[x].of} : row'[d] = row[d]
<1>1. pc[x] = "delete" /\ call[x].op = "remove" /\ call[x].of \in Requests
  BY DEF DeleteCard, AwaitMatchesCall, TypeOK, Calls, NoCall
<1>2. QED
  BY <1>1 DEF TypeOK, DeleteCard, Goto

\* An abort changes nothing but where the request stands.
LEMMA AbortFrame ==
    ASSUME TypeOK, NEW x \in Requests, Abort(x)
    PROVE  UNCHANGED <<row, token, call>> /\ pc'[x] = "aborted"
BY DEF TypeOK, Abort, Goto

-----------------------------------------------------------------------------
(* What every step leaves alone *)

\* Requests that wait at the same time overlap.
LEMMA WaitingOverlap ==
    ASSUME AwaitMatchesCall, NEW r \in Requests, NEW s \in Requests, r # s,
           pc[r] \in Awaits, pc[s] \in Awaits
    PROVE  Overlap(r, s) /\ Overlap(s, r)
BY DEF AwaitMatchesCall, Overlap, Awaits, Ends

\* A step of x concerns x alone, and what a request asked for, and what had
\* ended before it, never change.
LEMMA StepFrame ==
    ASSUME TypeOK, AwaitMatchesCall, NEW x \in Requests, Arrive(x) \/ Handle(x)
    PROVE  /\ \A s \in Requests \ {x} :
                 pc'[s] = pc[s] /\ call'[s] = call[s] /\ before'[s] = before[s]
           /\ pc[x] \in {"idle"} \cup Awaits /\ pc'[x] \in Awaits \cup Ends
           /\ \A s \in Requests : pc[s] # "idle" =>
                 /\ pc'[s] # "idle" /\ before'[s] = before[s]
                 /\ call'[s].op = call[s].op
                 /\ call[s].op # "init" => call'[s] = call[s]
                 /\ pc[s] # "pending" => call'[s] = call[s]
           /\ \A s \in Requests : pc[s] = "idle" /\ pc'[s] # "idle" =>
                 s = x /\ Arrive(x) /\ before'[x] = {q \in Requests : pc[q] \in Ends}
<1>1. CASE Arrive(x)
  <2>1. pc'[x] \in {"token", "sms", "revoke"}
    BY <1>1, ArriveFrame
  <2>2. /\ pc[x] = "idle" /\ before'[x] = {q \in Requests : pc[q] \in Ends}
        /\ \A s \in Requests \ {x} :
              pc'[s] = pc[s] /\ call'[s] = call[s] /\ before'[s] = before[s]
    BY <1>1, ArriveFrame
  <2>3. QED
    BY <1>1, <2>1, <2>2 DEF Awaits, Ends
<1>2. CASE Handle(x)
  <2>1. /\ before' = before
        /\ pc[x] \in Awaits /\ pc'[x] \in Awaits \cup Ends
        /\ \A s \in Requests \ {x} : pc'[s] = pc[s] /\ call'[s] = call[s]
        /\ pc[x] # "pending" => call' = call
    BY <1>2, HandleFrame
  <2>2. pc[x] = "pending" => call[x].op = "init" /\ call'[x].op = "init"
    <3>1. CASE FindPending(x)
      BY <3>1, FindFrame DEF AwaitMatchesCall
    <3>2. CASE ~FindPending(x) /\ pc[x] = "pending"
      BY <1>2, <3>2 DEF Handle, TokenIssued, StoreToken, SmsAccepted, ConfirmCard, Revoke,
         DeleteCard, Abort, AwaitMatchesCall
    <3>3. QED
      BY <3>1, <3>2
  <2>3. QED
    BY <2>1, <2>2 DEF Awaits, Ends
<1>3. QED
  BY <1>1, <1>2

\* Overlapping is for good, and comes of a request that arrives while the
\* other is in flight.
LEMMA OverlapFrame ==
    ASSUME TypeOK, AwaitMatchesCall, NEW x \in Requests, Arrive(x) \/ Handle(x)
    PROVE  /\ \A r, s \in Requests : Overlap(r, s) => Overlap(r, s)'
           /\ \A r, s \in Requests :
                 Overlap(r, s)' /\ pc[r] # "idle" /\ pc[s] # "idle" => Overlap(r, s)
           /\ \A s \in Requests :
                 pc[x] = "idle" /\ pc[s] \in Awaits => Overlap(x, s)' /\ Overlap(s, x)'
<1>1. /\ \A s \in Requests \ {x} :
            pc'[s] = pc[s] /\ call'[s] = call[s] /\ before'[s] = before[s]
      /\ pc'[x] \in Awaits \cup Ends
      /\ \A s \in Requests : pc[s] # "idle" => pc'[s] # "idle" /\ before'[s] = before[s]
      /\ \A s \in Requests : pc[s] = "idle" /\ pc'[s] # "idle" =>
            s = x /\ Arrive(x) /\ before'[x] = {q \in Requests : pc[q] \in Ends}
  BY StepFrame
<1>2. QED
  BY <1>1 DEF Overlap, AwaitMatchesCall, Awaits, Ends

\* The tokens stored stay where they were stored.
LEMMA StoredFrame ==
    ASSUME TypeOK, AwaitMatchesCall, NEW x \in Requests, Arrive(x) \/ Handle(x)
    PROVE  /\ Stored \subseteq Stored' /\ Stored' \subseteq Stored \cup {x}
           /\ \A t \in Stored : Home(t)' = Home(t)
           /\ x \in Stored' => StoreToken(x)
<1>1. /\ \A s \in Requests \ {x} :
            pc'[s] = pc[s] /\ call'[s] = call[s] /\ before'[s] = before[s]
      /\ pc[x] \in {"idle"} \cup Awaits
      /\ \A s \in Requests : pc[s] # "idle" =>
                 /\ call'[s].op = call[s].op
                 /\ pc[s] # "pending" => call'[s] = call[s]
  BY StepFrame
<1>2. Stored \subseteq Stored' /\ Stored' \subseteq Stored \cup {x}
  BY <1>1 DEF Stored, Awaits
<1>3. ASSUME NEW t \in Stored PROVE Home(t)' = Home(t)
  <2>1. t \in Requests /\ call'[t] = call[t]
    BY <1>1, <1>3 DEF Stored
  <2>2. QED
    BY <2>1 DEF Home
<1>4. ASSUME x \in Stored' PROVE StoreToken(x)
  <2>1. pc'[x] = "done" /\ call'[x].op = "init"
    BY <1>4 DEF Stored
  <2>2. ~Arrive(x)
    BY <2>1, ArriveFrame
  <2>3. ~(TokenIssued(x) \/ FindPending(x) \/ SmsAccepted(x) \/ Revoke(x) \/ Abort(x))
    BY <2>1, IssueFrame, FindFrame, SmsFrame, RevokeFrame, AbortFrame
  <2>4. ~(ConfirmCard(x) \/ DeleteCard(x))
    BY <2>1, ConfirmFrame, DeleteFrame
  <2>5. QED
    BY <2>2, <2>3, <2>4 DEF Handle
<1>5. QED
  BY <1>2, <1>3, <1>4

-----------------------------------------------------------------------------
(* Types, and what kind of request waits where *)

\* Pointwise facts give back the types of the functions.
LEMMA TypesFromPoints ==
    ASSUME TypeOK, NEW x \in Requests,
           row' \in [Requests -> Rows \cup {NoRow}],
           token' \in [Requests -> {"none", "temporary", "confirmed", "kept", "revoked"}],
           call' \in [Requests -> Calls \cup {NoCall}],
           Arrive(x) \/ Handle(x)
    PROVE  TypeOK'
<1>1. pc' \in [Requests -> {"idle"} \cup Awaits \cup Ends]
  BY DEF TypeOK, Arrive, InitAdd, VerifyAdd, RemoveCard, Begin, Handle, TokenIssued, FindPending,
     StoreToken, SmsAccepted, ConfirmCard, Revoke, DeleteCard, Abort, Goto, Awaits, Ends
<1>2. before' \in [Requests -> SUBSET Requests]
  <2>1. CASE Arrive(x)
    <3>1. before' = [before EXCEPT ![x] = {s \in Requests : pc[s] \in Ends}]
      BY <2>1 DEF Arrive, InitAdd, VerifyAdd, RemoveCard, Begin
    <3>2. QED
      BY <3>1 DEF TypeOK
  <2>2. CASE Handle(x)
    BY <2>2, HandleFrame DEF TypeOK
  <2>3. QED
    BY <2>1, <2>2
<1>3. QED
  BY <1>1, <1>2 DEF TypeOK

\* Every step keeps the types.
LEMMA TypeStep ==
    ASSUME TypeOK, AwaitMatchesCall, PendingIsOlder, NEW x \in Requests, Arrive(x) \/ Handle(x)
    PROVE  TypeOK'
<1> DEFINE RowType == [Requests -> Rows \cup {NoRow}]
           TokenType == [Requests -> {"none", "temporary", "confirmed", "kept", "revoked"}]
           CallType == [Requests -> Calls \cup {NoCall}]
<1>1. row \in RowType /\ token \in TokenType /\ call \in CallType
  BY DEF TypeOK
<1> SUFFICES row' \in RowType /\ token' \in TokenType /\ call' \in CallType
  BY TypesFromPoints
<1> HIDE DEF RowType, TokenType, CallType
<1>2. CASE Arrive(x)
  <2>1. UNCHANGED <<row, token>> /\ call'[x] \in Calls
    BY <1>2, ArriveFrame
  <2>2. PICK c : call' = [call EXCEPT ![x] = c]
    BY <1>2 DEF Arrive, InitAdd, VerifyAdd, RemoveCard, Begin
  <2>3. call' \in CallType
    BY <1>1, <2>1, <2>2 DEF CallType
  <2>4. QED
    BY <1>1, <2>1, <2>3
<1>3. CASE TokenIssued(x)
  <2>1. token' = [token EXCEPT ![x] = "temporary"] /\ UNCHANGED <<row, call>>
    BY <1>3 DEF TokenIssued
  <2>2. QED
    BY <1>1, <2>1 DEF TokenType
<1>4. CASE FindPending(x)
  <2>1. call'[x] \in Calls /\ UNCHANGED <<row, token>>
    BY <1>4, FindFrame
  <2>2. PICK p : call' = [call EXCEPT ![x] = p]
    BY <1>4 DEF FindPending
  <2>3. call' \in CallType
    BY <1>1, <2>1, <2>2 DEF CallType
  <2>4. QED
    BY <1>1, <2>1, <2>3
<1>5. CASE StoreToken(x)
  <2>1. /\ UNCHANGED <<token, call>> /\ call[x].op = "init"
        /\ row'[Home(x)] \in Rows
    BY <1>5, StoreFrame
  <2>2. Home(x) \in Requests
    BY <2>1, HomeChoice
  <2>3. PICK v : row' = [row EXCEPT ![Home(x)] = v]
    BY <1>5 DEF StoreToken
  <2>4. row' \in RowType
    BY <1>1, <2>1, <2>2, <2>3 DEF RowType
  <2>5. QED
    BY <1>1, <2>1, <2>4
<1>6. CASE SmsAccepted(x)
  <2>1. /\ UNCHANGED <<row, call>> /\ call[x].token \in Requests
        /\ token'[call[x].token] \in {"confirmed", "kept"}
    BY <1>6, SmsFrame
  <2>2. PICK v : token' = [token EXCEPT ![call[x].token] = v]
    BY <1>6 DEF SmsAccepted
  <2>3. token' \in TokenType
    BY <1>1, <2>1, <2>2 DEF TokenType
  <2>4. QED
    BY <1>1, <2>1, <2>3
<1>7. CASE ConfirmCard(x)
  <2>1. /\ UNCHANGED <<token, call>>
        /\ call[x].of \in Present /\ row'[call[x].of] \in Rows
        /\ \A d \in Requests \ {call[x].of} : row'[d] = row[d]
    BY <1>7, ConfirmFrame
  <2>2. PICK v : row' = [row EXCEPT ![call[x].of] = v]
    BY <1>1, <2>1, <1>7 DEF ConfirmCard, RowType, Present
  <2>3. row' \in RowType
    BY <1>1, <2>1, <2>2 DEF RowType, Present
  <2>4. QED
    BY <1>1, <2>1, <2>3
<1>8. CASE Revoke(x)
  <2>1. /\ UNCHANGED <<row, call>> /\ call[x].token \in Requests
        /\ \/ token'[call[x].token] = "revoked"
           \/ token'[call[x].token] = "kept"
           \/ token'[call[x].token] = token[call[x].token]
    BY <1>8, RevokeFrame
  <2>2. PICK v : token' = [token EXCEPT ![call[x].token] = v]
    BY <1>8 DEF Revoke
  <2>3. token' \in TokenType
    BY <1>1, <2>1, <2>2 DEF TokenType
  <2>4. QED
    BY <1>1, <2>1, <2>3
<1>9. CASE DeleteCard(x)
  <2>1. row' = [row EXCEPT ![call[x].of] = NoRow] /\ UNCHANGED <<token, call>>
    BY <1>9 DEF DeleteCard
  <2>2. QED
    BY <1>1, <2>1 DEF RowType
<1>10. CASE Abort(x)
  BY <1>1, <1>10, AbortFrame
<1>11. QED
  BY <1>2, <1>3, <1>4, <1>5, <1>6, <1>7, <1>8, <1>9, <1>10 DEF Handle

\* Every step leaves each kind of request at an await of its own.
LEMMA AwaitStep ==
    ASSUME TypeOK, AwaitMatchesCall, PendingIsOlder, NEW x \in Requests, Arrive(x) \/ Handle(x)
    PROVE  AwaitMatchesCall'
<1>1. /\ \A s \in Requests \ {x} :
            pc'[s] = pc[s] /\ call'[s] = call[s] /\ before'[s] = before[s]
      /\ pc[x] \in {"idle"} \cup Awaits /\ pc'[x] \in Awaits \cup Ends
      /\ \A s \in Requests : pc[s] # "idle" => before'[s] = before[s]
      /\ \A s \in Requests : pc[s] # "idle" => call'[s].op = call[s].op
      /\ pc[x] = "idle" => Arrive(x) /\ before'[x] = {q \in Requests : pc[q] \in Ends}
  BY StepFrame DEF Awaits, Ends
<1>2. \A r \in Requests : \A s \in before'[r] : pc'[s] \in Ends
  BY <1>1 DEF AwaitMatchesCall, TypeOK, Awaits, Ends
<1>3. /\ call'[x].op # "none"
      /\ pc'[x] \in {"token", "pending", "store"} => call'[x].op = "init"
      /\ pc'[x] \in {"sms", "confirm"} => call'[x].op = "verify"
      /\ pc'[x] \in {"revoke", "delete"} => call'[x].op = "remove"
  <2>1. CASE Arrive(x)
    BY <2>1, ArriveFrame
  <2>2. CASE TokenIssued(x)
    BY <1>1, <2>2, IssueFrame DEF AwaitMatchesCall
  <2>3. CASE FindPending(x)
    BY <2>3, FindFrame
  <2>4. CASE StoreToken(x)
    BY <2>4, StoreFrame
  <2>5. CASE SmsAccepted(x)
    BY <2>5, SmsFrame
  <2>6. CASE ConfirmCard(x)
    BY <2>6, ConfirmFrame
  <2>7. CASE Revoke(x)
    BY <2>7, RevokeFrame
  <2>8. CASE DeleteCard(x)
    BY <2>8, DeleteFrame
  <2>9. CASE Abort(x)
    BY <1>1, <2>9, AbortFrame DEF AwaitMatchesCall, Abort, Awaits
  <2>10. QED
    BY <2>1, <2>2, <2>3, <2>4, <2>5, <2>6, <2>7, <2>8, <2>9 DEF Handle
<1>4. QED
  BY <1>1, <1>2, <1>3 DEF AwaitMatchesCall, Awaits, Ends

-----------------------------------------------------------------------------
(* Rows, tokens and calls, step by step *)

\* Which steps write a row, and which a token at Click.
LEMMA WritesFrame ==
    ASSUME TypeOK, AwaitMatchesCall, PendingIsOlder, NEW x \in Requests, Arrive(x) \/ Handle(x)
    PROVE  /\ \A d \in Requests : \/ row'[d] = row[d]
                                  \/ StoreToken(x) /\ d = Home(x)
                                  \/ ConfirmCard(x) /\ d = call[x].of
                                  \/ DeleteCard(x) /\ d = call[x].of
           /\ \A t \in Requests : \/ token'[t] = token[t]
                                  \/ TokenIssued(x) /\ t = x
                                  \/ SmsAccepted(x) /\ t = call[x].token
                                  \/ Revoke(x) /\ t = call[x].token
           /\ Present' \subseteq Requests
           /\ \A d \in Present' : d \in Present \/ (StoreToken(x) /\ d = Home(x))
<1>1. \A d \in Requests : \/ row'[d] = row[d]
                          \/ StoreToken(x) /\ d = Home(x)
                          \/ ConfirmCard(x) /\ d = call[x].of
                          \/ DeleteCard(x) /\ d = call[x].of
  <2>1. CASE Arrive(x) \/ TokenIssued(x) \/ FindPending(x) \/ SmsAccepted(x) \/ Revoke(x) \/ Abort(x)
    BY <2>1, ArriveFrame, IssueFrame, FindFrame, SmsFrame, RevokeFrame, AbortFrame
  <2>2. CASE StoreToken(x)
    BY <2>2, StoreFrame
  <2>3. CASE ConfirmCard(x)
    BY <2>3, ConfirmFrame
  <2>4. CASE DeleteCard(x)
    BY <2>4, DeleteFrame
  <2>5. QED
    BY <2>1, <2>2, <2>3, <2>4 DEF Handle
<1>2. \A t \in Requests : \/ token'[t] = token[t]
                          \/ TokenIssued(x) /\ t = x
                          \/ SmsAccepted(x) /\ t = call[x].token
                          \/ Revoke(x) /\ t = call[x].token
  <2>1. CASE Arrive(x) \/ FindPending(x) \/ StoreToken(x) \/ ConfirmCard(x) \/ DeleteCard(x) \/ Abort(x)
    BY <2>1, ArriveFrame, FindFrame, StoreFrame, ConfirmFrame, DeleteFrame, AbortFrame
  <2>2. CASE TokenIssued(x)
    BY <2>2, IssueFrame
  <2>3. CASE SmsAccepted(x)
    BY <2>3, SmsFrame
  <2>4. CASE Revoke(x)
    BY <2>4, RevokeFrame
  <2>5. QED
    BY <2>1, <2>2, <2>3, <2>4 DEF Handle
<1>3. ASSUME NEW d \in Present', d \notin Present, ~(StoreToken(x) /\ d = Home(x)) PROVE FALSE
  <2>1. d \in Requests /\ row'[d] # NoRow /\ row[d] = NoRow
    BY <1>3 DEF Present
  <2>2. ConfirmCard(x) => call[x].of \in Present
    BY ConfirmFrame
  <2>3. DeleteCard(x) => call[x].of \in Present
    BY DeleteFrame
  <2>4. QED
    BY <1>1, <1>3, <2>1, <2>2, <2>3
<1>4. QED
  BY <1>1, <1>2, <1>3 DEF Present

\* Which requests a call belongs to after a step: what is asked for does not
\* change while a request is under way.
LEMMA CallFrame ==
    ASSUME TypeOK, AwaitMatchesCall, NEW x \in Requests, Arrive(x) \/ Handle(x), NEW r \in Requests
    PROVE  /\ call'[r].op = call[r].op \/ (r = x /\ Arrive(x) /\ call[r].op = "none")
           /\ call'[r] = call[r] \/ (r = x /\ (Arrive(x) \/ FindPending(x)))
<1>1. CASE r # x
  BY <1>1, StepFrame
<1>2. CASE r = x /\ Arrive(x)
  BY <1>2, ArriveFrame DEF AwaitMatchesCall
<1>3. CASE r = x /\ Handle(x)
  <2>1. call'[r].op = call[r].op
    BY <1>3, StepFrame, HandleFrame DEF Awaits
  <2>2. CASE TokenIssued(x) \/ StoreToken(x) \/ SmsAccepted(x) \/ ConfirmCard(x) \/ Revoke(x)
             \/ DeleteCard(x) \/ Abort(x)
    BY <2>1, <2>2 DEF TokenIssued, StoreToken, SmsAccepted, ConfirmCard, Revoke, DeleteCard, Abort
  <2>3. QED
    BY <1>3, <2>1, <2>2 DEF Handle
<1>4. QED
  BY <1>1, <1>2, <1>3

\* What is present was stored, so it no longer changes its mind.
LEMMA PresentStored ==
    ASSUME TokensAtHome
    PROVE  Present \subseteq Stored /\ Stored \subseteq Requests
BY DEF TokensAtHome, Stored

\* Tokens stay at home.
LEMMA HomeStep ==
    ASSUME TypeOK, AwaitMatchesCall, PendingIsOlder, TokensAtHome,
           NEW x \in Requests, Arrive(x) \/ Handle(x)
    PROVE  TokensAtHome'
<1>1. /\ Stored \subseteq Stored' /\ Stored \subseteq Requests
      /\ \A t \in Stored : Home(t)' = Home(t)
  BY StoredFrame DEF Stored
<1>2. ASSUME NEW d \in Present'
      PROVE  d \in Stored' /\ \E t \in Stored' : row'[d].token = t /\ Home(t)' = d
  <2>1. CASE StoreToken(x) /\ d = Home(x)
    <3>1. /\ call' = call /\ call[x].op = "init" /\ pc'[x] = "done" /\ row'[d].token = x
      BY <2>1, StoreFrame
    <3>2. x \in Stored' /\ Home(x)' = Home(x)
      BY <3>1 DEF Stored, Home
    <3>3. Home(x) = x \/ Home(x) \in call[x].pending
      BY <3>1, HomeChoice
    <3>4. d \in Stored'
      BY <1>1, <2>1, <3>1, <3>2, <3>3 DEF PendingIsOlder
    <3>5. QED
      BY <2>1, <3>1, <3>2, <3>4
  <2>2. CASE ConfirmCard(x) /\ d = call[x].of
    <3>1. call[x].op = "verify" /\ row'[d].token = call[x].token
      BY <2>2, ConfirmFrame
    <3>2. call[x].of \in Stored /\ call[x].token \in Stored /\ Home(call[x].token) = call[x].of
      BY <3>1 DEF TokensAtHome
    <3>3. QED
      BY <1>1, <2>2, <3>1, <3>2
  <2>3. CASE d \in Present /\ row'[d] = row[d]
    <3>1. d \in Stored /\ row[d].token \in Stored /\ Home(row[d].token) = d
      BY <2>3 DEF TokensAtHome
    <3>2. QED
      BY <1>1, <2>3, <3>1
  <2>4. DeleteCard(x) => d # call[x].of
    BY <1>2, DeleteFrame DEF Present
  <2>5. QED
    BY <1>2, <2>1, <2>2, <2>3, <2>4, WritesFrame
<1>3. ASSUME NEW r \in Requests, call'[r].op \in {"verify", "remove"}
      PROVE  /\ call'[r].of \in Stored'
             /\ \E t \in Stored' : call'[r].token = t /\ Home(t)' = call'[r].of
  <2>1. CASE r = x /\ Arrive(x)
    <3>1. call'[x].of \in Present /\ call'[x].token = row[call'[x].of].token
      BY <1>3, <2>1, ArriveFrame
    <3>2. /\ call'[x].of \in Stored /\ call'[x].token \in Stored
          /\ Home(call'[x].token) = call'[x].of
      BY <3>1 DEF TokensAtHome
    <3>3. QED
      BY <1>1, <2>1, <3>2
  <2>2. CASE call'[r] = call[r]
    <3>1. call[r].of \in Stored /\ call[r].token \in Stored /\ Home(call[r].token) = call[r].of
      BY <1>3, <2>2 DEF TokensAtHome
    <3>2. QED
      BY <1>1, <2>2, <3>1
  <2>3. ~(r = x /\ FindPending(x))
    BY <1>3, FindFrame
  <2>4. QED
    BY <2>1, <2>2, <2>3, CallFrame
<1>4. \A d \in Present' : Home(row[d].token)' = d
  BY <1>2 DEF Home
<1>5. \A r \in Requests : call'[r].op \in {"verify", "remove"} =>
         Home(call[r].token)' = call'[r].of
  BY <1>3 DEF Home
<1>6. QED
  BY <1>2, <1>3, <1>4, <1>5 DEF TokensAtHome

\* The rows taken up again are older ones of the same number.
LEMMA PendingStep ==
    ASSUME TypeOK, AwaitMatchesCall, PendingIsOlder, TokensAtHome,
           NEW x \in Requests, Arrive(x) \/ Handle(x)
    PROVE  PendingIsOlder'
<1>1. /\ Stored \subseteq Stored' /\ Stored \subseteq Requests /\ Present \subseteq Stored
      /\ Stored' \subseteq Stored \cup {x}
      /\ x \in Stored' => StoreToken(x)
  BY StoredFrame, PresentStored
<1>2. x \notin Stored
  BY StepFrame DEF Stored, Awaits
<1>3. \A d \in Stored : d # x /\ call'[d] = call[d]
  BY <1>1, <1>2, StepFrame DEF Stored
<1>4. ASSUME StoreToken(x)
      PROVE  /\ Home(x) # x => Home(x) \in call[x].pending /\ Home(x) \in Present
                               /\ row[Home(x)].number = call[x].number
             /\ Home(x) = x => call[x].pending = {}
             /\ row'[Home(x)].number = call[x].number
             /\ call' = call
  <2>1. /\ call[x].op = "init" /\ call[x].pending \subseteq Present
        /\ row'[Home(x)].number = call[x].number /\ call' = call
    BY <1>4, StoreFrame
  <2>2. /\ call[x].pending = {} => Home(x) = x
        /\ call[x].pending # {} => Home(x) \in call[x].pending
    BY <2>1, HomeChoice
  <2>3. call[x].pending \subseteq Stored \ {x}
    BY <2>1 DEF PendingIsOlder
  <2>4. QED
    BY <2>1, <2>2, <2>3 DEF PendingIsOlder
<1>5. ASSUME NEW r \in Requests, call'[r].op = "init"
      PROVE  /\ call'[r].pending \subseteq Stored' \ {r}
             /\ \A d \in call'[r].pending \cap Present' : row'[d].number = call'[r].number
  <2>1. CASE r = x /\ Arrive(x)
    BY <1>5, <2>1, ArriveFrame
  <2>2. CASE r = x /\ FindPending(x)
    <3>1. /\ row' = row /\ Present' = Present /\ call'[x].number = call[x].number
          /\ call'[x].pending \subseteq {d \in Present : row[d].number = call[x].number}
      BY <2>2, FindFrame DEF Present
    <3>2. QED
      BY <1>1, <1>2, <2>2, <3>1
  <2>3. CASE call'[r] = call[r]
    <3>1. /\ call[r].pending \subseteq Stored \ {r}
          /\ \A d \in call[r].pending \cap Present : row[d].number = call[r].number
      BY <1>5, <2>3 DEF PendingIsOlder
    <3>2. ASSUME NEW d \in call[r].pending, d \in Present' PROVE row'[d].number = call[r].number
      <4>1. d \in Requests /\ d # x
        BY <1>1, <1>2, <3>1, <3>2
      <4>2. CASE StoreToken(x) /\ d = Home(x)
        BY <1>4, <3>1, <3>2, <4>1, <4>2
      <4>3. CASE d \in Present /\ ~(StoreToken(x) /\ d = Home(x))
        <5>1. DeleteCard(x) => d # call[x].of
          BY <3>2, DeleteFrame DEF Present
        <5>2. ConfirmCard(x) => row'[call[x].of].number = row[call[x].of].number
          BY ConfirmFrame
        <5>3. row'[d].number = row[d].number
          BY <4>1, <4>3, <5>1, <5>2, WritesFrame
        <5>4. QED
          BY <3>1, <3>2, <4>3, <5>3
      <4>4. QED
        BY <3>2, <4>1, <4>2, <4>3, WritesFrame
    <3>3. QED
      BY <1>1, <2>3, <3>1, <3>2
  <2>4. QED
    BY <2>1, <2>2, <2>3, CallFrame
<1>6. ASSUME NEW d \in Present'
      PROVE  /\ call'[d].pending = {}
             /\ row'[d].number = call'[d].number
             /\ row'[d].nr <= Cardinality(Stored')
  <2>1. Cardinality(Stored) \in Nat
    BY StoredCount
  <2>2. CASE StoreToken(x) /\ d = Home(x)
    <3>1. pc'[x] = "done" /\ call[x].op = "init" /\ call' = call
          /\ row'[d] \in Rows /\ row'[d].nr <= Cardinality(Stored) + 1
      BY <2>2, StoreFrame
    <3>2. Stored' = Stored \cup {x}
      BY <1>1, <3>1 DEF Stored
    <3>3. Cardinality(Stored') = Cardinality(Stored) + 1
      BY <1>2, <3>2, OneMoreStored
    <3>4. CASE d = x
      BY <1>4, <2>2, <3>1, <3>3, <3>4
    <3>5. CASE d # x
      <4>1. d \in Present /\ row[d].number = call[x].number
        BY <1>4, <2>2, <3>5
      <4>2. call[d].pending = {} /\ row[d].number = call[d].number
        BY <4>1 DEF PendingIsOlder
      <4>3. QED
        BY <1>4, <2>2, <3>1, <3>3, <4>1, <4>2
    <3>6. QED
      BY <3>4, <3>5
  <2>3. CASE d \in Present /\ ~(StoreToken(x) /\ d = Home(x))
    <3>1. d \in Requests /\ call'[d] = call[d]
      BY <1>1, <1>3, <2>3
    <3>2. DeleteCard(x) => d # call[x].of
      BY <1>6, DeleteFrame DEF Present
    <3>3. ConfirmCard(x) => /\ row'[call[x].of].number = row[call[x].of].number
                            /\ row'[call[x].of].nr = row[call[x].of].nr
      BY ConfirmFrame
    <3>4. row'[d].number = row[d].number /\ row'[d].nr = row[d].nr
      BY <2>3, <3>1, <3>2, <3>3, WritesFrame
    <3>5. /\ call[d].pending = {} /\ row[d].number = call[d].number
          /\ row[d].nr <= Cardinality(Stored)
      BY <2>3 DEF PendingIsOlder
    <3>6. row[d].nr \in Nat
      BY <2>3, <3>1, RowPresent
    <3>7. Cardinality(Stored) <= Cardinality(Stored')
      <4>1. CASE x \in Stored'
        <5>1. Stored' = Stored \cup {x}
          BY <1>1, <4>1
        <5>2. QED
          BY <1>2, <2>1, <5>1, OneMoreStored
      <4>2. CASE x \notin Stored'
        <5>1. Stored' = Stored
          BY <1>1, <4>2
        <5>2. QED
          BY <2>1, <5>1
      <4>3. QED
        BY <4>1, <4>2
    <3>8. Cardinality(Stored') \in Nat
      <4>1. Stored' = Stored \/ Stored' = Stored \cup {x}
        BY <1>1
      <4>2. QED
        BY <1>2, <2>1, <4>1, OneMoreStored
    <3>9. QED
      BY <2>1, <3>1, <3>4, <3>5, <3>6, <3>7, <3>8
  <2>4. QED
    BY <1>6, <2>2, <2>3, WritesFrame
<1>7. QED
  BY <1>5, <1>6 DEF PendingIsOlder

\* How a request came to stand where it stands after its step.
LEMMA CameFrom ==
    ASSUME TypeOK, AwaitMatchesCall, PendingIsOlder, NEW x \in Requests, Arrive(x) \/ Handle(x)
    PROVE  /\ pc'[x] \in {"token", "sms", "revoke"} => Arrive(x)
           /\ pc'[x] = "pending" => TokenIssued(x)
           /\ pc'[x] = "store" => FindPending(x)
           /\ pc'[x] = "confirm" => SmsAccepted(x)
           /\ pc'[x] = "delete" => Revoke(x)
           /\ pc'[x] = "done" => StoreToken(x) \/ ConfirmCard(x) \/ DeleteCard(x)
           /\ pc'[x] = "done" /\ call'[x].op = "init" => StoreToken(x)
           /\ pc'[x] = "done" /\ call'[x].op = "verify" => ConfirmCard(x)
           /\ pc'[x] = "done" /\ call'[x].op = "remove" => DeleteCard(x)
<1>1. Arrive(x) => pc'[x] \in {"token", "sms", "revoke"}
  BY ArriveFrame
<1>2. TokenIssued(x) => pc'[x] = "pending"
  BY IssueFrame
<1>3. FindPending(x) => pc'[x] = "store"
  BY FindFrame
<1>4. StoreToken(x) => pc'[x] = "done" /\ call'[x].op = "init"
  BY StoreFrame
<1>5. SmsAccepted(x) => pc'[x] = "confirm"
  BY SmsFrame
<1>6. ConfirmCard(x) => pc'[x] = "done" /\ call'[x].op = "verify"
  BY ConfirmFrame
<1>7. Revoke(x) => pc'[x] = "delete"
  BY RevokeFrame
<1>8. DeleteCard(x) => pc'[x] = "done" /\ call'[x].op = "remove"
  BY DeleteFrame
<1>9. Abort(x) => pc'[x] = "aborted"
  BY AbortFrame
<1>10. QED
  BY <1>1, <1>2, <1>3, <1>4, <1>5, <1>6, <1>7, <1>8, <1>9 DEF Handle

\* A request that is neither new nor looking for a row keeps its call.
LEMMA AskedFor ==
    ASSUME TypeOK, AwaitMatchesCall, NEW x \in Requests, Arrive(x) \/ Handle(x),
           NEW r \in Requests, call[r].op \in {"verify", "remove"}
    PROVE  call'[r] = call[r]
<1>1. r = x => ~Arrive(x)
  BY ArriveFrame DEF AwaitMatchesCall
<1>2. r = x => ~FindPending(x)
  BY FindFrame DEF AwaitMatchesCall
<1>3. QED
  BY <1>1, <1>2, CallFrame

\* A row that is not there stays away, except for the first one of a request.
LEMMA GoneForGood ==
    ASSUME TypeOK, AwaitMatchesCall, PendingIsOlder,
           NEW x \in Requests, Arrive(x) \/ Handle(x), NEW d \in Stored, d \notin Present
    PROVE  d \notin Present'
<1>1. ASSUME StoreToken(x), d = Home(x) PROVE FALSE
  <2>1. call[x].op = "init" /\ call[x].pending \subseteq Present /\ pc[x] = "store"
    BY <1>1, StoreFrame
  <2>2. x \notin Stored
    BY <2>1 DEF Stored
  <2>3. QED
    BY <1>1, <2>1, <2>2, HomeChoice
<1>2. QED
  BY <1>1, WritesFrame

\* What Click knows of the tokens in use outlives every step.
LEMMA KnownStep ==
    ASSUME TypeOK, AwaitMatchesCall, PendingIsOlder, TokensAtHome, TokensKnown,
           NEW x \in Requests, Arrive(x) \/ Handle(x)
    PROVE  TokensKnown'
<1> DEFINE K == {"confirmed", "kept", "revoked"}
<1>1. x \notin Stored /\ Stored \subseteq Requests /\ Present \subseteq Stored
  BY StepFrame, PresentStored DEF Stored, Awaits
<1>2. ASSUME NEW t \in Stored, token[t] \in K PROVE token'[t] \in K
  <2>1. SmsAccepted(x) => token'[call[x].token] \in K
    BY SmsFrame
  <2>2. Revoke(x) => token'[call[x].token] \in {"revoked", "kept", token[call[x].token]}
    BY RevokeFrame
  <2>3. QED
    BY <1>1, <1>2, <2>1, <2>2, WritesFrame
<1>3. ASSUME NEW r \in Requests, call'[r].op = "verify", pc'[r] \in {"confirm", "done"}
      PROVE  token'[call'[r].token] \in K
  <2>1. CASE r # x
    <3>1. call'[r] = call[r] /\ pc'[r] = pc[r]
      BY <2>1, StepFrame
    <3>2. token[call[r].token] \in K /\ call[r].token \in Stored
      BY <1>3, <3>1 DEF TokensKnown, TokensAtHome
    <3>3. QED
      BY <1>2, <3>1, <3>2
  <2>2. CASE r = x
    <3>1. CASE SmsAccepted(x)
      BY <2>2, <3>1, SmsFrame
    <3>2. CASE ConfirmCard(x)
      BY <2>2, <3>2, ConfirmFrame DEF TokensKnown
    <3>3. QED
      BY <1>3, <2>2, <3>1, <3>2, CameFrom
  <2>3. QED
    BY <2>1, <2>2
<1>4. ASSUME NEW d \in Present', row'[d].verified PROVE token'[row'[d].token] \in K
  <2>1. d \in Requests /\ (DeleteCard(x) => d # call[x].of)
    BY <1>4, DeleteFrame DEF Present
  <2>2. ~(StoreToken(x) /\ d = Home(x))
    BY <1>4, StoreFrame
  <2>3. CASE ConfirmCard(x) /\ d = call[x].of
    BY <2>3, ConfirmFrame DEF TokensKnown
  <2>4. CASE row'[d] = row[d] /\ d \in Present
    <3>1. token[row[d].token] \in K /\ row[d].token \in Stored
      BY <1>4, <2>4 DEF TokensKnown, TokensAtHome
    <3>2. QED
      BY <1>2, <2>4, <3>1
  <2>5. QED
    BY <1>4, <2>1, <2>2, <2>3, <2>4, WritesFrame
<1>5. ASSUME NEW t \in Requests, token'[t] = "confirmed"
      PROVE  \E v \in Requests : call'[v].op = "verify" /\ call'[v].token = t
  <2>1. CASE SmsAccepted(x) /\ t = call[x].token
    BY <2>1, SmsFrame
  <2>2. CASE token'[t] = token[t]
    <3>1. PICK v \in Requests : call[v].op = "verify" /\ call[v].token = t
      BY <1>5, <2>2 DEF TokensKnown
    <3>2. call'[v] = call[v]
      BY <3>1, AskedFor
    <3>3. QED
      BY <3>1, <3>2
  <2>3. ~(TokenIssued(x) /\ t = x) /\ ~(Revoke(x) /\ t = call[x].token)
    BY <1>5, IssueFrame, RevokeFrame
  <2>4. QED
    BY <2>1, <2>2, <2>3, WritesFrame
<1>6. ASSUME NEW t \in Requests, token'[t] = "revoked"
      PROVE  \E r \in Requests : call'[r].op = "remove" /\ call'[r].token = t
  <2>1. CASE Revoke(x) /\ t = call[x].token
    BY <2>1, RevokeFrame
  <2>2. CASE token'[t] = token[t]
    <3>1. PICK r \in Requests : call[r].op = "remove" /\ call[r].token = t
      BY <1>6, <2>2 DEF TokensKnown
    <3>2. call'[r] = call[r]
      BY <3>1, AskedFor
    <3>3. QED
      BY <3>1, <3>2
  <2>3. ~(TokenIssued(x) /\ t = x) /\ ~(SmsAccepted(x) /\ t = call[x].token)
    BY <1>6, IssueFrame, SmsFrame
  <2>4. QED
    BY <2>1, <2>2, <2>3, WritesFrame
<1>7. ASSUME NEW r \in Requests, call'[r].op = "remove", pc'[r] = "done"
      PROVE  call'[r].of \notin Present'
  <2>1. CASE r # x
    <3>1. call'[r] = call[r] /\ pc'[r] = pc[r]
      BY <2>1, StepFrame
    <3>2. call[r].of \in Stored /\ call[r].of \notin Present
      BY <1>7, <3>1 DEF TokensKnown, TokensAtHome
    <3>3. QED
      BY <3>1, <3>2, GoneForGood
  <2>2. CASE r = x
    BY <1>7, <2>2, CameFrom, DeleteFrame DEF Present
  <2>3. QED
    BY <2>1, <2>2
<1>8. QED
  BY <1>3, <1>4, <1>5, <1>6, <1>7 DEF TokensKnown

-----------------------------------------------------------------------------
(* Two rows of one number *)

\* Among rows that are there, one is the newest.
LEMMA NewestExists ==
    ASSUME TypeOK, NEW S, S \subseteq Present, S # {}
    PROVE  \E d \in S : \A e \in S : row[e].nr <= row[d].nr
<1> DEFINE N == {row[d].nr : d \in S}
<1>1. Cardinality(Requests) \in Nat
  BY StoredCount
<1>2. \A d \in S : row[d].nr \in 0..Cardinality(Requests)
  BY <1>1, RowPresent DEF Present, Rows
<1>3. N \in SUBSET (0..Cardinality(Requests)) /\ N # {}
  BY <1>2
<1>4. Max(N) \in N /\ \A n \in N : n <= Max(N)
  <2> HIDE DEF N
  <2>1. QED
    BY <1>1, <1>3, MaxBounded
<1>5. PICK d \in S : Max(N) = row[d].nr
  BY <1>4
<1>6. QED
  BY <1>4, <1>5

\* A row keeps its number as long as it is there.
LEMMA NumberKept ==
    ASSUME TypeOK, AwaitMatchesCall, PendingIsOlder, TokensAtHome,
           NEW x \in Requests, Arrive(x) \/ Handle(x), NEW d \in Present, d \in Present'
    PROVE  row'[d].number = row[d].number
<1>1. d \in Stored /\ d \in Requests
  BY PresentStored
<1>2. call'[d] = call[d]
  BY <1>1, StepFrame DEF Stored
<1>3. PendingIsOlder'
  BY PendingStep
<1>4. QED
  BY <1>2, <1>3 DEF PendingIsOlder

\* That a row was verified in the course of another request stays so.
LEMMA VerifiedMeanwhileStep ==
    ASSUME TypeOK, AwaitMatchesCall, NEW x \in Requests, Arrive(x) \/ Handle(x),
           NEW c \in Requests, NEW d \in Requests, VerifiedMeanwhile(c, d)
    PROVE  VerifiedMeanwhile(c, d)'
<1>1. PICK r \in Requests : call[r].op = "verify" /\ call[r].of = c /\ Overlap(r, d)
  BY DEF VerifiedMeanwhile
<1>2. call'[r] = call[r] /\ Overlap(r, d)'
  BY <1>1, AskedFor, OverlapFrame
<1>3. QED
  BY <1>1, <1>2 DEF VerifiedMeanwhile

\* An initAdd that began after a row was there takes that row up again, unless
\* it was verified meanwhile.
LEMMA TwinsStep ==
    ASSUME TypeOK, AwaitMatchesCall, PendingIsOlder, TokensAtHome, TwinsSeen,
           NEW x \in Requests, Arrive(x) \/ Handle(x)
    PROVE  TwinsSeen'
<1> SUFFICES ASSUME NEW d \in Requests, call'[d].op = "init",
                    NEW c \in before'[d] \cap Present', row'[c].number = call'[d].number
             PROVE  /\ pc'[d] \in {"token", "pending"} /\ row'[c].verified => VerifiedMeanwhile(c, d)'
                    /\ pc'[d] \in {"store", "done"} /\ call'[d].pending = {} =>
                          VerifiedMeanwhile(c, d)'
  BY DEF TwinsSeen
<1>1. CASE d = x /\ Arrive(x)
  BY <1>1, ArriveFrame DEF Present
<1>2. CASE ~(d = x /\ Arrive(x))
  <2>1. pc[d] # "idle"
    <3>1. pc'[d] # "idle"
      BY AwaitStep DEF AwaitMatchesCall
    <3>2. QED
      BY <1>2, <3>1, StepFrame
  <2>2. before'[d] = before[d] /\ call[d].op = "init"
    BY <2>1, StepFrame
  <2>3. call'[d].number = call[d].number
    BY <1>2, CallFrame, FindFrame
  <2>4. c \in Requests /\ c \in Present /\ row[c].number = call[d].number
    <3>1. c \in Requests /\ pc[c] \in Ends
      BY <2>2 DEF AwaitMatchesCall, TypeOK
    <3>2. c # x
      BY <3>1, StepFrame DEF Awaits, Ends
    <3>3. StoreToken(x) /\ c = Home(x) => c \in Present
      BY <3>2, StoreFrame, HomeChoice
    <3>4. c \in Present
      BY <3>3, WritesFrame
    <3>5. QED
      BY <2>3, <3>1, <3>4, NumberKept
  <2>5. ASSUME pc[d] \in {"token", "pending"}, row'[c].verified PROVE VerifiedMeanwhile(c, d)'
    <3>1. CASE row[c].verified
      BY <2>2, <2>4, <2>5, <3>1, VerifiedMeanwhileStep DEF TwinsSeen
    <3>2. CASE ~row[c].verified
      <4>1. ~(StoreToken(x) /\ c = Home(x))
        BY <2>5, StoreFrame
      <4>2. ~(DeleteCard(x) /\ c = call[x].of)
        BY DeleteFrame DEF Present
      <4>3. ConfirmCard(x) /\ c = call[x].of
        BY <2>4, <2>5, <3>2, <4>1, <4>2, WritesFrame
      <4>4. call[x].op = "verify" /\ pc[x] = "confirm"
        BY <4>3, ConfirmFrame
      <4>5. Overlap(x, d)
        BY <2>2, <2>5, <4>4, WaitingOverlap DEF Awaits
      <4>6. VerifiedMeanwhile(c, d)
        BY <4>3, <4>4, <4>5 DEF VerifiedMeanwhile
      <4>7. QED
        BY <2>4, <4>6, VerifiedMeanwhileStep
    <3>3. QED
      BY <3>1, <3>2
  <2>6. ASSUME pc'[d] \in {"token", "pending"}, row'[c].verified PROVE VerifiedMeanwhile(c, d)'
    <3>1. d = x => TokenIssued(x)
      BY <1>2, <2>6, CameFrom
    <3>2. pc[d] \in {"token", "pending"}
      BY <2>6, <3>1, IssueFrame, StepFrame
    <3>3. QED
      BY <2>5, <2>6, <3>2
  <2>7. ASSUME pc'[d] \in {"store", "done"}, call'[d].pending = {} PROVE VerifiedMeanwhile(c, d)'
    <3>1. CASE d = x /\ FindPending(x)
      <4> DEFINE unverified == {e \in Present : row[e].number = call[x].number /\ ~row[e].verified}
      <4>1. call'[x].pending = {e \in unverified : \A f \in unverified : row[f].nr <= row[e].nr}
        BY <3>1, FindFrame
      <4>2. unverified = {}
        <5>1. unverified \subseteq Present
          OBVIOUS
        <5> HIDE DEF unverified
        <5>2. QED
          BY <2>7, <3>1, <4>1, <5>1, NewestExists
      <4>3. row[c].verified
        BY <2>4, <3>1, <4>2
      <4>4. pc[d] = "pending"
        BY <3>1, FindFrame
      <4>5. QED
        BY <2>2, <2>4, <4>3, <4>4, VerifiedMeanwhileStep DEF TwinsSeen
    <3>2. CASE pc[d] \in {"store", "done"} /\ call'[d] = call[d]
      BY <2>2, <2>4, <2>7, <3>2, VerifiedMeanwhileStep DEF TwinsSeen
    <3>3. d = x => FindPending(x) \/ StoreToken(x)
      BY <2>7, CameFrom
    <3>4. StoreToken(x) => pc[x] = "store" /\ call' = call
      BY StoreFrame
    <3>5. d # x => pc'[d] = pc[d] /\ call'[d] = call[d]
      BY StepFrame
    <3>6. QED
      BY <2>7, <3>1, <3>2, <3>3, <3>4, <3>5
  <2>8. QED
    BY <2>6, <2>7
<1>3. QED
  BY <1>1, <1>2

-----------------------------------------------------------------------------
(* Verifications nobody ran into *)

\* The row of an undisturbed verification stays as it was left.
LEMMA ConfirmedStep ==
    ASSUME TypeOK, AwaitMatchesCall, PendingIsOlder, TokensAtHome, TokensKnown, ConfirmedStays,
           NEW x \in Requests, Arrive(x) \/ Handle(x)
    PROVE  ConfirmedStays'
<1> SUFFICES ASSUME NEW v \in Requests, call'[v].op = "verify", pc'[v] = "done",
                    token'[call'[v].token] = "confirmed", Undisturbed(v)'
             PROVE  /\ call'[v].of \in Present'
                    /\ row'[call'[v].of].verified /\ row'[call'[v].of].token = call'[v].token
                    /\ \A r \in Requests :
                          /\ pc'[r] = "store" => call'[v].of \notin call'[r].pending
                          /\ pc'[r] \in {"sms", "confirm", "delete"} => call'[r].of # call'[v].of
                          /\ pc'[r] = "revoke" /\ call'[r].of = call'[v].of =>
                                call'[r].token = call'[v].token
  BY DEF ConfirmedStays
<1>1. CASE v = x
  <2>1. ConfirmCard(x)
    BY <1>1, CameFrom
  <2>2. /\ call' = call /\ pc[x] = "confirm" /\ call[x].of \in Present
        /\ row'[call[x].of] \in Rows
        /\ row'[call[x].of].token = call[x].token /\ row'[call[x].of].verified
    BY <2>1, ConfirmFrame
  <2>3. row'[call[x].of] # NoRow /\ call[x].of \in Requests
    BY <2>2 DEF Rows, NoRow, Present
  <2>4. \A r \in Requests : pc'[r] \notin Awaits
    <3>1. SUFFICES ASSUME NEW r \in Requests, pc'[r] \in Awaits PROVE FALSE
      OBVIOUS
    <3>2. r # x /\ pc[r] = pc'[r]
      BY <1>1, <3>1, StepFrame DEF Awaits
    <3>3. Overlap(x, r)
      BY <2>2, <3>1, <3>2, WaitingOverlap DEF Awaits
    <3>4. Overlap(x, r)'
      BY <3>3, OverlapFrame
    <3>5. QED
      BY <1>1, <3>4 DEF Undisturbed
  <2>5. QED
    BY <1>1, <2>2, <2>3, <2>4 DEF Present, Awaits
<1>2. CASE v # x
  <2> DEFINE d == call[v].of
             t == call[v].token
  <2>1. call'[v] = call[v] /\ pc'[v] = pc[v]
    BY <1>2, StepFrame
  <2>2. Undisturbed(v)
    BY OverlapFrame DEF Undisturbed
  <2>3. d \in Stored /\ t \in Stored /\ Home(t) = d
    BY <2>1 DEF TokensAtHome
  <2>4. token[t] \in {"confirmed", "kept", "revoked"}
    BY <2>1 DEF TokensKnown
  <2>5. token[t] = "confirmed"
    <3>1. SmsAccepted(x) /\ t = call[x].token => token[t] = "confirmed"
      BY <2>1, <2>4, SmsFrame
    <3>2. ~(Revoke(x) /\ t = call[x].token)
      BY <2>1, RevokeFrame
    <3>3. ~(TokenIssued(x) /\ t = x)
      BY <2>1, IssueFrame
    <3>4. t \in Requests
      BY <2>3 DEF Stored
    <3>5. QED
      BY <2>1, <3>1, <3>2, <3>3, <3>4, WritesFrame
  <2>6. /\ d \in Present /\ row[d].verified /\ row[d].token = t
        /\ \A r \in Requests :
              /\ pc[r] = "store" => d \notin call[r].pending
              /\ pc[r] \in {"sms", "confirm", "delete"} => call[r].of # d
              /\ pc[r] = "revoke" /\ call[r].of = d => call[r].token = t
    BY <2>1, <2>2, <2>5 DEF ConfirmedStays
  <2>7. row'[d] = row[d] /\ d \in Requests
    <3>1. ~(ConfirmCard(x) /\ d = call[x].of)
      BY <2>6, ConfirmFrame
    <3>2. ~(DeleteCard(x) /\ d = call[x].of)
      BY <2>6, DeleteFrame
    <3>3. ASSUME StoreToken(x), d = Home(x) PROVE FALSE
      <4>1. pc[x] = "store" /\ call[x].op = "init"
        BY <3>3, StoreFrame
      <4>2. d # x
        BY <2>3, <4>1 DEF Stored
      <4>3. QED
        BY <2>6, <3>3, <4>1, <4>2, HomeChoice
    <3>4. d \in Requests
      BY <2>3 DEF Stored
    <3>5. QED
      BY <3>1, <3>2, <3>3, <3>4, WritesFrame
  <2> HIDE DEF d, t
  <2>8. ASSUME NEW r \in Requests
        PROVE  /\ pc'[r] = "store" => d \notin call'[r].pending
               /\ pc'[r] \in {"sms", "confirm", "delete"} => call'[r].of # d
               /\ pc'[r] = "revoke" /\ call'[r].of = d => call'[r].token = t
    <3>1. CASE r # x
      BY <2>6, <3>1, StepFrame
    <3>2. CASE r = x
      <4>1. pc'[x] = "store" => d \notin call'[x].pending
        BY <2>6, CameFrom, FindFrame
      <4>2. pc'[x] = "sms" => call'[x].of # d
        BY <2>6, CameFrom, ArriveFrame
      <4>3. pc'[x] = "confirm" => call'[x].of # d
        BY <2>6, CameFrom, SmsFrame
      <4>4. pc'[x] = "delete" => call'[x].of # d
        <5>1. SUFFICES ASSUME pc'[x] = "delete", call'[x].of = d PROVE FALSE
          OBVIOUS
        <5>2. call' = call /\ pc[x] = "revoke" /\ token'[call[x].token] # "confirmed"
          BY <5>1, CameFrom, RevokeFrame
        <5>3. call[x].token = t
          BY <2>6, <5>1, <5>2
        <5>4. QED
          BY <2>1, <5>2, <5>3 DEF t
      <4>5. pc'[x] = "revoke" /\ call'[x].of = d => call'[x].token = t
        BY <2>6, CameFrom, ArriveFrame
      <4>6. QED
        BY <3>2, <4>1, <4>2, <4>3, <4>4, <4>5
    <3>3. QED
      BY <3>1, <3>2
  <2>9. d \in Present' /\ call'[v].of = d /\ call'[v].token = t
    BY <2>1, <2>6, <2>7 DEF Present, d, t
  <2>10. QED
    BY <2>6, <2>7, <2>8, <2>9
<1>3. QED
  BY <1>1, <1>2

-----------------------------------------------------------------------------
(* The inductive invariant and what follows from it *)

\* Nothing has happened yet.
LEMMA InitInv == Init => IInv
<1> SUFFICES ASSUME Init PROVE IInv
  OBVIOUS
<1>1. TypeOK
  BY DEF Init, TypeOK
<1>2. \A r \in Requests : /\ row[r] = NoRow /\ token[r] = "none" /\ call[r].op = "none"
                          /\ pc[r] = "idle" /\ before[r] = {}
  BY DEF Init, NoCall
<1>3. Present = {}
  BY <1>2 DEF Present
<1>4. AwaitMatchesCall /\ TokensAtHome
  BY <1>2, <1>3 DEF AwaitMatchesCall, TokensAtHome
<1>5. TokensKnown /\ PendingIsOlder
  BY <1>2, <1>3 DEF TokensKnown, PendingIsOlder
<1>6. TwinsSeen /\ ConfirmedStays
  BY <1>2, <1>3 DEF TwinsSeen, ConfirmedStays
<1>7. QED
  BY <1>1, <1>4, <1>5, <1>6 DEF IInv

\* Every step of every request keeps it.
LEMMA StepInv == IInv /\ [Next]_vars => IInv'
<1> SUFFICES ASSUME IInv, [Next]_vars PROVE IInv'
  OBVIOUS
<1>1. /\ TypeOK /\ AwaitMatchesCall /\ TokensAtHome /\ TokensKnown
      /\ PendingIsOlder /\ TwinsSeen /\ ConfirmedStays
  BY DEF IInv
<1>2. ASSUME NEW x \in Requests, Arrive(x) \/ Handle(x) PROVE IInv'
  <2>1. TypeOK' /\ AwaitMatchesCall'
    BY <1>1, <1>2, TypeStep, AwaitStep
  <2>2. TokensAtHome' /\ TokensKnown' /\ PendingIsOlder'
    BY <1>1, <1>2, HomeStep, KnownStep, PendingStep
  <2>3. TwinsSeen' /\ ConfirmedStays'
    BY <1>1, <1>2, TwinsStep, ConfirmedStep
  <2>4. QED
    BY <2>1, <2>2, <2>3 DEF IInv
<1>3. CASE UNCHANGED vars
  <2>1. UNCHANGED <<row, token, call, pc, before>>
    BY <1>3 DEF vars
  <2>2. Stored' = Stored /\ Present' = Present
    BY <2>1 DEF Stored, Present
  <2>3. TypeOK' /\ AwaitMatchesCall'
    BY <1>1, <2>1 DEF TypeOK, AwaitMatchesCall
  <2>4. TokensAtHome' /\ TokensKnown' /\ PendingIsOlder'
    <3>1. TokensKnown'
      BY <1>1, <2>1, <2>2 DEF TokensKnown
    <3>2. PendingIsOlder'
      BY <1>1, <2>1, <2>2 DEF PendingIsOlder
    <3>3. /\ \A d \in Present : Home(row[d].token)' = Home(row[d].token)
          /\ \A r \in Requests : Home(call[r].token)' = Home(call[r].token)
      BY <2>1 DEF Home
    <3>4. TokensAtHome'
      BY <1>1, <2>1, <2>2, <3>3 DEF TokensAtHome
    <3>5. QED
      BY <3>1, <3>2, <3>4
  <2>5. TwinsSeen' /\ ConfirmedStays'
    BY <1>1, <2>1, <2>2 DEF TwinsSeen, VerifiedMeanwhile, ConfirmedStays, Undisturbed, Overlap
  <2>6. QED
    BY <2>3, <2>4, <2>5 DEF IInv
<1>4. QED
  BY <1>2, <1>3 DEF Next

\* The inductive invariant holds in every behaviour of CardsService.
THEOREM InductiveInvariant == Spec => []IInv
<1>1. Init => IInv
  BY InitInv
<1>2. IInv /\ [Next]_vars => IInv'
  BY StepInv
<1>3. QED
  BY <1>1, <1>2, PTL DEF Spec

\* Rows, tokens at Click and calls under way always have their types.
THEOREM TypeCorrect == Spec => []TypeOK
<1>1. IInv => TypeOK
  BY DEF IInv
<1>2. QED
  BY <1>1, InductiveInvariant, PTL

\* A card the service calls verified has a token its holder confirmed, whatever
\* requests ran together; only a removal that has not deleted the row yet, or
\* never will, leaves one whose token is revoked.
THEOREM VerifiedCardIsChargeable == Spec => []VerifiedIsChargeable
<1>1. ASSUME IInv, NEW d \in Present, row[d].verified, token[row[d].token] = "revoked"
      PROVE  \E r \in Requests : call[r].op = "remove" /\ call[r].of = d /\ pc[r] # "done"
  <2>1. TokensAtHome /\ TokensKnown
    BY <1>1 DEF IInv
  <2>2. row[d].token \in Requests /\ Home(row[d].token) = d
    BY <2>1 DEF TokensAtHome, Stored
  <2>3. PICK r \in Requests : call[r].op = "remove" /\ call[r].token = row[d].token
    BY <1>1, <2>1, <2>2 DEF TokensKnown
  <2>4. call[r].of = d
    BY <2>1, <2>2, <2>3 DEF TokensAtHome
  <2>5. pc[r] # "done"
    BY <2>1, <2>3, <2>4 DEF TokensKnown
  <2>6. QED
    BY <2>3, <2>4, <2>5
<1>2. IInv => VerifiedIsChargeable
  BY <1>1 DEF IInv, TokensKnown, VerifiedIsChargeable
<1>3. QED
  BY <1>2, InductiveInvariant, PTL

\* Two rows of one card come of requests in flight together, never of the check
\* for duplicates and the reuse of the pending row failing on their own.
THEOREM TwinsComeOfOverlap == Spec => []TwinsOnlyByOverlap
<1>1. ASSUME IInv, NEW c \in Present, NEW d \in Present, c # d, row[c].number = row[d].number
      PROVE  \/ Overlap(c, d)
             \/ \E v, i \in {c, d} : \E r \in Requests :
                   call[r].op = "verify" /\ call[r].of = v /\ v # i /\ Overlap(r, i)
  <2>1. TwinsSeen /\ PendingIsOlder /\ c \in Stored /\ d \in Stored
    BY <1>1, PresentStored DEF IInv
  <2>2. /\ c \in Requests /\ pc[c] = "done" /\ call[c].op = "init"
        /\ d \in Requests /\ pc[d] = "done" /\ call[d].op = "init"
    BY <2>1 DEF Stored
  <2>3. /\ call[c].pending = {} /\ row[c].number = call[c].number
        /\ call[d].pending = {} /\ row[d].number = call[d].number
    BY <2>1 DEF PendingIsOlder
  <2>4. CASE c \in before[d]
    <3>1. VerifiedMeanwhile(c, d)
      BY <1>1, <2>1, <2>2, <2>3, <2>4 DEF TwinsSeen
    <3>2. QED
      BY <1>1, <3>1 DEF VerifiedMeanwhile
  <2>5. CASE d \in before[c]
    <3>1. VerifiedMeanwhile(d, c)
      BY <1>1, <2>1, <2>2, <2>3, <2>5 DEF TwinsSeen
    <3>2. QED
      BY <1>1, <3>1 DEF VerifiedMeanwhile
  <2>6. CASE c \notin before[d] /\ d \notin before[c]
    BY <1>1, <2>2, <2>6 DEF Overlap
  <2>7. QED
    BY <2>4, <2>5, <2>6
<1>2. IInv => TwinsOnlyByOverlap
  BY <1>1 DEF TwinsOnlyByOverlap
<1>3. QED
  BY <1>2, InductiveInvariant, PTL

\* A card that can be charged and that no row knows of is left behind only by a
\* verification that was cut short or that another request ran into.
THEOREM OrphansAreExplained == Spec => []OrphanExplained
<1>1. ASSUME IInv, NEW t \in Requests, token[t] = "confirmed", \A d \in Present : row[d].token # t
      PROVE  \E v \in Requests :
                /\ call[v].op = "verify" /\ call[v].token = t
                /\ pc[v] # "done" \/ \E r \in Requests : Overlap(v, r)
  <2>1. PICK v \in Requests : call[v].op = "verify" /\ call[v].token = t
    BY <1>1 DEF IInv, TokensKnown
  <2>2. CASE pc[v] = "done" /\ Undisturbed(v)
    BY <1>1, <2>1, <2>2 DEF IInv, ConfirmedStays
  <2>3. QED
    BY <2>1, <2>2 DEF Undisturbed
<1>2. IInv => OrphanExplained
  BY <1>1 DEF OrphanExplained
<1>3. QED
  BY <1>2, InductiveInvariant, PTL

=============================================================================
