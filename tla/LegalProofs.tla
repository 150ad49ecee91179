---------------------------- MODULE LegalProofs -----------------------------
(***************************************************************************)
(* Theorems about Legal for every set of document types, every set of      *)
(* users and every finite set of requests.                                 *)
(***************************************************************************)
EXTENDS Legal, BoundedSets

-----------------------------------------------------------------------------
(* Counting *)

\* The requests that have inserted a document can be counted.
LEMMA CreatedCount ==
    /\ IsFiniteSet(Created)
    /\ Cardinality(Created) \in Nat /\ Cardinality(Requests) \in Nat
    /\ Cardinality(Created) <= Cardinality(Requests)
<1>1. Created \in SUBSET Requests
  BY DEF Created
<1>2. QED
  BY <1>1, LegalAssumption, PartCounted

\* One more of them makes the count one larger.
LEMMA OneMoreCreated ==
    ASSUME NEW x \in Requests, x \notin Created
    PROVE  /\ Cardinality(Created \cup {x}) = Cardinality(Created) + 1
           /\ Cardinality(Created) + 1 <= Cardinality(Requests)
<1>1. Created \in SUBSET Requests
  BY DEF Created
<1>2. QED
  BY <1>1, LegalAssumption, OneMoreCounted

-----------------------------------------------------------------------------
(* What the steps change *)

\* A document that exists has the fields of a document.
LEMMA DocFields ==
    ASSUME TypeOK, NEW d \in Requests
    PROVE  /\ Exists(d) <=> doc[d] \in Docs
           /\ Exists(d) => doc[d].type \in Types
           /\ doc[d].type \in Types => Exists(d)
           /\ doc[d].active => Exists(d)
           /\ doc[d].active \in BOOLEAN /\ doc[d].version \in Nat
<1>1. CASE doc[d] = NoDoc
  <2>1. /\ doc[d].type = "none" /\ ~doc[d].active /\ doc[d].active \in BOOLEAN
        /\ doc[d].version = 0
    BY <1>1 DEF NoDoc
  <2>2. doc[d] \notin Docs
    BY <2>1, LegalAssumption DEF Docs
  <2>3. ~Exists(d)
    BY <1>1 DEF Exists
  <2>4. QED
    BY <2>1, <2>2, <2>3, LegalAssumption
<1>2. CASE doc[d] \in Docs
  <2>1. /\ doc[d].type \in Types /\ doc[d].active \in BOOLEAN
        /\ doc[d].version \in 1..Cardinality(Requests)
    BY <1>2 DEF Docs, Versions
  <2>2. doc[d] # NoDoc
    BY <2>1 DEF NoDoc
  <2>3. QED
    BY <1>2, <2>1, <2>2, CreatedCount DEF Exists
<1>3. QED
  BY <1>1, <1>2 DEF TypeOK

\* The newest document of a type is there when there is one at all.
LEMMA LatestExists ==
    ASSUME TypeOK, NEW t \in Types, Of(t) # {}
    PROVE  Latest(Of(t)) # {}
<1> DEFINE V == {doc[d].version : d \in Of(t)}
<1>1. Cardinality(Requests) \in Nat
  BY CreatedCount
<1>2. \A d \in Of(t) : doc[d].version \in 0..Cardinality(Requests)
  BY <1>1, DocFields DEF Of, Docs, Versions
<1>3. V \in SUBSET (0..Cardinality(Requests)) /\ V # {}
  BY <1>2
<1>4. PICK v \in V : \A w \in V : v >= w
  <2> HIDE DEF V
  <2>1. QED
    BY <1>1, <1>3, LargestExists
<1>5. PICK d \in Of(t) : v = doc[d].version
  BY <1>4
<1>6. d \in Latest(Of(t))
  BY <1>1, <1>2, <1>4, <1>5 DEF Latest
<1>7. QED
  BY <1>6

\* The version of a new document is the one after the newest.
LEMMA CreateFrame ==
    ASSUME TypeOK, DocsAreCreated, NEW x \in Requests, x \notin Created,
           NEW t \in Types, NEW active \in BOOLEAN, CreateDocument(x, t, active)
    PROVE  /\ call'[x].op = "create" /\ call'[x].type = t /\ call'[x].active = active
           /\ call'[x].prev \subseteq Of(t)
           /\ call'[x].version <= Cardinality(Created) + 1
           /\ \A d \in Of(t) : doc[d].version < call'[x].version
           /\ call'[x] \in Calls
           /\ pc'[x] = "insert" \/ (pc'[x] = "previous" /\ active)
<1> DEFINE prev == Latest(Of(t))
           last == CHOOSE d \in prev : TRUE
           version == IF prev = {} THEN 1 ELSE 1 + doc[last].version
           c == [op |-> "create", type |-> t, active |-> active, prev |-> prev, version |-> version]
<1>1. call' = [call EXCEPT ![x] = c]
      /\ (pc' = [pc EXCEPT ![x] = "insert"] \/ (pc' = [pc EXCEPT ![x] = "previous"] /\ active))
  BY DEF CreateDocument, Begin
<1>2. prev \in SUBSET Requests /\ prev \subseteq Of(t)
  BY DEF Latest, Of
<1>3. /\ Cardinality(Created) \in Nat /\ Cardinality(Requests) \in Nat
      /\ Cardinality(Created) + 1 <= Cardinality(Requests)
  BY CreatedCount, OneMoreCreated
<1>4. \A d \in Of(t) : doc[d].version \in Nat /\ doc[d].version <= Cardinality(Created)
  BY DocFields DEF Of, DocsAreCreated
<1>5. prev # {} => last \in prev
  OBVIOUS
<1>6. /\ version \in Nat /\ version >= 1 /\ version <= Cardinality(Created) + 1
      /\ \A d \in Of(t) : doc[d].version < version
  <2>1. CASE prev = {}
    <3>1. Of(t) = {}
      BY <2>1, LatestExists
    <3>2. version = 1
      BY <2>1
    <3> HIDE DEF version
    <3>3. QED
      BY <1>3, <3>1, <3>2
  <2>2. CASE prev # {}
    <3>1. last \in Of(t) /\ \A d \in Of(t) : doc[d].version <= doc[last].version
      BY <1>5, <2>2 DEF Latest
    <3>2. version = 1 + doc[last].version
      BY <2>2
    <3> HIDE DEF version, last
    <3>3. QED
      BY <1>3, <1>4, <3>1, <3>2
  <2>3. QED
    BY <2>1, <2>2
<1> HIDE DEF version, prev
<1>7. /\ c.op = "create" /\ c.type = t /\ c.active = active /\ c.prev = prev
      /\ c.version = version
  OBVIOUS
<1>8. c \in Calls
  BY <1>2, <1>3, <1>6 DEF Calls, Versions
<1> HIDE DEF c
<1>9. call'[x] = c /\ (pc'[x] = "insert" \/ (pc'[x] = "previous" /\ active))
  BY <1>1 DEF TypeOK
<1>10. QED
  BY <1>2, <1>6, <1>7, <1>8, <1>9

\* A request that arrives: what its first statement has read.
LEMMA ArriveFrame ==
    ASSUME TypeOK, WaitMatchesCall, DocsAreCreated, NEW x \in Requests, Arrive(x)
    PROVE  /\ UNCHANGED <<doc, consents, held, published>>
           /\ pc[x] = "idle" /\ before'[x] = {s \in Requests : pc[s] \in Ends}
           /\ \A s \in Requests \ {x} :
                 pc'[s] = pc[s] /\ call'[s] = call[s] /\ before'[s] = before[s]
           /\ \/ /\ call'[x].op = "create" /\ call'[x].type \in Types
                 /\ call'[x].prev \subseteq Of(call'[x].type)
                 /\ call'[x].version <= Cardinality(Created) + 1
                 /\ \A d \in Of(call'[x].type) : doc[d].version < call'[x].version
                 /\ pc'[x] = "insert" \/ (pc'[x] = "previous" /\ call'[x].active)
              \/ /\ call'[x].op = "update" /\ call'[x].of \in Requests /\ Exists(call'[x].of)
                 /\ call'[x].siblings = {}
                 /\ \/ pc'[x] = "siblings" /\ call'[x].active = "on"
                    \/ pc'[x] = "write" /\ (call'[x].active = "on" => doc[call'[x].of].active)
              \/ /\ call'[x].op = "delete" /\ call'[x].of \in Requests /\ Exists(call'[x].of)
                 /\ ~doc[call'[x].of].active /\ pc'[x] = "delete"
              \/ /\ call'[x].op = "accept" /\ pc'[x] = "accept"
                 /\ \A d \in call'[x].docs : doc[d].active
           /\ call'[x] \in Calls
<1>1. ASSUME NEW c, NEW l, Begin(x, c, l)
      PROVE  /\ UNCHANGED <<doc, consents, held, published>>
             /\ pc[x] = "idle" /\ pc'[x] = l /\ call'[x] = c
             /\ before'[x] = {s \in Requests : pc[s] \in Ends}
             /\ \A s \in Requests \ {x} :
                   pc'[s] = pc[s] /\ call'[s] = call[s] /\ before'[s] = before[s]
  BY <1>1 DEF Begin, TypeOK
<1>2. PICK c, l : Begin(x, c, l)
  BY DEF Arrive, CreateDocument, UpdateDocument, DeleteDocument, AcceptConsents
<1>3. /\ UNCHANGED <<doc, consents, held, published>>
      /\ pc[x] = "idle" /\ before'[x] = {s \in Requests : pc[s] \in Ends}
      /\ \A s \in Requests \ {x} :
            pc'[s] = pc[s] /\ call'[s] = call[s] /\ before'[s] = before[s]
  BY <1>1, <1>2
<1>4. CASE \E t \in Types, active \in BOOLEAN : CreateDocument(x, t, active)
  <2>1. PICK t \in Types, active \in BOOLEAN : CreateDocument(x, t, active)
    BY <1>4
  <2>2. x \notin Created
    BY <1>3 DEF Created
  <2>3. QED
    BY <1>3, <2>1, <2>2, CreateFrame
<1>5. CASE \E d \in Requests, active \in {"on", "off", "same"} : UpdateDocument(x, d, active)
  <2>1. PICK d \in Requests, active \in {"on", "off", "same"} : UpdateDocument(x, d, active)
    BY <1>5
  <2> DEFINE c1 == [op |-> "update", of |-> d, active |-> active, siblings |-> {}]
             l1 == IF active = "on" /\ ~doc[d].active THEN "siblings" ELSE "write"
  <2>2. Exists(d) /\ Begin(x, c1, l1)
    BY <2>1 DEF UpdateDocument
  <2>3. call'[x] = c1 /\ pc'[x] = l1
    BY <1>1, <2>2
  <2>4. c1 \in Calls
    BY DEF Calls
  <2>5. QED
    BY <1>3, <2>2, <2>3, <2>4
<1>6. CASE \E d \in Requests : DeleteDocument(x, d)
  <2>1. PICK d \in Requests : DeleteDocument(x, d)
    BY <1>6
  <2>2. Exists(d) /\ ~doc[d].active /\ Begin(x, [op |-> "delete", of |-> d], "delete")
    BY <2>1 DEF DeleteDocument
  <2>3. call'[x] = [op |-> "delete", of |-> d] /\ pc'[x] = "delete"
    BY <1>1, <2>2
  <2>4. [op |-> "delete", of |-> d] \in Calls
    BY DEF Calls
  <2>5. QED
    BY <1>3, <2>2, <2>3, <2>4
<1>7. CASE \E u \in Users, docs \in SUBSET Requests : AcceptConsents(x, u, docs)
  <2>1. PICK u \in Users, docs \in SUBSET Requests : AcceptConsents(x, u, docs)
    BY <1>7
  <2>2. /\ \A d \in docs : doc[d].active
        /\ Begin(x, [op |-> "accept", user |-> u, docs |-> docs], "accept")
    BY <2>1 DEF AcceptConsents
  <2>3. call'[x] = [op |-> "accept", user |-> u, docs |-> docs] /\ pc'[x] = "accept"
    BY <1>1, <2>2
  <2>4. [op |-> "accept", user |-> u, docs |-> docs] \in Calls
    BY DEF Calls
  <2>5. QED
    BY <1>3, <2>2, <2>3, <2>4
<1>8. QED
  BY <1>4, <1>5, <1>6, <1>7 DEF Arrive

\* A commit sets what the transaction holds inactive and touches nothing else
\* of the documents it does not write.
LEMMA CommitFrame ==
    ASSUME TypeOK, NEW x \in Requests, NEW D \in SUBSET Requests,
           NEW changed \in [D -> Docs \cup {NoDoc}], Commit(x, changed)
    PROVE  /\ \A d \in D : doc'[d] = changed[d]
           /\ \A d \in Requests \ D :
                 /\ doc'[d] \in Docs \cup {NoDoc}
                 /\ doc'[d].type = doc[d].type /\ doc'[d].version = doc[d].version
                 /\ doc'[d].active <=> doc[d].active /\ d \notin held[x]
                 /\ doc'[d] = NoDoc <=> doc[d] = NoDoc
           /\ DOMAIN doc' = Requests
           /\ pc'[x] = "done" /\ held'[x] = {}
           /\ \A s \in Requests \ {x} : pc'[s] = pc[s] /\ held'[s] = held[s]
           /\ published' = published \cup {d \in Requests : doc'[d].active}
<1>1. /\ doc' = [d \in Requests |-> IF d \in D THEN changed[d]
                                    ELSE IF d \in held[x] THEN [doc[d] EXCEPT !.active = FALSE]
                                    ELSE doc[d]]
      /\ published' = published \cup {d \in Requests : doc'[d].active}
      /\ held' = [held EXCEPT ![x] = {}] /\ pc' = [pc EXCEPT ![x] = "done"]
  BY DEF Commit, Goto
<1>2. ASSUME NEW d \in Requests \ D
      PROVE  /\ doc'[d] \in Docs \cup {NoDoc}
             /\ doc'[d].type = doc[d].type /\ doc'[d].version = doc[d].version
             /\ doc'[d].active <=> doc[d].active /\ d \notin held[x]
             /\ doc'[d] = NoDoc <=> doc[d] = NoDoc
  <2>1. doc'[d] = IF d \in held[x] THEN [doc[d] EXCEPT !.active = FALSE] ELSE doc[d]
    BY <1>1, <1>2
  <2>2. CASE doc[d] = NoDoc
    <3> DEFINE Blank == [type : {"none"}, version : {0}, active : {FALSE}]
    <3>1. NoDoc \in Blank /\ ~NoDoc.active
      BY DEF NoDoc
    <3>2. [NoDoc EXCEPT !.active = FALSE] \in Blank
      BY <3>1
    <3>3. [NoDoc EXCEPT !.active = FALSE] = NoDoc
      BY <3>1, <3>2
    <3>4. QED
      BY <2>1, <2>2, <3>1, <3>3
  <2>3. CASE doc[d] \in Docs
    <3> DEFINE off == [doc[d] EXCEPT !.active = FALSE]
    <3>1. /\ off \in Docs /\ off.active = FALSE
          /\ off.type = doc[d].type /\ off.version = doc[d].version
      BY <2>3 DEF Docs
    <3>2. NoDoc \notin Docs
      BY CreatedCount DEF Docs, NoDoc, Versions
    <3> HIDE DEF off
    <3>3. doc'[d] = IF d \in held[x] THEN off ELSE doc[d]
      BY <2>1 DEF off
    <3>4. QED
      BY <2>3, <3>1, <3>2, <3>3
  <2>4. QED
    BY <2>2, <2>3 DEF TypeOK
<1>3. QED
  BY <1>1, <1>2 DEF TypeOK

\* An insertion writes the new document.
LEMMA InsertFrame ==
    ASSUME TypeOK, WaitMatchesCall, NEW x \in Requests, InsertDocument(x)
    PROVE  /\ UNCHANGED <<consents, call, before>>
           /\ pc[x] = "insert" /\ pc'[x] = "done" /\ call[x].op = "create" /\ held'[x] = {}
           /\ call[x].type \in Types /\ call[x].active \in BOOLEAN
           /\ call[x].prev \subseteq Requests /\ call[x].version \in Versions
           /\ doc'[x] \in Docs /\ doc'[x].type = call[x].type
           /\ doc'[x].version = call[x].version /\ doc'[x].active = call[x].active
           /\ \A d \in Requests \ {x} :
                 /\ doc'[d] \in Docs \cup {NoDoc}
                 /\ doc'[d].type = doc[d].type /\ doc'[d].version = doc[d].version
                 /\ doc'[d].active <=> doc[d].active /\ d \notin held[x]
                 /\ doc'[d] = NoDoc <=> doc[d] = NoDoc
           /\ \A s \in Requests \ {x} : pc'[s] = pc[s] /\ held'[s] = held[s]
           /\ published' = published \cup {d \in Requests : doc'[d].active}
           /\ DOMAIN doc' = Requests
<1> DEFINE new == [type |-> call[x].type, version |-> call[x].version, active |-> call[x].active]
           changed == [d \in {x} |-> new]
<1>1. pc[x] = "insert" /\ call[x].op = "create"
  BY DEF InsertDocument, WaitMatchesCall
<1>2. /\ call[x].type \in Types /\ call[x].active \in BOOLEAN /\ call[x].prev \subseteq Requests
      /\ call[x].version \in Versions
  BY <1>1 DEF TypeOK, Calls, NoCall
<1>3. Commit(x, changed) /\ UNCHANGED <<consents, call, before>>
  BY DEF InsertDocument
<1>4. new \in Docs /\ new.type = call[x].type /\ new.version = call[x].version
      /\ new.active = call[x].active
  BY <1>2 DEF Docs
<1> HIDE DEF new
<1>5. changed \in [{x} -> Docs \cup {NoDoc}] /\ changed[x] = new
  BY <1>4
<1> HIDE DEF changed
<1>6. /\ \A d \in {x} : doc'[d] = changed[d]
      /\ \A d \in Requests \ {x} :
                 /\ doc'[d] \in Docs \cup {NoDoc}
                 /\ doc'[d].type = doc[d].type /\ doc'[d].version = doc[d].version
                 /\ doc'[d].active <=> doc[d].active /\ d \notin held[x]
                 /\ doc'[d] = NoDoc <=> doc[d] = NoDoc
      /\ DOMAIN doc' = Requests
      /\ pc'[x] = "done" /\ held'[x] = {}
      /\ \A s \in Requests \ {x} : pc'[s] = pc[s] /\ held'[s] = held[s]
      /\ published' = published \cup {d \in Requests : doc'[d].active}
  BY <1>3, <1>5, CommitFrame
<1>7. QED
  BY <1>1, <1>2, <1>3, <1>4, <1>5, <1>6

\* An update writes the activity of its document.
LEMMA WriteFrame ==
    ASSUME TypeOK, WaitMatchesCall, NEW x \in Requests, WriteDocument(x)
    PROVE  /\ UNCHANGED <<consents, call, before>>
           /\ pc[x] = "write" /\ pc'[x] = "done" /\ call[x].op = "update" /\ held'[x] = {}
           /\ call[x].of \in Requests /\ call[x].siblings \subseteq Requests
           /\ doc[call[x].of] \in Docs /\ doc'[call[x].of] \in Docs
           /\ doc'[call[x].of].type = doc[call[x].of].type
           /\ doc'[call[x].of].version = doc[call[x].of].version
           /\ doc'[call[x].of].active <=>
                 call[x].active = "on" \/ (call[x].active = "same" /\ doc[call[x].of].active)
           /\ \A d \in Requests \ {call[x].of} :
                 /\ doc'[d] \in Docs \cup {NoDoc}
                 /\ doc'[d].type = doc[d].type /\ doc'[d].version = doc[d].version
                 /\ doc'[d].active <=> doc[d].active /\ d \notin held[x]
                 /\ doc'[d] = NoDoc <=> doc[d] = NoDoc
           /\ \A s \in Requests \ {x} : pc'[s] = pc[s] /\ held'[s] = held[s]
           /\ published' = published \cup {d \in Requests : doc'[d].active}
           /\ DOMAIN doc' = Requests
           /\ \A s \in Requests \ {x} : call[x].of \notin held[s]
<1> DEFINE o == call[x].of
           active == IF call[x].active = "same" THEN doc[o].active ELSE call[x].active = "on"
           changed == [e \in {o} |-> [doc[e] EXCEPT !.active = active]]
           new == [doc[o] EXCEPT !.active = active]
<1>1. pc[x] = "write" /\ call[x].op = "update"
  BY DEF WriteDocument, WaitMatchesCall
<1>2. call[x].of \in Requests /\ call[x].siblings \subseteq Requests
      /\ call[x].active \in {"on", "off", "same"}
  BY <1>1 DEF TypeOK, Calls, NoCall
<1>3. /\ Commit(x, changed) /\ UNCHANGED <<consents, call, before>>
      /\ Exists(o) /\ \A s \in Requests \ {x} : o \notin held[s]
  BY DEF WriteDocument, Unlocked
<1>4. doc[o] \in Docs
  BY <1>2, <1>3, DocFields
<1>5. active \in BOOLEAN
      /\ (active <=> call[x].active = "on" \/ (call[x].active = "same" /\ doc[o].active))
  BY <1>2, DocFields
<1> HIDE DEF active, o
<1>6. /\ new \in Docs /\ new.type = doc[o].type /\ new.version = doc[o].version
      /\ new.active = active
  BY <1>4, <1>5 DEF Docs
<1>7. changed[o] = new
  OBVIOUS
<1>8. changed \in [{o} -> Docs \cup {NoDoc}]
  BY <1>6
<1>9. {o} \in SUBSET Requests
  BY <1>2 DEF o
<1> HIDE DEF new, changed
<1>10. /\ \A d \in {o} : doc'[d] = changed[d]
       /\ \A d \in Requests \ {o} :
                 /\ doc'[d] \in Docs \cup {NoDoc}
                 /\ doc'[d].type = doc[d].type /\ doc'[d].version = doc[d].version
                 /\ doc'[d].active <=> doc[d].active /\ d \notin held[x]
                 /\ doc'[d] = NoDoc <=> doc[d] = NoDoc
       /\ DOMAIN doc' = Requests
       /\ pc'[x] = "done" /\ held'[x] = {}
       /\ \A s \in Requests \ {x} : pc'[s] = pc[s] /\ held'[s] = held[s]
       /\ published' = published \cup {d \in Requests : doc'[d].active}
  BY <1>3, <1>8, <1>9, CommitFrame
<1>11. doc'[o] = new
  BY <1>7, <1>10
<1>12. QED
  BY <1>1, <1>2, <1>3, <1>4, <1>5, <1>6, <1>10, <1>11 DEF o

\* Setting the previous version inactive waits for the commit.
LEMMA PreviousFrame ==
    ASSUME TypeOK, WaitMatchesCall, NEW x \in Requests, DeactivatePrevious(x)
    PROVE  /\ UNCHANGED <<doc, consents, call, before, published>>
           /\ pc[x] = "previous" /\ pc'[x] = "insert" /\ call[x].op = "create"
           /\ call[x].active /\ call[x].prev \subseteq Requests
           /\ held'[x] = call[x].prev
           /\ \A s \in Requests \ {x} : pc'[s] = pc[s] /\ held'[s] = held[s]
<1>1. pc[x] = "previous" /\ call[x].op = "create" /\ call[x].active
  BY DEF DeactivatePrevious, WaitMatchesCall
<1>2. call[x].prev \subseteq Requests
  BY <1>1 DEF TypeOK, Calls, NoCall
<1>3. QED
  BY <1>1, <1>2 DEF DeactivatePrevious, Goto, TypeOK

\* Selecting the siblings fills them in.
LEMMA SelectFrame ==
    ASSUME TypeOK, WaitMatchesCall, NEW x \in Requests, SelectSiblings(x)
    PROVE  /\ UNCHANGED <<doc, consents, held, before, published>>
           /\ pc[x] = "siblings" /\ pc'[x] = "lock" /\ call[x].op = "update"
           /\ call[x].active = "on" /\ call[x].of \in Requests /\ Exists(call[x].of)
           /\ call'[x].op = "update" /\ call'[x].of = call[x].of /\ call'[x].active = "on"
           /\ call'[x].siblings = Active(doc[call[x].of].type) \ {call[x].of}
           /\ call'[x] \in Calls
           /\ \A s \in Requests \ {x} : pc'[s] = pc[s] /\ call'[s] = call[s]
<1> DEFINE siblings == Active(doc[call[x].of].type) \ {call[x].of}
<1>1. /\ pc[x] = "siblings" /\ call[x].op = "update" /\ call[x].active = "on"
      /\ Exists(call[x].of)
      /\ call' = [call EXCEPT ![x].siblings = siblings] /\ pc' = [pc EXCEPT ![x] = "lock"]
      /\ UNCHANGED <<doc, consents, held, before, published>>
  BY DEF SelectSiblings, WaitMatchesCall, Goto
<1>2. siblings \in SUBSET Requests
  BY DEF Active, Of
<1> HIDE DEF siblings
<1>3. call[x] \in [op : {"update"}, of : Requests, active : {"on", "off", "same"},
                   siblings : SUBSET Requests]
  BY <1>1 DEF TypeOK, Calls, NoCall
<1>4. /\ call'[x].op = "update" /\ call'[x].of = call[x].of /\ call'[x].active = "on"
      /\ call'[x].siblings = siblings /\ call[x].of \in Requests
      /\ call'[x] \in [op : {"update"}, of : Requests, active : {"on", "off", "same"},
                       siblings : SUBSET Requests]
  BY <1>1, <1>2, <1>3 DEF TypeOK
<1>5. /\ pc'[x] = "lock"
      /\ \A s \in Requests \ {x} : pc'[s] = pc[s] /\ call'[s] = call[s]
  BY <1>1 DEF TypeOK
<1>6. QED
  BY <1>1, <1>4, <1>5 DEF Calls, siblings

\* Locking takes the siblings that are still active.
LEMMA LockFrame ==
    ASSUME TypeOK, WaitMatchesCall, NEW x \in Requests, LockSiblings(x)
    PROVE  /\ UNCHANGED <<doc, consents, call, before, published>>
           /\ pc[x] = "lock" /\ pc'[x] = "write" /\ call[x].op = "update"
           /\ call[x].active = "on" /\ call[x].siblings \subseteq Requests
           /\ held'[x] = {d \in call[x].siblings : doc[d].active}
           /\ \A s \in Requests \ {x} : pc'[s] = pc[s] /\ held'[s] = held[s]
<1>1. pc[x] = "lock" /\ call[x].op = "update" /\ call[x].active = "on"
  BY DEF LockSiblings, WaitMatchesCall
<1>2. call[x].siblings \subseteq Requests
  BY <1>1 DEF TypeOK, Calls, NoCall
<1>3. QED
  BY <1>1, <1>2 DEF LockSiblings, Goto, TypeOK

\* A deletion takes the row and the consents given to it.
LEMMA DeleteFrame ==
    ASSUME TypeOK, WaitMatchesCall, NEW x \in Requests, DeleteRow(x)
    PROVE  /\ UNCHANGED <<call, held, before, published>>
           /\ pc[x] = "delete" /\ pc'[x] = "done" /\ call[x].op = "delete"
           /\ call[x].of \in Requests /\ Exists(call[x].of)
           /\ doc'[call[x].of] = NoDoc
           /\ \A d \in Requests \ {call[x].of} : doc'[d] = doc[d]
           /\ consents' = {c \in consents : c[2] # call[x].of}
           /\ \A s \in Requests \ {x} : pc'[s] = pc[s]
           /\ DOMAIN doc' = Requests
<1>1. pc[x] = "delete" /\ call[x].op = "delete"
  BY DEF DeleteRow, WaitMatchesCall
<1>2. call[x].of \in Requests
  BY <1>1 DEF TypeOK, Calls, NoCall
<1>3. QED
  BY <1>1, <1>2 DEF DeleteRow, Goto, TypeOK

\* Consents are written for documents that exist.
LEMMA ConsentFrame ==
    ASSUME TypeOK, WaitMatchesCall, NEW x \in Requests, WriteConsents(x)
    PROVE  /\ UNCHANGED <<doc, call, held, before, published>>
           /\ pc[x] = "accept" /\ pc'[x] = "done" /\ call[x].op = "accept"
           /\ call[x].user \in Users /\ call[x].docs \subseteq Requests
           /\ \A d \in call[x].docs : Exists(d)
           /\ consents' = consents \cup {<<call[x].user, d>> : d \in call[x].docs}
           /\ \A s \in Requests \ {x} : pc'[s] = pc[s]
<1>1. pc[x] = "accept" /\ call[x].op = "accept"
  BY DEF WriteConsents, WaitMatchesCall
<1>2. call[x].user \in Users /\ call[x].docs \subseteq Requests
  BY <1>1 DEF TypeOK, Calls, NoCall
<1>3. QED
  BY <1>1, <1>2 DEF WriteConsents, Goto, TypeOK

\* An abort gives up what the transaction holds.
LEMMA AbortFrame ==
    ASSUME TypeOK, NEW x \in Requests, Abort(x)
    PROVE  /\ UNCHANGED <<doc, consents, call, before, published>>
           /\ pc[x] \in Waits /\ pc'[x] = "aborted" /\ held'[x] = {}
           /\ \A s \in Requests \ {x} : pc'[s] = pc[s] /\ held'[s] = held[s]
BY DEF TypeOK, Abort, Goto

-----------------------------------------------------------------------------
(* What every step leaves alone *)

\* Requests at a statement at the same time overlap.
LEMMA WaitingOverlap ==
    ASSUME WaitMatchesCall, NEW r \in Requests, NEW s \in Requests, r # s,
           pc[r] \in Waits, pc[s] \in Waits
    PROVE  Overlap(r, s) /\ Overlap(s, r)
BY DEF WaitMatchesCall, Overlap, Waits, Ends

\* How a request came to stand where it stands after its step.
LEMMA CameFrom ==
    ASSUME TypeOK, WaitMatchesCall, DocsAreCreated, NEW x \in Requests, Arrive(x) \/ Handle(x)
    PROVE  /\ pc[x] \in {"idle"} \cup Waits /\ pc'[x] \in Waits \cup Ends
           /\ pc[x] = "idle" <=> Arrive(x)
           /\ pc'[x] \in {"previous", "siblings", "delete", "accept"} => Arrive(x)
           /\ pc'[x] = "insert" => Arrive(x) \/ DeactivatePrevious(x)
           /\ pc'[x] = "lock" => SelectSiblings(x)
           /\ pc'[x] = "write" => Arrive(x) \/ LockSiblings(x)
           /\ pc'[x] = "done" =>
                 InsertDocument(x) \/ WriteDocument(x) \/ DeleteRow(x) \/ WriteConsents(x)
<1>1. Arrive(x) => /\ pc[x] = "idle"
                   /\ pc'[x] \in {"previous", "insert", "siblings", "write", "delete", "accept"}
  BY ArriveFrame
<1>2. InsertDocument(x) => pc[x] = "insert" /\ pc'[x] = "done"
  BY InsertFrame
<1>3. WriteDocument(x) => pc[x] = "write" /\ pc'[x] = "done"
  BY WriteFrame
<1>4. DeactivatePrevious(x) => pc[x] = "previous" /\ pc'[x] = "insert"
  BY PreviousFrame
<1>5. SelectSiblings(x) => pc[x] = "siblings" /\ pc'[x] = "lock"
  BY SelectFrame
<1>6. LockSiblings(x) => pc[x] = "lock" /\ pc'[x] = "write"
  BY LockFrame
<1>7. DeleteRow(x) => pc[x] = "delete" /\ pc'[x] = "done"
  BY DeleteFrame
<1>8. WriteConsents(x) => pc[x] = "accept" /\ pc'[x] = "done"
  BY ConsentFrame
<1>9. Abort(x) => pc[x] \in Waits /\ pc'[x] = "aborted"
  BY AbortFrame
<1>10. QED
  BY <1>1, <1>2, <1>3, <1>4, <1>5, <1>6, <1>7, <1>8, <1>9 DEF Handle, Waits, Ends

\* A step of x concerns x alone, and what a request asked for, and what had
\* ended before it, never change.
LEMMA StepFrame ==
    ASSUME TypeOK, WaitMatchesCall, DocsAreCreated, NEW x \in Requests, Arrive(x) \/ Handle(x)
    PROVE  /\ \A s \in Requests \ {x} :
                 /\ pc'[s] = pc[s] /\ call'[s] = call[s] /\ before'[s] = before[s]
                 /\ held'[s] = held[s]
           /\ ~Arrive(x) => before' = before
           /\ ~Arrive(x) /\ ~SelectSiblings(x) => call' = call
           /\ ~Arrive(x) => call'[x].op = call[x].op
           /\ Arrive(x) => before'[x] = {q \in Requests : pc[q] \in Ends}
<1>1. CASE Arrive(x)
  BY <1>1, ArriveFrame
<1>2. CASE InsertDocument(x)
  BY <1>2, InsertFrame, CameFrom
<1>3. CASE WriteDocument(x)
  BY <1>3, WriteFrame, CameFrom
<1>4. CASE DeactivatePrevious(x)
  BY <1>4, PreviousFrame, CameFrom
<1>5. CASE SelectSiblings(x)
  BY <1>5, SelectFrame, CameFrom
<1>6. CASE LockSiblings(x)
  BY <1>6, LockFrame, CameFrom
<1>7. CASE DeleteRow(x)
  BY <1>7, DeleteFrame, CameFrom
<1>8. CASE WriteConsents(x)
  BY <1>8, ConsentFrame, CameFrom
<1>9. CASE Abort(x)
  BY <1>9, AbortFrame, CameFrom DEF Waits
<1>10. QED
  BY <1>1, <1>2, <1>3, <1>4, <1>5, <1>6, <1>7, <1>8, <1>9 DEF Handle

\* What a request under way asked for stays.
LEMMA AskedFor ==
    ASSUME TypeOK, WaitMatchesCall, DocsAreCreated, NEW x \in Requests, Arrive(x) \/ Handle(x),
           NEW r \in Requests, pc[r] # "idle"
    PROVE  /\ pc'[r] # "idle" /\ before'[r] = before[r] /\ call'[r].op = call[r].op
           /\ call[r].op # "update" => call'[r] = call[r]
           /\ call[r].op = "update" =>
                 call'[r].of = call[r].of /\ call'[r].active = call[r].active
<1>1. CASE r # x
  BY <1>1, StepFrame
<1>2. CASE r = x
  <2>1. ~Arrive(x) /\ pc'[x] # "idle"
    BY <1>2, CameFrom DEF Waits, Ends
  <2>2. SelectSiblings(x) => /\ call[x].op = "update" /\ call'[x].of = call[x].of
                             /\ call'[x].active = call[x].active
    BY SelectFrame
  <2>3. QED
    BY <1>2, <2>1, <2>2, StepFrame
<1>3. QED
  BY <1>1, <1>2

\* Overlapping is for good; alone is a request that nobody arrived beside.
LEMMA OverlapFrame ==
    ASSUME TypeOK, WaitMatchesCall, DocsAreCreated, NEW x \in Requests, Arrive(x) \/ Handle(x)
    PROVE  /\ \A r, s \in Requests : pc[r] # "idle" /\ pc[s] # "idle" /\ Overlap(r, s)
                 => Overlap(r, s)'
           /\ \A r \in Requests : pc[r] # "idle" /\ Alone(r)' => Alone(r)
           /\ \A r \in Requests : pc[r] \in Waits /\ Alone(r)' => r = x
<1>1. /\ \A s \in Requests : pc[s] # "idle" => pc'[s] # "idle" /\ before'[s] = before[s]
      /\ \A s \in Requests \ {x} : pc'[s] = pc[s] /\ before'[s] = before[s]
      /\ pc[x] \in {"idle"} \cup Waits /\ pc'[x] \in Waits \cup Ends
  BY AskedFor, StepFrame, CameFrom
<1>2. QED
  BY <1>1 DEF Overlap, Alone, WaitMatchesCall, Waits, Ends

\* Documents stay inserted, and an insertion is by the request that steps.
LEMMA CreatedFrame ==
    ASSUME TypeOK, WaitMatchesCall, DocsAreCreated, NEW x \in Requests, Arrive(x) \/ Handle(x)
    PROVE  /\ Created \subseteq Created' /\ Created' \subseteq Created \cup {x}
           /\ x \notin Created /\ (x \in Created' <=> InsertDocument(x))
           /\ \A d \in Created : d \in Requests /\ call'[d] = call[d]
           /\ Cardinality(Created) <= Cardinality(Created')
           /\ Cardinality(Created') \in Nat
           /\ InsertDocument(x) => Cardinality(Created') = Cardinality(Created) + 1
<1>1. \A d \in Created : d \in Requests /\ pc[d] # "idle" /\ call[d].op # "update"
  BY DEF Created
<1>2. x \notin Created
  BY CameFrom DEF Created, Waits
<1>3. \A d \in Created : d # x /\ call'[d] = call[d] /\ pc'[d] = pc[d]
  BY <1>1, <1>2, StepFrame
<1>4. Created \subseteq Created'
  BY <1>1, <1>3 DEF Created
<1>5. Created' \subseteq Created \cup {x}
  BY StepFrame DEF Created
<1>6. InsertDocument(x) => x \in Created'
  BY InsertFrame DEF Created
<1>7. x \in Created' => InsertDocument(x)
  <2>1. SUFFICES ASSUME pc'[x] = "done", call'[x].op = "create" PROVE InsertDocument(x)
    BY DEF Created
  <2>2. ~WriteDocument(x) /\ ~DeleteRow(x) /\ ~WriteConsents(x)
    BY <2>1, WriteFrame, DeleteFrame, ConsentFrame
  <2>3. QED
    BY <2>1, <2>2, CameFrom
<1>8. CASE x \in Created'
  <2>1. Created' = Created \cup {x}
    BY <1>4, <1>5, <1>8
  <2>2. Cardinality(Created') = Cardinality(Created) + 1
    BY <1>2, <2>1, OneMoreCreated
  <2>3. QED
    BY <1>1, <1>2, <1>3, <1>4, <1>5, <1>6, <1>7, <2>2, CreatedCount
<1>9. CASE x \notin Created'
  <2>1. Created' = Created
    BY <1>4, <1>5, <1>9
  <2>2. Cardinality(Created') = Cardinality(Created)
    BY <2>1
  <2>3. QED
    BY <1>1, <1>2, <1>3, <1>4, <1>5, <1>6, <1>7, <1>9, <2>2, CreatedCount
<1>10. QED
  BY <1>8, <1>9

\* What happens to one document: it comes with the request that inserts it,
\* goes with a deletion, becomes active by insertion or activation and inactive
\* by a deactivation or the commit of who holds it.
LEMMA DocFrame ==
    ASSUME TypeOK, WaitMatchesCall, DocsAreCreated, NEW x \in Requests, Arrive(x) \/ Handle(x),
           NEW d \in Requests
    PROVE  /\ Exists(d)' => Exists(d) \/ (InsertDocument(x) /\ d = x)
           /\ Exists(d)' => /\ doc'[d].type = IF Exists(d) THEN doc[d].type ELSE call[x].type
                            /\ doc'[d].version =
                                  IF Exists(d) THEN doc[d].version ELSE call[x].version
           /\ Exists(d) /\ ~Exists(d)' => DeleteRow(x) /\ d = call[x].of
           /\ doc'[d].active => \/ doc[d].active
                                \/ InsertDocument(x) /\ d = x /\ call[x].active
                                \/ WriteDocument(x) /\ d = call[x].of /\ call[x].active = "on"
           /\ doc[d].active /\ ~doc'[d].active =>
                 \/ DeleteRow(x) /\ d = call[x].of
                 \/ InsertDocument(x) /\ d \in held[x]
                 \/ WriteDocument(x) /\ d \in held[x] /\ d # call[x].of
                 \/ WriteDocument(x) /\ d = call[x].of /\ call[x].active = "off"
           /\ doc'[d] \in Docs \cup {NoDoc}
<1>1. doc[d] \in Docs \cup {NoDoc} /\ ~NoDoc.active
  BY DEF TypeOK, NoDoc
<1>2. CASE doc'[d] = doc[d]
  BY <1>1, <1>2 DEF Exists
<1>3. CASE InsertDocument(x)
  <2>1. ~Exists(x)
    BY CreatedFrame DEF DocsAreCreated
  <2>2. CASE d = x
    <3>1. /\ doc'[x] \in Docs /\ doc'[x].type = call[x].type
          /\ doc'[x].version = call[x].version /\ doc'[x].active = call[x].active
      BY <1>3, InsertFrame
    <3>2. ~doc[x].active
      BY <2>1, DocFields
    <3>3. QED
      BY <1>3, <2>1, <2>2, <3>1, <3>2 DEF Exists
  <2>3. CASE d # x
    <3>1. /\ doc'[d] \in Docs \cup {NoDoc}
          /\ doc'[d].type = doc[d].type /\ doc'[d].version = doc[d].version
          /\ doc'[d].active <=> doc[d].active /\ d \notin held[x]
          /\ doc'[d] = NoDoc <=> doc[d] = NoDoc
      BY <1>3, <2>3, InsertFrame
    <3>2. QED
      BY <1>3, <2>3, <3>1 DEF Exists
  <2>4. QED
    BY <2>2, <2>3
<1>4. CASE WriteDocument(x)
  <2>1. CASE d = call[x].of
    <3>1. /\ doc[d] \in Docs /\ doc'[d] \in Docs
          /\ doc'[d].type = doc[d].type /\ doc'[d].version = doc[d].version
          /\ doc'[d].active <=>
                 call[x].active = "on" \/ (call[x].active = "same" /\ doc[d].active)
          /\ call[x].op = "update"
      BY <1>4, <2>1, WriteFrame
    <3>2. call[x].active \in {"on", "off", "same"}
      BY <3>1 DEF TypeOK, Calls, NoCall
    <3>3. NoDoc \notin Docs
      BY CreatedCount DEF Docs, NoDoc, Versions
    <3>4. Exists(d) /\ Exists(d)'
      BY <3>1, <3>3 DEF Exists
    <3>5. doc[d].active /\ ~doc'[d].active => call[x].active = "off"
      BY <3>1, <3>2
    <3>6. doc'[d].active => doc[d].active \/ call[x].active = "on"
      BY <3>1
    <3>7. QED
      BY <1>4, <2>1, <3>1, <3>4, <3>5, <3>6
  <2>2. CASE d # call[x].of
    <3>1. /\ doc'[d] \in Docs \cup {NoDoc}
          /\ doc'[d].type = doc[d].type /\ doc'[d].version = doc[d].version
          /\ doc'[d].active <=> doc[d].active /\ d \notin held[x]
          /\ doc'[d] = NoDoc <=> doc[d] = NoDoc
      BY <1>4, <2>2, WriteFrame
    <3>2. QED
      BY <1>4, <2>2, <3>1 DEF Exists
  <2>3. QED
    BY <2>1, <2>2
<1>5. CASE DeleteRow(x) /\ d = call[x].of
  BY <1>1, <1>5, DeleteFrame DEF Exists
<1>6. DeleteRow(x) /\ d # call[x].of => doc'[d] = doc[d]
  BY DeleteFrame
<1>7. CASE ~InsertDocument(x) /\ ~WriteDocument(x) /\ ~DeleteRow(x)
  <2>1. doc' = doc
    BY <1>7, ArriveFrame, PreviousFrame, SelectFrame, LockFrame, ConsentFrame, AbortFrame DEF Handle
  <2>2. QED
    BY <1>2, <2>1
<1>8. QED
  BY <1>2, <1>3, <1>4, <1>5, <1>6, <1>7

-----------------------------------------------------------------------------
(* Types, and what kind of request stands where *)

\* Every step keeps the types.
LEMMA TypeStep ==
    ASSUME TypeOK, WaitMatchesCall, DocsAreCreated, NEW x \in Requests, Arrive(x) \/ Handle(x)
    PROVE  TypeOK'
<1>1. pc' \in [Requests -> {"idle"} \cup Waits \cup Ends]
  BY DEF TypeOK, Arrive, CreateDocument, UpdateDocument, DeleteDocument, AcceptConsents, Begin,
     Handle, DeactivatePrevious, InsertDocument, SelectSiblings, LockSiblings, WriteDocument,
     DeleteRow, WriteConsents, Abort, Commit, Goto, Waits, Ends
<1>2. before' \in [Requests -> SUBSET Requests]
  <2>1. CASE Arrive(x)
    <3>1. before' = [before EXCEPT ![x] = {s \in Requests : pc[s] \in Ends}]
      BY <2>1 DEF Arrive, CreateDocument, UpdateDocument, DeleteDocument, AcceptConsents, Begin
    <3>2. QED
      BY <3>1 DEF TypeOK
  <2>2. CASE ~Arrive(x)
    BY <2>2, StepFrame DEF TypeOK
  <2>3. QED
    BY <2>1, <2>2
<1>3. call' \in [Requests -> Calls \cup {NoCall}]
  <2> DEFINE T == [Requests -> Calls \cup {NoCall}]
  <2>1. call \in T
    BY DEF TypeOK
  <2>2. CASE Arrive(x)
    <3>1. PICK c : call' = [call EXCEPT ![x] = c]
      BY <2>2 DEF Arrive, CreateDocument, UpdateDocument, DeleteDocument, AcceptConsents, Begin
    <3>2. call'[x] \in Calls
      BY <2>2, ArriveFrame
    <3>3. QED
      BY <2>1, <3>1, <3>2
  <2>3. CASE SelectSiblings(x)
    <3>1. PICK c : call' = [call EXCEPT ![x] = c]
      BY <2>3 DEF SelectSiblings
    <3>2. call'[x] \in Calls
      BY <2>3, SelectFrame
    <3>3. QED
      BY <2>1, <3>1, <3>2
  <2>4. CASE ~Arrive(x) /\ ~SelectSiblings(x)
    BY <2>1, <2>4, StepFrame
  <2>5. QED
    BY <2>2, <2>3, <2>4
<1>4. held' \in [Requests -> SUBSET Requests]
  <2> DEFINE T == [Requests -> SUBSET Requests]
  <2>1. held \in T
    BY DEF TypeOK
  <2>2. CASE Arrive(x) \/ SelectSiblings(x) \/ DeleteRow(x) \/ WriteConsents(x)
    BY <2>1, <2>2, ArriveFrame, SelectFrame, DeleteFrame, ConsentFrame
  <2>3. CASE InsertDocument(x) \/ WriteDocument(x) \/ Abort(x)
    <3>1. held' = [held EXCEPT ![x] = {}]
      BY <2>3 DEF InsertDocument, WriteDocument, Abort, Commit
    <3>2. QED
      BY <2>1, <3>1
  <2>4. CASE DeactivatePrevious(x)
    <3>1. held' = [held EXCEPT ![x] = call[x].prev] /\ call[x].prev \subseteq Requests
      BY <2>4, PreviousFrame DEF DeactivatePrevious
    <3>2. QED
      BY <2>1, <3>1
  <2>5. CASE LockSiblings(x)
    <3>1. /\ held' = [held EXCEPT ![x] = {d \in call[x].siblings : doc[d].active}]
          /\ call[x].siblings \subseteq Requests
      BY <2>5, LockFrame DEF LockSiblings
    <3>2. QED
      BY <2>1, <3>1
  <2>6. QED
    BY <2>2, <2>3, <2>4, <2>5 DEF Handle
<1>5. doc' \in [Requests -> Docs \cup {NoDoc}]
  <2>1. CASE InsertDocument(x) \/ WriteDocument(x)
    <3>1. doc' = [d \in Requests |-> doc'[d]]
      BY <2>1 DEF InsertDocument, WriteDocument, Commit
    <3>2. \A d \in Requests : doc'[d] \in Docs \cup {NoDoc}
      BY DocFrame
    <3>3. QED
      BY <3>1, <3>2
  <2>2. CASE DeleteRow(x)
    <3>1. doc' = [doc EXCEPT ![call[x].of] = NoDoc]
      BY <2>2 DEF DeleteRow
    <3>2. QED
      BY <3>1 DEF TypeOK
  <2>3. CASE ~InsertDocument(x) /\ ~WriteDocument(x) /\ ~DeleteRow(x)
    <3>1. doc' = doc
      BY <2>3, ArriveFrame, PreviousFrame, SelectFrame, LockFrame, ConsentFrame, AbortFrame
         DEF Handle
    <3>2. QED
      BY <3>1 DEF TypeOK
  <2>4. QED
    BY <2>1, <2>2, <2>3
<1>6. consents' \subseteq Users \X Requests
  <2>1. consents \subseteq Users \X Requests
    BY DEF TypeOK
  <2>2. CASE DeleteRow(x)
    BY <2>1, <2>2, DeleteFrame
  <2>3. CASE WriteConsents(x)
    BY <2>1, <2>3, ConsentFrame
  <2>4. CASE ~DeleteRow(x) /\ ~WriteConsents(x)
    BY <2>1, <2>4, ArriveFrame, InsertFrame, WriteFrame, PreviousFrame, SelectFrame, LockFrame,
       AbortFrame DEF Handle
  <2>5. QED
    BY <2>2, <2>3, <2>4
<1>7. published' \subseteq Requests
  <2>1. published \subseteq Requests
    BY DEF TypeOK
  <2>2. CASE InsertDocument(x) \/ WriteDocument(x)
    BY <2>1, <2>2, InsertFrame, WriteFrame
  <2>3. CASE ~InsertDocument(x) /\ ~WriteDocument(x)
    BY <2>1, <2>3, ArriveFrame, PreviousFrame, SelectFrame, LockFrame, DeleteFrame, ConsentFrame,
       AbortFrame DEF Handle
  <2>4. QED
    BY <2>2, <2>3
<1>8. QED
  BY <1>1, <1>2, <1>3, <1>4, <1>5, <1>6, <1>7 DEF TypeOK

\* Every step leaves each kind of request at a statement of its own.
LEMMA WaitStep ==
    ASSUME TypeOK, WaitMatchesCall, DocsAreCreated, NEW x \in Requests, Arrive(x) \/ Handle(x)
    PROVE  WaitMatchesCall'
<1>1. /\ \A s \in Requests \ {x} :
            pc'[s] = pc[s] /\ call'[s] = call[s] /\ before'[s] = before[s]
      /\ pc[x] \in {"idle"} \cup Waits /\ pc'[x] \in Waits \cup Ends
      /\ ~Arrive(x) => before' = before
      /\ Arrive(x) => before'[x] = {q \in Requests : pc[q] \in Ends}
  BY StepFrame, CameFrom
<1>2. \A r \in Requests : \A s \in before'[r] : pc'[s] \in Ends
  BY <1>1 DEF WaitMatchesCall, TypeOK, Waits, Ends
<1>3. /\ call'[x].op # "none"
      /\ pc'[x] \in {"previous", "insert"} => call'[x].op = "create"
      /\ pc'[x] = "previous" => call'[x].active
      /\ pc'[x] \in {"siblings", "lock", "write"} => call'[x].op = "update"
      /\ pc'[x] \in {"siblings", "lock"} => call'[x].active = "on"
      /\ pc'[x] = "delete" => call'[x].op = "delete"
      /\ pc'[x] = "accept" => call'[x].op = "accept"
  <2>1. CASE Arrive(x)
    BY <2>1, ArriveFrame
  <2>2. CASE InsertDocument(x)
    BY <2>2, InsertFrame
  <2>3. CASE WriteDocument(x)
    BY <2>3, WriteFrame
  <2>4. CASE DeactivatePrevious(x)
    BY <2>4, PreviousFrame
  <2>5. CASE SelectSiblings(x)
    BY <2>5, SelectFrame
  <2>6. CASE LockSiblings(x)
    BY <2>6, LockFrame
  <2>7. CASE DeleteRow(x)
    BY <2>7, DeleteFrame
  <2>8. CASE WriteConsents(x)
    BY <2>8, ConsentFrame
  <2>9. CASE Abort(x)
    BY <2>9, AbortFrame DEF WaitMatchesCall, Waits
  <2>10. QED
    BY <2>1, <2>2, <2>3, <2>4, <2>5, <2>6, <2>7, <2>8, <2>9 DEF Handle
<1>4. QED
  BY <1>1, <1>2, <1>3 DEF WaitMatchesCall, Waits, Ends

\* What is held is held for an activation, step by step.
LEMMA HeldStep ==
    ASSUME TypeOK, WaitMatchesCall, DocsAreCreated, HeldForActivation,
           NEW x \in Requests, Arrive(x) \/ Handle(x)
    PROVE  HeldForActivation'
<1>1. \A s \in Requests \ {x} : pc'[s] = pc[s] /\ call'[s] = call[s] /\ held'[s] = held[s]
  BY StepFrame
<1>2. held'[x] # {} =>
        \/ pc'[x] = "insert" /\ call'[x].active /\ held'[x] \subseteq call'[x].prev
        \/ pc'[x] = "write" /\ call'[x].active = "on" /\ held'[x] \subseteq call'[x].siblings
  <2>1. CASE Arrive(x)
    <3>1. pc[x] = "idle" /\ held'[x] = held[x]
      BY <2>1, ArriveFrame
    <3>2. QED
      BY <3>1 DEF HeldForActivation
  <2>2. CASE InsertDocument(x) \/ WriteDocument(x) \/ Abort(x)
    BY <2>2, InsertFrame, WriteFrame, AbortFrame
  <2>3. CASE DeactivatePrevious(x)
    BY <2>3, PreviousFrame
  <2>4. CASE LockSiblings(x)
    BY <2>4, LockFrame
  <2>5. CASE SelectSiblings(x)
    <3>1. pc[x] = "siblings" /\ held'[x] = held[x]
      BY <2>5, SelectFrame
    <3>2. QED
      BY <3>1 DEF HeldForActivation
  <2>6. CASE DeleteRow(x)
    <3>1. pc[x] = "delete" /\ held'[x] = held[x]
      BY <2>6, DeleteFrame
    <3>2. QED
      BY <3>1 DEF HeldForActivation
  <2>7. CASE WriteConsents(x)
    <3>1. pc[x] = "accept" /\ held'[x] = held[x]
      BY <2>7, ConsentFrame
    <3>2. QED
      BY <3>1 DEF HeldForActivation
  <2>8. QED
    BY <2>1, <2>2, <2>3, <2>4, <2>5, <2>6, <2>7 DEF Handle
<1>3. QED
  BY <1>1, <1>2 DEF HeldForActivation

-----------------------------------------------------------------------------
(* Documents and what the requests know of them *)

\* Documents come from their requests, and what is known of them lasts.
LEMMA DocsStep ==
    ASSUME TypeOK, WaitMatchesCall, DocsAreCreated, NEW x \in Requests, Arrive(x) \/ Handle(x)
    PROVE  DocsAreCreated'
<1>1. /\ Created \subseteq Created' /\ x \notin Created
      /\ \A d \in Created : d \in Requests /\ call'[d] = call[d]
      /\ Cardinality(Created) <= Cardinality(Created')
      /\ Cardinality(Created) \in Nat /\ Cardinality(Created') \in Nat
      /\ InsertDocument(x) => x \in Created' /\ Cardinality(Created') = Cardinality(Created) + 1
  BY CreatedFrame, CreatedCount
<1>2. \A r \in Requests : Exists(r) =>
         r \in Created /\ doc[r].type = call[r].type /\ doc[r].version <= Cardinality(Created)
  BY DEF DocsAreCreated
<1>3. \A t \in Types : \A d \in Of(t) : d \in Created /\ call[d].type = t
  BY <1>2, DocFields DEF Of
<1>4. ASSUME NEW d \in Requests, Exists(d)'
      PROVE  /\ d \in Created' /\ doc'[d].type = call'[d].type
             /\ doc'[d].version <= Cardinality(Created')
  <2>1. CASE Exists(d)
    <3>1. doc'[d].type = doc[d].type /\ doc'[d].version = doc[d].version
      BY <1>4, <2>1, DocFrame
    <3>2. QED
      BY <1>1, <1>2, <2>1, <3>1, DocFields
  <2>2. CASE ~Exists(d)
    <3>1. InsertDocument(x) /\ d = x
      BY <1>4, <2>2, DocFrame
    <3>2. /\ call' = call /\ call[x].op = "create" /\ call[x].version \in Versions
          /\ doc'[x].type = call[x].type /\ doc'[x].version = call[x].version
      BY <3>1, InsertFrame
    <3>3. call[x].version <= Cardinality(Created) + 1
      BY <3>2 DEF DocsAreCreated
    <3>4. QED
      BY <1>1, <3>1, <3>2, <3>3
  <2>3. QED
    BY <2>1, <2>2
<1>5. ASSUME NEW r \in Requests, call'[r].op = "create"
      PROVE  /\ call'[r].version <= Cardinality(Created') + 1
             /\ \A d \in call'[r].prev : d \in Created' /\ call'[d].type = call'[r].type
  <2>1. CASE r = x /\ Arrive(x)
    <3>1. /\ call'[x].prev \subseteq Of(call'[x].type) /\ call'[x].type \in Types
          /\ call'[x].version <= Cardinality(Created) + 1
          /\ call'[x] \in Calls
      BY <1>5, <2>1, ArriveFrame
    <3>2. call'[x].version \in Nat
      BY <1>5, <2>1, <3>1, CreatedCount DEF Calls, Versions
    <3>3. QED
      BY <1>1, <1>3, <2>1, <3>1, <3>2
  <2>2. CASE call'[r] = call[r]
    <3>1. /\ call[r].version <= Cardinality(Created) + 1
          /\ \A d \in call[r].prev : d \in Created /\ call[d].type = call[r].type
      BY <1>5, <2>2 DEF DocsAreCreated
    <3>2. call[r].version \in Nat
      BY <1>5, <2>2, CreatedCount DEF TypeOK, Calls, NoCall, Versions
    <3>3. QED
      BY <1>1, <2>2, <3>1, <3>2
  <2>3. r = x => ~SelectSiblings(x)
    BY <1>5, SelectFrame
  <2>4. QED
    BY <2>1, <2>2, <2>3, StepFrame
<1>6. ASSUME NEW r \in Requests, call'[r].op \in {"update", "delete"}
      PROVE  /\ call'[r].of \in Created'
             /\ call'[r].op = "update" =>
                  \A d \in call'[r].siblings :
                     d \in Created' /\ call'[d].type = call'[call'[r].of].type
  <2>1. CASE r = x /\ Arrive(x)
    <3>1. /\ call'[x].of \in Requests /\ Exists(call'[x].of)
          /\ call'[x].op = "update" => call'[x].siblings = {}
      BY <1>6, <2>1, ArriveFrame
    <3>2. QED
      BY <1>1, <1>2, <2>1, <3>1
  <2>2. CASE r = x /\ SelectSiblings(x)
    <3> DEFINE o == call[x].of
    <3>1. /\ o \in Requests /\ Exists(o) /\ call'[x].of = o
          /\ call'[x].siblings = Active(doc[o].type) \ {o}
      BY <2>2, SelectFrame
    <3>2. o \in Created /\ doc[o].type = call[o].type /\ doc[o].type \in Types
      BY <1>2, <3>1, DocFields
    <3>3. \A d \in Active(doc[o].type) : d \in Created /\ call[d].type = call[o].type
      BY <1>3, <3>2 DEF Active
    <3> HIDE DEF o
    <3>4. QED
      BY <1>1, <2>2, <3>1, <3>2, <3>3
  <2>3. CASE call'[r] = call[r]
    <3>1. /\ call[r].of \in Created
          /\ call[r].op = "update" =>
               \A d \in call[r].siblings : d \in Created /\ call[d].type = call[call[r].of].type
      BY <1>6, <2>3 DEF DocsAreCreated
    <3>2. QED
      BY <1>1, <2>3, <3>1
  <2>4. QED
    BY <2>1, <2>2, <2>3, StepFrame
<1>7. QED
  BY <1>4, <1>5, <1>6 DEF DocsAreCreated

\* What was in force once stays published.
LEMMA PublishedGrows ==
    ASSUME TypeOK, WaitMatchesCall, DocsAreCreated, NEW x \in Requests, Arrive(x) \/ Handle(x)
    PROVE  /\ published \subseteq published'
           /\ InsertDocument(x) \/ WriteDocument(x) =>
                 \A d \in Requests : doc'[d].active => d \in published'
<1>1. CASE InsertDocument(x) \/ WriteDocument(x)
  BY <1>1, InsertFrame, WriteFrame
<1>2. CASE ~InsertDocument(x) /\ ~WriteDocument(x)
  BY <1>2, ArriveFrame, PreviousFrame, SelectFrame, LockFrame, DeleteFrame, ConsentFrame,
     AbortFrame DEF Handle
<1>3. QED
  BY <1>1, <1>2

\* What is active, and what is about to be agreed to, has been published.
LEMMA PublishedStep ==
    ASSUME TypeOK, WaitMatchesCall, DocsAreCreated, AcceptedWasPublished,
           NEW x \in Requests, Arrive(x) \/ Handle(x)
    PROVE  AcceptedWasPublished'
<1>1. ASSUME NEW d \in Requests, doc'[d].active PROVE d \in published'
  <2>1. CASE InsertDocument(x) \/ WriteDocument(x)
    BY <1>1, <2>1, PublishedGrows
  <2>2. CASE ~InsertDocument(x) /\ ~WriteDocument(x)
    <3>1. doc[d].active
      BY <1>1, <2>2, DocFrame
    <3>2. QED
      BY <3>1, PublishedGrows DEF AcceptedWasPublished
  <2>3. QED
    BY <2>1, <2>2
<1>2. ASSUME NEW r \in Requests, call'[r].op = "accept" PROVE call'[r].docs \subseteq published'
  <2>1. CASE r = x /\ Arrive(x)
    <3>1. call'[x] \in Calls /\ \A d \in call'[x].docs : doc[d].active
      BY <1>2, <2>1, ArriveFrame
    <3>2. call'[x].docs \subseteq Requests
      BY <1>2, <2>1, <3>1 DEF Calls
    <3>3. QED
      BY <2>1, <3>1, <3>2, PublishedGrows DEF AcceptedWasPublished
  <2>2. CASE call'[r] = call[r]
    BY <1>2, <2>2, PublishedGrows DEF AcceptedWasPublished
  <2>3. r = x => ~SelectSiblings(x)
    BY <1>2, SelectFrame
  <2>4. QED
    BY <2>1, <2>2, <2>3, StepFrame
<1>3. QED
  BY <1>1, <1>2 DEF AcceptedWasPublished

\* Consents keep their text.
LEMMA ConsentsStep ==
    ASSUME TypeOK, WaitMatchesCall, DocsAreCreated, AcceptedWasPublished, ConsentsStand,
           NEW x \in Requests, Arrive(x) \/ Handle(x)
    PROVE  ConsentsStand'
<1> SUFFICES ASSUME NEW c \in consents' PROVE c[2] \in published' /\ Exists(c[2])'
  BY DEF ConsentsStand
<1>1. CASE c \in consents
  <2>1. c[2] \in Requests /\ c[2] \in published /\ Exists(c[2])
    BY <1>1 DEF TypeOK, ConsentsStand
  <2>2. DeleteRow(x) => c[2] # call[x].of
    BY DeleteFrame
  <2>3. Exists(c[2])'
    BY <2>1, <2>2, DocFrame
  <2>4. QED
    BY <2>1, <2>3, PublishedGrows
<1>2. CASE c \notin consents
  <2>1. WriteConsents(x)
    BY <1>2, ArriveFrame, InsertFrame, WriteFrame, PreviousFrame, SelectFrame, LockFrame,
       DeleteFrame, AbortFrame DEF Handle
  <2>2. PICK d \in call[x].docs : c = <<call[x].user, d>>
    BY <1>2, <2>1, ConsentFrame
  <2>3. c[2] = d /\ d \in Requests /\ Exists(d) /\ doc' = doc /\ call[x].op = "accept"
    BY <2>1, <2>2, ConsentFrame
  <2>4. d \in published
    BY <2>3 DEF AcceptedWasPublished
  <2>5. QED
    BY <2>3, <2>4, PublishedGrows DEF Exists
<1>3. QED
  BY <1>1, <1>2

-----------------------------------------------------------------------------
(* Requests that run alone, and requests that do not *)

\* Nothing a request has read goes stale while nobody else is there.
LEMMA AloneStep ==
    ASSUME TypeOK, WaitMatchesCall, DocsAreCreated, AloneSeesAll,
           NEW x \in Requests, Arrive(x) \/ Handle(x)
    PROVE  AloneSeesAll'
<1> SUFFICES ASSUME NEW r \in Requests, Alone(r)', pc'[r] \in Waits
             PROVE  /\ pc'[r] \in {"previous", "insert"} =>
                          \A d \in Of(call[r].type)' : doc'[d].version < call'[r].version
                    /\ pc'[r] = "lock" =>
                          Active(call[call[r].of].type)' \ {call'[r].of} \subseteq call'[r].siblings
                    /\ pc'[r] = "write" /\ call'[r].active = "on" /\ ~doc'[call'[r].of].active =>
                          Active(call[call[r].of].type)' \ {call'[r].of} \subseteq held'[r]
  BY DEF AloneSeesAll, Waits
<1>1. r = x
  <2>1. CASE pc[r] = "idle"
    BY <2>1, StepFrame DEF WaitMatchesCall, Waits
  <2>2. CASE pc[r] \in Waits
    BY <2>2, OverlapFrame
  <2>3. CASE pc[r] \in Ends
    BY <2>3, StepFrame DEF Waits, Ends
  <2>4. QED
    BY <2>1, <2>2, <2>3 DEF TypeOK
<1>2. pc[x] # "idle" => Alone(x)
  BY <1>1, OverlapFrame
<1>3. ASSUME pc'[x] \in {"previous", "insert"}
      PROVE  \A d \in Of(call[x].type)' : doc'[d].version < call'[x].version
  <2>1. CASE Arrive(x)
    BY <1>3, <2>1, ArriveFrame DEF Of
  <2>2. CASE DeactivatePrevious(x)
    <3>1. UNCHANGED <<doc, call>> /\ pc[x] = "previous"
      BY <2>2, PreviousFrame
    <3>2. \A d \in Of(call[x].type) : doc[d].version < call[x].version
      BY <1>2, <3>1 DEF AloneSeesAll
    <3>3. QED
      BY <3>1, <3>2 DEF Of
  <2>3. QED
    BY <1>3, <2>1, <2>2, CameFrom
<1>4. ASSUME pc'[x] = "lock"
      PROVE  Active(call[call[x].of].type)' \ {call'[x].of} \subseteq call'[x].siblings
  <2> DEFINE o == call[x].of
  <2>1. SelectSiblings(x)
    BY <1>4, CameFrom
  <2>2. /\ doc' = doc /\ o \in Requests /\ Exists(o) /\ call'[x].of = o
        /\ call'[x].siblings = Active(doc[o].type) \ {o}
    BY <2>1, SelectFrame
  <2>3. o \in Created /\ doc[o].type = call[o].type
    BY <2>2 DEF DocsAreCreated
  <2>4. call'[o].type = doc[o].type
    BY <2>3, CreatedFrame
  <2>5. QED
    BY <2>2, <2>4 DEF Active, Of
<1>5. ASSUME pc'[x] = "write", call'[x].active = "on", ~doc'[call'[x].of].active
      PROVE  Active(call[call[x].of].type)' \ {call'[x].of} \subseteq held'[x]
  <2>1. ~Arrive(x)
    BY <1>5, ArriveFrame
  <2>2. LockSiblings(x)
    BY <1>5, <2>1, CameFrom
  <2>3. /\ UNCHANGED <<doc, call>> /\ pc[x] = "lock"
        /\ held'[x] = {d \in call[x].siblings : doc[d].active}
    BY <2>2, LockFrame
  <2>4. Active(call[call[x].of].type) \ {call[x].of} \subseteq call[x].siblings
    BY <1>2, <2>3 DEF AloneSeesAll
  <2>5. QED
    BY <2>3, <2>4 DEF Active, Of
<1>6. QED
  BY <1>1, <1>3, <1>4, <1>5

\* A document about to be deleted is active only through an overlapping update.
LEMMA ActivatedStep ==
    ASSUME TypeOK, WaitMatchesCall, DocsAreCreated, ActivatedMeanwhile,
           NEW x \in Requests, Arrive(x) \/ Handle(x)
    PROVE  ActivatedMeanwhile'
<1> SUFFICES ASSUME NEW r \in Requests, pc'[r] = "delete", doc'[call'[r].of].active
             PROVE  \E s \in Requests : /\ call'[s].op = "update" /\ call'[s].of = call'[r].of
                                        /\ Overlap(r, s)'
  BY DEF ActivatedMeanwhile
<1>1. r # x
  <2>1. SUFFICES ASSUME Arrive(x), pc'[x] = "delete" PROVE ~doc'[call'[x].of].active
    BY CameFrom
  <2>2. QED
    BY <2>1, ArriveFrame
<1>2. pc[r] = "delete" /\ call'[r] = call[r]
  BY <1>1, StepFrame
<1>3. call[r].of \in Created /\ call[r].of \in Requests
  BY <1>2 DEF WaitMatchesCall, DocsAreCreated, Created
<1>4. CASE doc[call[r].of].active
  <2>1. PICK s \in Requests : /\ call[s].op = "update" /\ call[s].of = call[r].of
                              /\ Overlap(r, s)
    BY <1>2, <1>4 DEF ActivatedMeanwhile
  <2>2. pc[s] # "idle"
    BY <2>1 DEF WaitMatchesCall
  <2>3. Overlap(r, s)' /\ call'[s].op = "update" /\ call'[s].of = call[s].of
    BY <1>2, <2>1, <2>2, OverlapFrame, AskedFor
  <2>4. QED
    BY <1>2, <2>1, <2>3
<1>5. CASE ~doc[call[r].of].active
  <2>1. ~(InsertDocument(x) /\ call[r].of = x)
    BY <1>3, CreatedFrame
  <2>2. WriteDocument(x) /\ call[r].of = call[x].of
    BY <1>2, <1>3, <1>5, <2>1, DocFrame
  <2>3. pc[x] = "write" /\ call[x].op = "update" /\ call' = call
    BY <2>2, WriteFrame
  <2>4. Overlap(r, x)
    BY <1>1, <1>2, <2>3, WaitingOverlap DEF Waits
  <2>5. Overlap(r, x)'
    BY <1>2, <2>3, <2>4, OverlapFrame
  <2>6. QED
    BY <2>2, <2>3, <2>5
<1>6. QED
  BY <1>4, <1>5

-----------------------------------------------------------------------------
(* The inductive invariant and what follows from it *)

\* Nothing has happened yet.
LEMMA InitInv == Init => IInv
<1> SUFFICES ASSUME Init PROVE IInv
  OBVIOUS
<1>1. TypeOK
  BY DEF Init, TypeOK
<1>2. \A r \in Requests : /\ doc[r] = NoDoc /\ ~doc[r].active /\ call[r].op = "none"
                          /\ pc[r] = "idle" /\ held[r] = {} /\ before[r] = {}
  BY DEF Init, NoCall, NoDoc
<1>3. WaitMatchesCall /\ HeldForActivation
  BY <1>2 DEF WaitMatchesCall, HeldForActivation
<1>4. DocsAreCreated /\ AcceptedWasPublished
  BY <1>2 DEF DocsAreCreated, AcceptedWasPublished, Exists
<1>5. ConsentsStand
  BY DEF Init, ConsentsStand
<1>6. AloneSeesAll /\ ActivatedMeanwhile
  BY <1>2 DEF AloneSeesAll, ActivatedMeanwhile
<1>7. QED
  BY <1>1, <1>3, <1>4, <1>5, <1>6 DEF IInv

\* Every step of every request keeps it.
LEMMA StepInv == IInv /\ [Next]_vars => IInv'
<1> SUFFICES ASSUME IInv, [Next]_vars PROVE IInv'
  OBVIOUS
<1>1. /\ TypeOK /\ WaitMatchesCall /\ HeldForActivation /\ DocsAreCreated
      /\ AcceptedWasPublished /\ ConsentsStand /\ AloneSeesAll /\ ActivatedMeanwhile
  BY DEF IInv
<1>2. ASSUME NEW x \in Requests, Arrive(x) \/ Handle(x) PROVE IInv'
  <2>1. TypeOK' /\ WaitMatchesCall' /\ HeldForActivation' /\ DocsAreCreated'
    BY <1>1, <1>2, TypeStep, WaitStep, HeldStep, DocsStep
  <2>2. AcceptedWasPublished' /\ ConsentsStand'
    BY <1>1, <1>2, PublishedStep, ConsentsStep
  <2>3. AloneSeesAll' /\ ActivatedMeanwhile'
    BY <1>1, <1>2, AloneStep, ActivatedStep
  <2>4. QED
    BY <2>1, <2>2, <2>3 DEF IInv
<1>3. CASE UNCHANGED vars
  <2>1. UNCHANGED <<doc, consents, call, pc, held, before, published>>
    BY <1>3 DEF vars
  <2>2. TypeOK' /\ WaitMatchesCall' /\ HeldForActivation'
    BY <1>1, <2>1 DEF TypeOK, WaitMatchesCall, HeldForActivation
  <2>3. DocsAreCreated' /\ AcceptedWasPublished' /\ ConsentsStand'
    BY <1>1, <2>1 DEF DocsAreCreated, AcceptedWasPublished, ConsentsStand, Created, Exists
  <2>4. AloneSeesAll' /\ ActivatedMeanwhile'
    BY <1>1, <2>1 DEF AloneSeesAll, ActivatedMeanwhile, Alone, Overlap, Active, Of
  <2>5. QED
    BY <2>2, <2>3, <2>4 DEF IInv
<1>4. QED
  BY <1>2, <1>3 DEF Next

\* The inductive invariant holds in every behaviour of LegalService.
THEOREM InductiveInvariant == Spec => []IInv
<1>1. Init => IInv
  BY InitInv
<1>2. IInv /\ [Next]_vars => IInv'
  BY StepInv
<1>3. QED
  BY <1>1, <1>2, PTL DEF Spec

\* Documents, consents and calls under way always have their types.
THEOREM TypeCorrect == Spec => []TypeOK
<1>1. IInv => TypeOK
  BY DEF IInv
<1>2. QED
  BY <1>1, InductiveInvariant, PTL

\* Consents are given to texts that were in force and still exist.
THEOREM ConsentsAlwaysStand == Spec => []ConsentsStand
<1>1. IInv => ConsentsStand
  BY DEF IInv
<1>2. QED
  BY <1>1, InductiveInvariant, PTL

-----------------------------------------------------------------------------
(* What a step may never do *)

\* Only a deactivation or a deletion takes the last active text of a type away.
LEMMA TextTakenAway ==
    ASSUME IInv, NEW x \in Requests, Arrive(x) \/ Handle(x),
           NEW t \in Types, Active(t) # {}, Active(t)' = {}
    PROVE  Completes(x, "delete") \/ (Completes(x, "update") /\ call[x].active = "off")
<1>1. TypeOK /\ WaitMatchesCall /\ HeldForActivation /\ DocsAreCreated
  BY DEF IInv
<1>2. PICK d \in Active(t) : TRUE
  OBVIOUS
<1>3. /\ d \in Requests /\ doc[d].active /\ doc[d].type = t /\ Exists(d)
      /\ d \in Created /\ call[d].type = t
  BY <1>1, <1>2, DocFields DEF Active, Of, DocsAreCreated
<1>4. ASSUME NEW e \in Requests, doc'[e].active, doc'[e].type = t PROVE FALSE
  BY <1>4 DEF Active, Of
<1>5. ~doc'[d].active
  <2>1. SUFFICES ASSUME doc'[d].active PROVE FALSE
    OBVIOUS
  <2>2. TypeOK'
    BY <1>1, TypeStep
  <2>3. Exists(d)'
    BY <1>3, <2>1, <2>2 DEF TypeOK, Exists, NoDoc
  <2>4. doc'[d].type = t
    BY <1>1, <1>3, <2>3, DocFrame
  <2>5. QED
    BY <1>3, <1>4, <2>1, <2>4
<1>6. CASE DeleteRow(x)
  BY <1>1, <1>6, DeleteFrame DEF Completes, Waits
<1>7. CASE InsertDocument(x) /\ d \in held[x]
  <2>1. /\ pc[x] = "insert" /\ call[x].op = "create"
        /\ doc'[x].type = call[x].type /\ doc'[x].active = call[x].active
    BY <1>1, <1>7, InsertFrame
  <2>2. call[x].active /\ d \in call[x].prev
    BY <1>1, <1>7, <2>1 DEF HeldForActivation
  <2>3. call[x].type = t
    BY <1>1, <1>3, <2>1, <2>2 DEF DocsAreCreated
  <2>4. QED
    BY <1>4, <2>1, <2>2, <2>3
<1>8. CASE WriteDocument(x) /\ d \in held[x]
  <2> DEFINE o == call[x].of
  <2>1. /\ pc[x] = "write" /\ call[x].op = "update" /\ o \in Requests /\ doc[o] \in Docs
        /\ doc'[o].type = doc[o].type
        /\ call[x].active = "on" => doc'[o].active
    BY <1>1, <1>8, WriteFrame
  <2>2. call[x].active = "on" /\ d \in call[x].siblings
    BY <1>1, <1>8, <2>1 DEF HeldForActivation
  <2>3. call[o].type = t
    BY <1>1, <1>3, <2>1, <2>2 DEF DocsAreCreated
  <2>4. doc[o].type = t
    BY <1>1, <2>1, <2>3, DocFields DEF DocsAreCreated
  <2>5. QED
    BY <1>4, <2>1, <2>2, <2>4
<1>9. CASE WriteDocument(x) /\ call[x].active = "off"
  BY <1>1, <1>9, WriteFrame DEF Completes, Waits
<1>10. QED
  BY <1>1, <1>3, <1>5, <1>6, <1>7, <1>8, <1>9, DocFrame

\* Publishing a new version never leaves a type without a text.
THEOREM PublishingNeverBlanks == Spec => NeverWithoutText
<1> DEFINE Blanks(t) == Active(t) # {} /\ Active(t)' = {} =>
                           \E r \in Requests :
                              \/ Completes(r, "delete")
                              \/ Completes(r, "update") /\ call[r].active = "off"
<1>1. ASSUME IInv, Next, NEW t \in Types PROVE Blanks(t)
  <2>1. PICK x \in Requests : Arrive(x) \/ Handle(x)
    BY <1>1 DEF Next
  <2>2. QED
    BY <1>1, <2>1, TextTakenAway
<1>2. IInv /\ [Next]_vars => [\A t \in Types : Blanks(t)]_vars
  BY <1>1
<1>3. QED
  BY <1>2, InductiveInvariant, PTL DEF Spec, NeverWithoutText

\* A request that completes is the one that steps.
LEMMA WhoCompletes ==
    ASSUME IInv, NEW x \in Requests, Arrive(x) \/ Handle(x),
           NEW r \in Requests, NEW op, Completes(r, op)
    PROVE  /\ r = x
           /\ op = "create" => InsertDocument(x)
           /\ op = "update" => WriteDocument(x)
           /\ op = "delete" => DeleteRow(x)
<1>1. TypeOK /\ WaitMatchesCall /\ DocsAreCreated
  BY DEF IInv
<1>2. call[r].op = op /\ pc[r] \in Waits /\ pc'[r] = "done"
  BY DEF Completes
<1>3. r = x
  BY <1>1, <1>2, StepFrame DEF Waits
<1>4. InsertDocument(x) \/ WriteDocument(x) \/ DeleteRow(x) \/ WriteConsents(x)
  BY <1>1, <1>2, <1>3, CameFrom
<1>5. InsertDocument(x) => call[x].op = "create"
  BY <1>1, InsertFrame
<1>6. WriteDocument(x) => call[x].op = "update"
  BY <1>1, WriteFrame
<1>7. DeleteRow(x) => call[x].op = "delete"
  BY <1>1, DeleteFrame
<1>8. WriteConsents(x) => call[x].op = "accept"
  BY <1>1, ConsentFrame
<1>9. QED
  BY <1>2, <1>3, <1>4, <1>5, <1>6, <1>7, <1>8

\* What is inserted by a request alone has the highest version of its type.
LEMMA InsertedIsShown ==
    ASSUME IInv, NEW x \in Requests, InsertDocument(x), call[x].active, Alone(x)
    PROVE  Shown(call[x].type)' = {x}
<1> DEFINE t == call[x].type
<1>1. TypeOK /\ WaitMatchesCall /\ DocsAreCreated /\ AloneSeesAll
  BY DEF IInv
<1>2. /\ call' = call /\ pc[x] = "insert" /\ t \in Types /\ call[x].version \in Versions
      /\ doc'[x].type = t /\ doc'[x].version = call[x].version /\ doc'[x].active
  BY <1>1, InsertFrame
<1>3. \A d \in Of(t) : doc[d].version < call[x].version
  BY <1>1, <1>2 DEF AloneSeesAll
<1>4. ASSUME NEW d \in Requests, doc'[d].type = t, d # x
      PROVE  doc'[d].version < call[x].version
  <2>1. doc'[d].type = doc[d].type /\ doc'[d].version = doc[d].version
    BY <1>1, <1>4, InsertFrame
  <2>2. QED
    BY <1>3, <1>4, <2>1 DEF Of
<1>5. TypeOK'
  BY <1>1, TypeStep DEF Handle
<1>6. \A d \in Requests : doc'[d].version \in Nat
  <2>1. \A d \in Requests : doc'[d] \in Docs \/ doc'[d] = NoDoc
    BY <1>5 DEF TypeOK
  <2>2. QED
    BY <2>1, CreatedCount DEF Docs, NoDoc, Versions
<1>7. Active(t)' = {d \in Requests : doc'[d].type = t /\ doc'[d].active}
  BY <1>2 DEF Active, Of
<1>8. Shown(t)' = {d \in Active(t)' : \A e \in Active(t)' : doc'[e].version <= doc'[d].version}
  BY <1>2 DEF Shown, Latest
<1>9. x \in Active(t)' /\ \A d \in Active(t)' \ {x} : doc'[d].version < doc'[x].version
  BY <1>2, <1>4, <1>7
<1>10. \A d \in Active(t)' : d \in Requests
  BY <1>7
<1> HIDE DEF t
<1>11. Shown(t)' = {x}
  BY <1>6, <1>8, <1>9, <1>10
<1>12. QED
  BY <1>11 DEF t

\* A version published alone is what everybody is shown.
THEOREM WhatIsPublishedIsShown == Spec => PublishedIsShown
<1> DEFINE Show(r) == Completes(r, "create") /\ call[r].active /\ Alone(r) =>
                         Shown(call[r].type)' = {r}
<1>1. ASSUME IInv, Next, NEW r \in Requests PROVE Show(r)
  <2>1. PICK x \in Requests : Arrive(x) \/ Handle(x)
    BY <1>1 DEF Next
  <2>2. ASSUME Completes(r, "create") PROVE r = x /\ InsertDocument(x)
    BY <1>1, <2>1, <2>2, WhoCompletes
  <2>3. QED
    BY <1>1, <2>2, InsertedIsShown
<1>2. IInv /\ [Next]_vars => [\A r \in Requests : Show(r)]_vars
  BY <1>1
<1>3. QED
  BY <1>2, InductiveInvariant, PTL DEF Spec, PublishedIsShown

\* An activation by a request alone takes every sibling out of force.
LEMMA ActivatedIsOne ==
    ASSUME IInv, NEW x \in Requests, WriteDocument(x),
           ~doc[call[x].of].active, doc'[call[x].of].active, Alone(x)
    PROVE  Active(doc[call[x].of].type)' = {call[x].of}
<1> DEFINE o == call[x].of
           t == doc[o].type
<1>1. TypeOK /\ WaitMatchesCall /\ DocsAreCreated /\ AloneSeesAll
  BY DEF IInv
<1>2. /\ call' = call /\ pc[x] = "write" /\ o \in Requests /\ doc[o] \in Docs
      /\ doc'[o].type = t /\ call[x].active = "on"
  BY <1>1, WriteFrame
<1>3. call[o].type = t
  BY <1>1, <1>2, DocFields DEF DocsAreCreated
<1>4. Active(t) \ {o} \subseteq held[x]
  BY <1>1, <1>2, <1>3 DEF AloneSeesAll
<1>5. ASSUME NEW d \in Requests, doc'[d].type = t, doc'[d].active PROVE d = o
  <2>1. SUFFICES ASSUME d # o PROVE FALSE
    OBVIOUS
  <2>2. doc[d].type = t /\ doc[d].active /\ d \notin held[x]
    BY <1>1, <1>5, <2>1, WriteFrame
  <2>3. QED
    BY <1>4, <2>1, <2>2 DEF Active, Of
<1>6. Active(doc[call[x].of].type)' = {d \in Requests : doc'[d].type = t /\ doc'[d].active}
  BY <1>2 DEF Active, Of
<1> HIDE DEF t
<1>7. QED
  BY <1>2, <1>5, <1>6

\* An activation by a request alone leaves one active document of the type.
THEOREM ActivationLeavesOne == Spec => ActivationRestoresOne
<1> DEFINE One(r) ==
              Completes(r, "update") /\ ~doc[call[r].of].active /\ doc'[call[r].of].active /\ Alone(r)
                 => Active(doc[call[r].of].type)' = {call[r].of}
<1>1. ASSUME IInv, Next, NEW r \in Requests PROVE One(r)
  <2>1. PICK x \in Requests : Arrive(x) \/ Handle(x)
    BY <1>1 DEF Next
  <2>2. ASSUME Completes(r, "update") PROVE r = x /\ WriteDocument(x)
    BY <1>1, <2>1, <2>2, WhoCompletes
  <2>3. QED
    BY <1>1, <2>2, ActivatedIsOne
<1>2. IInv /\ [Next]_vars => [\A r \in Requests : One(r)]_vars
  BY <1>1
<1>3. QED
  BY <1>2, InductiveInvariant, PTL DEF Spec, ActivationRestoresOne

\* An active document is deleted only by a request that overlaps its activation.
THEOREM ActiveIsDeletedOnlyByOverlap == Spec => ActiveDeletedOnlyByOverlap
<1> DEFINE Explained(d) == doc[d].active /\ doc'[d] = NoDoc =>
              \E r, s \in Requests :
                 /\ Completes(r, "delete") /\ call[r].of = d
                 /\ call[s].op = "update" /\ call[s].of = d /\ Overlap(r, s)
<1>1. ASSUME IInv, Next, NEW d \in Requests, doc[d].active, doc'[d] = NoDoc PROVE Explained(d)
  <2>1. PICK x \in Requests : Arrive(x) \/ Handle(x)
    BY <1>1 DEF Next
  <2>2. TypeOK /\ WaitMatchesCall /\ DocsAreCreated /\ ActivatedMeanwhile
    BY <1>1 DEF IInv
  <2>3. Exists(d) /\ ~Exists(d)'
    BY <1>1, <2>2, DocFields DEF Exists
  <2>4. DeleteRow(x) /\ d = call[x].of
    BY <2>1, <2>2, <2>3, DocFrame
  <2>5. pc[x] = "delete" /\ Completes(x, "delete")
    BY <2>2, <2>4, DeleteFrame DEF Completes, Waits
  <2>6. QED
    BY <1>1, <2>2, <2>4, <2>5 DEF ActivatedMeanwhile
<1>2. IInv /\ [Next]_vars => [\A d \in Requests : Explained(d)]_vars
  BY <1>1
<1>3. QED
  BY <1>2, InductiveInvariant, PTL DEF Spec, ActiveDeletedOnlyByOverlap

=============================================================================
