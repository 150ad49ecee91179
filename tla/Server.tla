------------------------------- MODULE Server -------------------------------
(* The request side of the process, shared by the components below it. A
   request is suspended at every await; pc names the await, saw is what its
   local variables hold there, and the tables belong to the components. A
   request that is turned away before it has read or written anything that
   matters is no step at all. *)
EXTENDS Naturals, FiniteSets, Sequences, SequencesExt

CONSTANTS Line,      \* the requests of a behaviour, in the order in which they arrive
          Traffic,   \* what they may ask for, as the mixes that are checked
          Nothing    \* no value

VARIABLES mix,       \* the mix of this behaviour: [ops, people, size, atOnce, failures]
          call,      \* what each request asks for: [op, who, what]
          pc,        \* the await each request is suspended at, or its verdict
          saw,       \* its local variables
          before     \* history: the requests that had ended when it began

serverVars == <<mix, call, pc, saw, before>>

Requests == ToSet(Line)

ASSUME ServerAssumption == Line \in Seq(Requests)

Verdicts == {"done", "refused", "conflict", "failed"}

NoCall  == [op |-> "none", who |-> Nothing, what |-> Nothing]

Begun    == {r \in Requests : pc[r] # "idle"}
Ended    == {r \in Requests : pc[r] \in Verdicts}
InFlight == Begun \ Ended

\* Both were in flight at one moment.
Overlap(r, s) == r # s /\ {r, s} \subseteq Begun /\ r \notin before[s] /\ s \notin before[r]

ServerInit ==
    /\ mix \in Traffic
    /\ call   = [r \in Requests |-> NoCall]
    /\ pc     = [r \in Requests |-> "idle"]
    /\ saw    = [r \in Requests |-> Nothing]
    /\ before = [r \in Requests |-> {}]

\* Those before r in Line have begun; the bounds are size requests in all, atOnce in flight.
IsNext(r) ==
    /\ pc[r] = "idle"
    /\ \A i \in DOMAIN Line : Line[i] = r => \A j \in 1 .. i - 1 : Line[j] \in Begun
    /\ Cardinality(Begun) < mix.size /\ Cardinality(InFlight) < mix.atOnce

\* Request r, which is next, arrives, runs up to the await l (or to its end) and keeps read.
Arrive(r, op, who, what, l, read) ==
    /\ op \in mix.ops /\ (who = Nothing \/ who \in mix.people)
    /\ call'   = [call EXCEPT ![r] = [op |-> op, who |-> who, what |-> what]]
    /\ pc'     = [pc EXCEPT ![r] = l]
    /\ saw'    = [saw EXCEPT ![r] = IF l \in Verdicts THEN Nothing ELSE read]
    /\ before' = [before EXCEPT ![r] = Ended]
    /\ UNCHANGED mix

\* Request r is resumed, runs up to the await l and keeps read.
Await(r, l, read) ==
    /\ pc'  = [pc EXCEPT ![r] = l]
    /\ saw' = [saw EXCEPT ![r] = read]
    /\ UNCHANGED <<mix, call, before>>

\* Request r ends: answered, refused, or by a row another request took or left.
Leave(r, verdict) == Await(r, verdict, Nothing)

\* A client that turned pages has seen the last one; until here saw is all it was given.
CloseListing(r) == pc[r] = "listed" /\ Leave(r, "done")

\* The bound on failures.
CanFail == Cardinality({r \in Requests : pc[r] = "failed"}) < mix.failures

\* A query, a remote call or the process itself fails: nothing after it is done.
Abort(r) == CanFail /\ r \in InFlight /\ Leave(r, "failed")

ServerTypeOK ==
    /\ mix \in Traffic
    /\ before \in [Requests -> SUBSET Requests]
    /\ \A r \in Requests : pc[r] = "idle" => call[r] = NoCall /\ before[r] = {}
    /\ \A r \in Requests : pc[r] \in Verdicts \cup {"idle"} => saw[r] = Nothing
=============================================================================
