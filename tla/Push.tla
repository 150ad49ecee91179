-------------------------------- MODULE Push --------------------------------
(* notification.service.ts: devices, stored notifications, and pushes through
   Firebase. A send reads the devices of its recipients, stores a notification
   for each, and only then pushes to the devices it read. *)
EXTENDS Users, Sequences, SequencesExt

CONSTANTS Tokens,     \* FCM tokens
          PageSize    \* limit of listMy

ASSUME PushAssumption == PageSize \in Nat \ {0}

VARIABLES devices,    \* UserDevice rows by token: [user, id], the id of who inserted it
          notes       \* Notification rows by id: [to, by, read]

pushVars == <<devices, notes>>

PushInit == devices = <<>> /\ notes = <<>>

-----------------------------------------------------------------------------
(* Devices. A token is one row: registering it moves the row to its new owner. *)

RegisterDevice(r, u, t) ==
    LET id == IF t \in DOMAIN devices THEN devices[t].id ELSE r IN
    /\ Arrive(r, "registerDevice", u, t, "done", Nothing)
    /\ devices' = [d \in DOMAIN devices \cup {t} |-> IF d = t THEN [user |-> u, id |-> id] ELSE devices[d]]
    /\ UNCHANGED notes

RemoveDeviceById(r, u, t) ==
    /\ t \in DOMAIN devices /\ devices[t].user = u
    /\ Arrive(r, "removeDevice", u, t, "removing", devices[t].id)
    /\ UNCHANGED pushVars

\* By the row's id: whoever owns it by now loses it; a row that was inserted for
\* the token since is spared.
RemoveDevice(r) ==
    LET t == call[r].what IN
    /\ pc[r] = "removing"
    /\ IF t \in DOMAIN devices /\ devices[t].id = saw[r]
       THEN devices' = [d \in DOMAIN devices \ {t} |-> devices[d]] /\ Leave(r, "done")
       ELSE Leave(r, "conflict") /\ UNCHANGED devices
    /\ UNCHANGED notes

-----------------------------------------------------------------------------
(* Sends: what is the set of the users it goes to. *)

Active        == {u \in DOMAIN users : users[u].active}
Owners        == {devices[t].user : t \in DOMAIN devices}

\* Mutant: everybody's devices.
AllDevices(us) == DOMAIN devices
DevicesOf(us) == {t \in DOMAIN devices : devices[t].user \in us}

\* A send that has its recipients, and their devices from one query.
Send(r, op, to) ==
    /\ Arrive(r, op, Nothing, to, "noting", DevicesOf(to))
    /\ UNCHANGED pushVars

SendToUser(r, u)      == Send(r, "sendToUser", {u})
SendToMany(r, us)     == us # {} /\ Send(r, "sendToMany", us)
Broadcast(r)          == Send(r, "broadcast", Owners)
AdminSendToUser(r, u) == Exists(u) /\ Send(r, "adminSendToUser", {u})

\* The valid recipients are one query, their devices another.
AdminSendToMany(r, us) ==
    /\ us \cap DOMAIN users # {}
    /\ Arrive(r, "adminSendToMany", Nothing, us \cap DOMAIN users, "collecting", Nothing)
    /\ UNCHANGED pushVars

AdminBroadcast(r) ==
    /\ Active # {}
    /\ Arrive(r, "adminBroadcast", Nothing, Active, "collecting", Nothing)
    /\ UNCHANGED pushVars

CollectDevices(r) ==
    /\ pc[r] = "collecting"
    /\ Await(r, "noting", DevicesOf(call[r].what))
    /\ UNCHANGED pushVars

\* Rows have ids in the order they are stored in, as they have but where a
\* transaction that drew the smaller id commits after one with a larger.
NotesFor(us, r) ==
    LET to == SetToSeq(us) IN [i \in DOMAIN to |-> [to |-> to[i], by |-> r, read |-> FALSE]]

\* One transaction for all recipients.
StoreNotes(r) ==
    /\ pc[r] = "noting"
    /\ notes' = notes \o NotesFor(call[r].what, r)
    /\ IF saw[r] = {} THEN Leave(r, "done") ELSE Await(r, "pushing", saw[r])
    /\ UNCHANGED devices

\* Firebase takes what it takes: an error is logged, an invalid token stays.
SendMulticast(r) ==
    /\ pc[r] = "pushing"
    /\ Leave(r, "done")
    /\ UNCHANGED pushVars

-----------------------------------------------------------------------------
(* The inbox, read by a client that turns page after page, and the cursor is
   the last id of the page before. what is what there is to see at the start. *)

Mine(u, unread) == {i \in DOMAIN notes : notes[i].to = u /\ (unread => ~notes[i].read)}

\* The first page of ids, newest first; the row beyond it only says that there is more.
Page(ids)    == {i \in ids : Cardinality({j \in ids : j > i}) < PageSize}
After(ids)   == IF Cardinality(ids) > PageSize THEN "paging" ELSE "listed"

\* Mutant: the first row of the next page is passed over.
CursorBeyond(seen) == Min(seen) - 1
Cursor(seen) == Min(seen)

ListMy(r, u, unread) ==
    LET ids == Mine(u, unread) IN
    /\ Arrive(r, IF unread THEN "listUnread" ELSE "listMy", u, ids, After(ids), Page(ids))
    /\ UNCHANGED pushVars

NextPage(r) ==
    LET ids == {i \in Mine(call[r].who, call[r].op = "listUnread") : i < Cursor(saw[r])} IN
    /\ pc[r] = "paging"
    /\ Await(r, After(ids), saw[r] \cup Page(ids))
    /\ UNCHANGED pushVars

MarkRead(r, u, i) ==
    /\ i \in DOMAIN notes /\ notes[i].to = u
    /\ Arrive(r, "markRead", u, i, "done", Nothing)
    /\ notes' = [notes EXCEPT ![i].read = TRUE]
    /\ UNCHANGED devices

MarkAllRead(r, u) ==
    /\ Arrive(r, "markAllRead", u, Nothing, "done", Nothing)
    /\ notes' = [i \in DOMAIN notes |-> [notes[i] EXCEPT !.read = @ \/ notes[i].to = u]]
    /\ UNCHANGED devices

-----------------------------------------------------------------------------

DeviceRequest(r) ==
    \E u \in Seeded, t \in Tokens : RegisterDevice(r, u, t) \/ RemoveDeviceById(r, u, t)

AdminSendRequest(r) ==
    \/ \E u \in Seeded : AdminSendToUser(r, u)
    \/ \E us \in SUBSET Seeded : AdminSendToMany(r, us)
    \/ AdminBroadcast(r)

\* What the other services of the process call.
SendRequest(r) ==
    \/ \E u \in Seeded : SendToUser(r, u)
    \/ \E us \in SUBSET Seeded : SendToMany(r, us)
    \/ Broadcast(r)

InboxRequest(r) ==
    \E u \in Seeded : \/ \E unread \in BOOLEAN : ListMy(r, u, unread)
                      \/ \E i \in DOMAIN notes : MarkRead(r, u, i)
                      \/ MarkAllRead(r, u)

PushStep(r) ==
    /\ \/ /\ IsNext(r)
          /\ DeviceRequest(r) \/ AdminSendRequest(r) \/ SendRequest(r) \/ InboxRequest(r)
       \/ RemoveDevice(r)
       \/ CollectDevices(r)
       \/ StoreNotes(r)
       \/ SendMulticast(r)
       \/ NextPage(r)
    /\ UNCHANGED userVars

PushTypeOK ==
    /\ DOMAIN devices \subseteq Tokens
    /\ devices \in [DOMAIN devices -> [user : DOMAIN users, id : Requests]]
    /\ notes \in Seq([to : DOMAIN users, by : Requests, read : BOOLEAN])

\* The token is registered or removed while r is in flight.
ChangesHands(t, r) ==
    \E q \in Requests : /\ Overlap(q, r)
                        /\ call[q].op \in {"registerDevice", "removeDevice"}
                        /\ call[q].what = t

\* Whoever's device a push is sent to finds it in the inbox: a device that has
\* changed hands rings for its former owner only if it was registered or
\* removed while the send was in flight (notification.service.ts 109-140).
PushGoesHome ==
    \A r \in Requests : pc[r] = "pushing" => \A t \in saw[r] :
        \/ /\ t \in DOMAIN devices
           /\ \E i \in DOMAIN notes : notes[i].by = r /\ notes[i].to = devices[t].user
        \/ ChangesHands(t, r)

InboxLists == {"listMy", "listUnread"}

\* Turning pages while notifications come in or are read, a client is given
\* everything that was there when it began, but for what has been read since
\* and left the unread ones (notification.service.ts 67-90).
CursorPagesExact ==
    \A r \in Requests : pc[r] = "listed" /\ call[r].op \in InboxLists =>
        /\ saw[r] \subseteq call[r].what
        /\ \A i \in call[r].what \ saw[r] : call[r].op = "listUnread" /\ notes[i].read

-----------------------------------------------------------------------------
(* The inductive invariant behind PushGoesHome. *)

\* Notifications are rows with these columns, and recipients can be counted.
NotesAreRows ==
    /\ notes \in Seq(ToSet(notes))
    /\ \A i \in DOMAIN notes : DOMAIN notes[i] = {"to", "by", "read"}
    /\ IsFiniteSet(DOMAIN users) /\ IsFiniteSet(DOMAIN devices)
    /\ \A r \in Requests : pc[r] \in {"collecting", "noting"} => IsFiniteSet(call[r].what)

\* A send holds devices of its recipients, but for those that change hands.
DevicesOfRecipients ==
    \A r \in Requests :
        /\ pc[r] = "removing" => call[r].op = "removeDevice"
        /\ pc[r] \in {"noting", "pushing"} => \A t \in saw[r] :
              \/ t \in DOMAIN devices /\ devices[t].user \in call[r].what
              \/ ChangesHands(t, r)

\* Whoever a push goes to has a notification of it.
NotedBeforePush ==
    \A r \in Requests : pc[r] = "pushing" => \A u \in call[r].what :
        \E i \in DOMAIN notes : notes[i].by = r /\ notes[i].to = u

PushInv == NotesAreRows /\ DevicesOfRecipients /\ NotedBeforePush

(* And the one behind CursorPagesExact. *)

\* What a client of the inbox lacks has been read since, or is older than all
\* it has been given; and whatever is older than that was there for it.
CursorStands(r) ==
    LET own == call[r].what IN
    /\ own \subseteq DOMAIN notes /\ saw[r] \subseteq own
    /\ \A i \in own : notes[i].to = call[r].who
    /\ pc[r] = "paging" => saw[r] # {}
    /\ \A i \in own \ saw[r] :
          \/ call[r].op = "listUnread" /\ notes[i].read
          \/ pc[r] = "paging" /\ \A j \in saw[r] : i < j
    /\ \A j \in saw[r] : \A i \in Mine(call[r].who, call[r].op = "listUnread") : i < j => i \in own

CursorHolds(r) ==
    /\ pc[r] = "paging" => call[r].op \in InboxLists
    /\ call[r].op \in InboxLists =>
          /\ pc[r] \in {"paging", "listed"} \cup Verdicts
          /\ pc[r] \in {"paging", "listed"} => CursorStands(r)

CursorInv == \A r \in Requests : CursorHolds(r)

(* And the one behind the types of devices and notifications. *)

PushFits ==
    /\ PushTypeOK
    /\ \A r \in Requests : pc[r] \in {"collecting", "noting"} => call[r].what \subseteq DOMAIN users
=============================================================================
