-------------------------------- MODULE Users --------------------------------
(* users.service.ts with the part of storage.service.ts it uses: User rows as
   far as logins and pushes read them, and avatars, whose objects live in a
   bucket outside the database. *)
EXTENDS Server

CONSTANTS Phones,    \* users known by a phone number
          Emails,    \* users known by an e-mail address (and its Google account)
          Seeded     \* those whose row exists from the start

ASSUME UsersAssumption ==
    /\ {"none", "external", Nothing} \cap Requests = {}
    /\ IsFiniteSet(Seeded) /\ Seeded \subseteq Phones \cup Emails

VARIABLES users,     \* the rows by user; google and password: set or not
          avatar,    \* avatarUrl: "none", "external", or the request that uploaded it
          objects,   \* avatars in the bucket, named by the request that uploaded them
          removals   \* deletions of objects that were sent and not awaited

userVars == <<users, avatar, objects, removals>>

Profile == [active : BOOLEAN, verified : BOOLEAN, google : BOOLEAN, password : BOOLEAN,
            admin : BOOLEAN]

Account(google, password) ==
    [active |-> TRUE, verified |-> TRUE, google |-> google, password |-> password,
     admin |-> FALSE]
Exists(u) == u \in DOMAIN users

\* Rows are there before the server starts; isVerified has its default, which
\* the logins are written to cope with (auth.service.ts 116).
UsersInit ==
    /\ users    = [u \in Seeded |-> [Account(FALSE, TRUE) EXCEPT !.verified = FALSE]]
    /\ avatar   = [u \in Seeded |-> "none"]
    /\ objects  = {}
    /\ removals = {}

\* The row of u is inserted, or changed.
PutUser(u, row) == users' = [v \in DOMAIN users \cup {u} |-> IF v = u THEN row ELSE users[v]]

AdminUpdate(r, u, active, admin) ==
    /\ Exists(u)
    /\ Arrive(r, "adminUpdate", u, active, "done", Nothing)
    /\ PutUser(u, [users[u] EXCEPT !.active = active, !.admin = admin])
    /\ UNCHANGED <<avatar, objects, removals>>

AdminSoftDelete(r, u) ==
    /\ Exists(u)
    /\ Arrive(r, "adminSoftDelete", u, FALSE, "done", Nothing)
    /\ PutUser(u, [users[u] EXCEPT !.active = FALSE])
    /\ UNCHANGED <<avatar, objects, removals>>

\* The URLs that uploads have been answered with, whoever's they were.
Handed == {o \in Requests : pc[o] = "done" /\ call[o].op = "uploadAvatar"}

\* The body may leave the picture alone, clear it or name any URL: also one of
\* ours, be it another user's or that of an object that is gone. Nothing is
\* looked up and nothing is cleaned up.
UpdateMe(r, u, url) ==
    /\ Exists(u)
    /\ Arrive(r, "updateMe", u, url, "done", Nothing)
    /\ avatar' = IF url = Nothing THEN avatar ELSE [avatar EXCEPT ![u] = url]
    /\ UNCHANGED <<users, objects, removals>>

OurUrl(url) == url \in Requests

UploadAvatar(r, u) ==
    /\ Exists(u)
    /\ Arrive(r, "uploadAvatar", u, Nothing, "uploading", avatar[u])
    /\ UNCHANGED userVars

\* Mutant: the previous object goes before the row points at the new one.
PutObjectReplacing(r) ==
    /\ pc[r] = "uploading"
    /\ objects'  = objects \cup {r}
    /\ removals' = removals \cup {o \in {saw[r]} : OurUrl(o)}
    /\ Await(r, "storing", saw[r])
    /\ UNCHANGED <<users, avatar>>

PutObject(r) ==
    /\ pc[r] = "uploading"
    /\ objects' = objects \cup {r}
    /\ Await(r, "storing", saw[r])
    /\ UNCHANGED <<users, avatar, removals>>

\* The row is written first; the previous object goes afterwards, without waiting.
StoreAvatar(r) ==
    /\ pc[r] = "storing"
    /\ avatar'   = [avatar EXCEPT ![call[r].who] = r]
    /\ removals' = removals \cup {o \in {saw[r]} : OurUrl(o) /\ o # r}
    /\ Leave(r, "done")
    /\ UNCHANGED <<users, objects>>

\* Here the object goes first, and the row is cleared afterwards.
DeleteAvatar(r, u) ==
    /\ Exists(u)
    /\ Arrive(r, "deleteAvatar", u, Nothing, "clearing", avatar[u])
    /\ removals' = removals \cup {o \in {avatar[u]} : OurUrl(o)}
    /\ UNCHANGED <<users, avatar, objects>>

ClearAvatar(r) ==
    /\ pc[r] = "clearing"
    /\ avatar' = [avatar EXCEPT ![call[r].who] = "none"]
    /\ Leave(r, "done")
    /\ UNCHANGED <<users, objects, removals>>

\* A deletion that was sent arrives, or fails and is only logged.
RemoveObject(o) ==
    /\ o \in removals
    /\ removals' = removals \ {o}
    /\ objects' \in {objects, objects \ {o}}
    /\ UNCHANGED <<serverVars, users, avatar>>

UsersRequest(r) ==
    \E u \in Seeded : \/ \E active, admin \in BOOLEAN : AdminUpdate(r, u, active, admin)
                      \/ AdminSoftDelete(r, u)
                      \/ \E url \in {Nothing, "none", "external"} \cup Handed : UpdateMe(r, u, url)
                      \/ UploadAvatar(r, u)
                      \/ DeleteAvatar(r, u)

UsersStep(r) ==
    \/ IsNext(r) /\ UsersRequest(r)
    \/ PutObject(r)
    \/ StoreAvatar(r)
    \/ ClearAvatar(r)

UsersTypeOK ==
    /\ DOMAIN users \subseteq Phones \cup Emails
    /\ users \in [DOMAIN users -> Profile]
    /\ avatar \in [Seeded -> Requests \cup {"none", "external"}]
    /\ objects \subseteq Requests
    /\ removals \subseteq Requests

\* Between the steps of deleteAvatar, or after it failed there.
Clearing(u) ==
    \E d \in Requests :
        call[d].op = "deleteAvatar" /\ call[d].who = u /\ pc[d] \in {"clearing", "failed"}

\* Somebody's profile update has named the object by its URL.
NamedByHand(o) == \E q \in Requests : call[q].op = "updateMe" /\ call[q].what = o

\* A picture of ours that nobody has named by hand can be shown: a row points
\* at its deleted object only while deleteAvatar is between its two steps, or
\* after it failed there (users.service.ts 73-123). One that a profile update
\* has named is out of the service's hands: the object may be gone already, or
\* be removed by the next upload of any user who names it (60, 88).
AvatarIsThere ==
    \A u \in Seeded : avatar[u] \in Requests \ objects => Clearing(u) \/ NamedByHand(avatar[u])

-----------------------------------------------------------------------------
(* The inductive invariant behind AvatarIsThere. *)

UploadedBy(o, u) == pc[o] = "done" /\ call[o].op = "uploadAvatar" /\ call[o].who = u

\* A picture of ours in u's row, or read from it: u's own upload, or named by hand.
Known(o, u) == o \in Handed /\ (UploadedBy(o, u) \/ NamedByHand(o))

\* A profile picture of ours is what an upload of the same user has stored, or
\* what somebody has named; so is what an upload is about to replace, or a
\* deletion on its way removes.
PicturesAreUploads ==
    /\ avatar \in [Seeded -> Requests \cup {"none", "external"}]
    /\ \A u \in Seeded : avatar[u] \in Requests => Known(avatar[u], u)
    /\ \A r \in Requests : pc[r] \in {"uploading", "storing"} =>
          /\ call[r].op = "uploadAvatar" /\ call[r].who \in Seeded
          /\ saw[r] \in Requests => Known(saw[r], call[r].who)
          /\ pc[r] = "storing" => r \in objects
    /\ \A r \in Requests : pc[r] = "clearing" =>
          call[r].op = "deleteAvatar" /\ call[r].who \in Seeded
    /\ removals \subseteq Handed

\* What is removed or on its way to be, and not named by hand, is shown only then.
GoingOnlyByDelete ==
    \A u \in Seeded : avatar[u] \in Requests /\ (avatar[u] \in removals \/ avatar[u] \notin objects)
        => Clearing(u) \/ NamedByHand(avatar[u])

UsersInv == PicturesAreUploads /\ GoingOnlyByDelete
=============================================================================
