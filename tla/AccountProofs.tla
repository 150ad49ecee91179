--------------------------- MODULE AccountProofs ---------------------------
(***************************************************************************)
(* Theorems about users, their pictures, codes and sessions, and the types *)
(* of their rows, for all values of the constants of Application.          *)
(***************************************************************************)
EXTENDS RequestProofs

-----------------------------------------------------------------------------
(* Pictures. *)

\* Every step is one of UsersService, a deletion that arrives, or leaves the
\* pictures alone, but that a crash forgets the deletions on their way.
LEMMA UsersFrame ==
    ASSUME Served, [Next]_appVars
    PROVE  \/ \E r \in Requests : UsersStep(r)
           \/ \E o \in removals : RemoveObject(o)
           \/ /\ Foreign(UserOps, UserWaits)
              /\ UNCHANGED <<avatar, objects>>
              /\ removals' = removals \/ removals' = {}
<1>1. ASSUME NEW r \in Requests, Handle(r), ~UsersStep(r)
      PROVE  Foreign(UserOps, UserWaits) /\ UNCHANGED <<avatar, objects, removals>>
  <2>1. CASE AuthStep(r)
    <3>1. UNCHANGED <<avatar, objects, removals>>
      <4>1. CASE IsNext(r) /\ (AuthRequest(r) \/ AdminAuthRequest(r))
        BY <4>1 DEF AuthRequest, AdminAuthRequest, PhoneRequestOtp, PhoneVerifyOtp,
                    EmailRegister, EmailLogin, GoogleAuth, Logout, Refresh, AdminLogin,
                    AdminGoogleAuth, userVars
      <4>2. CASE IdentityStep(r)
        BY <4>2 DEF IdentityStep, FindByPhone, VerifyUser, LinkGoogle, CreateUser, userVars
      <4>3. QED
        BY <2>1, <4>1, <4>2 DEF AuthStep, userVars
    <3>2. QED
      BY <2>1, <3>1, AuthMoves, MovesAreForeign
         DEF UserOps, UserWaits, AuthOps, Logins, AuthWaits, Rest, Verdicts
  <2>2. CASE PushStep(r)
    BY <2>2, PushMoves, MovesAreForeign
       DEF PushStep, userVars, UserOps, UserWaits, PushOps, PushWaits, Rest, Verdicts
  <2>3. CASE AiStep(r)
    BY <2>3, AiMoves, MovesAreForeign
       DEF AiStep, userVars, UserOps, UserWaits, AiOps, AiWaits, Rest, Verdicts
  <2>4. CASE CatalogueStep(r) /\ UNCHANGED userVars
    BY <2>4, CatalogueMoves, MovesAreForeign
       DEF userVars, UserOps, UserWaits, CatalogueOps, CatalogueWaits, Rest, Verdicts
  <2>5. CASE LessonsStep(r)
    BY <2>5, LessonsMoves, MovesAreForeign
       DEF LessonsStep, userVars, UserOps, UserWaits, LessonOps, LessonWaits, Rest, Verdicts
  <2>6. CASE BookRagStep(r) /\ UNCHANGED userVars
    BY <2>6, BookRagMoves, MovesAreForeign
       DEF userVars, UserOps, UserWaits, RagOps, RagWaits, Rest, Verdicts
  <2>7. QED
    BY <1>1, <2>1, <2>2, <2>3, <2>4, <2>5, <2>6 DEF Handle
<1>2. CASE Halts /\ (NoTableChanges \/ Crash)
  BY <1>2, HaltsIsForeign DEF NoTableChanges, userVars, Crash
<1>3. CASE Halts /\ Pass
  BY <1>3, HaltsIsForeign DEF Pass, CodesAge, IdleHour, Lapse, userVars
<1>4. QED
  BY <1>1, <1>2, <1>3, StepKinds

\* What has been uploaded or named stays so, and who is clearing stays so or
\* fails, but for the request that acts.
LEMMA PicturesStay ==
    ASSUME NEW r \in Requests, pc[r] # "done", call[r].op # "updateMe",
           \A s \in Requests \ {r} : Stays(s), NEW o \in Requests
    PROVE  /\ o \in Handed => o \in Handed'
           /\ NamedByHand(o) => NamedByHand(o)'
           /\ \A u : UploadedBy(o, u) => UploadedBy(o, u)'
           /\ \A u : Known(o, u) => Known(o, u)'
<1>1. /\ o \in Handed => o \in Handed'
      /\ \A u : UploadedBy(o, u) => UploadedBy(o, u)'
  BY DEF Stays, UploadedBy, Handed
<1>2. ASSUME NamedByHand(o)
      PROVE  NamedByHand(o)'
  <2>1. PICK q \in Requests : call[q].op = "updateMe" /\ call[q].what = o
    BY <1>2 DEF NamedByHand
  <2>2. call'[q] = call[q]
    BY <2>1 DEF Stays
  <2>3. QED
    BY <2>1, <2>2 DEF NamedByHand
<1>3. QED
  BY <1>1, <1>2 DEF Known

LEMMA ClearingStays ==
    ASSUME NEW r \in Requests, pc[r] \notin {"clearing", "failed"},
           \A s \in Requests \ {r} : Stays(s), NEW u, Clearing(u)
    PROVE  Clearing(u)'
<1>1. PICK d \in Requests :
          call[d].op = "deleteAvatar" /\ call[d].who = u /\ pc[d] \in {"clearing", "failed"}
  BY DEF Clearing
<1>2. Stays(d)
  BY <1>1
<1>3. QED
  BY <1>1, <1>2 DEF Stays, Clearing

\* What may be shown although it is going.
Excused(u) == Clearing(u) \/ NamedByHand(avatar[u])

LEMMA ExcusesStay ==
    ASSUME NEW r \in Requests, pc[r] \notin {"clearing", "failed", "done"}, call[r].op # "updateMe",
           \A s \in Requests \ {r} : Stays(s), NEW u, avatar[u] \in Requests,
           avatar'[u] = avatar[u], Excused(u)
    PROVE  Excused(u)'
<1>1. CASE Clearing(u)
  BY <1>1, ClearingStays DEF Excused
<1>2. CASE NamedByHand(avatar[u])
  <2> SUFFICES ASSUME NEW o, o = avatar[u]
               PROVE  Excused(u)'
    OBVIOUS
  <2>1. NamedByHand(o)'
    BY <1>2, PicturesStay
  <2>2. QED
    BY <2>1 DEF Excused, NamedByHand
<1>3. QED
  BY <1>1, <1>2 DEF Excused

\* Requests of UsersService arrive.
LEMMA UsersArrivals ==
    ASSUME Served, UsersInv, NEW r \in Requests, IsNext(r) /\ UsersRequest(r)
    PROVE  UsersInv'
<1>0. pc[r] = "idle" /\ call[r].op # "updateMe"
  BY DEF IsNext, Served, NoCall
<1>a. PicturesAreUploads /\ \A u \in Seeded :
          avatar[u] \in Requests /\ (avatar[u] \in removals \/ avatar[u] \notin objects) => Excused(u)
  BY DEF UsersInv, GoingOnlyByDelete, Excused
<1>1. ASSUME NEW u \in Seeded, NEW active \in BOOLEAN, NEW admin \in BOOLEAN,
             AdminUpdate(r, u, active, admin) \/ AdminSoftDelete(r, u)
      PROVE  UsersInv'
  <2>1. pc'[r] = "done" /\ \A s \in Requests \ {r} : Stays(s)
    BY <1>1 DEF AdminUpdate, AdminSoftDelete, Arrive, Served, WellFormed, Stays
  <2>2. UNCHANGED <<avatar, objects, removals>>
    BY <1>1 DEF AdminUpdate, AdminSoftDelete
  <2>3. PicturesAreUploads'
    BY <1>0, <1>a, <2>1, <2>2, PicturesStay DEF PicturesAreUploads, Handed, Stays
  <2>4. GoingOnlyByDelete'
    BY <1>0, <1>a, <2>1, <2>2, ExcusesStay DEF GoingOnlyByDelete, Excused
  <2>5. QED
    BY <2>3, <2>4 DEF UsersInv
<1>2. ASSUME NEW u \in Seeded, NEW url \in {Nothing, "none", "external"} \cup Handed,
             UpdateMe(r, u, url)
      PROVE  UsersInv'
  <2>1. /\ pc'[r] = "done" /\ call'[r].op = "updateMe" /\ call'[r].what = url
        /\ \A s \in Requests \ {r} : Stays(s)
    BY <1>2 DEF UpdateMe, Arrive, Served, WellFormed, Stays
  <2>2. /\ avatar' = IF url = Nothing THEN avatar ELSE [avatar EXCEPT ![u] = url]
        /\ UNCHANGED <<objects, removals>>
    BY <1>2 DEF UpdateMe
  <2>3. NamedByHand(url)'
    BY <2>1 DEF NamedByHand
  <2>4. \A o \in Handed : o \in Requests /\ o \in Handed'
    BY <1>0, <2>1, PicturesStay DEF Handed
  <2>5. \A v \in Seeded : avatar'[v] = avatar[v] \/ avatar'[v] = url
    BY <1>a, <2>2 DEF PicturesAreUploads
  <2>6. PicturesAreUploads'
    <3>1. avatar' \in [Seeded -> Requests \cup {"none", "external"}]
      BY <1>a, <2>2, <2>4 DEF PicturesAreUploads
    <3>2. ASSUME NEW v \in Seeded, avatar'[v] \in Requests
          PROVE  Known(avatar[v], v)'
      <4> SUFFICES ASSUME NEW o \in Requests, o = avatar'[v]
                   PROVE  Known(o, v)'
        BY <3>2 DEF Known, UploadedBy, NamedByHand
      <4>1. CASE o = url
        BY <2>3, <2>4, <4>1, UsersAssumption DEF Known
      <4>2. CASE o = avatar[v]
        BY <1>0, <1>a, <2>1, <4>2, PicturesStay DEF PicturesAreUploads
      <4>3. QED
        BY <2>5, <4>1, <4>2
    <3>3. ASSUME NEW q \in Requests, pc'[q] \in {"uploading", "storing"}
          PROVE  /\ call'[q].op = "uploadAvatar" /\ call'[q].who \in Seeded
                 /\ saw'[q] \in Requests => Known(saw[q], call[q].who)'
                 /\ pc'[q] = "storing" => q \in objects'
      <4>1. Stays(q)
        BY <2>1, <3>3
      <4> SUFFICES ASSUME NEW o, o = saw[q], NEW v, v = call[q].who
                   PROVE  /\ call[q].op = "uploadAvatar" /\ v \in Seeded
                          /\ o \in Requests => Known(o, v)'
                          /\ pc[q] = "storing" => q \in objects
        BY <2>2, <4>1 DEF Stays, Known, UploadedBy, NamedByHand
      <4>2. QED
        BY <1>0, <1>a, <2>1, <3>3, <4>1, PicturesStay DEF PicturesAreUploads, Stays
    <3>4. \A q \in Requests : pc'[q] = "clearing" =>
              call'[q].op = "deleteAvatar" /\ call'[q].who \in Seeded
      BY <1>a, <2>1 DEF PicturesAreUploads, Stays
    <3>5. removals' \subseteq Handed'
      BY <1>a, <2>2, <2>4 DEF PicturesAreUploads
    <3>6. QED
      BY <3>1, <3>2, <3>3, <3>4, <3>5 DEF PicturesAreUploads
  <2>7. ASSUME NEW v \in Seeded, avatar'[v] \in Requests,
               avatar'[v] \in removals' \/ avatar'[v] \notin objects'
        PROVE  Excused(v)'
    <3>1. CASE avatar'[v] = avatar[v]
      BY <1>0, <1>a, <2>1, <2>2, <2>7, <3>1, ExcusesStay
    <3>2. CASE avatar'[v] = url
      BY <2>3, <3>2 DEF Excused, NamedByHand
    <3>3. QED
      BY <2>5, <3>1, <3>2
  <2>8. QED
    BY <2>6, <2>7 DEF UsersInv, GoingOnlyByDelete, Excused
<1>3. ASSUME NEW u \in Seeded, UploadAvatar(r, u)
      PROVE  UsersInv'
  <2>1. /\ pc'[r] = "uploading" /\ saw'[r] = avatar[u]
        /\ call'[r].op = "uploadAvatar" /\ call'[r].who = u
        /\ \A s \in Requests \ {r} : Stays(s)
    BY <1>3 DEF UploadAvatar, Arrive, Verdicts, Served, WellFormed, Stays
  <2>2. UNCHANGED <<avatar, objects, removals>>
    BY <1>3 DEF UploadAvatar, userVars
  <2>3. PicturesAreUploads'
    BY <1>0, <1>a, <2>1, <2>2, PicturesStay DEF PicturesAreUploads, Handed, Stays
  <2>4. GoingOnlyByDelete'
    BY <1>0, <1>a, <2>1, <2>2, ExcusesStay DEF GoingOnlyByDelete, Excused
  <2>5. QED
    BY <2>3, <2>4 DEF UsersInv
<1>4. ASSUME NEW u \in Seeded, DeleteAvatar(r, u)
      PROVE  UsersInv'
  <2>1. /\ pc'[r] = "clearing" /\ call'[r].op = "deleteAvatar" /\ call'[r].who = u
        /\ \A s \in Requests \ {r} : Stays(s)
    BY <1>4 DEF DeleteAvatar, Arrive, Served, WellFormed, Stays
  <2>2. /\ UNCHANGED <<avatar, objects>>
        /\ removals' = removals \cup {o \in {avatar[u]} : OurUrl(o)}
    BY <1>4 DEF DeleteAvatar
  <2>3. PicturesAreUploads'
    BY <1>0, <1>a, <2>1, <2>2, PicturesStay DEF PicturesAreUploads, Handed, Known, Stays, OurUrl
  <2>4. ASSUME NEW v \in Seeded, avatar[v] \in Requests,
               avatar[v] \in removals' \/ avatar[v] \notin objects
        PROVE  Excused(v)'
    <3>1. CASE avatar[v] = avatar[u]
      <4>1. CASE v = u
        BY <2>1, <4>1 DEF Excused, Clearing
      <4>2. CASE v # u
        <5>1. NamedByHand(avatar[v])
          BY <1>a, <2>4, <3>1, <4>2 DEF PicturesAreUploads, Known, UploadedBy
        <5>2. QED
          BY <1>0, <2>1, <2>2, <2>4, <5>1, ExcusesStay DEF Excused
      <4>3. QED
        BY <4>1, <4>2
    <3>2. CASE avatar[v] # avatar[u]
      BY <1>0, <1>a, <2>1, <2>2, <2>4, <3>2, ExcusesStay
    <3>3. QED
      BY <3>1, <3>2
  <2>5. QED
    BY <2>2, <2>3, <2>4 DEF UsersInv, GoingOnlyByDelete, Excused
<1>5. QED
  BY <1>1, <1>2, <1>3, <1>4 DEF UsersRequest

\* An upload and a deletion run on.
LEMMA UsersAwaits ==
    ASSUME Served, UsersInv, NEW r \in Requests, PutObject(r) \/ StoreAvatar(r) \/ ClearAvatar(r)
    PROVE  UsersInv'
<1>0. PicturesAreUploads /\ \A u \in Seeded :
          avatar[u] \in Requests /\ (avatar[u] \in removals \/ avatar[u] \notin objects) => Excused(u)
  BY DEF UsersInv, GoingOnlyByDelete, Excused
<1>a. pc[r] \in {"uploading", "storing", "clearing"} /\ call[r].op # "updateMe"
  BY <1>0 DEF PutObject, StoreAvatar, ClearAvatar, PicturesAreUploads
<1>1. CASE PutObject(r)
  <2>1. /\ pc[r] = "uploading" /\ pc'[r] = "storing" /\ saw'[r] = saw[r] /\ call' = call
        /\ \A s \in Requests \ {r} : Stays(s)
    BY <1>1, AwaitAt DEF PutObject
  <2>2. objects' = objects \cup {r} /\ UNCHANGED <<avatar, removals>>
    BY <1>1 DEF PutObject
  <2>3. PicturesAreUploads'
    BY <1>0, <1>a, <2>1, <2>2, PicturesStay DEF PicturesAreUploads, Handed, Stays
  <2>4. GoingOnlyByDelete'
    BY <1>0, <1>a, <2>1, <2>2, ExcusesStay DEF GoingOnlyByDelete, Excused
  <2>5. QED
    BY <2>3, <2>4 DEF UsersInv
<1>2. CASE StoreAvatar(r)
  <2> DEFINE u == call[r].who
  <2>1. /\ pc[r] = "storing" /\ pc'[r] = "done" /\ call' = call
        /\ \A s \in Requests \ {r} : Stays(s)
    BY <1>2, AwaitAt DEF StoreAvatar, Leave
  <2>2. /\ avatar' = [avatar EXCEPT ![u] = r] /\ UNCHANGED objects
        /\ removals' = removals \cup {o \in {saw[r]} : o \in Requests /\ o # r}
    BY <1>2 DEF StoreAvatar, OurUrl
  <2>3. u \in Seeded /\ Known(r, u)' /\ r \in objects
    BY <1>0, <2>1 DEF PicturesAreUploads, Known, Handed, UploadedBy
  <2>4. \A o \in Requests : saw[r] = o => Known(o, u)
    BY <1>0, <2>1 DEF PicturesAreUploads
  <2>5. PicturesAreUploads'
    BY <1>0, <1>a, <2>1, <2>2, <2>3, <2>4, PicturesStay DEF PicturesAreUploads, Handed, Known, Stays
  <2>6. r \notin removals'
    BY <1>0, <2>1, <2>2 DEF PicturesAreUploads, Handed
  <2>7. ASSUME NEW v \in Seeded, v # u, avatar'[v] \in Requests,
               avatar'[v] \in removals' \/ avatar'[v] \notin objects'
        PROVE  Excused(v)'
    <3>1. avatar'[v] = avatar[v] /\ Known(avatar[v], v)
      BY <1>0, <2>2, <2>7 DEF PicturesAreUploads
    <3>2. Excused(v)
      <4>1. CASE avatar[v] = saw[r]
        BY <2>4, <2>7, <3>1, <4>1 DEF Known, UploadedBy, Excused
      <4>2. CASE avatar[v] # saw[r]
        BY <1>0, <2>2, <2>7, <3>1, <4>2
      <4>3. QED
        BY <4>1, <4>2
    <3>3. QED
      BY <1>a, <2>1, <2>7, <3>1, <3>2, ExcusesStay
  <2>8. avatar'[u] = r
    BY <1>0, <2>2, <2>3 DEF PicturesAreUploads
  <2>9. QED
    BY <2>2, <2>3, <2>5, <2>6, <2>7, <2>8 DEF UsersInv, GoingOnlyByDelete, Excused
<1>3. CASE ClearAvatar(r)
  <2> DEFINE u == call[r].who
  <2>1. /\ pc[r] = "clearing" /\ pc'[r] = "done" /\ call' = call
        /\ \A s \in Requests \ {r} : Stays(s)
    BY <1>3, AwaitAt DEF ClearAvatar, Leave
  <2>2. /\ avatar' = [avatar EXCEPT ![u] = "none"] /\ UNCHANGED <<objects, removals>>
    BY <1>3 DEF ClearAvatar
  <2>3. PicturesAreUploads'
    BY <1>0, <1>a, <2>1, <2>2, PicturesStay, UsersAssumption DEF PicturesAreUploads, Handed, Stays
  <2>4. ASSUME NEW v \in Seeded, avatar'[v] \in Requests,
               avatar'[v] \in removals' \/ avatar'[v] \notin objects'
        PROVE  Excused(v)'
    <3>1. v # u /\ avatar'[v] = avatar[v]
      BY <1>0, <2>2, <2>4, UsersAssumption DEF PicturesAreUploads
    <3>2. Excused(v)
      BY <1>0, <2>2, <2>4, <3>1
    <3>3. CASE Clearing(v)
      <4>1. PICK d \in Requests :
                call[d].op = "deleteAvatar" /\ call[d].who = v /\ pc[d] \in {"clearing", "failed"}
        BY <3>3 DEF Clearing
      <4>2. Stays(d)
        BY <2>1, <3>1, <4>1
      <4>3. QED
        BY <4>1, <4>2 DEF Stays, Clearing, Excused
    <3>4. CASE NamedByHand(avatar[v])
      BY <2>1, <3>1, <3>4 DEF NamedByHand, Excused
    <3>5. QED
      BY <3>2, <3>3, <3>4 DEF Excused
  <2>5. QED
    BY <2>3, <2>4 DEF UsersInv, GoingOnlyByDelete, Excused
<1>4. QED
  BY <1>1, <1>2, <1>3

\* What the others do, and deletions that arrive, or are lost in a crash.
LEMMA UsersUntouched ==
    ASSUME Served, UsersInv, Foreign(UserOps, UserWaits),
           avatar' = avatar, objects' = objects, removals' = removals \/ removals' = {}
    PROVE  UsersInv'
<1>0. PicturesAreUploads /\ GoingOnlyByDelete
  BY DEF UsersInv
<1>1. ASSUME NEW o \in Requests
      PROVE  /\ o \in Handed => o \in Handed'
             /\ NamedByHand(o) => NamedByHand(o)'
             /\ \A u : Known(o, u) => Known(o, u)'
  <2>1. /\ o \in Handed => o \in Handed'
        /\ \A u : UploadedBy(o, u) => UploadedBy(o, u)'
    BY DEF Foreign, Stays, Breaks, InFlight, Ended, Verdicts, UploadedBy, Handed
  <2>2. ASSUME NamedByHand(o)
        PROVE  NamedByHand(o)'
    <3>1. PICK q \in Requests : call[q].op = "updateMe" /\ call[q].what = o
      BY <2>2 DEF NamedByHand
    <3>2. pc[q] # "idle"
      BY <3>1 DEF Served, NoCall
    <3>3. call'[q] = call[q]
      BY <3>2 DEF Foreign, Stays, Breaks
    <3>4. QED
      BY <3>1, <3>3 DEF NamedByHand
  <2>3. QED
    BY <2>1, <2>2 DEF Known
<1>2. ASSUME NEW r \in Requests, pc'[r] \in UserWaits
      PROVE  Stays(r)
  BY <1>2 DEF Foreign, Breaks, UserWaits
<1>3. PicturesAreUploads'
  <2>1. ASSUME NEW q \in Requests, pc'[q] \in {"uploading", "storing"}
        PROVE  /\ call'[q].op = "uploadAvatar" /\ call'[q].who \in Seeded
               /\ saw'[q] \in Requests => Known(saw[q], call[q].who)'
               /\ pc'[q] = "storing" => q \in objects'
    <3>1. Stays(q)
      BY <1>2, <2>1 DEF UserWaits
    <3> SUFFICES ASSUME NEW o, o = saw[q], NEW v, v = call[q].who
                 PROVE  /\ call[q].op = "uploadAvatar" /\ v \in Seeded
                        /\ o \in Requests => Known(o, v)'
                        /\ pc[q] = "storing" => q \in objects
      BY <3>1 DEF Stays, Known, UploadedBy, NamedByHand
    <3>2. QED
      BY <1>0, <1>1, <2>1, <3>1 DEF PicturesAreUploads, Stays
  <2>2. ASSUME NEW u \in Seeded, avatar[u] \in Requests
        PROVE  Known(avatar[u], u)'
    <3> SUFFICES ASSUME NEW o, o = avatar[u]
                 PROVE  Known(o, u)'
      BY DEF Known, UploadedBy, NamedByHand
    <3>1. QED
      BY <1>0, <1>1, <2>2 DEF PicturesAreUploads
  <2>3. \A q \in Requests : pc'[q] = "clearing" =>
            call'[q].op = "deleteAvatar" /\ call'[q].who \in Seeded
    BY <1>0, <1>2 DEF PicturesAreUploads, Stays, UserWaits
  <2>4. removals' \subseteq Handed'
    BY <1>0, <1>1 DEF PicturesAreUploads, Handed
  <2>5. QED
    BY <1>0, <2>1, <2>2, <2>3, <2>4 DEF PicturesAreUploads
<1>4. ASSUME NEW u \in Seeded, Clearing(u)
      PROVE  Clearing(u)'
  <2>1. PICK d \in Requests :
            call[d].op = "deleteAvatar" /\ call[d].who = u /\ pc[d] \in {"clearing", "failed"}
    BY <1>4 DEF Clearing
  <2>2. Stays(d) \/ Breaks(d)
    BY <2>1 DEF Foreign, UserWaits, InFlight, Ended, Verdicts
  <2>3. QED
    BY <2>1, <2>2 DEF Stays, Breaks, Clearing
<1>5. ASSUME NEW u \in Seeded, avatar[u] \in Requests, NamedByHand(avatar[u])
      PROVE  NamedByHand(avatar[u])'
  <2> SUFFICES ASSUME NEW o, o = avatar[u]
               PROVE  NamedByHand(o)'
    BY DEF NamedByHand
  <2>1. QED
    BY <1>1, <1>5
<1>6. GoingOnlyByDelete'
  BY <1>0, <1>4, <1>5 DEF GoingOnlyByDelete
<1>7. QED
  BY <1>3, <1>6 DEF UsersInv

\* Pictures are uploads of their owner or named by hand, and what is going and
\* not named by hand is shown only within deleteAvatar: in every state of the
\* application, whatever URLs profile updates bring.
THEOREM PicturesInvariant == Spec => []UsersInv
<1>1. Init => UsersInv
  BY UsersAssumption
     DEF Init, ServerInit, UsersInit, UsersInv, PicturesAreUploads, GoingOnlyByDelete
<1>2. Served /\ UsersInv /\ [Next]_appVars => UsersInv'
  <2> SUFFICES ASSUME Served, UsersInv, [Next]_appVars PROVE UsersInv'
    OBVIOUS
  <2>1. ASSUME NEW r \in Requests, UsersStep(r)
        PROVE  UsersInv'
    BY <2>1, UsersArrivals, UsersAwaits DEF UsersStep
  <2>2. ASSUME NEW o \in removals, RemoveObject(o)
        PROVE  UsersInv'
    <3>1. /\ UNCHANGED <<serverVars, avatar>> /\ removals' = removals \ {o}
          /\ objects \ {o} \subseteq objects'
      BY <2>2 DEF RemoveObject
    <3>2. UNCHANGED <<pc, call, saw>>
      BY <3>1 DEF serverVars
    <3>3. pc[o] = "done"
      BY <2>2 DEF UsersInv, PicturesAreUploads, Handed
    <3>4. PicturesAreUploads'
      BY <3>1, <3>2, <3>3 DEF UsersInv, PicturesAreUploads, Known, Handed, UploadedBy, NamedByHand
    <3>5. GoingOnlyByDelete'
      BY <2>2, <3>1, <3>2 DEF UsersInv, GoingOnlyByDelete, Clearing, NamedByHand
    <3>6. QED
      BY <3>4, <3>5 DEF UsersInv
  <2>3. QED
    BY <2>1, <2>2, UsersFrame, UsersUntouched
<1>3. QED
  BY <1>1, <1>2, ServedAlways, PTL DEF Spec

\* A profile picture of ours that no profile update has named can be shown, but
\* within deleteAvatar or after it failed between its steps.
THEOREM PictureCanBeShown == Spec => []AvatarIsThere
<1>1. UsersInv => AvatarIsThere
  BY DEF UsersInv, GoingOnlyByDelete, AvatarIsThere
<1>2. QED
  BY <1>1, PicturesInvariant, PTL

-----------------------------------------------------------------------------
(* Codes and sessions: what the steps of Auth do. *)

\* The requests that arrive, by what they have looked at.
AsksForCode(r) ==
    /\ call'[r].op = "phoneRequestOtp" /\ call'[r].who \in Phones /\ pc'[r] = "hashing"
    /\ Cardinality(LastHour(call'[r].who)) < OtpMax
    /\ UNCHANGED authVars

ShowsCode(r) ==
    /\ call'[r].op = "phoneVerifyOtp" /\ pc'[r] = "marking" /\ call'[r].what \in Requests
    /\ \E i \in DOMAIN codes : /\ codes[i].by = call'[r].what
                               /\ codes[i].phone = call'[r].who /\ ~codes[i].used
    /\ UNCHANGED authVars

ComesIn(r) ==
    /\ call'[r].op \in Logins \ {"phoneVerifyOtp"}
    /\ pc'[r] \in {"creating", "linking", "issuing"}
    /\ UNCHANGED authVars

ShowsToken(r) ==
    /\ call'[r].op = "refresh" /\ pc'[r] = "exchanging"
    /\ saw'[r] \in SessionsOf(call'[r].who)
    /\ UNCHANGED authVars

LogsOut(r) ==
    /\ call'[r].op = "logout" /\ pc'[r] = "done"
    /\ DOMAIN sessions' = DOMAIN sessions \ SessionsOf(call'[r].who)
    /\ UNCHANGED <<codes, delivered>>

\* A request that is resumed between the tables of this module.
GoesOn(r) ==
    /\ pc[r] \in {"identifying", "verifying", "linking", "creating", "texting"}
    /\ pc'[r] \in IF pc[r] = "texting" THEN {"done"}
                  ELSE {"creating", "verifying", "issuing", "refused", "conflict"}
    /\ UNCHANGED <<codes, sessions>>

\* Every step of Auth is one of these, or one that writes a row.
LEMMA AuthStepKinds ==
    ASSUME Served, NEW r \in Requests, AuthStep(r)
    PROVE  /\ Moves(r, AuthOps, AuthWaits)
           /\ \/ /\ pc[r] = "idle"
                 /\ \/ AsksForCode(r) \/ ShowsCode(r) \/ ComesIn(r)
                    \/ ShowsToken(r) \/ LogsOut(r)
              \/ GoesOn(r) \/ StoreOtp(r) \/ MarkCode(r) \/ MarkOthers(r)
              \/ IssueTokens(r) \/ ExchangeSession(r)
<1>0. Moves(r, AuthOps, AuthWaits)
  BY AuthMoves
<1>1. ASSUME pc[r] = "idle", NEW p \in Phones, PhoneRequestOtp(r, p)
      PROVE  AsksForCode(r)
  BY <1>1 DEF PhoneRequestOtp, Arrive, Served, WellFormed, AsksForCode, Verdicts
<1>2. ASSUME pc[r] = "idle", NEW p \in Phones, NEW c \in Requests, PhoneVerifyOtp(r, p, c)
      PROVE  ShowsCode(r)
  BY <1>2 DEF PhoneVerifyOtp, Usable, Newest, Arrive, Served, WellFormed, ShowsCode, Verdicts
<1>3. ASSUME pc[r] = "idle", NEW u,
             EmailRegister(r, u) \/ EmailLogin(r, u) \/ GoogleAuth(r, u)
      PROVE  ComesIn(r)
  <2>1. CASE EmailRegister(r, u)
    BY <1>3, <2>1 DEF EmailRegister, Arrive, Served, WellFormed, ComesIn, Logins, Verdicts
  <2>2. CASE EmailLogin(r, u)
    BY <1>3, <2>2 DEF EmailLogin, Arrive, Served, WellFormed, ComesIn, Logins, Verdicts
  <2>3. CASE GoogleAuth(r, u)
    BY <1>3, <2>3 DEF GoogleAuth, Arrive, Served, WellFormed, ComesIn, Logins, Verdicts
  <2>4. QED
    BY <1>3, <2>1, <2>2, <2>3
<1>4. ASSUME pc[r] = "idle", NEW u, AdminLogin(r, u) \/ AdminGoogleAuth(r, u)
      PROVE  ComesIn(r)
  BY <1>4 DEF AdminLogin, AdminGoogleAuth, Arrive, Served, WellFormed, ComesIn, Logins, Verdicts
<1>5. ASSUME pc[r] = "idle", NEW u, Logout(r, u)
      PROVE  LogsOut(r)
  BY <1>5 DEF Logout, Keep, Arrive, Served, WellFormed, LogsOut, Verdicts
<1>6. ASSUME pc[r] = "idle", NEW u, NEW t \in Requests, Refresh(r, u, t)
      PROVE  ShowsToken(r)
  BY <1>6 DEF Refresh, Matching, SessionsOf, Arrive, Served, WellFormed, ShowsToken, Verdicts
<1>7. CASE IsNext(r) /\ (AuthRequest(r) \/ AdminAuthRequest(r))
  BY <1>0, <1>1, <1>2, <1>3, <1>4, <1>5, <1>6, <1>7 DEF IsNext, AuthRequest, AdminAuthRequest
<1>8. CASE IdentityStep(r)
  BY <1>0, <1>8, AwaitAt
     DEF IdentityStep, FindByPhone, VerifyUser, LinkGoogle, CreateUser, Leave, authVars, GoesOn
<1>9. CASE SendSms(r)
  BY <1>0, <1>9, AwaitAt DEF SendSms, Leave, GoesOn
<1>10. QED
  BY <1>0, <1>7, <1>8, <1>9 DEF AuthStep, RowsStep

\* The rows of Auth change with its steps, and codes also with time.
Elsewhere ==
    /\ Foreign(AuthOps, AuthWaits)
    /\ UNCHANGED <<delivered, sessions>>
    /\ codes' = codes \/ MinutesPass \/ AnHourPasses

LEMMA AuthFrame ==
    ASSUME Served, [Next]_appVars
    PROVE  Elsewhere \/ \E r \in Requests : AuthStep(r)
<1>1. ASSUME NEW r \in Requests, Handle(r), ~AuthStep(r)
      PROVE  Foreign(AuthOps, AuthWaits) /\ UNCHANGED authVars
  <2>1. CASE UsersStep(r) /\ UNCHANGED authVars
    BY <2>1, UsersMoves, MovesAreForeign
       DEF AuthOps, Logins, AuthWaits, UserOps, UserWaits, Rest, Verdicts
  <2>2. CASE PushStep(r) /\ UNCHANGED authVars
    BY <2>2, PushMoves, MovesAreForeign
       DEF AuthOps, Logins, AuthWaits, PushOps, PushWaits, Rest, Verdicts
  <2>3. CASE AiStep(r) /\ UNCHANGED authVars
    BY <2>3, AiMoves, MovesAreForeign
       DEF AuthOps, Logins, AuthWaits, AiOps, AiWaits, Rest, Verdicts
  <2>4. CASE CatalogueStep(r) /\ UNCHANGED authVars
    BY <2>4, CatalogueMoves, MovesAreForeign
       DEF AuthOps, Logins, AuthWaits, CatalogueOps, CatalogueWaits, Rest, Verdicts
  <2>5. CASE LessonsStep(r) /\ UNCHANGED authVars
    BY <2>5, LessonsMoves, MovesAreForeign
       DEF AuthOps, Logins, AuthWaits, LessonOps, LessonWaits, Rest, Verdicts
  <2>6. CASE BookRagStep(r) /\ UNCHANGED authVars
    BY <2>6, BookRagMoves, MovesAreForeign
       DEF AuthOps, Logins, AuthWaits, RagOps, RagWaits, Rest, Verdicts
  <2>7. QED
    BY <1>1, <2>1, <2>2, <2>3, <2>4, <2>5, <2>6 DEF Handle
<1>2. CASE Halts /\ (NoTableChanges \/ Crash)
  BY <1>2, HaltsIsForeign DEF NoTableChanges, authVars, Crash, Elsewhere
<1>3. CASE Halts /\ Pass
  BY <1>3, HaltsIsForeign DEF Pass, CodesAge, authVars, Elsewhere
<1>4. QED
  BY <1>1, <1>2, <1>3, StepKinds DEF Elsewhere, authVars

\* There a request of Auth stays where it is, or fails.
LEMMA ElsewhereTheyStay ==
    ASSUME Served, LoginsWait, Elsewhere, NEW q \in Requests
    PROVE  /\ call[q].op \in AuthOps =>
                 /\ call'[q] = call[q] /\ before'[q] = before[q]
                 /\ \/ pc'[q] = pc[q] /\ saw'[q] = saw[q]
                    \/ pc[q] \in AuthWaits /\ pc'[q] = "failed"
           /\ call'[q].op \in AuthOps => call[q].op \in AuthOps
           /\ pc'[q] \in AuthWaits => Stays(q)
<1>1. "none" \notin AuthOps /\ "listed" \notin AuthWaits \cup Verdicts
  BY DEF AuthOps, Logins, AuthWaits, Verdicts
<1>2. call[q].op \in AuthOps => pc[q] \in AuthWaits \cup Verdicts
  BY DEF LoginsWait, AuthOps, Logins, AuthWaits, Verdicts
<1>3. pc[q] = "idle" => call[q].op = "none"
  BY DEF Served, NoCall
<1>4. CASE Stays(q)
  BY <1>4 DEF Stays
<1>5. CASE Breaks(q)
  BY <1>1, <1>2, <1>5 DEF Breaks, InFlight, Ended, AuthWaits
<1>6. CASE /\ pc[q] = "idle" /\ pc'[q] \notin AuthWaits \cup {"idle"}
           /\ call'[q].op \notin AuthOps
  BY <1>1, <1>3, <1>6
<1>7. CASE /\ q \in InFlight /\ pc[q] \notin AuthWaits /\ pc'[q] \notin AuthWaits \cup {"idle"}
           /\ call'[q] = call[q] /\ before'[q] = before[q]
  BY <1>2, <1>7 DEF InFlight, Ended
<1>8. QED
  BY <1>4, <1>5, <1>6, <1>7 DEF Elsewhere, Foreign

\* Codes are rows of the table, numbered from one.
LEMMA CodesAreRows ==
    ASSUME CodesAreStored
    PROVE  /\ Len(codes) \in Nat /\ DOMAIN codes = 1 .. Len(codes)
           /\ \A i \in DOMAIN codes :
                 /\ codes[i] \in [phone : Phones, by : Requests, used : BOOLEAN, age : Ages]
                 /\ codes[i].by \in Requests
<1> DEFINE Row == [phone : Phones, by : Requests, used : BOOLEAN, age : Ages]
<1>1. codes \in Seq(Row)
  BY DEF CodesAreStored
<1>2. /\ Len(codes) \in Nat /\ DOMAIN codes = 1 .. Len(codes)
      /\ \A i \in DOMAIN codes : codes[i] \in Row
  <2> HIDE DEF Row
  <2> QED
    BY <1>1
<1>3. QED
  BY <1>2

\* The codes only age there.
LEMMA CodesOnlyAge ==
    ASSUME CodesAreStored, Elsewhere
    PROVE  /\ codes' \in Seq([phone : Phones, by : Requests, used : BOOLEAN, age : Ages])
           /\ DOMAIN codes' = DOMAIN codes
           /\ \A i \in DOMAIN codes : /\ codes'[i].phone = codes[i].phone
                                      /\ codes'[i].by = codes[i].by
                                      /\ codes'[i].used = codes[i].used
           /\ \/ \A i \in DOMAIN codes : codes'[i].age = "old" <=> codes[i].age = "old"
              \/ \A i \in DOMAIN codes : codes'[i].age = "old"
<1> DEFINE Row == [phone : Phones, by : Requests, used : BOOLEAN, age : Ages]
<1>1. /\ codes \in Seq(Row) /\ Len(codes) \in Nat /\ DOMAIN codes = 1 .. Len(codes)
      /\ \A i \in DOMAIN codes : codes[i] \in Row
  BY CodesAreRows DEF CodesAreStored
<1>2. CASE codes' = codes
  BY <1>1, <1>2
<1>3. CASE MinutesPass
  <2>1. \A i \in DOMAIN codes :
            codes'[i] = IF codes[i].age = "fresh" THEN [codes[i] EXCEPT !.age = "stale"] ELSE codes[i]
    BY <1>3 DEF MinutesPass
  <2>2. DOMAIN codes' = DOMAIN codes /\ \A i \in DOMAIN codes : codes'[i] \in Row
    BY <1>1, <1>3, <2>1 DEF MinutesPass, Ages
  <2>3. codes' \in [1 .. Len(codes) -> Row]
    BY <1>1, <1>3, <2>2 DEF MinutesPass
  <2>4. codes' \in Seq(Row)
    <3> HIDE DEF Row
    <3> QED
      BY <1>1, <2>3
  <2>5. QED
    BY <1>1, <2>1, <2>2, <2>4
<1>4. CASE AnHourPasses
  <2>1. \A i \in DOMAIN codes : codes'[i] = [codes[i] EXCEPT !.age = "old"]
    BY <1>4 DEF AnHourPasses
  <2>2. DOMAIN codes' = DOMAIN codes /\ \A i \in DOMAIN codes : codes'[i] \in Row
    BY <1>1, <1>4, <2>1 DEF AnHourPasses, Ages
  <2>3. codes' \in [1 .. Len(codes) -> Row]
    BY <1>1, <1>4, <2>2 DEF AnHourPasses
  <2>4. codes' \in Seq(Row)
    <3> HIDE DEF Row
    <3> QED
      BY <1>1, <2>3
  <2>5. QED
    BY <1>1, <2>1, <2>2, <2>4
<1>5. QED
  BY <1>2, <1>3, <1>4 DEF Elsewhere

\* Rows that are the same but for their age, or for being used up.
SameCodes ==
    /\ codes' \in Seq([phone : Phones, by : Requests, used : BOOLEAN, age : Ages])
    /\ DOMAIN codes' = DOMAIN codes
    /\ \A i \in DOMAIN codes : /\ codes'[i].phone = codes[i].phone
                               /\ codes'[i].by = codes[i].by
                               /\ codes[i].used => codes'[i].used

\* The steps that write a row: where they take the request, and what they write.
LEMMA WritesAt ==
    ASSUME Served, NEW r \in Requests
    PROVE  /\ StoreOtp(r) => /\ pc[r] = "hashing" /\ pc'[r] = "texting" /\ call'[r] = call[r]
                             /\ UNCHANGED sessions
           /\ MarkCode(r) => /\ pc[r] = "marking" /\ pc'[r] = "sweeping" /\ call'[r] = call[r]
                             /\ UNCHANGED sessions
           /\ MarkOthers(r) => /\ pc[r] = "sweeping" /\ pc'[r] = "identifying"
                               /\ call'[r] = call[r] /\ UNCHANGED sessions
           /\ IssueTokens(r) => /\ pc[r] = "issuing" /\ pc'[r] = "done" /\ call'[r] = call[r]
                                /\ DOMAIN sessions' = DOMAIN sessions \cup {r}
                                /\ UNCHANGED codes
           /\ ExchangeSession(r) => /\ pc[r] = "exchanging" /\ call'[r] = call[r]
                                    /\ UNCHANGED codes
                                    /\ \/ /\ pc'[r] = "conflict" /\ UNCHANGED sessions
                                       \/ /\ pc'[r] = "issuing" /\ saw[r] \in DOMAIN sessions
                                          /\ DOMAIN sessions' = DOMAIN sessions \ {saw[r]}
<1>1. StoreOtp(r) => /\ pc[r] = "hashing" /\ pc'[r] = "texting" /\ call'[r] = call[r]
                     /\ UNCHANGED sessions
  BY AwaitAt DEF StoreOtp
<1>2. MarkCode(r) => /\ pc[r] = "marking" /\ pc'[r] = "sweeping" /\ call'[r] = call[r]
                     /\ UNCHANGED sessions
  BY AwaitAt DEF MarkCode
<1>3. MarkOthers(r) => /\ pc[r] = "sweeping" /\ pc'[r] = "identifying" /\ call'[r] = call[r]
                       /\ UNCHANGED sessions
  BY AwaitAt DEF MarkOthers
<1>4. IssueTokens(r) => /\ pc[r] = "issuing" /\ pc'[r] = "done" /\ call'[r] = call[r]
                        /\ DOMAIN sessions' = DOMAIN sessions \cup {r}
                        /\ UNCHANGED codes
  BY AwaitAt DEF IssueTokens, Leave
<1>5. ASSUME ExchangeSession(r)
      PROVE  /\ pc[r] = "exchanging" /\ call'[r] = call[r]
             /\ UNCHANGED codes
             /\ \/ /\ pc'[r] = "conflict" /\ UNCHANGED sessions
                \/ /\ pc'[r] = "issuing" /\ saw[r] \in DOMAIN sessions
                   /\ DOMAIN sessions' = DOMAIN sessions \ {saw[r]}
  BY <1>5, AwaitAt DEF ExchangeSession, Keep, Leave
<1>6. QED
  BY <1>1, <1>2, <1>3, <1>4, <1>5

\* Marking a code as used changes nothing else.
LEMMA CodesOnlyMarked ==
    ASSUME CodesAreStored, NEW r \in Requests, MarkCode(r) \/ MarkOthers(r)
    PROVE  SameCodes /\ \A i \in DOMAIN codes : codes'[i].age = codes[i].age
<1> DEFINE Row == [phone : Phones, by : Requests, used : BOOLEAN, age : Ages]
<1>2. /\ Len(codes) \in Nat /\ DOMAIN codes = 1 .. Len(codes)
      /\ \A i \in DOMAIN codes : codes[i] \in Row
  BY CodesAreRows
<1>3. /\ codes' = [i \in DOMAIN codes |-> codes'[i]]
      /\ \A i \in DOMAIN codes : codes'[i] \in {codes[i], Used(codes[i])}
  BY DEF MarkCode, MarkOthers
<1>4. \A i \in DOMAIN codes : /\ codes'[i] \in Row /\ codes'[i].phone = codes[i].phone
                              /\ codes'[i].by = codes[i].by /\ codes'[i].age = codes[i].age
                              /\ codes[i].used => codes'[i].used
  BY <1>2, <1>3 DEF Used
<1>5. codes' \in Seq(Row)
  <2> HIDE DEF Row
  <2> QED
    BY <1>2, <1>3, <1>4
<1>6. QED
  BY <1>3, <1>4, <1>5 DEF SameCodes

\* The row of a new code comes last.
LEMMA CodeIsAdded ==
    ASSUME CodesAreStored, LoginsWait, NEW r \in Requests, StoreOtp(r)
    PROVE  LET n == Len(codes) + 1 IN
           /\ codes' \in Seq([phone : Phones, by : Requests, used : BOOLEAN, age : Ages])
           /\ n \notin DOMAIN codes /\ DOMAIN codes' = DOMAIN codes \cup {n}
           /\ \A i \in DOMAIN codes : codes'[i] = codes[i]
           /\ codes'[n].phone = call[r].who /\ codes'[n].by = r
           /\ codes'[n].age = "fresh"
<1> DEFINE Row == [phone : Phones, by : Requests, used : BOOLEAN, age : Ages]
           row == [phone |-> call[r].who, by |-> r, used |-> FALSE, age |-> "fresh"]
<1>1. codes \in Seq(Row)
  BY DEF CodesAreStored
<1>2. row \in Row
  BY DEF StoreOtp, LoginsWait, Ages
<1>3. codes' = Append(codes, row)
  BY DEF StoreOtp
<1>4. LET n == Len(codes) + 1 IN
      /\ codes' \in Seq(Row)
      /\ n \notin DOMAIN codes /\ DOMAIN codes' = DOMAIN codes \cup {n}
      /\ \A i \in DOMAIN codes : codes'[i] = codes[i]
      /\ codes'[n] = row
  <2> HIDE DEF Row, row
  <2> QED
    BY <1>1, <1>2, <1>3
<1>5. QED
  BY <1>4

\* Who waits where.
LEMMA LoginsWaitOn ==
    ASSUME Served, LoginsWait, SessionsAreOpen, Onward,
           Elsewhere \/ \E r \in Requests : AuthStep(r)
    PROVE  LoginsWait'
<1>1. ASSUME NEW q \in Requests, pc[q] = "exchanging", saw'[q] = saw[q]
      PROVE  saw'[q] \in Requests /\ pc'[saw'[q]] = "done" /\ call'[saw'[q]].who = call[q].who
  <2>1. saw[q] \in Requests /\ pc[saw[q]] = "done" /\ call[saw[q]].who = call[q].who
    BY <1>1 DEF LoginsWait
  <2>2. QED
    BY <1>1, <2>1 DEF Onward, Verdicts
<1>2. CASE Elsewhere
  BY <1>1, <1>2, ElsewhereTheyStay DEF LoginsWait, Stays, AuthOps, AuthWaits, Logins, Verdicts
<1>3. ASSUME NEW r \in Requests, AuthStep(r)
      PROVE  LoginsWait'
  <2>1. /\ Moves(r, AuthOps, AuthWaits)
        /\ \/ /\ pc[r] = "idle"
              /\ AsksForCode(r) \/ ShowsCode(r) \/ ComesIn(r) \/ ShowsToken(r) \/ LogsOut(r)
           \/ GoesOn(r) \/ StoreOtp(r) \/ MarkCode(r) \/ MarkOthers(r)
           \/ IssueTokens(r) \/ ExchangeSession(r)
    BY <1>3, AuthStepKinds
  <2>2. pc[r] # "idle" => call'[r] = call[r]
    BY DEF Onward
  <2>3. ASSUME ShowsToken(r), pc[r] = "idle"
        PROVE  saw'[r] \in Requests /\ pc'[saw'[r]] = "done" /\ call'[saw'[r]].who = call'[r].who
    <3>1. saw'[r] \in DOMAIN sessions /\ call[saw'[r]].who = call'[r].who
      BY <2>3 DEF ShowsToken, SessionsOf
    <3>2. saw'[r] \in Requests /\ pc[saw'[r]] = "done"
      BY <3>1 DEF SessionsAreOpen
    <3>3. QED
      BY <3>1, <3>2 DEF Onward, Verdicts
  <2>4. ASSUME NEW q \in Requests
        PROVE  /\ call'[q].op = "phoneRequestOtp" => pc'[q] \in {"hashing", "texting"} \cup Verdicts
               /\ call'[q].op \in Logins => pc'[q] \in {"marking", "sweeping", "identifying",
                       "verifying", "linking", "creating", "issuing"} \cup Verdicts
               /\ call'[q].op = "refresh" => pc'[q] \in {"exchanging", "issuing"} \cup Verdicts
               /\ call'[q].op = "logout" => pc'[q] = "done"
               /\ pc'[q] \in {"hashing", "texting"} => /\ call'[q].op = "phoneRequestOtp"
                                                       /\ call'[q].who \in Phones
               /\ pc'[q] \in {"marking", "sweeping"} => call'[q].op = "phoneVerifyOtp"
               /\ pc'[q] \in {"identifying", "verifying", "linking", "creating"} =>
                      call'[q].op \in Logins
               /\ pc'[q] = "issuing" => call'[q].op \in Logins \cup {"refresh"}
               /\ pc'[q] = "exchanging" => /\ call'[q].op = "refresh"
                     /\ saw'[q] \in Requests /\ pc'[saw'[q]] = "done"
                     /\ call'[saw'[q]].who = call'[q].who
    <3>1. CASE q # r
      BY <1>1, <2>1, <3>1 DEF Moves, Stays, LoginsWait
    <3>2. CASE q = r /\ pc[r] = "idle"
      BY <2>1, <2>3, <3>2, WritesAt
         DEF AsksForCode, ShowsCode, ComesIn, ShowsToken, LogsOut, GoesOn, Logins, Verdicts
    <3>3. CASE q = r /\ pc[r] # "idle"
      BY <2>1, <2>2, <3>3, WritesAt DEF GoesOn, LoginsWait, Logins, Verdicts
    <3>4. QED
      BY <3>1, <3>2, <3>3
  <2>5. QED
    BY <2>4 DEF LoginsWait
<1>4. QED
  BY <1>2, <1>3

\* A step of Auth that is none of those that write codes leaves codes alone.
LEMMA CodesChange ==
    ASSUME Served, LoginsWait, CodesAreStored, Elsewhere \/ \E r \in Requests : AuthStep(r)
    PROVE  SameCodes \/ \E r \in Requests : StoreOtp(r)
<1>1. CASE codes' = codes
  BY <1>1 DEF CodesAreStored, SameCodes
<1>2. CASE Elsewhere
  BY <1>2, CodesOnlyAge DEF SameCodes
<1>3. ASSUME NEW r \in Requests, AuthStep(r), codes' # codes
      PROVE  MarkCode(r) \/ MarkOthers(r) \/ StoreOtp(r)
  BY <1>3, AuthStepKinds, WritesAt
     DEF AsksForCode, ShowsCode, ComesIn, ShowsToken, LogsOut, GoesOn, authVars
<1>4. QED
  BY <1>1, <1>2, <1>3, CodesOnlyMarked

\* A code whose request has left "hashing" has been stored, or never will be.
LEMMA CodesAreStoredOn ==
    ASSUME Served, LoginsWait, CodesAreStored, Onward,
           Elsewhere \/ \E r \in Requests : AuthStep(r)
    PROVE  CodesAreStored'
<1>1. ASSUME NEW q \in Requests, pc[q] \notin {"idle", "hashing"}
      PROVE  pc'[q] \notin {"idle", "hashing"}
  <2>1. CASE Elsewhere
    BY <1>1, <2>1, ElsewhereTheyStay DEF Stays, AuthWaits, Onward
  <2>2. ASSUME NEW r \in Requests, AuthStep(r)
        PROVE  pc'[q] \notin {"idle", "hashing"}
    <3>1. CASE q # r
      BY <1>1, <2>2, <3>1, AuthStepKinds DEF Moves, Stays
    <3>2. CASE q = r
      BY <1>1, <2>2, <3>2, AuthStepKinds, WritesAt DEF GoesOn
    <3>3. QED
      BY <3>1, <3>2
  <2>3. QED
    BY <2>1, <2>2
<1>2. ASSUME NEW q \in Requests, call'[q].op = "phoneVerifyOtp"
      PROVE  call'[q].what \in Requests /\ pc'[call'[q].what] \notin {"idle", "hashing"}
  <2>1. CASE call[q].op = "phoneVerifyOtp" /\ call'[q] = call[q]
    BY <1>1, <2>1 DEF CodesAreStored
  <2>2. CASE call[q].op # "phoneVerifyOtp" \/ call'[q] # call[q]
    <3>1. pc[q] = "idle" /\ call[q].op = "none"
      BY <1>2, <2>2 DEF Onward, Served, NoCall
    <3>2. PICK r \in Requests : AuthStep(r)
      BY <1>2, <3>1, ElsewhereTheyStay DEF AuthOps, Logins
    <3>3. q = r
      BY <1>2, <3>1, <3>2, AuthStepKinds DEF Moves, Stays
    <3>4. ShowsCode(r)
      BY <1>2, <3>1, <3>2, <3>3, AuthStepKinds, WritesAt
         DEF AsksForCode, ComesIn, ShowsToken, LogsOut, GoesOn, Logins
    <3>5. PICK i \in DOMAIN codes : codes[i].by = call'[r].what
      BY <3>4 DEF ShowsCode
    <3>6. call'[r].what \in Requests /\ pc[call'[r].what] \notin {"idle", "hashing"}
      BY <3>4, <3>5 DEF ShowsCode, CodesAreStored
    <3>7. QED
      BY <1>1, <3>3, <3>6
  <2>3. QED
    BY <2>1, <2>2
<1>3. CASE SameCodes
  <2>1. \A i \in DOMAIN codes : codes[i].by \in Requests
    BY CodesAreRows
  <2>2. QED
    BY <1>1, <1>2, <1>3, <2>1 DEF SameCodes, CodesAreStored
<1>4. ASSUME NEW r \in Requests, StoreOtp(r)
      PROVE  CodesAreStored'
  <2>1. \A i \in DOMAIN codes : codes[i].by \in Requests
    BY CodesAreRows
  <2>2. pc'[r] = "texting"
    BY <1>4, WritesAt
  <2>3. QED
    <3> DEFINE n == Len(codes) + 1
    <3>1. /\ codes' \in Seq([phone : Phones, by : Requests, used : BOOLEAN, age : Ages])
          /\ DOMAIN codes' = DOMAIN codes \cup {n} /\ codes'[n].by = r
          /\ \A i \in DOMAIN codes : codes'[i] = codes[i]
      BY <1>4, CodeIsAdded
    <3>2. QED
      BY <1>1, <1>2, <2>1, <2>2, <3>1 DEF CodesAreStored
<1>5. QED
  BY <1>3, <1>4, CodesChange

\* A verification comes to its two updates one after the other, and what they
\* have used up stays so.
LEMMA CodesUsedUpOn ==
    ASSUME Served, LoginsWait, CodesAreStored, CodesUsedUp, Onward,
           Elsewhere \/ \E r \in Requests : AuthStep(r)
    PROVE  CodesUsedUp'
<1> DEFINE Late == {"identifying", "verifying", "linking", "creating", "issuing", "done"}
<1> SUFFICES ASSUME NEW q \in Requests, call'[q].op = "phoneVerifyOtp", NEW i \in DOMAIN codes'
             PROVE  /\ pc'[q] = "sweeping" /\ codes'[i].by = call'[q].what => codes'[i].used
                    /\ /\ pc'[q] \in Late
                       /\ codes'[i].phone = call'[q].who /\ codes'[i].by \in before'[q]
                       => codes'[i].used
  BY DEF CodesUsedUp
<1>1. CASE pc'[q] = pc[q] /\ call'[q] = call[q] /\ before'[q] = before[q]
  <2>1. CASE SameCodes
    BY <1>1, <2>1 DEF SameCodes, CodesUsedUp
  <2>2. ASSUME NEW r \in Requests, StoreOtp(r)
        PROVE  \/ i \in DOMAIN codes /\ codes'[i] = codes[i]
               \/ codes'[i].by # call[q].what /\ codes'[i].by \notin before[q]
    <3>1. \/ i \in DOMAIN codes /\ codes'[i] = codes[i]
          \/ codes'[i].by = r
      BY <2>2, CodeIsAdded
    <3>2. pc[r] = "hashing"
      BY <2>2, WritesAt
    <3>3. r # call[q].what /\ r \notin before[q]
      BY <1>1, <3>2 DEF CodesAreStored, Served, Verdicts
    <3>4. QED
      BY <3>1, <3>3
  <2>3. QED
    BY <1>1, <2>1, <2>2, CodesChange DEF CodesUsedUp
<1>2. CASE Elsewhere
  <2>1. \/ pc'[q] = pc[q] /\ call'[q] = call[q] /\ before'[q] = before[q]
        \/ pc'[q] = "failed"
    BY <1>2, ElsewhereTheyStay DEF AuthOps, Logins
  <2>2. QED
    BY <1>1, <2>1
<1>3. ASSUME NEW r \in Requests, AuthStep(r)
      PROVE  \/ pc'[q] = pc[q] /\ call'[q] = call[q] /\ before'[q] = before[q]
             \/ pc'[q] \notin Late \cup {"sweeping"}
             \/ q = r /\ call'[q] = call[q] /\ before'[q] = before[q]
                /\ \/ pc[q] \in Late /\ codes' = codes /\ pc'[q] # "sweeping"
                   \/ MarkCode(q) \/ MarkOthers(q)
  <2>1. CASE q # r
    BY <1>3, <2>1, AuthStepKinds DEF Moves, Stays
  <2>2. CASE q = r /\ pc[q] = "idle"
    BY <1>3, <2>2, AuthStepKinds, WritesAt
       DEF AsksForCode, ShowsCode, ComesIn, ShowsToken, LogsOut, GoesOn, Logins
  <2>3. CASE q = r /\ pc[q] # "idle"
    <3>1. call'[q] = call[q] /\ before'[q] = before[q]
      BY <2>3 DEF Onward
    <3>2. QED
      BY <1>3, <2>3, <3>1, AuthStepKinds, WritesAt DEF GoesOn, LoginsWait, Logins
  <2>4. QED
    BY <2>1, <2>2, <2>3
<1>4. ASSUME pc[q] \in Late, codes' = codes, pc'[q] # "sweeping", call'[q] = call[q],
             before'[q] = before[q]
      PROVE  codes'[i].phone = call'[q].who /\ codes'[i].by \in before'[q] => codes'[i].used
  BY <1>4 DEF CodesUsedUp
<1>5. ASSUME MarkCode(q)
      PROVE  pc'[q] = "sweeping" /\ (codes'[i].by = call'[q].what => codes'[i].used)
  <2>1. codes[i] \in [phone : Phones, by : Requests, used : BOOLEAN, age : Ages] /\ i \in DOMAIN codes
    BY <1>5, CodesOnlyMarked, CodesAreRows DEF SameCodes
  <2>2. call' = call
    BY <1>5, AwaitAt DEF MarkCode
  <2>3. QED
    BY <1>5, <2>1, <2>2, WritesAt DEF MarkCode, Used
<1>6. ASSUME MarkOthers(q)
      PROVE  pc'[q] = "identifying" /\ (codes'[i].phone = call'[q].who => codes'[i].used)
  <2>1. codes[i] \in [phone : Phones, by : Requests, used : BOOLEAN, age : Ages] /\ i \in DOMAIN codes
    BY <1>6, CodesOnlyMarked, CodesAreRows DEF SameCodes
  <2>2. call' = call /\ pc[q] = "sweeping"
    BY <1>6, AwaitAt DEF MarkOthers
  <2>3. codes[i].by = call[q].what => codes[i].used
    BY <2>1, <2>2 DEF CodesUsedUp
  <2>4. QED
    BY <1>6, <2>1, <2>2, <2>3, WritesAt DEF MarkOthers, Used
<1>7. QED
  BY <1>1, <1>2, <1>3, <1>4, <1>5, <1>6

\* A code that is shown is not used up, so no login before it used it up.
LEMMA CodeOpensOnceOn ==
    ASSUME Served, LoginsWait, CodesUsedUp, CodeOpensOnce, Onward,
           Elsewhere \/ \E r \in Requests : AuthStep(r)
    PROVE  CodeOpensOnce'
<1> SUFFICES ASSUME NEW q \in Requests, NEW l \in Requests,
                    call'[q].op = "phoneVerifyOtp", call'[l].op = "phoneVerifyOtp",
                    call'[q].who = call'[l].who, pc'[l] = "done", l \in before'[q]
             PROVE  call'[q].what \notin before'[l]
  BY DEF CodeOpensOnce
<1>1. CASE pc[q] # "idle"
  <2>1. call'[q] = call[q] /\ before'[q] = before[q]
    BY <1>1 DEF Onward
  <2>2. pc[l] \in Verdicts
    BY <2>1 DEF Served
  <2>3. pc[l] = "done" /\ call'[l] = call[l] /\ before'[l] = before[l]
    BY <2>2 DEF Onward, Verdicts
  <2>4. QED
    BY <2>1, <2>3 DEF CodeOpensOnce
<1>2. CASE pc[q] = "idle"
  <2>1. call[q].op = "none" /\ before[q] = {}
    BY <1>2 DEF Served, NoCall
  <2>2. PICK r \in Requests : AuthStep(r)
    BY <2>1, ElsewhereTheyStay DEF AuthOps, Logins
  <2>3. q = r
    BY <2>1, <2>2, AuthStepKinds DEF Moves, Stays
  <2>4. ShowsCode(q) /\ before'[q] = Ended
    <3>1. ShowsCode(q)
      BY <1>2, <2>1, <2>2, <2>3, AuthStepKinds, WritesAt
         DEF AsksForCode, ComesIn, ShowsToken, LogsOut, GoesOn, Logins
    <3>2. QED
      BY <1>2, <3>1 DEF ShowsCode, Onward
  <2>5. pc[l] \in Verdicts
    BY <2>4 DEF Ended
  <2>6. pc[l] = "done" /\ call'[l] = call[l] /\ before'[l] = before[l]
    BY <2>5 DEF Onward, Verdicts
  <2>7. PICK i \in DOMAIN codes : /\ codes[i].by = call'[q].what
                                  /\ codes[i].phone = call'[q].who /\ ~codes[i].used
    BY <2>4 DEF ShowsCode
  <2>8. QED
    BY <2>6, <2>7 DEF CodesUsedUp
<1>3. QED
  BY <1>1, <1>2

-----------------------------------------------------------------------------
(* The hourly limit. *)

\* What a step makes of LastHour, for a phone that the step does not change.
NextHour(p) == {i \in DOMAIN codes' : codes'[i].phone = p /\ codes'[i].age # "old"}

\* The codes of an hour can be counted.
LEMMA LastHourIsFinite ==
    ASSUME CodesAreStored, NEW p
    PROVE  IsFiniteSet(LastHour(p)) /\ Cardinality(LastHour(p)) \in Nat
<1>1. LastHour(p) \in SUBSET (1 .. Len(codes)) /\ Len(codes) \in Nat
  BY CodesAreRows DEF LastHour
<1>2. IsFiniteSet(1 .. Len(codes))
  BY <1>1, FS_Interval
<1>3. QED
  BY <1>1, <1>2, PartCounted

\* The codes of the last hour: they stay, or the hour is over, or there is one more.
LEMMA LastHourChange ==
    ASSUME Served, LoginsWait, CodesAreStored, Elsewhere \/ \E r \in Requests : AuthStep(r)
    PROVE  \/ \A p : /\ NextHour(p) = LastHour(p)
                     /\ \A i \in LastHour(p) : codes'[i].by = codes[i].by
           \/ \A p : NextHour(p) = {}
           \/ \E r \in Requests : StoreOtp(r)
<1>1. CASE codes' = codes
  BY <1>1 DEF LastHour, NextHour
<1>2. CASE Elsewhere
  <2>1. CASE \A i \in DOMAIN codes : codes'[i].age = "old"
    BY <1>2, <2>1, CodesOnlyAge DEF LastHour, NextHour
  <2>2. CASE \A i \in DOMAIN codes : codes'[i].age = "old" <=> codes[i].age = "old"
    <3>1. /\ DOMAIN codes' = DOMAIN codes
          /\ \A i \in DOMAIN codes : codes'[i].phone = codes[i].phone /\ codes'[i].by = codes[i].by
      BY <1>2, CodesOnlyAge
    <3>2. QED
      BY <2>2, <3>1 DEF LastHour, NextHour
  <2>3. QED
    BY <1>2, <2>1, <2>2, CodesOnlyAge
<1>3. ASSUME NEW r \in Requests, MarkCode(r) \/ MarkOthers(r)
      PROVE  \A p : /\ NextHour(p) = LastHour(p)
                    /\ \A i \in LastHour(p) : codes'[i].by = codes[i].by
  <2>1. /\ DOMAIN codes' = DOMAIN codes
        /\ \A i \in DOMAIN codes : /\ codes'[i].phone = codes[i].phone
                                   /\ codes'[i].by = codes[i].by /\ codes'[i].age = codes[i].age
    BY <1>3, CodesOnlyMarked DEF SameCodes
  <2>2. QED
    BY <2>1 DEF LastHour, NextHour
<1>4. ASSUME NEW r \in Requests, AuthStep(r), codes' # codes
      PROVE  MarkCode(r) \/ MarkOthers(r) \/ StoreOtp(r)
  BY <1>4, AuthStepKinds, WritesAt
     DEF AsksForCode, ShowsCode, ComesIn, ShowsToken, LogsOut, GoesOn, authVars
<1>5. QED
  BY <1>1, <1>2, <1>3, <1>4

\* The one that is stored.
LEMMA LastHourGrows ==
    ASSUME LoginsWait, CodesAreStored, NEW r \in Requests, StoreOtp(r), NEW p
    PROVE  LET n == Len(codes) + 1 IN
           /\ NextHour(p) = LastHour(p) \cup (IF p = call[r].who THEN {n} ELSE {})
           /\ n \notin LastHour(p) /\ codes'[n].by = r
           /\ \A i \in LastHour(p) : codes'[i].by = codes[i].by
<1> DEFINE n == Len(codes) + 1
<1>1. /\ n \notin DOMAIN codes /\ DOMAIN codes' = DOMAIN codes \cup {n}
      /\ \A i \in DOMAIN codes : codes'[i] = codes[i]
      /\ codes'[n].phone = call[r].who /\ codes'[n].by = r /\ codes'[n].age = "fresh"
  BY CodeIsAdded
<1>2. QED
  BY <1>1 DEF LastHour, NextHour

\* Nobody who waits to store a code has been let in with too many of them.
LEMMA LetInBelowLimitOn ==
    ASSUME Served, LoginsWait, CodesAreStored, LetInBelowLimit, Onward,
           Elsewhere \/ \E r \in Requests : AuthStep(r)
    PROVE  LetInBelowLimit'
<1> SUFFICES ASSUME NEW q \in Requests, pc'[q] = "hashing"
             PROVE  /\ OtpMax > 0
                    /\ (\A i \in NextHour(call'[q].who) : codes'[i].by \in before'[q])
                          => Cardinality(NextHour(call'[q].who)) < OtpMax
  BY DEF LetInBelowLimit, LastHour, NextHour
<1>1. CASE pc[q] = "hashing"
  <2> DEFINE p == call[q].who
  <2>1. call'[q] = call[q] /\ before'[q] = before[q]
    BY <1>1 DEF Onward
  <2>2. OtpMax > 0
    BY <1>1 DEF LetInBelowLimit
  <2>3. CASE NextHour(p) = LastHour(p) /\ \A i \in LastHour(p) : codes'[i].by = codes[i].by
    BY <1>1, <2>1, <2>3 DEF LetInBelowLimit
  <2>4. CASE NextHour(p) = {}
    BY <2>1, <2>2, <2>4, FS_EmptySet
  <2>5. ASSUME NEW r \in Requests, StoreOtp(r)
        PROVE  (\A i \in NextHour(p) : codes'[i].by \in before[q])
                  => Cardinality(NextHour(p)) < OtpMax
    <3>1. pc[r] = "hashing" /\ r \notin before[q]
      BY <2>5, WritesAt DEF Served, Verdicts
    <3>2. p = call[r].who => ~ \A i \in NextHour(p) : codes'[i].by \in before[q]
      BY <2>5, <3>1, LastHourGrows
    <3>3. p # call[r].who => /\ NextHour(p) = LastHour(p)
                             /\ \A i \in LastHour(p) : codes'[i].by = codes[i].by
      BY <2>5, LastHourGrows
    <3>4. QED
      BY <1>1, <3>2, <3>3 DEF LetInBelowLimit
  <2>6. QED
    BY <2>1, <2>2, <2>3, <2>4, <2>5, LastHourChange
<1>2. CASE pc[q] # "hashing"
  <2>1. PICK r \in Requests : AuthStep(r)
    BY <1>2, ElsewhereTheyStay DEF AuthWaits, Stays
  <2>2. q = r
    BY <1>2, <2>1, AuthStepKinds DEF Moves, Stays
  <2>3. AsksForCode(q)
    BY <1>2, <2>1, <2>2, AuthStepKinds, WritesAt
       DEF ShowsCode, ComesIn, ShowsToken, LogsOut, GoesOn
  <2>4. /\ codes' = codes /\ Cardinality(LastHour(call'[q].who)) < OtpMax
        /\ NextHour(call'[q].who) = LastHour(call'[q].who)
    BY <2>3 DEF AsksForCode, authVars, LastHour, NextHour
  <2>5. QED
    BY <2>4, LastHourIsFinite, AuthAssumption
<1>3. QED
  BY <1>1, <1>2

\* One code too many is stored only while another request stores one.
LEMMA HourlyLimitOn ==
    ASSUME Served, LoginsWait, CodesAreStored, LetInBelowLimit, HourlyLimit, Onward,
           Elsewhere \/ \E r \in Requests : AuthStep(r)
    PROVE  HourlyLimit'
<1> SUFFICES ASSUME NEW p \in Phones, Cardinality(NextHour(p)) > OtpMax
             PROVE  \E i, j \in NextHour(p) : \E x, y \in Requests :
                        codes'[i].by = x /\ codes'[j].by = y /\ Overlap(x, y)'
  BY DEF HourlyLimit, LastHour, NextHour, Overlap, Begun
<1>0. \A i \in LastHour(p) : codes[i].by \in Requests /\ pc[codes[i].by] \notin {"idle", "hashing"}
  BY CodesAreRows DEF LastHour, CodesAreStored
<1>1. ASSUME Cardinality(LastHour(p)) > OtpMax, LastHour(p) \subseteq NextHour(p),
             \A i \in LastHour(p) : codes'[i].by = codes[i].by
      PROVE  \E i, j \in NextHour(p) : \E x, y \in Requests :
                 codes'[i].by = x /\ codes'[j].by = y /\ Overlap(x, y)'
  <2>1. PICK i \in LastHour(p), j \in LastHour(p) : Overlap(codes[i].by, codes[j].by)
    BY <1>1 DEF HourlyLimit
  <2>2. PICK x \in Requests, y \in Requests : x = codes[i].by /\ y = codes[j].by
    BY <1>0
  <2>3. Overlap(x, y)'
    BY <2>1, <2>2, OverlapStands
  <2>4. QED
    BY <1>1, <2>2, <2>3
<1>2. CASE NextHour(p) = LastHour(p) /\ \A i \in LastHour(p) : codes'[i].by = codes[i].by
  BY <1>1, <1>2
<1>3. CASE NextHour(p) = {}
  BY <1>3, FS_EmptySet, AuthAssumption
<1>4. ASSUME NEW r \in Requests, StoreOtp(r)
      PROVE  \E i, j \in NextHour(p) : \E x, y \in Requests :
                 codes'[i].by = x /\ codes'[j].by = y /\ Overlap(x, y)'
  <2> DEFINE n == Len(codes) + 1
  <2>1. /\ NextHour(p) = LastHour(p) \cup (IF p = call[r].who THEN {n} ELSE {})
        /\ n \notin LastHour(p) /\ codes'[n].by = r
        /\ \A i \in LastHour(p) : codes'[i].by = codes[i].by
    BY <1>4, LastHourGrows
  <2>2. CASE p # call[r].who
    BY <1>1, <2>1, <2>2
  <2>3. ASSUME p = call[r].who, NEW i \in LastHour(p), codes[i].by \notin before[r]
        PROVE  \E j \in NextHour(p) : \E x, y \in Requests :
                   codes'[i].by = x /\ codes'[j].by = y /\ Overlap(x, y)'
    <3>1. PICK x \in Requests : x = codes[i].by /\ pc[x] \notin {"idle", "hashing"}
      BY <1>0
    <3>2. pc[r] = "hashing"
      BY <1>4, WritesAt
    <3>3. Overlap(x, r)
      <4>1. r \notin before[x]
        BY <3>1, <3>2 DEF Served, Verdicts
      <4>2. x \notin before[r]
        BY <2>3, <3>1
      <4>3. QED
        BY <3>1, <3>2, <4>1, <4>2 DEF Overlap, Begun
    <3>4. Overlap(x, r)'
      BY <3>3, OverlapStands
    <3>5. QED
      BY <2>1, <2>3, <3>1, <3>4
  <2>4. CASE p = call[r].who /\ \A i \in LastHour(p) : codes[i].by \in before[r]
    <3>1. Cardinality(LastHour(p)) < OtpMax
      BY <1>4, <2>4, WritesAt DEF LetInBelowLimit
    <3>2. Cardinality(NextHour(p)) = Cardinality(LastHour(p)) + 1
      BY <2>1, <2>4, LastHourIsFinite, FS_AddElement
    <3>3. QED
      BY <3>1, <3>2, LastHourIsFinite, AuthAssumption
  <2>5. QED
    BY <2>1, <2>2, <2>3, <2>4
<1>5. QED
  BY <1>2, <1>3, <1>4, LastHourChange

-----------------------------------------------------------------------------
(* Sessions. *)

\* Sessions change where tokens are issued or exchanged, and at a logout.
LEMMA SessionsChange ==
    ASSUME Served, Elsewhere \/ \E r \in Requests : AuthStep(r)
    PROVE  \/ sessions' = sessions
           \/ \E r \in Requests : \/ IssueTokens(r) \/ ExchangeSession(r)
                                  \/ pc[r] = "idle" /\ LogsOut(r)
<1>1. CASE Elsewhere
  BY <1>1 DEF Elsewhere
<1>2. ASSUME NEW r \in Requests, AuthStep(r)
      PROVE  \/ sessions' = sessions \/ IssueTokens(r) \/ ExchangeSession(r)
             \/ pc[r] = "idle" /\ LogsOut(r)
  BY <1>2, AuthStepKinds, WritesAt
     DEF AsksForCode, ShowsCode, ComesIn, ShowsToken, GoesOn, authVars
<1>3. QED
  BY <1>1, <1>2

\* An open session has been there all the time, or its request issues its tokens now.
LEMMA SessionsComeFrom ==
    ASSUME Served, Elsewhere \/ \E r \in Requests : AuthStep(r), NEW s \in DOMAIN sessions'
    PROVE  s \in DOMAIN sessions \/ (s \in Requests /\ IssueTokens(s))
<1>1. ASSUME NEW r \in Requests, ExchangeSession(r)
      PROVE  s \in DOMAIN sessions
  BY <1>1, WritesAt
<1>2. ASSUME NEW r \in Requests, LogsOut(r)
      PROVE  s \in DOMAIN sessions
  BY <1>2 DEF LogsOut
<1>3. ASSUME NEW r \in Requests, IssueTokens(r)
      PROVE  s \in DOMAIN sessions \/ (s \in Requests /\ IssueTokens(s))
  <2>1. s \in DOMAIN sessions \/ s = r
    BY <1>3, WritesAt
  <2>2. QED
    BY <1>3, <2>1
<1>4. QED
  BY <1>1, <1>2, <1>3, SessionsChange

\* A request of a kind that only Auth begins has begun before, or begins in this step.
LEMMA AuthBegins ==
    ASSUME Served, LoginsWait, Onward, Elsewhere \/ \E r \in Requests : AuthStep(r),
           NEW q \in Requests, call'[q].op \in AuthOps
    PROVE  \/ pc[q] # "idle" /\ call'[q] = call[q] /\ before'[q] = before[q]
           \/ /\ pc[q] = "idle" /\ before'[q] = Ended /\ AuthStep(q)
              /\ \/ AsksForCode(q) \/ ShowsCode(q) \/ ComesIn(q)
                 \/ ShowsToken(q) \/ LogsOut(q)
<1>1. CASE pc[q] # "idle"
  BY <1>1 DEF Onward
<1>2. CASE pc[q] = "idle"
  <2>1. call[q].op \notin AuthOps
    BY <1>2 DEF Served, NoCall, AuthOps, Logins
  <2>2. PICK r \in Requests : AuthStep(r)
    BY <2>1, ElsewhereTheyStay
  <2>3. q = r
    BY <2>1, <2>2, AuthStepKinds DEF Moves, Stays
  <2>4. before'[q] = Ended
    BY <1>2, <2>2, <2>3, AuthStepKinds DEF Moves, Begins, Runs, AuthWaits
  <2>5. QED
    BY <1>2, <2>2, <2>3, <2>4, AuthStepKinds, WritesAt DEF GoesOn
<1>3. QED
  BY <1>1, <1>2

\* No session outlives a logout of its user that began after it was opened.
LEMMA SessionsAreOpenOn ==
    ASSUME Served, LoginsWait, SessionsAreOpen, Onward,
           Elsewhere \/ \E r \in Requests : AuthStep(r)
    PROVE  SessionsAreOpen'
<1>1. ASSUME NEW s \in DOMAIN sessions'
      PROVE  s \in Requests /\ pc'[s] = "done" /\ call'[s].op \in Logins \cup {"refresh"}
  <2>1. CASE s \in DOMAIN sessions
    BY <2>1 DEF SessionsAreOpen, Onward, Verdicts
  <2>2. CASE s \in Requests /\ IssueTokens(s)
    BY <2>2, WritesAt DEF LoginsWait
  <2>3. QED
    BY <1>1, <2>1, <2>2, SessionsComeFrom
<1>2. ASSUME NEW l \in Requests, call'[l].op = "logout",
             NEW s \in DOMAIN sessions', call'[s].who = call'[l].who
      PROVE  s \notin before'[l]
  <2>1. CASE pc[l] # "idle" /\ call'[l] = call[l] /\ before'[l] = before[l]
    <3>1. CASE s \in DOMAIN sessions
      <4>1. call'[s] = call[s]
        BY <3>1 DEF SessionsAreOpen, Onward
      <4>2. QED
        BY <1>2, <2>1, <3>1, <4>1 DEF SessionsAreOpen, SessionsOf
    <3>2. CASE s \in Requests /\ IssueTokens(s)
      <4>1. pc[s] = "issuing"
        BY <3>2, WritesAt
      <4>2. QED
        BY <2>1, <4>1 DEF Served, Verdicts
    <3>3. QED
      BY <1>2, <3>1, <3>2, SessionsComeFrom
  <2>2. CASE pc[l] = "idle" /\ LogsOut(l)
    <3>1. s \in DOMAIN sessions /\ s \notin SessionsOf(call'[l].who)
      BY <1>2, <2>2 DEF LogsOut
    <3>2. call'[s] = call[s]
      BY <3>1 DEF SessionsAreOpen, Onward
    <3>3. QED
      BY <1>2, <3>1, <3>2 DEF SessionsOf
  <2>3. QED
    BY <1>2, <2>1, <2>2, AuthBegins DEF AuthOps, AsksForCode, ShowsCode, ComesIn, ShowsToken, Logins
<1>3. QED
  BY <1>1, <1>2 DEF SessionsAreOpen, SessionsOf

\* The session behind a token that refreshes was opened after every logout that had ended.
LEMMA LogoutHoldsOn ==
    ASSUME Served, LoginsWait, SessionsAreOpen, LogoutHolds, Onward,
           Elsewhere \/ \E r \in Requests : AuthStep(r)
    PROVE  LogoutHolds'
<1> SUFFICES ASSUME NEW l \in Requests, NEW q \in Requests,
                    call'[l].op = "logout", call'[q].op = "refresh",
                    call'[l].who = call'[q].who, l \in before'[q]
             PROVE  \E s \in before'[q] \ before'[l] : /\ call'[s].op \in Logins \cup {"refresh"}
                                                       /\ call'[s].who = call'[l].who
  BY DEF LogoutHolds
<1>1. CASE pc[q] # "idle" /\ call'[q] = call[q] /\ before'[q] = before[q]
  <2>1. pc[l] \in Verdicts
    BY <1>1 DEF Served
  <2>2. call'[l] = call[l] /\ before'[l] = before[l]
    BY <2>1 DEF Onward, Verdicts
  <2>3. PICK s \in before[q] \ before[l] : /\ call[s].op \in Logins \cup {"refresh"}
                                           /\ call[s].who = call[l].who
    BY <1>1, <2>2 DEF LogoutHolds
  <2>4. s \in Requests /\ pc[s] \in Verdicts
    BY <2>3 DEF Served, WellFormed
  <2>5. call'[s] = call[s]
    BY <2>4 DEF Onward, Verdicts
  <2>6. QED
    BY <1>1, <2>2, <2>3, <2>5
<1>2. CASE before'[q] = Ended /\ ShowsToken(q)
  <2>1. pc[l] \in Verdicts
    BY <1>2 DEF Ended
  <2>2. call'[l] = call[l] /\ before'[l] = before[l]
    BY <2>1 DEF Onward, Verdicts
  <2>3. PICK s \in SessionsOf(call'[q].who) : TRUE
    BY <1>2 DEF ShowsToken
  <2>4. /\ s \in Requests /\ pc[s] = "done" /\ call[s].op \in Logins \cup {"refresh"}
        /\ call[s].who = call[l].who /\ s \notin before[l]
    BY <2>2, <2>3 DEF SessionsOf, SessionsAreOpen
  <2>5. s \in Ended /\ call'[s] = call[s]
    BY <2>4 DEF Ended, Onward, Verdicts
  <2>6. QED
    BY <1>2, <2>2, <2>4, <2>5
<1>3. QED
  BY <1>1, <1>2, AuthBegins DEF AuthOps, AsksForCode, ShowsCode, ComesIn, LogsOut, Logins

\* SessionsAddUp for one user, and what leaves it true.
AddUp(u) ==
    /\ Cardinality(SessionsOf(u)) + Cardinality(Holding(u)) <= Cardinality(LoggedIn(u))
    /\ ~HasLeft(u) =>
          Cardinality(SessionsOf(u)) + Cardinality(Replacing(u)) >= Cardinality(LoggedIn(u))

SameCounts(u) ==
    /\ SessionsOf(u)' = SessionsOf(u) /\ LoggedIn(u)' = LoggedIn(u)
    /\ Holding(u)' \subseteq Holding(u) /\ Replacing(u) \subseteq Replacing(u)'

\* All that is counted is among the requests.
LEMMA SetsAreCounted ==
    ASSUME SessionsAreOpen, NEW u
    PROVE  \A S \in {SessionsOf(u), LoggedIn(u), Holding(u), Replacing(u)} :
              IsFiniteSet(S) /\ Cardinality(S) \in Nat
<1>1. \A S \in SUBSET Requests : IsFiniteSet(S) /\ Cardinality(S) \in Nat
  BY RequestsAreFinite, PartCounted
<1>2. SessionsOf(u) \in SUBSET Requests
  BY DEF SessionsOf, SessionsAreOpen
<1>3. /\ LoggedIn(u) \in SUBSET Requests /\ Holding(u) \in SUBSET Requests
      /\ Replacing(u) \in SUBSET Requests
  BY DEF LoggedIn, Holding, Replacing
<1>4. QED
  BY <1>1, <1>2, <1>3

\* A logout stays on record.
LEMMA LeftForGood ==
    ASSUME Served, Onward, NEW u, HasLeft(u)
    PROVE  HasLeft(u)'
<1>1. PICK l \in Requests : call[l].op = "logout" /\ call[l].who = u
  BY DEF HasLeft
<1>2. call'[l] = call[l]
  BY <1>1 DEF Served, NoCall, Onward
<1>3. QED
  BY <1>1, <1>2 DEF HasLeft

\* Fewer who hold a place, more who replace a session: the counts still add up.
LEMMA SameCountsAddUp ==
    ASSUME Served, Onward, SessionsAreOpen, SessionsAreOpen', NEW u, AddUp(u), SameCounts(u)
    PROVE  AddUp(u)'
<1>1. /\ IsFiniteSet(Holding(u)) /\ Cardinality(Holding(u)) \in Nat
      /\ IsFiniteSet(Replacing(u)) /\ Cardinality(Replacing(u)) \in Nat
      /\ Cardinality(SessionsOf(u)) \in Nat /\ Cardinality(LoggedIn(u)) \in Nat
  BY SetsAreCounted
<1>2. IsFiniteSet(Replacing(u)') /\ Cardinality(Replacing(u)') \in Nat
  <2>1. Replacing(u)' \in SUBSET Requests
    BY DEF Replacing
  <2>2. QED
    BY <2>1, RequestsAreFinite, PartCounted
<1>3. /\ Cardinality(Holding(u)') \in Nat
      /\ Cardinality(Holding(u)') <= Cardinality(Holding(u))
  BY <1>1, PartCounted DEF SameCounts
<1>4. Cardinality(Replacing(u)) <= Cardinality(Replacing(u)')
  BY <1>2, PartCounted DEF SameCounts
<1>5. ~HasLeft(u)' => ~HasLeft(u)
  BY LeftForGood
<1>6. Cardinality(SessionsOf(u)') = Cardinality(SessionsOf(u))
      /\ Cardinality(LoggedIn(u)') = Cardinality(LoggedIn(u))
  BY DEF SameCounts
<1>7. QED
  BY <1>1, <1>2, <1>3, <1>4, <1>5, <1>6 DEF AddUp

\* A request other than the one that acts stays where it is counted.
LEMMA OthersAreCounted ==
    ASSUME NEW q \in Requests, Stays(q), NEW u
    PROVE  /\ q \in LoggedIn(u)' <=> q \in LoggedIn(u)
           /\ q \in Holding(u)' <=> q \in Holding(u)
           /\ q \in Replacing(u)' <=> q \in Replacing(u)
BY DEF Stays, LoggedIn, Holding, Replacing

\* The sessions of a user are those that are open, as they were or in this step.
LEMMA SessionsStayTheirs ==
    ASSUME Served, SessionsAreOpen, Onward, NEW u, sessions' = sessions
    PROVE  SessionsOf(u)' = SessionsOf(u)
<1>1. \A s \in DOMAIN sessions : call'[s] = call[s]
  BY DEF SessionsAreOpen, Onward
<1>2. QED
  BY <1>1 DEF SessionsOf

\* The steps that leave sessions alone.
LEMMA SameSessionsAddUp ==
    ASSUME Served, LoginsWait, SessionsAreOpen, Onward,
           Elsewhere \/ \E r \in Requests : AuthStep(r), sessions' = sessions,
           \A r \in Requests : ~IssueTokens(r), NEW u
    PROVE  SameCounts(u)
<1>1. SessionsOf(u)' = SessionsOf(u)
  BY SessionsStayTheirs
<1>2. ASSUME NEW q \in Requests
      PROVE  /\ q \in LoggedIn(u)' <=> q \in LoggedIn(u)
             /\ q \in Holding(u)' => q \in Holding(u)
             /\ q \in Replacing(u) => q \in Replacing(u)'
  <2>1. CASE Stays(q)
    BY <2>1, OthersAreCounted
  <2>2. CASE Elsewhere
    BY <2>2, ElsewhereTheyStay
       DEF LoggedIn, Holding, Replacing, LoginsWait, AuthOps, AuthWaits, Logins, Verdicts
  <2>3. ASSUME AuthStep(q)
        PROVE  /\ q \in LoggedIn(u)' <=> q \in LoggedIn(u)
               /\ q \in Holding(u)' => q \in Holding(u)
               /\ q \in Replacing(u) => q \in Replacing(u)'
    <3>1. CASE pc[q] = "idle"
      <4>1. call[q].op = "none"
        BY <3>1 DEF Served, NoCall
      <4>2. AsksForCode(q) \/ ShowsCode(q) \/ ComesIn(q) \/ ShowsToken(q) \/ LogsOut(q)
        BY <2>3, <3>1, AuthStepKinds, WritesAt DEF GoesOn
      <4>3. q \notin LoggedIn(u)' /\ q \notin Holding(u)'
        BY <4>2 DEF LoggedIn, Holding, AsksForCode, ShowsCode, ComesIn, ShowsToken, LogsOut, Logins
      <4>4. QED
        BY <4>1, <4>3 DEF LoggedIn, Replacing, Logins
    <3>2. CASE pc[q] # "idle"
      <4>1. call'[q] = call[q]
        BY <3>2 DEF Onward
      <4>2. GoesOn(q) \/ StoreOtp(q) \/ MarkCode(q) \/ MarkOthers(q) \/ ExchangeSession(q)
        BY <2>3, <3>2, AuthStepKinds
      <4>3. /\ pc[q] \notin {"issuing", "failed", "done"}
            /\ pc'[q] \in {"done", "issuing"} =>
                  call[q].op # "refresh" /\ (pc'[q] = "done" => call[q].op \notin Logins)
        <5>1. CASE ExchangeSession(q)
          BY <5>1, WritesAt DEF LoginsWait, Logins
        <5>2. CASE StoreOtp(q) \/ MarkCode(q) \/ MarkOthers(q)
          BY <5>2, WritesAt DEF LoginsWait, Logins
        <5>3. CASE GoesOn(q)
          BY <5>3 DEF GoesOn, LoginsWait, Logins
        <5>4. QED
          BY <4>2, <5>1, <5>2, <5>3
      <4>4. QED
        BY <4>1, <4>3 DEF LoggedIn, Holding, Replacing
    <3>3. QED
      BY <3>1, <3>2
  <2>4. QED
    BY <2>1, <2>2, <2>3, AuthStepKinds DEF Moves
<1>3. /\ LoggedIn(u)' \subseteq Requests /\ LoggedIn(u) \subseteq Requests
      /\ Holding(u)' \subseteq Requests /\ Replacing(u) \subseteq Requests
  BY DEF LoggedIn, Holding, Replacing
<1>4. QED
  BY <1>1, <1>2, <1>3 DEF SameCounts

\* Tokens are issued: a login adds a session, a refresh puts one in its place.
LEMMA IssueAddsUp ==
    ASSUME Served, LoginsWait, SessionsAreOpen, SessionsAreOpen', Onward,
           NEW r \in Requests, AuthStep(r), IssueTokens(r), NEW u, AddUp(u)
    PROVE  AddUp(u)'
<1>1. /\ pc[r] = "issuing" /\ pc'[r] = "done" /\ call'[r] = call[r]
      /\ DOMAIN sessions' = DOMAIN sessions \cup {r}
  BY WritesAt
<1>2. \A q \in Requests \ {r} : /\ q \in LoggedIn(u)' <=> q \in LoggedIn(u)
                                /\ q \in Holding(u)' <=> q \in Holding(u)
                                /\ q \in Replacing(u)' <=> q \in Replacing(u)
  BY AuthStepKinds, OthersAreCounted DEF Moves
<1>3. r \notin DOMAIN sessions
  BY <1>1 DEF SessionsAreOpen
<1>4. /\ LoggedIn(u)' \subseteq Requests /\ LoggedIn(u) \subseteq Requests
      /\ Holding(u)' \subseteq Requests /\ Holding(u) \subseteq Requests
      /\ Replacing(u)' \subseteq Requests /\ Replacing(u) \subseteq Requests
  BY DEF LoggedIn, Holding, Replacing
<1>5. SessionsOf(u)' = SessionsOf(u) \cup (IF call[r].who = u THEN {r} ELSE {})
  <2>1. \A s \in DOMAIN sessions : call'[s] = call[s]
    BY DEF SessionsAreOpen, Onward
  <2>2. QED
    BY <1>1, <2>1 DEF SessionsOf
<1>6. CASE call[r].who # u
  <2>1. r \notin LoggedIn(u) \cup LoggedIn(u)' \cup Holding(u)' \cup Replacing(u)
    BY <1>1, <1>6 DEF LoggedIn, Holding, Replacing
  <2>2. SameCounts(u)
    BY <1>2, <1>4, <1>5, <1>6, <2>1 DEF SameCounts
  <2>3. QED
    BY <2>2, SameCountsAddUp
<1>7. ASSUME call[r].who = u
      PROVE  Cardinality(SessionsOf(u)') = Cardinality(SessionsOf(u)) + 1
  <2>1. r \notin SessionsOf(u) /\ SessionsOf(u)' = SessionsOf(u) \cup {r}
    BY <1>3, <1>5, <1>7 DEF SessionsOf
  <2>2. QED
    BY <2>1, SetsAreCounted, FS_AddElement
<1>8. CASE call[r].who = u /\ call[r].op \in Logins
  <2>1. r \notin LoggedIn(u) /\ LoggedIn(u)' = LoggedIn(u) \cup {r}
    BY <1>1, <1>2, <1>4, <1>8 DEF LoggedIn
  <2>2. Holding(u)' = Holding(u) /\ Replacing(u)' = Replacing(u)
    BY <1>1, <1>2, <1>4, <1>8 DEF Holding, Replacing, Logins
  <2>3. Cardinality(LoggedIn(u)') = Cardinality(LoggedIn(u)) + 1
    BY <2>1, SetsAreCounted, FS_AddElement
  <2>4. ~HasLeft(u)' => ~HasLeft(u)
    BY LeftForGood
  <2>5. /\ Cardinality(SessionsOf(u)) \in Nat /\ Cardinality(LoggedIn(u)) \in Nat
        /\ Cardinality(Holding(u)) \in Nat /\ Cardinality(Replacing(u)) \in Nat
    BY SetsAreCounted
  <2>6. /\ Cardinality(Holding(u)') = Cardinality(Holding(u))
        /\ Cardinality(Replacing(u)') = Cardinality(Replacing(u))
    BY <2>2
  <2>7. QED
    BY <1>7, <1>8, <2>3, <2>4, <2>5, <2>6 DEF AddUp
<1>9. CASE call[r].who = u /\ call[r].op = "refresh"
  <2>1. /\ r \in Holding(u) /\ Holding(u)' = Holding(u) \ {r}
        /\ r \in Replacing(u) /\ Replacing(u)' = Replacing(u) \ {r}
    BY <1>1, <1>2, <1>4, <1>9 DEF Holding, Replacing
  <2>2. LoggedIn(u)' = LoggedIn(u)
    BY <1>1, <1>2, <1>4, <1>9 DEF LoggedIn, Logins
  <2>3. /\ Cardinality(SessionsOf(u)) \in Nat /\ Cardinality(LoggedIn(u)) \in Nat
        /\ Cardinality(Holding(u)) \in Nat /\ Cardinality(Replacing(u)) \in Nat
    BY SetsAreCounted
  <2>4. /\ Cardinality(Holding(u)') = Cardinality(Holding(u)) - 1
        /\ Cardinality(Replacing(u)') = Cardinality(Replacing(u)) - 1
        /\ Cardinality(LoggedIn(u)') = Cardinality(LoggedIn(u))
    BY <2>1, <2>2, SetsAreCounted, FS_RemoveElement
  <2>5. ~HasLeft(u)' => ~HasLeft(u)
    BY LeftForGood
  <2>6. QED
    BY <1>7, <1>9, <2>3, <2>4, <2>5 DEF AddUp
<1>10. QED
  BY <1>1, <1>6, <1>8, <1>9 DEF LoginsWait

\* A session is exchanged: the refresh holds its place.
LEMMA ExchangeAddsUp ==
    ASSUME Served, LoginsWait, SessionsAreOpen, SessionsAreOpen', Onward,
           NEW r \in Requests, AuthStep(r), ExchangeSession(r), sessions' # sessions,
           NEW u, AddUp(u)
    PROVE  AddUp(u)'
<1>1. /\ pc[r] = "exchanging" /\ pc'[r] = "issuing" /\ call'[r] = call[r]
      /\ saw[r] \in DOMAIN sessions /\ DOMAIN sessions' = DOMAIN sessions \ {saw[r]}
  BY WritesAt
<1>2. \A q \in Requests \ {r} : /\ q \in LoggedIn(u)' <=> q \in LoggedIn(u)
                                /\ q \in Holding(u)' <=> q \in Holding(u)
                                /\ q \in Replacing(u)' <=> q \in Replacing(u)
  BY AuthStepKinds, OthersAreCounted DEF Moves
<1>3. call[r].op = "refresh" /\ call[saw[r]].who = call[r].who
  BY <1>1 DEF LoginsWait
<1>4. /\ LoggedIn(u)' \subseteq Requests /\ LoggedIn(u) \subseteq Requests
      /\ Holding(u)' \subseteq Requests /\ Holding(u) \subseteq Requests
      /\ Replacing(u)' \subseteq Requests /\ Replacing(u) \subseteq Requests
  BY DEF LoggedIn, Holding, Replacing
<1>5. LoggedIn(u)' = LoggedIn(u)
  BY <1>1, <1>2, <1>4 DEF LoggedIn
<1>6. \A s \in DOMAIN sessions : call'[s] = call[s]
  BY DEF SessionsAreOpen, Onward
<1>7. CASE call[r].who # u
  <2>1. SessionsOf(u)' = SessionsOf(u)
    BY <1>1, <1>3, <1>6, <1>7 DEF SessionsOf
  <2>2. r \notin Holding(u)' \cup Replacing(u)
    BY <1>1, <1>7 DEF Holding, Replacing
  <2>3. SameCounts(u)
    BY <1>2, <1>4, <1>5, <2>1, <2>2 DEF SameCounts
  <2>4. QED
    BY <2>3, SameCountsAddUp
<1>8. CASE call[r].who = u
  <2>1. saw[r] \in SessionsOf(u) /\ SessionsOf(u)' = SessionsOf(u) \ {saw[r]}
    BY <1>1, <1>3, <1>6, <1>8 DEF SessionsOf
  <2>2. /\ r \notin Holding(u) /\ Holding(u)' = Holding(u) \cup {r}
        /\ r \notin Replacing(u) /\ Replacing(u)' = Replacing(u) \cup {r}
    BY <1>1, <1>2, <1>3, <1>4, <1>8 DEF Holding, Replacing
  <2>3. /\ Cardinality(SessionsOf(u)) \in Nat /\ Cardinality(LoggedIn(u)) \in Nat
        /\ Cardinality(Holding(u)) \in Nat /\ Cardinality(Replacing(u)) \in Nat
    BY SetsAreCounted
  <2>4. Cardinality(SessionsOf(u)') = Cardinality(SessionsOf(u)) - 1
    BY <2>1, SetsAreCounted, FS_RemoveElement
  <2>5. /\ Cardinality(Holding(u)') = Cardinality(Holding(u)) + 1
        /\ Cardinality(Replacing(u)') = Cardinality(Replacing(u)) + 1
    BY <2>2, SetsAreCounted, FS_AddElement
  <2>6. Cardinality(LoggedIn(u)') = Cardinality(LoggedIn(u))
    BY <1>5
  <2>7. ~HasLeft(u)' => ~HasLeft(u)
    BY LeftForGood
  <2>8. QED
    BY <2>3, <2>4, <2>5, <2>6, <2>7 DEF AddUp
<1>9. QED
  BY <1>7, <1>8

\* A logout leaves its user no session.
LEMMA LogoutAddsUp ==
    ASSUME Served, LoginsWait, SessionsAreOpen, SessionsAreOpen', Onward,
           NEW r \in Requests, AuthStep(r), pc[r] = "idle", LogsOut(r), NEW u, AddUp(u)
    PROVE  AddUp(u)'
<1>1. /\ call'[r].op = "logout" /\ pc'[r] = "done"
      /\ DOMAIN sessions' = DOMAIN sessions \ SessionsOf(call'[r].who)
  BY DEF LogsOut
<1>2. \A q \in Requests \ {r} : /\ q \in LoggedIn(u)' <=> q \in LoggedIn(u)
                                /\ q \in Holding(u)' <=> q \in Holding(u)
                                /\ q \in Replacing(u)' <=> q \in Replacing(u)
  BY AuthStepKinds, OthersAreCounted DEF Moves
<1>3. call[r].op = "none"
  BY DEF Served, NoCall
<1>4. /\ r \notin LoggedIn(u) \cup Holding(u) \cup Replacing(u)
      /\ r \notin LoggedIn(u)' \cup Holding(u)' \cup Replacing(u)'
  BY <1>1, <1>3 DEF LoggedIn, Holding, Replacing, Logins
<1>5. /\ LoggedIn(u)' = LoggedIn(u) /\ Holding(u)' = Holding(u) /\ Replacing(u)' = Replacing(u)
  <2>1. /\ LoggedIn(u)' \subseteq Requests /\ LoggedIn(u) \subseteq Requests
        /\ Holding(u)' \subseteq Requests /\ Holding(u) \subseteq Requests
        /\ Replacing(u)' \subseteq Requests /\ Replacing(u) \subseteq Requests
    BY DEF LoggedIn, Holding, Replacing
  <2>2. QED
    BY <1>2, <1>4, <2>1
<1>6. \A s \in DOMAIN sessions : call'[s] = call[s]
  BY DEF SessionsAreOpen, Onward
<1>7. CASE call'[r].who # u
  <2>1. SessionsOf(u)' = SessionsOf(u)
    BY <1>1, <1>6, <1>7 DEF SessionsOf
  <2>2. QED
    BY <1>5, <2>1, SameCountsAddUp DEF SameCounts
<1>8. CASE call'[r].who = u
  <2>1. SessionsOf(u)' = {}
    BY <1>1, <1>6, <1>8 DEF SessionsOf
  <2>2. HasLeft(u)'
    BY <1>1, <1>8 DEF HasLeft
  <2>3. Cardinality(SessionsOf(u)') = 0
    BY <2>1, FS_EmptySet
  <2>4. /\ Cardinality(SessionsOf(u)) \in Nat /\ Cardinality(LoggedIn(u)) \in Nat
        /\ Cardinality(Holding(u)) \in Nat
    BY SetsAreCounted
  <2>5. /\ Cardinality(LoggedIn(u)') = Cardinality(LoggedIn(u))
        /\ Cardinality(Holding(u)') = Cardinality(Holding(u))
    BY <1>5
  <2>6. QED
    BY <2>2, <2>3, <2>4, <2>5 DEF AddUp
<1>9. QED
  BY <1>7, <1>8

\* So for every step.
LEMMA SessionsAddUpOn ==
    ASSUME Served, LoginsWait, SessionsAreOpen, SessionsAreOpen', SessionsAddUp, Onward,
           Elsewhere \/ \E r \in Requests : AuthStep(r)
    PROVE  SessionsAddUp'
<1> SUFFICES ASSUME NEW u \in Phones \cup Emails PROVE AddUp(u)'
  BY DEF SessionsAddUp, AddUp
<1>1. AddUp(u)
  BY DEF SessionsAddUp, AddUp
<1>2. ASSUME NEW r \in Requests, IssueTokens(r) \/ ExchangeSession(r) \/ (pc[r] = "idle" /\ LogsOut(r)),
             sessions' # sessions \/ IssueTokens(r)
      PROVE  AddUp(u)'
  <2>1. pc'[r] # pc[r] /\ (pc[r] # "idle" => pc[r] \in {"issuing", "exchanging"})
    BY <1>2, WritesAt DEF LogsOut
  <2>2. AuthStep(r)
    <3>1. CASE Elsewhere
      <4>1. sessions' = sessions
        BY <3>1 DEF Elsewhere
      <4>2. pc[r] = "issuing" /\ pc'[r] = "done"
        BY <1>2, <4>1, WritesAt
      <4>3. call[r].op \in AuthOps
        BY <4>2 DEF LoginsWait, AuthOps, Logins
      <4>4. QED
        BY <3>1, <4>2, <4>3, ElsewhereTheyStay
    <3>2. ASSUME NEW q \in Requests, AuthStep(q)
          PROVE  AuthStep(r)
      BY <2>1, <3>2, AuthStepKinds DEF Moves, Stays
    <3>3. QED
      BY <3>1, <3>2
  <2>3. QED
    BY <1>1, <1>2, <2>2, IssueAddsUp, ExchangeAddsUp, LogoutAddsUp
<1>3. CASE sessions' = sessions /\ \A r \in Requests : ~IssueTokens(r)
  BY <1>1, <1>3, SameSessionsAddUp, SameCountsAddUp
<1>4. QED
  BY <1>2, <1>3, SessionsChange

\* The invariant of codes and sessions holds in every state of the application.
THEOREM AuthInvariant == Spec => []AuthInv
<1>1. Init => AuthInv
  <2> SUFFICES ASSUME Init PROVE AuthInv
    OBVIOUS
  <2>1. /\ \A r \in Requests : pc[r] = "idle" /\ call[r].op = "none"
        /\ codes = <<>> /\ sessions = <<>>
    BY DEF Init, ServerInit, NoCall, AuthInit
  <2>2. LoginsWait
    BY <2>1 DEF LoginsWait, Logins
  <2>3. CodesAreStored
    BY <2>1 DEF CodesAreStored
  <2>4. CodesUsedUp /\ CodeOpensOnce /\ LetInBelowLimit /\ LogoutHolds
    BY <2>1 DEF CodesUsedUp, CodeOpensOnce, LetInBelowLimit, LogoutHolds
  <2>5. HourlyLimit
    <3>1. \A p : LastHour(p) = {}
      BY <2>1 DEF LastHour
    <3>2. QED
      BY <3>1, FS_EmptySet, AuthAssumption DEF HourlyLimit
  <2>6. SessionsAreOpen
    BY <2>1 DEF SessionsAreOpen, SessionsOf
  <2>7. SessionsAddUp
    <3>1. \A u : /\ SessionsOf(u) = {} /\ LoggedIn(u) = {}
                 /\ Holding(u) = {} /\ Replacing(u) = {}
      BY <2>1 DEF SessionsOf, LoggedIn, Holding, Replacing
    <3>2. QED
      BY <3>1, FS_EmptySet DEF SessionsAddUp
  <2>8. QED
    BY <2>2, <2>3, <2>4, <2>5, <2>6, <2>7 DEF AuthInv
<1>2. Served /\ AuthInv /\ [Next]_appVars => AuthInv'
  <2> SUFFICES ASSUME Served, AuthInv, [Next]_appVars PROVE AuthInv'
    OBVIOUS
  <2>1. Elsewhere \/ \E r \in Requests : AuthStep(r)
    BY AuthFrame
  <2>2. Onward
    <3>1. CASE Elsewhere
      BY <3>1, ForeignGoesOnward DEF Elsewhere
    <3>2. ASSUME NEW r \in Requests, AuthStep(r)
          PROVE  Onward
      BY <3>2, AuthMoves, MovesGoOnward DEF AuthWaits, Verdicts
    <3>3. QED
      BY <2>1, <3>1, <3>2
  <2>3. LoginsWait'
    BY <2>1, <2>2, LoginsWaitOn DEF AuthInv
  <2>4. CodesAreStored' /\ CodesUsedUp' /\ CodeOpensOnce'
    BY <2>1, <2>2, CodesAreStoredOn, CodesUsedUpOn, CodeOpensOnceOn DEF AuthInv
  <2>5. LetInBelowLimit' /\ HourlyLimit'
    BY <2>1, <2>2, LetInBelowLimitOn, HourlyLimitOn DEF AuthInv
  <2>6. SessionsAreOpen' /\ LogoutHolds'
    BY <2>1, <2>2, SessionsAreOpenOn, LogoutHoldsOn DEF AuthInv
  <2>7. SessionsAddUp'
    BY <2>1, <2>2, <2>6, SessionsAddUpOn DEF AuthInv
  <2>8. QED
    BY <2>3, <2>4, <2>5, <2>6, <2>7 DEF AuthInv
<1>3. QED
  BY <1>1, <1>2, ServedAlways, PTL DEF Spec

\* No code that a login used up, by its own number or by its phone, opens
\* another session to a request that comes later.
THEOREM CodesOpenOnce == Spec => []CodeOpensOnce
<1>1. AuthInv => CodeOpensOnce
  BY DEF AuthInv
<1>2. QED
  BY <1>1, AuthInvariant, PTL

\* Only requests in flight together exceed the hourly limit of a phone.
THEOREM LimitOfCodes == Spec => []HourlyLimit
<1>1. AuthInv => HourlyLimit
  BY DEF AuthInv
<1>2. QED
  BY <1>1, AuthInvariant, PTL

\* After a logout nobody refreshes who did not log in, or was in flight, since.
THEOREM LogoutIsKept == Spec => []LogoutHolds
<1>1. AuthInv => LogoutHolds
  BY DEF AuthInv
<1>2. QED
  BY <1>1, AuthInvariant, PTL

\* Refreshing makes no sessions, and loses none but to a logout or a failure.
THEOREM RefreshKeepsCount == Spec => []RefreshConserves
<1>1. AuthInv => RefreshConserves
  <2> SUFFICES ASSUME AuthInv, NEW u \in Phones \cup Emails
               PROVE  /\ Cardinality(SessionsOf(u)) <= Cardinality(LoggedIn(u))
                      /\ HasLeft(u) \/ Cardinality(SessionsOf(u)) + Cardinality(Replacing(u))
                                          >= Cardinality(LoggedIn(u))
    BY DEF RefreshConserves
  <2>1. /\ Cardinality(SessionsOf(u)) \in Nat /\ Cardinality(Holding(u)) \in Nat
        /\ Cardinality(LoggedIn(u)) \in Nat
    BY SetsAreCounted DEF AuthInv
  <2>2. AddUp(u)
    BY DEF AuthInv, SessionsAddUp, AddUp
  <2>3. QED
    BY <2>1, <2>2 DEF AddUp
<1>2. QED
  BY <1>1, AuthInvariant, PTL

-----------------------------------------------------------------------------
(* The rows of users, codes and sessions. *)

\* Who writes a row of users: an administrator, or a login.
EditsUser(r, u) ==
    AdminSoftDelete(r, u) \/ \E active, admin \in BOOLEAN : AdminUpdate(r, u, active, admin)

WritesUser(r) ==
    \/ pc[r] = "idle" /\ \E u \in Seeded : EditsUser(r, u)
    \/ VerifyUser(r) \/ LinkGoogle(r) \/ CreateUser(r)

\* Nobody else does.
LEMMA UsersAreWritten ==
    ASSUME [Next]_appVars
    PROVE  users' = users \/ \E r \in Requests : WritesUser(r)
<1>1. ASSUME NEW r \in Requests, UsersStep(r), ~WritesUser(r)
      PROVE  users' = users
  BY <1>1
     DEF UsersStep, UsersRequest, IsNext, WritesUser, EditsUser, UpdateMe, UploadAvatar,
         DeleteAvatar, PutObject, StoreAvatar, ClearAvatar, userVars
<1>2. ASSUME NEW r \in Requests, AuthStep(r), ~WritesUser(r)
      PROVE  users' = users
  <2>1. CASE AuthRequest(r) \/ AdminAuthRequest(r)
    BY <2>1 DEF AuthRequest, AdminAuthRequest, PhoneRequestOtp, PhoneVerifyOtp, EmailRegister,
                EmailLogin, GoogleAuth, Logout, Refresh, AdminLogin, AdminGoogleAuth, userVars
  <2>2. CASE IdentityStep(r)
    BY <1>2, <2>2 DEF IdentityStep, FindByPhone, WritesUser, userVars
  <2>3. QED
    BY <1>2, <2>1, <2>2 DEF AuthStep, userVars
<1>3. ASSUME NEW r \in Requests, Handle(r), ~UsersStep(r), ~AuthStep(r)
      PROVE  users' = users
  BY <1>3 DEF Handle, PushStep, AiStep, LessonsStep, userVars
<1>4. CASE NoTableChanges \/ Crash \/ Pass \/ UNCHANGED appVars
  BY <1>4 DEF NoTableChanges, Crash, Pass, RemoveObject, CodesAge, IdleHour, Lapse, appVars, userVars
<1>5. QED
  BY <1>1, <1>2, <1>3, <1>4 DEF Next, InFlight, Begun

\* A step writes one row, so that users stay and can be counted.
LEMMA OneUserIsPut ==
    ASSUME [Next]_appVars
    PROVE  users' = users \/ \E u, row : PutUser(u, row)
<1>1. ASSUME NEW r \in Requests, WritesUser(r)
      PROVE  users' = users \/ \E u, row : PutUser(u, row)
  BY <1>1
     DEF WritesUser, EditsUser, AdminUpdate, AdminSoftDelete, VerifyUser, LinkGoogle, CreateUser
<1>2. QED
  BY <1>1, UsersAreWritten

LEMMA UsersOnlyGrow ==
    ASSUME [Next]_appVars
    PROVE  DOMAIN users \subseteq DOMAIN users'
BY OneUserIsPut DEF PutUser

LEMMA UsersAreCounted ==
    ASSUME [Next]_appVars, IsFiniteSet(DOMAIN users)
    PROVE  IsFiniteSet(DOMAIN users')
<1>1. DOMAIN users' = DOMAIN users \/ \E u : DOMAIN users' = DOMAIN users \cup {u}
  BY OneUserIsPut DEF PutUser
<1>2. QED
  BY <1>1, FS_AddElement

\* What is written is a row of a user who has a phone or an address.
LEMMA UsersAreRows ==
    ASSUME UsersTypeOK, \A r \in Requests : LoginFits(r), [Next]_appVars
    PROVE  DOMAIN users' \subseteq Phones \cup Emails /\ users' \in [DOMAIN users' -> Profile]
<1> DEFINE Typed == DOMAIN users' \subseteq Phones \cup Emails /\ users' \in [DOMAIN users' -> Profile]
<1>0. /\ DOMAIN users \subseteq Phones \cup Emails
      /\ users \in [DOMAIN users -> Profile]
  BY DEF UsersTypeOK
<1>1. ASSUME NEW u \in Phones \cup Emails, NEW row \in Profile, PutUser(u, row)
      PROVE  Typed
  BY <1>0, <1>1 DEF PutUser
<1>2. ASSUME NEW r \in Requests, NEW u \in Seeded, EditsUser(r, u)
      PROVE  Typed
  <2>1. users[u] \in Profile /\ u \in Phones \cup Emails
    BY <1>0, <1>2 DEF EditsUser, AdminUpdate, AdminSoftDelete, Exists
  <2>2. \A active, admin \in BOOLEAN :
            /\ [users[u] EXCEPT !.active = active] \in Profile
            /\ [users[u] EXCEPT !.active = active, !.admin = admin] \in Profile
    BY <2>1 DEF Profile
  <2>3. \/ PutUser(u, [users[u] EXCEPT !.active = FALSE])
        \/ \E active, admin \in BOOLEAN :
              PutUser(u, [users[u] EXCEPT !.active = active, !.admin = admin])
    BY <1>2 DEF EditsUser, AdminUpdate, AdminSoftDelete
  <2>4. QED
    BY <1>1, <2>1, <2>2, <2>3
<1>3. ASSUME NEW r \in Requests, VerifyUser(r) \/ LinkGoogle(r)
      PROVE  Typed
  <2> DEFINE u == call[r].who
  <2>1. users[u] \in Profile /\ u \in Phones \cup Emails
    BY <1>0, <1>3 DEF VerifyUser, LinkGoogle, LoginFits, Exists
  <2>2. /\ [users[u] EXCEPT !.verified = TRUE] \in Profile
        /\ [users[u] EXCEPT !.google = TRUE] \in Profile
    BY <2>1 DEF Profile
  <2>3. \/ PutUser(u, [users[u] EXCEPT !.verified = TRUE])
        \/ PutUser(u, [users[u] EXCEPT !.google = TRUE])
    BY <1>3 DEF VerifyUser, LinkGoogle
  <2>4. QED
    BY <1>1, <2>1, <2>2, <2>3
<1>4. ASSUME NEW r \in Requests, CreateUser(r)
      PROVE  Typed
  <2> DEFINE u   == call[r].who
             row == IF call[r].op = "phoneVerifyOtp" THEN Account(FALSE, FALSE) ELSE call[r].what
  <2>1. u \in Phones \cup Emails /\ row \in Profile
    BY <1>4 DEF CreateUser, LoginFits, Account, Profile
  <2>2. users' = users \/ PutUser(u, row)
    BY <1>4 DEF CreateUser
  <2>3. QED
    BY <1>0, <1>1, <2>1, <2>2
<1>5. QED
  BY <1>0, <1>2, <1>3, <1>4, UsersAreWritten DEF WritesUser

\* What is in the bucket was uploaded by a request.
LEMMA ObjectsAreUploads ==
    ASSUME Served, [Next]_appVars, objects \subseteq Requests
    PROVE  objects' \subseteq Requests
<1>1. ASSUME NEW r \in Requests, UsersStep(r)
      PROVE  objects' \subseteq Requests
  BY <1>1
     DEF UsersStep, UsersRequest, AdminUpdate, AdminSoftDelete, UpdateMe, UploadAvatar,
         DeleteAvatar, PutObject, StoreAvatar, ClearAvatar, userVars
<1>2. QED
  BY <1>1, UsersFrame DEF RemoveObject

\* A code that is stored keeps the name of its request.
LEMMA CodesStay ==
    ASSUME Served, LoginsWait, CodesAreStored, Elsewhere \/ \E r \in Requests : AuthStep(r)
    PROVE  \A i \in DOMAIN codes : i \in DOMAIN codes' /\ codes'[i].by = codes[i].by
BY CodesChange, CodeIsAdded DEF SameCodes

\* Only a code that is stored can reach a phone.
LEMMA DeliveredAreStored ==
    ASSUME Served, LoginsWait, CodesAreStored, \A r \in Requests : LoginFits(r),
           delivered \subseteq {codes[i].by : i \in DOMAIN codes},
           Elsewhere \/ \E r \in Requests : AuthStep(r)
    PROVE  delivered' \subseteq {codes'[i].by : i \in DOMAIN codes'}
<1>1. ASSUME NEW r \in Requests, AuthStep(r), ~SendSms(r)
      PROVE  delivered' = delivered
  <2>1. CASE AuthRequest(r) \/ AdminAuthRequest(r)
    BY <2>1 DEF AuthRequest, AdminAuthRequest, PhoneRequestOtp, PhoneVerifyOtp, EmailRegister,
                EmailLogin, GoogleAuth, Logout, Refresh, AdminLogin, AdminGoogleAuth, authVars
  <2>2. CASE IdentityStep(r)
    BY <2>2 DEF IdentityStep, FindByPhone, VerifyUser, LinkGoogle, CreateUser, authVars
  <2>3. CASE RowsStep(r)
    BY <1>1, <2>3 DEF RowsStep, StoreOtp, MarkCode, MarkOthers, IssueTokens, ExchangeSession
  <2>4. QED
    BY <1>1, <2>1, <2>2, <2>3 DEF AuthStep
<1>2. CASE delivered' = delivered
  BY <1>2, CodesStay
<1>3. ASSUME NEW r \in Requests, SendSms(r)
      PROVE  delivered' \subseteq {codes'[i].by : i \in DOMAIN codes'}
  <2>1. codes' = codes /\ delivered' \subseteq delivered \cup {r}
    BY <1>3 DEF SendSms
  <2>2. \E i \in DOMAIN codes : codes[i].by = r
    BY <1>3 DEF SendSms, LoginFits
  <2>3. QED
    BY <2>1, <2>2
<1>4. QED
  BY <1>1, <1>2, <1>3 DEF Elsewhere

\* What is known of the sessions, and of their places.
SessionsFit ==
    /\ DOMAIN sessions \subseteq Requests
    /\ sessions \in [DOMAIN sessions -> Nat \ {0}] /\ IsInjective(sessions)
    /\ SessionsPlaced

\* Sessions that stay keep their places.
LEMMA SessionsKept ==
    ASSUME SessionsFit, Onward, NEW kept \in SUBSET DOMAIN sessions, Keep(kept)
    PROVE  SessionsFit'
<1>1. DOMAIN sessions' = kept /\ \A s \in kept : sessions'[s] = sessions[s]
  BY DEF Keep
<1>2. sessions' = [s \in DOMAIN sessions' |-> sessions'[s]]
  BY DEF Keep
<1>3. /\ Cardinality(Ended) \in Nat /\ Cardinality(Ended') \in Nat
      /\ Cardinality(Ended) <= Cardinality(Ended')
  BY EndedGrows
<1>4. \A s \in DOMAIN sessions' : sessions'[s] \in Nat \ {0}
  BY <1>1 DEF SessionsFit
<1>5. SessionsPlaced'
  <2> SUFFICES ASSUME NEW s \in DOMAIN sessions' PROVE sessions'[s] <= Cardinality(Ended')
    BY DEF SessionsPlaced
  <2>1. sessions'[s] = sessions[s] /\ sessions[s] <= Cardinality(Ended) /\ sessions[s] \in Nat
    BY <1>1 DEF SessionsFit, SessionsPlaced
  <2>2. QED
    BY <1>3, <2>1
<1>6. IsInjective(sessions')
  BY <1>1 DEF SessionsFit, IsInjective
<1>7. QED
  BY <1>1, <1>2, <1>4, <1>5, <1>6 DEF SessionsFit

\* A new one is placed after all others.
LEMMA SessionIsPlaced ==
    ASSUME Served, SessionsFit, Onward, NEW r \in Requests, IssueTokens(r), r \notin DOMAIN sessions
    PROVE  SessionsFit'
<1> DEFINE n == Cardinality(Ended)
           S == {0} \cup Range(sessions)
<1>1. /\ DOMAIN sessions' = DOMAIN sessions \cup {r} /\ sessions'[r] = 1 + Max(S)
      /\ \A s \in DOMAIN sessions : sessions'[s] = sessions[s]
      /\ sessions' = [s \in DOMAIN sessions' |-> sessions'[s]]
  BY DEF IssueTokens
<1>2. pc[r] = "issuing" /\ pc'[r] = "done"
  BY AwaitAt DEF IssueTokens, Leave
<1>3. n \in Nat /\ Cardinality(Ended') \in Nat /\ n + 1 <= Cardinality(Ended')
  BY <1>2, EndedGrows DEF Verdicts
<1>4. \A s \in DOMAIN sessions : sessions[s] \in Nat \ {0} /\ sessions[s] <= n /\ sessions[s] \in S
  BY DEF SessionsFit, SessionsPlaced, Range
<1>5. S \in SUBSET (0 .. n) /\ S # {}
  BY <1>3, <1>4 DEF Range
<1>6. Max(S) \in 0 .. n /\ \A y \in S : Max(S) >= y
  <2> HIDE DEF S, n
  <2> QED
    BY <1>3, <1>5, LargestOf
<1> HIDE DEF S, n
<1>7. \A s \in DOMAIN sessions : sessions[s] # 1 + Max(S)
  BY <1>3, <1>4, <1>6
<1>8. \A s \in DOMAIN sessions' : sessions'[s] \in Nat \ {0} /\ sessions'[s] <= Cardinality(Ended')
  BY <1>1, <1>3, <1>4, <1>6
<1>9. IsInjective(sessions')
  BY <1>1, <1>7 DEF SessionsFit, IsInjective
<1>10. QED
  BY <1>1, <1>8, <1>9 DEF SessionsFit, SessionsPlaced

\* And so they are always.
LEMMA SessionsFitOn ==
    ASSUME Served, SessionsAreOpen, SessionsFit, Onward,
           Elsewhere \/ \E r \in Requests : AuthStep(r)
    PROVE  SessionsFit'
<1>1. CASE sessions' = sessions
  <2>1. sessions' = [s \in DOMAIN sessions |-> sessions[s]]
    BY <1>1 DEF SessionsFit
  <2>2. QED
    BY <2>1, SessionsKept DEF Keep
<1>2. ASSUME NEW r \in Requests, IssueTokens(r)
      PROVE  SessionsFit'
  <2>1. r \notin DOMAIN sessions
    BY <1>2 DEF IssueTokens, SessionsAreOpen
  <2>2. QED
    BY <1>2, <2>1, SessionIsPlaced
<1>3. ASSUME NEW r \in Requests, ExchangeSession(r)
      PROVE  SessionsFit'
  BY <1>1, <1>3, SessionsKept DEF ExchangeSession
<1>4. ASSUME NEW r \in Requests, AuthStep(r), pc[r] = "idle", sessions' # sessions
      PROVE  SessionsFit'
  <2>1. PICK u : Logout(r, u)
    <3>1. CASE AuthRequest(r) \/ AdminAuthRequest(r)
      BY <1>4, <3>1
         DEF AuthRequest, AdminAuthRequest, PhoneRequestOtp, PhoneVerifyOtp, EmailRegister,
             EmailLogin, GoogleAuth, Refresh, AdminLogin, AdminGoogleAuth, authVars
    <3>2. QED
      BY <1>4, <3>1
         DEF AuthStep, IdentityStep, FindByPhone, VerifyUser, LinkGoogle, CreateUser, RowsStep,
             StoreOtp, SendSms, MarkCode, MarkOthers, IssueTokens, ExchangeSession
  <2>2. QED
    BY <2>1, SessionsKept DEF Logout
<1>5. QED
  <2>1. ASSUME NEW r \in Requests, AuthStep(r), pc[r] # "idle"
        PROVE  sessions' = sessions \/ IssueTokens(r) \/ ExchangeSession(r)
    BY <2>1, AuthStepKinds, WritesAt DEF GoesOn
  <2>2. QED
    BY <1>1, <1>2, <1>3, <1>4, <2>1 DEF Elsewhere

\* A request of Auth arrives where it finds its user, or brings the row of a new one.
LEMMA LoginsFitAtFirst ==
    ASSUME Served, NEW r \in Requests, IsNext(r), AuthRequest(r) \/ AdminAuthRequest(r)
    PROVE  LoginFits(r)'
<1>1. CASE AuthRequest(r)
  <2>1. ASSUME NEW p \in Phones, PhoneRequestOtp(r, p) \/ \E c \in Requests : PhoneVerifyOtp(r, p, c)
        PROVE  LoginFits(r)'
    BY <2>1
       DEF PhoneRequestOtp, PhoneVerifyOtp, LoginFits, Arrive, Served, WellFormed, Verdicts
  <2>2. ASSUME NEW u \in Emails, EmailRegister(r, u) \/ EmailLogin(r, u)
        PROVE  LoginFits(r)'
    <3> DEFINE row == Account(FALSE, TRUE)
    <3>1. row \in Profile
      BY DEF Account, Profile
    <3> HIDE DEF row
    <3>2. \/ pc'[r] = "issuing"
          \/ pc'[r] = "creating" /\ call'[r] = [op |-> "emailRegister", who |-> u, what |-> row]
      BY <2>2 DEF EmailRegister, EmailLogin, Arrive, Served, WellFormed, Verdicts, row
    <3>3. QED
      BY <3>1, <3>2 DEF LoginFits, Profile
  <2>3. ASSUME NEW u \in Emails, GoogleAuth(r, u)
        PROVE  LoginFits(r)'
    <3>1. /\ pc'[r] \in {"creating", "issuing", "linking"}
          /\ pc'[r] = "linking" => Exists(u)
          /\ call'[r] = [op |-> "googleAuth", who |-> u, what |-> Account(TRUE, FALSE)]
          /\ users' = users
      BY <2>3 DEF GoogleAuth, userVars, Arrive, Served, WellFormed, Verdicts
    <3>2. QED
      BY <3>1 DEF Account, Profile, LoginFits, Exists
  <2>4. ASSUME NEW u, Logout(r, u) \/ \E t \in Requests : Refresh(r, u, t)
        PROVE  LoginFits(r)'
    BY <2>4 DEF Logout, Refresh, LoginFits, Arrive, Served, WellFormed, Verdicts
  <2>5. QED
    BY <1>1, <2>1, <2>2, <2>3, <2>4 DEF AuthRequest
<1>2. CASE AdminAuthRequest(r)
  <2>1. ASSUME NEW u, AdminLogin(r, u) \/ AdminGoogleAuth(r, u)
        PROVE  LoginFits(r)'
    <3>1. /\ pc'[r] \in {"issuing", "linking"} /\ call'[r].who = u /\ Exists(u) /\ users' = users
      BY <2>1 DEF AdminLogin, AdminGoogleAuth, userVars, Arrive, Served, WellFormed, Verdicts
    <3>2. QED
      BY <3>1 DEF LoginFits, Exists
  <2>2. QED
    BY <1>2, <2>1 DEF AdminAuthRequest
<1>3. QED
  BY <1>1, <1>2

\* It goes on from there with what it has found.
LEMMA LoginsFitThen ==
    ASSUME Served, LoginsWait, CodesAreStored, NEW r \in Requests, LoginFits(r),
           IdentityStep(r) \/ RowsStep(r)
    PROVE  LoginFits(r)'
<1>1. CASE FindByPhone(r)
  <2>1. /\ pc'[r] \in {"creating", "issuing", "verifying"} /\ call' = call /\ users' = users
        /\ pc'[r] = "verifying" => Exists(call[r].who)
    BY <1>1, AwaitAt DEF FindByPhone, userVars
  <2>2. call[r].op = "phoneVerifyOtp" /\ call[r].who \in Phones
    BY <1>1 DEF FindByPhone, LoginFits
  <2>3. QED
    BY <2>1, <2>2 DEF LoginFits, Exists
<1>2. CASE VerifyUser(r) \/ LinkGoogle(r) \/ CreateUser(r)
  <2>1. pc'[r] \in {"issuing", "refused", "conflict"}
    BY <1>2, AwaitAt DEF VerifyUser, LinkGoogle, CreateUser, Leave
  <2>2. QED
    BY <2>1 DEF LoginFits
<1>3. CASE StoreOtp(r)
  <2>1. pc'[r] = "texting"
    BY <1>3, AwaitAt DEF StoreOtp
  <2>2. \E i \in DOMAIN codes' : codes'[i].by = r
    BY <1>3, CodeIsAdded
  <2>3. QED
    BY <2>1, <2>2 DEF LoginFits
<1>4. CASE MarkCode(r) \/ MarkOthers(r)
  <2>1. pc[r] \in {"marking", "sweeping"} /\ pc'[r] \in {"sweeping", "identifying"} /\ call' = call
    BY <1>4, AwaitAt DEF MarkCode, MarkOthers
  <2>2. QED
    BY <2>1 DEF LoginFits
<1>5. CASE SendSms(r) \/ IssueTokens(r) \/ ExchangeSession(r)
  <2>1. pc'[r] \in {"done", "conflict", "issuing"}
    BY <1>5, AwaitAt DEF SendSms, IssueTokens, ExchangeSession, Leave
  <2>2. QED
    BY <2>1 DEF LoginFits
<1>6. QED
  BY <1>1, <1>2, <1>3, <1>4, <1>5 DEF IdentityStep, RowsStep

\* So do those who wait meanwhile.
LEMMA LoginsFitOn ==
    ASSUME Served, LoginsWait, CodesAreStored, \A r \in Requests : LoginFits(r), [Next]_appVars,
           Elsewhere \/ \E r \in Requests : AuthStep(r)
    PROVE  \A q \in Requests : LoginFits(q)'
<1>1. ASSUME NEW q \in Requests, Stays(q)
      PROVE  LoginFits(q)'
  <2>1. LoginFits(q)
    OBVIOUS
  <2>2. DOMAIN users \subseteq DOMAIN users'
    BY UsersOnlyGrow
  <2>3. \A i \in DOMAIN codes : i \in DOMAIN codes' /\ codes'[i].by = codes[i].by
    BY CodesStay
  <2>4. QED
    BY <1>1, <2>1, <2>2, <2>3 DEF Stays, LoginFits, Exists
<1>2. CASE Elsewhere
  <2>1. ASSUME NEW q \in Requests, pc'[q] \notin AuthWaits
        PROVE  LoginFits(q)'
    BY <2>1 DEF LoginFits, AuthWaits
  <2>2. QED
    BY <1>1, <1>2, <2>1, ElsewhereTheyStay
<1>3. ASSUME NEW r \in Requests, AuthStep(r)
      PROVE  \A q \in Requests : LoginFits(q)'
  <2>1. \A q \in Requests \ {r} : Stays(q)
    BY <1>3, AuthMoves DEF Moves
  <2>2. LoginFits(r)'
    BY <1>3, LoginsFitAtFirst, LoginsFitThen DEF AuthStep
  <2>3. QED
    BY <1>1, <2>1, <2>2
<1>4. QED
  BY <1>2, <1>3

\* Users, codes and sessions are rows of their tables, in every state of the application.
THEOREM AccountsAreRows == Spec => []AccountsFit
<1>1. Init => AccountsFit
  <2> SUFFICES ASSUME Init PROVE AccountsFit
    OBVIOUS
  <2>1. /\ users = [u \in Seeded |-> [Account(FALSE, TRUE) EXCEPT !.verified = FALSE]]
        /\ avatar = [u \in Seeded |-> "none"] /\ objects = {} /\ removals = {}
        /\ codes = <<>> /\ delivered = {} /\ sessions = <<>>
        /\ \A r \in Requests : pc[r] = "idle"
    BY DEF Init, UsersInit, AuthInit, ServerInit
  <2>2. UsersTypeOK
    BY <2>1, UsersAssumption DEF UsersTypeOK, Account, Profile
  <2>3. AuthTypeOK /\ SessionsPlaced
    BY <2>1 DEF AuthTypeOK, SessionsPlaced, IsInjective
  <2>4. \A r \in Requests : LoginFits(r)
    BY <2>1 DEF LoginFits
  <2>5. QED
    BY <2>2, <2>3, <2>4 DEF AccountsFit
<1>2. /\ Served /\ UsersInv /\ UsersInv' /\ AuthInv /\ AuthInv' /\ AccountsFit /\ [Next]_appVars
      => AccountsFit'
  <2> SUFFICES ASSUME Served, UsersInv, UsersInv', AuthInv, AuthInv', AccountsFit, [Next]_appVars
               PROVE  AccountsFit'
    OBVIOUS
  <2>1. Elsewhere \/ \E r \in Requests : AuthStep(r)
    BY AuthFrame
  <2>2. Onward
    <3>1. ASSUME NEW r \in Requests, AuthStep(r)
          PROVE  Onward
      BY <3>1, AuthMoves, MovesGoOnward DEF AuthWaits, Verdicts
    <3>2. QED
      BY <2>1, <3>1, ForeignGoesOnward DEF Elsewhere
  <2>3. UsersTypeOK'
    <3>1. /\ DOMAIN users' \subseteq Phones \cup Emails /\ users' \in [DOMAIN users' -> Profile]
          /\ objects' \subseteq Requests
      BY UsersAreRows, ObjectsAreUploads DEF AccountsFit, UsersTypeOK
    <3>2. /\ avatar' \in [Seeded -> Requests \cup {"none", "external"}]
          /\ removals' \subseteq Requests
      BY DEF UsersInv, PicturesAreUploads, Handed
    <3>3. QED
      BY <3>1, <3>2 DEF UsersTypeOK
  <2>4. LoginsWait /\ CodesAreStored /\ SessionsAreOpen /\ \A r \in Requests : LoginFits(r)
    BY DEF AuthInv, AccountsFit
  <2>5. SessionsFit'
    BY <2>1, <2>2, <2>4, SessionsFitOn DEF SessionsFit, AccountsFit, AuthTypeOK
  <2>6. /\ codes' \in Seq([phone : Phones, by : Requests, used : BOOLEAN, age : Ages])
        /\ delivered' \subseteq {codes'[i].by : i \in DOMAIN codes'}
    BY <2>1, <2>4, DeliveredAreStored DEF AuthInv, CodesAreStored, AccountsFit, AuthTypeOK
  <2>7. \A r \in Requests : LoginFits(r)'
    BY <2>1, <2>4, LoginsFitOn
  <2>8. QED
    BY <2>3, <2>5, <2>6, <2>7 DEF AccountsFit, AuthTypeOK, SessionsFit
<1>3. QED
  BY <1>1, <1>2, ServedAlways, PicturesInvariant, AuthInvariant, PTL DEF Spec
=============================================================================
