-------------------------------- MODULE Auth --------------------------------
(* auth.service.ts, otp.service.ts and sms.service.ts: one-time codes, the
   logins, and the sessions refresh tokens stand for. A code and a session are
   named by the request that issued them. The role USER is there from the seed
   and nothing deletes it, so ensureRole finds it. *)
EXTENDS Users, Sequences, SequencesExt

CONSTANT OtpMax         \* OTP_MAX_PER_HOUR, which is also how many codes verifyOtp compares

ASSUME AuthAssumption == OtpMax \in Nat

VARIABLES codes,      \* OtpCode rows in creation order: [phone, by, used, age]
          delivered,  \* codes that reached the phone
          sessions    \* Session rows: their place in the order of creation, by request

authVars == <<codes, delivered, sessions>>

\* fresh: not expired; stale: expired, and created within the hour; old: neither.
Ages == {"fresh", "stale", "old"}

AuthInit == codes = <<>> /\ delivered = {} /\ sessions = <<>>

\* Codes by their place in codes.
LastHour(p)    == {i \in DOMAIN codes : codes[i].phone = p /\ codes[i].age # "old"}
Usable(p)      == {i \in DOMAIN codes : codes[i].phone = p /\ ~codes[i].used /\ codes[i].age = "fresh"}
Newest(ids, n) == {i \in ids : Cardinality({j \in ids : j > i}) < n}

-----------------------------------------------------------------------------
(* One-time codes. *)

\* Mutant: one code too many.
PhoneRequestOtpLoosely(r, p) ==
    /\ Cardinality(LastHour(p)) <= OtpMax
    /\ Arrive(r, "phoneRequestOtp", p, Nothing, "hashing", Nothing)
    /\ UNCHANGED <<userVars, authVars>>

PhoneRequestOtp(r, p) ==
    /\ Cardinality(LastHour(p)) < OtpMax
    /\ Arrive(r, "phoneRequestOtp", p, Nothing, "hashing", Nothing)
    /\ UNCHANGED <<userVars, authVars>>

StoreOtp(r) ==
    /\ pc[r] = "hashing"
    /\ codes' = Append(codes, [phone |-> call[r].who, by |-> r, used |-> FALSE, age |-> "fresh"])
    /\ Await(r, "texting", Nothing)
    /\ UNCHANGED <<delivered, sessions>>

\* Whatever Eskiz answers, the caller is told that the code is on its way.
SendSms(r) ==
    /\ pc[r] = "texting"
    /\ delivered' \in {delivered, delivered \cup {r}}
    /\ Leave(r, "done")
    /\ UNCHANGED <<codes, sessions>>

PhoneVerifyOtp(r, p, c) ==
    /\ c \in delivered
    /\ \E i \in Newest(Usable(p), OtpMax) : codes[i].by = c
    /\ Arrive(r, "phoneVerifyOtp", p, c, "marking", Nothing)
    /\ UNCHANGED <<userVars, authVars>>

Used(row) == [row EXCEPT !.used = TRUE]

\* Mutant: only the other codes of the phone are used up.
KeepCode(r) ==
    /\ pc[r] = "marking"
    /\ Await(r, "sweeping", Nothing)
    /\ UNCHANGED authVars

\* By id alone: the row may have been used since it was read.
MarkCode(r) ==
    /\ pc[r] = "marking"
    /\ codes' = [i \in DOMAIN codes |-> IF codes[i].by = call[r].what THEN Used(codes[i]) ELSE codes[i]]
    /\ Await(r, "sweeping", Nothing)
    /\ UNCHANGED <<delivered, sessions>>

MarkOthers(r) ==
    /\ pc[r] = "sweeping"
    /\ codes' = [i \in DOMAIN codes |-> IF codes[i].phone = call[r].who /\ codes[i].by # call[r].what THEN Used(codes[i]) ELSE codes[i]]
    /\ Await(r, "identifying", Nothing)
    /\ UNCHANGED <<delivered, sessions>>

\* Nothing here looks at isActive.
FindByPhone(r) ==
    /\ pc[r] = "identifying"
    /\ Await(r, IF ~Exists(call[r].who) THEN "creating"
                ELSE IF users[call[r].who].verified THEN "issuing" ELSE "verifying", Nothing)
    /\ UNCHANGED <<userVars, authVars>>

VerifyUser(r) ==
    /\ pc[r] = "verifying"
    /\ PutUser(call[r].who, [users[call[r].who] EXCEPT !.verified = TRUE])
    /\ Await(r, "issuing", Nothing)
    /\ UNCHANGED <<avatar, objects, removals, authVars>>

-----------------------------------------------------------------------------
(* The other ways in. *)

\* Mutant: nobody looks whether the address is registered.
EmailRegisterBlindly(r, u) ==
    /\ Arrive(r, "emailRegister", u, Account(FALSE, TRUE), "creating", Nothing)
    /\ UNCHANGED <<userVars, authVars>>

EmailRegister(r, u) ==
    /\ ~Exists(u)
    /\ Arrive(r, "emailRegister", u, Account(FALSE, TRUE), "creating", Nothing)
    /\ UNCHANGED <<userVars, authVars>>

EmailLogin(r, u) ==
    /\ Exists(u) /\ users[u].password /\ users[u].active
    /\ Arrive(r, "emailLogin", u, Nothing, "issuing", Nothing)
    /\ UNCHANGED <<userVars, authVars>>

\* What is read here decides below, also after a link was written.
GoogleAuth(r, u) ==
    LET known == Exists(u) IN
    /\ known /\ users[u].google => users[u].active
    /\ Arrive(r, "googleAuth", u, Account(TRUE, FALSE),
              IF ~known THEN "creating" ELSE IF users[u].google THEN "issuing" ELSE "linking",
              IF known THEN users[u] ELSE Nothing)
    /\ UNCHANGED <<userVars, authVars>>

AdminLogin(r, u) ==
    /\ Exists(u) /\ users[u].password /\ users[u].active /\ users[u].admin
    /\ Arrive(r, "adminLogin", u, Nothing, "issuing", Nothing)
    /\ UNCHANGED <<userVars, authVars>>

AdminGoogleAuth(r, u) ==
    /\ Exists(u) /\ users[u].active /\ users[u].admin
    /\ Arrive(r, "adminGoogleAuth", u, Nothing,
              IF users[u].google THEN "issuing" ELSE "linking", users[u])
    /\ UNCHANGED <<userVars, authVars>>

\* googleAuth links before it looks at isActive.
LinkGoogle(r) ==
    /\ pc[r] = "linking"
    /\ PutUser(call[r].who, [users[call[r].who] EXCEPT !.google = TRUE])
    /\ IF saw[r].active THEN Await(r, "issuing", Nothing) ELSE Leave(r, "refused")
    /\ UNCHANGED <<avatar, objects, removals, authVars>>

\* The phone, the e-mail address and the Google account are unique.
CreateUser(r) ==
    LET u == call[r].who IN
    /\ pc[r] = "creating"
    /\ IF Exists(u)
       THEN Leave(r, "conflict") /\ UNCHANGED users
       ELSE /\ PutUser(u, IF call[r].op = "phoneVerifyOtp" THEN Account(FALSE, FALSE) ELSE call[r].what)
            /\ Await(r, "issuing", Nothing)
    /\ UNCHANGED <<avatar, objects, removals, authVars>>

-----------------------------------------------------------------------------
(* Sessions. *)

Logins == {"phoneVerifyOtp", "emailRegister", "emailLogin", "googleAuth", "adminLogin",
           "adminGoogleAuth"}
SessionsOf(u) == {s \in DOMAIN sessions : call[s].who = u}
Keep(kept)    == sessions' = [s \in kept |-> sessions[s]]

IssueTokens(r) ==
    /\ pc[r] = "issuing"
    /\ sessions' = [s \in DOMAIN sessions \cup {r} |->
                       IF s = r THEN 1 + Max({0} \cup Range(sessions)) ELSE sessions[s]]
    /\ Leave(r, "done")
    /\ UNCHANGED <<codes, delivered>>

\* What bcrypt compares of the refresh token issued by request t: its first
\* 72 bytes, which hold the user and the type and not yet the time.
Hashed(t) == <<call[t].who, "refresh">>

Matching(u, t) == {s \in SessionsOf(u) : Hashed(s) = Hashed(t)}

\* The newest session whose hash fits the token that is presented.
Refresh(r, u, t) ==
    /\ call[t].op \in Logins \cup {"refresh"} /\ call[t].who = u /\ pc[t] = "done"
    /\ \E s \in Matching(u, t) :
          /\ \A q \in Matching(u, t) : sessions[q] <= sessions[s]
          /\ Arrive(r, "refresh", u, t, "exchanging", s)
    /\ UNCHANGED <<userVars, authVars>>

\* Mutant: deleteMany instead of delete.
ExchangeAnySession(r) ==
    /\ pc[r] = "exchanging"
    /\ Keep(DOMAIN sessions \ {saw[r]})
    /\ Await(r, "issuing", saw[r])
    /\ UNCHANGED <<codes, delivered>>

ExchangeSession(r) ==
    /\ pc[r] = "exchanging"
    /\ IF saw[r] \in DOMAIN sessions
       THEN Keep(DOMAIN sessions \ {saw[r]}) /\ Await(r, "issuing", saw[r])
       ELSE Leave(r, "conflict") /\ UNCHANGED sessions
    /\ UNCHANGED <<codes, delivered>>

\* Mutant: only the newest session ends.
LogoutNewest(r, u) ==
    /\ Arrive(r, "logout", u, Nothing, "done", Nothing)
    /\ \E s \in SessionsOf(u) :
          /\ \A q \in SessionsOf(u) : sessions[q] <= sessions[s]
          /\ Keep(DOMAIN sessions \ {s})
    /\ UNCHANGED <<userVars, codes, delivered>>

Logout(r, u) ==
    /\ \E t \in Ended : call[t].op \in Logins /\ call[t].who = u /\ pc[t] = "done"
    /\ Arrive(r, "logout", u, Nothing, "done", Nothing)
    /\ Keep(DOMAIN sessions \ SessionsOf(u))
    /\ UNCHANGED <<userVars, codes, delivered>>

-----------------------------------------------------------------------------

AuthRequest(r) ==
    \/ \E p \in Phones : PhoneRequestOtp(r, p) \/ \E c \in Requests : PhoneVerifyOtp(r, p, c)
    \/ \E u \in Emails : EmailRegister(r, u) \/ EmailLogin(r, u) \/ GoogleAuth(r, u)
    \/ \E u \in Phones \cup Emails : Logout(r, u) \/ \E t \in Requests : Refresh(r, u, t)

AdminAuthRequest(r) ==
    \/ \E u \in Phones \cup Emails : AdminLogin(r, u)
    \/ \E u \in Emails : AdminGoogleAuth(r, u)

IdentityStep(r) ==
    \/ FindByPhone(r)
    \/ VerifyUser(r)
    \/ LinkGoogle(r)
    \/ CreateUser(r)

RowsStep(r) ==
    \/ StoreOtp(r)
    \/ SendSms(r)
    \/ MarkCode(r)
    \/ MarkOthers(r)
    \/ IssueTokens(r)
    \/ ExchangeSession(r)

AuthStep(r) ==
    \/ IsNext(r) /\ (AuthRequest(r) \/ AdminAuthRequest(r))
    \/ IdentityStep(r)
    \/ RowsStep(r) /\ UNCHANGED userVars

\* Codes expire after five minutes, and leave the limit after an hour.
MinutesPass ==
    /\ \E i \in DOMAIN codes : codes[i].age = "fresh"
    /\ codes' = [i \in DOMAIN codes |->
                    IF codes[i].age = "fresh" THEN [codes[i] EXCEPT !.age = "stale"] ELSE codes[i]]

AnHourPasses ==
    /\ \E i \in DOMAIN codes : codes[i].age # "old"
    /\ codes' = [i \in DOMAIN codes |-> [codes[i] EXCEPT !.age = "old"]]

CodesAge ==
    /\ MinutesPass \/ AnHourPasses
    /\ UNCHANGED <<serverVars, userVars, delivered, sessions>>

AuthTypeOK ==
    /\ codes \in Seq([phone : Phones, by : Requests, used : BOOLEAN, age : Ages])
    /\ delivered \subseteq {codes[i].by : i \in DOMAIN codes}
    /\ DOMAIN sessions \subseteq Requests
    /\ sessions \in [DOMAIN sessions -> Nat \ {0}] /\ IsInjective(sessions)

\* A login by a code uses up every code its phone had been sent before: none
\* of them, nor the same one, opens a session again to a request that comes
\* later (otp.service.ts 36-59).
CodeOpensOnce ==
    \A q \in Requests : call[q].op = "phoneVerifyOtp" =>
        \A r \in Requests :
            /\ r \in before[q]
            /\ call[r].op = "phoneVerifyOtp" /\ call[q].who = call[r].who /\ pc[r] = "done"
            => call[q].what \notin before[r]

\* More than OtpMax codes of an hour exist only if two of the requests for
\* them were in flight together (otp.service.ts 12-34).
HourlyLimit ==
    \A p \in Phones : Cardinality(LastHour(p)) > OtpMax =>
        \E i, j \in LastHour(p) : Overlap(codes[i].by, codes[j].by)

\* The logins of a user, the refreshes that have a session's place, and whether
\* there was a logout.
LoggedIn(u)  == {r \in Requests : call[r].op \in Logins /\ call[r].who = u /\ pc[r] = "done"}
Replacing(u) == {r \in Requests : /\ call[r].op = "refresh" /\ call[r].who = u
                                  /\ pc[r] \in {"issuing", "failed"}}
HasLeft(u)   == \E r \in Requests : call[r].op = "logout" /\ call[r].who = u

\* However refreshes of one user interleave, they make no sessions: there are
\* never more than there were logins; and until a logout there are fewer only
\* by those a refresh is replacing, or failed to replace (auth.service.ts
\* 285-308).
RefreshConserves ==
    \A u \in Phones \cup Emails :
        LET logins == Cardinality(LoggedIn(u)) IN
        /\ Cardinality(SessionsOf(u)) <= logins
        /\ HasLeft(u) \/ Cardinality(SessionsOf(u)) + Cardinality(Replacing(u)) >= logins

\* After a logout a token refreshes again only if somebody logged in later, or
\* was logging in or refreshing meanwhile (auth.service.ts 311-314).
LogoutHolds ==
    \A r \in Requests : call[r].op = "refresh" => \A l \in Requests :
        l \in before[r] /\ call[l].op = "logout" /\ call[l].who = call[r].who
        => \E s \in before[r] \ before[l] : /\ call[s].op \in Logins \cup {"refresh"}
                                            /\ call[s].who = call[l].who

\* Refresh tokens rotate: one that has been exchanged is not accepted again
\* (auth.service.ts 304-308).
TokensRotate ==
    \A q, r \in Requests :
        call[q].op = "refresh" /\ call[r].op = "refresh" /\ call[q].what = call[r].what
        => q \notin before[r] \/ pc[q] # "done"

-----------------------------------------------------------------------------
(* The inductive invariant behind these properties but the last. *)

\* Who waits where: a kind of request has its awaits, and an await its requests.
LoginsWait ==
    \A r \in Requests :
        /\ call[r].op = "phoneRequestOtp" => pc[r] \in {"hashing", "texting"} \cup Verdicts
        /\ call[r].op \in Logins => pc[r] \in {"marking", "sweeping", "identifying", "verifying",
                                              "linking", "creating", "issuing"} \cup Verdicts
        /\ call[r].op = "refresh" => pc[r] \in {"exchanging", "issuing"} \cup Verdicts
        /\ call[r].op = "logout" => pc[r] = "done"
        /\ pc[r] \in {"hashing", "texting"} => call[r].op = "phoneRequestOtp" /\ call[r].who \in Phones
        /\ pc[r] \in {"marking", "sweeping"} => call[r].op = "phoneVerifyOtp"
        /\ pc[r] \in {"identifying", "verifying", "linking", "creating"} => call[r].op \in Logins
        /\ pc[r] = "issuing" => call[r].op \in Logins \cup {"refresh"}
        /\ pc[r] = "exchanging" =>
              /\ call[r].op = "refresh"
              /\ saw[r] \in Requests /\ pc[saw[r]] = "done" /\ call[saw[r]].who = call[r].who

\* A code is stored by its request once, and looked for only once it is stored.
CodesAreStored ==
    /\ codes \in Seq([phone : Phones, by : Requests, used : BOOLEAN, age : Ages])
    /\ \A i \in DOMAIN codes : pc[codes[i].by] \notin {"idle", "hashing"}
    /\ \A r \in Requests : call[r].op = "phoneVerifyOtp" =>
          call[r].what \in Requests /\ pc[call[r].what] \notin {"idle", "hashing"}

\* A verification that is past its two updates has used up the code it was
\* shown and all codes that were sent to its phone before it came.
CodesUsedUp ==
    \A r \in Requests : call[r].op = "phoneVerifyOtp" => \A i \in DOMAIN codes :
        /\ pc[r] = "sweeping" /\ codes[i].by = call[r].what => codes[i].used
        /\ /\ pc[r] \in {"identifying", "verifying", "linking", "creating", "issuing", "done"}
           /\ codes[i].phone = call[r].who /\ codes[i].by \in before[r]
           => codes[i].used

\* Whoever has been let in stays below the limit until another request, one in
\* flight with it, has stored a code.
LetInBelowLimit ==
    \A r \in Requests : pc[r] = "hashing" =>
        /\ OtpMax > 0
        /\ (\A i \in LastHour(call[r].who) : codes[i].by \in before[r])
              => Cardinality(LastHour(call[r].who)) < OtpMax

\* A session belongs to a login or a refresh that is done, and not to one that
\* was done before a logout of its user began.
SessionsAreOpen ==
    /\ \A s \in DOMAIN sessions :
          s \in Requests /\ pc[s] = "done" /\ call[s].op \in Logins \cup {"refresh"}
    /\ \A l \in Requests : call[l].op = "logout" =>
          \A s \in SessionsOf(call[l].who) : s \notin before[l]

\* Every login is still there in a session or in the hands of a refresh.
Holding(u) == {r \in Requests : call[r].op = "refresh" /\ call[r].who = u /\ pc[r] = "issuing"}

SessionsAddUp ==
    \A u \in Phones \cup Emails :
        /\ Cardinality(SessionsOf(u)) + Cardinality(Holding(u)) <= Cardinality(LoggedIn(u))
        /\ ~HasLeft(u) =>
              Cardinality(SessionsOf(u)) + Cardinality(Replacing(u)) >= Cardinality(LoggedIn(u))

AuthInv ==
    /\ LoginsWait /\ CodesAreStored /\ CodesUsedUp /\ CodeOpensOnce
    /\ LetInBelowLimit /\ HourlyLimit
    /\ SessionsAreOpen /\ LogoutHolds /\ SessionsAddUp

(* And the one behind the types of users, codes and sessions. *)

\* Who waits for a row of users finds it, or brings what goes into it.
LoginFits(r) ==
    /\ pc[r] \in {"marking", "sweeping", "identifying"} =>
          call[r].op = "phoneVerifyOtp" /\ call[r].who \in Phones
    /\ pc[r] \in {"verifying", "linking"} => Exists(call[r].who)
    /\ pc[r] = "creating" =>
          /\ call[r].who \in Phones \cup Emails
          /\ call[r].op # "phoneVerifyOtp" => call[r].what \in Profile
    /\ pc[r] = "texting" => \E i \in DOMAIN codes : codes[i].by = r

\* Places are given out one after the other, each by a request that ends with it.
SessionsPlaced == \A s \in DOMAIN sessions : sessions[s] <= Cardinality(Ended)

AccountsFit == UsersTypeOK /\ AuthTypeOK /\ SessionsPlaced /\ \A r \in Requests : LoginFits(r)
=============================================================================
