------------------------------ MODULE Sessions ------------------------------
(***************************************************************************)
(* The sessions of one account: AuthService (login, refresh with rotation, *)
(* a grace window for replays and reuse detection, logout) and             *)
(* AccountService (password reset and change, e-mail verification and      *)
(* change by e-mailed single-use links), with the administrator's edits of *)
(* the same account.                                                       *)
(*                                                                         *)
(* A request is one transaction: what it reads first may change before it  *)
(* writes. A refresh holds the row lock of the token presented. An UPDATE  *)
(* of many token rows sees the rows that were committed when it started    *)
(* and then waits for those that are locked, so it misses a token a        *)
(* concurrent request is about to insert. An expired token or link fails   *)
(* as if it were never presented and is not modelled.                      *)
(***************************************************************************)
EXTENDS Common, Naturals, Sequences, FiniteSets

CONSTANTS
    Emails,      \* addresses the account may have
    FirstEmail,  \* the address it was registered with
    MaxReplays,  \* refresh_reuse_grace_max_replays
    Bounds,      \* bound: how many refresh tokens and how many links a behaviour may see; the
                 \* second also stands for password_reset_emails_per_hour
    MaxPasswords \* bound: passwords set after the first

ASSUME ReplaysAssumption == MaxReplays \in Nat

Purposes == {"reset", "verify", "change"}

VARIABLES
    user,      \* the users row: active, pw (which password), email, verified
    rt,        \* refresh_tokens, in the order they were inserted
    link,      \* auth_tokens, in the order they were inserted
    req,       \* requests in progress
    bound,     \* the element of Bounds that holds in this behaviour
    survivors, \* history: families that got a token while the account was being signed out
    proven,    \* history: addresses somebody followed a link from
    stale      \* history: a request wrote to a user row that had changed since it read it

sessionsVars == <<user, rt, link, req, bound, survivors, proven, stale>>

Idle == [op |-> "none", plan |-> "none", id |-> 0, snap |-> {}, pw |-> 0, email |-> None, verified |-> FALSE]

\* store_refresh_token; parent and born are history: the token it was exchanged for, and the
\* password its family was opened with.
NewToken(fam, parent, born) ==
    [fam |-> fam, parent |-> parent, live |-> TRUE, rotated |-> FALSE, replays |-> 0, born |-> born]

\* create_auth_token; uses is history.
NewLink(purpose, e) == [purpose |-> purpose, uses |-> 0, open |-> TRUE, email |-> e]

\* register: the new users row.
Registered == [active |-> TRUE, pw |-> 0, email |-> FirstEmail, verified |-> FALSE]

SessionsInit ==
    /\ user = Registered
    /\ rt = <<>> /\ link = <<>>
    /\ req = [p \in Requests |-> Idle]
    /\ bound \in Bounds
    /\ survivors = {} /\ proven = {} /\ stale = FALSE

-----------------------------------------------------------------------------
Ids == 1..Len(rt)
Live == {t \in Ids : rt[t].live}
LiveIn(f) == {t \in Live : rt[t].fam = f}

\* No other request holds the row lock of one of these tokens.
Unlocked(tokens, p) == \A q \in Requests \ {p} : ~(req[q].op = "refresh" /\ req[q].id \in tokens)

\* A request that has updated the user row and is revoking every token.
SigningOut(p) == req[p].op \in {"reset", "password"} /\ req[p].plan = "revoke"
UserFree == \A p \in Requests : ~SigningOut(p)

\* A request about tokens starts; one about the user row has read the columns it will write.
Started(p, op, plan, id, snap) ==
    req' = [req EXCEPT ![p] = [Idle EXCEPT !.op = op, !.plan = plan, !.id = id, !.snap = snap, !.pw = user.pw]]
ReadUser(p, op, id) ==
    req' = [req EXCEPT ![p] = [Idle EXCEPT !.op = op, !.plan = "write", !.id = id,
                                          !.email = user.email, !.verified = user.verified]]
Ended(p) == req' = [req EXCEPT ![p] = Idle]

\* The user row is no longer the one p read.
Outdated(p) == req[p].email # user.email \/ req[p].verified # user.verified

\* The family of a token that p stores; a sign-out that overlaps p does not see the token.
Stored(p, f) == survivors' = IF req[p].pw # user.pw \/ ~UserFree THEN survivors \cup {f} ELSE survivors

\* The UPDATE of revoke_family and revoke_all_refresh_tokens.
Revoked(tokens) == [t \in Ids |-> IF t \in tokens THEN [rt[t] EXCEPT !.live = FALSE] ELSE rt[t]]

-----------------------------------------------------------------------------
(* Login, refresh, logout.                                                 *)

\* login: the active user's row is read and the password verified against it.
Login(p) ==
    /\ req[p] = Idle /\ user.active
    /\ Started(p, "login", "store", 0, {})
    /\ UNCHANGED <<user, rt, link, survivors, proven, stale>>

\* issue_tokens: a token that starts a family.
StoreLogin(p) ==
    /\ req[p].op = "login" /\ Len(rt) < bound.tokens
    /\ rt' = Append(rt, NewToken(Len(rt) + 1, 0, req[p].pw))
    /\ Stored(p, Len(rt) + 1)
    /\ Ended(p)
    /\ UNCHANGED <<user, link, proven, stale>>

\* Mutant: a replay is benign even when the family has been shut down.
BenignAnyFamily(t) == rt[t].rotated /\ rt[t].replays < MaxReplays

\* _is_benign_replay, when rotated_at is inside the grace window: exchanged, not replayed too
\* often, and the session still lives.
Benign(t) == rt[t].rotated /\ rt[t].replays < MaxReplays /\ LiveIn(rt[t].fam) # {}

\* refresh: the token's row is locked and judged; the request is refused if the user is
\* inactive. A replay that could be benign is reuse once its grace window has passed.
Refresh(p, t) ==
    /\ req[p] = Idle /\ Unlocked({t}, p)
    /\ \/ rt[t].live /\ user.active /\ Started(p, "refresh", "rotate", t, {})
       \/ ~rt[t].live /\ Benign(t) /\ user.active /\ Started(p, "refresh", "replay", t, {})
       \/ ~rt[t].live /\ Started(p, "refresh", "revoke", t, LiveIn(rt[t].fam))
    /\ UNCHANGED <<user, rt, link, survivors, proven, stale>>

\* rotate_refresh_token or record_grace_replay, then a new token in the same family.
StoreRefresh(p) ==
    LET t == req[p].id
        used == IF req[p].plan = "rotate" THEN [rt[t] EXCEPT !.live = FALSE, !.rotated = TRUE]
                                          ELSE [rt[t] EXCEPT !.replays = @ + 1]
    IN  /\ req[p].op = "refresh" /\ req[p].plan \in {"rotate", "replay"} /\ Len(rt) < bound.tokens
        /\ rt' = Append([rt EXCEPT ![t] = used], NewToken(rt[t].fam, t, rt[t].born))
        /\ Stored(p, rt[t].fam)
        /\ Ended(p)
        /\ UNCHANGED <<user, link, proven, stale>>

\* Reuse: revoke_family, committed although the request fails.
RevokeFamily(p) ==
    /\ req[p].op = "refresh" /\ req[p].plan = "revoke" /\ Unlocked(req[p].snap, p)
    /\ rt' = Revoked(req[p].snap)
    /\ Ended(p)
    /\ UNCHANGED <<user, link, survivors, proven, stale>>

\* logout reads the token without a lock and revokes that one token, once its row is free.
Logout(p, t) ==
    /\ req[p] = Idle /\ rt[t].live
    /\ req' = [req EXCEPT ![p] = [Idle EXCEPT !.op = "logout", !.id = t]]
    /\ UNCHANGED <<user, rt, link, survivors, proven, stale>>

RevokeOne(p) ==
    /\ req[p].op = "logout" /\ Unlocked({req[p].id}, p)
    /\ rt' = Revoked({req[p].id})
    /\ Ended(p)
    /\ UNCHANGED <<user, link, survivors, proven, stale>>

-----------------------------------------------------------------------------
(* Links.                                                                  *)

\* request_password_reset, request_email_verification, request_email_change: what asks for a
\* link. The job it leaves may run at any later time.
RequestMail(purpose, e) ==
    /\ purpose = "verify" => ~user.verified
    /\ (purpose = "change") = (e # None)
    /\ e # user.email

\* send_password_reset, send_email_verification, send_email_change: the link is made when it
\* is sent. A job that fails keeps nothing and runs again; one whose worker dies may run twice.
SendMail(purpose, e) ==
    /\ RequestMail(purpose, e)
    /\ user.active /\ Len(link) < bound.links
    /\ link' = Append(link, NewLink(purpose, IF purpose = "change" THEN e ELSE user.email))
    /\ UNCHANGED <<user, rt, req, survivors, proven, stale>>

\* consume_auth_token locks the row: a second use of the link waits and then finds it used.
LinkFree(l) == \A q \in Requests : ~(req[q].op \in Purposes /\ req[q].id = l)

\* reset_password, verify_email and confirm_email_change consume the link and read the user.
FollowLink(p, l) ==
    /\ req[p] = Idle /\ link[l].open /\ LinkFree(l)
    /\ user.active /\ (link[l].purpose # "change" => link[l].email = user.email)
    /\ ReadUser(p, link[l].purpose, l)
    /\ UNCHANGED <<user, rt, link, survivors, proven, stale>>

\* Other links that the use of l closes: invalidate_auth_tokens.
Closed(l) ==
    {k \in 1..Len(link) :
        link[l].purpose = "change" \/ (link[l].purpose = "reset" /\ link[k].purpose = "reset")}

\* The link is used up; one that proves the address marks it verified, if it was not when read.
UseLink(p, u) ==
    LET l == req[p].id IN
    /\ link' = [k \in 1..Len(link) |->
                   IF k = l THEN [link[k] EXCEPT !.open = FALSE, !.uses = @ + 1]
                   ELSE [link[k] EXCEPT !.open = @ /\ k \notin Closed(l)]]
    /\ user' = [u EXCEPT !.verified = @ \/ ~req[p].verified \/ link[l].purpose = "change"]
    /\ proven' = proven \cup {link[l].email}
    /\ stale' = (stale \/ Outdated(p))

\* verify_email and confirm_email_change write the user row.
FinishLink(p) ==
    /\ req[p].op \in {"verify", "change"} /\ req[p].plan = "write" /\ UserFree
    /\ UseLink(p, IF req[p].op = "change" THEN [user EXCEPT !.email = link[req[p].id].email] ELSE user)
    /\ Ended(p)
    /\ UNCHANGED <<rt, survivors>>

\* get_current_user: the access token is good and its user still active.
SignedIn == user.active

\* change_password: the current password is checked against the row read at the start.
ChangePassword(p) ==
    /\ req[p] = Idle /\ SignedIn
    /\ Started(p, "password", "write", 0, {})
    /\ UNCHANGED <<user, rt, link, survivors, proven, stale>>

\* Mutant: only the tokens of the first session are revoked.
EverythingOfFirst == LiveIn(1)

\* revoke_all_refresh_tokens: the tokens its UPDATE sees.
Everything == Live

\* The new hash is flushed, which locks the user row, and every token is about to be revoked.
SignOut(p) ==
    /\ req[p].op \in {"reset", "password"} /\ req[p].plan = "write" /\ UserFree /\ user.pw < MaxPasswords
    /\ req' = [req EXCEPT ![p].plan = "revoke", ![p].snap = Everything]
    /\ UNCHANGED <<user, rt, link, survivors, proven, stale>>

\* reset_password and change_password commit; a change goes on with a session of its own.
SetPassword(p) ==
    /\ req[p].op \in {"reset", "password"} /\ req[p].plan = "revoke" /\ Unlocked(req[p].snap, p)
    /\ IF req[p].op = "reset"
       THEN /\ UseLink(p, [user EXCEPT !.pw = @ + 1])
            /\ rt' = Revoked(req[p].snap)
       ELSE /\ Len(rt) < bound.tokens
            /\ user' = [user EXCEPT !.pw = @ + 1]
            /\ link' = [k \in 1..Len(link) |-> [link[k] EXCEPT !.open = @ /\ link[k].purpose # "reset"]]
            /\ rt' = Append(Revoked(req[p].snap), NewToken(Len(rt) + 1, 0, user.pw + 1))
            /\ UNCHANGED <<proven, stale>>
    /\ Ended(p)
    /\ UNCHANGED survivors

-----------------------------------------------------------------------------
(* The administrator (UserService.update_user, deactivate_user).           *)

AdminEdit(p) ==
    /\ req[p] = Idle
    /\ ReadUser(p, "admin", 0)
    /\ UNCHANGED <<user, rt, link, survivors, proven, stale>>

\* email_verified_at is cleared; the UPDATE names the column only if it was set when read.
ClearedVerified(p) == user.verified /\ ~req[p].verified

AdminWrite(p, e) ==
    /\ req[p].op = "admin" /\ UserFree /\ e # req[p].email
    /\ user' = [user EXCEPT !.email = e, !.verified = ClearedVerified(p)]
    /\ stale' = (stale \/ Outdated(p))
    /\ Ended(p)
    /\ UNCHANGED <<rt, link, survivors, proven>>

\* is_active is cleared; tokens stay, and every later request finds the account inactive.
Deactivate ==
    /\ user.active /\ UserFree
    /\ user' = [user EXCEPT !.active = FALSE]
    /\ UNCHANGED <<rt, link, req, survivors, proven, stale>>

-----------------------------------------------------------------------------
SessionEndpoints(p) ==
    \/ Login(p) \/ StoreLogin(p) \/ StoreRefresh(p) \/ RevokeFamily(p) \/ RevokeOne(p)
    \/ \E t \in Ids : Refresh(p, t) \/ Logout(p, t)

AccountEndpoints(p) ==
    \/ FinishLink(p) \/ ChangePassword(p) \/ SignOut(p) \/ SetPassword(p)
    \/ \E l \in 1..Len(link) : FollowLink(p, l)

AdminEndpoints(p) == AdminEdit(p) \/ \E e \in Emails : AdminWrite(p, e)

SessionsNext ==
    /\ \/ \E p \in Requests : SessionEndpoints(p) \/ AccountEndpoints(p) \/ AdminEndpoints(p)
       \/ \E purpose \in Purposes, e \in Emails \cup {None} : SendMail(purpose, e)
       \/ Deactivate
    /\ UNCHANGED bound

SessionsSpec == SessionsInit /\ [][SessionsNext]_sessionsVars

-----------------------------------------------------------------------------
Children(t) == {c \in Ids : rt[c].parent = t}

\* A refresh token is exchanged for one successor and, inside the grace window, for at most
\* MaxReplays siblings, each of them counted on its row, whatever requests present it together
\* (get_refresh_token_by_jti: "two concurrent refreshes with the same token are serialized").
ExchangedOnce ==
    \A t \in Ids :
        /\ Cardinality(Children(t)) = rt[t].replays + (IF rt[t].rotated THEN 1 ELSE 0)
        /\ rt[t].replays <= MaxReplays

\* A session without a live token and without a refresh in progress.
Dead(f) ==
    /\ LiveIn(f) = {}
    /\ \A p \in Requests : req[p].op = "refresh" /\ req[p].plan # "revoke" => rt[req[p].id].fam # f

\* A session that was shut down, by logout, by reuse detection or by a new password, never
\* comes back, not even by a replay in the grace window (_is_benign_replay: "never once the
\* family itself has been shut down").
DeadStaysDead == \A f \in Ids : Dead(f) => Dead(f)'

\* After a password reset or change no session opened with an older password can be refreshed,
\* except one that got a token from a request that overlapped it
\* (account_service: "A password reset or change signs the account out everywhere").
SignedOutEverywhere == \A t \in Live : rt[t].born = user.pw \/ rt[t].fam \in survivors

\* An e-mailed link works once, however many requests follow it at the same time
\* (consume_auth_token: "two concurrent uses of one link cannot both succeed").
LinkWorksOnce == \A l \in 1..Len(link) : link[l].uses <= 1

\* A verified address is one that a link was followed from, unless a request wrote back a
\* user row that had changed since it read it (User.email_verified_at: "When the owner
\* proved control of `email` ... Changing the address clears it").
VerifiedWasProven == user.verified => user.email \in proven \/ stale

\* What an account's credentials promise, together: a refresh token is exchanged once, an e-mailed link works once, a
\* new password signs out every older session, and a verified address was proven (auth_service.py, account_service.py).
CredentialsHold == ExchangedOnce /\ LinkWorksOnce /\ SignedOutEverywhere /\ VerifiedWasProven
=============================================================================
