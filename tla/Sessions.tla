------------------------------- MODULE Sessions -------------------------------
(***************************************************************************)
(* Refresh tokens.  A login starts a family of tokens; a refresh reads the *)
(* token it is given, revokes it and stores a successor in the same        *)
(* family, in three statements without a transaction.  Logout revokes what *)
(* the user has at that moment, and a token that is presented although it  *)
(* was revoked ends its family.                                            *)
(***************************************************************************)
EXTENDS Naturals

CONSTANTS
    User,
    Token,     \* rows of refresh_tokens, ids and hashes being unique
    Family,    \* values of family_id
    Request,   \* goroutines serving POST /auth/refresh
    NoUser, NoFamily, NoToken

ASSUME SessionsAssumption ==
    /\ NoUser \notin User
    /\ NoFamily \notin Family
    /\ NoToken \notin Token
    /\ Request \cap Token = {}

VARIABLES
    status,   \* of each token: "absent" before it is issued, "deleted" in the end
    family,   \* refresh_tokens.family_id
    expired,  \* tokens whose expires_at has passed
    owner,    \* owner[f]: the user whose login started the family
    work,     \* what each refresh is doing, and with which token
    \* History variables.
    closed,   \* families ended by a logout or because a token was reused
    late,     \* refreshes that had read their token before their family was
              \* closed, and the tokens that descend from them
    forked    \* families of which one token was held by two refreshes at once

rows == <<status, family, expired, owner>>
vars == <<rows, work, closed, late, forked>>

NoWork == [pc |-> "idle", token |-> NoToken]

Init ==
    /\ status = [t \in Token |-> "absent"]
    /\ family = [t \in Token |-> NoFamily]
    /\ expired = {}
    /\ owner = [f \in Family |-> NoUser]
    /\ work = [r \in Request |-> NoWork]
    /\ closed = {} /\ late = {} /\ forked = {}

Live(t) == status[t] = "live"
FamiliesOf(u) == {f \in Family : owner[f] = u}

\* Refreshes that have found their token in order and not stored a successor yet.
Rotating == {r \in Request : work[r].pc \in {"revoke", "issue"}}

\* CreateRefreshToken.
Store(t, f) ==
    /\ status[t] = "absent"
    /\ status' = [status EXCEPT ![t] = "live"]
    /\ family' = [family EXCEPT ![t] = f]
    /\ UNCHANGED expired

\* RevokeRefreshTokenFamily and RevokeAllUserTokens: one UPDATE of the tokens
\* that are not revoked yet.
Close(families) ==
    /\ status' = [t \in Token |->
                    IF Live(t) /\ family[t] \in families THEN "revoked" ELSE status[t]]
    /\ closed' = closed \cup families
    /\ late' = late \cup {r \in Rotating : family[work[r].token] \in families}
    /\ UNCHANGED <<family, expired, owner, forked>>

-----------------------------------------------------------------------------
\* The end of a successful login; what precedes it does not touch the tokens.
Login ==
    \E u \in User, f \in Family, t \in Token :
        /\ owner[f] = NoUser
        /\ owner' = [owner EXCEPT ![f] = u]
        /\ Store(t, f)
        /\ UNCHANGED <<work, closed, late, forked>>

\* Mutant: only the token of one family is revoked.
LogoutOneFamily(u) ==
    /\ \E f \in FamiliesOf(u) :
         status' = [t \in Token |-> IF Live(t) /\ family[t] = f THEN "revoked" ELSE status[t]]
    /\ closed' = closed \cup FamiliesOf(u)
    /\ late' = late \cup {r \in Rotating : family[work[r].token] \in FamiliesOf(u)}
    /\ UNCHANGED <<family, expired, owner, forked, work>>

Logout(u) ==
    /\ FamiliesOf(u) # {}
    /\ Close(FamiliesOf(u))
    /\ UNCHANGED work

Goto(r, label) == work' = [work EXCEPT ![r] = [pc |-> label, token |-> work[r].token]]

\* GetRefreshTokenByHash: a token that is not there or has expired is refused.
RefreshRead(r) ==
    /\ work[r] = NoWork
    /\ \E t \in Token :
         \/ /\ status[t] = "revoked"
            /\ work' = [work EXCEPT ![r] = [pc |-> "reuse", token |-> t]]
            /\ UNCHANGED <<late, forked>>
         \/ /\ Live(t)
            /\ t \notin expired
            /\ work' = [work EXCEPT ![r] = [pc |-> "revoke", token |-> t]]
            /\ late' = IF t \in late THEN late \cup {r} ELSE late
            /\ forked' = IF \E s \in Rotating : work[s].token = t
                           THEN forked \cup {family[t]} ELSE forked
    /\ UNCHANGED <<rows, closed>>

\* RevokeRefreshTokenFamily, for a token that had been revoked.
RevokeFamily(r) ==
    /\ work[r].pc = "reuse"
    /\ Close({family[work[r].token]})
    /\ work' = [work EXCEPT ![r] = NoWork]

\* Mutant: the token is left as it is, to be revoked after its successor exists.
RevokeTokenLater(r) ==
    /\ work[r].pc = "revoke"
    /\ Goto(r, "issue")
    /\ UNCHANGED <<rows, closed, late, forked>>

\* RevokeRefreshToken, whatever has become of the token since it was read.
RevokeToken(r) ==
    /\ work[r].pc = "revoke"
    /\ status' = [status EXCEPT ![work[r].token] = IF @ = "live" THEN "revoked" ELSE @]
    /\ Goto(r, "issue")
    /\ UNCHANGED <<family, expired, owner, closed, late, forked>>

\* The user and the roles are read and the successor stored.
Issue(r) ==
    /\ work[r].pc = "issue"
    /\ \E t \in Token :
         /\ Store(t, family[work[r].token])
         /\ late' = IF r \in late THEN (late \ {r}) \cup {t} ELSE late
    /\ work' = [work EXCEPT ![r] = NoWork]
    /\ UNCHANGED <<owner, closed, forked>>

\* A statement fails, the client goes away or the server stops: what was written
\* stays, and the client has no token that works.
RefreshFails(r) ==
    /\ work[r] # NoWork
    /\ work' = [work EXCEPT ![r] = NoWork]
    /\ late' = late \ {r}
    /\ UNCHANGED <<rows, closed, forked>>

-----------------------------------------------------------------------------
\* Seven days after it was issued.
Expire(t) ==
    /\ status[t] \in {"live", "revoked"} /\ t \notin expired
    /\ expired' = expired \cup {t}
    /\ UNCHANGED <<status, family, owner, work, closed, late, forked>>

\* Mutant: the job deletes what was revoked, expired or not.
CleanupRevoked ==
    /\ status' = [t \in Token |-> IF status[t] = "revoked" THEN "deleted" ELSE status[t]]
    /\ UNCHANGED <<family, expired, owner, work, closed, late, forked>>

\* The hourly job deletes the tokens that expired more than a month ago.
Cleanup ==
    /\ \E old \in SUBSET expired :
         status' = [t \in Token |-> IF t \in old THEN "deleted" ELSE status[t]]
    /\ UNCHANGED <<family, expired, owner, work, closed, late, forked>>

Next ==
    \/ Login
    \/ \E u \in User : Logout(u)
    \/ \E r \in Request :
         RefreshRead(r) \/ RevokeFamily(r) \/ RevokeToken(r) \/ Issue(r) \/ RefreshFails(r)
    \/ \E t \in Token : Expire(t)
    \/ Cleanup

Spec == Init /\ [][Next]_vars

-----------------------------------------------------------------------------
\* Types; a token has a family exactly when it was issued, a refresh holds a
\* token that was, and only expired tokens are deleted.
TypeOK ==
    /\ status \in [Token -> {"absent", "live", "revoked", "deleted"}]
    /\ family \in [Token -> Family \cup {NoFamily}]
    /\ expired \subseteq Token
    /\ owner \in [Family -> User \cup {NoUser}]
    /\ work \in [Request -> [pc : {"idle", "revoke", "issue", "reuse"}, token : Token \cup {NoToken}]]
    /\ closed \subseteq Family /\ forked \subseteq Family
    /\ late \subseteq Request \cup Token
    /\ \A t \in Token :
         /\ status[t] = "absent" <=> family[t] = NoFamily
         /\ family[t] \in Family => owner[family[t]] # NoUser
         /\ status[t] = "deleted" => t \in expired
         /\ t \in expired => status[t] # "absent"
    /\ \A r \in Request :
         IF work[r].pc = "idle" THEN work[r] = NoWork
         ELSE work[r].token \in Token /\ family[work[r].token] \in Family

\* Rotation keeps one token per session: however refreshes fail, overlap a
\* logout or run into one another, a family has two live tokens only if two
\* refreshes held the same one at once (Refresh 171-222).
OneLivePerSession ==
    \A t, s \in Token :
        Live(t) /\ Live(s) /\ family[t] = family[s] /\ family[t] \notin forked => t = s

\* "Logout invalidates refresh token server side" (docs/design.md 129), and so
\* does a reuse: once a family is closed its only live tokens descend from
\* refreshes that had read theirs before (Refresh 181-184, Logout 260-261).
ClosedSessionsEnd ==
    \A t \in Token : Live(t) /\ family[t] \in closed => t \in late
=============================================================================
