------------------------------ MODULE Sessions ------------------------------
(***************************************************************************)
(* The login sessions the server keeps in memory for one account           *)
(* (auth/store.go, auth/federation.go, auth/federated_session.go), the     *)
(* refresh of a federated session with the identity provider               *)
(* (api/oidc_refresh.go) and the changes to the account that end them      *)
(* (auth/actor_store_users.go, auth/federation.go).                        *)
(*                                                                         *)
(* The account row is in auth.db, which the server shares with the         *)
(* command line; the sessions are in a concurrent map of this process.     *)
(* Writers of the row hold the store's mutex, but a request looks its      *)
(* session up with no lock, and a refresh holds only the session's own     *)
(* mutex while it waits for the provider and calls back into the store.    *)
(* Sessions of other accounts never meet these, so one account is enough.  *)
(***************************************************************************)
EXTENDS Naturals, FiniteSets

CONSTANTS
    Requests,            \* HTTP requests that present a session
    MaxKeys,             \* bound: sessions ever minted
    MaxSessionsPerUser,  \* maxSessionsPerUser
    MaxFailedAttempts,   \* failed password attempts before a lockout
    Lifetime,            \* DefaultSessionExpiry, which is also the refresh window
    MaxTime,             \* bound: the clock
    MaxTokens,           \* bound: refresh tokens the provider issues
    MaxChanges           \* bound: changes to the account

ASSUME SessionsAssumption ==
    /\ MaxKeys \in Nat
    /\ MaxSessionsPerUser \in Nat \ {0}
    /\ MaxFailedAttempts \in Nat \ {0}
    /\ Lifetime \in Nat \ {0}
    /\ MaxTime \in Nat
    /\ MaxTokens \in Nat
    /\ MaxChanges \in Nat

VARIABLES
    account,   \* the row: id (0: no row), enabled, source, usable password, fails
    mu,        \* the store's mutex: "free", or held by an operation that has
               \*   committed and is now deleting the account's sessions
    sessions,  \* key -> SessionInfo
    minted,    \* keys handed out so far: 1..minted
    fs,        \* key -> federatedSession: refresh token (0: none), deadline, mutex
    req,       \* request -> where it is in ValidateSessionToken
    login,     \* where the federated login is in completeLogin
    now,
    issued,    \* refresh tokens issued so far: 1..issued
    spent,     \* refresh tokens the provider has rotated out or refused
    changes,   \* changes to the account so far
    outdated   \* for the properties: keys minted before the latest password
               \*   change, lockout or delete of this process

vars == <<account, mu, sessions, minted, fs, req, login, now, issued, spent,
          changes, outdated>>

Keys == 1..MaxKeys
Time == 0..(MaxTime + Lifetime)
NoToken == 0

NoSession == [live |-> FALSE, expires |-> 0, fed |-> FALSE]
NoFs == [token |-> NoToken, deadline |-> 0, held |-> FALSE]
Idle == [pc |-> "idle"]
Absent == [id |-> 0, enabled |-> FALSE, source |-> "local",
           usable |-> FALSE, fails |-> 0]

Live == {k \in Keys : sessions[k].live}
Drop(k) == [sessions EXCEPT ![k] = NoSession]
\* CompareAndDelete and CompareAndSwap compare the pointer that was loaded; no
\* two values ever stored under one key are equal, so the contents tell.
CompareAndDelete(k, old) == IF sessions[k] = old THEN Drop(k) ELSE sessions

Init ==
    /\ account \in {[Absent EXCEPT !.id = 1, !.enabled = TRUE, !.source = src,
                                   !.usable = (src = "local")] :
                      src \in {"local", "oidc"}}
    /\ mu = "free"
    /\ sessions = [k \in Keys |-> NoSession]
    /\ minted = 0
    /\ fs = [k \in Keys |-> NoFs]
    /\ req = [r \in Requests |-> Idle]
    /\ login = Idle
    /\ now = 0
    /\ issued = 0
    /\ spent = {}
    /\ changes = 0
    /\ outdated = {}

-----------------------------------------------------------------------------
(* Minting a session, with the store's mutex held *)

\* Mutant: nothing is evicted.
MintedMaps_noEviction(k) ==
    {[sessions EXCEPT ![k] = [live |-> TRUE, expires |-> now + Lifetime,
                              fed |-> FALSE]]}

\* The map once the user's oldest session has been evicted, when the limit is
\* reached, and the new one stored; of equally old ones any may go.
MintedMaps(k) ==
    LET oldest == {o \in Live : \A p \in Live :
                                   sessions[o].expires <= sessions[p].expires}
        new == [live |-> TRUE, expires |-> now + Lifetime, fed |-> FALSE]
    IN  IF Cardinality(Live) < MaxSessionsPerUser
          THEN {[sessions EXCEPT ![k] = new]}
          ELSE {[sessions EXCEPT ![o] = NoSession, ![k] = new] : o \in oldest}

\* The failure count is reset in a statement whose error is ignored.
CreateSessionForUser ==
    /\ mu = "free"
    /\ minted < MaxKeys
    /\ minted' = minted + 1
    /\ sessions' \in MintedMaps(minted + 1)
    /\ account' \in {account, [account EXCEPT !.fails = 0]}

-----------------------------------------------------------------------------
(* Password login *)

CanUsePassword == account.id # 0 /\ account.source = "local" /\ account.enabled

\* AuthenticateUser holds the mutex throughout, the comparison included.
AuthenticateUser ==
    /\ CanUsePassword
    /\ account.usable
    /\ CreateSessionForUser
    /\ UNCHANGED <<mu, fs, req, login, now, issued, spent, changes, outdated>>

\* A wrong password.  The count is written best effort; at the limit the
\* account is disabled, in a transaction that may fail too, and its sessions go.
FailedAttempt ==
    /\ mu = "free"
    /\ CanUsePassword
    /\ changes < MaxChanges
    /\ changes' = changes + 1
    /\ LET fails == account.fails + 1 IN
       \/ /\ fails >= MaxFailedAttempts
          /\ account' \in {[account EXCEPT !.enabled = FALSE, !.fails = f] :
                              f \in {account.fails, MaxFailedAttempts}}
          /\ mu' = "invalidating"
          /\ outdated' = 1..minted
       \/ /\ account' = [account EXCEPT !.fails =
                             IF fails < MaxFailedAttempts THEN fails
                                                          ELSE MaxFailedAttempts]
          /\ UNCHANGED <<mu, outdated>>
    /\ UNCHANGED <<sessions, minted, fs, req, login, now, issued, spent>>

-----------------------------------------------------------------------------
(* Changes to the account by this process: one transaction under the       *)
(* mutex, then InvalidateUserSessions before the mutex is released          *)

Change ==
    /\ mu = "free"
    /\ changes < MaxChanges
    /\ changes' = changes + 1
    /\ UNCHANGED <<sessions, minted, fs, req, login, now, issued, spent>>

PasswordWritable == account.source = "local"

\* UpdateUserAtomic with a password, and perhaps the enabled flag with it; the
\* password of a federated account is refused, and the rest with it.
SetPassword(enabled) ==
    /\ account.id # 0
    /\ PasswordWritable
    /\ account' = [account EXCEPT !.usable = TRUE, !.enabled = enabled]
    /\ mu' = "invalidating"
    /\ outdated' = 1..minted
    /\ Change

\* UpdateUserAtomic with the enabled flag alone: the sessions stay.
SetEnabled(enabled) ==
    /\ account.id # 0
    /\ account.enabled # enabled
    /\ account' = [account EXCEPT !.enabled = enabled]
    /\ Change
    /\ UNCHANGED <<mu, outdated>>

DeleteUser ==
    /\ account.id # 0
    /\ account' = Absent
    /\ mu' = "invalidating"
    /\ outdated' = 1..minted
    /\ Change

\* Ids are not used again; a row is only missing after a delete was counted.
NextId == changes + 1

CreateUser ==
    /\ account.id = 0
    /\ mu = "free"
    /\ account' = [Absent EXCEPT !.id = NextId, !.enabled = TRUE, !.usable = TRUE]
    /\ UNCHANGED <<mu, sessions, minted, fs, req, login, now, issued, spent,
                   changes, outdated>>

\* Mutant: the deletion waits for a refresh of the session, mutex held.
InvalidateUserSessions_waits(k) ==
    /\ mu = "invalidating"
    /\ k \in Live
    /\ ~ fs[k].held
    /\ sessions' = Drop(k)
    /\ UNCHANGED <<account, mu, minted, fs, req, login, now, issued, spent,
                   changes, outdated>>

\* The walk over the map deletes one key after another; requests run meanwhile.
InvalidateUserSessions(k) ==
    /\ mu = "invalidating"
    /\ k \in Live
    /\ sessions' = Drop(k)
    /\ UNCHANGED <<account, mu, minted, fs, req, login, now, issued, spent,
                   changes, outdated>>

Unlock ==
    /\ mu = "invalidating"
    /\ Live = {}
    /\ mu' = "free"
    /\ UNCHANGED <<account, sessions, minted, fs, req, login, now, issued,
                   spent, changes, outdated>>

\* What -disable-user, -enable-user, -link-oidc-user and -unlink-oidc-user make
\* of the row.  Linking leaves the password alone; unlinking makes it unusable
\* unless it is to be restored.
EnabledRows == {[account EXCEPT !.enabled = FALSE],
                [account EXCEPT !.enabled = TRUE, !.fails = 0]}
LinkedRows == {[account EXCEPT !.source = "oidc"]}
UnlinkedRows == IF account.source = "oidc"
                  THEN {[account EXCEPT !.source = "local", !.usable = FALSE],
                        [account EXCEPT !.source = "local"]}
                  ELSE {}

\* The command line runs the same operations in a process of its own, with a
\* mutex and a session map of its own: this server only ever sees the row.
CommandLine ==
    /\ changes < MaxChanges
    /\ changes' = changes + 1
    /\ account.id # 0
    /\ account' \in {Absent} \cup EnabledRows \cup LinkedRows \cup UnlinkedRows
    /\ account' # account
    /\ UNCHANGED <<mu, sessions, minted, fs, req, login, now, issued, spent,
                   outdated>>

-----------------------------------------------------------------------------
(* Federated login: resolve the account, reconcile its groups, mint the    *)
(* session, swap it for its federated form                                 *)

LoginVars == <<fs, req, now, spent, outdated, mu>>

FederatedAccount == account.id # 0 /\ account.enabled /\ account.source = "oidc"

ProvisionedRow(id) == [Absent EXCEPT !.id = id, !.enabled = TRUE, !.source = "oidc"]

\* The identity's account, provisioned when there is none.
ResolveFederatedUser ==
    /\ login = Idle
    /\ mu = "free"
    /\ \/ /\ FederatedAccount
          /\ login' = [pc |-> "resolved", id |-> account.id]
          /\ UNCHANGED account
       \/ /\ account.id = 0
          /\ account' = ProvisionedRow(NextId)
          /\ login' = [pc |-> "resolved", id |-> NextId]
    /\ UNCHANGED <<sessions, minted, issued, changes>>
    /\ UNCHANGED LoginVars

\* Reconciliation goes by id and refuses a row that has gone, is disabled or
\* is no longer federated; any failure of it fails the login.
Reconcilable(id) == account.id = id /\ FederatedAccount

LoginReconcile ==
    /\ login.pc = "resolved"
    /\ mu = "free"
    /\ \/ Reconcilable(login.id) /\ login' = [pc |-> "reconciled"]
       \/ login' = Idle
    /\ UNCHANGED <<account, sessions, minted, issued, changes>>
    /\ UNCHANGED LoginVars

\* The session goes by name: any enabled account of the name will do.
LoginMint ==
    /\ login.pc = "reconciled"
    /\ \/ /\ account.id # 0 /\ account.enabled
          /\ CreateSessionForUser
          /\ login' = [pc |-> "minted", key |-> minted + 1]
       \/ /\ mu = "free"
          /\ ~ (account.id # 0 /\ account.enabled)
          /\ login' = Idle
          /\ UNCHANGED <<account, sessions, minted>>
    /\ UNCHANGED <<issued, changes>>
    /\ UNCHANGED LoginVars

\* The session's federated form, with the refresh token the provider sent, if
\* any, and an expiry capped at the lifetime.
FederatedForm(expires) == [live |-> TRUE, expires |-> expires, fed |-> TRUE]

\* Mutant: the federated form is stored whatever happened to the minted one.
CreateFederatedSession_store ==
    /\ login.pc = "minted"
    /\ LET k == login.key IN
       /\ sessions' = [sessions EXCEPT ![k] = FederatedForm(now + 1)]
       /\ \E t \in {NoToken, issued + 1} \cap 0..MaxTokens :
             /\ fs' = [fs EXCEPT ![k] = [token |-> t, held |-> FALSE,
                                         deadline |-> now + Lifetime]]
             /\ issued' = IF t = NoToken THEN issued ELSE t
    /\ login' = Idle
    /\ UNCHANGED <<account, mu, minted, req, now, spent, changes, outdated>>

\* Only a session still stored is swapped; otherwise the login fails.
CreateFederatedSession ==
    /\ login.pc = "minted"
    /\ LET k == login.key IN
       \/ /\ sessions[k].live
          /\ sessions' = [sessions EXCEPT ![k] = FederatedForm(now + 1)]
          /\ \E t \in {NoToken, issued + 1} \cap 0..MaxTokens :
                /\ fs' = [fs EXCEPT ![k] = [token |-> t, held |-> FALSE,
                                            deadline |-> now + Lifetime]]
                /\ issued' = IF t = NoToken THEN issued ELSE t
       \/ /\ ~ sessions[k].live
          /\ UNCHANGED <<sessions, fs, issued>>
    /\ login' = Idle
    /\ UNCHANGED <<account, mu, minted, req, now, spent, changes, outdated>>

-----------------------------------------------------------------------------
(* A request: ValidateSessionToken *)

StoreVars == <<account, mu, minted, login, now, issued, changes, outdated>>

Goto(r, rec) == req' = [req EXCEPT ![r] = rec]

\* A session whose key the client holds is looked up, with no lock.
Present(r, k) ==
    /\ req[r] = Idle
    /\ k \in Live
    /\ login.pc = "minted" => k # login.key
    /\ LET s == sessions[k] IN
       \/ /\ s.expires >= now
          /\ Goto(r, [pc |-> "user", key |-> k])
          /\ UNCHANGED sessions
       \/ /\ s.expires < now
          /\ s.fed
          /\ Goto(r, [pc |-> "lock", key |-> k])
          /\ UNCHANGED sessions
       \/ /\ s.expires < now
          /\ ~ s.fed
          /\ sessions' = Drop(k)
          /\ UNCHANGED req
    /\ UNCHANGED <<fs, spent>>
    /\ UNCHANGED StoreVars

Refreshable(k) == now < fs[k].deadline /\ fs[k].token # NoToken
    \* and not idle past the window, which ends after the deadline

\* The session's mutex is taken and the session loaded again: it may have been
\* refreshed or ended by the request that held the mutex before.
LockSession(r) ==
    /\ req[r].pc = "lock"
    /\ LET k == req[r].key  current == sessions[k] IN
       /\ ~ fs[k].held
       /\ \/ /\ ~ current.live
             /\ Goto(r, Idle)
             /\ UNCHANGED <<sessions, fs>>
          \/ /\ current.live
             /\ current.expires > now
             /\ Goto(r, [pc |-> "user", key |-> k])
             /\ UNCHANGED <<sessions, fs>>
          \/ /\ current.live
             /\ current.expires <= now
             /\ ~ Refreshable(k)
             /\ sessions' = Drop(k)
             /\ Goto(r, Idle)
             /\ UNCHANGED fs
          \/ /\ current.live
             /\ current.expires <= now
             /\ Refreshable(k)
             /\ fs' = [fs EXCEPT ![k].held = TRUE]
             /\ Goto(r, [pc |-> "account", key |-> k, found |-> current,
                         token |-> fs[k].token])
             /\ UNCHANGED sessions
    /\ UNCHANGED spent
    /\ UNCHANGED StoreVars

\* A refresh that fails drops the refresh token and ends the session.
RefreshFails(r) ==
    LET k == req[r].key IN
    /\ fs' = [fs EXCEPT ![k].token = NoToken, ![k].held = FALSE]
    /\ sessions' = CompareAndDelete(k, req[r].found)
    /\ Goto(r, Idle)

\* Federated login is off, or the account has gone, is disabled, is no longer
\* federated, or cannot be read; otherwise the provider is asked.
RefreshableAccount(r) ==
    /\ req[r].pc = "account"
    /\ mu = "free"
    /\ \/ /\ FederatedAccount
          /\ Goto(r, [pc |-> "provider", key |-> req[r].key, id |-> account.id,
                      found |-> req[r].found, token |-> req[r].token])
          /\ UNCHANGED <<sessions, fs>>
       \/ RefreshFails(r)
    /\ UNCHANGED spent
    /\ UNCHANGED StoreVars

\* Mutant: the refreshed session is stored even if it was ended meanwhile.
StoredAfterRefresh_always(r, expires) ==
    [sessions EXCEPT ![req[r].key] = FederatedForm(expires)]

\* The refreshed session replaces the one that was loaded, if it is still there.
StoredAfterRefresh(r, expires) ==
    IF sessions[req[r].key] = req[r].found
      THEN [sessions EXCEPT ![req[r].key] = FederatedForm(expires)]
      ELSE sessions

\* Mutant: the token that was redeemed is kept although a new one came.
NextToken_kept(k, token) == fs[k].token

NextToken(k, token) == IF token = NoToken THEN fs[k].token ELSE token

\* A refresh that succeeded: the token is kept for the next one, an expiry that
\* has passed already ends the session, any other is capped at the deadline.
ApplyRefresh(r, token, expires) ==
    LET k == req[r].key
        d == fs[k].deadline
    IN  /\ fs' = [fs EXCEPT ![k].token = NextToken(k, token), ![k].held = FALSE]
        /\ \/ /\ expires <= now
              /\ sessions' = CompareAndDelete(k, req[r].found)
              /\ Goto(r, Idle)
           \/ /\ expires > now
              /\ sessions' = StoredAfterRefresh(r, IF expires > d THEN d ELSE expires)
              /\ Goto(r, IF sessions[k] = req[r].found
                           THEN [pc |-> "user", key |-> k] ELSE Idle)

\* The provider refuses, does not answer within the timeout, or agrees: with a
\* new refresh token or without, and with groups to reconcile or without.
ProviderRefresh(r) ==
    /\ req[r].pc = "provider"
    /\ \/ /\ RefreshFails(r)
          /\ spent' = spent \cup {req[r].token}
          /\ UNCHANGED issued
       \/ \E t \in {NoToken, issued + 1} \cap 0..MaxTokens,
             expires \in {now, now + 1} :
             /\ \/ ApplyRefresh(r, t, expires)
                \/ /\ Goto(r, [pc |-> "reconcile", key |-> req[r].key,
                               id |-> req[r].id, found |-> req[r].found,
                               token |-> t, expires |-> expires])
                   /\ UNCHANGED <<sessions, fs>>
             /\ spent' = IF t = NoToken THEN spent ELSE spent \cup {req[r].token}
             /\ issued' = IF t = NoToken THEN issued ELSE t
    /\ UNCHANGED <<account, mu, minted, login, now, changes, outdated>>

\* The new ID token names another subject, or reconciling the account that was
\* read before the provider was asked fails; or the refresh goes on.
RefreshReconcile(r) ==
    /\ req[r].pc = "reconcile"
    /\ mu = "free"
    /\ \/ /\ Reconcilable(req[r].id)
          /\ ApplyRefresh(r, req[r].token, req[r].expires)
       \/ RefreshFails(r)
    /\ UNCHANGED spent
    /\ UNCHANGED StoreVars

\* The account is read under the store's mutex: one that is missing, disabled
\* or unreadable costs the session, any other answers the request.
CheckUser(r) ==
    /\ req[r].pc = "user"
    /\ mu = "free"
    /\ \/ account.id # 0 /\ account.enabled /\ UNCHANGED sessions
       \/ sessions' = Drop(req[r].key)
    /\ Goto(r, Idle)
    /\ UNCHANGED <<fs, spent>>
    /\ UNCHANGED StoreVars

\* Logging out.
InvalidateSession(k) ==
    /\ k \in Live
    /\ sessions' = Drop(k)
    /\ UNCHANGED <<fs, req, spent>>
    /\ UNCHANGED StoreVars

\* The sweeper's visit to one key: a session that a request may yet refresh,
\* or is refreshing, stays.
SweepExpiredSessions(k) ==
    /\ k \in Live
    /\ sessions[k].expires < now
    /\ sessions[k].fed => ~ fs[k].held /\ ~ Refreshable(k)
    /\ sessions' = Drop(k)
    /\ UNCHANGED <<fs, req, spent>>
    /\ UNCHANGED StoreVars

Tick ==
    /\ now < MaxTime
    /\ now' = now + 1
    /\ UNCHANGED <<account, mu, sessions, minted, fs, req, login, issued, spent,
                   changes, outdated>>

-----------------------------------------------------------------------------

RequestStep(r) ==
    \/ LockSession(r)
    \/ RefreshableAccount(r)
    \/ ProviderRefresh(r)
    \/ RefreshReconcile(r)
    \/ CheckUser(r)

Invalidation == Unlock \/ \E k \in Keys : InvalidateUserSessions(k)

Next ==
    \/ AuthenticateUser
    \/ FailedAttempt
    \/ \E b \in BOOLEAN : SetPassword(b) \/ SetEnabled(b)
    \/ DeleteUser
    \/ CreateUser
    \/ Invalidation
    \/ CommandLine
    \/ ResolveFederatedUser
    \/ LoginReconcile
    \/ LoginMint
    \/ CreateFederatedSession
    \/ \E r \in Requests, k \in Keys : Present(r, k)
    \/ \E r \in Requests : RequestStep(r)
    \/ \E k \in Keys : InvalidateSession(k) \/ SweepExpiredSessions(k)
    \/ Tick

Spec == Init /\ [][Next]_vars

\* A request runs on until it is answered: the provider is given a timeout and
\* the mutexes are only held for steps that end.  Nothing need ever be asked.
FairSpec ==
    /\ Spec
    /\ WF_vars(Invalidation)
    /\ \A r \in Requests : WF_vars(RequestStep(r))

-----------------------------------------------------------------------------
(* Properties *)

\* A session that was ended stays ended: not the swap at the end of a federated
\* login, nor a refresh whose answer comes after a logout, an eviction, a sweep
\* or a change to the account, puts the key back (federated_session.go, the two
\* CompareAndSwap calls).
NeverRevived ==
    [][\A k \in Keys : (k <= minted /\ ~ sessions[k].live) => ~ sessions'[k].live]_vars

\* Once a password change, a lockout or a delete made by this process has
\* returned, no session minted before it is left (InvalidateUserSessions),
\* whatever logins and refreshes were under way.
CredentialChangeEndsSessions ==
    mu = "free" => outdated \cap Live = {}

\* A refresh token that the provider has rotated out or refused is never
\* presented again, and no token is presented by two requests at once, which
\* the provider would take for theft (federatedSession.mu).
RefreshTokenSingleUse ==
    /\ \A r \in Requests : req[r].pc = "provider" => req[r].token \notin spent
    /\ \A r, q \in Requests :
          (r # q /\ req[r].pc = "provider" /\ req[q].pc = "provider")
             => req[r].token # req[q].token

\* The user never has more sessions than the limit, although refreshes and
\* swaps store sessions without the mutex under which the limit is enforced.
WithinSessionLimit == Cardinality(Live) <= MaxSessionsPerUser

\* Every request is answered, also when a refresh calls back into the store
\* while an operation that holds the store's mutex is ending sessions.
RequestsAnswered == \A r \in Requests : req[r].pc # "idle" ~> req[r] = Idle

=============================================================================
