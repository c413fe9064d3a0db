--------------------------- MODULE SessionsProofs ---------------------------
(***************************************************************************)
(* Proofs about Sessions, for any number of requests, keys, tokens and     *)
(* changes and any session limit: an ended session stays ended, a change   *)
(* of credentials leaves none of the sessions minted before it, the limit  *)
(* on a user's sessions holds, and a refresh token is presented once.      *)
(***************************************************************************)
EXTENDS Sessions, FiniteSetTheorems, TLAPS

SessionInfo == [live : BOOLEAN, expires : Nat, fed : BOOLEAN]
FederatedSession == [token : Nat, deadline : Nat, held : BOOLEAN]

\* A refresh only begins for a session that was found in the map.
Found == [live : {TRUE}, expires : Nat, fed : BOOLEAN]

\* Where a request is, with the key it presented; while it is refreshing it
\* holds the session's mutex, the session it found and a token.
ReqStates ==
    {Idle}
    \cup [pc : {"user", "lock"}, key : Keys]
    \cup [pc : {"account"}, key : Keys, found : Found, token : Nat]
    \cup [pc : {"provider"}, key : Keys, id : Nat, found : Found, token : Nat]
    \cup [pc : {"reconcile"}, key : Keys, id : Nat, found : Found, token : Nat,
          expires : Nat]

LoginStates ==
    {Idle}
    \cup [pc : {"resolved"}, id : Nat]
    \cup [pc : {"reconciled"}]
    \cup [pc : {"minted"}, key : Keys]

AccountRows == [id : Nat, enabled : BOOLEAN, source : {"local", "oidc"},
                usable : BOOLEAN, fails : Nat]

Types ==
    /\ account \in AccountRows
    /\ mu \in {"free", "invalidating"}
    /\ sessions \in [Keys -> SessionInfo]
    /\ minted \in 0..MaxKeys
    /\ fs \in [Keys -> FederatedSession]
    /\ req \in [Requests -> ReqStates]
    /\ login \in LoginStates
    /\ now \in Nat
    /\ issued \in Nat
    /\ changes \in Nat

Refreshing == {"account", "provider", "reconcile"}

-----------------------------------------------------------------------------
(* The inductive invariants *)

\* Only keys that were handed out are stored, and a change of credentials has
\* dropped the ones handed out before it by the time it gives the mutex back.
LiveInv ==
    /\ Live \subseteq 1..minted
    /\ outdated \subseteq 1..minted
    /\ CredentialChangeEndsSessions

\* A request only has a key that a client may hold: one that was handed out and
\* is not the one a federated login is still about to swap.
KeyInv ==
    /\ \A r \in Requests : req[r].pc # "idle" => req[r].key \in 1..minted
    /\ login.pc = "minted" =>
          /\ login.key \in 1..minted
          /\ \A r \in Requests : req[r].pc # "idle" => req[r].key # login.key

\* The session's mutex: whoever refreshes holds it, and alone.
MutexInv ==
    /\ \A r \in Requests : req[r].pc \in Refreshing => fs[req[r].key].held
    /\ \A r, q \in Requests :
          (r # q /\ req[r].pc \in Refreshing /\ req[q].pc \in Refreshing)
             => req[r].key # req[q].key

\* What the sessions store: tokens that were issued, no two the same, and none
\* that is spent unless its session is being refreshed.
StoredTokens ==
    /\ spent \subseteq 1..issued
    /\ \A k \in Keys : fs[k].token \in 0..issued
    /\ \A j, k \in Keys :
          (j # k /\ fs[j].token # NoToken) => fs[j].token # fs[k].token
    /\ \A k \in Keys : fs[k].token \in spent => fs[k].held

\* What the requests carry: until the provider has answered the stored token,
\* which is good; after it the new one, which is stored nowhere yet, or none,
\* and then the stored one is still good.
CarriedTokens ==
    \A r \in Requests :
      /\ req[r].pc \in {"account", "provider"} =>
            /\ req[r].token = fs[req[r].key].token
            /\ req[r].token # NoToken
            /\ req[r].token \notin spent
      /\ (req[r].pc = "reconcile" /\ req[r].token = NoToken) =>
            fs[req[r].key].token \notin spent
      /\ (req[r].pc = "reconcile" /\ req[r].token # NoToken) =>
            /\ req[r].token \in 1..issued
            /\ req[r].token \notin spent
            /\ \A k \in Keys : fs[k].token # req[r].token
            /\ \A q \in Requests :
                  (q # r /\ req[q].pc = "reconcile") => req[q].token # req[r].token

TokenInv == KeyInv /\ MutexInv /\ StoredTokens /\ CarriedTokens
-----------------------------------------------------------------------------
(* Types *)

\* What the position of a request says about its fields.
LEMMA ReqFields ==
    ASSUME Types, NEW r \in Requests
    PROVE  /\ req[r].pc \in {"idle", "user", "lock"} \cup Refreshing
           /\ req[r].pc # "idle" => req[r].key \in Keys
           /\ req[r].pc \in Refreshing => req[r].found \in Found /\ req[r].token \in Nat
           /\ req[r].pc \in {"provider", "reconcile"} => req[r].id \in Nat
           /\ req[r].pc = "reconcile" => req[r].expires \in Nat
<1>1. req[r] \in ReqStates
  BY DEF Types
<1> QED
  BY <1>1 DEF ReqStates, Idle, Refreshing

LEMMA LoginFields ==
    ASSUME Types
    PROVE  /\ login.pc = "resolved" => login.id \in Nat
           /\ login.pc = "minted" => login.key \in Keys
<1>1. login \in LoginStates
  BY DEF Types
<1> QED
  BY <1>1 DEF LoginStates, Idle

LEMMA SessionFields ==
    ASSUME Types, NEW k \in Keys
    PROVE  /\ sessions[k] \in SessionInfo /\ sessions[k].live \in BOOLEAN
           /\ sessions[k].live => sessions[k] \in Found
           /\ fs[k] \in FederatedSession
           /\ fs[k].token \in Nat /\ fs[k].deadline \in Nat /\ fs[k].held \in BOOLEAN
<1>1. sessions[k] \in SessionInfo /\ fs[k] \in FederatedSession
  BY DEF Types
<1> QED
  BY <1>1 DEF SessionInfo, FederatedSession, Found

\* Everything a step may store in the map has the type of a session.
LEMMA MapTypes ==
    ASSUME Types
    PROVE  /\ \A k : Drop(k) \in [Keys -> SessionInfo]
           /\ \A k, old : CompareAndDelete(k, old) \in [Keys -> SessionInfo]
           /\ \A k : MintedMaps(k) \subseteq [Keys -> SessionInfo]
           /\ \A k : \A e \in Nat :
                 [sessions EXCEPT ![k] = FederatedForm(e)] \in [Keys -> SessionInfo]
           /\ \A r : \A e \in Nat : StoredAfterRefresh(r, e) \in [Keys -> SessionInfo]
<1>1. NoSession \in SessionInfo
  BY DEF NoSession, SessionInfo
<1>2. now + Lifetime \in Nat
  BY SessionsAssumption DEF Types
<1>3. [live |-> TRUE, expires |-> now + Lifetime, fed |-> FALSE] \in SessionInfo
  BY <1>2 DEF SessionInfo
<1>4. \A e \in Nat : FederatedForm(e) \in SessionInfo
  BY DEF FederatedForm, SessionInfo
<1>5. sessions \in [Keys -> SessionInfo]
  BY DEF Types
<1>6. \A k : Drop(k) \in [Keys -> SessionInfo]
  BY <1>1, <1>5 DEF Drop
<1>7. \A k : \A e \in Nat :
         [sessions EXCEPT ![k] = FederatedForm(e)] \in [Keys -> SessionInfo]
  BY <1>4, <1>5
<1>8. \A k : MintedMaps(k) \subseteq [Keys -> SessionInfo]
  BY <1>1, <1>3, <1>5 DEF MintedMaps
<1> QED
  BY <1>5, <1>6, <1>7, <1>8 DEF CompareAndDelete, StoredAfterRefresh
LEMMA RowFields ==
    ASSUME Types
    PROVE  account.id \in Nat /\ account.fails \in Nat /\ NextId \in Nat
BY DEF Types, AccountRows, NextId

\* Everything a step may make of the account is a row.
LEMMA RowTypes ==
    ASSUME Types
    PROVE  /\ account \in AccountRows
           /\ Absent \in AccountRows
           /\ \A n \in Nat : [account EXCEPT !.fails = n] \in AccountRows
           /\ \A b \in BOOLEAN : /\ [account EXCEPT !.enabled = b] \in AccountRows
                                 /\ [account EXCEPT !.usable = TRUE, !.enabled = b]
                                       \in AccountRows
           /\ \A n \in Nat : [account EXCEPT !.enabled = FALSE, !.fails = n]
                                \in AccountRows
           /\ EnabledRows \cup LinkedRows \cup UnlinkedRows \subseteq AccountRows
           /\ \A n \in Nat : /\ ProvisionedRow(n) \in AccountRows
                             /\ [Absent EXCEPT !.id = n, !.enabled = TRUE,
                                               !.usable = TRUE] \in AccountRows
<1>1. account \in AccountRows
  BY DEF Types, AccountRows
<1>2. Absent \in AccountRows
  BY DEF Absent, AccountRows
<1>3. \A n \in Nat : [account EXCEPT !.fails = n] \in AccountRows
  BY <1>1 DEF AccountRows
<1>4. \A b \in BOOLEAN : [account EXCEPT !.enabled = b] \in AccountRows
  BY <1>1 DEF AccountRows
<1>5. \A b \in BOOLEAN : [account EXCEPT !.usable = TRUE, !.enabled = b] \in AccountRows
  BY <1>1 DEF AccountRows
<1>6. \A n \in Nat : [account EXCEPT !.enabled = FALSE, !.fails = n] \in AccountRows
  BY <1>1 DEF AccountRows
<1>7. EnabledRows \cup LinkedRows \cup UnlinkedRows \subseteq AccountRows
  <2>1. /\ [account EXCEPT !.enabled = TRUE, !.fails = 0] \in AccountRows
        /\ [account EXCEPT !.source = "oidc"] \in AccountRows
        /\ [account EXCEPT !.source = "local", !.usable = FALSE] \in AccountRows
        /\ [account EXCEPT !.source = "local"] \in AccountRows
    BY <1>1 DEF AccountRows
  <2> QED
    BY <1>4, <2>1 DEF EnabledRows, LinkedRows, UnlinkedRows
<1>8. \A n \in Nat : ProvisionedRow(n) \in AccountRows
  BY <1>2 DEF AccountRows, ProvisionedRow
<1>9. \A n \in Nat : [Absent EXCEPT !.id = n, !.enabled = TRUE, !.usable = TRUE]
                        \in AccountRows
  BY <1>2 DEF AccountRows
<1> QED
  BY <1>1, <1>2, <1>3, <1>4, <1>5, <1>6, <1>7, <1>8, <1>9

\* A change of the position of one request.
LEMMA GotoTypes ==
    ASSUME Types, NEW r \in Requests, NEW rec \in ReqStates, Goto(r, rec)
    PROVE  /\ req' \in [Requests -> ReqStates]
           /\ req'[r] = rec
           /\ \A q \in Requests \ {r} : req'[q] = req[q]
BY DEF Types, Goto

\* A refresh that ends writes the token and gives the session's mutex back.
LEMMA FsUpdate ==
    ASSUME NEW f \in FederatedSession, NEW t \in Nat, NEW g,
           g = [[f EXCEPT !.token = t] EXCEPT !.held = FALSE]
    PROVE  g \in FederatedSession /\ g.token = t /\ ~ g.held
BY DEF FederatedSession

\* The two ways a refresh ends, and a request's part in the types.
LEMMA RefreshFailsTypes ==
    ASSUME Types, NEW r \in Requests, req[r].pc \in Refreshing, RefreshFails(r)
    PROVE  /\ fs' \in [Keys -> FederatedSession]
           /\ fs'[req[r].key].token = NoToken
           /\ ~ fs'[req[r].key].held
           /\ \A k \in Keys \ {req[r].key} : fs'[k] = fs[k]
           /\ sessions' = CompareAndDelete(req[r].key, req[r].found)
           /\ Goto(r, Idle)
<1>1. PICK k \in Keys : k = req[r].key
  BY ReqFields DEF Refreshing
<1>2. fs' = [fs EXCEPT ![k] = [[fs[k] EXCEPT !.token = NoToken] EXCEPT !.held = FALSE]]
  BY <1>1 DEF RefreshFails, Types
<1>3. fs'[k] \in FederatedSession /\ fs'[k].token = NoToken /\ ~ fs'[k].held
  BY <1>2, SessionFields, FsUpdate DEF NoToken, Types
<1>4. /\ sessions' = CompareAndDelete(k, req[r].found)
      /\ Goto(r, Idle)
  BY <1>1 DEF RefreshFails
<1> QED
  BY <1>1, <1>2, <1>3, <1>4 DEF Types

LEMMA ApplyRefreshTypes ==
    ASSUME Types, NEW r \in Requests, req[r].pc \in Refreshing,
           NEW token \in Nat, NEW expires \in Nat, ApplyRefresh(r, token, expires)
    PROVE  /\ fs' \in [Keys -> FederatedSession]
           /\ fs'[req[r].key].token = NextToken(req[r].key, token)
           /\ ~ fs'[req[r].key].held
           /\ \A k \in Keys \ {req[r].key} : fs'[k] = fs[k]
           /\ \/ sessions' = CompareAndDelete(req[r].key, req[r].found)
              \/ \E e \in Nat : sessions' = StoredAfterRefresh(r, e)
           /\ \/ Goto(r, Idle)
              \/ Goto(r, [pc |-> "user", key |-> req[r].key])
<1>1. PICK k \in Keys : k = req[r].key
  BY ReqFields DEF Refreshing
<1>2. PICK t \in Nat : t = NextToken(k, token)
  BY SessionFields DEF NextToken
<1>3. fs' = [fs EXCEPT ![k] = [[fs[k] EXCEPT !.token = t] EXCEPT !.held = FALSE]]
  BY <1>1, <1>2 DEF ApplyRefresh, Types
<1>4. fs'[k] \in FederatedSession /\ fs'[k].token = t /\ ~ fs'[k].held
  BY <1>3, SessionFields, FsUpdate DEF NoToken, Types
<1>5. \/ sessions' = CompareAndDelete(req[r].key, req[r].found)
      \/ \E e \in Nat : sessions' = StoredAfterRefresh(r, e)
  BY <1>1, SessionFields DEF ApplyRefresh
<1>6. \/ Goto(r, Idle)
      \/ Goto(r, [pc |-> "user", key |-> req[r].key])
  BY DEF ApplyRefresh
<1> QED
  BY <1>1, <1>2, <1>3, <1>4, <1>5, <1>6 DEF Types
\* The positions a request may go to.
LEMMA ReqStateTypes ==
    /\ Idle \in ReqStates
    /\ \A k \in Keys : /\ [pc |-> "user", key |-> k] \in ReqStates
                       /\ [pc |-> "lock", key |-> k] \in ReqStates
    /\ \A k \in Keys, f \in Found, t \in Nat :
          [pc |-> "account", key |-> k, found |-> f, token |-> t] \in ReqStates
    /\ \A k \in Keys, i \in Nat, f \in Found, t \in Nat :
          [pc |-> "provider", key |-> k, id |-> i, found |-> f, token |-> t] \in ReqStates
    /\ \A k \in Keys, i \in Nat, f \in Found, t \in Nat, e \in Nat :
          [pc |-> "reconcile", key |-> k, id |-> i, found |-> f, token |-> t,
           expires |-> e] \in ReqStates
BY DEF ReqStates

\* Minting a session, whoever asks for it.
LEMMA MintTypes ==
    ASSUME Types, CreateSessionForUser
    PROVE  /\ sessions' \in [Keys -> SessionInfo]
           /\ minted' \in 0..MaxKeys
           /\ minted + 1 \in Keys
           /\ account' \in AccountRows
<1>1. sessions' \in [Keys -> SessionInfo]
  BY MapTypes DEF CreateSessionForUser
<1>2. minted' \in 0..MaxKeys /\ minted + 1 \in Keys
  BY SessionsAssumption DEF CreateSessionForUser, Types, Keys
<1>3. account' \in AccountRows
  BY RowTypes DEF CreateSessionForUser
<1> QED
  BY <1>1, <1>2, <1>3

LEMMA AccountStep == Types /\ [Next]_vars => account' \in AccountRows
<1> SUFFICES ASSUME Types, [Next]_vars PROVE account' \in AccountRows
  OBVIOUS
<1>1. account.fails \in Nat /\ account.fails + 1 \in Nat /\ NextId \in Nat
  BY RowFields
<1>2. CASE account' = account
  BY <1>2, RowTypes
<1>3. CASE CreateSessionForUser
  BY <1>3, MintTypes
<1>4. CASE FailedAttempt
  BY <1>1, <1>4, RowTypes, SessionsAssumption DEF FailedAttempt
<1>5. ASSUME NEW b \in BOOLEAN, SetPassword(b) \/ SetEnabled(b)
      PROVE  account' \in AccountRows
  BY <1>5, RowTypes DEF SetPassword, SetEnabled
<1>6. CASE DeleteUser \/ CreateUser \/ CommandLine \/ ResolveFederatedUser
  BY <1>1, <1>2, <1>6, RowTypes
     DEF DeleteUser, CreateUser, CommandLine, ResolveFederatedUser
<1> QED
  BY <1>2, <1>3, <1>4, <1>5, <1>6
     DEF Next, vars, AuthenticateUser, LoginMint, Invalidation, Unlock,
         InvalidateUserSessions, LoginReconcile, CreateFederatedSession, Present,
         RequestStep, LockSession, RefreshableAccount, ProviderRefresh,
         RefreshReconcile, CheckUser, InvalidateSession, SweepExpiredSessions,
         Tick, StoreVars

LEMMA TypesStep == Types /\ [Next]_vars => Types'
<1> SUFFICES ASSUME Types, [Next]_vars PROVE Types'
  OBVIOUS
<1>0. account' \in AccountRows
  BY AccountStep
<1>1. CASE UNCHANGED vars
  BY <1>1 DEF vars, Types
<1>2. CASE AuthenticateUser
  BY <1>0, <1>2, MintTypes DEF AuthenticateUser, Types
<1>3. CASE FailedAttempt
  BY <1>0, <1>3 DEF FailedAttempt, Types
<1>4. ASSUME NEW b \in BOOLEAN, SetPassword(b) \/ SetEnabled(b) PROVE Types'
  BY <1>0, <1>4 DEF SetPassword, SetEnabled, Change, Types
<1>5. CASE DeleteUser
  BY <1>0, <1>5 DEF DeleteUser, Change, Types
<1>6. CASE CreateUser
  BY <1>0, <1>6 DEF CreateUser, NextId, Types
<1>7. CASE Invalidation
  BY <1>0, <1>7, MapTypes DEF Invalidation, Unlock, InvalidateUserSessions, Types
<1>8. CASE CommandLine
  BY <1>0, <1>8 DEF CommandLine, Types
<1>9. CASE ResolveFederatedUser
  <2>1. account.id \in Nat /\ NextId \in Nat
    BY RowFields
  <2>2. login' \in LoginStates
    BY <1>9, <2>1 DEF ResolveFederatedUser, LoginStates
  <2> QED
    BY <1>0, <1>9, <2>2 DEF ResolveFederatedUser, LoginVars, Types
<1>10. CASE LoginReconcile
  <2>1. login' \in LoginStates
    BY <1>10 DEF LoginReconcile, LoginStates
  <2> QED
    BY <1>0, <1>10, <2>1 DEF LoginReconcile, LoginVars, Types
<1>11. CASE LoginMint
  <2>1. login' \in LoginStates
    BY <1>11, MintTypes DEF LoginMint, LoginStates
  <2>2. /\ sessions' \in [Keys -> SessionInfo] /\ minted' \in 0..MaxKeys
        /\ account' \in AccountRows
    BY <1>11, MintTypes DEF LoginMint, Types
  <2> QED
    BY <1>0, <1>11, <2>1, <2>2 DEF LoginMint, LoginVars, Types
<1>12. CASE CreateFederatedSession
  <2>1. PICK k \in Keys : k = login.key
    BY <1>12, LoginFields DEF CreateFederatedSession
  <2>2. now + 1 \in Nat /\ now + Lifetime \in Nat
    BY SessionsAssumption DEF Types
  <2>3. /\ sessions' \in [Keys -> SessionInfo]
        /\ fs' \in [Keys -> FederatedSession]
        /\ issued' \in Nat
    <3>1. CASE UNCHANGED <<sessions, fs, issued>>
      BY <3>1 DEF Types
    <3>2. ASSUME sessions' = [sessions EXCEPT ![k] = FederatedForm(now + 1)],
                 NEW t \in {NoToken, issued + 1} \cap 0..MaxTokens,
                 fs' = [fs EXCEPT ![k] = [token |-> t, held |-> FALSE,
                                          deadline |-> now + Lifetime]],
                 issued' = IF t = NoToken THEN issued ELSE t
          PROVE  /\ sessions' \in [Keys -> SessionInfo]
                 /\ fs' \in [Keys -> FederatedSession]
                 /\ issued' \in Nat
      <4>1. t \in Nat
        BY SessionsAssumption
      <4>2. [token |-> t, held |-> FALSE, deadline |-> now + Lifetime] \in FederatedSession
        BY <4>1, <2>2 DEF FederatedSession
      <4>3. issued' \in Nat
        BY <4>1, <3>2 DEF Types
      <4> QED
        BY <3>2, <4>2, <4>3, <2>2, MapTypes DEF Types
    <3> QED
      BY <1>12, <2>1, <3>1, <3>2 DEF CreateFederatedSession
  <2>4. login' \in LoginStates
    BY <1>12 DEF CreateFederatedSession, LoginStates
  <2> QED
    BY <1>0, <1>12, <2>3, <2>4 DEF CreateFederatedSession, Types
<1>13. ASSUME NEW r \in Requests, NEW k \in Keys, Present(r, k) PROVE Types'
  <2>1. sessions' \in [Keys -> SessionInfo]
    BY <1>13, MapTypes DEF Present, Types
  <2>2. req' \in [Requests -> ReqStates]
    BY <1>13, GotoTypes, ReqStateTypes DEF Present, Types
  <2> QED
    BY <1>0, <1>13, <2>1, <2>2 DEF Present, StoreVars, Types
<1>14. ASSUME NEW r \in Requests, LockSession(r) PROVE Types'
  <2>1. PICK k \in Keys : k = req[r].key
    BY <1>14, ReqFields DEF LockSession
  <2>2. sessions' \in [Keys -> SessionInfo]
    BY <1>14, MapTypes DEF LockSession, Types
  <2>3. fs' \in [Keys -> FederatedSession]
    <3>1. fs' = fs \/ fs' = [fs EXCEPT ![k] = [fs[k] EXCEPT !.held = TRUE]]
      BY <1>14, <2>1 DEF LockSession, Types
    <3>2. [fs[k] EXCEPT !.held = TRUE] \in FederatedSession
      BY SessionFields DEF FederatedSession
    <3> QED
      BY <3>1, <3>2 DEF Types
  <2>4. req' \in [Requests -> ReqStates]
    <3>1. \E rec \in ReqStates : Goto(r, rec)
      BY <1>14, <2>1, ReqStateTypes, SessionFields DEF LockSession
    <3> QED
      BY <3>1, GotoTypes
  <2> QED
    BY <1>0, <1>14, <2>2, <2>3, <2>4 DEF LockSession, StoreVars, Types
<1>15. ASSUME NEW r \in Requests, req[r].pc \in Refreshing, RefreshFails(r)
       PROVE  /\ sessions' \in [Keys -> SessionInfo]
              /\ fs' \in [Keys -> FederatedSession]
              /\ req' \in [Requests -> ReqStates]
  BY <1>15, RefreshFailsTypes, MapTypes, GotoTypes, ReqStateTypes
<1>16. ASSUME NEW r \in Requests, req[r].pc \in Refreshing,
              NEW token \in Nat, NEW expires \in Nat, ApplyRefresh(r, token, expires)
       PROVE  /\ sessions' \in [Keys -> SessionInfo]
              /\ fs' \in [Keys -> FederatedSession]
              /\ req' \in [Requests -> ReqStates]
  <2>1. req[r].key \in Keys
    BY <1>16, ReqFields DEF Refreshing
  <2> QED
    <3>1. PICK u \in ReqStates : u = [pc |-> "user", key |-> req[r].key]
      BY <2>1, ReqStateTypes
    <3>2. Goto(r, Idle) \/ Goto(r, u)
      BY <1>16, <3>1, ApplyRefreshTypes
    <3>3. req' \in [Requests -> ReqStates]
      BY <3>2, GotoTypes, ReqStateTypes
    <3>4. /\ fs' \in [Keys -> FederatedSession]
          /\ \/ sessions' = CompareAndDelete(req[r].key, req[r].found)
             \/ \E e \in Nat : sessions' = StoredAfterRefresh(r, e)
      BY <1>16, ApplyRefreshTypes
    <3>5. sessions' \in [Keys -> SessionInfo]
      BY <3>4, MapTypes
    <3> QED
      BY <3>3, <3>4, <3>5
<1>17. ASSUME NEW r \in Requests, RefreshableAccount(r) PROVE Types'
  <2>1. req[r].pc \in Refreshing /\ req[r].key \in Keys /\ account.id \in Nat
        /\ req[r].found \in Found /\ req[r].token \in Nat
    BY <1>17, ReqFields, RowFields DEF RefreshableAccount, Refreshing
  <2>2. /\ sessions' \in [Keys -> SessionInfo]
        /\ fs' \in [Keys -> FederatedSession]
        /\ req' \in [Requests -> ReqStates]
    BY <1>15, <1>17, <2>1, GotoTypes, ReqStateTypes DEF RefreshableAccount, Types
  <2> QED
    BY <1>0, <1>17, <2>2 DEF RefreshableAccount, StoreVars, Types
<1>18. ASSUME NEW r \in Requests, ProviderRefresh(r) PROVE Types'
  <2>1. req[r].pc \in Refreshing /\ req[r].key \in Keys /\ req[r].id \in Nat
        /\ req[r].found \in Found /\ req[r].token \in Nat
    BY <1>18, ReqFields DEF ProviderRefresh, Refreshing
  <2>2. \A t \in {NoToken, issued + 1} \cap 0..MaxTokens : t \in Nat
    BY SessionsAssumption
  <2>3. \A e \in {now, now + 1} : e \in Nat
    BY DEF Types
  <2>4. /\ sessions' \in [Keys -> SessionInfo]
        /\ fs' \in [Keys -> FederatedSession]
        /\ req' \in [Requests -> ReqStates]
    BY <1>15, <1>16, <1>18, <2>1, <2>2, <2>3, GotoTypes, ReqStateTypes
       DEF ProviderRefresh, Types
  <2>5. issued' \in Nat
    BY <1>18, <2>2 DEF ProviderRefresh, Types
  <2> QED
    BY <1>0, <1>18, <2>4, <2>5 DEF ProviderRefresh, Types
<1>19. ASSUME NEW r \in Requests, RefreshReconcile(r) PROVE Types'
  <2>1. req[r].pc \in Refreshing /\ req[r].token \in Nat /\ req[r].expires \in Nat
    BY <1>19, ReqFields DEF RefreshReconcile, Refreshing
  <2>2. /\ sessions' \in [Keys -> SessionInfo]
        /\ fs' \in [Keys -> FederatedSession]
        /\ req' \in [Requests -> ReqStates]
    BY <1>15, <1>16, <1>19, <2>1 DEF RefreshReconcile
  <2> QED
    BY <1>0, <1>19, <2>2 DEF RefreshReconcile, StoreVars, Types
<1>20. ASSUME NEW r \in Requests, CheckUser(r) PROVE Types'
  <2>1. sessions' \in [Keys -> SessionInfo] /\ req' \in [Requests -> ReqStates]
    BY <1>20, MapTypes, GotoTypes, ReqStateTypes DEF CheckUser, Types
  <2> QED
    BY <1>0, <1>20, <2>1 DEF CheckUser, StoreVars, Types
<1>21. ASSUME NEW k \in Keys, InvalidateSession(k) \/ SweepExpiredSessions(k)
       PROVE  Types'
  BY <1>0, <1>21, MapTypes DEF InvalidateSession, SweepExpiredSessions, StoreVars, Types
<1>22. CASE Tick
  BY <1>0, <1>22 DEF Tick, Types
<1> QED
  BY <1>1, <1>2, <1>3, <1>4, <1>5, <1>6, <1>7, <1>8, <1>9, <1>10, <1>11, <1>12,
     <1>13, <1>14, <1>17, <1>18, <1>19, <1>20, <1>21, <1>22 DEF Next, RequestStep
-----------------------------------------------------------------------------
(* What a step does to the map of sessions *)

\* No session is stored under a key that has none.
Ends ==
    /\ minted' = minted
    /\ \A k \in Keys : sessions'[k].live => sessions[k].live

\* One key more is handed out, with the store's mutex held for the whole step.
Mints ==
    /\ mu = "free"
    /\ minted' = minted + 1
    /\ minted + 1 \in Keys
    /\ sessions' \in MintedMaps(minted + 1)
    /\ UNCHANGED <<mu, outdated>>

StoreStep ==
    \/ Mints
    \/ Ends /\ UNCHANGED <<mu, outdated>>
    \/ Ends /\ mu' = "invalidating" /\ outdated' = 1..minted
    \/ Ends /\ mu' = "free" /\ Live = {} /\ outdated' = outdated

LEMMA EndingMaps ==
    ASSUME Types
    PROVE  /\ \A k, j \in Keys : Drop(k)[j].live => sessions[j].live
           /\ \A k, j \in Keys : \A old :
                 CompareAndDelete(k, old)[j].live => sessions[j].live
           /\ \A r \in Requests : \A e : \A j \in Keys :
                 (req[r].pc \in Refreshing /\ StoredAfterRefresh(r, e)[j].live)
                     => sessions[j].live
<1>1. \A k, j \in Keys : Drop(k)[j].live => sessions[j].live
  BY DEF Drop, NoSession, Types
<1>2. \A k, j \in Keys : \A old :
         CompareAndDelete(k, old)[j].live => sessions[j].live
  BY <1>1 DEF CompareAndDelete
<1>3. ASSUME NEW r \in Requests, NEW e, NEW j \in Keys, req[r].pc \in Refreshing,
             StoredAfterRefresh(r, e)[j].live
      PROVE  sessions[j].live
  <2>1. req[r].key \in Keys /\ req[r].found \in Found
    BY <1>3, ReqFields DEF Refreshing
  <2>2. req[r].found.live
    BY <2>1 DEF Found
  <2>3. CASE j = req[r].key /\ sessions[j] = req[r].found
    BY <2>2, <2>3
  <2>4. CASE j # req[r].key \/ sessions[req[r].key] # req[r].found
    BY <1>3, <2>1, <2>4 DEF StoredAfterRefresh, Types
  <2> QED
    BY <2>3, <2>4
<1> QED
  BY <1>1, <1>2, <1>3

LEMMA StoreSteps == Types /\ [Next]_vars => StoreStep
<1> SUFFICES ASSUME Types, [Next]_vars PROVE StoreStep
  OBVIOUS
<1>1. ASSUME sessions' = sessions \/ \E k \in Keys : sessions' = Drop(k),
             minted' = minted
      PROVE  Ends
  BY <1>1, EndingMaps DEF Ends
<1>2. ASSUME NEW r \in Requests, RequestStep(r) PROVE Ends
  <2>1. minted' = minted
    BY <1>2 DEF RequestStep, LockSession, RefreshableAccount, ProviderRefresh,
       RefreshReconcile, CheckUser, StoreVars
  <2>2. req[r].key \in Keys
    BY <1>2, ReqFields DEF RequestStep, LockSession, RefreshableAccount,
       ProviderRefresh, RefreshReconcile, CheckUser
  <2>3. ASSUME req[r].pc \in Refreshing, RefreshFails(r) PROVE Ends
    BY <2>1, <2>2, <2>3, EndingMaps DEF RefreshFails, Ends
  <2>4. ASSUME req[r].pc \in Refreshing, NEW t, NEW e, ApplyRefresh(r, t, e)
        PROVE  Ends
    BY <2>1, <2>2, <2>4, EndingMaps DEF ApplyRefresh, Ends
  <2>5. CASE LockSession(r) \/ CheckUser(r)
    BY <1>1, <2>1, <2>2, <2>5 DEF LockSession, CheckUser
  <2>6. CASE RefreshableAccount(r)
    BY <1>1, <2>1, <2>3, <2>6 DEF RefreshableAccount, Refreshing
  <2>7. CASE ProviderRefresh(r)
    BY <1>1, <2>1, <2>3, <2>4, <2>7 DEF ProviderRefresh, Refreshing
  <2>8. CASE RefreshReconcile(r)
    BY <2>3, <2>4, <2>8 DEF RefreshReconcile, Refreshing
  <2> QED
    BY <1>2, <2>5, <2>6, <2>7, <2>8 DEF RequestStep
<1>3. CASE AuthenticateUser \/ LoginMint
  <2>1. CASE CreateSessionForUser /\ UNCHANGED <<mu, outdated>>
    BY <2>1, MintTypes DEF CreateSessionForUser, Mints, StoreStep
  <2>2. CASE UNCHANGED <<sessions, minted, mu, outdated>>
    BY <1>1, <2>2 DEF StoreStep
  <2> QED
    BY <1>3, <2>1, <2>2 DEF AuthenticateUser, LoginMint, LoginVars
<1>4. CASE CreateFederatedSession
  <2>1. PICK k \in Keys : k = login.key
    BY <1>4, LoginFields DEF CreateFederatedSession
  <2>2. \/ sessions' = sessions
        \/ sessions[k].live /\ sessions' = [sessions EXCEPT ![k] = FederatedForm(now + 1)]
    BY <1>4, <2>1 DEF CreateFederatedSession
  <2>3. Ends
    BY <1>4, <2>2 DEF CreateFederatedSession, Ends, Types
  <2> QED
    BY <1>4, <2>3 DEF CreateFederatedSession, StoreStep
<1>5. CASE FailedAttempt
  BY <1>1, <1>5 DEF FailedAttempt, StoreStep
<1>6. ASSUME NEW b \in BOOLEAN, SetPassword(b) \/ SetEnabled(b) PROVE StoreStep
  BY <1>1, <1>6 DEF SetPassword, SetEnabled, Change, StoreStep
<1>7. CASE DeleteUser
  BY <1>1, <1>7 DEF DeleteUser, Change, StoreStep
<1>8. CASE Invalidation
  BY <1>1, <1>8 DEF Invalidation, Unlock, InvalidateUserSessions, StoreStep
<1>9. CASE CreateUser \/ CommandLine \/ ResolveFederatedUser \/ LoginReconcile \/ Tick
           \/ UNCHANGED vars
  <2>1. UNCHANGED <<sessions, minted, mu, outdated>>
    BY <1>9 DEF CreateUser, CommandLine, ResolveFederatedUser, LoginReconcile, Tick,
       vars, LoginVars
  <2> QED
    BY <1>1, <2>1 DEF StoreStep
<1>10. ASSUME NEW r \in Requests, NEW k \in Keys, Present(r, k) PROVE StoreStep
  BY <1>1, <1>10 DEF Present, StoreVars, StoreStep
<1>11. ASSUME NEW r \in Requests, RequestStep(r) PROVE StoreStep
  <2>1. UNCHANGED <<mu, outdated>>
    BY <1>11 DEF RequestStep, LockSession, RefreshableAccount, ProviderRefresh,
       RefreshReconcile, CheckUser, StoreVars
  <2> QED
    BY <1>2, <1>11, <2>1 DEF StoreStep
<1>12. ASSUME NEW k \in Keys, InvalidateSession(k) \/ SweepExpiredSessions(k)
       PROVE  StoreStep
  BY <1>1, <1>12 DEF InvalidateSession, SweepExpiredSessions, StoreVars, StoreStep
<1> QED
  BY <1>3, <1>4, <1>5, <1>6, <1>7, <1>8, <1>9, <1>10, <1>11, <1>12 DEF Next
-----------------------------------------------------------------------------
(* An ended session stays ended; credential changes and the session limit *)

\* Minting adds the new key, and takes an old one away when the limit is met.
LEMMA MintedLive ==
    ASSUME Types, Mints
    PROVE  \/ Cardinality(Live) < MaxSessionsPerUser /\ Live' = Live \cup {minted + 1}
           \/ \E o \in Live \ {minted + 1} : Live' = (Live \ {o}) \cup {minted + 1}
           \/ minted + 1 \in Live
<1>1. PICK n \in Keys : n = minted + 1
  BY DEF Mints
<1>2. PICK new : new = [live |-> TRUE, expires |-> now + Lifetime, fed |-> FALSE]
  OBVIOUS
<1>3. new.live
  BY <1>2
<1>4. ~ NoSession.live
  BY DEF NoSession
<1>5. CASE Cardinality(Live) < MaxSessionsPerUser
  <2>1. sessions' = [sessions EXCEPT ![n] = new]
    BY <1>1, <1>2, <1>5 DEF Mints, MintedMaps
  <2>2. Live' = Live \cup {n}
    BY <1>3, <2>1 DEF Live, Types
  <2> QED
    BY <1>1, <1>5, <2>2
<1>6. CASE ~ (Cardinality(Live) < MaxSessionsPerUser)
  <2>1. PICK o \in Live : sessions' = [sessions EXCEPT ![o] = NoSession, ![n] = new]
    BY <1>1, <1>2, <1>6 DEF Mints, MintedMaps
  <2>2. o \in Keys
    BY DEF Live
  <2>3. \A k \in Keys : sessions'[k] = IF k = n THEN new
                                       ELSE IF k = o THEN NoSession ELSE sessions[k]
    BY <2>1, <2>2 DEF Types
  <2>4. Live' = (Live \ {o}) \cup {n}
    BY <1>3, <1>4, <2>3 DEF Live
  <2> QED
    BY <1>1, <2>4
<1> QED
  BY <1>5, <1>6

LEMMA LiveIsFinite ==
    IsFiniteSet(Live) /\ Cardinality(Live) \in Nat
<1>1. IsFiniteSet(Keys)
  BY SessionsAssumption, FS_Interval DEF Keys
<1> QED
  BY <1>1, FS_Subset, FS_CardinalityType DEF Live

\* A step that ends sessions leaves no more of them.
LEMMA EndsShrinks ==
    ASSUME Ends
    PROVE  Live' \subseteq Live
BY DEF Ends, Live

LEMMA LiveStep == Types /\ LiveInv /\ [Next]_vars => LiveInv'
<1> SUFFICES ASSUME Types, LiveInv, [Next]_vars PROVE LiveInv'
  OBVIOUS
<1>1. minted \in Nat /\ mu \in {"free", "invalidating"}
  BY SessionsAssumption DEF Types
<1>2. CASE Mints
  <2>1. minted + 1 \notin Live
    BY <1>1 DEF LiveInv
  <2>2. Live' \subseteq Live \cup {minted + 1}
    BY <1>2, <2>1, MintedLive
  <2>3. minted' = minted + 1 /\ outdated' = outdated /\ mu = "free"
    BY <1>2 DEF Mints
  <2>4. outdated \cap Live = {} /\ minted + 1 \notin outdated
    BY <1>1, <2>3 DEF LiveInv, CredentialChangeEndsSessions
  <2>5. outdated' \cap Live' = {}
    BY <2>2, <2>3, <2>4
  <2>6. Live' \subseteq 1..minted' /\ outdated' \subseteq 1..minted'
    BY <1>1, <2>2, <2>3 DEF LiveInv
  <2> QED
    BY <2>5, <2>6 DEF LiveInv, CredentialChangeEndsSessions
<1>3. CASE Ends /\ UNCHANGED <<mu, outdated>>
  BY <1>3, EndsShrinks DEF LiveInv, CredentialChangeEndsSessions, Ends
<1>4. CASE Ends /\ mu' = "invalidating" /\ outdated' = 1..minted
  BY <1>4, EndsShrinks DEF LiveInv, CredentialChangeEndsSessions, Ends
<1>5. CASE Ends /\ mu' = "free" /\ Live = {} /\ outdated' = outdated
  BY <1>5, EndsShrinks DEF LiveInv, CredentialChangeEndsSessions, Ends
<1> QED
  BY <1>2, <1>3, <1>4, <1>5, StoreSteps DEF StoreStep

LEMMA LimitStep == Types /\ LiveInv /\ WithinSessionLimit /\ [Next]_vars => WithinSessionLimit'
<1> SUFFICES ASSUME Types, LiveInv, WithinSessionLimit, [Next]_vars
             PROVE  Cardinality(Live') <= MaxSessionsPerUser
  BY DEF WithinSessionLimit
<1>1. IsFiniteSet(Live) /\ Cardinality(Live) \in Nat /\ MaxSessionsPerUser \in Nat
      /\ Cardinality(Live) <= MaxSessionsPerUser
  BY LiveIsFinite, SessionsAssumption DEF WithinSessionLimit
<1>2. ASSUME Ends PROVE Cardinality(Live') <= MaxSessionsPerUser
  <2>1. Cardinality(Live') \in Nat /\ Cardinality(Live') <= Cardinality(Live)
    BY <1>1, <1>2, EndsShrinks, FS_Subset, FS_CardinalityType
  <2> QED
    BY <1>1, <2>1
<1>3. CASE Mints
  <2>1. minted + 1 \notin Live
    BY SessionsAssumption DEF LiveInv, Types
  <2>2. CASE Cardinality(Live) < MaxSessionsPerUser /\ Live' = Live \cup {minted + 1}
    <3>1. Cardinality(Live') = Cardinality(Live) + 1
      BY <1>1, <2>1, <2>2, FS_AddElement
    <3> QED
      BY <1>1, <2>2, <3>1
  <2>3. ASSUME NEW o \in Live, Live' = (Live \ {o}) \cup {minted + 1}
        PROVE  Cardinality(Live') <= MaxSessionsPerUser
    <3>1. /\ IsFiniteSet(Live \ {o})
          /\ Cardinality(Live \ {o}) = Cardinality(Live) - 1
      BY <1>1, FS_RemoveElement
    <3>2. Cardinality(Live') = Cardinality(Live \ {o}) + 1
      BY <2>1, <2>3, <3>1, FS_AddElement
    <3> QED
      BY <1>1, <3>1, <3>2
  <2> QED
    BY <1>3, <2>1, <2>2, <2>3, MintedLive
<1> QED
  BY <1>2, <1>3, StoreSteps DEF StoreStep

LEMMA InitTypes == Init => Types
<1> SUFFICES ASSUME Init PROVE Types
  OBVIOUS
<1>1. account \in AccountRows
  <2>1. PICK src \in {"local", "oidc"} :
           account = [Absent EXCEPT !.id = 1, !.enabled = TRUE, !.source = src,
                                    !.usable = (src = "local")]
    BY DEF Init
  <2> QED
    BY <2>1 DEF Absent, AccountRows
<1>2. NoSession \in SessionInfo /\ NoFs \in FederatedSession
  BY DEF NoSession, SessionInfo, NoFs, FederatedSession, NoToken
<1>3. Idle \in ReqStates /\ Idle \in LoginStates
  BY DEF ReqStates, LoginStates
<1>4. /\ sessions \in [Keys -> SessionInfo]
      /\ fs \in [Keys -> FederatedSession]
      /\ req \in [Requests -> ReqStates]
  BY <1>2, <1>3, Zenon DEF Init
<1>5. minted \in 0..MaxKeys /\ now \in Nat /\ issued \in Nat /\ changes \in Nat
  BY SessionsAssumption DEF Init
<1>6. login \in LoginStates /\ mu \in {"free", "invalidating"}
  BY <1>3 DEF Init
<1> QED
  BY <1>1, <1>4, <1>5, <1>6 DEF Types

LEMMA TypesCorrect == Spec => []Types
BY InitTypes, TypesStep, PTL DEF Spec

LEMMA InitLive == Init => LiveInv /\ WithinSessionLimit
<1> SUFFICES ASSUME Init PROVE LiveInv /\ WithinSessionLimit
  OBVIOUS
<1>1. Live = {}
  BY DEF Init, Live, NoSession
<1>2. Cardinality(Live) = 0
  BY <1>1, FS_EmptySet
<1> QED
  BY <1>1, <1>2, SessionsAssumption
     DEF Init, LiveInv, CredentialChangeEndsSessions, WithinSessionLimit

LEMMA LiveCorrect == Spec => []LiveInv
BY InitLive, TypesCorrect, LiveStep, PTL DEF Spec

\* A session that was ended stays ended, whatever refreshes and logins were under
\* way when a logout, an eviction, the sweeper or a change of the account ended
\* it: neither CompareAndSwap of federated_session.go puts its key back.
THEOREM NeverRevivedHolds == Spec => NeverRevived
<1>1. Types /\ LiveInv /\ [Next]_vars =>
        [\A k \in Keys : (k <= minted /\ ~ sessions[k].live) => ~ sessions'[k].live]_vars
  <2> SUFFICES ASSUME Types, LiveInv, [Next]_vars, NEW k \in Keys,
                      k <= minted, ~ sessions[k].live
               PROVE  ~ sessions'[k].live
    OBVIOUS
  <2>1. CASE Ends
    BY <2>1 DEF Ends
  <2>2. CASE Mints
    <3>1. k # minted + 1 /\ minted + 1 \notin Live
      BY SessionsAssumption DEF Types, Keys, LiveInv
    <3> QED
      BY <2>2, <3>1, MintedLive DEF Live
  <2> QED
    BY <2>1, <2>2, StoreSteps DEF StoreStep
<1> QED
  BY <1>1, TypesCorrect, LiveCorrect, PTL DEF Spec, NeverRevived

\* Once a password change, a lockout or a delete has given the store's mutex
\* back, no session minted before it is left (InvalidateUserSessions).
THEOREM CredentialChangeHolds == Spec => []CredentialChangeEndsSessions
BY LiveCorrect, PTL DEF LiveInv

\* The user never has more than maxSessionsPerUser sessions, although refreshes
\* and swaps store sessions without the mutex that guards the limit.
THEOREM WithinSessionLimitHolds == Spec => []WithinSessionLimit
BY InitLive, TypesCorrect, LiveCorrect, LimitStep, PTL DEF Spec
-----------------------------------------------------------------------------
(* What a step of a request does to the tokens *)

\* The refresh, if there was one, is over.
Done(r) == req'[r].pc \notin Refreshing
           /\ (req'[r].pc # "idle" => req'[r].key = req[r].key)

\* The federated part of the request's session alone changes.
OnlyFs(r) == \A k \in Keys \ {req[r].key} : fs'[k] = fs[k]

\* Steps that touch no token: before a refresh, and the look at the account.
Waits(r) ==
    /\ UNCHANGED <<fs, issued, spent>>
    /\ \/ req[r].pc \notin Refreshing /\ Done(r)
       \/ /\ req[r].pc = "account" /\ req'[r].pc = "provider"
          /\ req'[r].key = req[r].key /\ req'[r].token = req[r].token

\* The session's mutex is taken, and the stored token with it.
Begins(r) ==
    /\ req[r].pc = "lock" /\ req'[r].pc = "account" /\ req'[r].key = req[r].key
    /\ ~ fs[req[r].key].held /\ fs'[req[r].key].held
    /\ fs[req[r].key].token # NoToken
    /\ fs'[req[r].key].token = fs[req[r].key].token
    /\ req'[r].token = fs[req[r].key].token
    /\ OnlyFs(r)
    /\ UNCHANGED <<issued, spent>>

\* What the provider does: nothing, or it rotates the request's token out.
Keeps(t) == t = NoToken /\ UNCHANGED <<issued, spent>>
Rotates(r, t) ==
    /\ t = issued + 1 /\ issued' = t
    /\ spent' = spent \cup {req[r].token}

\* The refresh fails, and the token is dropped.
Fails(r) ==
    /\ req[r].pc \in Refreshing /\ Done(r)
    /\ fs'[req[r].key].token = NoToken
    /\ OnlyFs(r)
    /\ issued' = issued
    /\ \/ spent' = spent
       \/ req[r].pc = "provider" /\ spent' = spent \cup {req[r].token}

\* The provider has answered and the groups are to be reconciled.
Answers(r) ==
    /\ req[r].pc = "provider" /\ req'[r].pc = "reconcile"
    /\ req'[r].key = req[r].key
    /\ Keeps(req'[r].token) \/ Rotates(r, req'[r].token)
    /\ fs' = fs

\* The refresh succeeds: straight from the provider's answer, or after the
\* reconciliation.
Applies(r) ==
    /\ Done(r)
    /\ OnlyFs(r)
    /\ \E t \in Nat :
         /\ fs'[req[r].key].token = NextToken(req[r].key, t)
         /\ \/ req[r].pc = "provider" /\ (Keeps(t) \/ Rotates(r, t))
            \/ req[r].pc = "reconcile" /\ t = req[r].token /\ UNCHANGED <<issued, spent>>

LEMMA RequestSteps ==
    ASSUME Types, NEW r \in Requests, RequestStep(r)
    PROVE  /\ req[r].pc # "idle"
           /\ UNCHANGED <<minted, login>>
           /\ \A q \in Requests \ {r} : req'[q] = req[q]
           /\ Waits(r) \/ Begins(r) \/ Fails(r) \/ Answers(r) \/ Applies(r)
<1>1. req[r].pc # "idle" /\ UNCHANGED <<minted, login>>
  BY DEF RequestStep, LockSession, RefreshableAccount, ProviderRefresh,
     RefreshReconcile, CheckUser, StoreVars
<1>2. PICK k \in Keys : k = req[r].key
  BY <1>1, ReqFields
<1>3. ASSUME Goto(r, Idle) \/ Goto(r, [pc |-> "user", key |-> k])
      PROVE  Done(r) /\ \A q \in Requests \ {r} : req'[q] = req[q]
  BY <1>2, <1>3 DEF Goto, Types, Done, Idle, Refreshing
<1>4. ASSUME req[r].pc \in Refreshing, RefreshFails(r)
      PROVE  /\ Done(r)
             /\ fs'[k].token = NoToken
             /\ OnlyFs(r)
             /\ \A q \in Requests \ {r} : req'[q] = req[q]
  BY <1>2, <1>3, <1>4, RefreshFailsTypes DEF OnlyFs
<1>5. ASSUME req[r].pc \in Refreshing, NEW t \in Nat, NEW e \in Nat,
             ApplyRefresh(r, t, e)
      PROVE  /\ Done(r)
             /\ fs'[k].token = NextToken(k, t)
             /\ OnlyFs(r)
             /\ \A q \in Requests \ {r} : req'[q] = req[q]
  BY <1>2, <1>3, <1>5, ApplyRefreshTypes DEF OnlyFs
<1>6. CASE LockSession(r)
  <2>1. CASE /\ UNCHANGED fs
             /\ Goto(r, Idle) \/ Goto(r, [pc |-> "user", key |-> k])
    BY <1>1, <1>3, <1>6, <2>1 DEF LockSession, StoreVars, Waits, Refreshing
  <2>2. CASE /\ fs' = [fs EXCEPT ![k].held = TRUE]
             /\ Goto(r, [pc |-> "account", key |-> k, found |-> sessions[k],
                         token |-> fs[k].token])
             /\ Refreshable(k)
    <3>1. /\ ~ fs[k].held
          /\ fs[k].token # NoToken
          /\ fs' = [fs EXCEPT ![k].held = TRUE]
          /\ Goto(r, [pc |-> "account", key |-> k, found |-> sessions[k],
                      token |-> fs[k].token])
      BY <1>2, <1>6, <2>2 DEF LockSession, Refreshable
    <3>2. fs' = [fs EXCEPT ![k] = [fs[k] EXCEPT !.held = TRUE]]
      BY <3>1 DEF Types
    <3>3. fs'[k].held /\ fs'[k].token = fs[k].token /\ OnlyFs(r)
      BY <1>2, <3>2, SessionFields DEF FederatedSession, OnlyFs, Types
    <3>4. /\ req'[r].pc = "account" /\ req'[r].key = k /\ req'[r].token = fs[k].token
          /\ \A q \in Requests \ {r} : req'[q] = req[q]
      BY <3>1 DEF Goto, Types
    <3>5. UNCHANGED <<issued, spent>> /\ req[r].pc = "lock"
      BY <1>6 DEF LockSession, StoreVars
    <3> QED
      BY <1>1, <1>2, <3>1, <3>3, <3>4, <3>5 DEF Begins
  <2> QED
    BY <1>2, <1>6, <2>1, <2>2 DEF LockSession
<1>7. CASE CheckUser(r)
  BY <1>1, <1>3, <1>7 DEF CheckUser, StoreVars, Waits, Refreshing
<1>8. CASE RefreshableAccount(r)
  <2>1. req[r].pc = "account" /\ UNCHANGED <<issued, spent>>
    BY <1>8 DEF RefreshableAccount, StoreVars
  <2>2. CASE RefreshFails(r)
    BY <1>1, <1>2, <1>4, <2>1, <2>2 DEF Fails, Refreshing
  <2>3. CASE Goto(r, [pc |-> "provider", key |-> req[r].key, id |-> account.id,
                      found |-> req[r].found, token |-> req[r].token])
             /\ UNCHANGED fs
    <3>1. /\ req'[r].pc = "provider" /\ req'[r].key = req[r].key
          /\ req'[r].token = req[r].token
          /\ \A q \in Requests \ {r} : req'[q] = req[q]
      BY <2>3 DEF Goto, Types
    <3> QED
      BY <1>1, <2>1, <2>3, <3>1 DEF Waits
  <2> QED
    BY <1>8, <2>2, <2>3 DEF RefreshableAccount
<1>9. CASE ProviderRefresh(r)
  <2>1. req[r].pc = "provider" /\ req[r].pc \in Refreshing
    BY <1>9 DEF ProviderRefresh, Refreshing
  <2>2. CASE RefreshFails(r) /\ spent' = spent \cup {req[r].token} /\ UNCHANGED issued
    BY <1>1, <1>2, <1>4, <2>1, <2>2 DEF Fails
  <2>3. ASSUME NEW t \in {NoToken, issued + 1} \cap 0..MaxTokens,
               NEW e \in {now, now + 1},
               \/ ApplyRefresh(r, t, e)
               \/ /\ Goto(r, [pc |-> "reconcile", key |-> req[r].key,
                              id |-> req[r].id, found |-> req[r].found,
                              token |-> t, expires |-> e])
                  /\ UNCHANGED <<sessions, fs>>,
               spent' = IF t = NoToken THEN spent ELSE spent \cup {req[r].token},
               issued' = IF t = NoToken THEN issued ELSE t
        PROVE  /\ \A q \in Requests \ {r} : req'[q] = req[q]
               /\ Answers(r) \/ Applies(r)
    <3>1. t \in Nat /\ e \in Nat
      BY SessionsAssumption DEF Types
    <3>2. Keeps(t) \/ Rotates(r, t)
      BY <2>3 DEF Keeps, Rotates
    <3>3. CASE ApplyRefresh(r, t, e)
      BY <1>2, <1>5, <2>1, <3>1, <3>2, <3>3 DEF Applies
    <3>4. CASE /\ Goto(r, [pc |-> "reconcile", key |-> req[r].key,
                           id |-> req[r].id, found |-> req[r].found,
                           token |-> t, expires |-> e])
               /\ UNCHANGED <<sessions, fs>>
      <4>1. /\ req'[r].pc = "reconcile" /\ req'[r].key = req[r].key
            /\ req'[r].token = t
            /\ \A q \in Requests \ {r} : req'[q] = req[q]
        BY <3>4 DEF Goto, Types
      <4> QED
        BY <2>1, <3>2, <3>4, <4>1 DEF Answers
    <3> QED
      BY <2>3, <3>3, <3>4
  <2> QED
    BY <1>1, <1>9, <2>2, <2>3 DEF ProviderRefresh
<1>10. CASE RefreshReconcile(r)
  <2>1. req[r].pc = "reconcile" /\ req[r].pc \in Refreshing /\ UNCHANGED <<issued, spent>>
    BY <1>10 DEF RefreshReconcile, StoreVars, Refreshing
  <2>2. req[r].token \in Nat /\ req[r].expires \in Nat
    BY <2>1, ReqFields
  <2>3. CASE RefreshFails(r)
    BY <1>1, <1>2, <1>4, <2>1, <2>3 DEF Fails
  <2>4. CASE ApplyRefresh(r, req[r].token, req[r].expires)
    BY <1>1, <1>2, <1>5, <2>1, <2>2, <2>4 DEF Applies
  <2> QED
    BY <1>10, <2>3, <2>4 DEF RefreshReconcile
<1> QED
  BY <1>6, <1>7, <1>8, <1>9, <1>10 DEF RequestStep
-----------------------------------------------------------------------------
(* What the other steps do to the requests, the login and the tokens *)

\* A client presents a key, which is not that of a login under way.
Presents(r) ==
    /\ req[r].pc = "idle"
    /\ req'[r].pc \notin Refreshing
    /\ req'[r].pc # "idle" => /\ req'[r].key \in Live
                              /\ login.pc = "minted" => req'[r].key # login.key
    /\ \A q \in Requests \ {r} : req'[q] = req[q]
    /\ UNCHANGED <<fs, issued, spent, minted, login>>

\* The end of a federated login: a fresh token is stored, or none.
Swaps ==
    /\ login.pc = "minted" /\ login'.pc # "minted"
    /\ \A k \in Keys \ {login.key} : fs'[k] = fs[k]
    /\ \/ fs'[login.key].token = NoToken /\ issued' = issued
       \/ fs'[login.key].token = issued + 1 /\ issued' = issued + 1
    /\ UNCHANGED <<req, spent, minted>>

\* Anything else: of the login and the keys only a mint is of interest.
Passes ==
    /\ UNCHANGED <<req, fs, issued, spent>>
    /\ minted' \in {minted, minted + 1}
    /\ \/ login' = login
       \/ login'.pc # "minted"
       \/ login'.pc = "minted" /\ login'.key = minted + 1 /\ minted' = minted + 1

LEMMA OtherSteps ==
    ASSUME Types, [Next]_vars
    PROVE  \/ \E r \in Requests : RequestStep(r) \/ Presents(r)
           \/ Swaps
           \/ Passes
<1>1. CASE UNCHANGED <<req, fs, issued, spent, minted, login>>
  BY <1>1 DEF Passes
<1>2. CASE AuthenticateUser
  BY <1>2 DEF AuthenticateUser, CreateSessionForUser, Passes
<1>3. CASE ResolveFederatedUser
  <2>1. login'.pc # "minted" /\ UNCHANGED <<req, fs, issued, spent, minted>>
    BY <1>3 DEF ResolveFederatedUser, LoginVars
  <2> QED
    BY <2>1 DEF Passes
<1>4. CASE LoginReconcile
  <2>1. login'.pc # "minted" /\ UNCHANGED <<req, fs, issued, spent, minted>>
    BY <1>4 DEF LoginReconcile, LoginVars, Idle
  <2> QED
    BY <2>1 DEF Passes
<1>5. CASE LoginMint
  <2>1. UNCHANGED <<req, fs, issued, spent>>
    BY <1>5 DEF LoginMint, LoginVars
  <2>2. \/ login'.pc # "minted" /\ minted' = minted
        \/ login'.pc = "minted" /\ login'.key = minted + 1 /\ minted' = minted + 1
    BY <1>5 DEF LoginMint, CreateSessionForUser, Idle
  <2> QED
    BY <2>1, <2>2 DEF Passes
<1>6. CASE CreateFederatedSession
  <2>1. PICK k \in Keys : k = login.key
    BY <1>6, LoginFields DEF CreateFederatedSession
  <2>2. login.pc = "minted" /\ login'.pc # "minted" /\ UNCHANGED <<req, spent, minted>>
    BY <1>6 DEF CreateFederatedSession, Idle
  <2>3. CASE UNCHANGED <<fs, issued>>
    BY <2>2, <2>3 DEF Passes
  <2>4. ASSUME NEW t \in {NoToken, issued + 1} \cap 0..MaxTokens,
               fs' = [fs EXCEPT ![k] = [token |-> t, held |-> FALSE,
                                        deadline |-> now + Lifetime]],
               issued' = IF t = NoToken THEN issued ELSE t
        PROVE  Swaps
    <3>1. fs'[k].token = t /\ \A j \in Keys \ {k} : fs'[j] = fs[j]
      BY <2>4 DEF Types
    <3>2. \/ t = NoToken /\ issued' = issued
          \/ t = issued + 1 /\ issued' = issued + 1
      BY <2>4
    <3> QED
      BY <2>1, <2>2, <3>1, <3>2 DEF Swaps
  <2> QED
    BY <1>6, <2>1, <2>3, <2>4 DEF CreateFederatedSession
<1>7. ASSUME NEW r \in Requests, NEW k \in Keys, Present(r, k) PROVE Presents(r)
  <2>1. /\ req[r].pc = "idle" /\ k \in Live /\ (login.pc = "minted" => k # login.key)
        /\ UNCHANGED <<fs, issued, spent, minted, login>>
    BY <1>7 DEF Present, StoreVars, Idle
  <2>2. \/ req' = req
        \/ Goto(r, [pc |-> "user", key |-> k])
        \/ Goto(r, [pc |-> "lock", key |-> k])
    BY <1>7 DEF Present
  <2>3. /\ req'[r].pc \in {"idle", "user", "lock"}
        /\ req'[r].pc # "idle" => req'[r].key = k
        /\ \A q \in Requests \ {r} : req'[q] = req[q]
    BY <2>1, <2>2 DEF Goto, Types
  <2> QED
    BY <2>1, <2>3 DEF Presents, Refreshing
<1>8. CASE FailedAttempt \/ DeleteUser \/ CreateUser \/ Invalidation \/ CommandLine \/ Tick
           \/ UNCHANGED vars
  BY <1>1, <1>8 DEF FailedAttempt, DeleteUser, CreateUser, Invalidation, CommandLine,
     Tick, Change, Unlock, InvalidateUserSessions, vars
<1>9. ASSUME NEW b \in BOOLEAN, SetPassword(b) \/ SetEnabled(b) PROVE Passes
  BY <1>1, <1>9 DEF SetPassword, SetEnabled, Change, Passes
<1>10. ASSUME NEW k \in Keys, InvalidateSession(k) \/ SweepExpiredSessions(k) PROVE Passes
  BY <1>1, <1>10 DEF InvalidateSession, SweepExpiredSessions, StoreVars, Passes
<1> QED
  BY <1>2, <1>3, <1>4, <1>5, <1>6, <1>7, <1>8, <1>9, <1>10 DEF Next

LEMMA KeyStep == Types /\ LiveInv /\ KeyInv /\ [Next]_vars => KeyInv'
<1> SUFFICES ASSUME Types, LiveInv, KeyInv, [Next]_vars PROVE KeyInv'
  OBVIOUS
<1>1. minted \in Nat
  BY SessionsAssumption DEF Types
<1>2. ASSUME NEW r \in Requests, RequestStep(r) PROVE KeyInv'
  <2>1. req'[r].pc # "idle" => req'[r].key = req[r].key
    BY <1>2, RequestSteps
       DEF Waits, Begins, Fails, Answers, Applies, Done
  <2> QED
    BY <1>2, <2>1, RequestSteps DEF KeyInv
<1>3. ASSUME NEW r \in Requests, Presents(r) PROVE KeyInv'
  BY <1>3 DEF Presents, KeyInv, LiveInv
<1>4. CASE Swaps
  BY <1>4 DEF Swaps, KeyInv
<1>5. CASE Passes
  BY <1>1, <1>5 DEF Passes, KeyInv
<1> QED
  BY <1>2, <1>3, <1>4, <1>5, OtherSteps
-----------------------------------------------------------------------------
(* A refresh token is presented once *)

LEMMA TokenStep ==
    Types /\ TokenInv /\ [Next]_vars
        => MutexInv' /\ StoredTokens' /\ CarriedTokens'
<1> SUFFICES ASSUME Types, TokenInv, [Next]_vars
             PROVE  MutexInv' /\ StoredTokens' /\ CarriedTokens'
  OBVIOUS
<1> USE DEF NoToken
<1>1. issued \in Nat
  BY DEF Types
<1>2. \A q \in Requests : req[q].pc \in Refreshing => req[q].key \in Keys
  BY ReqFields DEF Refreshing
<1>3. KeyInv /\ MutexInv /\ StoredTokens /\ CarriedTokens
  BY DEF TokenInv
<1>4. CASE Passes
  BY <1>3, <1>4 DEF Passes, MutexInv, StoredTokens, CarriedTokens
<1>5. ASSUME NEW r \in Requests, Presents(r)
      PROVE  MutexInv' /\ StoredTokens' /\ CarriedTokens'
  BY <1>3, <1>5 DEF Presents, MutexInv, StoredTokens, CarriedTokens, Refreshing
<1>6. CASE Swaps
  <2>1. PICK k \in Keys : k = login.key
    BY <1>6, LoginFields DEF Swaps
  <2>2. \A q \in Requests : req[q].pc \in Refreshing => fs'[req[q].key] = fs[req[q].key]
    BY <1>2, <1>3, <1>6 DEF Swaps, KeyInv, Refreshing
  <2>3. MutexInv'
    BY <1>3, <1>6, <2>2 DEF Swaps, MutexInv
  <2>4. StoredTokens'
    BY <1>1, <1>3, <1>6, <2>1 DEF Swaps, StoredTokens
  <2>5. CarriedTokens'
    BY <1>1, <1>3, <1>6, <2>1, <2>2 DEF Swaps, StoredTokens, CarriedTokens, Refreshing
  <2> QED
    BY <2>3, <2>4, <2>5
<1>7. ASSUME NEW r \in Requests, RequestStep(r)
      PROVE  MutexInv' /\ StoredTokens' /\ CarriedTokens'
  <2>1. PICK k \in Keys : k = req[r].key
    BY <1>7, RequestSteps, ReqFields
  <2>2. \A q \in Requests \ {r} : req'[q] = req[q]
    BY <1>7, RequestSteps
  <2>3. CASE Waits(r)
    BY <1>3, <2>2, <2>3
       DEF Waits, Done, MutexInv, StoredTokens, CarriedTokens, Refreshing
  <2>4. ASSUME req[r].pc \in Refreshing, NEW q \in Requests \ {r},
               req[q].pc \in Refreshing, OnlyFs(r)
        PROVE  fs'[req[q].key] = fs[req[q].key] /\ req[q].key # k
    BY <1>2, <1>3, <2>1, <2>4 DEF OnlyFs, MutexInv
  <2>5. CASE Begins(r)
    <3>1. \A q \in Requests \ {r} : req[q].pc \in Refreshing => req[q].key # k
      BY <1>3, <2>1, <2>5 DEF Begins, MutexInv
    <3>2. \A j \in Keys : fs'[j].token = fs[j].token
      BY <2>1, <2>5 DEF Begins, OnlyFs
    <3>3. \A j \in Keys : fs[j].held => fs'[j].held
      BY <2>1, <2>5 DEF Begins, OnlyFs
    <3>4. MutexInv'
      BY <1>2, <1>3, <2>1, <2>2, <2>5, <3>1, <3>3 DEF Begins, MutexInv
    <3>5. StoredTokens'
      BY <1>3, <2>5, <3>2, <3>3 DEF Begins, StoredTokens
    <3>6. CarriedTokens'
      BY <1>2, <1>3, <2>1, <2>2, <2>5, <3>2
         DEF Begins, CarriedTokens, StoredTokens, Refreshing
    <3> QED
      BY <3>4, <3>5, <3>6
  <2> DEFINE Apart(q) ==
        /\ req[q].pc \in {"account", "provider"} =>
              /\ req[q].token = fs'[req[q].key].token
              /\ req[q].token # NoToken
              /\ req[q].token \notin spent'
        /\ (req[q].pc = "reconcile" /\ req[q].token = NoToken) =>
              fs'[req[q].key].token \notin spent'
        /\ (req[q].pc = "reconcile" /\ req[q].token # NoToken) =>
              /\ req[q].token \in 1..issued'
              /\ req[q].token \notin spent'
              /\ \A j \in Keys : fs'[j].token # req[q].token
  <2>6. ASSUME req[r].pc \in Refreshing, OnlyFs(r),
               \/ spent' = spent
               \/ req[r].pc = "provider" /\ spent' = spent \cup {req[r].token},
               issued' \in {issued, issued + 1},
               \/ fs'[k].token \in {NoToken, fs[k].token, issued + 1}
               \/ req[r].pc = "reconcile" /\ fs'[k].token = req[r].token,
               NEW q \in Requests \ {r}
        PROVE  Apart(q)
    <3>1. req[q].pc \in Refreshing => /\ fs'[req[q].key] = fs[req[q].key]
                                      /\ req[q].key \in Keys
                                      /\ req[q].key # k
      BY <1>2, <2>4, <2>6
    <3>2. req[r].pc = "provider" => req[r].token = fs[k].token /\ req[r].token # NoToken
      BY <1>3, <2>1 DEF CarriedTokens
    <3>3. ASSUME req[q].pc \in {"account", "provider"}
          PROVE  /\ req[q].token = fs'[req[q].key].token
                 /\ req[q].token # NoToken
                 /\ req[q].token \notin spent'
      <4>1. /\ req[q].token = fs[req[q].key].token /\ req[q].token # NoToken
            /\ req[q].token \notin spent
        BY <1>3, <3>3 DEF CarriedTokens
      <4>2. fs[req[q].key].token # fs[k].token
        BY <1>3, <3>1, <3>3, <4>1 DEF StoredTokens, Refreshing
      <4> QED
        BY <2>6, <3>1, <3>2, <3>3, <4>1, <4>2 DEF Refreshing
    <3>4. ASSUME req[q].pc = "reconcile", req[q].token = NoToken
          PROVE  fs'[req[q].key].token \notin spent'
      <4>1. fs[req[q].key].token \notin spent
        BY <1>3, <3>4 DEF CarriedTokens
      <4>2. fs[k].token # NoToken => fs[req[q].key].token # fs[k].token
        BY <1>3, <3>1, <3>4 DEF StoredTokens, Refreshing
      <4> QED
        BY <2>6, <3>1, <3>2, <3>4, <4>1, <4>2 DEF Refreshing
    <3>5. ASSUME req[q].pc = "reconcile", req[q].token # NoToken
          PROVE  /\ req[q].token \in 1..issued'
                 /\ req[q].token \notin spent'
                 /\ \A j \in Keys : fs'[j].token # req[q].token
      <4>1. /\ req[q].token \in 1..issued
            /\ req[q].token \notin spent
            /\ \A j \in Keys : fs[j].token # req[q].token
            /\ req[r].pc = "reconcile" => req[r].token # req[q].token
        BY <1>3, <3>5 DEF CarriedTokens
      <4>2. \A j \in Keys \ {k} : fs'[j].token # req[q].token
        BY <2>1, <2>6, <4>1 DEF OnlyFs
      <4>3. fs'[k].token # req[q].token
        BY <1>1, <2>6, <3>5, <4>1
      <4> QED
        BY <1>1, <2>6, <3>2, <4>1, <4>2, <4>3
    <3> QED
      BY <3>3, <3>4, <3>5
  <2> HIDE DEF Apart
  <2>7. ASSUME \A q \in Requests \ {r} : Apart(q), req'[r].pc \notin Refreshing
        PROVE  CarriedTokens'
    BY <1>3, <2>2, <2>7 DEF Apart, CarriedTokens, Refreshing
  <2>8. ASSUME req[r].pc \in Refreshing, OnlyFs(r),
               \/ spent' = spent
               \/ req[r].pc = "provider" /\ spent' = spent \cup {req[r].token},
               issued' \in {issued, issued + 1},
               fs'[k].token \in 0..issued',
               fs'[k].token \in spent' => fs'[k].held,
               \A j \in Keys \ {k} : fs'[k].token # NoToken => fs'[k].token # fs[j].token
        PROVE  StoredTokens'
    <3>1. req[r].pc = "provider" => req[r].token = fs[k].token /\ req[r].token # NoToken
      BY <1>3, <2>1 DEF CarriedTokens
    <3>2. \A j \in Keys \ {k} : fs'[j] = fs[j] /\ fs[j].token \in 0..issued
      BY <1>3, <2>1, <2>8 DEF OnlyFs, StoredTokens
    <3>3. spent' \subseteq 1..issued'
      <4>1. 1..issued \subseteq 1..issued'
        BY <1>1, <2>8
      <4>2. req[r].pc = "provider" => req[r].token \in 1..issued
        BY <1>1, <1>3, <3>1 DEF StoredTokens
      <4>3. spent \subseteq 1..issued
        BY <1>3 DEF StoredTokens
      <4>4. \/ spent' = spent
            \/ req[r].pc = "provider" /\ spent' = spent \cup {req[r].token}
        BY <2>8
      <4> QED
        BY <4>1, <4>2, <4>3, <4>4
    <3>4. \A j \in Keys : fs'[j].token \in 0..issued'
      BY <1>1, <2>8, <3>2
    <3>5. ASSUME NEW i \in Keys, NEW j \in Keys, i # j, fs'[i].token # NoToken
          PROVE  fs'[i].token # fs'[j].token
      <4>1. CASE i # k /\ j # k
        BY <1>3, <3>2, <3>5, <4>1 DEF StoredTokens
      <4>2. CASE i = k
        BY <2>8, <3>2, <3>5, <4>2
      <4>3. CASE j = k
        BY <2>8, <3>2, <3>5, <4>3
      <4> QED
        BY <4>1, <4>2, <4>3
    <3>6. ASSUME NEW j \in Keys \ {k}, fs'[j].token \in spent'
          PROVE  fs'[j].held
      <4>1. fs[j].token # NoToken
        BY <1>1, <3>2, <3>3, <3>6, <2>8
      <4>2. fs[j].token # fs[k].token
        BY <1>3, <4>1 DEF StoredTokens
      <4>3. fs[j].token \in spent
        BY <2>8, <3>1, <3>2, <3>6, <4>2
      <4> QED
        BY <1>3, <3>2, <4>3 DEF StoredTokens
    <3> QED
      BY <2>8, <3>3, <3>4, <3>5, <3>6 DEF StoredTokens
  <2>9. CASE Fails(r)
    <3>1. MutexInv'
      BY <1>3, <2>2, <2>4, <2>9 DEF Fails, Done, MutexInv
    <3>2. StoredTokens'
      <4>1. NoToken \notin spent'
        BY <1>3, <2>1, <2>9 DEF Fails, StoredTokens, CarriedTokens
      <4> QED
        BY <1>1, <2>1, <2>8, <2>9, <4>1 DEF Fails
    <3>3. CarriedTokens'
      BY <2>1, <2>6, <2>7, <2>9 DEF Fails, Done
    <3> QED
      BY <3>1, <3>2, <3>3
  <2>10. CASE Answers(r)
    <3>1. MutexInv'
      BY <1>3, <2>2, <2>10 DEF Answers, MutexInv, Refreshing
    <3>2. StoredTokens'
      <4>1. fs'[k].held /\ fs'[k].token \in 0..issued
            /\ \A j \in Keys \ {k} : fs[k].token # NoToken => fs[k].token # fs[j].token
        BY <1>3, <2>1, <2>10 DEF Answers, StoredTokens, MutexInv, Refreshing
      <4>2. issued' \in {issued, issued + 1} /\ fs' = fs /\ OnlyFs(r)
            /\ req[r].pc = "provider"
            /\ (spent' = spent \/ spent' = spent \cup {req[r].token})
        BY <2>10 DEF Answers, Keeps, Rotates, OnlyFs
      <4> QED
        BY <1>1, <2>8, <4>1, <4>2 DEF Refreshing
    <3>3. \A q \in Requests \ {r} : Apart(q)
      BY <2>1, <2>6, <2>10 DEF Answers, Keeps, Rotates, OnlyFs, Refreshing
    <3>4. /\ req[r].token = fs[k].token /\ req[r].token # NoToken
          /\ req[r].token \notin spent
      BY <1>3, <2>1, <2>10 DEF Answers, CarriedTokens
    <3>5. /\ req'[r].pc = "reconcile" /\ req'[r].key = k /\ fs' = fs
          /\ Keeps(req'[r].token) \/ Rotates(r, req'[r].token)
      BY <2>1, <2>10 DEF Answers
    <3>6. req'[r].token = NoToken => fs'[k].token \notin spent'
      BY <1>1, <3>4, <3>5 DEF Keeps, Rotates
    <3>7. req'[r].token # NoToken =>
             /\ req'[r].token = issued + 1 /\ issued' = issued + 1
             /\ req'[r].token \notin spent'
             /\ \A j \in Keys : fs'[j].token # req'[r].token
      BY <1>1, <1>3, <3>4, <3>5 DEF Keeps, Rotates, StoredTokens
    <3>8. \A q \in Requests \ {r} :
             req[q].pc = "reconcile" => req[q].token \in 0..issued
      BY <1>1, <1>3 DEF CarriedTokens
    <3>9. \A q \in Requests \ {r} : req'[r].token # NoToken /\ req[q].pc = "reconcile"
             => req[q].token # req'[r].token
      BY <1>1, <3>7, <3>8
    <3>10. CarriedTokens'
      <4> SUFFICES ASSUME NEW q \in Requests
                   PROVE  CarriedTokens!(q)'
        BY DEF CarriedTokens
      <4>1. CASE q = r
        BY <1>1, <2>2, <3>5, <3>6, <3>7, <3>9, <4>1
      <4>2. CASE q # r
        BY <1>3, <2>2, <3>3, <3>5, <3>9, <4>2 DEF Apart, CarriedTokens
      <4> QED
        BY <4>1, <4>2
    <3> QED
      BY <3>1, <3>2, <3>10
  <2>11. CASE Applies(r)
    <3>1. req[r].pc \in Refreshing
      BY <2>11 DEF Applies, Refreshing
    <3>2. MutexInv'
      BY <1>3, <2>2, <2>4, <2>11, <3>1 DEF Applies, Done, MutexInv
    <3>3. StoredTokens'
      <4>1. PICK t \in Nat :
              /\ fs'[k].token = IF t = NoToken THEN fs[k].token ELSE t
              /\ \/ req[r].pc = "provider" /\ (Keeps(t) \/ Rotates(r, t))
                 \/ req[r].pc = "reconcile" /\ t = req[r].token /\ UNCHANGED <<issued, spent>>
        BY <2>1, <2>11 DEF Applies, NextToken
      <4>2. /\ issued' \in {issued, issued + 1} /\ OnlyFs(r)
            /\ \/ spent' = spent
               \/ req[r].pc = "provider" /\ spent' = spent \cup {req[r].token}
        BY <2>11, <4>1 DEF Applies, Keeps, Rotates
      <4>3. CASE t = NoToken
        <5>1. fs'[k].token = fs[k].token /\ spent' = spent /\ issued' = issued
          BY <1>1, <4>1, <4>3 DEF Keeps, Rotates
        <5>2. fs[k].token \notin spent
          BY <1>3, <2>1, <4>1, <4>3 DEF CarriedTokens
        <5> QED
          BY <1>3, <2>8, <3>1, <4>2, <5>1, <5>2 DEF StoredTokens
      <4>4. CASE t # NoToken /\ req[r].pc = "reconcile"
        <5>1. /\ t \in 1..issued /\ t \notin spent
              /\ \A j \in Keys : fs[j].token # t
          BY <1>3, <4>1, <4>4 DEF CarriedTokens
        <5> QED
          BY <1>1, <2>8, <3>1, <4>1, <4>2, <4>4, <5>1
      <4>5. CASE t # NoToken /\ req[r].pc = "provider"
        <5>1. t = issued + 1 /\ issued' = t /\ spent' = spent \cup {req[r].token}
          BY <4>1, <4>5 DEF Keeps, Rotates
        <5>2. req[r].token \in 0..issued /\ spent \subseteq 1..issued
              /\ \A j \in Keys : fs[j].token \in 0..issued
          BY <1>3, <2>1, <4>5 DEF StoredTokens, CarriedTokens
        <5> QED
          BY <1>1, <2>8, <3>1, <4>1, <4>2, <4>5, <5>1, <5>2
      <4> QED
        BY <4>1, <4>3, <4>4, <4>5
    <3>4. CarriedTokens'
      BY <2>1, <2>6, <2>7, <2>11, <3>1 DEF Applies, Done, Keeps, Rotates, NextToken
    <3> QED
      BY <3>2, <3>3, <3>4
  <2> QED
    BY <1>7, <2>3, <2>5, <2>9, <2>10, <2>11, RequestSteps
<1> QED
  BY <1>4, <1>5, <1>6, <1>7, OtherSteps

LEMMA InitTokens == Init => TokenInv
<1> SUFFICES ASSUME Init PROVE TokenInv
  OBVIOUS
<1>1. \A r \in Requests : req[r].pc = "idle"
  BY DEF Init, Idle
<1>2. \A k \in Keys : fs[k].token = NoToken
  BY DEF Init, NoFs
<1>3. login.pc = "idle" /\ spent = {} /\ issued = 0
  BY DEF Init, Idle
<1> QED
  BY <1>1, <1>2, <1>3
     DEF TokenInv, KeyInv, MutexInv, StoredTokens, CarriedTokens, Refreshing, NoToken

LEMMA TokensCorrect == Spec => []TokenInv
<1>1. Types /\ LiveInv /\ TokenInv /\ [Next]_vars => TokenInv'
  BY KeyStep, TokenStep DEF TokenInv
<1> QED
  BY <1>1, InitTokens, TypesCorrect, LiveCorrect, PTL DEF Spec

\* A token that the provider has rotated out or refused is never presented to it
\* again, and no token is presented by two requests at once: the mutex of the
\* federated session is held from the look at the token to the store of the next.
THEOREM RefreshTokenSingleUseHolds == Spec => []RefreshTokenSingleUse
<1>1. Types /\ TokenInv => RefreshTokenSingleUse
  <2> SUFFICES ASSUME Types, TokenInv PROVE RefreshTokenSingleUse
    OBVIOUS
  <2>1. ASSUME NEW r \in Requests, NEW q \in Requests, r # q,
               req[r].pc = "provider", req[q].pc = "provider"
        PROVE  req[r].token # req[q].token
    <3>1. /\ req[r].key \in Keys /\ req[q].key \in Keys
          /\ req[r].key # req[q].key
      BY <2>1, ReqFields DEF TokenInv, MutexInv, Refreshing
    <3> QED
      BY <2>1, <3>1 DEF TokenInv, StoredTokens, CarriedTokens
  <2> QED
    BY <2>1 DEF RefreshTokenSingleUse, TokenInv, CarriedTokens
<1> QED
  BY <1>1, TypesCorrect, TokensCorrect, PTL
=============================================================================
