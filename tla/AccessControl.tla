--------------------------- MODULE AccessControl ---------------------------
(***************************************************************************)
(* Who may reach a database connection (auth/access.go), the groups and    *)
(* grants that decide it (auth/groups.go, auth/privileges.go), and the     *)
(* scopes that narrow API tokens (auth/token_scope.go), together with the  *)
(* checks that bound what a token may change (auth/grant_scope.go,         *)
(* auth/token_ceiling.go).                                                 *)
(*                                                                         *)
(* A token's request reads its ceiling and the stored state in one step    *)
(* and writes in a later transaction; anything may happen in between.  A   *)
(* session has no ceiling, so its request is one step.  A grant is judged  *)
(* before its transaction and written with no further check, so a token's  *)
(* grant writes nothing a session's could not, and one action stands for   *)
(* both.  No user here is a superuser and every caller holds the admin     *)
(* permission its handler asks for; only the connection kind of a scope    *)
(* is kept, the MCP and admin kinds are judged beside it by the same rule. *)
(***************************************************************************)
EXTENDS Naturals, FiniteSets

CONSTANTS
    Users, Tokens, Groups,
    Conns,      \* connections, all of them live
    AllConns,   \* ConnectionIDAll, the "all connections" pseudo-connection
    Shared,     \* connections with the sharing flag
    ConnOwner,  \* the owner's name on each connection; may name no user
    Requests,   \* HTTP requests made with a token
    MaxRows     \* bound: memberships, grants and scope entries stored at once

ASSUME AccessAssumption ==
    /\ IsFiniteSet(Groups)
    /\ AllConns \notin Conns
    /\ Shared \subseteq Conns
    /\ DOMAIN ConnOwner = Conns
    /\ MaxRows \in Nat

VARIABLES
    groups,   \* user_groups: the groups that exist
    members,  \* group_memberships of users: <<user, group>>
    nested,   \* group_memberships of groups: <<parent, member group>>
    grants,   \* connection_privileges: level per group and connection
    scope,    \* token_connection_scope: level per token and connection
    owner,    \* tokens.owner_id
    reqs      \* what each request has read and not yet written

vars == <<groups, members, nested, grants, scope, owner, reqs>>

Levels == 0..2   \* AccessLevelNone, AccessLevelRead, AccessLevelReadWrite

ConnIds == Conns \cup {AllConns}

Lower(a, b) == IF a < b THEN a ELSE b

Higher(a, b) == IF a < b THEN b ELSE a

Highest(S) == CHOOSE l \in S : \A k \in S : k <= l

NoRows == [x \in ConnIds |-> 0]

Idle == [kind |-> "idle"]

-----------------------------------------------------------------------------
(* Groups *)

\* The groups one step of a relation away from a set of groups.
Image(S, edges) == {h \in Groups : \E g \in S : <<g, h>> \in edges}

\* The groups reached from a set of groups by repeating a step of the
\* hierarchy, as the recursive queries accumulate them.
Reach(start, edges) ==
    LET found[n \in 0..Cardinality(Groups)] ==
          IF n = 0 THEN start ELSE found[n - 1] \cup Image(found[n - 1], edges)
    IN  found[Cardinality(Groups)]

\* From a group to the ones it is a member of, and to its own members.
Parents == {<<e[2], e[1]>> : e \in nested}

Children == nested

GetUserGroups(u) == Reach({g \in Groups : <<u, g>> \in members}, Parents)

Descendants(g) == Reach(Image({g}, Children), Children)

\* Only the direct members are looked at.
NoCircularReferenceShallow(parent, child) ==
    /\ parent # child
    /\ parent \notin Image({child}, Children)

validateNoCircularReference(parent, child) ==
    /\ parent # child
    /\ parent \notin Descendants(child)

-----------------------------------------------------------------------------
(* What a user may reach *)

\* Only a grant that names the connection restricts it.
IsConnectionAssignedToAnyGroup(c) == \E g \in Groups : grants[g][c] > 0

\* An "all connections" grant is taken to restrict every connection.
RestrictedByWildcard ==
    {c \in Conns : \E g \in Groups : grants[g][c] > 0 \/ grants[g][AllConns] > 0}

\* The same rule as one query over every grant, for the list.
RestrictedConnectionIDs ==
    {p[2] : p \in {q \in Groups \X ConnIds : grants[q[1]][q[2]] > 0}} \ {AllConns}

GroupsPrivileges(S) ==
    [x \in ConnIds |-> Highest({0} \cup {grants[g][x] : g \in S})]

GetUserConnectionPrivileges(u) == GroupsPrivileges(GetUserGroups(u))

resolveConnectionAccess(privs, c) == Higher(privs[c], privs[AllConns])

connectionAccessRule(u, restricted, privs, c) ==
    IF ConnOwner[c] = u \/ (c \in Shared /\ ~restricted)
    THEN 2
    ELSE resolveConnectionAccess(privs, c)

-----------------------------------------------------------------------------
(* What a token may reach *)

Scoped(s) == s # NoRows

\* 0: outside the scope.  A token with no rows is bounded by its owner alone.
IsConnectionInTokenScope(s, x) ==
    IF ~Scoped(s) THEN 2 ELSE IF s[x] > 0 THEN s[x] ELSE s[AllConns]

CanAccessConnection(t, c) ==
    Lower(connectionAccessRule(owner[t], IsConnectionAssignedToAnyGroup(c),
                               GetUserConnectionPrivileges(owner[t]), c),
          IsConnectionInTokenScope(scope[t], c))

\* The connection privileges GetEffectivePrivileges reports for a token:
\* its owner's group grants, narrowed by its scope.
EffectiveConnectionPrivileges(t) ==
    LET own == GetUserConnectionPrivileges(owner[t])
        s   == scope[t]
        named(x) == Lower(s[x], resolveConnectionAccess(own, x))
    IN  CASE ~Scoped(s) -> own
          [] s[AllConns] > 0 ->
               [x \in ConnIds |-> IF x # AllConns /\ named(x) > 0
                                  THEN named(x)
                                  ELSE Lower(own[x], s[AllConns])]
          [] OTHER -> [x \in ConnIds |-> named(x)]

VisibleConnectionIDs(t) ==
    LET privs == EffectiveConnectionPrivileges(t)
        seen  == {c \in Conns : privs[c] > 0
                          \/ connectionAccessRule(owner[t],
                               c \in RestrictedConnectionIDs, privs, c) > 0}
    IN  IF privs[AllConns] > 0
        THEN Conns
        ELSE {c \in seen : IsConnectionInTokenScope(scope[t], c) > 0}

-----------------------------------------------------------------------------
(* The ceiling of an acting token *)

lowestScopedLevel(s, level) ==
    IF \E x \in ConnIds : s[x] > 0 /\ s[x] < level THEN 1 ELSE level

allConnectionsLevel(t) ==
    LET own == GetUserConnectionPrivileges(owner[t])[AllConns]
    IN  lowestScopedLevel(scope[t],
          Lower(own, IsConnectionInTokenScope(scope[t], AllConns)))

connectionLevel(t, x) ==
    IF x = AllConns THEN allConnectionsLevel(t) ELSE CanAccessConnection(t, x)

coversConnection(t, x, level) == level > 0 /\ connectionLevel(t, x) >= level

\* storedTokenScope.connectionLevel
StoredLevel(s, x) ==
    CASE ~Scoped(s) -> 2
      [] x = AllConns /\ Scoped(s) -> lowestScopedLevel(s, s[AllConns])
      [] OTHER -> IF s[x] > 0 THEN s[x] ELSE s[AllConns]

widens(s, change) ==
    \/ Scoped(s) /\ ~Scoped(change)
    \/ \E x \in ConnIds : change[x] > StoredLevel(s, x)

connectionsChangeCovered(t, s, change) ==
    /\ \A x \in ConnIds : change[x] > 0 =>
         \/ coversConnection(t, x, change[x])
         \/ /\ coversConnection(t, x, 1)
            /\ change[x] <= StoredLevel(s, x)
    /\ \A x \in ConnIds : s[x] > 0 /\ change[x] = 0 => coversConnection(t, x, 1)

\* The owner of a token that may be cleared holds an admin permission, which
\* acts across every connection.
coversReachConnections(t) == coversConnection(t, AllConns, 2)

clearWithinCeiling(t, s) ==
    Scoped(s) => /\ connectionsChangeCovered(t, s, NoRows)
                 /\ coversReachConnections(t)

\* A scope request may not mix the "all connections" entry with others.
ValidateScopedConnections(change) ==
    change[AllConns] > 0 => \A c \in Conns : change[c] = 0

Scopes == {s \in [ConnIds -> Levels] : ValidateScopedConnections(s)}

\* GetGroupEffectiveConnectionPrivileges: what membership of g confers.
connectionsReadable(t, g) ==
    \A x \in ConnIds :
        GroupsPrivileges(Reach({g}, Parents))[x] > 0 => coversConnection(t, x, 1)

-----------------------------------------------------------------------------
Init ==
    /\ groups = Groups
    /\ members = {}
    /\ nested = {}
    /\ grants = [g \in Groups |-> NoRows]
    /\ scope = [t \in Tokens |-> NoRows]
    /\ owner \in [Tokens -> Users]
    /\ reqs = [r \in Requests |-> Idle]

-----------------------------------------------------------------------------
(* Membership *)

AddUserToGroup(g, u) ==
    /\ g \in groups
    /\ <<u, g>> \notin members
    /\ members' = members \cup {<<u, g>>}
    /\ UNCHANGED <<groups, nested, grants, scope, owner, reqs>>

RemoveUserFromGroup(g, u) ==
    /\ <<u, g>> \in members
    /\ members' = members \ {<<u, g>>}
    /\ UNCHANGED <<groups, nested, grants, scope, owner, reqs>>

AddGroupToGroup(parent, child) ==
    /\ {parent, child} \subseteq groups
    /\ <<parent, child>> \notin nested
    /\ validateNoCircularReference(parent, child)
    /\ nested' = nested \cup {<<parent, child>>}
    /\ UNCHANGED <<groups, members, grants, scope, owner, reqs>>

RemoveGroupFromGroup(parent, child) ==
    /\ <<parent, child>> \in nested
    /\ nested' = nested \ {<<parent, child>>}
    /\ UNCHANGED <<groups, members, grants, scope, owner, reqs>>

-----------------------------------------------------------------------------
(* Grants *)

GrantConnectionPrivilege(g, x, level) ==
    /\ g \in groups
    /\ grants' = [grants EXCEPT ![g][x] = level]
    /\ UNCHANGED <<groups, members, nested, scope, owner, reqs>>

liftsConnectionRestriction(g, x) ==
    /\ x # AllConns
    /\ grants[g][x] > 0
    /\ \A h \in Groups \ {g} : grants[h][x] = 0

\* Whether the grant is the last is not looked at when it is removed.
GuardLiftUnchecked(guard, g, x) == TRUE

guardLiftTx(guard, g, x) == x \in guard \/ ~liftsConnectionRestriction(g, x)

revokeConnectionPrivilege(g, x, guard) ==
    /\ grants[g][x] > 0
    /\ guardLiftTx(guard, g, x)
    /\ grants' = [grants EXCEPT ![g][x] = 0]
    /\ UNCHANGED <<groups, members, nested, scope, owner>>

\* Only the memberships the group has as a parent are removed.
DeleteGroupKeepsParents(g, guard) ==
    /\ g \in groups
    /\ \A x \in ConnIds : grants[g][x] > 0 => guardLiftTx(guard, g, x)
    /\ groups' = groups \ {g}
    /\ members' = {m \in members : m[2] # g}
    /\ nested' = {e \in nested : e[1] # g}
    /\ grants' = [grants EXCEPT ![g] = NoRows]
    /\ UNCHANGED <<scope, owner>>

deleteGroup(g, guard) ==
    /\ g \in groups
    /\ \A x \in ConnIds : grants[g][x] > 0 => guardLiftTx(guard, g, x)
    /\ groups' = groups \ {g}
    /\ members' = {m \in members : m[2] # g}
    /\ nested' = {e \in nested : g \notin {e[1], e[2]}}
    /\ grants' = [grants EXCEPT ![g] = NoRows]
    /\ UNCHANGED <<scope, owner>>

SessionRevoke(g, x) ==
    /\ revokeConnectionPrivilege(g, x, ConnIds)
    /\ UNCHANGED reqs

SessionDeleteGroup(g) ==
    /\ deleteGroup(g, ConnIds)
    /\ UNCHANGED reqs

\* The lift guard of a token: those of the connections it holds read-write.
ConnectionLiftGuard(t, ids) == {x \in ids : coversConnection(t, x, 2)}

Await(r, req) ==
    /\ reqs' = [reqs EXCEPT ![r] = req]
    /\ UNCHANGED <<groups, members, nested, grants, scope, owner>>

JudgeRevoke(r, t, g, x) ==
    /\ reqs[r] = Idle
    /\ coversConnection(t, x, 1)
    /\ Await(r, [kind |-> "revoke", group |-> g, conn |-> x,
                 guard |-> ConnectionLiftGuard(t, {x})])

JudgeDeleteGroup(r, t, g) ==
    /\ reqs[r] = Idle
    /\ connectionsReadable(t, g)
    /\ Await(r, [kind |-> "delete", group |-> g,
                 guard |-> ConnectionLiftGuard(t, {x \in ConnIds : grants[g][x] > 0})])

TokenRevoke(r) ==
    /\ reqs[r].kind = "revoke"
    /\ revokeConnectionPrivilege(reqs[r].group, reqs[r].conn, reqs[r].guard)
    /\ reqs' = [reqs EXCEPT ![r] = Idle]

TokenDeleteGroup(r) ==
    /\ reqs[r].kind = "delete"
    /\ deleteGroup(reqs[r].group, reqs[r].guard)
    /\ reqs' = [reqs EXCEPT ![r] = Idle]

-----------------------------------------------------------------------------
(* Token scopes *)

\* A superuser's session, or the command line, may write any scope.
SessionSetTokenScope(t, change) ==
    /\ scope[t] # change
    /\ scope' = [scope EXCEPT ![t] = change]
    /\ UNCHANGED <<groups, members, nested, grants, owner, reqs>>

\* What the write may raise a connection to: nothing for the acting token
\* itself and for someone else's, the ceiling read now for another token of
\* the same owner.  The code keeps only the verdict.
MayRaise(a, t) ==
    [c \in Conns |-> IF a # t /\ owner[a] = owner[t] THEN connectionLevel(a, c) ELSE 0]

ScopeRequest(a, t, change) ==
    [kind |-> "scope", token |-> a, target |-> t, change |-> change,
     judged |-> scope[t], may |-> MayRaise(a, t)]

JudgeTokenScopeChange(r, a, t, change) ==
    /\ reqs[r] = Idle
    /\ Scoped(change)
    /\ connectionsChangeCovered(a, scope[t], change)
    /\ Await(r, ScopeRequest(a, t, change))

JudgeTokenScopeClear(r, a, t) ==
    /\ reqs[r] = Idle
    /\ clearWithinCeiling(a, scope[t])
    /\ Await(r, ScopeRequest(a, t, NoRows))

guardTokenOwnerTx(a, t, change) ==
    \/ owner[a] = owner[t]
    \/ Scoped(change) /\ ~widens(scope[t], change)

guardJudgedTokenScopeTx(t, judged) == scope[t] = judged

\* The write goes ahead whatever the scope has become since it was judged.
TokenSetTokenScopeUnjudged(r) ==
    LET q == reqs[r]
    IN  /\ q.kind = "scope"
        /\ guardTokenOwnerTx(q.token, q.target, q.change)
        /\ scope' = [scope EXCEPT ![q.target] = q.change]
        /\ reqs' = [reqs EXCEPT ![r] = Idle]
        /\ UNCHANGED <<groups, members, nested, grants, owner>>

TokenSetTokenScope(r) ==
    LET q == reqs[r]
    IN  /\ q.kind = "scope"
        /\ guardTokenOwnerTx(q.token, q.target, q.change)
        /\ guardJudgedTokenScopeTx(q.target, q.judged)
        /\ scope' = [scope EXCEPT ![q.target] = q.change]
        /\ reqs' = [reqs EXCEPT ![r] = Idle]
        /\ UNCHANGED <<groups, members, nested, grants, owner>>

-----------------------------------------------------------------------------
\* A request whose transaction is refused or fails writes nothing.
RequestFails(r) ==
    /\ reqs[r] # Idle
    /\ reqs' = [reqs EXCEPT ![r] = Idle]
    /\ UNCHANGED <<groups, members, nested, grants, scope, owner>>

Rows ==
    Cardinality(members) + Cardinality(nested)
      + Cardinality({p \in Groups \X ConnIds : grants[p[1]][p[2]] > 0})
      + Cardinality({p \in Tokens \X ConnIds : scope[p[1]][p[2]] > 0})

Change ==
    \/ \E g \in Groups, u \in Users : AddUserToGroup(g, u) \/ RemoveUserFromGroup(g, u)
    \/ \E p, m \in Groups : AddGroupToGroup(p, m) \/ RemoveGroupFromGroup(p, m)
    \/ \E g \in Groups, x \in ConnIds, l \in Levels \ {0} :
         GrantConnectionPrivilege(g, x, l)
    \/ \E g \in Groups, x \in ConnIds : SessionRevoke(g, x)
    \/ \E g \in Groups : SessionDeleteGroup(g)
    \/ \E t \in Tokens, s \in Scopes : SessionSetTokenScope(t, s)
    \/ \E r \in Requests :
         \/ \E t \in Tokens, g \in Groups :
              \/ \E x \in ConnIds : JudgeRevoke(r, t, g, x)
              \/ JudgeDeleteGroup(r, t, g)
         \/ \E a, t \in Tokens :
              \/ \E s \in Scopes : JudgeTokenScopeChange(r, a, t, s)
              \/ JudgeTokenScopeClear(r, a, t)
         \/ TokenRevoke(r)
         \/ TokenDeleteGroup(r)
         \/ TokenSetTokenScope(r)
         \/ RequestFails(r)

Next == Change /\ Rows' <= MaxRows

Spec == Init /\ [][Next]_vars

-----------------------------------------------------------------------------
(* Properties *)

RequestStates ==
    {Idle}
      \cup [kind: {"revoke"}, group: Groups, conn: ConnIds, guard: SUBSET ConnIds]
      \cup [kind: {"delete"}, group: Groups, guard: SUBSET ConnIds]
      \cup [kind: {"scope"}, token: Tokens, target: Tokens,
            change: [ConnIds -> Levels], judged: [ConnIds -> Levels],
            may: [Conns -> Levels]]

\* Every table holds rows of its own type; a membership or a grant belongs
\* to a group that exists, as the foreign keys require.
TypeOK ==
    /\ groups \subseteq Groups
    /\ members \subseteq Users \X groups
    /\ nested \subseteq groups \X groups
    /\ grants \in [Groups -> [ConnIds -> Levels]]
    /\ \A g \in Groups \ groups : grants[g] = NoRows
    /\ scope \in [Tokens -> Scopes]
    /\ owner \in [Tokens -> Users]
    /\ reqs \in [Requests -> RequestStates]

\* No group is, through any chain of memberships, a member of itself, however
\* additions, removals and deletions follow one another (groups.go:866).
HierarchyAcyclic == \A g \in Groups : g \notin Descendants(g)

\* The list of visible connections and the check made when one is opened are
\* two pieces of code; for every state of grants, memberships and scopes, a
\* listed connection can be opened and an openable one is listed, as the
\* comment in VisibleConnectionIDs says (access.go:963).
VisibleAgreesWithAccess ==
    \A t \in Tokens :
        VisibleConnectionIDs(t) = {c \in Conns : CanAccessConnection(t, c) > 0}

\* A request made with a token takes away the last group grant on a
\* connection, and so opens it to everyone if it is shared, only when the
\* token was found to hold that connection read-write: a grant that was not
\* the last when the request was judged, and became so through a concurrent
\* revoke, is kept (privileges.go:1154).
LiftNeedsReadWrite ==
    [][\A r \in Requests, c \in Conns :
         /\ reqs[r] # Idle /\ reqs'[r] = Idle
         /\ IsConnectionAssignedToAnyGroup(c)
         /\ ~IsConnectionAssignedToAnyGroup(c)'
         => c \in reqs[r].guard]_vars

\* A scope written with a token never raises what the written token's scope
\* allows on any connection, when the token is the acting one or belongs to
\* someone else, and otherwise raises it no higher than the acting token's own
\* access; so an administrator's narrowing that lands between the check and
\* the write is not undone (token_scope_snapshot.go:95,
\* rbac_token_handlers.go:574).
TokenNeverEscalates ==
    [][\A r \in Requests :
         reqs[r].kind = "scope" /\ reqs'[r] = Idle =>
           LET q == reqs[r]
               before(c) == IsConnectionInTokenScope(scope[q.target], c)
               after(c) == IsConnectionInTokenScope(scope'[q.target], c)
           IN  \A c \in Conns : after(c) <= Higher(before(c), q.may[c])]_vars

=============================================================================
