------------------------- MODULE AccessControlProofs -------------------------
(***************************************************************************)
(* Proofs about AccessControl, for any users, tokens, groups, connections, *)
(* sharing flags, owners and requests: the types; the hierarchy of groups  *)
(* stays acyclic; the list of visible connections and the check made when  *)
(* one is opened agree; a token takes the last grant of a connection away  *)
(* only when it holds the connection read-write, and never raises a scope  *)
(* beyond what it may.                                                     *)
(***************************************************************************)
EXTENDS AccessControl, FiniteSetTheorems, WellFoundedInduction, TLAPS

(* Induction over the natural numbers, for a set instead of a predicate *)

LEMMA SetInduction ==
    ASSUME NEW S, 0 \in S, \A n \in Nat : n \in S => n + 1 \in S
    PROVE  Nat \subseteq S
<1> SUFFICES ASSUME Nat \ S # {} PROVE FALSE
  OBVIOUS
<1>1. PICK R : R = OpToRel(<, Nat) /\ IsWellFoundedOn(R, Nat)
  BY NatLessThanWellFounded
<1>2. PICK x \in Nat \ S : \A y \in Nat \ S : ~ (<<y, x>> \in R)
  BY <1>1, WFMin
<1>3. x # 0 /\ x - 1 \in Nat /\ x - 1 < x
  OBVIOUS
<1>4. <<x - 1, x>> \in R
  BY <1>1, <1>3 DEF OpToRel
<1>5. x - 1 \in S
  BY <1>2, <1>3, <1>4
<1> QED
  BY <1>3, <1>5

-----------------------------------------------------------------------------
(* The groups that are reached: the least set that holds the first ones and *)
(* is closed under the relation                                             *)

N == Cardinality(Groups)

LEMMA NIsNat == N \in Nat
BY AccessAssumption, FS_CardinalityType DEF N

Accumulates(f, n, start, edges) ==
    f = [m \in 0..n |-> IF m = 0 THEN start
                        ELSE f[m - 1] \cup Image(f[m - 1], edges)]

LEMMA AccumulationSteps ==
    ASSUME NEW start, NEW edges, NEW n \in Nat, NEW f, Accumulates(f, n, start, edges)
    PROVE  /\ f[0] = start
           /\ \A m \in 1..n : f[m] = f[m - 1] \cup Image(f[m - 1], edges)
<1>1. PICK h : h = [m \in 0..n |-> IF m = 0 THEN start
                                  ELSE f[m - 1] \cup Image(f[m - 1], edges)]
  OBVIOUS
<1>2. h[0] = start
  BY <1>1
<1>3. ASSUME NEW m \in 1..n PROVE h[m] = f[m - 1] \cup Image(f[m - 1], edges)
  BY <1>1
<1>4. f = h
  BY <1>1 DEF Accumulates
<1> QED
  BY <1>2, <1>3, <1>4

LEMMA AccumulationExists ==
    ASSUME NEW start, NEW edges, NEW n \in Nat
    PROVE  \E f : Accumulates(f, n, start, edges)
<1> DEFINE Good == {m \in Nat : \E f : Accumulates(f, m, start, edges)}
<1>1. 0 \in Good
  <2>1. PICK f : f = [m \in 0..0 |-> start]
    OBVIOUS
  <2>2. Accumulates(f, 0, start, edges)
    BY <2>1 DEF Accumulates
  <2> QED
    BY <2>2
<1>2. ASSUME NEW m \in Nat, m \in Good PROVE m + 1 \in Good
  <2>1. PICK f : Accumulates(f, m, start, edges)
    BY <1>2
  <2>2. PICK g : g = [i \in 0..(m + 1) |->
                        IF i = m + 1 THEN f[m] \cup Image(f[m], edges) ELSE f[i]]
    OBVIOUS
  <2>3. /\ f[0] = start
        /\ \A i \in 1..m : f[i] = f[i - 1] \cup Image(f[i - 1], edges)
    BY <2>1, AccumulationSteps
  <2>4. \A i \in 0..m : g[i] = f[i]
    BY <2>2
  <2>5. g[m + 1] = f[m] \cup Image(f[m], edges)
    BY <2>2
  <2>6. PICK h : h = [i \in 0..(m + 1) |-> IF i = 0 THEN start
                                ELSE g[i - 1] \cup Image(g[i - 1], edges)]
    OBVIOUS
  <2>7. ASSUME NEW i \in 0..(m + 1) PROVE g[i] = h[i]
    <3>1. CASE i = 0
      BY <2>3, <2>4, <2>6, <3>1
    <3>2. CASE i = m + 1
      <4>1. h[i] = g[i - 1] \cup Image(g[i - 1], edges)
        BY <2>6, <3>2
      <4>2. i - 1 = m /\ g[m] = f[m]
        BY <2>4, <3>2
      <4> QED
        BY <2>5, <3>2, <4>1, <4>2
    <3>3. CASE i \in 1..m
      <4>1. h[i] = g[i - 1] \cup Image(g[i - 1], edges)
        BY <2>6, <3>3
      <4>2. g[i - 1] = f[i - 1] /\ g[i] = f[i]
        BY <2>4, <3>3
      <4> QED
        BY <2>3, <3>3, <4>1, <4>2
    <3> QED
      BY <3>1, <3>2, <3>3
  <2>8. g = h
    <3>1. g = [i \in 0..(m + 1) |-> g[i]]
      BY <2>2
    <3>2. h = [i \in 0..(m + 1) |-> h[i]]
      BY <2>6
    <3> QED
      BY <2>7, <3>1, <3>2
  <2>9. Accumulates(g, m + 1, start, edges)
    BY <2>6, <2>8 DEF Accumulates
  <2> QED
    BY <2>9
<1>3. Nat \subseteq Good
  <2> HIDE DEF Good
  <2> QED
    BY <1>1, <1>2, SetInduction
<1> QED
  BY <1>3

\* The rounds of a query: what they have found, and their last result.
LEMMA ReachRounds ==
    ASSUME NEW start, NEW edges
    PROVE  \E f : /\ f[0] = start
                  /\ \A m \in 1..N : f[m] = f[m - 1] \cup Image(f[m - 1], edges)
                  /\ Reach(start, edges) = f[N]
<1>1. PICK n \in Nat : n = N
  BY NIsNat
<1>2. \E f : Accumulates(f, n, start, edges)
  BY AccumulationExists
<1>3. PICK f : f = CHOOSE h : Accumulates(h, n, start, edges)
  OBVIOUS
<1>4. Accumulates(f, n, start, edges)
  BY <1>2, <1>3
<1>5. /\ f[0] = start
      /\ \A m \in 1..n : f[m] = f[m - 1] \cup Image(f[m - 1], edges)
  <2>1. PICK h : h = [m \in 0..n |-> IF m = 0 THEN start
                                    ELSE f[m - 1] \cup Image(f[m - 1], edges)]
    OBVIOUS
  <2>2. h[0] = start
    BY <1>1, <2>1
  <2>3. ASSUME NEW m \in 1..n PROVE h[m] = f[m - 1] \cup Image(f[m - 1], edges)
    BY <1>1, <2>1
  <2>4. f = h
    BY <1>4, <2>1 DEF Accumulates
  <2> QED
    BY <2>2, <2>3, <2>4
<1>6. Reach(start, edges) = f[n]
  BY <1>1, <1>3 DEF Reach, Accumulates, N
<1> QED
  BY <1>1, <1>5, <1>6

\* Whatever holds the first groups and is closed under the relation.
LEMMA ReachLeast ==
    ASSUME NEW start, NEW edges, NEW T, start \subseteq T, Image(T, edges) \subseteq T
    PROVE  Reach(start, edges) \subseteq T
<1>1. PICK f : /\ f[0] = start
               /\ \A m \in 1..N : f[m] = f[m - 1] \cup Image(f[m - 1], edges)
               /\ Reach(start, edges) = f[N]
  BY ReachRounds
<1>2. /\ f[0] = start
      /\ \A m \in 1..N : f[m] = f[m - 1] \cup Image(f[m - 1], edges)
  BY <1>1
<1> DEFINE Good == {n \in Nat : n <= N => f[n] \subseteq T}
<1>3. 0 \in Good
  BY <1>2
<1>4. ASSUME NEW n \in Nat, n \in Good PROVE n + 1 \in Good
  <2> SUFFICES ASSUME n + 1 <= N PROVE f[n + 1] \subseteq T
    OBVIOUS
  <2>1. f[n] \subseteq T
    BY <1>4, NIsNat
  <2>2. n + 1 \in 1..N /\ (n + 1) - 1 = n
    BY NIsNat
  <2>3. f[n + 1] = f[n] \cup Image(f[n], edges)
    BY <1>2, <2>2
  <2>4. Image(f[n], edges) \subseteq Image(T, edges)
    BY <2>1 DEF Image
  <2> QED
    BY <2>1, <2>3, <2>4
<1>5. Nat \subseteq Good
  <2> HIDE DEF Good
  <2> QED
    BY <1>3, <1>4, SetInduction
<1>6. N \in Good /\ N <= N
  BY <1>5, NIsNat
<1> QED
  BY <1>1, <1>6

\* As many rounds as there are groups are enough to find all of them.
LEMMA ReachClosed ==
    ASSUME NEW start, start \subseteq Groups, NEW edges
    PROVE  /\ Reach(start, edges) \subseteq Groups
           /\ start \subseteq Reach(start, edges)
           /\ Image(Reach(start, edges), edges) \subseteq Reach(start, edges)
<1>1. PICK f : /\ f[0] = start
               /\ \A m \in 1..N : f[m] = f[m - 1] \cup Image(f[m - 1], edges)
               /\ Reach(start, edges) = f[N]
  BY ReachRounds
<1>2. /\ f[0] = start
      /\ \A m \in 1..N : f[m] = f[m - 1] \cup Image(f[m - 1], edges)
  BY <1>1
<1>3. IsFiniteSet(Groups)
  BY AccessAssumption
<1>4. \A S : S \subseteq Groups => IsFiniteSet(S) /\ Cardinality(S) \in Nat
  BY <1>3, FS_Subset, FS_CardinalityType
\* Every round adds a group or finds nothing more to add.
<1> DEFINE Closed(n) == Image(f[n], edges) \subseteq f[n]
           Good == {n \in Nat : n <= N => /\ f[n] \subseteq Groups
                                          /\ start \subseteq f[n]
                                          /\ n <= Cardinality(f[n]) \/ Closed(n)}
<1>5. 0 \in Good
  <2>1. f[0] \subseteq Groups /\ start \subseteq f[0]
    BY <1>2
  <2>2. Cardinality(f[0]) \in Nat
    BY <1>4, <2>1
  <2>3. 0 <= Cardinality(f[0])
    BY <2>2
  <2> QED
    BY <2>1, <2>3
<1>6. ASSUME NEW n \in Nat, n \in Good PROVE n + 1 \in Good
  <2> SUFFICES ASSUME n + 1 <= N
               PROVE  /\ f[n + 1] \subseteq Groups
                      /\ start \subseteq f[n + 1]
                      /\ n + 1 <= Cardinality(f[n + 1]) \/ Closed(n + 1)
    OBVIOUS
  <2>1. /\ f[n] \subseteq Groups
        /\ start \subseteq f[n]
        /\ n <= Cardinality(f[n]) \/ Closed(n)
    BY <1>6, NIsNat
  <2>2. n + 1 \in 1..N /\ (n + 1) - 1 = n
    BY NIsNat
  <2>3. f[n + 1] = f[n] \cup Image(f[n], edges)
    BY <1>2, <2>2
  <2>4. f[n + 1] \subseteq Groups /\ start \subseteq f[n + 1]
    BY <2>1, <2>3 DEF Image
  <2>5. CASE Closed(n)
    <3>1. f[n + 1] = f[n]
      BY <2>3, <2>5
    <3> QED
      BY <2>4, <2>5, <3>1
  <2>6. CASE ~ Closed(n)
    <3>1. PICK g \in Image(f[n], edges) : g \notin f[n]
      BY <2>6
    <3>2. /\ Cardinality(f[n] \cup {g}) = Cardinality(f[n]) + 1
          /\ IsFiniteSet(f[n] \cup {g})
      BY <1>4, <2>1, <3>1, FS_AddElement
    <3>3. f[n] \cup {g} \subseteq f[n + 1]
      BY <2>3, <3>1
    <3>4. Cardinality(f[n] \cup {g}) <= Cardinality(f[n + 1])
      BY <1>4, <2>4, <3>3, FS_Subset
    <3>5. Cardinality(f[n]) \in Nat /\ Cardinality(f[n + 1]) \in Nat
          /\ n <= Cardinality(f[n])
      BY <1>4, <2>1, <2>4, <2>6
    <3>6. n + 1 <= Cardinality(f[n + 1])
      BY <3>2, <3>4, <3>5
    <3> QED
      BY <2>4, <3>6
  <2> QED
    BY <2>5, <2>6
<1>7. Nat \subseteq Good
  <2> HIDE DEF Good
  <2> QED
    BY <1>5, <1>6, SetInduction
<1>8. /\ f[N] \subseteq Groups /\ start \subseteq f[N]
      /\ N <= Cardinality(f[N]) \/ Closed(N)
  BY <1>7, NIsNat
<1>9. ASSUME N <= Cardinality(f[N]) PROVE Closed(N)
  <2>1. Cardinality(f[N]) = Cardinality(Groups)
    <3>1. Cardinality(f[N]) <= Cardinality(Groups) /\ Cardinality(f[N]) \in Nat
      BY <1>3, <1>4, <1>8, FS_Subset
    <3> QED
      BY <1>9, <3>1, NIsNat DEF N
  <2>2. f[N] = Groups
    BY <1>3, <1>8, <2>1, FS_Subset
  <2> QED
    BY <2>2 DEF Image
<1> QED
  BY <1>1, <1>8, <1>9

-----------------------------------------------------------------------------
(* The hierarchy of groups *)

Below(g, edges) == Reach(Image({g}, edges), edges)

LEMMA BelowClosed ==
    ASSUME NEW g, NEW edges
    PROVE  /\ Image({g}, edges) \subseteq Below(g, edges)
           /\ Image(Below(g, edges), edges) \subseteq Below(g, edges)
<1>1. Image({g}, edges) \subseteq Groups
  BY DEF Image
<1> QED
  BY <1>1, ReachClosed DEF Below

LEMMA BelowLeast ==
    ASSUME NEW g, NEW edges, NEW T,
           Image({g}, edges) \subseteq T, Image(T, edges) \subseteq T
    PROVE  Below(g, edges) \subseteq T
BY ReachLeast DEF Below

\* What is below a group with fewer memberships was below it with more.
LEMMA BelowMonotone ==
    ASSUME NEW g, NEW fewer, NEW edges, fewer \subseteq edges
    PROVE  Below(g, fewer) \subseteq Below(g, edges)
<1>1. /\ Image({g}, edges) \subseteq Below(g, edges)
      /\ Image(Below(g, edges), edges) \subseteq Below(g, edges)
  BY BelowClosed
<1>2. /\ Image({g}, fewer) \subseteq Image({g}, edges)
      /\ Image(Below(g, edges), fewer) \subseteq Image(Below(g, edges), edges)
  BY DEF Image
<1>3. /\ Image({g}, fewer) \subseteq Below(g, edges)
      /\ Image(Below(g, edges), fewer) \subseteq Below(g, edges)
  BY <1>1, <1>2
<1> QED
  BY <1>3, BelowLeast

\* What is below a group is below whatever that group is below.
LEMMA BelowTransitive ==
    ASSUME NEW g, NEW h, NEW edges, h \in Below(g, edges)
    PROVE  Below(h, edges) \subseteq Below(g, edges)
<1>1. Image(Below(g, edges), edges) \subseteq Below(g, edges)
  BY BelowClosed
<1>2. Image({h}, edges) \subseteq Image(Below(g, edges), edges)
  BY DEF Image
<1> QED
  BY <1>1, <1>2, BelowLeast

\* The check made before a group becomes a member of another is enough: the
\* new membership closes no cycle.
LEMMA AddingKeepsAcyclic ==
    ASSUME NEW edges, NEW parent, NEW child, parent # child,
           parent \notin Below(child, edges),
           \A g \in Groups : g \notin Below(g, edges),
           NEW g \in Groups
    PROVE  g \notin Below(g, edges \cup {<<parent, child>>})
<1> DEFINE more == edges \cup {<<parent, child>>}
           D == Below(g, edges)
           C == Below(child, edges)
<1>1. /\ Image({g}, edges) \subseteq D
      /\ Image(D, edges) \subseteq D
      /\ Image({child}, edges) \subseteq C
      /\ Image(C, edges) \subseteq C
  BY BelowClosed
<1>2. g \notin D
  OBVIOUS
<1>3. CASE g = parent \/ parent \in D
  <2> DEFINE T == D \cup {child} \cup C
  <2>1. g \notin C
    <3>1. CASE parent \in D
      BY <3>1, BelowTransitive
    <3> QED
      BY <1>3, <3>1
  <2>2. g # child
    BY <1>3
  <2> HIDE DEF D, C
  <2>3. Image({g}, more) \subseteq T
    BY <1>1 DEF Image
  <2>4. Image(T, more) \subseteq T
    BY <1>1 DEF Image
  <2>5. Below(g, more) \subseteq T
    <3> HIDE DEF T, more
    <3> QED
      BY <2>3, <2>4, BelowLeast
  <2> QED
    BY <1>2, <2>1, <2>2, <2>5
<1>4. CASE g # parent /\ parent \notin D
  <2> HIDE DEF D, C
  <2>1. Image({g}, more) \subseteq D
    BY <1>1, <1>4 DEF Image
  <2>2. Image(D, more) \subseteq D
    BY <1>1, <1>4 DEF Image
  <2>3. Below(g, more) \subseteq D
    <3> HIDE DEF more
    <3> QED
      BY <2>1, <2>2, BelowLeast
  <2> QED
    BY <1>2, <2>3
<1> QED
  BY <1>3, <1>4

\* A step adds one membership that was checked, or only takes some away.
LEMMA HierarchySteps ==
    ASSUME [Next]_vars
    PROVE  \/ nested' \subseteq nested
           \/ \E p, m \in Groups : /\ validateNoCircularReference(p, m)
                                  /\ nested' = nested \cup {<<p, m>>}
<1>1. CASE Change
  BY <1>1
    DEF Change, AddUserToGroup, RemoveUserFromGroup, AddGroupToGroup,
        RemoveGroupFromGroup, GrantConnectionPrivilege, SessionRevoke,
        SessionDeleteGroup, revokeConnectionPrivilege, deleteGroup,
        SessionSetTokenScope, JudgeRevoke, JudgeDeleteGroup,
        JudgeTokenScopeChange, JudgeTokenScopeClear, Await, TokenRevoke,
        TokenDeleteGroup, TokenSetTokenScope, RequestFails
<1> QED
  BY <1>1 DEF Next, vars

\* No chain of memberships leads from a group back to itself, for any number
\* of groups: the recursive query of validateNoCircularReference finds every
\* member, and the membership it lets through closes no cycle
\* (groups.go:866).
THEOREM HierarchyAcyclicHolds == Spec => []HierarchyAcyclic
<1>1. HierarchyAcyclic <=> \A g \in Groups : g \notin Below(g, nested)
  BY DEF HierarchyAcyclic, Descendants, Children, Below
<1>2. Init => HierarchyAcyclic
  <2> SUFFICES ASSUME nested = {}, NEW g \in Groups PROVE g \notin Below(g, nested)
    BY <1>1 DEF Init
  <2>1. Image({g}, nested) \subseteq {} /\ Image({}, nested) \subseteq {}
    BY DEF Image
  <2>2. Below(g, nested) \subseteq {}
    BY <2>1, BelowLeast
  <2> QED
    BY <2>2
<1>3. HierarchyAcyclic /\ [Next]_vars => HierarchyAcyclic'
  <2> SUFFICES ASSUME HierarchyAcyclic, [Next]_vars PROVE HierarchyAcyclic'
    OBVIOUS
  <2>1. \A g \in Groups : g \notin Below(g, nested)
    BY <1>1
  <2>2. HierarchyAcyclic' <=> \A g \in Groups : g \notin Below(g, nested')
    BY DEF HierarchyAcyclic, Descendants, Children, Below
  <2>3. CASE nested' \subseteq nested
    BY <2>1, <2>2, <2>3, BelowMonotone
  <2>4. ASSUME NEW p \in Groups, NEW m \in Groups,
               validateNoCircularReference(p, m),
               nested' = nested \cup {<<p, m>>}
        PROVE  HierarchyAcyclic'
    <3>1. p # m /\ p \notin Below(m, nested)
      BY <2>4 DEF validateNoCircularReference, Descendants, Children, Below
    <3>2. \A g \in Groups : g \notin Below(g, nested \cup {<<p, m>>})
      BY <2>1, <3>1, AddingKeepsAcyclic
    <3> QED
      BY <2>2, <2>4, <3>2
  <2> QED
    BY <2>3, <2>4, HierarchySteps
<1> QED
  BY <1>2, <1>3, PTL DEF Spec

-----------------------------------------------------------------------------
(* Levels *)

Rights == [ConnIds -> Levels]

LEMMA HighestIsMember ==
    ASSUME NEW S, S \subseteq Levels, S # {}
    PROVE  /\ Highest(S) \in S
           /\ \A k \in S : k <= Highest(S)
<1>1. \E l \in S : \A k \in S : k <= l
  <2>1. CASE 2 \in S
    BY <2>1 DEF Levels
  <2>2. CASE 2 \notin S /\ 1 \in S
    BY <2>2 DEF Levels
  <2>3. CASE 2 \notin S /\ 1 \notin S
    <3>1. \A k \in S : k = 0
      BY <2>3 DEF Levels
    <3> QED
      BY <3>1
  <2> QED
    BY <2>1, <2>2, <2>3
<1> QED
  BY <1>1 DEF Highest

LEMMA NoRowsIsScope == NoRows \in Rights /\ NoRows \in Scopes
<1>1. NoRows \in Rights /\ \A x \in ConnIds : NoRows[x] = 0
  BY DEF NoRows, Rights, Levels
<1>2. AllConns \in ConnIds /\ Conns \subseteq ConnIds
  BY DEF ConnIds
<1> QED
  BY <1>1, <1>2 DEF Scopes, ValidateScopedConnections, Rights

\* The levels a set of groups confers are levels, and cover each group's.
LEMMA PrivilegesAreRights ==
    ASSUME grants \in [Groups -> Rights], NEW S, S \subseteq Groups
    PROVE  /\ GroupsPrivileges(S) \in Rights
           /\ \A x \in ConnIds : \A g \in S : grants[g][x] <= GroupsPrivileges(S)[x]
           /\ \A x \in ConnIds : GroupsPrivileges(S)[x] > 0 =>
                 \E g \in S : grants[g][x] = GroupsPrivileges(S)[x]
<1>1. PICK p : p = GroupsPrivileges(S)
  OBVIOUS
<1>2. p = [x \in ConnIds |-> Highest({0} \cup {grants[g][x] : g \in S})]
  BY <1>1 DEF GroupsPrivileges
<1>3. ASSUME NEW x \in ConnIds
      PROVE  /\ p[x] \in Levels
             /\ \A g \in S : grants[g][x] <= p[x]
             /\ p[x] > 0 => \E g \in S : grants[g][x] = p[x]
  <2>1. PICK L : L = {0} \cup {grants[g][x] : g \in S}
    OBVIOUS
  <2>2. L \subseteq Levels /\ L # {}
    <3>1. \A g \in S : grants[g][x] \in Levels
      BY DEF Rights
    <3> QED
      BY <2>1, <3>1 DEF Levels
  <2>3. p[x] = Highest(L)
    BY <1>2, <2>1
  <2>4. p[x] \in L /\ \A k \in L : k <= p[x]
    BY <2>2, <2>3, HighestIsMember
  <2>5. p[x] \in Levels
    BY <2>2, <2>4
  <2>6. \A g \in S : grants[g][x] \in L
    BY <2>1
  <2>7. ASSUME p[x] > 0 PROVE \E g \in S : grants[g][x] = p[x]
    <3>1. p[x] \in {0} \/ p[x] \in {grants[g][x] : g \in S}
      BY <2>1, <2>4
    <3>2. p[x] \notin {0}
      BY <2>7
    <3> QED
      BY <3>1, <3>2
  <2> QED
    BY <2>4, <2>5, <2>6, <2>7
<1>4. p \in Rights
  BY <1>2, <1>3 DEF Rights
<1> QED
  BY <1>1, <1>3, <1>4

LEMMA UserGroupsExist == \A u : GetUserGroups(u) \subseteq Groups
<1>1. \A u : {g \in Groups : <<u, g>> \in members} \subseteq Groups
  OBVIOUS
<1> QED
  BY <1>1, ReachClosed DEF GetUserGroups

LEMMA UserPrivilegesAreRights ==
    ASSUME grants \in [Groups -> Rights]
    PROVE  \A u : GetUserConnectionPrivileges(u) \in Rights
BY UserGroupsExist, PrivilegesAreRights DEF GetUserConnectionPrivileges

LEMMA AccessIsLevel ==
    ASSUME grants \in [Groups -> Rights], scope \in [Tokens -> Rights],
           NEW t \in Tokens, NEW c \in Conns
    PROVE  CanAccessConnection(t, c) \in Levels
<1>1. PICK p : p = GetUserConnectionPrivileges(owner[t]) /\ p \in Rights
  BY UserPrivilegesAreRights
<1>2. PICK s : s = scope[t] /\ s \in Rights
  OBVIOUS
<1>3. c \in ConnIds /\ AllConns \in ConnIds
  BY DEF ConnIds
<1>4. /\ p[c] \in Levels /\ p[AllConns] \in Levels
      /\ s[c] \in Levels /\ s[AllConns] \in Levels
  BY <1>1, <1>2, <1>3 DEF Rights
<1>5. \A u, restricted : connectionAccessRule(u, restricted, p, c) \in Levels
  BY <1>4 DEF connectionAccessRule, resolveConnectionAccess, Higher, Levels
<1>6. IsConnectionInTokenScope(s, c) \in Levels
  BY <1>4 DEF IsConnectionInTokenScope, Levels
<1> QED
  BY <1>1, <1>2, <1>5, <1>6 DEF CanAccessConnection, Lower

-----------------------------------------------------------------------------
(* Types *)

\* What a request that waits for its transaction may be; the scope it asks
\* for has passed ValidateScopedConnections.
Pending ==
    {q \in RequestStates : q.kind = "scope" => q.change \in Scopes}

Typed == TypeOK /\ reqs \in [Requests -> Pending]

LEMMA RequestShapes ==
    ASSUME NEW q \in Pending
    PROVE  /\ q.kind = "revoke" =>
                q.group \in Groups /\ q.conn \in ConnIds /\ q.guard \subseteq ConnIds
           /\ q.kind = "delete" => q.group \in Groups /\ q.guard \subseteq ConnIds
           /\ q.kind = "scope" => /\ q.token \in Tokens /\ q.target \in Tokens
                                  /\ q.change \in Scopes
                                  /\ q.judged \in Rights
                                  /\ q.may \in [Conns -> Levels]
BY DEF Pending, RequestStates, Idle, Rights

LEMMA ScopesAreRights == Scopes \subseteq Rights
BY DEF Scopes, Rights

\* A request that is answered, and one that is judged and waits.
LEMMA RequestsTyped ==
    ASSUME Typed, NEW r \in Requests, NEW q \in Pending,
           reqs' = [reqs EXCEPT ![r] = q]
    PROVE  reqs' \in [Requests -> Pending] /\ reqs' \in [Requests -> RequestStates]
<1>1. reqs' \in [Requests -> Pending]
  BY DEF Typed
<1> QED
  BY <1>1 DEF Pending

LEMMA IdleIsPending == Idle \in Pending /\ Idle.kind = "idle"
<1>1. PICK i : i = Idle
  OBVIOUS
<1>2. i.kind = "idle" /\ i \in RequestStates
  BY <1>1 DEF Idle, RequestStates
<1> QED
  BY <1>1, <1>2 DEF Pending

LEMMA JudgedArePending ==
    ASSUME Typed
    PROVE  /\ \A t \in Tokens, g \in Groups, x \in ConnIds :
                [kind |-> "revoke", group |-> g, conn |-> x,
                 guard |-> ConnectionLiftGuard(t, {x})] \in Pending
           /\ \A t \in Tokens, g \in Groups :
                [kind |-> "delete", group |-> g,
                 guard |-> ConnectionLiftGuard(t, {x \in ConnIds : grants[g][x] > 0})]
                   \in Pending
           /\ \A a, t \in Tokens, s \in Scopes : ScopeRequest(a, t, s) \in Pending
<1>1. ASSUME NEW t \in Tokens, NEW g \in Groups, NEW x \in ConnIds
      PROVE  [kind |-> "revoke", group |-> g, conn |-> x,
              guard |-> ConnectionLiftGuard(t, {x})] \in Pending
  <2>1. PICK G : G = ConnectionLiftGuard(t, {x}) /\ G \subseteq ConnIds
    BY DEF ConnectionLiftGuard
  <2> QED
    BY <2>1 DEF Pending, RequestStates
<1>2. ASSUME NEW t \in Tokens, NEW g \in Groups
      PROVE  [kind |-> "delete", group |-> g,
              guard |-> ConnectionLiftGuard(t, {x \in ConnIds : grants[g][x] > 0})]
                \in Pending
  <2>1. PICK G : /\ G = ConnectionLiftGuard(t, {x \in ConnIds : grants[g][x] > 0})
                 /\ G \subseteq ConnIds
    BY DEF ConnectionLiftGuard
  <2> QED
    BY <2>1 DEF Pending, RequestStates
<1>3. ASSUME NEW a \in Tokens, NEW t \in Tokens, NEW s \in Scopes
      PROVE  ScopeRequest(a, t, s) \in Pending
  <2>1. PICK m : m = MayRaise(a, t)
    OBVIOUS
  <2>2. grants \in [Groups -> Rights] /\ scope \in [Tokens -> Rights]
    BY ScopesAreRights DEF Typed, TypeOK, Rights
  <2>3. \A c \in Conns : connectionLevel(a, c) \in Levels
    BY <2>2, AccessIsLevel, AccessAssumption DEF connectionLevel
  <2>4. m \in [Conns -> Levels]
    BY <2>1, <2>3 DEF MayRaise, Levels
  <2>5. PICK j \in Rights : j = scope[t]
    BY <2>2
  <2>6. ScopeRequest(a, t, s) = [kind |-> "scope", token |-> a, target |-> t,
                                 change |-> s, judged |-> j, may |-> m]
    BY <2>1, <2>5 DEF ScopeRequest
  <2>7. s \in Rights
    BY ScopesAreRights
  <2> QED
    BY <2>4, <2>5, <2>6, <2>7 DEF Pending, RequestStates, Rights
<1> QED
  BY <1>1, <1>2, <1>3

\* A grant written on a group that exists.
LEMMA GrantTyped ==
    ASSUME Typed, NEW g \in groups, NEW x \in ConnIds, NEW l \in Levels,
           grants' = [grants EXCEPT ![g][x] = l], UNCHANGED groups
    PROVE  /\ grants' \in [Groups -> [ConnIds -> Levels]]
           /\ \A h \in Groups \ groups' : grants'[h] = NoRows
BY DEF Typed, TypeOK

\* A grant that is there belongs to a group that exists.
LEMMA GrantedGroupExists ==
    ASSUME Typed, NEW g \in Groups, NEW x \in ConnIds, grants[g][x] > 0
    PROVE  g \in groups
<1>1. ASSUME g \notin groups PROVE FALSE
  <2>1. grants[g] = NoRows
    BY <1>1 DEF Typed, TypeOK
  <2>2. NoRows[x] = 0
    BY DEF NoRows
  <2> QED
    BY <2>1, <2>2
<1> QED
  BY <1>1

Stored ==
    /\ groups \subseteq Groups
    /\ members \subseteq Users \X groups
    /\ nested \subseteq groups \X groups
    /\ grants \in [Groups -> [ConnIds -> Levels]]
    /\ \A g \in Groups \ groups : grants[g] = NoRows
    /\ scope \in [Tokens -> Scopes]
    /\ owner \in [Tokens -> Users]

LEMMA RevokeTyped ==
    ASSUME Typed, NEW g \in Groups, NEW x \in ConnIds, NEW guard,
           revokeConnectionPrivilege(g, x, guard)
    PROVE  Stored'
<1>1. g \in groups /\ 0 \in Levels
  BY GrantedGroupExists DEF revokeConnectionPrivilege, Levels
<1>2. /\ grants' \in [Groups -> [ConnIds -> Levels]]
      /\ \A h \in Groups \ groups' : grants'[h] = NoRows
  BY <1>1, GrantTyped DEF revokeConnectionPrivilege
<1> QED
  BY <1>2 DEF revokeConnectionPrivilege, Typed, TypeOK, Stored

LEMMA DeleteTyped ==
    ASSUME Typed, NEW g \in Groups, NEW guard, deleteGroup(g, guard)
    PROVE  Stored'
<1>1. groups' \subseteq Groups
  BY DEF deleteGroup, Typed, TypeOK
<1>2. members' \subseteq Users \X groups'
  BY DEF deleteGroup, Typed, TypeOK
<1>3. nested' \subseteq groups' \X groups'
  BY DEF deleteGroup, Typed, TypeOK
<1>4. grants' \in [Groups -> [ConnIds -> Levels]]
  BY NoRowsIsScope DEF deleteGroup, Typed, TypeOK, Rights
<1>5. \A h \in Groups \ groups' : grants'[h] = NoRows
  BY DEF deleteGroup, Typed, TypeOK
<1>6. scope' = scope /\ owner' = owner
  BY DEF deleteGroup
<1>7. scope \in [Tokens -> Scopes] /\ owner \in [Tokens -> Users]
  BY DEF Typed, TypeOK
<1> QED
  BY <1>1, <1>2, <1>3, <1>4, <1>5, <1>6, <1>7 DEF Stored

LEMMA ScopeTyped ==
    ASSUME Typed, NEW t \in Tokens, NEW s \in Scopes,
           scope' = [scope EXCEPT ![t] = s],
           UNCHANGED <<groups, members, nested, grants, owner>>
    PROVE  Stored'
BY DEF Typed, TypeOK, Stored

LEMMA TypedStep == Typed /\ [Next]_vars => Typed'
<1> SUFFICES ASSUME Typed, [Next]_vars PROVE Typed'
  OBVIOUS
<1>0. Stored' /\ reqs' \in [Requests -> Pending] => Typed'
  BY DEF Stored, Typed, TypeOK, Pending
<1>1. ASSUME UNCHANGED <<groups, members, nested, grants, scope, owner>> PROVE Stored'
  BY <1>1 DEF Stored, Typed, TypeOK
<1>2. ASSUME UNCHANGED reqs PROVE reqs' \in [Requests -> Pending]
  BY <1>2 DEF Typed
<1>3. ASSUME NEW r \in Requests, NEW q \in Pending, Await(r, q) PROVE Typed'
  BY <1>0, <1>1, <1>3, RequestsTyped DEF Await
<1>4. ASSUME NEW r \in Requests, reqs' = [reqs EXCEPT ![r] = Idle]
      PROVE  reqs' \in [Requests -> Pending]
  BY <1>4, IdleIsPending, RequestsTyped
<1>5. ASSUME NEW g \in Groups, NEW u \in Users, AddUserToGroup(g, u) PROVE Typed'
  <2>1. Stored'
    BY <1>5 DEF AddUserToGroup, Stored, Typed, TypeOK
  <2> QED
    BY <1>0, <1>2, <1>5, <2>1 DEF AddUserToGroup
<1>6. ASSUME NEW g \in Groups, NEW u \in Users, RemoveUserFromGroup(g, u) PROVE Typed'
  <2>1. Stored'
    BY <1>6 DEF RemoveUserFromGroup, Stored, Typed, TypeOK
  <2> QED
    BY <1>0, <1>2, <1>6, <2>1 DEF RemoveUserFromGroup
<1>7. ASSUME NEW p \in Groups, NEW m \in Groups, AddGroupToGroup(p, m) PROVE Typed'
  <2>1. Stored'
    BY <1>7 DEF AddGroupToGroup, Stored, Typed, TypeOK
  <2> QED
    BY <1>0, <1>2, <1>7, <2>1 DEF AddGroupToGroup
<1>8. ASSUME NEW p \in Groups, NEW m \in Groups, RemoveGroupFromGroup(p, m) PROVE Typed'
  <2>1. Stored'
    BY <1>8 DEF RemoveGroupFromGroup, Stored, Typed, TypeOK
  <2> QED
    BY <1>0, <1>2, <1>8, <2>1 DEF RemoveGroupFromGroup
<1>9. ASSUME NEW g \in Groups, NEW x \in ConnIds, NEW l \in Levels \ {0},
             GrantConnectionPrivilege(g, x, l)
      PROVE  Typed'
  <2>1. /\ grants' \in [Groups -> [ConnIds -> Levels]]
        /\ \A h \in Groups \ groups' : grants'[h] = NoRows
    BY <1>9, GrantTyped DEF GrantConnectionPrivilege
  <2>2. Stored'
    BY <1>9, <2>1 DEF GrantConnectionPrivilege, Stored, Typed, TypeOK
  <2> QED
    BY <1>0, <1>2, <1>9, <2>2 DEF GrantConnectionPrivilege
<1>10. ASSUME NEW g \in Groups, NEW x \in ConnIds, SessionRevoke(g, x) PROVE Typed'
  BY <1>0, <1>2, <1>10, RevokeTyped DEF SessionRevoke
<1>11. ASSUME NEW g \in Groups, SessionDeleteGroup(g) PROVE Typed'
  BY <1>0, <1>2, <1>11, DeleteTyped DEF SessionDeleteGroup
<1>12. ASSUME NEW t \in Tokens, NEW s \in Scopes, SessionSetTokenScope(t, s) PROVE Typed'
  BY <1>0, <1>2, <1>12, ScopeTyped DEF SessionSetTokenScope
<1>13. ASSUME NEW r \in Requests, NEW t \in Tokens, NEW g \in Groups, NEW x \in ConnIds,
              JudgeRevoke(r, t, g, x)
       PROVE  Typed'
  BY <1>3, <1>13, JudgedArePending DEF JudgeRevoke
<1>14. ASSUME NEW r \in Requests, NEW t \in Tokens, NEW g \in Groups,
              JudgeDeleteGroup(r, t, g)
       PROVE  Typed'
  BY <1>3, <1>14, JudgedArePending DEF JudgeDeleteGroup
<1>15. ASSUME NEW r \in Requests, NEW a \in Tokens, NEW t \in Tokens, NEW s \in Scopes,
              JudgeTokenScopeChange(r, a, t, s)
       PROVE  Typed'
  BY <1>3, <1>15, JudgedArePending DEF JudgeTokenScopeChange
<1>16. ASSUME NEW r \in Requests, NEW a \in Tokens, NEW t \in Tokens,
              JudgeTokenScopeClear(r, a, t)
       PROVE  Typed'
  BY <1>3, <1>16, JudgedArePending, NoRowsIsScope DEF JudgeTokenScopeClear
<1>17. ASSUME NEW r \in Requests, TokenRevoke(r) PROVE Typed'
  <2>1. reqs[r] \in Pending
    BY DEF Typed
  <2>2. Stored'
    BY <1>17, <2>1, RequestShapes, RevokeTyped DEF TokenRevoke
  <2> QED
    BY <1>0, <1>4, <1>17, <2>2 DEF TokenRevoke
<1>18. ASSUME NEW r \in Requests, TokenDeleteGroup(r) PROVE Typed'
  <2>1. reqs[r] \in Pending
    BY DEF Typed
  <2>2. Stored'
    BY <1>18, <2>1, RequestShapes, DeleteTyped DEF TokenDeleteGroup
  <2> QED
    BY <1>0, <1>4, <1>18, <2>2 DEF TokenDeleteGroup
<1>19. ASSUME NEW r \in Requests, TokenSetTokenScope(r) PROVE Typed'
  <2>1. reqs[r] \in Pending
    BY DEF Typed
  <2>2. Stored'
    BY <1>19, <2>1, RequestShapes, ScopeTyped DEF TokenSetTokenScope
  <2> QED
    BY <1>0, <1>4, <1>19, <2>2 DEF TokenSetTokenScope
<1>20. ASSUME NEW r \in Requests, RequestFails(r) PROVE Typed'
  BY <1>0, <1>1, <1>4, <1>20 DEF RequestFails
<1>21. CASE Change
  BY <1>21, <1>5, <1>6, <1>7, <1>8, <1>9, <1>10, <1>11, <1>12, <1>13, <1>14,
     <1>15, <1>16, <1>17, <1>18, <1>19, <1>20 DEF Change
<1>22. CASE UNCHANGED vars
  BY <1>0, <1>1, <1>2, <1>22 DEF vars
<1> QED
  BY <1>21, <1>22 DEF Next

LEMMA TypedInit == Init => Typed
<1> SUFFICES ASSUME Init PROVE Typed
  OBVIOUS
<1>1. reqs \in [Requests -> Pending]
  BY IdleIsPending DEF Init
<1>2. TypeOK
  BY <1>1, NoRowsIsScope DEF Init, TypeOK, Pending, Rights
<1> QED
  BY <1>1, <1>2 DEF Typed

LEMMA TypedHolds == Spec => []Typed
BY TypedInit, TypedStep, PTL DEF Spec

\* Every table holds rows of its own type whatever the size of the
\* installation; a membership or a grant belongs to a group that exists
\* through deletions (deleteGroup removes both kinds of membership and the
\* grants, groups.go:360).
THEOREM TypeCorrect == Spec => []TypeOK
<1>1. Typed => TypeOK
  BY DEF Typed
<1> QED
  BY <1>1, TypedHolds, PTL

-----------------------------------------------------------------------------
(* The list of visible connections *)

\* The query over every grant and the one about a connection agree.
LEMMA RestrictedAgrees ==
    ASSUME NEW c \in Conns
    PROVE  c \in RestrictedConnectionIDs <=> IsConnectionAssignedToAnyGroup(c)
<1>1. c \in ConnIds /\ c # AllConns
  BY AccessAssumption DEF ConnIds
<1>2. ASSUME NEW g \in Groups, grants[g][c] > 0 PROVE c \in RestrictedConnectionIDs
  <2>1. <<g, c>> \in {q \in Groups \X ConnIds : grants[q[1]][q[2]] > 0}
    BY <1>1, <1>2
  <2> QED
    BY <1>1, <2>1 DEF RestrictedConnectionIDs
<1>3. ASSUME c \in RestrictedConnectionIDs PROVE \E g \in Groups : grants[g][c] > 0
  <2>1. PICK q \in Groups \X ConnIds : grants[q[1]][q[2]] > 0 /\ c = q[2]
    BY <1>3 DEF RestrictedConnectionIDs
  <2> QED
    BY <2>1
<1> QED
  BY <1>2, <1>3 DEF IsConnectionAssignedToAnyGroup

\* What a token is told it may reach through groups, against what its owner's
\* groups and its scope let it reach.
LEMMA EffectiveAgrees ==
    ASSUME Typed, NEW t \in Tokens, NEW c \in Conns,
           NEW own, own = GetUserConnectionPrivileges(owner[t]),
           NEW s, s = scope[t],
           NEW e, e = EffectiveConnectionPrivileges(t)
    PROVE  /\ e[AllConns] > 0 => own[AllConns] > 0 /\ IsConnectionInTokenScope(s, c) > 0
           /\ IsConnectionInTokenScope(s, c) > 0 /\ ~ (e[AllConns] > 0) =>
                (e[c] > 0 <=> own[c] > 0 \/ own[AllConns] > 0)
<1>1. own \in Rights
  BY UserPrivilegesAreRights DEF Typed, TypeOK, Rights
<1>2. s \in Rights
  BY ScopesAreRights DEF Typed, TypeOK
<1>3. c \in ConnIds /\ AllConns \in ConnIds /\ c # AllConns
  BY AccessAssumption DEF ConnIds
<1>4. /\ own[c] \in 0..2 /\ own[AllConns] \in 0..2
      /\ s[c] \in 0..2 /\ s[AllConns] \in 0..2
  BY <1>1, <1>2, <1>3 DEF Rights, Levels
<1>5. CASE ~ Scoped(s)
  <2>0. ~ (s[AllConns] > 0)
    BY <1>3, <1>5 DEF Scoped, NoRows
  <2>1. e = own
    BY <1>5, <2>0 DEF EffectiveConnectionPrivileges
  <2> QED
    BY <1>4, <1>5, <2>1 DEF IsConnectionInTokenScope
<1>6. CASE Scoped(s) /\ s[AllConns] > 0
  <2>1. PICK n : n = Lower(s[c], resolveConnectionAccess(own, c))
    OBVIOUS
  <2>2. e = [x \in ConnIds |->
               IF x # AllConns /\ Lower(s[x], resolveConnectionAccess(own, x)) > 0
               THEN Lower(s[x], resolveConnectionAccess(own, x))
               ELSE Lower(own[x], s[AllConns])]
    BY <1>6 DEF EffectiveConnectionPrivileges
  <2>3. /\ e[c] = IF n > 0 THEN n ELSE Lower(own[c], s[AllConns])
        /\ e[AllConns] = Lower(own[AllConns], s[AllConns])
    BY <1>3, <2>1, <2>2
  <2> QED
    BY <1>4, <1>6, <2>1, <2>3
      DEF Lower, Higher, resolveConnectionAccess, IsConnectionInTokenScope
<1>7. CASE Scoped(s) /\ ~ (s[AllConns] > 0)
  <2>1. e = [x \in ConnIds |-> Lower(s[x], resolveConnectionAccess(own, x))]
    BY <1>7 DEF EffectiveConnectionPrivileges
  <2>2. /\ e[c] = Lower(s[c], resolveConnectionAccess(own, c))
        /\ e[AllConns] = Lower(s[AllConns], resolveConnectionAccess(own, AllConns))
    BY <1>3, <2>1
  <2> QED
    BY <1>4, <1>7, <2>2
      DEF Lower, Higher, resolveConnectionAccess, IsConnectionInTokenScope
<1> QED
  BY <1>5, <1>6, <1>7

LEMMA EffectiveAreRights ==
    ASSUME Typed, NEW t \in Tokens
    PROVE  EffectiveConnectionPrivileges(t) \in Rights
<1>1. PICK own \in Rights : own = GetUserConnectionPrivileges(owner[t])
  BY UserPrivilegesAreRights DEF Typed, TypeOK, Rights
<1>2. PICK s \in Rights : s = scope[t]
  BY ScopesAreRights DEF Typed, TypeOK
<1>3. AllConns \in ConnIds
  BY DEF ConnIds
<1>4. \A x \in ConnIds : /\ Lower(s[x], resolveConnectionAccess(own, x)) \in Levels
                         /\ Lower(own[x], s[AllConns]) \in Levels
  <2>1. \A x \in ConnIds : own[x] \in Levels /\ s[x] \in Levels
    BY <1>1, <1>2 DEF Rights
  <2> QED
    BY <1>3, <2>1 DEF Lower, Higher, resolveConnectionAccess
<1> QED
  BY <1>1, <1>2, <1>4 DEF EffectiveConnectionPrivileges, Rights

LEMMA VisibleIsOpenable == Typed => VisibleAgreesWithAccess
<1> SUFFICES ASSUME Typed, NEW t \in Tokens, NEW c \in Conns
             PROVE  c \in VisibleConnectionIDs(t) <=> CanAccessConnection(t, c) > 0
  BY DEF VisibleAgreesWithAccess, VisibleConnectionIDs
<1>1. PICK own : own = GetUserConnectionPrivileges(owner[t])
  OBVIOUS
<1>2. PICK s : s = scope[t]
  OBVIOUS
<1>3. PICK e : e = EffectiveConnectionPrivileges(t)
  OBVIOUS
<1>4. PICK i : i = IsConnectionInTokenScope(s, c)
  OBVIOUS
<1> DEFINE free == \/ ConnOwner[c] = owner[t]
                   \/ c \in Shared /\ ~ IsConnectionAssignedToAnyGroup(c)
<1>5. ASSUME NEW p, p[c] \in 0..2, p[AllConns] \in 0..2
      PROVE  /\ connectionAccessRule(owner[t], IsConnectionAssignedToAnyGroup(c), p, c) \in 0..2
             /\ connectionAccessRule(owner[t], IsConnectionAssignedToAnyGroup(c), p, c) > 0
                  <=> free \/ p[c] > 0 \/ p[AllConns] > 0
  <2>1. resolveConnectionAccess(p, c) \in 0..2
    BY <1>5 DEF resolveConnectionAccess, Higher
  <2>2. resolveConnectionAccess(p, c) > 0 <=> p[c] > 0 \/ p[AllConns] > 0
    BY <1>5 DEF resolveConnectionAccess, Higher
  <2>3. CASE free
    BY <2>3 DEF connectionAccessRule
  <2>4. CASE ~ free
    BY <2>1, <2>2, <2>4 DEF connectionAccessRule
  <2> QED
    BY <2>3, <2>4
<1> HIDE DEF free
<1>6. /\ e[AllConns] > 0 => own[AllConns] > 0 /\ i > 0
      /\ i > 0 /\ ~ (e[AllConns] > 0) => (e[c] > 0 <=> own[c] > 0 \/ own[AllConns] > 0)
  BY <1>1, <1>2, <1>3, <1>4, EffectiveAgrees
<1>7. c \in ConnIds /\ AllConns \in ConnIds
  BY DEF ConnIds
<1>8. /\ own \in Rights /\ e \in Rights /\ s \in Rights
  BY <1>1, <1>2, <1>3, UserPrivilegesAreRights, EffectiveAreRights, ScopesAreRights
    DEF Typed, TypeOK, Rights
<1>9. /\ own[c] \in 0..2 /\ own[AllConns] \in 0..2
      /\ e[c] \in 0..2 /\ e[AllConns] \in 0..2
      /\ s[c] \in 0..2 /\ s[AllConns] \in 0..2
  BY <1>7, <1>8 DEF Rights, Levels
<1>10. i \in 0..2
  BY <1>4, <1>9 DEF IsConnectionInTokenScope
<1>11. CanAccessConnection(t, c) > 0 <=>
         (free \/ own[c] > 0 \/ own[AllConns] > 0) /\ i > 0
  <2>1. PICK a : a = connectionAccessRule(owner[t], IsConnectionAssignedToAnyGroup(c), own, c)
    OBVIOUS
  <2>2. a \in 0..2 /\ (a > 0 <=> free \/ own[c] > 0 \/ own[AllConns] > 0)
    BY <1>5, <1>9, <2>1
  <2>3. CanAccessConnection(t, c) = Lower(a, i)
    BY <1>1, <1>2, <1>4, <2>1 DEF CanAccessConnection
  <2> QED
    BY <1>10, <2>2, <2>3 DEF Lower
<1>12. PICK v : v = connectionAccessRule(owner[t], c \in RestrictedConnectionIDs, e, c)
  OBVIOUS
<1>13. v > 0 <=> free \/ e[c] > 0 \/ e[AllConns] > 0
  <2>1. v = connectionAccessRule(owner[t], IsConnectionAssignedToAnyGroup(c), e, c)
    BY <1>12, RestrictedAgrees DEF connectionAccessRule
  <2> QED
    BY <1>5, <1>9, <2>1
<1>14. CASE e[AllConns] > 0
  <2>1. c \in VisibleConnectionIDs(t)
    BY <1>3, <1>14 DEF VisibleConnectionIDs
  <2> QED
    BY <1>6, <1>11, <1>14, <2>1
<1>15. CASE ~ (e[AllConns] > 0)
  <2>1. c \in VisibleConnectionIDs(t) <=> (e[c] > 0 \/ v > 0) /\ i > 0
    BY <1>2, <1>3, <1>4, <1>12, <1>15 DEF VisibleConnectionIDs
  <2> QED
    BY <1>6, <1>11, <1>13, <1>15, <2>1
<1> QED
  BY <1>14, <1>15

\* The list VisibleConnectionIDs makes from the grants as a whole, and the
\* answer CanAccessConnection gives for one connection, agree for every
\* token, connection, hierarchy, grant and scope (access.go:963).
THEOREM VisibleAgreesHolds == Spec => []VisibleAgreesWithAccess
BY VisibleIsOpenable, TypedHolds, PTL

-----------------------------------------------------------------------------
(* The last grant on a connection *)

\* Only an answer to a request ends its wait, and only the removals take
\* grants away.
LEMMA AnswerSteps ==
    ASSUME Typed, [Next]_vars, NEW r \in Requests, reqs[r] # Idle, reqs'[r] = Idle
    PROVE  \/ TokenRevoke(r)
           \/ TokenDeleteGroup(r)
           \/ TokenSetTokenScope(r)
           \/ UNCHANGED <<grants, scope>>
<1>0. reqs' # reqs
  OBVIOUS
<1>1. ASSUME NEW k \in Requests, NEW q, k # r, reqs' = [reqs EXCEPT ![k] = q] PROVE FALSE
  BY <1>1 DEF Typed
<1>2. CASE Change
  <2>1. PICK k \in Requests :
          \/ \E t \in Tokens, g \in Groups :
               \/ \E x \in ConnIds : JudgeRevoke(k, t, g, x)
               \/ JudgeDeleteGroup(k, t, g)
          \/ \E a, t \in Tokens :
               \/ \E s \in Scopes : JudgeTokenScopeChange(k, a, t, s)
               \/ JudgeTokenScopeClear(k, a, t)
          \/ TokenRevoke(k)
          \/ TokenDeleteGroup(k)
          \/ TokenSetTokenScope(k)
          \/ RequestFails(k)
    BY <1>0, <1>2
      DEF Change, AddUserToGroup, RemoveUserFromGroup, AddGroupToGroup,
          RemoveGroupFromGroup, GrantConnectionPrivilege, SessionRevoke,
          SessionDeleteGroup, SessionSetTokenScope
  <2>2. CASE k = r
    BY <2>1, <2>2 DEF JudgeRevoke, JudgeDeleteGroup, JudgeTokenScopeChange,
      JudgeTokenScopeClear, Await, RequestFails
  <2>3. CASE k # r
    <3>1. \E q : reqs' = [reqs EXCEPT ![k] = q]
      BY <2>1 DEF JudgeRevoke, JudgeDeleteGroup, JudgeTokenScopeChange,
        JudgeTokenScopeClear, Await, RequestFails, TokenRevoke, TokenDeleteGroup,
        TokenSetTokenScope
    <3> QED
      BY <1>1, <2>3, <3>1
  <2> QED
    BY <2>2, <2>3
<1> QED
  BY <1>0, <1>2 DEF Next, vars

\* Whatever removes the last grant of a connection passed the lift guard.
LEMMA LiftGuarded ==
    ASSUME Typed, NEW g \in Groups, NEW guard, NEW c \in Conns,
           \A x \in ConnIds : grants[g][x] > 0 /\ ~ (grants'[g][x] > 0) =>
              guardLiftTx(guard, g, x),
           \A h \in Groups : h # g => grants'[h] = grants[h],
           IsConnectionAssignedToAnyGroup(c), ~ IsConnectionAssignedToAnyGroup(c)'
    PROVE  c \in guard
<1>1. c \in ConnIds /\ c # AllConns
  BY AccessAssumption DEF ConnIds
<1>2. \A h \in Groups : ~ (grants'[h][c] > 0)
  BY DEF IsConnectionAssignedToAnyGroup
<1>3. \A h \in Groups \ {g} : ~ (grants[h][c] > 0)
  BY <1>2
<1>4. grants[g][c] > 0
  BY <1>3 DEF IsConnectionAssignedToAnyGroup
<1>5. \A h \in Groups \ {g} : grants[h][c] = 0
  <2>1. \A h \in Groups : grants[h][c] \in 0..2
    BY <1>1 DEF Typed, TypeOK, Levels
  <2> QED
    BY <1>3, <2>1
<1>6. liftsConnectionRestriction(g, c)
  BY <1>1, <1>4, <1>5 DEF liftsConnectionRestriction
<1>7. guardLiftTx(guard, g, c)
  BY <1>1, <1>2, <1>4
<1> QED
  BY <1>6, <1>7 DEF guardLiftTx

LEMMA LiftStep ==
    Typed /\ [Next]_vars =>
      \A r \in Requests, c \in Conns :
        /\ reqs[r] # Idle /\ reqs'[r] = Idle
        /\ IsConnectionAssignedToAnyGroup(c)
        /\ ~IsConnectionAssignedToAnyGroup(c)'
        => c \in reqs[r].guard
<1> SUFFICES ASSUME Typed, [Next]_vars, NEW r \in Requests, NEW c \in Conns,
                    reqs[r] # Idle, reqs'[r] = Idle,
                    IsConnectionAssignedToAnyGroup(c),
                    ~IsConnectionAssignedToAnyGroup(c)'
             PROVE  c \in reqs[r].guard
  OBVIOUS
<1>1. reqs[r] \in Pending /\ grants \in [Groups -> [ConnIds -> Levels]]
  BY DEF Typed, TypeOK
<1>2. CASE TokenRevoke(r)
  <2>1. PICK g \in Groups : g = reqs[r].group
    BY <1>1, <1>2, RequestShapes DEF TokenRevoke
  <2>2. PICK x \in ConnIds : x = reqs[r].conn
    BY <1>1, <1>2, RequestShapes DEF TokenRevoke
  <2>3. PICK G : G = reqs[r].guard
    OBVIOUS
  <2>4. guardLiftTx(G, g, x) /\ grants' = [grants EXCEPT ![g][x] = 0]
    BY <1>2, <2>1, <2>2, <2>3 DEF TokenRevoke, revokeConnectionPrivilege
  <2>5. \A h \in Groups : h # g => grants'[h] = grants[h]
    BY <1>1, <2>4
  <2>6. \A y \in ConnIds : y # x => grants'[g][y] = grants[g][y]
    BY <1>1, <2>4
  <2>7. \A y \in ConnIds : grants[g][y] > 0 /\ ~ (grants'[g][y] > 0) =>
          guardLiftTx(G, g, y)
    BY <2>4, <2>6
  <2> QED
    BY <2>3, <2>5, <2>7, LiftGuarded
<1>3. CASE TokenDeleteGroup(r)
  <2>1. PICK g \in Groups : g = reqs[r].group
    BY <1>1, <1>3, RequestShapes DEF TokenDeleteGroup
  <2>2. PICK G : G = reqs[r].guard
    OBVIOUS
  <2>3. /\ \A x \in ConnIds : grants[g][x] > 0 => guardLiftTx(G, g, x)
        /\ grants' = [grants EXCEPT ![g] = NoRows]
    BY <1>3, <2>1, <2>2 DEF TokenDeleteGroup, deleteGroup
  <2>4. \A h \in Groups : h # g => grants'[h] = grants[h]
    BY <1>1, <2>3
  <2> QED
    BY <2>2, <2>3, <2>4, LiftGuarded
<1>4. CASE TokenSetTokenScope(r)
  BY <1>4 DEF TokenSetTokenScope, IsConnectionAssignedToAnyGroup
<1>5. CASE UNCHANGED <<grants, scope>>
  BY <1>5 DEF IsConnectionAssignedToAnyGroup
<1> QED
  BY <1>2, <1>3, <1>4, <1>5, AnswerSteps

\* A token's request takes away the last grant on a connection only when the
\* connection is one its lift guard lists, however many revokes and deletions
\* run between the check and the transaction (privileges.go:1154).
THEOREM LiftNeedsReadWriteHolds == Spec => LiftNeedsReadWrite
BY LiftStep, TypedHolds, PTL DEF Spec, LiftNeedsReadWrite

-----------------------------------------------------------------------------
(* Scopes written with a token *)

LEMMA InScopeIsLevel ==
    ASSUME NEW s \in Rights, NEW c \in Conns
    PROVE  IsConnectionInTokenScope(s, c) \in 0..2
<1>1. s[c] \in 0..2 /\ s[AllConns] \in 0..2
  BY DEF Rights, ConnIds, Levels
<1> QED
  BY <1>1 DEF IsConnectionInTokenScope

\* The level over all connections is no higher than the one any connection
\* has in the scope.
LEMMA LowestIsWithinScope ==
    ASSUME NEW s \in Rights, Scoped(s), NEW c \in Conns,
           NEW level \in 0..2, level <= s[AllConns]
    PROVE  lowestScopedLevel(s, level) <= IsConnectionInTokenScope(s, c)
<1>1. c \in ConnIds /\ s[c] \in 0..2 /\ s[AllConns] \in 0..2
  BY DEF Rights, ConnIds, Levels
<1>2. \A x \in ConnIds : s[x] \in 0..2
  BY DEF Rights, Levels
<1>3. CASE \E x \in ConnIds : s[x] > 0 /\ s[x] < level
  <2>1. lowestScopedLevel(s, level) = 1
    BY <1>3 DEF lowestScopedLevel
  <2>2. s[AllConns] > 0
    BY <1>1, <1>2, <1>3
  <2> QED
    BY <1>1, <2>1, <2>2 DEF IsConnectionInTokenScope
<1>4. CASE ~ \E x \in ConnIds : s[x] > 0 /\ s[x] < level
  <2>1. lowestScopedLevel(s, level) = level
    BY <1>4 DEF lowestScopedLevel
  <2>2. s[c] > 0 => level <= s[c]
    BY <1>1, <1>4
  <2> QED
    BY <1>1, <2>1, <2>2 DEF IsConnectionInTokenScope
<1> QED
  BY <1>3, <1>4

LEMMA LowestIsLower ==
    ASSUME NEW s \in Rights, NEW level \in 0..2
    PROVE  lowestScopedLevel(s, level) \in 0..2 /\ lowestScopedLevel(s, level) <= level
<1>1. \A x \in ConnIds : s[x] \in 0..2
  BY DEF Rights, Levels
<1> QED
  BY <1>1 DEF lowestScopedLevel

\* What a stored scope allows, as the guard reads it, is what the check of a
\* connection reads from it.
LEMMA StoredWithinScope ==
    ASSUME NEW s \in Rights, NEW c \in Conns
    PROVE  /\ StoredLevel(s, c) <= IsConnectionInTokenScope(s, c)
           /\ StoredLevel(s, AllConns) <= IsConnectionInTokenScope(s, c)
<1>1. c # AllConns /\ s[c] \in 0..2 /\ s[AllConns] \in 0..2
  BY AccessAssumption DEF Rights, ConnIds, Levels
<1>2. CASE ~ Scoped(s)
  <2>1. StoredLevel(s, c) = 2 /\ StoredLevel(s, AllConns) = 2
    BY <1>2 DEF StoredLevel
  <2> QED
    BY <1>2, <2>1 DEF IsConnectionInTokenScope
<1>3. CASE Scoped(s)
  <2>1. StoredLevel(s, c) = IF s[c] > 0 THEN s[c] ELSE s[AllConns]
    BY <1>1, <1>3 DEF StoredLevel
  <2>2. StoredLevel(s, AllConns) = lowestScopedLevel(s, s[AllConns])
    BY <1>3 DEF StoredLevel
  <2>3. lowestScopedLevel(s, s[AllConns]) <= IsConnectionInTokenScope(s, c)
    BY <1>1, <1>3, LowestIsWithinScope
  <2> QED
    BY <1>1, <1>3, <2>1, <2>2, <2>3 DEF IsConnectionInTokenScope
<1> QED
  BY <1>2, <1>3

\* A token reaches every connection at the level it holds over all of them,
\* and none beyond its scope.
LEMMA CeilingWithinAccess ==
    ASSUME Typed, NEW a \in Tokens, NEW c \in Conns
    PROVE  /\ CanAccessConnection(a, c) \in 0..2
           /\ allConnectionsLevel(a) \in 0..2
           /\ allConnectionsLevel(a) <= CanAccessConnection(a, c)
           /\ CanAccessConnection(a, c) <= IsConnectionInTokenScope(scope[a], c)
<1>1. PICK own \in Rights : own = GetUserConnectionPrivileges(owner[a])
  BY UserPrivilegesAreRights DEF Typed, TypeOK, Rights
<1>2. PICK s \in Rights : s = scope[a]
  BY ScopesAreRights DEF Typed, TypeOK
<1>3. /\ own[c] \in 0..2 /\ own[AllConns] \in 0..2
      /\ s[c] \in 0..2 /\ s[AllConns] \in 0..2
  BY <1>1, <1>2 DEF Rights, ConnIds, Levels
<1>4. PICK i : i = IsConnectionInTokenScope(s, c)
  OBVIOUS
<1>5. i \in 0..2
  BY <1>2, <1>4, InScopeIsLevel
<1>6. PICK rule : rule = connectionAccessRule(owner[a],
                           IsConnectionAssignedToAnyGroup(c), own, c)
  OBVIOUS
<1>7. rule \in 0..2 /\ own[AllConns] <= rule
  <2>1. resolveConnectionAccess(own, c) \in 0..2
        /\ own[AllConns] <= resolveConnectionAccess(own, c)
    BY <1>3 DEF resolveConnectionAccess, Higher
  <2> QED
    BY <1>3, <1>6, <2>1 DEF connectionAccessRule
<1>8. CanAccessConnection(a, c) = Lower(rule, i)
  BY <1>1, <1>2, <1>4, <1>6 DEF CanAccessConnection
<1>9. PICK l : l = Lower(own[AllConns], IsConnectionInTokenScope(s, AllConns))
  OBVIOUS
<1>10. /\ l \in 0..2 /\ l <= own[AllConns]
       /\ Scoped(s) => l <= s[AllConns]
  BY <1>3, <1>9 DEF Lower, IsConnectionInTokenScope
<1>11. allConnectionsLevel(a) = lowestScopedLevel(s, l)
  BY <1>1, <1>2, <1>9 DEF allConnectionsLevel
<1>12. PICK w : w = lowestScopedLevel(s, l)
  OBVIOUS
<1>13. w \in 0..2 /\ w <= l
  BY <1>2, <1>10, <1>12, LowestIsLower
<1>14. w <= i
  <2>1. CASE Scoped(s)
    BY <1>2, <1>4, <1>10, <1>12, <2>1, LowestIsWithinScope
  <2>2. CASE ~ Scoped(s)
    BY <1>4, <1>13, <2>2 DEF IsConnectionInTokenScope
  <2> QED
    BY <2>1, <2>2
<1>15. w <= rule
  BY <1>3, <1>7, <1>10, <1>13
<1> QED
  BY <1>2, <1>4, <1>5, <1>7, <1>8, <1>11, <1>12, <1>13, <1>14, <1>15 DEF Lower

LEMMA StoredIsLevel ==
    ASSUME NEW s \in Rights, NEW c \in Conns
    PROVE  StoredLevel(s, c) \in 0..2 /\ StoredLevel(s, AllConns) \in 0..2
<1>1. s[c] \in 0..2 /\ s[AllConns] \in 0..2 /\ c # AllConns
  BY AccessAssumption DEF Rights, ConnIds, Levels
<1>2. lowestScopedLevel(s, s[AllConns]) \in 0..2
  BY <1>1, LowestIsLower
<1>3. CASE Scoped(s)
  BY <1>1, <1>2, <1>3 DEF StoredLevel
<1>4. CASE ~ Scoped(s)
  BY <1>1, <1>4 DEF StoredLevel
<1> QED
  BY <1>3, <1>4

\* A change the stored scope itself covers raises nothing.
LEMMA CoveredByStored ==
    ASSUME NEW s \in Rights, NEW change \in Rights, NEW c \in Conns, Scoped(change),
           change[c] <= StoredLevel(s, c) \/ change[c] = 0,
           change[c] = 0 => change[AllConns] <= StoredLevel(s, AllConns)
    PROVE  IsConnectionInTokenScope(change, c) <= IsConnectionInTokenScope(s, c)
<1>1. change[c] \in 0..2 /\ change[AllConns] \in 0..2
  BY DEF Rights, ConnIds, Levels
<1>2. PICK i \in 0..2 : i = IsConnectionInTokenScope(s, c)
  BY InScopeIsLevel
<1>3. StoredLevel(s, c) <= i /\ StoredLevel(s, AllConns) <= i
  BY <1>2, StoredWithinScope
<1>4. StoredLevel(s, c) \in 0..2 /\ StoredLevel(s, AllConns) \in 0..2
  BY StoredIsLevel
<1>5. CASE change[c] > 0
  <2>1. IsConnectionInTokenScope(change, c) = change[c]
    BY <1>5 DEF IsConnectionInTokenScope
  <2> QED
    BY <1>1, <1>2, <1>3, <1>4, <1>5, <2>1
<1>6. CASE change[c] = 0
  <2>1. IsConnectionInTokenScope(change, c) = change[AllConns]
    BY <1>6 DEF IsConnectionInTokenScope
  <2> QED
    BY <1>1, <1>2, <1>3, <1>4, <1>6, <2>1
<1> QED
  BY <1>1, <1>5, <1>6

\* What a request that waits to write a scope was found entitled to, when
\* both tokens belong to one user.
Entitled(q) ==
    q.kind = "scope" /\ owner[q.token] = owner[q.target] =>
      \A c \in Conns : IsConnectionInTokenScope(q.change, c)
                        <= Higher(IsConnectionInTokenScope(q.judged, c), q.may[c])

JudgedInv == Typed /\ \A r \in Requests : Entitled(reqs[r])

\* The acting token's access is within the bound the request carries: the
\* access itself for another token of its owner, the judged scope for its own.
LEMMA AccessWithinBound ==
    ASSUME Typed, NEW a \in Tokens, NEW t \in Tokens, owner[a] = owner[t],
           NEW c \in Conns
    PROVE  CanAccessConnection(a, c)
             <= Higher(IsConnectionInTokenScope(scope[t], c), MayRaise(a, t)[c])
<1>1. PICK i \in 0..2 : i = IsConnectionInTokenScope(scope[t], c)
  BY InScopeIsLevel, ScopesAreRights DEF Typed, TypeOK
<1>2. PICK l \in 0..2 : l = CanAccessConnection(a, c)
  BY CeilingWithinAccess
<1>3. CASE a # t
  <2>1. MayRaise(a, t)[c] = l
    BY <1>2, <1>3, AccessAssumption DEF MayRaise, connectionLevel
  <2> QED
    BY <1>1, <1>2, <2>1 DEF Higher
<1>4. CASE a = t
  <2>1. MayRaise(a, t)[c] = 0
    BY <1>4 DEF MayRaise
  <2>2. l <= i
    BY <1>1, <1>2, <1>4, CeilingWithinAccess
  <2> QED
    BY <1>1, <1>2, <2>1, <2>2 DEF Higher
<1> QED
  BY <1>3, <1>4

LEMMA BoundIsLevel ==
    ASSUME Typed, NEW a \in Tokens, NEW t \in Tokens, NEW c \in Conns
    PROVE  /\ IsConnectionInTokenScope(scope[t], c) \in 0..2
           /\ MayRaise(a, t)[c] \in 0..2
           /\ Higher(IsConnectionInTokenScope(scope[t], c), MayRaise(a, t)[c]) \in 0..2
           /\ IsConnectionInTokenScope(scope[t], c)
                 <= Higher(IsConnectionInTokenScope(scope[t], c), MayRaise(a, t)[c])
<1>1. PICK i \in 0..2 : i = IsConnectionInTokenScope(scope[t], c)
  BY InScopeIsLevel, ScopesAreRights DEF Typed, TypeOK
<1>2. PICK m \in 0..2 : m = MayRaise(a, t)[c]
  BY CeilingWithinAccess, AccessAssumption DEF MayRaise, connectionLevel
<1> QED
  BY <1>1, <1>2 DEF Higher

LEMMA ChangeEntitled ==
    ASSUME Typed, NEW a \in Tokens, NEW t \in Tokens, owner[a] = owner[t],
           NEW change \in Scopes, Scoped(change),
           connectionsChangeCovered(a, scope[t], change), NEW c \in Conns
    PROVE  IsConnectionInTokenScope(change, c)
             <= Higher(IsConnectionInTokenScope(scope[t], c), MayRaise(a, t)[c])
<1>1. PICK h \in 0..2 : h = Higher(IsConnectionInTokenScope(scope[t], c), MayRaise(a, t)[c])
  BY BoundIsLevel
<1>2. PICK s \in Rights : s = scope[t]
  BY ScopesAreRights DEF Typed, TypeOK
<1>3. PICK l \in 0..2 : l = CanAccessConnection(a, c)
  BY CeilingWithinAccess
<1>4. PICK w \in 0..2 : w = allConnectionsLevel(a)
  BY CeilingWithinAccess
<1>5. w <= l /\ l <= h
  BY <1>1, <1>3, <1>4, CeilingWithinAccess, AccessWithinBound
<1>6. change \in Rights /\ c \in ConnIds /\ AllConns \in ConnIds /\ c # AllConns
  BY ScopesAreRights, AccessAssumption DEF ConnIds
<1>7. change[c] \in 0..2 /\ change[AllConns] \in 0..2
  BY <1>6 DEF Rights, Levels
<1>8. change[c] > 0 => change[c] <= l \/ change[c] <= StoredLevel(s, c)
  BY <1>2, <1>3, <1>6, <1>7 DEF connectionsChangeCovered, coversConnection, connectionLevel
<1>9. change[AllConns] > 0 =>
        change[AllConns] <= w \/ change[AllConns] <= StoredLevel(s, AllConns)
  BY <1>2, <1>4, <1>6, <1>7 DEF connectionsChangeCovered, coversConnection, connectionLevel
<1>10. PICK i \in 0..2 : i = IsConnectionInTokenScope(s, c) /\ i <= h
  BY <1>1, <1>2, BoundIsLevel
<1>11. PICK n \in 0..2 : n = IsConnectionInTokenScope(change, c)
  BY <1>6, InScopeIsLevel
<1>12. n = IF change[c] > 0 THEN change[c] ELSE change[AllConns]
  BY <1>11 DEF IsConnectionInTokenScope
<1>13. CASE n <= l
  BY <1>1, <1>3, <1>5, <1>11, <1>13
<1>14. CASE n = 0
  BY <1>1, <1>11, <1>14
<1>15. CASE ~ (n <= l) /\ n # 0
  <2>1. change[c] <= StoredLevel(s, c) \/ change[c] = 0
    BY <1>3, <1>7, <1>8, <1>12, <1>15
  <2>2. change[c] = 0 => change[AllConns] <= StoredLevel(s, AllConns)
    BY <1>3, <1>4, <1>5, <1>7, <1>9, <1>12, <1>15
  <2>3. n <= i
    BY <1>2, <1>6, <1>10, <1>11, <2>1, <2>2, CoveredByStored
  <2> QED
    BY <1>1, <1>10, <1>11, <2>3
<1> QED
  BY <1>13, <1>14, <1>15

LEMMA ClearEntitled ==
    ASSUME Typed, NEW a \in Tokens, NEW t \in Tokens, owner[a] = owner[t],
           clearWithinCeiling(a, scope[t]), NEW c \in Conns
    PROVE  IsConnectionInTokenScope(NoRows, c)
             <= Higher(IsConnectionInTokenScope(scope[t], c), MayRaise(a, t)[c])
<1>1. PICK h \in 0..2 : h = Higher(IsConnectionInTokenScope(scope[t], c), MayRaise(a, t)[c])
  BY BoundIsLevel
<1>2. IsConnectionInTokenScope(NoRows, c) = 2
  BY DEF IsConnectionInTokenScope, Scoped
<1>3. CASE Scoped(scope[t])
  <2>1. PICK l \in 0..2 : l = CanAccessConnection(a, c)
    BY CeilingWithinAccess
  <2>2. PICK w \in 0..2 : w = allConnectionsLevel(a)
    BY CeilingWithinAccess
  <2>3. w <= l /\ l <= h
    BY <1>1, <2>1, <2>2, CeilingWithinAccess, AccessWithinBound
  <2>4. w >= 2
    BY <1>3, <2>2 DEF clearWithinCeiling, coversReachConnections, coversConnection,
      connectionLevel
  <2> QED
    BY <1>1, <1>2, <2>1, <2>2, <2>3, <2>4
<1>4. CASE ~ Scoped(scope[t])
  <2>1. PICK i \in 0..2 : i = IsConnectionInTokenScope(scope[t], c) /\ i <= h
    BY <1>1, BoundIsLevel
  <2>2. i = 2
    BY <1>4, <2>1 DEF IsConnectionInTokenScope
  <2> QED
    BY <1>1, <1>2, <2>1, <2>2
<1> QED
  BY <1>3, <1>4

LEMMA OwnerUnchanged == ASSUME [Next]_vars PROVE owner' = owner
<1>1. CASE Change
  BY <1>1
    DEF Change, AddUserToGroup, RemoveUserFromGroup, AddGroupToGroup,
        RemoveGroupFromGroup, GrantConnectionPrivilege, SessionRevoke,
        SessionDeleteGroup, revokeConnectionPrivilege, deleteGroup,
        SessionSetTokenScope, JudgeRevoke, JudgeDeleteGroup,
        JudgeTokenScopeChange, JudgeTokenScopeClear, Await, TokenRevoke,
        TokenDeleteGroup, TokenSetTokenScope, RequestFails
<1> QED
  BY <1>1 DEF Next, vars

\* A step gives one request at most a new content: it is answered, it waits
\* for something else than a scope, or it is one the ceiling was found to cover.
LEMMA RequestSteps ==
    ASSUME [Next]_vars
    PROVE  \/ UNCHANGED reqs
           \/ \E r \in Requests : \E q : reqs' = [reqs EXCEPT ![r] = q] /\ q.kind # "scope"
           \/ \E r \in Requests, a, t \in Tokens, s \in Scopes :
                /\ reqs' = [reqs EXCEPT ![r] = ScopeRequest(a, t, s)]
                /\ \/ Scoped(s) /\ connectionsChangeCovered(a, scope[t], s)
                   \/ s = NoRows /\ clearWithinCeiling(a, scope[t])
<1>1. CASE Change
  <2>1. ASSUME NEW r \in Requests, NEW t \in Tokens, NEW g \in Groups, NEW x \in ConnIds,
               JudgeRevoke(r, t, g, x)
        PROVE  \E q : reqs' = [reqs EXCEPT ![r] = q] /\ q.kind # "scope"
    <3>1. PICK q : q = [kind |-> "revoke", group |-> g, conn |-> x,
                        guard |-> ConnectionLiftGuard(t, {x})]
      OBVIOUS
    <3>2. q.kind # "scope"
      BY <3>1
    <3>3. reqs' = [reqs EXCEPT ![r] = q]
      BY <2>1, <3>1 DEF JudgeRevoke, Await
    <3> QED
      BY <3>2, <3>3
  <2>2. ASSUME NEW r \in Requests, NEW t \in Tokens, NEW g \in Groups,
               JudgeDeleteGroup(r, t, g)
        PROVE  \E q : reqs' = [reqs EXCEPT ![r] = q] /\ q.kind # "scope"
    <3>1. PICK q : q = [kind |-> "delete", group |-> g,
                        guard |-> ConnectionLiftGuard(t, {x \in ConnIds : grants[g][x] > 0})]
      OBVIOUS
    <3>2. q.kind # "scope"
      BY <3>1
    <3>3. reqs' = [reqs EXCEPT ![r] = q]
      BY <2>2, <3>1 DEF JudgeDeleteGroup, Await
    <3> QED
      BY <3>2, <3>3
  <2>3. ASSUME NEW r \in Requests,
               TokenRevoke(r) \/ TokenDeleteGroup(r) \/ TokenSetTokenScope(r)
                 \/ RequestFails(r)
        PROVE  \E q : reqs' = [reqs EXCEPT ![r] = q] /\ q.kind # "scope"
    <3>1. reqs' = [reqs EXCEPT ![r] = Idle]
      BY <2>3 DEF TokenRevoke, TokenDeleteGroup, TokenSetTokenScope, RequestFails
    <3> QED
      BY <3>1, IdleIsPending
  <2>4. ASSUME NEW r \in Requests, NEW a \in Tokens, NEW t \in Tokens, NEW s \in Scopes,
               JudgeTokenScopeChange(r, a, t, s)
        PROVE  /\ reqs' = [reqs EXCEPT ![r] = ScopeRequest(a, t, s)]
               /\ Scoped(s) /\ connectionsChangeCovered(a, scope[t], s)
    BY <2>4 DEF JudgeTokenScopeChange, Await
  <2>5. ASSUME NEW r \in Requests, NEW a \in Tokens, NEW t \in Tokens,
               JudgeTokenScopeClear(r, a, t)
        PROVE  /\ reqs' = [reqs EXCEPT ![r] = ScopeRequest(a, t, NoRows)]
               /\ clearWithinCeiling(a, scope[t]) /\ NoRows \in Scopes
    BY <2>5, NoRowsIsScope DEF JudgeTokenScopeClear, Await
  <2>6. \/ UNCHANGED reqs
        \/ \E r \in Requests :
             \/ \E t \in Tokens, g \in Groups :
                  \/ \E x \in ConnIds : JudgeRevoke(r, t, g, x)
                  \/ JudgeDeleteGroup(r, t, g)
             \/ \E a, t \in Tokens :
                  \/ \E s \in Scopes : JudgeTokenScopeChange(r, a, t, s)
                  \/ JudgeTokenScopeClear(r, a, t)
             \/ TokenRevoke(r) \/ TokenDeleteGroup(r) \/ TokenSetTokenScope(r)
             \/ RequestFails(r)
    BY <1>1
      DEF Change, AddUserToGroup, RemoveUserFromGroup, AddGroupToGroup,
          RemoveGroupFromGroup, GrantConnectionPrivilege, SessionRevoke,
          SessionDeleteGroup, SessionSetTokenScope
  <2> QED
    BY <2>1, <2>2, <2>3, <2>4, <2>5, <2>6
<1> QED
  BY <1>1 DEF Next, vars

LEMMA JudgedStep == JudgedInv /\ [Next]_vars => JudgedInv'
<1> SUFFICES ASSUME JudgedInv, [Next]_vars PROVE JudgedInv'
  OBVIOUS
<1>1. Typed /\ Typed' /\ \A r \in Requests : Entitled(reqs[r])
  BY TypedStep DEF JudgedInv
<1>2. owner' = owner
  BY OwnerUnchanged
<1> SUFFICES ASSUME NEW k \in Requests PROVE Entitled(reqs[k])'
  BY <1>1 DEF JudgedInv
<1>3. ASSUME reqs'[k] = reqs[k] PROVE Entitled(reqs[k])'
  BY <1>1, <1>2, <1>3 DEF Entitled
<1>4. ASSUME reqs'[k].kind # "scope" PROVE Entitled(reqs[k])'
  BY <1>4 DEF Entitled
<1>5. ASSUME NEW a \in Tokens, NEW t \in Tokens, NEW s \in Scopes,
             reqs'[k] = ScopeRequest(a, t, s),
             \/ Scoped(s) /\ connectionsChangeCovered(a, scope[t], s)
             \/ s = NoRows /\ clearWithinCeiling(a, scope[t])
      PROVE  Entitled(reqs[k])'
  <2>1. PICK m : m = MayRaise(a, t)
    OBVIOUS
  <2>2. PICK j : j = scope[t]
    OBVIOUS
  <2>3. PICK q : q = reqs'[k] /\ q = [kind |-> "scope", token |-> a, target |-> t,
                                      change |-> s, judged |-> j, may |-> m]
    BY <1>5, <2>1, <2>2 DEF ScopeRequest
  <2>4. q.token = a /\ q.target = t /\ q.change = s /\ q.judged = j /\ q.may = m
    BY <2>3
  <2>5. ASSUME owner[a] = owner[t], NEW c \in Conns
        PROVE  IsConnectionInTokenScope(s, c)
                 <= Higher(IsConnectionInTokenScope(j, c), m[c])
    BY <1>1, <1>5, <2>1, <2>2, <2>5, ChangeEntitled, ClearEntitled
  <2> QED
    BY <1>2, <2>3, <2>4, <2>5 DEF Entitled
<1>6. ASSUME NEW r \in Requests, NEW q, reqs' = [reqs EXCEPT ![r] = q]
      PROVE  reqs'[k] = IF k = r THEN q ELSE reqs[k]
  BY <1>1, <1>6 DEF Typed
<1>7. CASE UNCHANGED reqs
  BY <1>3, <1>7
<1>8. ASSUME NEW r \in Requests, NEW q, reqs' = [reqs EXCEPT ![r] = q], q.kind # "scope"
      PROVE  Entitled(reqs[k])'
  BY <1>3, <1>4, <1>6, <1>8
<1>9. ASSUME NEW r \in Requests, NEW a \in Tokens, NEW t \in Tokens, NEW s \in Scopes,
             reqs' = [reqs EXCEPT ![r] = ScopeRequest(a, t, s)],
             \/ Scoped(s) /\ connectionsChangeCovered(a, scope[t], s)
             \/ s = NoRows /\ clearWithinCeiling(a, scope[t])
      PROVE  Entitled(reqs[k])'
  <2>1. reqs'[k] = IF k = r THEN ScopeRequest(a, t, s) ELSE reqs[k]
    BY <1>6, <1>9
  <2> QED
    BY <1>3, <1>5, <1>9, <2>1
<1> QED
  BY <1>7, <1>8, <1>9, RequestSteps

LEMMA JudgedHolds == Spec => []JudgedInv
<1>1. Init => JudgedInv
  <2> SUFFICES ASSUME Init PROVE \A r \in Requests : Entitled(reqs[r])
    BY TypedInit DEF JudgedInv
  <2>1. \A r \in Requests : reqs[r].kind # "scope"
    BY IdleIsPending DEF Init
  <2> QED
    BY <2>1 DEF Entitled
<1> QED
  BY <1>1, JudgedStep, PTL DEF Spec

LEMMA WriteStep ==
    JudgedInv /\ [Next]_vars =>
      \A r \in Requests :
        reqs[r].kind = "scope" /\ reqs'[r] = Idle =>
          \A c \in Conns :
            IsConnectionInTokenScope(scope'[reqs[r].target], c)
              <= Higher(IsConnectionInTokenScope(scope[reqs[r].target], c), reqs[r].may[c])
<1> SUFFICES ASSUME JudgedInv, [Next]_vars, NEW r \in Requests,
                    reqs[r].kind = "scope", reqs'[r] = Idle, NEW c \in Conns
             PROVE  IsConnectionInTokenScope(scope'[reqs[r].target], c)
                      <= Higher(IsConnectionInTokenScope(scope[reqs[r].target], c),
                                reqs[r].may[c])
  OBVIOUS
<1>1. Typed /\ Entitled(reqs[r])
  BY DEF JudgedInv
<1>2. PICK q \in Pending : q = reqs[r]
  BY <1>1 DEF Typed
<1>3. /\ q.target \in Tokens /\ q.change \in Scopes /\ q.change \in Rights
      /\ q.may \in [Conns -> Levels]
  BY <1>2, RequestShapes, ScopesAreRights
<1>4. PICK s \in Rights : s = scope[q.target]
  BY <1>1, <1>3, ScopesAreRights DEF Typed, TypeOK
<1>5. PICK b \in 0..2 : b = IsConnectionInTokenScope(s, c)
  BY <1>4, InScopeIsLevel
<1>6. PICK m \in 0..2 : m = q.may[c]
  BY <1>3 DEF Levels
<1>7. b <= Higher(b, m)
  BY <1>5, <1>6 DEF Higher
<1>8. reqs[r] # Idle
  BY IdleIsPending
<1>9. CASE scope' = scope
  BY <1>2, <1>4, <1>5, <1>6, <1>7, <1>9
<1>10. CASE TokenSetTokenScope(r)
  <2>1. /\ guardTokenOwnerTx(q.token, q.target, q.change)
        /\ s = q.judged
        /\ scope' = [scope EXCEPT ![q.target] = q.change]
    BY <1>2, <1>4, <1>10 DEF TokenSetTokenScope, guardJudgedTokenScopeTx
  <2>2. scope'[q.target] = q.change
    BY <1>1, <1>3, <2>1 DEF Typed, TypeOK
  <2>3. PICK n \in 0..2 : n = IsConnectionInTokenScope(q.change, c)
    BY <1>3, InScopeIsLevel
  <2>4. CASE owner[q.token] = owner[q.target]
    <3>1. n <= Higher(b, m)
      BY <1>1, <1>2, <1>5, <1>6, <2>1, <2>3, <2>4 DEF Entitled
    <3> QED
      BY <1>2, <1>4, <1>5, <1>6, <2>2, <2>3, <3>1
  <2>5. CASE owner[q.token] # owner[q.target]
    <3>1. Scoped(q.change) /\ ~ widens(s, q.change)
      BY <1>4, <2>1, <2>5 DEF guardTokenOwnerTx
    <3>2. c \in ConnIds /\ AllConns \in ConnIds
      BY DEF ConnIds
    <3>3. /\ ~ (q.change[c] > StoredLevel(s, c))
          /\ ~ (q.change[AllConns] > StoredLevel(s, AllConns))
      BY <3>1, <3>2 DEF widens
    <3>4. /\ q.change[c] <= StoredLevel(s, c)
          /\ q.change[AllConns] <= StoredLevel(s, AllConns)
      <4>1. q.change[c] \in 0..2 /\ q.change[AllConns] \in 0..2
        BY <1>3, <3>2 DEF Rights, Levels
      <4> QED
        BY <1>4, <3>3, <4>1, StoredIsLevel
    <3>5. n <= b
      BY <1>3, <1>4, <1>5, <2>3, <3>1, <3>4, CoveredByStored
    <3> QED
      BY <1>2, <1>4, <1>5, <1>6, <1>7, <2>2, <2>3, <3>5 DEF Higher
  <2> QED
    BY <2>4, <2>5
<1>11. CASE TokenRevoke(r)
  BY <1>11 DEF TokenRevoke
<1>12. CASE TokenDeleteGroup(r)
  BY <1>12 DEF TokenDeleteGroup
<1> QED
  BY <1>1, <1>8, <1>9, <1>10, <1>11, <1>12, AnswerSteps

\* A scope written with a token raises a connection above what the written
\* token had only within what the acting token held when it was judged, and
\* not at all for the acting token itself or for another user's, whatever
\* runs between the check and the write (token_scope_snapshot.go:95,
\* rbac_token_handlers.go:574).
THEOREM TokenNeverEscalatesHolds == Spec => TokenNeverEscalates
BY WriteStep, JudgedHolds, PTL DEF Spec, TokenNeverEscalates
=============================================================================
