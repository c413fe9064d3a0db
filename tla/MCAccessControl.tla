-------------------------- MODULE MCAccessControl --------------------------
(* One shared connection owned by nobody here, three groups, two users and two tokens. *)
EXTENDS AccessControl, TLC

CONSTANTS u1, u2, t1, t2, g1, g2, g3, c1, nobody

NoOwner == [c \in Conns |-> nobody]

Symmetry == Permutations(Users) \cup Permutations(Tokens) \cup Permutations(Groups)

=============================================================================
