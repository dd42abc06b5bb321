---------------------------- MODULE MCRoleAccess ----------------------------
(* A small instance of RoleAccess for TLC: u1 is the User acted on.        *)
EXTENDS RoleAccess, TLC

CONSTANTS u1, u2, u3, t1

OneSession == {"s1"}
OneStart == [s1 |-> 3]
OneUnit == [s1 |-> "unit"]
AllQualified == Teachers \X {"unit"}
AnySession == Teachers \X Sessions
OtherStudentSymmetry == Permutations(Students \ {u1})
StudentRole == {<<u1, "STUDENT">>}

============================================================================
