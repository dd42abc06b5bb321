--------------------------- MODULE MCMarketplace ---------------------------
(***************************************************************************)
(* Small instances of Marketplace for TLC.  Sessions are strings, so that  *)
(* functions on them are records; Students are symmetric model values.     *)
(***************************************************************************)
EXTENDS MarketplaceProperties, TLC

CONSTANTS u1, u2, u3, t1, t2

OneSession == {"s1"}
TwoSessions == {"s1", "s2"}

\* s1 and s2 overlap; both are booked, refunded and forfeited in time.
OverlappingStarts == [s1 |-> 4, s2 |-> 5]
\* A session whose reminders are not yet due in the first two instants.
OneStart == [s1 |-> 4]

\* No reminder is ever opened: three ticks before the start it is too late.
EarlyStart == [s1 |-> 3]

SameUnit == [s1 |-> "unit", s2 |-> "unit"]
OneUnit == [s1 |-> "unit"]

AllQualified == Teachers \X {"unit"}

\* Each Teacher has availability for a session of their own.
OwnSession == {<<t1, "s1">>, <<t2, "s2">>}
AnySession == Teachers \X Sessions

\* u1 and t1 are the Users an Administrator acts on.
BothRoles == {<<u1, "STUDENT">>, <<t1, "TEACHER">>}
CreditTaken == {<<u1, -1>>}

OtherStudentSymmetry == Permutations(Students \ {u1})
StudentSymmetry == Permutations(Students)

============================================================================
