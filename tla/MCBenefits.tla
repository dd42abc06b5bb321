----------------------------- MODULE MCBenefits -----------------------------
(* A small instance of Benefits for TLC.                                   *)
EXTENDS Benefits, TLC

CONSTANTS u1, o1, o2

\* Months of two days and one day in turn: the second day of the first month
\* has no equal in the second, and has one again in the third.
ShortMonths == <<0, 2, 3, 5, 6, 8>>
MonthStarts == [m \in 0 .. 5 |-> ShortMonths[m + 1]]

\* An activation on the second day, its first anniversary, a cancellation on
\* that day and a reactivation before it.
ProviderEvents ==
  {[id |-> "activation", type |-> "ACTIVATED", student |-> u1, at |-> 1],
   [id |-> "renewal", type |-> "RENEWED", student |-> u1, at |-> 2],
   [id |-> "cancellation", type |-> "CANCELLED", student |-> u1, at |-> 2],
   [id |-> "reactivation", type |-> "REACTIVATED", student |-> u1, at |-> 1]}

OrganizationSymmetry == Permutations(Organizations)

============================================================================
