------------------------------ MODULE Allocator ------------------------------
(***************************************************************************)
(* What callers of kmalloc rely on: memory that nobody else was given, as  *)
(* much as was asked for, theirs for ever, and never more than Limit bytes *)
(* in all.  lost is set when the allocator has written over what it gave;  *)
(* nothing is promised from then on.                                       *)
(***************************************************************************)
EXTENDS Integers, Functions

CONSTANTS
  Sizes,  \* what callers ask for
  Limit   \* bytes that may be given in all

VARIABLES
  given,   \* the memory given away: its length, by address
  wanted,  \* the size of the call under way, if there is one
  lost

Nowhere == [a \in {} |-> 0]

\* g with n bytes more, at address a.
Grant(g, a, n) == [x \in DOMAIN g \cup {a} |-> IF x = a THEN n ELSE g[x]]

Apart(g) == \A a, b \in DOMAIN g : a < b => a + g[a] <= b

Init == given = Nowhere /\ wanted = {} /\ lost = FALSE

\* A call.  One that would go over the limit gets nothing and changes nothing.
Ask(n) ==
  /\ ~ lost /\ wanted = {}
  /\ SumFunction(given) + n <= Limit
  /\ wanted' = {n}
  /\ UNCHANGED <<given, lost>>

\* It returns new memory.
Answer ==
  /\ ~ lost
  /\ \E n \in wanted : \E a \in DOMAIN given' \ DOMAIN given :
       given' = Grant(given, a, n)
  /\ Apart(given')
  /\ wanted' = {}
  /\ UNCHANGED lost

Lose == ~ lost /\ lost' = TRUE /\ given' = Nowhere /\ wanted' = {}

Next == (\E n \in Sizes : Ask(n)) \/ Answer \/ Lose

Spec == Init /\ [][Next]_<<given, wanted, lost>>
=============================================================================
