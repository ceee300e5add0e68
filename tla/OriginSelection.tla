-------------------------- MODULE OriginSelection --------------------------
(***************************************************************************)
(* Which origins a request tries, and in which order                       *)
(* (src/node/data/origin_selection.h): the plan compiled from a website,   *)
(* and the cursor that walks over it with the health snapshot it was given *)
(* when the request was routed.                                            *)
(***************************************************************************)
EXTENDS Naturals, Sequences, FiniteSets, SequencesExt, Functions

CONSTANTS
  Origins,     \* the website's origins, each with enabled, weight, role and group
  Groups,      \* origin groups; "default" is one of them
  MaxOrigins,  \* bound: origins of a website
  Sequences    \* values of the request sequence number

SelectionAssumption == "default" \in Groups /\ Sequences \subseteq Nat /\ MaxOrigins \in Nat

VARIABLES
  site,        \* the website's origins, in order
  group, ids,  \* what the matched route asks for: a group, or origin ids
  sequence,    \* the worker's request number
  unhealthy,   \* the health snapshot: origins (positions in site) that are not healthy
  cursor,      \* origin_cursor
  tried        \* positions returned so far

vars == <<site, group, ids, sequence, unhealthy, cursor, tried>>

Roles == <<"primary", "backup">>

\* origin_plan: enabled, weighted origins of the group or with one of the ids.
Selected(i) == site[i].enabled /\ site[i].weight > 0 /\ IF ids = {} THEN site[i].group = group ELSE i \in ids

Candidates(r) == SelectSeq([i \in DOMAIN site |-> i], LAMBDA i : Selected(i) /\ site[i].role = Roles[r])

\* candidate::weight_end_
WeightEnd(c, k) == FoldFunctionOnSet(+, 0, [j \in DOMAIN c |-> site[c[j]].weight], 1..k)

\* The comparison of upper_bound.
Beyond(selected, end) == selected < end

\* origin_cursor: the first candidate whose weight range holds the sequence number.
Pivot(c, n) ==
  IF c = <<>> THEN 1
  ELSE LET selected == n % WeightEnd(c, Len(c)) IN
       CHOOSE k \in DOMAIN c : Beyond(selected, WeightEnd(c, k)) /\ \A j \in 1..(k - 1) : ~Beyond(selected, WeightEnd(c, j))

\* reset_role
AtRole(cur, r) ==
  [cur EXCEPT !.role = r, !.index = Pivot(Candidates(r), sequence), !.remaining = Len(Candidates(r))]

Start == AtRole([role |-> 1, index |-> 1, remaining |-> 0, second |-> FALSE, saw |-> FALSE, over |-> FALSE], 1)

Init ==
  /\ site \in UNION {[1..n -> Origins] : n \in 0..MaxOrigins}
  /\ group \in Groups /\ ids \in SUBSET DOMAIN site
  /\ sequence \in Sequences /\ unhealthy \in SUBSET DOMAIN site
  /\ cursor = Start /\ tried = <<>>

\* The second pass, over the unhealthy ones.
Again(cur) == AtRole([cur EXCEPT !.second = TRUE], 1)

\* next: a role is used up.
NextRole ==
  /\ ~cursor.over /\ cursor.remaining = 0
  /\ cursor' = IF cursor.role < Len(Roles) THEN AtRole(cursor, cursor.role + 1)
               ELSE IF cursor.second \/ ~cursor.saw THEN [cursor EXCEPT !.over = TRUE]
               ELSE Again(cursor)
  /\ UNCHANGED <<site, group, ids, sequence, unhealthy, tried>>

\* The candidate after the last is the first.
Successor(k, n) == IF k = n THEN 1 ELSE k + 1

\* The first pass returns the healthy ones, the second the others.
Fits(healthy, second) == healthy # second

\* next: one candidate; returned when its health fits the pass.
NextCandidate ==
  /\ ~cursor.over /\ cursor.remaining > 0
  /\ LET c == Candidates(cursor.role)  i == c[cursor.index]  healthy == i \notin unhealthy IN
     /\ cursor' = [cursor EXCEPT !.remaining = @ - 1, !.index = Successor(@, Len(c)), !.saw = @ \/ ~healthy]
     /\ tried' = IF Fits(healthy, cursor.second) THEN Append(tried, i) ELSE tried
  /\ UNCHANGED <<site, group, ids, sequence, unhealthy>>

Next == NextRole \/ NextCandidate

Spec == Init /\ [][Next]_vars

(* -- Properties --------------------------------------------------------- *)

(* Selected origins only, none twice; at the end, all of them.             *)
EachOnce ==
  /\ IsInjective(tried)
  /\ \A i \in Range(tried) : site[i].enabled /\ site[i].weight > 0 /\ (ids = {} => site[i].group = group)
  /\ cursor.over => Range(tried) = UNION {Range(Candidates(r)) : r \in DOMAIN Roles}

\* Health first, then the role.
Rank(i) == (IF i \in unhealthy THEN 2 ELSE 0) + (IF site[i].role = "primary" THEN 0 ELSE 1)

(* A healthy backup goes before an unhealthy primary, and within each kind *)
(* the order is that of the website, begun at the pivot.                   *)
HealthyFirst ==
  /\ \A j, k \in DOMAIN tried : j < k => Rank(tried[j]) <= Rank(tried[k])
  /\ \A r \in DOMAIN Roles : LET c == Candidates(r)  p == Pivot(c, sequence) IN
       \A j, k \in DOMAIN tried :
         (j < k /\ Rank(tried[j]) = Rank(tried[k]) /\ site[tried[j]].role = Roles[r] /\ site[tried[k]].role = Roles[r])
         => LET a == CHOOSE m \in DOMAIN c : c[m] = tried[j]  b == CHOOSE m \in DOMAIN c : c[m] = tried[k] IN
            (IF a >= p THEN a ELSE a + Len(c)) < (IF b >= p THEN b ELSE b + Len(c))

(* Over one round of sequence numbers every candidate is first exactly as  *)
(* often as its weight.                                                    *)
WeightShare ==
  \A r \in DOMAIN Roles : LET c == Candidates(r) IN
    \A k \in DOMAIN c : Cardinality({n \in 0..(WeightEnd(c, Len(c)) - 1) : Pivot(c, n) = k}) = site[c[k]].weight
=============================================================================
