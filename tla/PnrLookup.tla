---- MODULE PnrLookup ----
(***************************************************************************)
(* How the booking server finds a booking that was spelled over the phone  *)
(* (airline/database/api.py get_pnr): the exact record locator, else the   *)
(* one stored locator that is a single edit away, else nothing.  The loop  *)
(* of _fuzzy_match_pnr is one step per stored row, over any order of rows. *)
(***************************************************************************)
EXTENDS Integers, Sequences, FiniteSets

CONSTANTS Letters, PnrLength, MaxRows, None

\* None is not the place of a row.
SizeAssumption == PnrLength \in Nat /\ MaxRows \in Nat /\ None \notin Nat

VARIABLES rows, query, at, best, tie
vars == <<rows, query, at, best, tie>>

Words(n) == [1 .. n -> Letters]
Spoken == UNION {Words(n) : n \in 0 .. (PnrLength + 1)}
Tables == {t \in UNION {[1 .. n -> Words(PnrLength)] : n \in 0 .. MaxRows} :
              \A i, j \in DOMAIN t : i # j => t[i] # t[j]}
Abs(n) == IF n < 0 THEN -n ELSE n
Least(x, y) == IF x <= y THEN x ELSE y

(* _edit_distance: a row of the table of Levenshtein from the row above it,
   the table, and the early exits. *)
NextRow(prev, i, c, b) ==
    LET row[j \in 0 .. Len(b)] ==
            IF j = 0 THEN i
            ELSE Least(Least(row[j - 1] + 1, prev[j] + 1),
                       prev[j - 1] + (IF c = b[j] THEN 0 ELSE 1))
    IN row
DistanceRows(a, b) ==
    LET d[i \in 0 .. Len(a)] ==
            IF i = 0 THEN [j \in 0 .. Len(b) |-> j] ELSE NextRow(d[i - 1], i, a[i], b)
    IN d
EditDistance(a, b) ==
    LET la == Len(a)
        lb == Len(b)
    IN IF a = b THEN 0
       ELSE IF Abs(la - lb) > 2 THEN (IF la < lb THEN lb ELSE la)
       ELSE DistanceRows(a, b)[la][lb]

TypeOK == /\ rows \in Tables /\ query \in Spoken /\ at \in 1 .. (Len(rows) + 1)
          /\ best \in {None} \cup (DOMAIN rows) /\ tie \in BOOLEAN

(* best is the row that holds the smallest distance so far. *)
Init == rows \in Tables /\ query \in Spoken /\ at = 1 /\ best = None /\ tie = FALSE

Exact == \E i \in DOMAIN rows : rows[i] = query
Distance(i) == EditDistance(query, rows[i])

(* A variant of MatchRow: a second row as near as the best one goes unseen. *)
MatchRowFirst ==
    LET d == Distance(at) IN
    /\ ~Exact /\ at <= Len(rows) /\ at' = at + 1
    /\ best' = IF d <= 1 /\ best = None THEN at ELSE best
    /\ UNCHANGED <<rows, query, tie>>
(* One row of the loop of _fuzzy_match_pnr. *)
MatchRow ==
    LET d == Distance(at) IN
    /\ ~Exact /\ at <= Len(rows) /\ at' = at + 1
    /\ IF d > 1 THEN UNCHANGED <<best, tie>>
       ELSE IF best = None THEN best' = at /\ tie' = FALSE
       ELSE IF d < Distance(best) THEN best' = at /\ tie' = FALSE
       ELSE best' = best /\ tie' = (tie \/ d = Distance(best))
    /\ UNCHANGED <<rows, query>>
Next == MatchRow
Spec == Init /\ [][Next]_vars

Ended == Exact \/ at > Len(rows)
Answer == IF Exact THEN query ELSE IF best = None \/ tie THEN None ELSE rows[best]

(* The words one insertion, deletion or substitution away from w. *)
OneEdit(w) ==
    LET n == Len(w) IN
    {[w EXCEPT ![i] = c] : i \in 1 .. n, c \in Letters}
    \cup {SubSeq(w, 1, i - 1) \o SubSeq(w, i + 1, n) : i \in 1 .. n}
    \cup {SubSeq(w, 1, i) \o <<c>> \o SubSeq(w, i + 1, n) : i \in 0 .. n, c \in Letters}

Near == {i \in DOMAIN rows : rows[i] \in OneEdit(query)}

(* What the loop of _fuzzy_match_pnr keeps of the rows before at: best is one of the
   near ones when there is one, and tie is set when there are more. *)
Inv ==
    LET seen == {i \in Near : i < at} IN
    /\ TypeOK
    /\ ~Exact => /\ best = None => seen = {}
                 /\ best # None => best \in seen /\ (tie <=> seen # {best})

(* api.py:797 "Edit-distance-1 fuzzy match against all known PNRs. None on
   tie.": a caller is never handed another passenger's booking because the
   table lists it first, and a single slip of the spelling is forgiven. *)
NearestOrNone ==
    Ended => Answer = IF Exact THEN query
                      ELSE IF Cardinality(Near) = 1 THEN rows[CHOOSE i \in Near : TRUE] ELSE None
====
