-------------------------- MODULE ReviewDeskProofs ---------------------------
(***************************************************************************)
(* What the public showcase shows has been reviewed, and paging through a  *)
(* list misses no row and repeats none, for any number of projects and     *)
(* certificates and any number of rows on a page.  The first invariant     *)
(* speaks of every decided project, public or not: a learner may have made *)
(* a project public only after it was written, but not after it was        *)
(* decided.  The second says what the cursor separates: the rows shown are *)
(* the newest of those that matched all along, down to the cursor's.       *)
(***************************************************************************)
EXTENDS ReviewDesk, FiniteSetTheorems, SequenceTheorems, WellFoundedInduction, TLAPS

Statuses == {"NONE"} \cup ProjectStates \cup CertificateStates

DecidedIsReviewed == \A p \in Projects : status[p] \in {"APPROVED", "REJECTED"} => p \in reviewed

DeskInv ==
    /\ status \in [Rows -> Statuses]
    /\ public \subseteq Projects
    /\ DecidedIsReviewed

\* A project that moves to st, on the way to which it has been reviewed unless it is
\* PENDING, keeps the others as they are.
LEMMA MoveKeeps ==
    ASSUME DeskInv, NEW r \in Rows, NEW st \in Statuses, Move(r, st),
           public' \subseteq Projects, reviewed \subseteq reviewed',
           r \in Projects /\ st \in {"APPROVED", "REJECTED"} => r \in reviewed'
    PROVE  DeskInv'
<1>1. status' = [status EXCEPT ![r] = st]
  BY DEF Move
<1>2. status' \in [Rows -> Statuses]
  BY <1>1 DEF DeskInv
<1>3. ASSUME NEW p \in Projects, status'[p] \in {"APPROVED", "REJECTED"} PROVE p \in reviewed'
  <2>1. CASE p = r
    BY <1>1, <1>3, <2>1 DEF DeskInv
  <2>2. CASE p # r
    BY <1>1, <1>3, <2>2 DEF DeskInv, DecidedIsReviewed, Rows
  <2> QED
    BY <2>1, <2>2
<1> QED
  BY <1>2, <1>3 DEF DeskInv, DecidedIsReviewed

LEMMA DeskInit == Init => DeskInv
BY DEF Init, DeskInv, DecidedIsReviewed, Statuses, Rows

LEMMA DeskNext == DeskInv /\ [Next]_vars => DeskInv'
<1> SUFFICES ASSUME DeskInv, [Next]_vars PROVE DeskInv'
  OBVIOUS
<1>1. ASSUME NEW p \in Projects, NEW shared \in BOOLEAN, Submit(p, shared) PROVE DeskInv'
  BY <1>1, MoveKeeps DEF Submit, Insert, Shared, DeskInv, Statuses, ProjectStates, Rows
<1>2. ASSUME NEW p \in Projects, NEW shared \in BOOLEAN, Edit(p, shared) PROVE DeskInv'
  <2>1. status' = status /\ reviewed' = reviewed \ {p} /\ status[p] = "PENDING"
    BY <1>2 DEF Edit, MayEdit
  <2>2. public' \subseteq Projects
    BY <1>2 DEF Edit, Shared, DeskInv
  <2> QED
    BY <2>1, <2>2 DEF DeskInv, DecidedIsReviewed
<1>3. ASSUME NEW p \in Projects, NEW st \in ProjectStates, Review(p, st) PROVE DeskInv'
  BY <1>3, MoveKeeps DEF Review, DeskInv, Statuses, Rows
<1>4. ASSUME NEW c \in Certificates, CreateIssued(c) \/ RevokeIssued(c) PROVE DeskInv'
  BY <1>4, MoveKeeps DEF CreateIssued, RevokeIssued, Insert, DeskInv, Statuses, CertificateStates, Rows
<1>5. CASE ListStep
  BY <1>5 DEF ListStep, OpenList, NextPage, CloseList, rowVars, DeskInv, DecidedIsReviewed
<1>6. CASE UNCHANGED vars
  BY <1>6 DEF vars, rowVars, DeskInv, DecidedIsReviewed
<1> QED
  BY <1>1, <1>2, <1>3, <1>4, <1>5, <1>6 DEF Next, ProjectStep, CertificateStep

THEOREM DecidedStaysReviewed == Spec => []DeskInv
BY DeskInit, DeskNext, PTL DEF Spec

\* What the public showcase shows is what its approval was recorded for: no edit
\* slips in behind a review (updatePendingOwned, findPublicShowcase).
THEOREM ShowcaseWasReviewed == Spec => []ShowcaseIsReviewed
<1>1. DeskInv => ShowcaseIsReviewed
  BY DEF DeskInv, DecidedIsReviewed, ShowcaseIsReviewed, Showcase
<1> QED
  BY <1>1, DecidedStaysReviewed, PTL

-----------------------------------------------------------------------------
(* Places: a row keeps the place in createdAt order that it was given.        *)

LEMMA LeastNatural == ASSUME NEW S \in SUBSET Nat, S # {} PROVE \E n \in S : \A m \in S : n <= m
<1> DEFINE R == {ss \in Nat \X Nat : ss[1] < ss[2]}
<1>1. IsWellFoundedOn(R, Nat)
  BY NatLessThanWellFounded, Zenon DEF OpToRel
<1>2. PICK n \in S : \A m \in S : ~(<<m, n>> \in R)
  <2> HIDE DEF R
  <2> QED
    BY <1>1, WFMin
<1>3. \A m \in S : ~(m < n)
  BY <1>2
<1> QED
  BY <1>3

\* The table s lists the rows of t that are there, each once.
Lists1(s, t, st) ==
    /\ s \in Seq(Rows)
    /\ \A n \in 1..Len(s) : s[n] \in t /\ st[s[n]] # "NONE"
    /\ \A r \in t : st[r] # "NONE" => \E n \in 1..Len(s) : s[n] = r
    /\ \A m, n \in 1..Len(s) : s[m] = s[n] => m = n

CreatedOK ==
    /\ DOMAIN created = Tables
    /\ \A t \in Tables : Lists1(created[t], t, status)

LEMMA TableFacts ==
    /\ \A r \in Rows : TableOf(r) \in Tables /\ r \in TableOf(r)
    /\ \A t \in Tables : t \subseteq Rows /\ \A r \in t : TableOf(r) = t
BY DeskAssumption DEF Rows, Tables, TableOf

LEMMA PlaceIn ==
    ASSUME NEW s \in Seq(Rows), NEW n \in 1..Len(s), \A a, b \in 1..Len(s) : s[a] = s[b] => a = b
    PROVE  (CHOOSE m \in DOMAIN s : s[m] = s[n]) = n
BY LenProperties

LEMMA AtFacts ==
    ASSUME CreatedOK, NEW t \in Tables, NEW r \in t, status[r] # "NONE"
    PROVE  At(r) \in 1..Len(created[t]) /\ created[t][At(r)] = r
<1>1. TableOf(r) = t /\ created[t] \in Seq(Rows)
  BY TableFacts DEF CreatedOK, Lists1
<1>2. PICK n \in 1..Len(created[t]) : created[t][n] = r
  BY DEF CreatedOK, Lists1
<1>3. At(r) = n
  BY <1>1, <1>2, PlaceIn DEF At, CreatedOK, Lists1
<1> QED
  BY <1>2, <1>3

\* A row that is there stays where it is when created goes on.
LEMMA AtStays ==
    ASSUME CreatedOK, CreatedOK', NEW t \in Tables, NEW r \in t, status[r] # "NONE",
           Len(created[t]) <= Len(created'[t]), \A n \in 1..Len(created[t]) : created'[t][n] = created[t][n]
    PROVE  At(r)' = At(r)
<1>1. At(r) \in 1..Len(created[t]) /\ created[t][At(r)] = r
  BY AtFacts
<1>2. TableOf(r) = t /\ created'[t] \in Seq(Rows) /\ created[t] \in Seq(Rows)
  BY TableFacts DEF CreatedOK, Lists1
<1>3. PICK n \in 1..Len(created'[t]) : n = At(r) /\ created'[t][n] = r
  BY <1>1, <1>2, LenProperties
<1>4. \A a, b \in 1..Len(created'[t]) : created'[t][a] = created'[t][b] => a = b
  BY DEF CreatedOK, Lists1
<1>5. (CHOOSE m \in DOMAIN created'[t] : created'[t][m] = created'[t][n]) = n
  BY <1>2, <1>4, PlaceIn
<1>6. At(r)' = CHOOSE m \in DOMAIN created'[t] : created'[t][m] = r
  BY <1>2 DEF At, TableOf
<1> QED
  BY <1>3, <1>5, <1>6

-----------------------------------------------------------------------------
(* Pages.                                                                    *)

InPlace(S) ==
    /\ IsFiniteSet(S)
    /\ \E N \in Nat : \A r \in S : At(r) \in 0..N
    /\ \A q, r \in S : At(q) = At(r) => q = r

LEMMA RowsInPlace ==
    ASSUME CreatedOK, NEW t \in Tables, NEW S \in SUBSET t, \A r \in S : status[r] # "NONE" PROVE InPlace(S)
<1> DEFINE N == Len(created[t])
           f == [r \in S |-> At(r)]
<1>1. N \in Nat
  BY LenProperties DEF CreatedOK, Lists1
<1>2. \A r \in S : At(r) \in 1..N /\ created[t][At(r)] = r
  BY AtFacts
<1>3. \A q, r \in S : At(q) = At(r) => q = r
  <2>1. ASSUME NEW q \in S, NEW r \in S, At(q) = At(r) PROVE q = r
    BY <1>2, <2>1
  <2> QED
    BY <2>1
<1>4. f \in Injection(S, 1..N)
  BY <1>2, <1>3 DEF Injection, IsInjective
<1>5. IsFiniteSet(1..N)
  BY <1>1, FS_Interval
<1>6. IsFiniteSet(S)
  BY <1>4, <1>5, FS_Injection
<1>7. \A r \in S : At(r) \in 0..N
  BY <1>1, <1>2
<1> QED
  BY <1>1, <1>3, <1>6, <1>7 DEF InPlace

LEMMA PartInPlace == ASSUME NEW S, InPlace(S), NEW T \in SUBSET S PROVE InPlace(T)
BY FS_Subset DEF InPlace

LEMMA OldestIs ==
    ASSUME NEW S, InPlace(S), S # {} PROVE Oldest(S) \in S /\ \A q \in S : At(Oldest(S)) <= At(q)
<1> DEFINE P == {At(r) : r \in S}
<1>1. P \in SUBSET Nat /\ P # {}
  BY DEF InPlace
<1>2. PICK n \in P : \A m \in P : n <= m
  BY <1>1, LeastNatural
<1>3. PICK r \in S : \A q \in S : At(r) <= At(q)
  BY <1>2
<1> QED
  BY <1>3 DEF Oldest

LEMMA NewestIs ==
    ASSUME NEW S, InPlace(S), S # {} PROVE \E r \in S : \A q \in S : At(q) <= At(r)
<1>1. PICK N \in Nat : \A r \in S : At(r) \in 0..N
  BY DEF InPlace
<1> DEFINE P == {N - At(r) : r \in S}
<1>2. P \in SUBSET Nat /\ P # {}
  BY <1>1
<1>3. PICK n \in P : \A m \in P : n <= m
  BY <1>2, LeastNatural
<1>4. PICK r \in S : n = N - At(r)
  BY <1>3
<1>5. \A q \in S : N - At(r) <= N - At(q)
  BY <1>3, <1>4
<1>6. \A q \in S : At(q) <= At(r)
  BY <1>1, <1>5
<1> QED
  BY <1>6

\* How many rows of S are newer than r.
LEMMA NewerAreCounted ==
    ASSUME NEW S, InPlace(S), NEW r
    PROVE  LET newer == {q \in S : At(q) > At(r)} IN IsFiniteSet(newer) /\ Cardinality(newer) \in Nat
BY FS_Subset, FS_CardinalityType DEF InPlace

\* The latest rows are newer than the others.
LEMMA LatestFirst ==
    ASSUME NEW S, InPlace(S), NEW n \in Nat, NEW r \in Latest(S, n), NEW q \in S, At(r) <= At(q)
    PROVE  q \in Latest(S, n)
<1> DEFINE newer(x) == {p \in S : At(p) > At(x)}
<1>1. newer(q) \subseteq newer(r)
  BY DEF InPlace, Latest
<1>2. IsFiniteSet(newer(r)) /\ Cardinality(newer(r)) \in Nat /\ Cardinality(newer(q)) \in Nat
  BY NewerAreCounted
<1>3. Cardinality(newer(q)) <= Cardinality(newer(r))
  BY <1>1, <1>2, FS_Subset
<1>4. Cardinality(newer(r)) < n
  BY DEF Latest
<1>5. Cardinality(newer(q)) < n
  BY <1>2, <1>3, <1>4
<1> QED
  BY <1>5 DEF Latest

LEMMA LatestSome == ASSUME NEW S, InPlace(S), S # {}, NEW n \in Nat \ {0} PROVE Latest(S, n) # {}
<1>1. PICK r \in S : \A q \in S : At(q) <= At(r)
  BY NewestIs
<1>2. {q \in S : At(q) > At(r)} = {}
  BY <1>1 DEF InPlace
<1>3. Cardinality({q \in S : At(q) > At(r)}) < n
  BY <1>2, FS_EmptySet
<1> QED
  BY <1>3 DEF Latest

\* The row cursor's page starts with the cursor's own row.
LEMMA LatestOne ==
    ASSUME NEW S, InPlace(S), NEW c \in S, \A q \in S : At(q) <= At(c) PROVE Latest(S, 1) = {c}
<1>1. {q \in S : At(q) > At(c)} = {}
  BY DEF InPlace
<1>2. c \in Latest(S, 1)
  BY <1>1, FS_EmptySet DEF Latest
<1>3. ASSUME NEW r \in S, r # c PROVE r \notin Latest(S, 1)
  <2> DEFINE newer == {q \in S : At(q) > At(r)}
  <2>1. At(r) < At(c)
    BY <1>3 DEF InPlace
  <2>2. {c} \subseteq newer
    BY <2>1
  <2>3. IsFiniteSet(newer) /\ Cardinality(newer) \in Nat
    BY NewerAreCounted
  <2>4. Cardinality({c}) <= Cardinality(newer)
    BY <2>2, <2>3, FS_Subset
  <2>5. Cardinality({c}) = 1
    BY FS_Singleton
  <2>6. ~(Cardinality(newer) < 1)
    BY <2>3, <2>4, <2>5
  <2> QED
    BY <2>6 DEF Latest
<1> QED
  BY <1>2, <1>3 DEF Latest

\* A page that is not the last ends at its cursor.
LEMMA PageEnds ==
    ASSUME NEW rest, InPlace(rest), Latest(rest, Limit) # rest
    PROVE  LET c == CursorOf(rest)
           IN  /\ c \in rest
               /\ \A r \in Latest(rest, Limit) : At(c) <= At(r)
               /\ \A r \in rest : At(c) <= At(r) => r \in Latest(rest, Limit)
<1> DEFINE page == Latest(rest, Limit)
<1>1. page \subseteq rest /\ rest # {}
  BY DEF Latest
<1>2. InPlace(page) /\ page # {}
  BY <1>1, PartInPlace, LatestSome, DeskAssumption
<1>3. CursorOf(rest) \in page /\ \A r \in page : At(CursorOf(rest)) <= At(r)
  BY <1>2, OldestIs DEF CursorOf
<1>4. Limit \in Nat
  BY DeskAssumption
<1> QED
  BY <1>1, <1>3, <1>4, LatestFirst

-----------------------------------------------------------------------------
(* The list being paged through.                                             *)

\* Until something has moved, the rows shown are those down to the cursor's.
ShownDownToCursor ==
    IF list.cursor = Nothing THEN list.shown = {}
    ELSE /\ \A r \in list.shown : At(list.cursor) <= At(r)
         /\ \A r \in list.steady : At(list.cursor) <= At(r) => r \in list.shown

RowsThere(S) == \A r \in S : r \in list.rows /\ status[r] # "NONE"

PageInv ==
    /\ CreatedOK
    /\ list # Nothing =>
          /\ list \in Lists
          /\ RowsThere(list.shown)
          /\ list.steady \subseteq Matching(list.rows, list.filter, status)
          /\ list.cursor # Nothing => list.mode = "cursor" /\ RowsThere({list.cursor})
          /\ ~list.moved => ~list.repeated /\ (list.done => list.steady \subseteq list.shown)
          /\ ~list.moved /\ ~list.done /\ list.mode = "cursor" => ShownDownToCursor

Grows ==
    \A t \in Tables :
       Len(created[t]) <= Len(created'[t]) /\ \A n \in 1..Len(created[t]) : created'[t][n] = created[t][n]

\* A new row goes to the end of its table.
LEMMA InsertOK ==
    ASSUME DeskInv, CreatedOK, NEW r \in Rows, NEW st \in Statuses \ {"NONE"}, Insert(r, st)
    PROVE  CreatedOK' /\ Grows
<1> DEFINE tr == TableOf(r)
<1>1. status[r] = "NONE" /\ status' = [status EXCEPT ![r] = st] /\ status \in [Rows -> Statuses]
  BY DEF Insert, Move, DeskInv
<1>2. tr \in Tables /\ r \in tr /\ created' = [created EXCEPT ![tr] = Append(@, r)] /\ DOMAIN created = Tables
  BY TableFacts DEF Insert, CreatedOK
<1> HIDE DEF tr
<1>3. DOMAIN created' = Tables
  BY <1>2
<1>4. ASSUME NEW t \in Tables, t # tr PROVE created'[t] = created[t] /\ Lists1(created'[t], t, status')
  <2>1. created'[t] = created[t] /\ r \notin t
    BY <1>2, <1>4, TableFacts
  <2>2. \A q \in t : status'[q] = status[q]
    BY <1>1, <2>1, TableFacts
  <2>3. Lists1(created[t], t, status)
    BY DEF CreatedOK
  <2> QED
    BY <2>1, <2>2, <2>3 DEF Lists1
<1>5. PICK s \in Seq(Rows) : s = created[tr] /\ Lists1(s, tr, status)
  BY <1>2 DEF CreatedOK, Lists1
<1>6. created'[tr] = Append(s, r)
  BY <1>2, <1>5
<1>7. /\ Append(s, r) \in Seq(Rows) /\ Len(Append(s, r)) = Len(s) + 1 /\ Len(s) \in Nat
      /\ \A n \in 1..Len(s) : Append(s, r)[n] = s[n]
      /\ Append(s, r)[Len(s) + 1] = r
  BY <1>5, AppendProperties, LenProperties
<1>8. \A n \in 1..Len(s) : s[n] \in tr /\ s[n] # r /\ status'[s[n]] # "NONE"
  BY <1>1, <1>5, TableFacts, <1>2 DEF Lists1
<1>9. status'[r] # "NONE"
  BY <1>1
<1>10. Lists1(Append(s, r), tr, status')
  <2>1. \A n \in 1..(Len(s) + 1) : Append(s, r)[n] \in tr /\ status'[Append(s, r)[n]] # "NONE"
    BY <1>2, <1>7, <1>8, <1>9
  <2>2. ASSUME NEW q \in tr, status'[q] # "NONE" PROVE \E n \in 1..(Len(s) + 1) : Append(s, r)[n] = q
    <3>1. CASE q = r
      BY <1>7, <3>1
    <3>2. CASE q # r
      <4>1. status[q] # "NONE"
        BY <1>1, <1>2, <2>2, <3>2, TableFacts
      <4>2. PICK n \in 1..Len(s) : s[n] = q
        BY <1>5, <4>1 DEF Lists1
      <4> QED
        BY <1>7, <4>2
    <3> QED
      BY <3>1, <3>2
  <2>3. \A m, n \in 1..(Len(s) + 1) : Append(s, r)[m] = Append(s, r)[n] => m = n
    <3>1. \A m, n \in 1..Len(s) : s[m] = s[n] => m = n
      BY <1>5 DEF Lists1
    <3> QED
      BY <1>7, <1>8, <3>1
  <2> QED
    BY <1>7, <2>1, <2>2, <2>3 DEF Lists1
<1>11. CreatedOK'
  BY <1>3, <1>4, <1>6, <1>10 DEF CreatedOK
<1>12. \A t \in Tables : Len(created[t]) \in Nat
  BY LenProperties DEF CreatedOK, Lists1
<1> QED
  BY <1>4, <1>5, <1>6, <1>7, <1>11, <1>12 DEF Grows

LEMMA NoInsertOK ==
    ASSUME DeskInv, CreatedOK, NEW r \in Rows, NEW st \in Statuses \ {"NONE"}, Move(r, st),
           status[r] # "NONE", created' = created
    PROVE  CreatedOK' /\ Grows
<1>1. \A q \in Rows : status'[q] # "NONE" <=> status[q] # "NONE"
  BY DEF Move, DeskInv
<1>2. ASSUME NEW t \in Tables PROVE Lists1(created[t], t, status')
  <2>1. Lists1(created[t], t, status) /\ t \subseteq Rows
    BY TableFacts DEF CreatedOK
  <2> QED
    BY <1>1, <2>1 DEF Lists1
<1>3. \A t \in Tables : Len(created[t]) \in Nat
  BY LenProperties DEF CreatedOK, Lists1
<1> QED
  BY <1>2, <1>3 DEF CreatedOK, Grows

\* Rows that move take themselves out of the steady ones; the others keep their places.
LEMMA RowsMove ==
    ASSUME DeskInv, PageInv, CreatedOK', Grows,
           NEW r \in Rows, NEW st \in Statuses \ {"NONE"}, Move(r, st)
    PROVE  PageInv'
<1>1. CASE list = Nothing
  BY <1>1 DEF Move, PageInv
<1>2. CASE list # Nothing
  <2> DEFINE steady == list.steady \cap Matching(list.rows, list.filter, status')
  <2>1. list \in Lists /\ list' = [list EXCEPT !.steady = steady]
    BY <1>2 DEF Move, PageInv
  <2>2. /\ list'.rows = list.rows /\ list'.filter = list.filter /\ list'.mode = list.mode
        /\ list'.cursor = list.cursor /\ list'.done = list.done /\ list'.shown = list.shown
        /\ list'.repeated = list.repeated /\ list'.moved = list.moved /\ list'.steady = steady
    BY <2>1 DEF Lists
  <2>3. list' \in Lists /\ list.rows \in Tables
    BY <2>1 DEF Lists
  <2>4. \A q \in Rows : status[q] # "NONE" => status'[q] # "NONE"
    BY DEF Move, DeskInv
  <2>5. list.rows \subseteq Rows
    BY <2>3, TableFacts
  <2>6. \A q \in list.rows : status[q] # "NONE" => At(q)' = At(q)
    <3> SUFFICES ASSUME NEW q \in list.rows, status[q] # "NONE" PROVE At(q)' = At(q)
      OBVIOUS
    <3> QED
      BY <2>3, AtStays DEF PageInv, Grows
  <2>7. RowsThere(list.shown)'
    BY <1>2, <2>2, <2>4, <2>5 DEF RowsThere, PageInv
  <2>8. list'.steady \subseteq Matching(list'.rows, list'.filter, status')
    BY <2>2
  <2>9. list'.cursor # Nothing => list'.mode = "cursor" /\ RowsThere({list.cursor})'
    BY <1>2, <2>2, <2>4, <2>5 DEF RowsThere, PageInv
  <2>10. ~list'.moved => ~list'.repeated /\ (list'.done => list'.steady \subseteq list'.shown)
    BY <1>2, <2>2 DEF PageInv
  <2>11. ~list'.moved /\ ~list'.done /\ list'.mode = "cursor" => ShownDownToCursor'
    <3> SUFFICES ASSUME ~list.moved, ~list.done, list.mode = "cursor" PROVE ShownDownToCursor'
      BY <2>2
    <3>1. ShownDownToCursor
      BY <1>2 DEF PageInv
    <3>2. \A q \in list.shown \cup list.steady : q \in list.rows /\ status[q] # "NONE"
      BY <1>2 DEF PageInv, RowsThere, Matching
    <3>3. CASE list.cursor = Nothing
      BY <2>2, <3>1, <3>3 DEF ShownDownToCursor
    <3>4. CASE list.cursor # Nothing
      <4>1. At(list.cursor)' = At(list.cursor)
        <5>1. list.cursor \in list.rows /\ status[list.cursor] # "NONE"
          BY <1>2, <3>4 DEF PageInv, RowsThere
        <5>2. PICK c \in list.rows : c = list.cursor /\ status[c] # "NONE"
          BY <5>1
        <5>3. At(c)' = At(c)
          BY <2>6, <5>2
        <5>4. At(list.cursor)' = At(c)'
          BY <2>2, <5>2 DEF At, TableOf
        <5>5. At(list.cursor) = At(c)
          BY <5>2
        <5> QED
          BY <5>3, <5>4, <5>5
      <4>2. \A q \in list.shown : At(list.cursor)' <= At(q)'
        BY <2>6, <3>1, <3>2, <3>4, <4>1 DEF ShownDownToCursor
      <4>3. \A q \in list.steady : At(list.cursor)' <= At(q)' => q \in list.shown
        BY <2>6, <3>1, <3>2, <3>4, <4>1 DEF ShownDownToCursor
      <4> QED
        BY <2>2, <3>4, <4>2, <4>3 DEF ShownDownToCursor
    <3> QED
      BY <3>3, <3>4
  <2> QED
    BY <2>3, <2>7, <2>8, <2>9, <2>10, <2>11 DEF PageInv, RowsThere
<1> QED
  BY <1>1, <1>2
LEMMA WritesKeepPages ==
    ASSUME DeskInv, PageInv, NEW r \in Rows, NEW st \in Statuses \ {"NONE"},
           Insert(r, st) \/ (Move(r, st) /\ status[r] # "NONE" /\ created' = created)
    PROVE  PageInv'
<1>1. CreatedOK
  BY DEF PageInv
<1>2. Move(r, st)
  BY DEF Insert
<1>3. CreatedOK' /\ Grows
  BY <1>1, InsertOK, NoInsertOK
<1> QED
  BY <1>2, <1>3, RowsMove

\* An edit only takes a row out of the fresh ones.
LEMMA EditKeepsPages ==
    ASSUME PageInv, NEW p \in Projects, NEW shared \in BOOLEAN, Edit(p, shared) PROVE PageInv'
<1>1. CASE list = Nothing
  BY <1>1 DEF Edit, PageInv, CreatedOK
<1>2. CASE list # Nothing
  <2>1. list \in Lists /\ list' = [list EXCEPT !.fresh = @ \ {p}] /\ status' = status /\ created' = created
    BY <1>2 DEF Edit, PageInv
  <2>2. /\ list' \in Lists /\ list'.rows = list.rows /\ list'.filter = list.filter /\ list'.mode = list.mode
        /\ list'.cursor = list.cursor /\ list'.done = list.done /\ list'.shown = list.shown
        /\ list'.repeated = list.repeated /\ list'.moved = list.moved /\ list'.steady = list.steady
    BY <2>1 DEF Lists
  <2>3. \A q : At(q)' = At(q)
    BY <2>1 DEF At
  <2>4. CreatedOK' <=> CreatedOK
    BY <2>1 DEF CreatedOK
  <2>5. ShownDownToCursor' <=> ShownDownToCursor
    BY <2>2, <2>3 DEF ShownDownToCursor
  <2>6. \A S : (\A q \in S : q \in list'.rows /\ status'[q] # "NONE") <=> RowsThere(S)
    BY <2>1, <2>2 DEF RowsThere
  <2> QED
    BY <1>2, <2>1, <2>2, <2>4, <2>5, <2>6 DEF PageInv, RowsThere
<1> QED
  BY <1>1, <1>2

LEMMA OpenListPages ==
    ASSUME PageInv, NEW rows \in Tables, NEW mode \in {"cursor", "offset"},
           NEW filter \in {Every} \cup StatesOf(rows), OpenList(rows, filter, mode)
    PROVE  PageInv'
<1>1. created' = created /\ status' = status
  BY DEF OpenList, rowVars
<1>2. Matching(rows, filter, status) \subseteq Rows
  BY TableFacts DEF Matching
<1>3. list' \in Lists
  BY <1>2 DEF OpenList, Lists, StatesOf
<1>4. list'.cursor = Nothing /\ list'.shown = {} /\ ~list'.done /\ ~list'.repeated
  BY DEF OpenList
<1>5. list'.steady = Matching(list'.rows, list'.filter, status')
  BY <1>1 DEF OpenList
<1>6. CreatedOK'
  BY <1>1 DEF PageInv, CreatedOK
<1> QED
  BY <1>3, <1>4, <1>5, <1>6 DEF PageInv, RowsThere, ShownDownToCursor

-----------------------------------------------------------------------------
(* The next page.                                                            *)

\* What matches is in place, and so is what is left of it.
LEMMA MatchesInPlace ==
    ASSUME PageInv, list # Nothing
    PROVE  /\ InPlace(Matching(list.rows, list.filter, status))
           /\ Matching(list.rows, list.filter, status) \subseteq list.rows
<1>1. list.rows \in Tables
  BY DEF PageInv, Lists
<1>2. PICK t \in Tables : t = list.rows
  BY <1>1
<1> QED
  BY <1>2, RowsInPlace DEF PageInv, Matching

\* The cursor leaves what is older than the row it names, if that row still matches.
LEMMA CursorRest ==
    ASSUME PageInv, list # Nothing, list.mode = "cursor", list.cursor # Nothing,
           NEW S, S = Matching(list.rows, list.filter, status), ~Slips(S)
    PROVE  /\ Rest(S) = {q \in S : At(q) < At(list.cursor)}
           /\ \A q \in S : At(q) \in Nat
           /\ At(list.cursor) \in Nat
<1>1. InPlace(S)
  BY MatchesInPlace
<1>2. \A q \in S : At(q) \in Nat
  BY <1>1 DEF InPlace
<1>3. At(list.cursor) \in Nat
  <2>1. PICK t \in Tables : t = list.rows
    BY DEF PageInv, Lists
  <2>2. PICK c \in t : c = list.cursor /\ status[c] # "NONE"
    BY <2>1 DEF PageInv, RowsThere
  <2>3. At(c) \in 1..Len(created[t])
    BY <2>2, AtFacts DEF PageInv
  <2>4. At(list.cursor) = At(c)
    BY <2>2
  <2> QED
    BY <2>3, <2>4
<1>4. CASE list.rows = Projects
  <2> DEFINE T == {q \in S : At(q) <= At(list.cursor)}
  <2>1. PICK c \in S : c = list.cursor
    BY <1>4 DEF Slips
  <2>2. InPlace(T) /\ c \in T /\ \A q \in T : At(q) <= At(c)
    BY <1>1, <1>2, <2>1, PartInPlace
  <2>3. Latest(T, 1) = {c}
    BY <2>2, LatestOne
  <2>4. \A q \in S : At(q) = At(c) => q = c
    BY <1>1 DEF InPlace
  <2>5. T \ {c} = {q \in S : At(q) < At(c)}
    BY <1>2, <2>1, <2>4
  <2>6. Rest(S) = T \ Latest(T, 1)
    BY <1>4 DEF Rest, AfterRow
  <2> QED
    BY <1>2, <1>3, <2>1, <2>3, <2>5, <2>6
<1>5. CASE list.rows # Projects
  BY <1>2, <1>3, <1>5 DEF Rest, AfterKey
<1> QED
  BY <1>4, <1>5

\* As long as nothing has moved, the next page repeats nothing and what it leaves
\* out is older, or is the rest.
LEMMA NextPageSees ==
    ASSUME PageInv, list # Nothing, ~list.done, ~list.moved,
           NEW S, S = Matching(list.rows, list.filter, status), ~Slips(S),
           NEW rest, rest = Rest(S), NEW page, page = Latest(rest, Limit)
    PROVE  /\ rest \subseteq S
           /\ page \cap list.shown = {}
           /\ page = rest => list.steady \subseteq list.shown \cup page
           /\ page # rest /\ list.mode = "cursor" =>
                 /\ CursorOf(rest) \in rest
                 /\ \A r \in list.shown \cup page : At(CursorOf(rest)) <= At(r)
                 /\ \A r \in list.steady : At(CursorOf(rest)) <= At(r) => r \in list.shown \cup page
<1>1. InPlace(S) /\ \A q \in S : At(q) \in Nat
  BY MatchesInPlace DEF InPlace
<1>2. list.steady \subseteq S /\ page \subseteq rest /\ list.mode \in {"cursor", "offset"}
  BY DEF PageInv, Latest, Lists
<1>3. CASE list.mode = "offset"
  <2>1. rest = S \ list.shown
    BY <1>3 DEF Rest, AfterOffset, Slips
  <2> QED
    BY <1>2, <1>3, <2>1
<1>4. CASE list.mode = "cursor" /\ list.cursor = Nothing
  <2>1. rest = S
    BY <1>4 DEF Rest
  <2>2. list.shown = {}
    BY <1>4 DEF PageInv, ShownDownToCursor
  <2>3. page # rest => /\ CursorOf(rest) \in rest
                       /\ \A r \in page : At(CursorOf(rest)) <= At(r)
                       /\ \A r \in rest : At(CursorOf(rest)) <= At(r) => r \in page
    BY <1>1, <2>1, PageEnds
  <2> QED
    BY <1>2, <2>1, <2>2, <2>3
<1>5. CASE list.mode = "cursor" /\ list.cursor # Nothing
  <2> DEFINE c == At(list.cursor)
  <2>1. rest = {q \in S : At(q) < c} /\ c \in Nat
    BY <1>5, CursorRest
  <2>2. /\ \A r \in list.shown : c <= At(r) /\ At(r) \in Nat
        /\ \A r \in list.steady : c <= At(r) => r \in list.shown
    <3>1. ShownDownToCursor
      BY <1>5 DEF PageInv
    <3>2. PICK t \in Tables : t = list.rows
      BY DEF PageInv, Lists
    <3>3. \A r \in list.shown : r \in t /\ status[r] # "NONE"
      BY <3>2 DEF PageInv, RowsThere
    <3>4. \A r \in list.shown : At(r) \in 1..Len(created[t])
      BY <3>3, AtFacts DEF PageInv
    <3> QED
      BY <1>5, <3>1, <3>4 DEF ShownDownToCursor
  <2> HIDE DEF c
  <2>3. InPlace(rest)
    BY <1>1, <2>1, PartInPlace
  <2>4. \A r \in page : At(r) < c
    BY <1>2, <2>1
  <2>5. page \cap list.shown = {}
    BY <1>1, <1>2, <2>1, <2>2, <2>4
  <2>6. \A r \in list.steady : r \in list.shown \/ r \in rest
    BY <1>1, <1>2, <2>1, <2>2
  <2>7. ASSUME page # rest
        PROVE  /\ CursorOf(rest) \in rest
               /\ \A r \in list.shown \cup page : At(CursorOf(rest)) <= At(r)
               /\ \A r \in list.steady : At(CursorOf(rest)) <= At(r) => r \in list.shown \cup page
    <3>1. /\ CursorOf(rest) \in rest
          /\ \A r \in page : At(CursorOf(rest)) <= At(r)
          /\ \A r \in rest : At(CursorOf(rest)) <= At(r) => r \in page
      BY <2>3, <2>7, PageEnds
    <3>2. At(CursorOf(rest)) < c /\ At(CursorOf(rest)) \in Nat
      BY <1>1, <2>1, <3>1
    <3>3. \A r \in list.shown : At(CursorOf(rest)) <= At(r)
      BY <2>1, <2>2, <3>2
    <3> QED
      BY <2>6, <3>1, <3>3
  <2>8. rest \subseteq S
    BY <2>1
  <2> QED
    BY <2>5, <2>6, <2>7, <2>8
<1> QED
  BY <1>2, <1>3, <1>4, <1>5
LEMMA NextPageKeeps == ASSUME PageInv, NextPage PROVE PageInv'
<1> DEFINE S == Matching(list.rows, list.filter, status)
           rest == Rest(S)
           page == Latest(rest, Limit)
           cursor == IF page # rest /\ list.mode = "cursor" THEN CursorOf(rest) ELSE Nothing
           slips == Slips(S)
<1>1. list # Nothing /\ ~list.done /\ list \in Lists /\ created' = created /\ status' = status
  BY DEF NextPage, PageInv, rowVars
<1>2. list' = [list EXCEPT !.cursor = cursor, !.served = @ + Cardinality(page), !.done = ~(rest # page),
                 !.shown = @ \cup page, !.fresh = @ \cup page,
                 !.repeated = @ \/ page \cap list.shown # {}, !.moved = @ \/ slips]
  BY DEF NextPage
<1>3. S \subseteq list.rows /\ InPlace(S) /\ \A q \in S : status[q] # "NONE"
  BY <1>1, MatchesInPlace DEF Matching
<1>4. rest \subseteq S /\ slips \in BOOLEAN
  BY <1>1 DEF Rest, AfterRow, AfterKey, AfterOffset, Slips, Lists
<1>5. page \subseteq rest /\ page \subseteq list.rows /\ list.rows \subseteq Rows
  BY <1>1, <1>3, <1>4, TableFacts DEF Latest, Lists
<1>6. InPlace(rest) /\ IsFiniteSet(page) /\ Cardinality(page) \in Nat
  BY <1>3, <1>4, <1>5, PartInPlace, FS_CardinalityType DEF InPlace
<1>7. cursor # Nothing => list.mode = "cursor" /\ page # rest /\ cursor \in rest
  BY <1>6, PageEnds
<1>8. ~(list.moved \/ slips) =>
         /\ page \cap list.shown = {}
         /\ page = rest => list.steady \subseteq list.shown \cup page
         /\ page # rest /\ list.mode = "cursor" =>
               /\ CursorOf(rest) \in rest
               /\ \A r \in list.shown \cup page : At(CursorOf(rest)) <= At(r)
               /\ \A r \in list.steady : At(CursorOf(rest)) <= At(r) => r \in list.shown \cup page
  BY <1>1, NextPageSees
<1>9. \A q : At(q)' = At(q)
  BY <1>1 DEF At
<1>10. Nothing \notin Rows
  BY DeskAssumption DEF Rows
<1>11. CreatedOK'
  BY <1>1 DEF PageInv, CreatedOK
<1>12. /\ list.steady \subseteq S /\ RowsThere(list.shown) /\ (~list.moved => ~list.repeated)
  BY <1>1 DEF PageInv
<1> HIDE DEF S, rest, page, cursor, slips
<1>13. /\ list'.rows = list.rows /\ list'.filter = list.filter /\ list'.mode = list.mode /\ list'.steady = list.steady
       /\ list'.cursor = cursor /\ list'.done = (rest = page) /\ list'.shown = list.shown \cup page
       /\ list'.repeated = (list.repeated \/ page \cap list.shown # {}) /\ list'.moved = (list.moved \/ slips)
  BY <1>1, <1>2 DEF Lists
<1>14. list' \in Lists
  <2>1. list.served + Cardinality(page) \in Nat /\ list.shown \cup page \subseteq Rows /\ list.fresh \cup page \subseteq Rows
    BY <1>1, <1>5, <1>6 DEF Lists
  <2>2. (list.repeated \/ page \cap list.shown # {}) \in BOOLEAN /\ (list.moved \/ slips) \in BOOLEAN
    BY <1>1, <1>4 DEF Lists
  <2>3. cursor \in Rows \cup {Nothing}
    BY <1>3, <1>4, <1>5, <1>7
  <2> QED
    BY <1>1, <1>2, <2>1, <2>2, <2>3 DEF Lists
<1>15. RowsThere(list.shown)'
  BY <1>1, <1>3, <1>4, <1>5, <1>12, <1>13 DEF RowsThere
<1>16. list'.steady \subseteq Matching(list'.rows, list'.filter, status')
  BY <1>1, <1>12, <1>13 DEF S
<1>17. list'.cursor # Nothing => list'.mode = "cursor" /\ RowsThere({list.cursor})'
  BY <1>1, <1>3, <1>4, <1>7, <1>13 DEF RowsThere
<1>18. ~list'.moved => ~list'.repeated /\ (list'.done => list'.steady \subseteq list'.shown)
  BY <1>8, <1>12, <1>13
<1>19. ~list'.moved /\ ~list'.done /\ list'.mode = "cursor" => ShownDownToCursor'
  <2> SUFFICES ASSUME ~(list.moved \/ slips), rest # page, list.mode = "cursor" PROVE ShownDownToCursor'
    BY <1>13
  <2>1. cursor = CursorOf(rest) /\ cursor \in rest
    BY <1>8 DEF cursor
  <2>2. cursor # Nothing
    BY <1>3, <1>4, <1>5, <1>10, <2>1
  <2>3. /\ \A r \in list.shown \cup page : At(cursor) <= At(r)
        /\ \A r \in list.steady : At(cursor) <= At(r) => r \in list.shown \cup page
    BY <1>8, <2>1
  <2>4. list'.cursor # Nothing /\ At(list.cursor)' = At(cursor)
    BY <1>1, <1>13, <2>2 DEF At, TableOf
  <2> QED
    BY <1>9, <1>13, <2>3, <2>4 DEF ShownDownToCursor
<1> QED
  BY <1>11, <1>14, <1>15, <1>16, <1>17, <1>18, <1>19 DEF PageInv, RowsThere

-----------------------------------------------------------------------------
LEMMA PageInit == Init => PageInv
<1> SUFFICES ASSUME Init PROVE PageInv
  OBVIOUS
<1>1. created = [t \in Tables |-> <<>>] /\ list = Nothing
  BY DEF Init
<1>2. <<>> \in Seq(Rows) /\ Len(<<>>) = 0
  BY EmptySeq
<1>3. ASSUME NEW t \in Tables PROVE Lists1(<<>>, t, status)
  <2>1. \A r \in t : status[r] = "NONE"
    BY TableFacts DEF Init
  <2> QED
    BY <1>2, <2>1 DEF Lists1
<1> QED
  BY <1>1, <1>3 DEF PageInv, CreatedOK

LEMMA PageNext == DeskInv /\ PageInv /\ [Next]_vars => PageInv'
<1> SUFFICES ASSUME DeskInv, PageInv, [Next]_vars PROVE PageInv'
  OBVIOUS
<1>1. ASSUME NEW p \in Projects, NEW shared \in BOOLEAN, Submit(p, shared) PROVE PageInv'
  BY <1>1, WritesKeepPages DEF Submit, Statuses, ProjectStates, Rows
<1>2. ASSUME NEW p \in Projects, NEW shared \in BOOLEAN, Edit(p, shared) PROVE PageInv'
  BY <1>2, EditKeepsPages
<1>3. ASSUME NEW p \in Projects, NEW st \in ProjectStates, Review(p, st) PROVE PageInv'
  <2>1. status[p] # "NONE"
    BY <1>3 DEF Review, PageInv, RowsThere
  <2> QED
    BY <1>3, <2>1, WritesKeepPages DEF Review, Statuses, ProjectStates, Rows
<1>4. ASSUME NEW c \in Certificates, CreateIssued(c) PROVE PageInv'
  BY <1>4, WritesKeepPages DEF CreateIssued, Statuses, CertificateStates, Rows
<1>5. ASSUME NEW c \in Certificates, RevokeIssued(c) PROVE PageInv'
  BY <1>5, WritesKeepPages DEF RevokeIssued, Statuses, CertificateStates, Rows
<1>6. ASSUME NEW rows \in Tables, NEW mode \in {"cursor", "offset"},
             NEW filter \in {Every} \cup StatesOf(rows), OpenList(rows, filter, mode)
      PROVE  PageInv'
  BY <1>6, OpenListPages
<1>7. CASE NextPage
  BY <1>7, NextPageKeeps
<1>8. CASE CloseList
  BY <1>8 DEF CloseList, PageInv, CreatedOK, rowVars
<1>9. CASE UNCHANGED vars
  <2>1. ShownDownToCursor' <=> ShownDownToCursor
    BY <1>9 DEF vars, rowVars, ShownDownToCursor, At
  <2>2. \A S : (\A q \in S : q \in list'.rows /\ status'[q] # "NONE") <=> RowsThere(S)
    BY <1>9 DEF vars, rowVars, RowsThere
  <2> QED
    BY <1>9, <2>1, <2>2 DEF vars, rowVars, PageInv, CreatedOK, RowsThere
<1> QED
  BY <1>1, <1>2, <1>3, <1>4, <1>5, <1>6, <1>7, <1>8, <1>9 DEF Next, ProjectStep, CertificateStep, ListStep

\* A list's rows are there, what it shows is in order of the cursor, and what was
\* steady still matches.
THEOREM PagesInOrder == Spec => []PageInv
<1>1. Spec => [](DeskInv /\ PageInv)
  BY DeskInit, PageInit, DeskNext, PageNext, PTL DEF Spec
<1> QED
  BY <1>1, PTL

\* An administrator who has paged to the end of a list has seen every row that
\* matched all along, and none twice, unless a row the next page was counted from
\* had left or joined (findAllAdmin of project.repository.js and certificate.repository.js).
THEOREM NoRowIsMissed == Spec => []PagingMissesNothing
<1>1. PageInv => PagingMissesNothing
  BY DEF PageInv, PagingMissesNothing
<1> QED
  BY <1>1, PagesInOrder, PTL
=============================================================================
