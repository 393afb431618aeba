----------------------------- MODULE ReviewDesk ------------------------------
(***************************************************************************)
(* Student projects and their review, and the lists administrators page    *)
(* through while the rows of those lists move: the projects and the        *)
(* certificates, by cursor or by offset, with or without a status filter.  *)
(*                                                                         *)
(* A submission, an edit, a review, an issue and a revocation are one      *)
(* transaction each, under the lock of the project or the enrollment.      *)
(* What interleaves is the administrator, who decides on a page fetched    *)
(* earlier, and who fetches a list one page at a time.  The pages of the   *)
(* public showcase and of a learner's own history are fetched the same way *)
(* as those of the projects.                                               *)
(***************************************************************************)
EXTENDS Naturals, Sequences, FiniteSets, SequencesExt

CONSTANTS
    Projects, Certificates,
    Limit,       \* rows on a page
    Every,       \* no status filter
    Nothing      \* no cursor, no list

ASSUME DeskAssumption ==
    /\ Projects \cap Certificates = {}
    /\ Limit \in Nat \ {0}
    /\ Every \notin {"PENDING", "APPROVED", "REJECTED", "ISSUED", "REVOKED"}
    /\ Nothing \notin Projects \cup Certificates \cup Nat

VARIABLES
    status,     \* per row: its status, "NONE" while there is no row
    created,    \* per table: its rows in the order of createdAt
    public,     \* projects with is_public
    reviewed,   \* projects that have not been edited since their last review
    list        \* the list being paged through

rowVars == <<status, created, public, reviewed>>
vars == <<rowVars, list>>

Rows == Projects \cup Certificates
Tables == {Projects, Certificates}
TableOf(r) == IF r \in Projects THEN Projects ELSE Certificates
ProjectStates == {"PENDING", "APPROVED", "REJECTED"}
CertificateStates == {"ISSUED", "REVOKED"}
StatesOf(rows) == IF rows = Projects THEN ProjectStates ELSE CertificateStates

\* The rows of a table that a list shows, given the statuses st.
Matching(rows, filter, st) == {r \in rows : st[r] # "NONE" /\ filter \in {Every, st[r]}}

At(r) == CHOOSE n \in DOMAIN created[TableOf(r)] : created[TableOf(r)][n] = r
Latest(S, n) == {r \in S : Cardinality({q \in S : At(q) > At(r)}) < n}
Oldest(S) == CHOOSE r \in S : \A q \in S : At(r) <= At(q)

\* shown and repeated are what the administrator has seen, fresh the rows not edited
\* since, steady the rows that matched all the time, moved whether rows already
\* passed have left or joined.
Lists ==
    [rows : Tables, filter : {Every} \cup ProjectStates \cup CertificateStates,
     mode : {"cursor", "offset"}, cursor : Rows \cup {Nothing}, served : Nat, done : BOOLEAN,
     shown : SUBSET Rows, fresh : SUBSET Rows, steady : SUBSET Rows, repeated : BOOLEAN, moved : BOOLEAN]

DeskTypeOK ==
    /\ status \in [Rows -> {"NONE"} \cup ProjectStates \cup CertificateStates]
    /\ \A t \in Tables :
          /\ ToSet(created[t]) = {r \in t : status[r] # "NONE"}
          /\ IsInjective(created[t])
    /\ public \subseteq Projects
    /\ reviewed \subseteq Projects
    /\ list \in Lists \cup {Nothing}
    /\ list # Nothing => list.cursor \in ToSet(created[list.rows]) \cup {Nothing}

Init ==
    /\ status = [r \in Rows |-> "NONE"]
    /\ created = [t \in Tables |-> <<>>]
    /\ public = {}
    /\ reviewed = {}
    /\ list = Nothing

-----------------------------------------------------------------------------
(* The rows.                                                                 *)

\* The row goes to st, and whoever pages through its table may miss it.
Move(r, st) ==
    /\ status' = [status EXCEPT ![r] = st]
    /\ list' = IF list = Nothing THEN Nothing
               ELSE [list EXCEPT !.steady = @ \cap Matching(list.rows, list.filter, status')]

Insert(r, st) == status[r] = "NONE" /\ created' = [created EXCEPT ![TableOf(r)] = Append(@, r)] /\ Move(r, st)

Shared(p, shared) == IF shared THEN public \cup {p} ELSE public \ {p}

\* createForEnrollment: whether the enrollment allows it is decided by the rules
\* of IntakeEnrollment and not repeated here.
Submit(p, shared) ==
    /\ Insert(p, "PENDING")
    /\ public' = Shared(p, shared)
    /\ UNCHANGED reviewed

\* Mutant: the status the page showed is not read again under the lock.
MayEditSubmitted(p) == status[p] # "NONE"

MayEdit(p) == status[p] = "PENDING"

\* updatePendingOwned: what is edited includes whether the project is public.
Edit(p, shared) ==
    /\ MayEdit(p)
    /\ public' = Shared(p, shared)
    /\ reviewed' = reviewed \ {p}
    /\ list' = IF list = Nothing THEN Nothing ELSE [list EXCEPT !.fresh = @ \ {p}]
    /\ UNCHANGED <<status, created>>

\* review, of a project on a page fetched earlier: any status, PENDING included,
\* whatever the project stands at by now.
Review(p, st) ==
    /\ list # Nothing
    /\ p \in list.shown
    /\ Move(p, st)
    /\ reviewed' = reviewed \cup {p}
    /\ UNCHANGED <<created, public>>

CreateIssued(c) ==
    /\ Insert(c, "ISSUED")
    /\ UNCHANGED <<public, reviewed>>

RevokeIssued(c) ==
    /\ status[c] = "ISSUED"
    /\ Move(c, "REVOKED")
    /\ UNCHANGED <<created, public, reviewed>>

-----------------------------------------------------------------------------
(* Paging, newest first.                                                     *)

OpenList(rows, filter, mode) ==
    /\ list' = [rows |-> rows, filter |-> filter, mode |-> mode, cursor |-> Nothing, served |-> 0, done |-> FALSE,
                shown |-> {}, fresh |-> {}, steady |-> Matching(rows, filter, status),
                repeated |-> FALSE, moved |-> FALSE]
    /\ UNCHANGED rowVars

\* Prisma's row cursor: the rows from the cursor's place on, less the first,
\* whether or not that one is the cursor's own row.
AfterRow(S, r) == LET T == {q \in S : At(q) <= At(r)} IN T \ Latest(T, 1)

\* The keyset cursor: the rows strictly older than the one it describes.
AfterKey(S, r) == {q \in S : At(q) < At(r)}

\* Offset paging: as many rows are skipped as were served.
AfterOffset(S, n) == S \ Latest(S, n)

\* What is left to show.
Rest(S) ==
    CASE list.mode = "offset" -> AfterOffset(S, list.served)
      [] list.mode = "cursor" /\ list.cursor = Nothing -> S
      [] list.mode = "cursor" /\ list.cursor # Nothing ->
            IF list.rows = Projects THEN AfterRow(S, list.cursor) ELSE AfterKey(S, list.cursor)

\* The rows already passed are not the rows that the next page starts after.
Slips(S) ==
    CASE list.mode = "offset" -> Latest(S, list.served) # list.shown
      [] list.mode = "cursor" -> list.rows = Projects /\ list.cursor \notin S \cup {Nothing}

\* Mutant: the cursor is the extra row that was read to see whether there is more.
CursorOfExtra(rest) == Oldest(Latest(rest, Limit + 1))

CursorOf(rest) == Oldest(Latest(rest, Limit))

NextPage ==
    /\ list # Nothing
    /\ ~list.done
    /\ LET S == Matching(list.rows, list.filter, status)
           rest == Rest(S)
           served == Latest(rest, Limit)
           more == rest # served
       IN  list' = [list EXCEPT
              !.cursor = IF more /\ list.mode = "cursor" THEN CursorOf(rest) ELSE Nothing,
              !.served = @ + Cardinality(served),
              !.done = ~more,
              !.shown = @ \cup served,
              !.fresh = @ \cup served,
              !.repeated = @ \/ served \cap list.shown # {},
              !.moved = @ \/ Slips(S)]
    /\ UNCHANGED rowVars

CloseList ==
    /\ list # Nothing
    /\ list' = Nothing
    /\ UNCHANGED rowVars

-----------------------------------------------------------------------------
ProjectStep(p) ==
    \/ \E shared \in BOOLEAN : Submit(p, shared) \/ Edit(p, shared)
    \/ \E st \in ProjectStates : Review(p, st)

CertificateStep(c) == CreateIssued(c) \/ RevokeIssued(c)

ListStep ==
    \/ \E rows \in Tables, mode \in {"cursor", "offset"} :
          \E filter \in {Every} \cup StatesOf(rows) : OpenList(rows, filter, mode)
    \/ NextPage
    \/ CloseList

Next ==
    \/ \E p \in Projects : ProjectStep(p)
    \/ \E c \in Certificates : CertificateStep(c)
    \/ ListStep

Spec == Init /\ [][Next]_vars

-----------------------------------------------------------------------------
(* Properties.                                                               *)

\* An administrator who has paged to the end of a list has seen every row that
\* matched all along, and none twice, although rows were added and moved in and
\* out between the pages.  Always so with the keyset cursor of the certificates;
\* with the row cursor of the projects unless the row it names had left the list,
\* and with offsets unless the rows before the offset had changed.
PagingMissesNothing ==
    list # Nothing /\ ~list.moved =>
        /\ ~list.repeated
        /\ list.done => list.steady \subseteq list.shown

Showcase == {p \in public : status[p] = "APPROVED"}

\* What the public showcase shows is what its approval was recorded for: no edit
\* slips in behind a review (updatePendingOwned, findPublicShowcase).
ShowcaseIsReviewed == Showcase \subseteq reviewed

\* project.service.js:74-75: "Review and student edits serialize on the same project
\* lock. The admin therefore always reviews the content version that is actually
\* published."
ReviewerSawWhatIsPublished ==
    [][Showcase' \ Showcase \subseteq IF list = Nothing THEN {} ELSE list.fresh]_vars
=============================================================================
