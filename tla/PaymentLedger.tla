---------------------------- MODULE PaymentLedger ----------------------------
(***************************************************************************)
(* The payments rows behind IntakeEnrollment, with their amounts, the      *)
(* price of a course that an administrator may change at any time, and     *)
(* the reports read off them: the money of the administrators' dashboard,  *)
(* the analytics of a course or an intake, and the months of a trend.      *)
(*                                                                         *)
(* Amounts are whole cents.  IntakeEnrollment counts what has been paid in *)
(* halves of the price; each of its payment actions is here joined with    *)
(* the row it writes.  A report is a set of queries that no transaction    *)
(* holds together, so anything may be committed between two of them.       *)
(***************************************************************************)
EXTENDS IntakeEnrollment, Integers, Sequences, FiniteSetsExt, SequencesExt

CONSTANTS
    Prices,     \* what an administrator may enter, in cents
    Discount,   \* per course: the reward for paying at once (immutable)
    Days,       \* the days on which a trend is asked for, as <<year, month, day>>
    Lookbacks,  \* the numbers of months it may go back
    Nothing     \* no report under way

ASSUME PriceAssumption ==
    /\ IsFiniteSet(Intakes)
    /\ Prices \subseteq Nat
    /\ Discount \in [Courses -> Nat]
    /\ Days \subseteq Nat \X (1..12) \X (1..31)
    /\ Lookbacks \subseteq 1..24

VARIABLES
    price,   \* per course
    rows,    \* per seat: its payments rows, oldest first
    span,    \* per seat: the prices its course has had while it was being paid
    report   \* the report being put together

ledgerVars == <<vars, price, rows, span, report>>

Row(kind, amount) == <<[type |-> kind, amount |-> amount]>>

\* The rows of a type, by their places.
OfType(ps, kind) == {n \in DOMAIN ps : ps[n].type = kind}

Total(ps) == SumFunction([n \in DOMAIN ps |-> ps[n].amount])
TotalOf(ps, kind) == SumFunction([n \in OfType(ps, kind) |-> ps[n].amount])

LedgerInit ==
    /\ Init
    /\ price \in [Courses -> Prices]
    /\ \A c \in Courses : price[c] = 0 <=> c \in FreeCourses
    /\ rows = [e \in Seats |-> <<>>]
    /\ span = [e \in Seats |-> {}]
    /\ report = Nothing

-----------------------------------------------------------------------------
(* Money.                                                                    *)

\* A write between the queries of a report.
Torn == report' = IF report = Nothing THEN Nothing ELSE [report EXCEPT !.torn = @ \/ report.read \cap {"revenue", "payable"} # {}]

\* Mutant: half a cent is dropped.
HalfDown(p) == p \div 2

\* numeric(12, 2) rounds half a cent up.
Half(p) == (p + 1) \div 2

Record(e, row) ==
    /\ rows' = [rows EXCEPT ![e] = @ \o row]
    /\ span' = [span EXCEPT ![e] = @ \cup {price[CourseOf[e[1]]]}]
    /\ Torn
    /\ UNCHANGED price

\* A price that the discount eats up cannot be paid at once.
PayInFull(i, s) ==
    /\ price[CourseOf[i]] > Discount[CourseOf[i]]
    /\ CreatePaid(i, s, "COMPLETED")
    /\ Record(<<i, s>>, Row("FULL", price[CourseOf[i]] - Discount[CourseOf[i]]))

PayHalf(i, s) ==
    /\ CreatePaid(i, s, "PARTIAL")
    /\ Record(<<i, s>>, Row("PARTIAL", Half(price[CourseOf[i]])))

TopUp(i, s) ==
    /\ CompletePayment(i, s)
    /\ Record(<<i, s>>, Row("TOP_UP", Half(price[CourseOf[i]])))

\* A paid course keeps a price above zero.
SetPrice(c, p) ==
    /\ c \notin FreeCourses
    /\ p > 0
    /\ price' = [price EXCEPT ![c] = p]
    /\ span' = [e \in Seats |->
          IF CourseOf[e[1]] = c /\ payment[e] = "PARTIAL" THEN span[e] \cup {p} ELSE span[e]]
    /\ Torn
    /\ UNCHANGED <<vars, rows>>

\* Everything that moves intakes and seats without moving money.
SeatMovesOn(i, s) ==
    /\ \/ EnrollFree(i, s)
       \/ \E next \in EnrollmentStates : UpdateEnrollment(i, s, next)
       \/ CreateIssued(i, s)
       \/ RevokeIssued(i, s)
    /\ Torn
    /\ UNCHANGED <<price, rows, span>>

IntakeMovesOn(i) ==
    /\ IntakeStep(i)
    /\ Torn
    /\ UNCHANGED <<price, rows, span>>

CatalogMoves ==
    /\ \E next \in [Courses -> CatalogStates] : MoveCatalog(next)
    /\ Torn
    /\ UNCHANGED <<price, rows, span>>

-----------------------------------------------------------------------------
(* The dashboard's revenue, read in two queries.                             *)

Payers == {e \in Seats : payment[e] \in {"PARTIAL", "COMPLETED"}}

\* Mutant: cancelled enrollments are still expected to pay.
PayableAll == Payers

Payable == {e \in Payers : enrolled[e] # "CANCELLED"}

Below0(n) == IF n < 0 THEN 0 ELSE n

\* "Everyone paid in full", at today's prices.
FullAmount(e) ==
    LET c == CourseOf[e[1]]
    IN  Below0(IF payment[e] = "COMPLETED" THEN price[c] - Discount[c] ELSE price[c])

Revenue == SumFunction([e \in Seats |-> Total(rows[e])])
Potential == SumFunction([e \in Payable |-> FullAmount(e)])

\* What the learners who pay in halves still have to pay.
Staying == {e \in Payers : enrolled[e] # "CANCELLED"}
Owed == SumFunction([e \in {f \in Staying : payment[f] = "PARTIAL"} |-> Half(price[CourseOf[e[1]]])])

OpenReport ==
    /\ report = Nothing
    /\ report' = [read |-> {}, torn |-> FALSE, available |-> 0, potential |-> 0]
    /\ UNCHANGED <<vars, price, rows, span>>

ReadRevenue ==
    /\ report # Nothing
    /\ report.read \in {{}, {"payable"}}
    /\ report' = [report EXCEPT !.read = @ \cup {"revenue"}, !.available = Revenue]
    /\ UNCHANGED <<vars, price, rows, span>>

ReadPayable ==
    /\ report # Nothing
    /\ report.read \in {{}, {"revenue"}}
    /\ report' = [report EXCEPT !.read = @ \cup {"payable"}, !.potential = Potential]
    /\ UNCHANGED <<vars, price, rows, span>>

\* The answer is sent.
CloseReport ==
    /\ report # Nothing
    /\ report.read \in {{"revenue", "payable"}, {"trend"}}
    /\ report' = Nothing
    /\ UNCHANGED <<vars, price, rows, span>>

RevenueToCome == Below0(report.potential - report.available)

-----------------------------------------------------------------------------
(* The months of a trend: a month is counted from year 0.                    *)

MonthOf(d) == 12 * d[1] + d[2] - 1

Leap(y) == y % 4 = 0 /\ (y % 100 # 0 \/ y % 400 = 0)
Length(n) ==
    CASE n % 12 \in {3, 5, 8, 10} -> 30
      [] n % 12 = 1 -> IF Leap(n \div 12) THEN 29 ELSE 28
      [] OTHER -> 31

\* setUTCMonth keeps the day of the month: one that the month does not have is
\* a day of the month after it.
MonthsBack(d, k) == MonthOf(d) - k + IF d[3] > Length(MonthOf(d) - k) THEN 1 ELSE 0

\* resolveTrendWindow: the first month of a trend asked for on day d.
FirstMonth(d, months) == MonthsBack(d, months - 1)

\* Mutant: the bars count back from the day, not from the first of its month.
BarsFromDay(d, months) ==
    LET count == Max({1, MonthOf(d) - FirstMonth(d, months) + 1})
    IN  [n \in 1..count |-> MonthsBack(d, count - n)]

\* seedMonthBuckets: one bar for each month from the first to today's.
Bars(d, months) ==
    LET count == Max({1, MonthOf(d) - FirstMonth(d, months) + 1})
    IN  [n \in 1..count |-> MonthOf(d) - (count - n)]

AskTrend(d, months) ==
    /\ report = Nothing
    /\ report' = [read |-> {"trend"}, torn |-> FALSE, today |-> d, months |-> months, bars |-> Bars(d, months)]
    /\ UNCHANGED <<vars, price, rows, span>>

-----------------------------------------------------------------------------
ReportStep ==
    \/ OpenReport
    \/ ReadRevenue
    \/ ReadPayable
    \/ \E d \in Days, months \in Lookbacks : AskTrend(d, months)
    \/ CloseReport

LedgerNext ==
    \/ \E i \in Intakes, s \in Students : PayInFull(i, s) \/ PayHalf(i, s) \/ TopUp(i, s) \/ SeatMovesOn(i, s)
    \/ \E i \in Intakes : IntakeMovesOn(i)
    \/ \E c \in Courses, p \in Prices : SetPrice(c, p)
    \/ CatalogMoves
    \/ ReportStep

LedgerSpec == LedgerInit /\ [][LedgerNext]_ledgerVars

-----------------------------------------------------------------------------
(* Properties.                                                               *)

\* Whoever has paid everything has paid a price the course really had while the
\* payment was open: for two halves no less than the lowest and, but for a cent,
\* no more than the highest; at once, the price less the discount
\* (buildInitialPaymentEntry, completePayment, with price edits in between).
PaidWithinPrices ==
    \A e \in Seats : payment[e] = "COMPLETED" =>
        LET atOnce == OfType(rows[e], "FULL") # {}
            whole == Total(rows[e]) + IF atOnce THEN Discount[CourseOf[e[1]]] ELSE 0
        IN  whole \in Min(span[e])..Max(span[e]) + 1

\* A report whose two queries saw the same rows, at prices that have not moved
\* since they were paid.
Sound ==
    /\ report # Nothing
    /\ report.read = {"revenue", "payable"}
    /\ ~report.torn
    /\ \A e \in Payers : span[e] = {price[CourseOf[e[1]]]}

\* The revenue to come is never more than what learners still owe, and (to the
\* odd cents) never less unless a payer has cancelled or has paid in two halves.
ReportBalances ==
    Sound =>
        /\ RevenueToCome <= Owed
        /\ Payers = Staying /\ (\A e \in Payers : OfType(rows[e], "TOP_UP") = {})
              => RevenueToCome + Cardinality(Payers) >= Owed

\* dashboard.repository.js:377-381: a COMPLETED enrollment "already had the one-shot
\* discount applied", so that the potential revenue less what was collected is
\* what is still to come when nobody has cancelled.
RevenueToComeIsOwed == Sound /\ Payers = Staying => RevenueToCome + Cardinality(Payers) >= Owed

-----------------------------------------------------------------------------
(* The analytics of a set of seats: those of a course or of an intake.       *)

Count(S, st) == Cardinality({e \in S : enrolled[e] = st})
Number(S, kind) == SumFunction([e \in S |-> Cardinality(OfType(rows[e], kind))])
Amount(S, kind) == SumFunction([e \in S |-> TotalOf(rows[e], kind)])

Analytics(S) ==
    [active |-> Count(S, "ACTIVE"), completed |-> Count(S, "COMPLETED"), cancelled |-> Count(S, "CANCELLED"),
     full |-> Number(S, "FULL"), partial |-> Number(S, "PARTIAL"), topUp |-> Number(S, "TOP_UP"),
     byType |-> Amount(S, "FULL") + Amount(S, "PARTIAL") + Amount(S, "TOP_UP"),
     revenue |-> SumFunction([e \in S |-> Total(rows[e])]),
     certificates |-> SumFunction([e \in S |-> issued[e]]),
     eligible |-> Cardinality({e \in S : Certified(e[1]) /\ enrolled[e] = "COMPLETED"})]

\* findAdminSummaries: the active learners whose second half is open.
PaymentAttention(S) == Cardinality({e \in S : enrolled[e] = "ACTIVE" /\ payment[e] = "PARTIAL"})

Rollups ==
    {{e \in Seats : CourseOf[e[1]] = c} : c \in Courses \ FreeCourses}
    \cup {{i} \X Students : i \in {j \in Intakes : ~Free(j)}}

\* The figures shown of a course, an intake or a service are consistent: every
\* enrollment has one first payment, no second half without a first, no
\* certificate beyond those who may have one, and no open half escapes the
\* administrators' attention but for learners who have cancelled.
RollupsAgree ==
    \A S \in Rollups :
        LET a == Analytics(S)
        IN  /\ a.byType = a.revenue
            /\ a.full + a.partial = a.active + a.completed + a.cancelled
            /\ a.topUp <= a.partial
            /\ a.certificates <= a.eligible
            /\ a.partial - a.topUp
                  = PaymentAttention(S)
                    + Cardinality({e \in S : enrolled[e] = "CANCELLED" /\ payment[e] = "PARTIAL"})

\* A trend has one bar for each month it was asked for, ending with today's and
\* none twice, except on a day that the first of these months does not have:
\* then that month is missing (dashboard.repository.js:176-178).
TrendCoversItsMonths ==
    report # Nothing /\ report.read = {"trend"} =>
        LET today == MonthOf(report.today)
            asked == {today - k : k \in 0..report.months - 1}
            shown == ToSet(report.bars)
        IN  /\ IsInjective(report.bars)
            /\ report.bars[Len(report.bars)] = today
            /\ \/ shown = asked
               \/ report.today[3] > Length(Min(asked)) /\ shown = asked \ {Min(asked)}
=============================================================================
