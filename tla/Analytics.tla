----------------------------- MODULE Analytics -----------------------------
(***************************************************************************)
(* The dashboards: pkg/controllers/analytics, which read the branches once *)
(* at start and the journals at every request, and draw the same journals  *)
(* several times: by branch, by day, by weekday, smoothed, and by period.  *)
(*                                                                         *)
(* Abstractions.  A page stands for the numbers on it.  A ratio or average *)
(* is kept as the two numbers it divides, before the float and its         *)
(* rounding; terminal income is drawn as cash is, and is left out.  How    *)
(* figures come about is JournalLedger's: here a shift has any, and may     *)
(* have an operation with an amount that cannot be read back.  A journal's  *)
(* date is its day.  Week, Ceiling and PeriodSize stand for 7 days, for     *)
(* 30 000 000 and for 200 journals.                                        *)
(***************************************************************************)
EXTENDS CoinSums, FiniteSetsExt

CONSTANTS
    Branch, BranchName,     \* ids and names of branches
    Day, Week,              \* days that shifts are on; days of a week
    Takings, Ceiling,       \* totals of a shift; the largest that is shown
    Left, Count,            \* cash left of a shift; operations it has
    PeriodSize,             \* the journals of a branch that a comparison reads
    Length                  \* lengths of the ranges that clients ask for

ASSUME AnalyticsAssumption ==
    /\ Day \subseteq Nat /\ Week \in Nat \ {0}
    /\ Takings \subseteq Int /\ Ceiling \in Nat /\ Length \subseteq Int
    /\ Left \subseteq Nat /\ Count \subseteq Nat
    /\ PeriodSize \in Nat \ {0}

VARIABLES
    named,      \* branches with their finance rows: the name, by branch
    branches,   \* what dashboard.go's variable of that name holds
    shift       \* journals, by branch and day

analyticsVars == <<named, branches, shift>>

NoName == "none"
NoShift == [state |-> "none"]
Opened == { b \in Branch : named[b] # NoName }

AnalyticsInit ==
    /\ named = [b \in Branch |-> NoName]
    /\ branches = {}
    /\ shift = [s \in Branch \X Day |-> NoShift]

\* NewFinanceOfBranch: both rows or none; names are unique.
CreateBranch(b, name) ==
    /\ named[b] = NoName
    /\ \A c \in Branch : named[c] # name
    /\ named' = [named EXCEPT ![b] = name]
    /\ UNCHANGED <<branches, shift>>

\* A shift of a branch: its total, the cash left and its operations are columns
\* and rows of their own.  If the amount of an operation does not fit the field it
\* is read into, the operations of the shift cannot be read.
Work(b, d, total, cash, operations, readable) ==
    /\ b \in Opened
    /\ shift[<<b, d>>] = NoShift
    /\ operations = 0 => readable
    /\ shift' = [shift EXCEPT ![<<b, d>>] =
                    [state |-> "there", total |-> total, cash |-> cash,
                     operations |-> operations, readable |-> readable]]
    /\ UNCHANGED <<named, branches>>

\* The process starts again: New loads the branches.
Restart ==
    /\ branches' = Opened
    /\ UNCHANGED <<named, shift>>

AnalyticsNext ==
    \/ \E b \in Branch, name \in BranchName : CreateBranch(b, name)
    \/ \E b \in Branch, d \in Day, total \in Takings, cash \in Left, operations \in Count,
          readable \in BOOLEAN : Work(b, d, total, cash, operations, readable)
    \/ Restart

AnalyticsSpec == AnalyticsInit /\ [][AnalyticsNext]_analyticsVars

-----------------------------------------------------------------------------
(* What a dashboard reads.  Journals are pairs of a branch and a day.      *)

InRange(b) ==
    { s \in {b} \X Day : shift[s] # NoShift /\ shift[s].total \in 0..Ceiling }

\* queryJournals: the n newest of those in range, all of them if n is not
\* positive.  The dates of the range are not looked at.  One journal whose
\* operations cannot be read makes it fail.
Newest(S, n) ==
    { s \in S : n > 0 => Cardinality({ t \in S : t[2] > s[2] }) < n }
queryJournals(b, n) == Newest(InRange(b), n)
CanRead(b, n) == \A s \in queryJournals(b, n) : shift[s].readable

\* The branches of a page: the one asked for, or all that were there when the
\* process started.
Selection == { {b} : b \in Branch } \cup {branches}

\* ServeDashBoardGeneral and ServeDashBoardDays: n days of each branch.  One that
\* cannot be read is left out of the page of all; its own page is an error, without
\* journals.
Fetched(B, n) == UNION { queryJournals(b, n) : b \in { c \in B : CanRead(c, n) } }

\* ServeDashBoardComparison: so many journals of each, whatever the period.
Period(B) == Fetched(B, PeriodSize)

-----------------------------------------------------------------------------
(* What it draws of the journals J.  All that is read is natural, and so a  *)
(* sum is one of coins.                                                    *)

Revenue(J) == CoinSum([s \in J |-> shift[s].total])
Cash(J) == CoinSum([s \in J |-> shift[s].cash])
Operations(J) == CoinSum([s \in J |-> shift[s].operations])

DaysOf(J) == { s[2] : s \in J }
BranchesOf(J) == { s[1] : s \in J }
OnDay(J, d) == { s \in J : s[2] = d }
OfBranch(J, b) == { s \in J : s[1] = b }

Mean(sum, count) == [sum |-> sum, count |-> count]
Ratio(part, whole) == IF whole > 0 THEN Mean(part, whole) ELSE Mean(0, 1)

\* calculateDailyMetrics (mutant: a day keeps one journal, not its list).
DailyOfOne(J) ==
    [d \in DaysOf(J) |->
        LET one == CHOOSE s \in J : s[2] = d
        IN  [revenue |-> Revenue({one}), cash |-> Cash({one}),
             operations |-> Operations({one})]]
calculateDailyMetrics(J) ==
    [d \in DaysOf(J) |->
        LET today == OnDay(J, d)
        IN  [revenue |-> Revenue(today), cash |-> Cash(today),
             operations |-> Operations(today)]]

DailyRevenue(J) ==
    LET daily == calculateDailyMetrics(J)
    IN  [d \in DOMAIN daily |-> daily[d].revenue]

PaymentMethodTrends(J) ==
    LET daily == calculateDailyMetrics(J)
    IN  [d \in DOMAIN daily |-> Ratio(daily[d].cash, daily[d].revenue)]

FinancialKPIs(J) ==
    LET daily == calculateDailyMetrics(J)
    IN  [d \in DOMAIN daily |->
            [transaction |-> Ratio(daily[d].revenue, daily[d].operations),
             operations |-> daily[d].operations]]

\* createMovingAverageChart: n is 3 or 7 days, of those with a shift.
MovingAverage(J, n) ==
    LET daily == calculateDailyMetrics(J)
        last(d) == { e \in DOMAIN daily :
                        e <= d /\ Cardinality({ x \in DOMAIN daily : x > e /\ x <= d }) < n }
    IN  [d \in DOMAIN daily |->
            Mean(CoinSum([e \in last(d) |-> daily[e].revenue]), Cardinality(last(d)))]

\* calculateWeekdayAverages, of the revenue: a weekday without shifts has 0.
WeekdayAverages(J) ==
    LET daily == calculateDailyMetrics(J)
        on(w) == { d \in DOMAIN daily : d % Week = w }
    IN  [w \in 0..(Week - 1) |->
            Mean(CoinSum([d \in on(w) |-> daily[d].revenue]),
                 Max({1, Cardinality(on(w))}))]

\* The growth rate, between the averages of two halves of the journals.  They come
\* newest first: the newest are the first half, and growth is what the older half
\* has more.
Growth(J) ==
    LET mid == Cardinality(J) \div 2
        rest == Cardinality(J) - mid
        firstHalf == Revenue(Newest(J, mid))
        secondHalf == Revenue(J \ Newest(J, mid))
    IN  IF mid > 0 /\ firstHalf > 0
        THEN Mean(secondHalf * mid - firstHalf * rest, firstHalf * rest) ELSE Mean(0, 1)

\* calculateSingleBranchAnalytics, of the journals of one branch: the best day
\* is looked for from 0 up.
BranchAnalytics(J) ==
    [revenue |-> Revenue(J), average |-> Mean(Revenue(J), Cardinality(J)),
     growth |-> Growth(J),
     transactions |-> Operations(J),
     best |-> Max({0} \cup { shift[s].total : s \in J }),
     worst |-> Min({ shift[s].total : s \in J }),
     cash |-> Ratio(Cash(J), Revenue(J))]

\* RenderGeneralDashboard groups them; calculateBranchAnalytics.
calculateBranchAnalytics(J) ==
    [b \in BranchesOf(J) |-> BranchAnalytics(OfBranch(J, b))]

\* createOverviewCards.
Overview(analytics) ==
    [revenue |-> CoinSum([b \in DOMAIN analytics |-> analytics[b].revenue]),
     transactions |-> CoinSum([b \in DOMAIN analytics |-> analytics[b].transactions]),
     active |-> Cardinality(DOMAIN analytics)]

\* createBranchComparison: by revenue, the best first.  sort.Slice leaves branches
\* of the same revenue in any order: the places each may have, from 0.
Ranking(analytics) ==
    [b \in DOMAIN analytics |->
        Cardinality({ c \in DOMAIN analytics : analytics[c].revenue > analytics[b].revenue })
        ..  (Cardinality({ c \in DOMAIN analytics :
                              analytics[c].revenue >= analytics[b].revenue }) - 1)]

GrowthRates(analytics) == [b \in DOMAIN analytics |-> analytics[b].growth]

\* createBranchDetailedAnalytics: a section's figures, computed again.
Detail(J) ==
    LET analytics == BranchAnalytics(J)
    IN  [revenue |-> analytics.revenue, average |-> analytics.average,
         cash |-> analytics.cash, best |-> analytics.best]

\* RenderGeneralDashboard: the cards, the comparison with the growth rates, and a
\* section for each branch.
GeneralPage(J) ==
    LET analytics == calculateBranchAnalytics(J)
    IN  [cards |-> Overview(analytics), ranking |-> Ranking(analytics),
         compared |-> analytics, growth |-> GrowthRates(analytics),
         branch |-> [b \in BranchesOf(J) |-> Detail(OfBranch(J, b))]]

\* createGlobalAnalytics.
GlobalAnalytics(J) ==
    [revenue |-> DailyRevenue(J), methods |-> PaymentMethodTrends(J),
     average |-> [n \in {3, Week} |-> MovingAverage(J, n)],
     kpis |-> FinancialKPIs(J)]

\* RenderDaysDashboard.
DaysPage(J) == [charts |-> GlobalAnalytics(J), weekdays |-> WeekdayAverages(J)]

\* RenderComparisonDashboard: the line and the bar of one period.
ComparisonPage(J) ==
    LET daily == calculateDailyMetrics(J)
    IN  [line |-> daily,
         total |-> CoinSum([d \in DOMAIN daily |-> daily[d].revenue])]

-----------------------------------------------------------------------------

NeverFell(J) == \A s, t \in J : s[2] < t[2] => shift[s].total <= shift[t].total
NeverRose(J) == \A s, t \in J : s[2] < t[2] => shift[s].total >= shift[t].total

\* The days of J come to what J does, on every chart that splits it by day.
DaysAddUp(J) ==
    LET page == DaysPage(J)
        days == DaysOf(J)
        whole == Revenue(J)
    IN  /\ CoinSum(page.charts.revenue) = whole
        /\ CoinSum([w \in DOMAIN page.weekdays |-> page.weekdays[w].sum]) = whole
        /\ \A n \in {3, Week} : Cardinality(days) <= n =>
              page.charts.average[n][Max(days)] = Mean(whole, Cardinality(days))
        /\ CoinSum([d \in days |-> page.charts.kpis[d].operations]) = Operations(J)

\* The branches of J come to what J does; the ranking leaves no place empty, and
\* the section of a branch that is placed before another's shows no less revenue;
\* no average is out of the range it is an average of; and growth, which is measured
\* backwards, is not above zero for a branch whose takings never fell from a shift
\* to a later one, and not below for one whose takings never rose.
BranchesAddUp(J) ==
    LET page == GeneralPage(J)
    IN  /\ page.cards.revenue = Revenue(J)
        /\ page.cards.transactions = Operations(J)
        /\ UNION { page.ranking[b] : b \in BranchesOf(J) } = 0..(page.cards.active - 1)
        /\ \A b, c \in BranchesOf(J) : \A i \in page.ranking[b], k \in page.ranking[c] :
              i < k => page.branch[b].revenue >= page.branch[c].revenue
        /\ \A b \in BranchesOf(J) :
              LET mean == page.branch[b].average IN
              /\ page.compared[b].worst * mean.count <= mean.sum
              /\ mean.sum <= page.branch[b].best * mean.count
        /\ \A b \in BranchesOf(J) :
              /\ NeverFell(OfBranch(J, b)) => page.growth[b].sum <= 0
              /\ NeverRose(OfBranch(J, b)) => page.growth[b].sum >= 0

\* All cash is that of days, and of branches, that earned something.
CashIsEarned(J) ==
    /\ \A d \in DaysOf(J) : Revenue(OnDay(J, d)) = 0 => Cash(OnDay(J, d)) = 0
    /\ \A b \in BranchesOf(J) : Revenue(OfBranch(J, b)) = 0 => Cash(OfBranch(J, b)) = 0

\* Whatever shifts there are, of however many branches on however many days, and
\* however many days a client asks for, the pages tell one story: what is drawn
\* by branch, by day, by weekday and smoothed comes to the same journals; a
\* branch's own page says of it what the page of all does; the share of cash is
\* the same by day and by branch, unless a day or a branch has cash and earned
\* nothing; the comparison shows no less than a page that reads no more, unless one
\* of its branches cannot be read; and the last shift of a branch is missing only
\* where that branch cannot be read.
DashboardsAgree ==
    \A n \in Length, B \in Selection :
        LET J == Fetched(B, n) IN
        /\ \A b \in B :
              InRange(b) # {} /\ CanRead(b, n) => <<b, Max(DaysOf(InRange(b)))>> \in J
        /\ J # {} =>
              /\ DaysAddUp(J)
              /\ BranchesAddUp(J)
              /\ \A b \in B \cap BranchesOf(J) :
                    Detail(OfBranch(J, b)) = GeneralPage(Fetched({b}, n)).branch[b]
              /\ CashIsEarned(J) =>
                    CoinSum([d \in DaysOf(J) |-> DaysPage(J).charts.methods[d].sum])
                      = CoinSum([b \in BranchesOf(J) |-> GeneralPage(J).branch[b].cash.sum])
              /\ n \in 1..PeriodSize /\ (\A b \in B : CanRead(b, PeriodSize)) =>
                    ComparisonPage(Period(B)).total >= Revenue(J)
=============================================================================
