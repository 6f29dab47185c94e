------------------------------ MODULE Reviews ------------------------------
(***************************************************************************)
(* Reviews of products and the figures kept beside them: a product's       *)
(* rating and number of reviews, a review's helpful votes                  *)
(* (pkg/repository/store/review, pkg/controllers/store/reviews).           *)
(*                                                                         *)
(* Every statement commits by itself, apart from a vote, which is one      *)
(* transaction.  After the statement that changes a review the rating is   *)
(* read by a second and written by a third, "best-effort": what fails, or  *)
(* is overtaken, between them is not noticed.                              *)
(*                                                                         *)
(* Abstractions.  A rating is the sum and the number it is the mean of.    *)
(* Names, titles, texts and pages are left out.                            *)
(***************************************************************************)
EXTENDS Handlers, CoinSums

CONSTANTS
    Article, Shopper,   \* products and customers of the store
    Review,             \* ids of reviews; none is used twice
    Stars               \* the ratings that clients send

ASSUME ReviewsAssumption == Stars \subseteq Int

VARIABLES
    article,    \* products: are they there, with rating and review_count
    review,     \* reviews, with helpful_votes
    vote,       \* review_votes, by review and voter
    pen,        \* requests in flight
    outdated    \* history: products whose figures were written from a count
                \* that no longer held, or were not written at all

reviewVars == <<article, review, vote, pen, outdated>>

NoReview == [state |-> "none"]
GoneReview == [state |-> "gone"]
Posted(v) == review[v].state = "there"
ReviewsOf(a) == { v \in Review : Posted(v) /\ review[v].article = a }

\* Those who voted for a review, or against it.
Voters(v, delta) == { c \in Shopper : vote[<<v, c>>] = delta }

\* validRating.
ValidRating(n) == n \in 1..5

\* The sum and number of a product's reviews.
Tally(a) == [sum |-> CoinSum([v \in ReviewsOf(a) |-> review[v].rating]),
             count |-> Cardinality(ReviewsOf(a))]

ReviewsInit ==
    /\ article = [a \in Article |-> [there |-> TRUE, sum |-> 0, count |-> 0]]
    /\ review = [v \in Review |-> NoReview]
    /\ vote = [vc \in Review \X Shopper |-> 0]
    /\ pen = [r \in Request |-> Idle]
    /\ outdated = {}

\* r goes on to recalculate the rating of a.
ToCount(r, a) == pen' = [pen EXCEPT ![r] = [stage |-> "counting", article |-> a]]

\* Reviews V go, their votes with them.
RemoveReviews(V) ==
    /\ review' = [v \in Review |-> IF v \in V THEN GoneReview ELSE review[v]]
    /\ vote' = [vc \in DOMAIN vote |-> IF vc[1] \in V THEN 0 ELSE vote[vc]]

\* One review for each product and customer.
CreateReview(r, v, a, c, rating) ==
    /\ pen[r] = Idle /\ review[v] = NoReview
    /\ ValidRating(rating)
    /\ article[a].there
    /\ \A u \in ReviewsOf(a) : review[u].author # c
    /\ review' = [review EXCEPT ![v] = [state |-> "there", article |-> a, author |-> c,
                                        rating |-> rating, helpful |-> 0]]
    /\ ToCount(r, a)
    /\ UNCHANGED <<article, vote, outdated>>

\* The row, and then a read of it, without which the rating stays.
UpdateReview(r, v, rating) ==
    /\ pen[r] = Idle /\ Posted(v)
    /\ ValidRating(rating)
    /\ review' = [review EXCEPT ![v].rating = rating]
    /\ pen' = [pen EXCEPT ![r] = [stage |-> "edited", review |-> v,
                                  article |-> review[v].article]]
    /\ UNCHANGED <<article, vote, outdated>>

RereadReview(r) ==
    /\ pen[r].stage = "edited"
    /\ IF Posted(pen[r].review) THEN ToCount(r, pen[r].article)
       ELSE pen' = Answered(pen, r)
    /\ UNCHANGED <<article, review, vote, outdated>>

\* A read for the product, and the deletion, of nothing if there is nothing.
FindReview(r, v) ==
    /\ pen[r] = Idle /\ Posted(v)
    /\ pen' = [pen EXCEPT ![r] = [stage |-> "removing", review |-> v,
                                  article |-> review[v].article]]
    /\ UNCHANGED <<article, review, vote, outdated>>

\* Mutant: a rating is only recalculated when one comes in.
DeleteUncounted(r) ==
    /\ pen[r].stage = "removing"
    /\ RemoveReviews({pen[r].review} \cap { v \in Review : Posted(v) })
    /\ pen' = Answered(pen, r)
    /\ UNCHANGED <<article, outdated>>
DeleteReview(r) ==
    /\ pen[r].stage = "removing"
    /\ RemoveReviews({pen[r].review} \cap { v \in Review : Posted(v) })
    /\ ToCount(r, pen[r].article)
    /\ UNCHANGED <<article, outdated>>

\* recalcProduct.
CountReviews(r) ==
    /\ pen[r].stage = "counting"
    /\ pen' = [pen EXCEPT ![r] = [stage |-> "counted", article |-> pen[r].article,
                                  tally |-> Tally(pen[r].article)]]
    /\ UNCHANGED <<article, review, vote, outdated>>

WriteRating(r) ==
    LET a == pen[r].article tally == pen[r].tally IN
    /\ pen[r].stage = "counted"
    /\ article' = IF article[a].there
                  THEN [article EXCEPT ![a].sum = tally.sum, ![a].count = tally.count]
                  ELSE article
    /\ outdated' = IF tally = Tally(a) THEN outdated \ {a} ELSE outdated \cup {a}
    /\ pen' = Answered(pen, r)
    /\ UNCHANGED <<review, vote>>

\* The review must be there; then a vote and its count, or neither.
FindVoted(r, v, c, delta) ==
    /\ pen[r] = Idle /\ Posted(v)
    /\ pen' = [pen EXCEPT ![r] = [stage |-> "voting", review |-> v, voter |-> c,
                                  delta |-> delta, article |-> review[v].article]]
    /\ UNCHANGED <<article, review, vote, outdated>>

Vote(r) ==
    LET v == pen[r].review c == pen[r].voter IN
    /\ pen[r].stage = "voting"
    /\ Posted(v) /\ vote[<<v, c>>] = 0
    /\ vote' = [vote EXCEPT ![<<v, c>>] = pen[r].delta]
    /\ review' = [review EXCEPT ![v].helpful = @ + pen[r].delta]
    /\ pen' = Answered(pen, r)
    /\ UNCHANGED <<article, outdated>>

\* ProductsRepository.Delete: the reviews go with the product.
DeleteArticle(a) ==
    /\ article[a].there
    /\ article' = [article EXCEPT ![a].there = FALSE]
    /\ RemoveReviews(ReviewsOf(a))
    /\ UNCHANGED <<pen, outdated>>

\* A refused or failed statement, a stop.
DropPen(r) ==
    /\ pen[r] # Idle
    /\ pen' = Answered(pen, r)
    /\ outdated' = IF pen[r].stage \in {"edited", "counting", "counted"}
                   THEN outdated \cup {pen[r].article} ELSE outdated
    /\ UNCHANGED <<article, review, vote>>

ReviewsNext ==
    \/ \E r \in Request, v \in Review, n \in Stars :
          \/ \E a \in Article, c \in Shopper : CreateReview(r, v, a, c, n)
          \/ UpdateReview(r, v, n)
    \/ \E r \in Request, v \in Review :
          \/ FindReview(r, v)
          \/ \E c \in Shopper, delta \in {1, -1} : FindVoted(r, v, c, delta)
    \/ \E r \in Request :
          \/ RereadReview(r) \/ DeleteReview(r) \/ CountReviews(r)
          \/ WriteRating(r) \/ Vote(r) \/ DropPen(r)
    \/ \E a \in Article : DeleteArticle(a)

ReviewsSpec == ReviewsInit /\ [][ReviewsNext]_reviewVars

-----------------------------------------------------------------------------

\* Whatever order reviews are written, changed and removed in, a product that no
\* request is working on shows the rating and number of its reviews, if the last
\* recalculation was not overtaken (the next that is not repairs it); and a
\* review counts each voter once.
FiguresAreTheReviews ==
    /\ \A a \in Article \ outdated :
          \/ \E r \in Request : pen[r] # Idle /\ pen[r].article = a
          \/ ~ article[a].there
          \/ Tally(a) = [sum |-> article[a].sum, count |-> article[a].count]
    /\ \A v \in Review :
          Posted(v) => review[v].helpful = Cardinality(Voters(v, 1)) - Cardinality(Voters(v, -1))
=============================================================================
