----------------------------- MODULE WikiReview -----------------------------
(***************************************************************************)
(* Review of generated pages: reviewers move the status of a page by a     *)
(* compare-and-set that commits together with its audit record, pages are  *)
(* generated meanwhile, and a client walks the page listing window by      *)
(* window, each window a transaction of its own.                           *)
(***************************************************************************)
EXTENDS Naturals, FiniteSets, SequencesExt

CONSTANTS
    Pages,       \* page artifacts of one tenant
    Reviewers,   \* concurrent review requests
    PageLimit,   \* limit of a listing window
    MaxReviews   \* bound: review requests

VARIABLES
    review_status,  \* committed status of each page, NoPage before it is generated
    listing,        \* committed pages, newest first
    audit_log,      \* committed audit records of changed reviews, in commit order
    writer,         \* reviewer whose open transaction has updated the page
    request,        \* per reviewer: the request it serves
    reviews,        \* review requests so far
    walk            \* the client that walks the listing

reviewVars == <<review_status, listing, audit_log, writer, request, reviews, walk>>

DRAFT        == "draft"
NEEDS_REVIEW == "needs_review"
APPROVED     == "approved"
ReviewStatus == {DRAFT, NEEDS_REVIEW, APPROVED}
NoPage       == "no page"
NoWriter     == "no writer"
Unserved     == [pc |-> "idle"]
AllStatuses  == "all"

Allowed ==
    {<<DRAFT, NEEDS_REVIEW>>, <<NEEDS_REVIEW, DRAFT>>, <<NEEDS_REVIEW, APPROVED>>, <<APPROVED, NEEDS_REVIEW>>}

Init ==
    /\ review_status = [p \in Pages |-> NoPage]
    /\ listing = <<>> /\ audit_log = <<>>
    /\ writer = [p \in Pages |-> NoWriter]
    /\ request = [r \in Reviewers |-> Unserved]
    /\ reviews = 0
    /\ walk = [pc |-> "idle"]

-----------------------------------------------------------------------------
(* The row is created as a draft.  created_at is when its transaction      *)
(* began, so that it may be listed behind pages committed earlier.         *)
Generate(p, i) ==
    /\ review_status[p] = NoPage /\ i \in 1..Len(listing) + 1
    /\ listing' = InsertAt(listing, i, p)
    /\ review_status' = [review_status EXCEPT ![p] = DRAFT]
    /\ UNCHANGED <<audit_log, writer, request, reviews, walk>>

(* An unknown page, an unchanged status and a transition that is not       *)
(* allowed end the request without an update.                              *)
Read(r, p, target) ==
    /\ request[r] = Unserved /\ reviews < MaxReviews
    /\ reviews' = reviews + 1
    /\ request' = IF <<review_status[p], target>> \in Allowed
                  THEN [request EXCEPT ![r] = [pc |-> "update", page |-> p, from |-> review_status[p], to |-> target]]
                  ELSE request
    /\ UNCHANGED <<review_status, listing, audit_log, writer, walk>>

(* Mutant: the expected status is not compared. *)
UpdateBlindly(r) ==
    LET q == request[r] IN
    /\ q.pc = "update" /\ writer[q.page] = NoWriter
    /\ writer' = [writer EXCEPT ![q.page] = r]
    /\ request' = [request EXCEPT ![r].pc = "commit"]
    /\ UNCHANGED <<review_status, listing, audit_log, reviews, walk>>

(* UPDATE ... WHERE review_status = expected: waits for an open update of  *)
(* the row and then compares with what was committed.                      *)
CompareAndSet(r) ==
    LET q == request[r] IN
    /\ q.pc = "update" /\ writer[q.page] = NoWriter
    /\ IF review_status[q.page] = q.from
       THEN /\ writer' = [writer EXCEPT ![q.page] = r]
            /\ request' = [request EXCEPT ![r].pc = "commit"]
       ELSE /\ request' = [request EXCEPT ![r] = Unserved]
            /\ UNCHANGED writer
    /\ UNCHANGED <<review_status, listing, audit_log, reviews, walk>>

EndTransaction(r) ==
    /\ writer' = [writer EXCEPT ![request[r].page] = NoWriter]
    /\ request' = [request EXCEPT ![r] = Unserved]
    /\ UNCHANGED <<listing, reviews, walk>>

(* The audit record and the new status commit together. *)
CommitReview(r) ==
    LET q == request[r] IN
    /\ q.pc = "commit" /\ EndTransaction(r)
    /\ review_status' = [review_status EXCEPT ![q.page] = q.to]
    /\ audit_log' = Append(audit_log, [page |-> q.page, from |-> q.from, to |-> q.to])

(* The audit or the commit raises, or the process dies. *)
AuditFails(r) ==
    /\ request[r].pc = "commit" /\ EndTransaction(r)
    /\ UNCHANGED <<review_status, audit_log>>

-----------------------------------------------------------------------------
Matching(filter) ==
    IF filter = AllStatuses THEN listing ELSE SelectSeq(listing, LAMBDA p : review_status[p] = filter)

StartWalk(filter) ==
    /\ walk.pc = "idle"
    /\ walk' = [pc |-> "walking", filter |-> filter, offset |-> 0, seen |-> {}, present |-> ToSet(Matching(filter))]
    /\ UNCHANGED <<review_status, listing, audit_log, writer, request, reviews>>

(* Mutant: only as many rows are selected as are shown. *)
SelectedExactly(filter, offset) ==
    LET rows == Matching(filter) IN SubSeq(rows, offset + 1, Min({Len(rows), offset + PageLimit}))

(* LIMIT limit + 1 OFFSET offset *)
Selected(filter, offset) ==
    LET rows == Matching(filter) IN SubSeq(rows, offset + 1, Min({Len(rows), offset + PageLimit + 1}))

ListWindow ==
    LET rows     == Selected(walk.filter, walk.offset)
        has_more == Len(rows) > PageLimit
    IN  /\ walk.pc = "walking"
        /\ walk' = [pc      |-> IF has_more THEN "walking" ELSE "done",
                    filter  |-> walk.filter,
                    offset  |-> walk.offset + PageLimit,
                    seen    |-> walk.seen \cup {rows[i] : i \in 1..Min({PageLimit, Len(rows)})},
                    present |-> walk.present]
        /\ UNCHANGED <<review_status, listing, audit_log, writer, request, reviews>>

Next ==
    \/ \E p \in Pages, i \in 1..Cardinality(Pages) : Generate(p, i)
    \/ \E r \in Reviewers :
         \/ \E p \in Pages, target \in ReviewStatus : Read(r, p, target)
         \/ CompareAndSet(r) \/ CommitReview(r) \/ AuditFails(r)
    \/ \E filter \in ReviewStatus \cup {AllStatuses} : StartWalk(filter)
    \/ ListWindow

Spec == Init /\ [][Next]_reviewVars

-----------------------------------------------------------------------------
(* The status that the first n audit records leave page p in. *)
StatusAfter(n, p, status) ==
    \/ (\A j \in 1..n : audit_log[j].page # p) /\ status = DRAFT
    \/ \E i \in 1..n : /\ audit_log[i].page = p /\ status = audit_log[i].to
                      /\ \A j \in i + 1..n : audit_log[j].page # p

(* However reviews overlap and fail, the audit records of a page tell an   *)
(* unbroken story: the first change starts from a draft, each starts where *)
(* the one before ended, none is a transition that is not allowed, and the *)
(* last one ends in the page's status.                                     *)
ReviewHistoryChains ==
    /\ \A i \in 1..Len(audit_log) : LET a == audit_log[i] IN
         <<a.from, a.to>> \in Allowed /\ StatusAfter(i - 1, a.page, a.from)
    /\ \A p \in Pages :
         IF review_status[p] = NoPage THEN \A i \in 1..Len(audit_log) : audit_log[i].page # p
         ELSE StatusAfter(Len(audit_log), p, review_status[p])

(* A client that walks the whole listing until has_more is false has seen  *)
(* every page that was listed when it began, although pages appear at any  *)
(* place and change their status meanwhile.                                *)
WalkMissesNothing ==
    walk.pc = "done" /\ walk.filter = AllStatuses => walk.present \subseteq walk.seen

(* The inductive strengthening.  A reviewer whose update is open holds the *)
(* row, and the row still has the status it was compared with; what a walk *)
(* has not seen yet lies behind its offset.                                *)
Change == [page : Pages, from : ReviewStatus, to : ReviewStatus]
Served == [pc : {"update", "commit"}, page : Pages, from : ReviewStatus, to : ReviewStatus]

ReviewType ==
    /\ review_status \in [Pages -> ReviewStatus \cup {NoPage}]
    /\ listing \in Seq(Pages)
    /\ audit_log \in Seq(Change)
    /\ writer \in [Pages -> Reviewers \cup {NoWriter}]
    /\ request \in [Reviewers -> {Unserved} \cup Served]

RowLocks ==
    \A r \in Reviewers : LET q == request[r] IN
        /\ q # Unserved => <<q.from, q.to>> \in Allowed
        /\ q.pc = "commit" => writer[q.page] = r /\ review_status[q.page] = q.from

WalkInv ==
    /\ walk.pc \in {"idle", "walking", "done"}
    /\ walk.pc = "walking" /\ walk.filter = AllStatuses =>
         /\ walk.offset \in 0..Len(listing)
         /\ \A p \in walk.present \ walk.seen : \E i \in 1..Len(listing) : i > walk.offset /\ listing[i] = p
    /\ WalkMissesNothing

ReviewInv == ReviewType /\ RowLocks /\ ReviewHistoryChains /\ WalkInv
=============================================================================
