------------------------------ MODULE JobList -------------------------------
(***************************************************************************)
(* The list of the jobs, page by page (Service.GetJobs and its handler),   *)
(* as a client reads it: one request for each page, while jobs are created *)
(* and change.  Each request filters and sorts all the jobs again.         *)
(***************************************************************************)
EXTENDS Naturals, Sequences, SequencesExt, FiniteSets

CONSTANTS
  MaxJobs,    \* bound: jobs
  Statuses,
  Topics,
  Sorts,      \* the sort parameters: sequences of criteria
  Filters,    \* the requests' filters: a status and a topic (or NoFilter)
  Limits,     \* jobs per page
  MaxTime     \* bound: the clock

NoFilter == ""

VARIABLES
  jobs,    \* the jobs: number -> its sort keys and its state
  now,
  client   \* the list being read: request, next page, jobs seen, history

vars == <<jobs, now, client>>

Exists == DOMAIN jobs

\* What a client may be reading; before holds the jobs of the list when it began, calm is
\* true while only creations have changed the jobs.
NoList == [reading |-> FALSE]

Init ==
  /\ jobs = [j \in {} |-> 0]
  /\ now = 1
  /\ client = NoList

-----------------------------------------------------------------------------
(* GetJobs.                                                                *)

\* filterJobs
Matches(j, f) == f.status \in {NoFilter, jobs[j].status} /\ f.topic \in {NoFilter, jobs[j].topic}
Filtered(f) == {j \in Exists : Matches(j, f)}

\* The keys of a criterion as numbers, so that a smaller one comes first.
TopicRank(t) == CHOOSE n \in 1 .. Cardinality(Topics) : SetToSeq(Topics)[n] = t
Key(j, c) ==
  LET up == CASE c.field = "created" -> jobs[j].created
              [] c.field = "updated" -> jobs[j].updated
              [] c.field = "priority" -> jobs[j].priority
              [] c.field = "topic" -> TopicRank(jobs[j].topic)
  IN  IF c.desc THEN 1000 - up ELSE up

\* The default sort parameter is created_desc.
Criteria(s) == IF s = <<>> THEN <<[field |-> "created", desc |-> TRUE]>> ELSE s

\* sortJobs: the first criterion that differs decides, then the creation, then the id.
Before(i, j, s) ==
  LET keys(k) == [n \in DOMAIN Criteria(s) |-> Key(k, Criteria(s)[n])] \o <<jobs[k].created, k>>
      a == keys(i)
      b == keys(j)
  IN  \E n \in DOMAIN a : a[n] < b[n] /\ \A m \in 1 .. n - 1 : a[m] = b[m]

Sorted(f, s) ==
  CHOOSE list \in SetToSeqs(Filtered(f)) :
    \A m, n \in DOMAIN list : m < n => Before(list[m], list[n], s)

\* Mutant: the last page is not counted when it is not full.
TotalPagesDown(n, limit) == n \div limit

TotalPages(n, limit) == (n + limit - 1) \div limit

Page(list, page, limit) ==
  LET start == (page - 1) * limit
      end == IF start + limit > Len(list) THEN Len(list) ELSE start + limit
  IN  IF start < Len(list) THEN SubSeq(list, start + 1, end) ELSE <<>>

-----------------------------------------------------------------------------
(* The client.                                                             *)

Begin(f, s, limit) ==
  /\ ~client.reading
  /\ client' = [reading |-> TRUE, filter |-> f, sort |-> s, limit |-> limit, page |-> 1,
                seen |-> {}, before |-> Filtered(f), calm |-> TRUE, over |-> FALSE]
  /\ UNCHANGED <<jobs, now>>

\* A request for the next page, and its answer, under the mutex of the service.
Ask ==
  /\ client.reading /\ ~client.over
  /\ LET list == Sorted(client.filter, client.sort)
     IN  client' = [client EXCEPT
           !.seen = @ \cup Range(Page(list, client.page, client.limit)),
           !.over = client.page >= TotalPages(Len(list), client.limit),
           !.page = @ + 1]
  /\ UNCHANGED <<jobs, now>>

Finish == client.reading /\ client.over /\ client' = NoList /\ UNCHANGED <<jobs, now>>

-----------------------------------------------------------------------------
(* The jobs.                                                               *)

\* The ids are random: a job created in the same millisecond may come before another.
Create ==
  /\ Cardinality(Exists) < MaxJobs
  /\ \E j \in (1 .. MaxJobs) \ Exists, t \in Topics, s \in Statuses, p \in {0, 1} :
       jobs' = [k \in Exists \cup {j} |->
                 IF k = j THEN [topic |-> t, status |-> s, priority |-> p, created |-> now, updated |-> now]
                 ELSE jobs[k]]
  /\ UNCHANGED <<now, client>>

Disturb == client' = IF client.reading THEN [client EXCEPT !.calm = FALSE] ELSE client

Change(j) ==
  /\ \E s \in Statuses : jobs' = [jobs EXCEPT ![j].status = s, ![j].updated = now]
  /\ Disturb
  /\ UNCHANGED now

Delete(j) ==
  /\ jobs' = [k \in Exists \ {j} |-> jobs[k]]
  /\ Disturb
  /\ UNCHANGED now

Tick == now < MaxTime /\ now' = now + 1 /\ UNCHANGED <<jobs, client>>

Next ==
  \/ \E f \in Filters, s \in Sorts, limit \in Limits : Begin(f, s, limit)
  \/ Ask \/ Finish \/ Create \/ Tick
  \/ \E j \in Exists : Change(j) \/ Delete(j)

Spec == Init /\ [][Next]_vars

-----------------------------------------------------------------------------
\* For any criteria two jobs have one order, so that "the order is the same for every
\* request" (service.go:1941).
OrderIsTotal ==
  \A s \in Sorts : \A i, j \in Exists : i # j => (Before(i, j, s) <=> ~Before(j, i, s))

\* While the jobs do not change, each job of the list is on one page: the one that its rank
\* says, whatever the limit.
EachJobOnItsPage ==
  \A f \in Filters, s \in Sorts, limit \in Limits :
    LET list == Sorted(f, s)
    IN  \A j \in Filtered(f) :
          LET rank == Cardinality({i \in Filtered(f) : Before(i, j, s)})
              mine == {p \in 1 .. TotalPages(Len(list), limit) + 1 : j \in Range(Page(list, p, limit))}
          IN  mine = {(rank \div limit) + 1}

\* Jobs created while a client reads the pages hide none of the others from it: they push
\* the jobs of the next pages further, never back.
CreationsHideNothing ==
  client.reading /\ client.over /\ client.calm => client.before \subseteq client.seen

\* What a client reads page by page is the list.
PagesAreRight == OrderIsTotal /\ EachJobOnItsPage /\ CreationsHideNothing
=============================================================================
