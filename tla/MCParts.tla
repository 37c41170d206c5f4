------------------------------ MODULE MCParts -------------------------------
(***************************************************************************)
(* The small parts of the program, for TLC: the lifecycle of a loop, the   *)
(* callbacks, the list of the jobs and the two queues.  They share no      *)
(* state, so that their interleavings show nothing: the start chooses the  *)
(* part that moves, and the others stay as they begin.                     *)
(***************************************************************************)
EXTENDS ProcessParts, QueueParts, DelayParts

VARIABLE part  \* the part that moves

\* The default sort and a sort by two criteria.
By(field, desc) == [field |-> field, desc |-> desc]

MCSorts == {<<>>, <<By("priority", TRUE), By("updated", FALSE)>>}
MCFilters == {[status |-> "queued", topic |-> ""]}

\* Six jobs in two topics: a removal that must move an entry up needs six.
MCRanks == 1 .. 6
MCTopicOfRank == [j \in MCRanks |-> IF j % 3 = 0 THEN "b" ELSE "a"]

lcVars == <<started, stopped, stop, done, loop, caller, saw>>
cbVars == <<state, callback, received, restarts>>
jlVars == <<jobs, now, client>>
qiVars == <<all, byTopic, answer>>
pqVars == <<node, head, length, out>>

PartsInit ==
  /\ part \in {"lifecycle", "callbacks", "job list", "queue index", "priority queue"}
  /\ LC!Init /\ CB!Init /\ JL!Init /\ QI!Init /\ PQ!Init

PartsNext ==
  /\ UNCHANGED part
  /\ \/ part = "lifecycle" /\ LC!Next /\ UNCHANGED <<cbVars, jlVars, qiVars, pqVars>>
     \/ part = "callbacks" /\ CB!Next /\ UNCHANGED <<lcVars, jlVars, qiVars, pqVars>>
     \/ part = "job list" /\ JL!Next /\ UNCHANGED <<lcVars, cbVars, qiVars, pqVars>>
     \/ part = "queue index" /\ QI!Next /\ UNCHANGED <<lcVars, cbVars, jlVars, pqVars>>
     \/ part = "priority queue" /\ PQ!Next /\ UNCHANGED <<lcVars, cbVars, jlVars, qiVars>>

PartsSpec == PartsInit /\ [][PartsNext]_<<part, lcVars, cbVars, jlVars, qiVars, pqVars>>
=============================================================================
