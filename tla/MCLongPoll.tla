----------------------------- MODULE MCLongPoll -----------------------------
(* Instances of LongPoll for TLC. *)
EXTENDS LongPoll

\* The first job is of topic a, the others of topic b.
MCTopicOf == [j \in Jobs |-> IF j = 1 THEN "a" ELSE "b"]

\* The first job has no topic, which is a topic of its own.
DefaultTopicOf == [j \in Jobs |-> IF j = 1 THEN "" ELSE "b"]
=============================================================================
