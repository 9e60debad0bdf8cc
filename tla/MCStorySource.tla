---------------------------- MODULE MCStorySource ----------------------------
(***************************************************************************)
(* Small instances of StorySource: text t1 is planned as one chunk, t2 as  *)
(* two, so that two plans share their first chunk id.                      *)
(***************************************************************************)
EXTENDS StorySource

CONSTANTS p1, p2, p3, t1, t2, c1, c2

Plans == [t \in {t1, t2} |-> IF t = t1 THEN <<c1>> ELSE <<c1, c2>>]

\* Two planners, one of which is a later stage as well, while a third process
\* ingests.
StageRoles == {<<p1, "plan">>, <<p1, "resolve">>, <<p2, "plan">>, <<p3, "ingest">>}

=============================================================================
