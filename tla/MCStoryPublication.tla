------------------------- MODULE MCStoryPublication -------------------------
(***************************************************************************)
(* Small instances of StoryPublication.                                    *)
(***************************************************************************)
EXTENDS StoryPublication

CONSTANTS p1, p2, c1, c2, o1, o2

\* A whole analysis and the single stages of a rival that prefers c2.
ChainCalls == {<<p1, c1, 3, 6>>, <<p2, c2, 4, 5>>}

\* Two processes rebuild the story bible of one A5 revision.
BibleCalls == {<<p1, c1, 3, 6>>, <<p2, c1, 6, 6>>, <<p2, c2, 6, 6>>}
=============================================================================
