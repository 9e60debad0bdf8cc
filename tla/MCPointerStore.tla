---------------------------- MODULE MCPointerStore ----------------------------
(* Callers that race, die and retry, with two targets and an approval record *)
(* of one of them.                                                           *)
EXTENDS PointerStore

CONSTANTS t1, t2, a1

MCApproves == {<<a1, t1>>}
=============================================================================
