---------------------------- MODULE MCApprovals ----------------------------
(* A small instance of the approvals for TLC: one approval, three requests. *)
EXTENDS Approvals

CONSTANTS p1, h1, h2, h3

\* A deadline at 1, written in UTC or as 0 at one hour east of it; one already past.
Deadlines ==
    {[at |-> 1, offset |-> 0], [at |-> 0, offset |-> 1], [at |-> 0, offset |-> 0], Never}
=============================================================================
