----------------------------- MODULE AuditTrail -----------------------------
(***************************************************************************)
(* What the audit log promises its reader: a trail of records that only    *)
(* grows, in the order of the calls, each record whole and once.  A record *)
(* that was confirmed to its caller is in it; one whose append failed is in *)
(* it or is not.                                                           *)
(***************************************************************************)
EXTENDS Naturals, Sequences

CONSTANT Call  \* numbers of the calls, in the order they were made

VARIABLES trail, confirmed

trailVars == <<trail, confirmed>>

Init == trail = <<>> /\ confirmed = {}

Follows(n) == \A i \in DOMAIN trail : trail[i] < n

Confirm(n) ==
    /\ Follows(n)
    /\ trail' = Append(trail, n)
    /\ confirmed' = confirmed \union {n}

Fail(n) ==
    /\ Follows(n)
    /\ trail' = Append(trail, n)
    /\ UNCHANGED confirmed

Next == \E n \in Call : Confirm(n) \/ Fail(n)

Spec == Init /\ [][Next]_trailVars
=============================================================================
