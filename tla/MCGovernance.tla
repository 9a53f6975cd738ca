----------------------------- MODULE MCGovernance -----------------------------
(***************************************************************************)
(* Two sources for TLC: "forum", shipped and approved, and "market", which *)
(* is proposed, also twice, and has a seeded reputation row; one address   *)
(* found on a page.                                                        *)
(***************************************************************************)
EXTENDS Governance

MCShipped == {[source_id |-> "forum", from |-> 0, status |-> "approved"]}
=============================================================================
