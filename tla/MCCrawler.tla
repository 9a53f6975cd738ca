------------------------------ MODULE MCCrawler ------------------------------
(***************************************************************************)
(* Two sites for TLC.  "forum": a root and a board whose links lead to a   *)
(* post directly and through a redirect, and to a page of the other site.  *)
(* "market", behind it in the file: a site with an access queue, a listing *)
(* page "shop" and an offer whose body breaks off.                         *)
(***************************************************************************)
EXTENDS Crawler

MCRootOf == [t \in Target |-> IF t = "forum" THEN "froot" ELSE "mroot"]

MCListingOf == [t \in Target |-> IF t = "forum" THEN {"board"} ELSE {"shop"} \cap Url]

MCFinalOf ==
    [u \in Url |->
        CASE u = "alias" -> "post"
          [] OTHER -> u]

MCLinksOn ==
    [u \in Url |->
        CASE u = "froot" -> {"board"}
          [] u = "board" -> {"post", "alias", "shop"} \cap Url
          [] u = "post"  -> {"froot", "board"}
          [] u = "mroot" -> {"offer", "shop"} \cap Url
          [] OTHER       -> {}]

MCPlace == [t \in Target |-> IF t = "forum" THEN 1 ELSE 2]
=============================================================================
