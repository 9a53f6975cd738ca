------------------------------ MODULE MCPipeline ------------------------------
(***************************************************************************)
(* Instances of the pipeline for TLC.  The records a run may use:          *)
(*   page1   a ransomware page of src1 with two injection patterns         *)
(*   mirror  the same bytes, crawled from src2                             *)
(*   again   the same bytes, crawled from src1 under another URL           *)
(*   clean   a page of src1 without patterns                               *)
(*   page2   another page of src1, three patterns, sharing an entity       *)
(*   other   a page of src2 that corroborates src1's pages                 *)
(*   abuse   a page of a quarantine category                               *)
(*   mail    a page of an unstored source                                  *)
(*   tg1     a Telegram message; tg1b the same message collected again     *)
(*   tg2     a message without a sender                                    *)
(***************************************************************************)
EXTENDS PipelineProperties

MCWeb == {"page1", "mirror", "page2", "other", "abuse", "mail", "again", "clean"}

MCSourceOf ==
    [r \in Record |->
        CASE r \in {"page1", "page2", "abuse", "again", "clean"} -> "src1"
          [] r \in {"mirror", "other"}         -> "src2"
          [] r = "mail"                        -> "dnmx"
          [] OTHER                             -> "tg"]

MCPlatformOf == [r \in Record |-> IF r \in MCWeb THEN "web" ELSE "telegram"]

MCKeyOf ==
    [r \in Record |->
        CASE r \in {"page1", "mirror", "again"} -> "k1"
          [] r \in {"tg1", "tg1b"}     -> "m1"
          [] OTHER                     -> r]

MCPatternsOf ==
    [r \in Record |->
        CASE r \in {"page1", "mirror", "again"} -> 2
          [] r = "page2"               -> 3
          [] r \in {"tg1", "tg1b"}     -> 1
          [] OTHER                     -> 0]

MCLinksOf ==
    [r \in Record |-> IF r \in {"page2", "other"} THEN {"onion1"} ELSE {}]

MCValuesOf ==
    [r \in Record |-> IF r \in MCWeb THEN {"btc"} ELSE {}]

MCCategoryOf ==
    [r \in Record |->
        CASE r = "abuse" -> "child_exploitation"
          [] r \in MCWeb -> "ransomware"
          [] OTHER       -> "unknown"]

MCAuthorOf ==
    [r \in Record |-> IF r \in {"tg1", "tg1b"} THEN "actor" ELSE NoActor]
=============================================================================
