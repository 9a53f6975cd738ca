------------------------- MODULE MCTelegramCollector -------------------------
(***************************************************************************)
(* Two groups for TLC: "chat", a media-only message followed by texts,     *)
(* more than one cycle reads; and "feed", a single text.                   *)
(***************************************************************************)
EXTENDS TelegramCollector

MCLastId == [g \in Group |-> IF g = "chat" THEN MaxId ELSE 1]

MCHasText == [g \in Group |-> IF g = "chat" THEN 2..MaxId ELSE {1}]
=============================================================================
