--------------------------- MODULE MCTelegramGraph ---------------------------
(***************************************************************************)
(* Five messages for TLC, in the order they were posted: ann asks for      *)
(* @bobby, who answers; ann, who has hidden her username, replies and      *)
(* mentions him again; bob, renamed, replies to himself; and one message   *)
(* has no sender.                                                          *)
(***************************************************************************)
EXTENDS TelegramGraph

MCAuthorOf == [m \in Message |->
    CASE m \in {"asks", "thanks"} -> "ann"
      [] m \in {"answers", "adds"} -> "bob"
      [] OTHER -> NoUser]

MCHandleOf == [m \in Message |->
    CASE m = "asks" -> "@annie"
      [] m = "answers" -> "@bobby"
      [] m = "adds" -> "@robert"
      [] OTHER -> NoHandle]

MCReplyTo == [m \in Message |->
    CASE m = "answers" -> "asks"
      [] m = "thanks" -> "answers"
      [] m = "adds" -> "answers"
      [] OTHER -> NoMessage]

MCMentionsIn == [m \in Message |->
    CASE m \in {"asks", "thanks"} -> {"@bobby"}
      [] m = "answers" -> {"@annie"}
      [] OTHER -> {}]
=============================================================================
