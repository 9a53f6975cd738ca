---------------------------- MODULE MCQueueClient ----------------------------
(* QueueClient for TLC: one stage with two queues, like db_writer; two of  *)
(* the messages wait in the same queue.                                    *)
EXTENDS QueueClient, TLC

CONSTANTS m1, m2, m3, data, candidates

MCQueueOf == (m1 :> data) @@ (m2 :> data) @@ (m3 :> candidates)

=============================================================================
