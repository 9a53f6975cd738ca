--------------------------- MODULE EvidenceLedger ---------------------------
(***************************************************************************)
(* What the pipeline promises about a collected record, with no stages, no *)
(* queues and no faults: it enters once, is stored at most once per        *)
(* content key and only while it is on its way, and once it has left the   *)
(* pipeline it never comes back.  Nothing stored is ever taken back.       *)
(***************************************************************************)
CONSTANTS Record, SameContent(_, _)

VARIABLES
    collected,  \* records that have entered
    travelling, \* records on their way
    ledger      \* records stored as evidence

ledgerVars == <<collected, travelling, ledger>>

LedgerInit == collected = {} /\ travelling = {} /\ ledger = {}

Enter(r) ==
    /\ r \notin collected
    /\ collected' = collected \cup {r}
    /\ travelling' = travelling \cup {r}
    /\ UNCHANGED ledger

StoreOnce(r) ==
    /\ r \in travelling
    /\ \A x \in ledger : ~SameContent(r, x)
    /\ ledger' = ledger \cup {r}
    /\ UNCHANGED <<collected, travelling>>

(* One record when its handler ends; several when the broker forgets.      *)
Leave ==
    /\ travelling' \in SUBSET travelling
    /\ UNCHANGED <<collected, ledger>>

LedgerNext ==
    \/ \E r \in Record : Enter(r) \/ StoreOnce(r)
    \/ Leave

LedgerSpec == LedgerInit /\ [][LedgerNext]_ledgerVars
=============================================================================
