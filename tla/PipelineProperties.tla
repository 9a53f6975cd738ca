------------------------- MODULE PipelineProperties -------------------------
(***************************************************************************)
(* What must hold of the pipeline.                                         *)
(***************************************************************************)
EXTENDS Pipeline, FiniteSetsExt

Stored == rawEvidence \cup telegramMessages

SameContent(r1, r2) == PlatformOf[r1] = PlatformOf[r2] /\ KeyOf[r1] = KeyOf[r2]

(***************************************************************************)
(* Safety                                                                  *)
(***************************************************************************)
(* One evidence row per content hash and one ledger row per Telegram       *)
(* (group, message), although pages are re-fetched under other URLs,       *)
(* messages are re-published and ai.output is redelivered; neither table   *)
(* of the web path has a UNIQUE constraint to fall back on.                *)
EvidenceUnique ==
    \A r1, r2 \in Stored : SameContent(r1, r2) => r1 = r2

(* A quarantine-category record is in no evidence table, index, graph or   *)
(* finding, and past the classifier stage no queue and no process has its  *)
(* page.  What the classification quotes from the page does travel on to   *)
(* db_writer, and the links analysis found in it are candidates by then.   *)
NeverRetained ==
    /\ \A r \in Stored \cup opensearch \cup graph \cup {f.rec : f \in findings} :
          ~Quarantined(r)
    /\ \A i \in 1..Len(queue["ai.output"]) :
          Quarantined(queue["ai.output"][i].rec) =>
              "page" \notin queue["ai.output"][i].content
    /\ step["db_writer"] # "idle" /\ Quarantined(Rec) => "page" \notin Row.content

(* The search index, the graph and the findings only ever point at         *)
(* evidence that was committed, whatever failed in between.                *)
IndexedWasStored ==
    /\ opensearch \subseteq rawEvidence
    /\ graph \subseteq Stored
    /\ \A f \in findings : f.rec \in rawEvidence /\ HighRisk(f.rec)

(* While the classifier process lives, the injection patterns it lets      *)
(* through for one source stay below the campaign threshold, and a source  *)
(* is tripped exactly when its count has reached the threshold.            *)
PoisonBudget ==
    \A s \in Source :
        /\ released[s] < PI_CAMPAIGN_THRESHOLD
        /\ s \in disabledSources <=> incidents[s] >= PI_CAMPAIGN_THRESHOLD

(* A source's poisoning count never exceeds what its stored evidence       *)
(* accounts for: no duplicate, redelivery or crash scores a page twice.    *)
ReputationBacked ==
    \A s \in Source :
        poisoning[s] <=
            MapThenSumSet(LAMBDA r : PatternsOf[r], {r \in Stored : SourceOf[r] = s})

(* After a disable at most the one envelope already past its control check *)
(* is still published, for as long as that disable is neither lost nor     *)
(* forgotten: sent while the stage has no bound queue, drained by a check  *)
(* that then raised, dropped with the queue by a broker restart, or read   *)
(* by a process that has died since.  After each of these the stage goes   *)
(* on publishing until it is told again.                                   *)
KillSwitchWindow == command = "disable" /\ ~lost => sinceCommand <= 1

(* What the feature list says of the switch: once the operator has         *)
(* disabled the stage, nothing more than the envelope in hand comes out.   *)
(* It fails: a command sent before the stage has bound its queue goes      *)
(* nowhere, and a restart forgets a disable that was already read.         *)
KillSwitchHonoured == setting = "disable" => sinceCommand <= 1

(* Of two findings of different sources that share a category and an       *)
(* entity, the later one counted the earlier one: both cannot have been    *)
(* written as uncorroborated, and neither counts a source without one.     *)
FindingsCorroborated ==
    \A f \in findings :
        /\ \A g \in findings :
              Overlap(f.rec, g.rec) =>
                  \/ SourceOf[g.rec] \in f.corroborating
                  \/ SourceOf[f.rec] \in g.corroborating
        /\ \A s \in f.corroborating :
              \E g \in findings : SourceOf[g.rec] = s /\ Overlap(f.rec, g.rec)

(* telegram_actors.message_count is the number of stored messages of that  *)
(* sender, however often a message is collected or redelivered.            *)
MessageCountExact ==
    \A a \in Actor :
        messageCount[a] = Cardinality({r \in telegramMessages : AuthorOf[r] = a})

(* Without a fault the stores agree whenever db_writer is between two      *)
(* records: what was stored is indexed and graphed.                        *)
StoresAgree ==
    faults = 0 /\ step["db_writer"] = "idle" =>
        /\ opensearch = rawEvidence
        /\ graph = {r \in Stored : PlatformOf[r] = "telegram" => AuthorOf[r] \in Actor}

(***************************************************************************)
(* Refinement                                                              *)
(***************************************************************************)
Waiting == UNION {{queue[q][i].rec : i \in 1..Len(queue[q])} : q \in QueueName}

InHands == {hand[s].rec : s \in {t \in Service : step[t] # "idle"}}

InFlight == Waiting \cup InHands

Ledger == INSTANCE EvidenceLedger
            WITH travelling <- InFlight, ledger <- Stored

(* The pipeline, with every fault, delivers each record at most once: it   *)
(* implements EvidenceLedger.                                              *)
AtMostOnce == Ledger!LedgerSpec

(***************************************************************************)
(* Liveness                                                                *)
(***************************************************************************)
(* Every collected record leaves the queues: nothing is stuck in the       *)
(* pipeline, whatever faults strike.                                       *)
Drains == \A r \in Record : (r \in collected) ~> (r \notin InFlight)

(* Where a record may have ended: its content is stored, it was escalated, *)
(* or one of the two brakes or the source gate stopped it.                 *)
Accounted(r) ==
    \/ \E x \in Stored : SameContent(r, x)
    \/ r \in escalated
    \/ SourceOf[r] \in UnstoredSources \cup disabledSources

(* Unless a fault strikes or the operator uses the switch, every record is *)
(* eventually accounted for: no path of the pipeline loses one in silence. *)
NothingLost ==
    \A r \in Record :
        (r \in collected) ~> (Accounted(r) \/ faults > 0 \/ commands > 0)
=============================================================================
