------------------------------ MODULE DbWriter ------------------------------
(***************************************************************************)
(* src/db_writer: the only writer of the evidence stores.  One classified  *)
(* record is written to PostgreSQL (one transaction), then to OpenSearch,  *)
(* then to Neo4j, then to the source's reputation row.  The first write    *)
(* decides: its duplicate check guards everything after it.  The later     *)
(* writes catch their own errors and are never retried.                    *)
(***************************************************************************)
EXTENDS Broker

CONSTANT SeededSources  \* sources init-db.sql gives a reputation row

ASSUME SeededAssumption == SeededSources \subseteq Source

VARIABLES
    rawEvidence,      \* raw_evidence rows; each has its classifications row
    findings,         \* intelligence_findings rows
    telegramMessages, \* telegram_messages rows
    messageCount,     \* [Actor -> Nat]: telegram_actors.message_count
    opensearch,       \* documents in dwitp-classifications
    graph,            \* Classification and Message nodes in Neo4j
    poisoning,        \* [Source -> Nat]: source_reputation.poisoning_incidents
    status,           \* [Source -> Status]: source_reputation.status
    candidates,       \* candidate_sources rows
    escalated         \* records with a quarantine_no_retain audit event

stores == <<rawEvidence, findings, telegramMessages, messageCount>>
reputation == <<poisoning, status>>
dbVars == <<rawEvidence, findings, telegramMessages, messageCount, opensearch,
            graph, poisoning, status, candidates, escalated>>

Finding == [rec : Record, corroborating : SUBSET Source]

Status == {"no_row", "active", "degraded"}

DbTypeOK ==
    /\ rawEvidence \in SUBSET Record
    /\ findings \in SUBSET Finding
    /\ telegramMessages \in SUBSET Record
    /\ messageCount \in [Actor -> Nat]
    /\ opensearch \in SUBSET Record
    /\ graph \in SUBSET Record
    /\ poisoning \in [Source -> Nat]
    /\ status \in [Source -> Status]
    /\ candidates \in SUBSET Candidate
    /\ escalated \in SUBSET Record

DbInit ==
    /\ rawEvidence = {}
    /\ findings = {}
    /\ telegramMessages = {}
    /\ messageCount = [a \in Actor |-> 0]
    /\ opensearch = {}
    /\ graph = {}
    /\ poisoning = [s \in Source |-> 0]
    /\ status = [s \in Source |-> IF s \in SeededSources THEN "active" ELSE "no_row"]
    /\ candidates = {}
    /\ escalated = {}

Row == hand["db_writer"]
Rec == Row.rec

(***************************************************************************)
(* process_classification: the gates                                       *)
(***************************************************************************)
DropUnstoredSource ==
    /\ step["db_writer"] = "taken"
    /\ SourceOf[Rec] \in UnstoredSources
    /\ Finish("db_writer")
    /\ UNCHANGED <<queue, discovery, dbVars>>

(* A mistake to catch: the record is dropped without the escalation.       *)
QuarantineSilently ==
    /\ step["db_writer"] = "taken"
    /\ SourceOf[Rec] \notin UnstoredSources
    /\ Quarantined(Rec)
    /\ Finish("db_writer")
    /\ UNCHANGED <<queue, discovery, dbVars>>

(* A quarantine category is audited and dropped before any store is open.  *)
QuarantineAndEscalate ==
    /\ step["db_writer"] = "taken"
    /\ SourceOf[Rec] \notin UnstoredSources
    /\ Quarantined(Rec)
    /\ escalated' = escalated \cup {Rec}
    /\ Finish("db_writer")
    /\ UNCHANGED <<queue, discovery, stores, opensearch, graph, reputation, candidates>>

Storable(platform) ==
    /\ step["db_writer"] = "taken"
    /\ SourceOf[Rec] \notin UnstoredSources
    /\ ~Quarantined(Rec)
    /\ PlatformOf[Rec] = platform

(***************************************************************************)
(* The web path                                                            *)
(***************************************************************************)
StoredPage(k) == \E r \in rawEvidence : KeyOf[r] = k

StoredMessage(k) == \E r \in telegramMessages : KeyOf[r] = k

Overlap(r1, r2) ==
    /\ CategoryOf[r1] = CategoryOf[r2]
    /\ SourceOf[r1] # SourceOf[r2]
    /\ ValuesOf[r1] \cap ValuesOf[r2] # {}

(* A mistake to catch: "f.source != %s" loses its negation.                *)
CorroboratingOwnSource(r) ==
    {SourceOf[f.rec] : f \in {g \in findings :
        SourceOf[g.rec] = SourceOf[r] /\ ValuesOf[g.rec] \cap ValuesOf[r] # {}}}

(* _count_corroborating_sources: the other sources whose findings, at this *)
(* moment, share the category and an entity value.                         *)
Corroborating(r) == {SourceOf[f.rec] : f \in {g \in findings : Overlap(r, g.rec)}}

(* A mistake to catch: the check looks for the record_id, which is fresh   *)
(* for every publication, instead of the content hash.                     *)
WriteToPostgresByRecordId ==
    /\ Storable("web")
    /\ Rec \notin rawEvidence
    /\ rawEvidence' = rawEvidence \cup {Rec}
    /\ findings' = IF HighRisk(Rec)
                   THEN findings \cup {[rec |-> Rec, corroborating |-> Corroborating(Rec)]}
                   ELSE findings
    /\ Advance("db_writer", "index")
    /\ UNCHANGED <<queue, discovery, telegramMessages, messageCount, opensearch, graph,
                   reputation, candidates, escalated>>

(* write_to_postgres: hash check, evidence, classification and finding in  *)
(* one transaction.                                                        *)
WriteToPostgres ==
    /\ Storable("web")
    /\ ~StoredPage(KeyOf[Rec])
    /\ rawEvidence' = rawEvidence \cup {Rec}
    /\ findings' = IF HighRisk(Rec)
                   THEN findings \cup {[rec |-> Rec, corroborating |-> Corroborating(Rec)]}
                   ELSE findings
    /\ Advance("db_writer", "index")
    /\ UNCHANGED <<queue, discovery, telegramMessages, messageCount, opensearch, graph,
                   reputation, candidates, escalated>>

(* Mistakes to catch: the False of the first write is ignored and the      *)
(* later stores are written, or a sender is counted before the conflict    *)
(* on the natural key is looked at.                                        *)
SkipDuplicateIgnored ==
    /\ \/ Storable("web") /\ StoredPage(KeyOf[Rec])
       \/ Storable("telegram") /\ StoredMessage(KeyOf[Rec])
    /\ Advance("db_writer", "index")
    /\ UNCHANGED <<queue, discovery, dbVars>>

SkipDuplicateCounted ==
    /\ \/ Storable("web") /\ StoredPage(KeyOf[Rec])
       \/ Storable("telegram") /\ StoredMessage(KeyOf[Rec])
    /\ messageCount' = IF AuthorOf[Rec] \in Actor
                       THEN [messageCount EXCEPT ![AuthorOf[Rec]] = @ + 1]
                       ELSE messageCount
    /\ Finish("db_writer")
    /\ UNCHANGED <<queue, discovery, rawEvidence, findings, telegramMessages,
                   opensearch, graph, reputation, candidates, escalated>>

SkipDuplicate ==
    /\ \/ Storable("web") /\ StoredPage(KeyOf[Rec])
       \/ Storable("telegram") /\ StoredMessage(KeyOf[Rec])
    /\ Finish("db_writer")
    /\ UNCHANGED <<queue, discovery, dbVars>>

IndexToOpensearch ==
    /\ step["db_writer"] = "index"
    /\ opensearch' = opensearch \cup {Rec}
    /\ Advance("db_writer", "graph")
    /\ UNCHANGED <<queue, discovery, stores, graph, reputation, candidates, escalated>>

(***************************************************************************)
(* The Telegram path                                                       *)
(***************************************************************************)
(* write_telegram_message: the row on its natural key and, when it is new  *)
(* and has a sender, the sender's count, in one transaction.               *)
WriteTelegramMessage ==
    /\ Storable("telegram")
    /\ ~StoredMessage(KeyOf[Rec])
    /\ telegramMessages' = telegramMessages \cup {Rec}
    /\ messageCount' = IF AuthorOf[Rec] \in Actor
                       THEN [messageCount EXCEPT ![AuthorOf[Rec]] = @ + 1]
                       ELSE messageCount
    /\ Advance("db_writer", "graph")
    /\ UNCHANGED <<queue, discovery, rawEvidence, findings, opensearch, graph,
                   reputation, candidates, escalated>>

(* A mistake to catch: the author is required of web pages too.            *)
UpdateGraphOfAuthors ==
    /\ step["db_writer"] = "graph"
    /\ graph' = IF AuthorOf[Rec] \notin Actor THEN graph ELSE graph \cup {Rec}
    /\ Advance("db_writer", "reputation")
    /\ UNCHANGED <<queue, discovery, stores, opensearch, reputation, candidates, escalated>>

(* update_neo4j_graph, or update_telegram_graph, which returns early for a *)
(* message without a sender.                                               *)
UpdateGraph ==
    /\ step["db_writer"] = "graph"
    /\ graph' = IF PlatformOf[Rec] = "telegram" /\ AuthorOf[Rec] \notin Actor
                THEN graph
                ELSE graph \cup {Rec}
    /\ Advance("db_writer", "reputation")
    /\ UNCHANGED <<queue, discovery, stores, opensearch, reputation, candidates, escalated>>

(***************************************************************************)
(* Reputation and candidates                                               *)
(***************************************************************************)
(* The upsert: a new row takes the envelope's degraded flag; an existing   *)
(* row is degraded when the stored count reaches three.                    *)
UpdateSourceReputation ==
    /\ step["db_writer"] = "reputation"
    /\ LET s == SourceOf[Rec]
           sum == poisoning[s] + Row.pi
       IN  /\ poisoning' = [poisoning EXCEPT ![s] = sum]
           /\ status' = [status EXCEPT ![s] =
                 IF @ = "no_row" THEN (IF Row.degraded THEN "degraded" ELSE "active")
                 ELSE IF sum >= 3 THEN "degraded" ELSE @]
    /\ Finish("db_writer")
    /\ UNCHANGED <<queue, discovery, stores, opensearch, graph, candidates, escalated>>

(* process_discovered_candidate: one insert, ON CONFLICT (url) DO NOTHING. *)
ProcessDiscoveredCandidate ==
    /\ step["db_writer"] = "idle"
    /\ discovery # <<>>
    /\ LET c == Head(discovery) IN
        candidates' = IF \E k \in candidates : k.url = c.url
                      THEN candidates
                      ELSE candidates \cup {c}
    /\ discovery' = Tail(discovery)
    /\ UNCHANGED <<queue, hand, step, stores, opensearch, graph, reputation, escalated>>

(***************************************************************************)
(* Failures                                                                *)
(***************************************************************************)
(* OpenSearch, Neo4j or the reputation upsert raises: the error is audited *)
(* and the handler goes on to the next store.                              *)
StoreErrorSwallowed ==
    /\ \/ step["db_writer"] = "index" /\ Advance("db_writer", "graph")
       \/ step["db_writer"] = "graph" /\ Advance("db_writer", "reputation")
       \/ step["db_writer"] = "reputation" /\ Finish("db_writer")
    /\ UNCHANGED <<queue, discovery, dbVars>>

(* PostgreSQL is down when the candidate is inserted: the exception is     *)
(* swallowed by the wrapper, the candidate is gone.                        *)
CandidateLost ==
    /\ step["db_writer"] = "idle"
    /\ discovery # <<>>
    /\ discovery' = Tail(discovery)
    /\ UNCHANGED <<queue, hand, step, dbVars>>

(* The process dies, between any two stores.                               *)
DbWriterStops ==
    /\ step["db_writer"] # "idle"
    /\ Finish("db_writer")
    /\ UNCHANGED <<queue, discovery, dbVars>>
=============================================================================
