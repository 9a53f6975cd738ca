------------------------------ MODULE Envelope ------------------------------
(***************************************************************************)
(* What moves through the collection pipeline: the records the crawler and *)
(* the Telegram collector publish, and the message each stage builds from  *)
(* them.  A record is one publication (a fresh uuid4 record_id); what the  *)
(* stages compute from its text is a function of the record, because the   *)
(* injection gateway, the entity extractor and the rule classifier are     *)
(* deterministic.                                                          *)
(***************************************************************************)
EXTENDS Naturals, Sequences, FiniteSets

CONSTANTS
    Record,         \* record_ids published by a collector
    Source,         \* source ids ("dread", "telegram:-100..", "dnmx", ...)
    Url,            \* onion addresses a page may mention
    Actor,          \* Telegram user ids
    Value,          \* entity values (a BTC address, a CVE, an e-mail, ...)
    Key,            \* content hashes and <<group, message>> natural keys
    Category,       \* classifier categories
    NoActor,        \* a Telegram message without a sender_id
    NoMessage,      \* no message in hand
    SourceOf,       \* [Record -> Source]
    PlatformOf,     \* [Record -> {"web", "telegram"}]
    KeyOf,          \* [Record -> Key]: sha256 of the body, or group and message
    PatternsOf,     \* [Record -> Nat]: injection patterns the gateway redacts
    LinksOf,        \* [Record -> SUBSET Url]: onion addresses in the text
    ValuesOf,       \* [Record -> SUBSET Value]: the flat entity values
    CategoryOf,     \* [Record -> Category]: what classify() answers
    AuthorOf,       \* [Record -> Actor \cup {NoActor}]
    HIGH_RISK_CATEGORIES,
    QUARANTINE_CATEGORIES,
    UnstoredSources \* the sources db_writer drops ("dnmx", "mail2tor")

(* The code's two category sets are disjoint on purpose: a quarantine      *)
(* category must never fall through to the findings path.                  *)
ASSUME EnvelopeAssumption ==
    /\ SourceOf \in [Record -> Source]
    /\ PlatformOf \in [Record -> {"web", "telegram"}]
    /\ KeyOf \in [Record -> Key]
    /\ PatternsOf \in [Record -> Nat]
    /\ LinksOf \in [Record -> SUBSET Url]
    /\ ValuesOf \in [Record -> SUBSET Value]
    /\ CategoryOf \in [Record -> Category]
    /\ AuthorOf \in [Record -> Actor \cup {NoActor}]
    /\ NoActor \notin Actor
    /\ HIGH_RISK_CATEGORIES \subseteq Category
    /\ QUARANTINE_CATEGORIES \subseteq Category
    /\ HIGH_RISK_CATEGORIES \cap QUARANTINE_CATEGORIES = {}
    /\ UnstoredSources \subseteq Source

(* One envelope shape for every hop.  "content" is what it carries of the  *)
(* collected text: the page itself (raw_text, then raw_content and         *)
(* content_sanitized), and what the classifier quotes from it (the phrases *)
(* and indicators in the summary, the flat entities).                      *)
Content == {"page", "quotes"}

Message ==
    [rec : Record, pi : Nat, degraded : BOOLEAN, content : SUBSET Content]

ASSUME NoMessageAssumption == NoMessage \notin Message

(* The crawler's make_record and the collector's make_envelope.            *)
RawRecord(r) ==
    [rec |-> r, pi |-> 0, degraded |-> FALSE, content |-> {"page"}]

Candidate == [url : Url, from : Source]

Quarantined(r) == CategoryOf[r] \in QUARANTINE_CATEGORIES

HighRisk(r) == CategoryOf[r] \in HIGH_RISK_CATEGORIES
=============================================================================
