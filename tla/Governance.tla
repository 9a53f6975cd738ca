------------------------------ MODULE Governance ------------------------------
(***************************************************************************)
(* Source governance: the dashboard's handlers over sources.yaml, the      *)
(* proposals, the candidates, the registry and the reputation rows, with   *)
(* the two other processes that use them: the crawler reads the file once  *)
(* a cycle; db_writer copies it into the registry when it starts, and      *)
(* writes candidates and reputation rows.                                  *)
(*                                                                         *)
(* The dashboard's handlers are coroutines that never await, so they run   *)
(* one at a time; a handler that writes the file and the database has a    *)
(* step for each, and the other processes run in between.                  *)
(***************************************************************************)
EXTENDS Naturals, Sequences, FiniteSets

CONSTANTS
    SourceId,
    Url,             \* addresses found on crawled pages
    Shipped,         \* the entries of sources.yaml as deployed
    Seeded,          \* names init-db.sql gives a reputation row, none of them shipped
    Proposable,      \* bound: the names used in proposals
    Requested,       \* bound: the statuses administrators ask for
    MaxProposals,    \* bound: rows of pending_sources
    MaxChanges,      \* bound: status changes and resets of a reputation
    MaxFaults        \* bound: failed commits, cut rewrites, db_writer stops

Status == {"approved", "pending", "retired", "quarantined"}

Review == {"pending_review", "approved", "rejected"}

(* An entry of the file.  from: the proposal it was approved from, 0 for a *)
(* shipped one.                                                            *)
Entry == [source_id : SourceId, from : 0..MaxProposals, status : Status]

ASSUME GovernanceAssumption ==
    /\ Proposable \in SUBSET SourceId
    /\ Requested \in SUBSET Status
    /\ MaxProposals \in Nat
    /\ MaxChanges \in Nat
    /\ MaxFaults \in Nat
    /\ Shipped \in SUBSET Entry
    /\ Shipped # {}
    /\ \A e \in Shipped : e.from = 0
    /\ \A e, f \in Shipped : e.source_id = f.source_id => e = f
    /\ Seeded \in SUBSET SourceId
    /\ \A e \in Shipped : e.source_id \notin Seeded

VARIABLES
    sources,     \* sources.yaml; keyed: the "sources:" line is there
    proposals,   \* pending_sources, in the order of their insertion
    candidates,  \* candidate_sources; "unknown" for an address without a row
    registry,    \* source_registry.active; "none" for a name without a row
    reputation,  \* source_reputation.status; "none" likewise
    request,     \* the handler between its write to the file and its commit
    targets,     \* the sources of the crawler's current cycle
    writer,      \* db_writer: down, starting (the file is read), up
    snapshot,    \* the entries db_writer read
    changes,
    faults,
    \* history
    crawled,     \* sources the crawler has ever visited
    torn,        \* a rewrite of the file was cut short
    unsigned,    \* proposals whose approval reached the file only
    stale,       \* names whose last status change may have missed the registry
    hidden       \* names whose reputation does not show their last status change

panel == <<proposals, candidates>>
bounds == <<changes, faults>>
tables == <<registry, reputation>>
others == <<targets, writer, snapshot, crawled>>
history == <<torn, unsigned, stale, hidden>>
vars == <<sources, proposals, candidates, registry, reputation, request, targets, writer,
          snapshot, changes, faults, crawled, torn, unsigned, stale, hidden>>

ReputationStatus == {"active", "degraded", "quarantined", "retired"}

Document == [keyed : BOOLEAN, entries : SUBSET Entry]

Idle == [step |-> "idle"]

Request ==
    {Idle}
    \union [step : {"approving"}, id : 1..MaxProposals]
    \union [step : {"rewriting", "rewritten"}, name : SourceId, status : Status,
            lines : Document]

TypeOK ==
    /\ sources \in Document
    /\ proposals \in Seq([source_id : SourceId, status : Review])
    /\ Len(proposals) <= MaxProposals
    /\ candidates \in [Url -> Review \union {"unknown"}]
    /\ registry \in [SourceId -> {"none", "active", "inactive"}]
    /\ reputation \in [SourceId -> ReputationStatus \union {"none"}]
    /\ request \in Request
    /\ request.step = "approving" => request.id <= Len(proposals)
    /\ targets \in SUBSET SourceId
    /\ writer \in {"down", "starting", "up"}
    /\ snapshot \in SUBSET Entry
    /\ changes \in 0..MaxChanges
    /\ faults \in 0..MaxFaults
    /\ crawled \in SUBSET SourceId
    /\ torn \in BOOLEAN
    /\ unsigned \in SUBSET (1..MaxProposals)
    /\ stale \in SUBSET SourceId
    /\ hidden \in SUBSET SourceId

Init ==
    /\ sources = [keyed |-> TRUE, entries |-> Shipped]
    /\ proposals = <<>>
    /\ candidates = [u \in Url |-> "unknown"]
    /\ registry = [n \in SourceId |-> "none"]
    /\ reputation = [n \in SourceId |-> IF n \in Seeded THEN "active" ELSE "none"]
    /\ request = Idle
    /\ targets = {}
    /\ writer = "down"
    /\ snapshot = {}
    /\ changes = 0
    /\ faults = 0
    /\ crawled = {}
    /\ torn = FALSE
    /\ unsigned = {}
    /\ stale = {}
    /\ hidden = {}

(***************************************************************************)
(* The file                                                                *)
(***************************************************************************)
(* What is left when the file was opened for writing and not yet written:  *)
(* it is smaller than one write buffer, so it is empty or whole.           *)
Truncated == [keyed |-> FALSE, entries |-> {}]

Names(entries) == {e.source_id : e \in entries}

(* load_sources, init_source_registry: an empty document is None, one      *)
(* without the key a list; both have no "get".                             *)
Readable(document) == document.keyed

(* A mistake to catch: the source_id is not looked up before appending.    *)
AppendableAgain(name) == sources.keyed \/ sources.entries = {}

(* append_source_to_yaml: an empty document counts as one without entries, *)
(* a list raises, and a known source_id raises.                            *)
Appendable(name) ==
    /\ sources.keyed \/ sources.entries = {}
    /\ name \notin Names(sources.entries)

(* update_source_status_in_yaml: the lines with the status replaced.  The  *)
(* search is by line, so it works without the key too.                     *)
WithStatus(document, name, status) ==
    [document EXCEPT !.entries =
        {IF e.source_id = name THEN [e EXCEPT !.status = status] ELSE e : e \in @}]

Approved(entries) == {e.source_id : e \in {f \in entries : f.status = "approved"}}

(***************************************************************************)
(* Proposals and candidates                                                *)
(***************************************************************************)
Proposal(name) == [source_id |-> name, status |-> "pending_review"]

(* propose_source: the same source_id may be proposed any number of times. *)
ProposeSource(name) ==
    /\ request = Idle
    /\ Len(proposals) < MaxProposals
    /\ proposals' = Append(proposals, Proposal(name))
    /\ UNCHANGED <<sources, candidates, tables, request, others, bounds, history>>

(* admin_promote_candidate: proposal and review in one transaction.        *)
PromoteCandidate(u, name) ==
    /\ request = Idle
    /\ Len(proposals) < MaxProposals
    /\ candidates[u] = "pending_review"
    /\ proposals' = Append(proposals, Proposal(name))
    /\ candidates' = [candidates EXCEPT ![u] = "approved"]
    /\ UNCHANGED <<sources, tables, request, others, bounds, history>>

(* admin_reject_candidate                                                  *)
RejectCandidate(u) ==
    /\ request = Idle
    /\ candidates[u] = "pending_review"
    /\ candidates' = [candidates EXCEPT ![u] = "rejected"]
    /\ UNCHANGED <<sources, proposals, tables, request, others, bounds, history>>

(* A mistake to catch: the UPDATE does not ask for a pending proposal.      *)
RejectSourceAnyStatus(i) ==
    /\ request = Idle
    /\ i \in DOMAIN proposals
    /\ proposals' = [proposals EXCEPT ![i].status = "rejected"]
    /\ UNCHANGED <<sources, candidates, tables, request, others, bounds, history>>

(* admin_reject_source                                                     *)
RejectSource(i) ==
    /\ request = Idle
    /\ i \in DOMAIN proposals
    /\ proposals[i].status = "pending_review"
    /\ proposals' = [proposals EXCEPT ![i].status = "rejected"]
    /\ UNCHANGED <<sources, candidates, tables, request, others, bounds, history>>

(***************************************************************************)
(* admin_approve_source: the entry is appended to the file, then the       *)
(* registry row and the review are committed.                              *)
(***************************************************************************)
AppendSource(i) ==
    /\ request = Idle
    /\ i \in DOMAIN proposals
    /\ proposals[i].status = "pending_review"
    /\ Appendable(proposals[i].source_id)
    /\ sources' = [sources EXCEPT !.entries =
           @ \union {[source_id |-> proposals[i].source_id, from |-> i,
                      status |-> "approved"]}]
    /\ request' = [step |-> "approving", id |-> i]
    /\ UNCHANGED <<panel, tables, others, bounds, history>>

CommitApproval ==
    /\ request.step = "approving"
    /\ request' = Idle
    /\ LET name == proposals[request.id].source_id
       IN registry' = [registry EXCEPT ![name] = IF @ = "none" THEN "active" ELSE @]
    /\ proposals' = [proposals EXCEPT ![request.id].status = "approved"]
    /\ UNCHANGED <<sources, candidates, reputation, others, bounds, history>>

(***************************************************************************)
(* admin_change_source_status: the file is opened for writing and written, *)
(* then the registry and reputation rows are committed.                    *)
(***************************************************************************)
(* _REPUTATION_STATUS_MAP                                                  *)
ReputationOf(status) == IF status \in {"approved", "pending"} THEN "active" ELSE status

Change == changes < MaxChanges /\ changes' = changes + 1 /\ UNCHANGED faults

OpenForRewrite(name, status) ==
    /\ Change
    /\ request = Idle
    /\ name \in Names(sources.entries)
    /\ request' = [step |-> "rewriting", name |-> name, status |-> status,
                   lines |-> WithStatus(sources, name, status)]
    /\ sources' = Truncated
    /\ UNCHANGED <<panel, tables, others, history>>

RewriteFile ==
    /\ request.step = "rewriting"
    /\ sources' = request.lines
    /\ request' = [request EXCEPT !.step = "rewritten", !.lines = Truncated]
    /\ UNCHANGED <<panel, tables, others, bounds, history>>

(* A mistake to catch: the reputation row is only inserted, never updated. *)
CommitStatusInsertOnly ==
    /\ request.step = "rewritten"
    /\ request' = Idle
    /\ LET n == request.name
           missed == registry[n] = "none"
       IN /\ registry' = [registry EXCEPT ![n] =
                 IF missed THEN @
                 ELSE IF request.status = "approved" THEN "active" ELSE "inactive"]
          /\ reputation' = [reputation EXCEPT ![n] =
                 IF @ = "none" THEN ReputationOf(request.status) ELSE @]
          /\ stale' = IF missed /\ writer = "starting" THEN stale \union {n} ELSE stale \ {n}
          /\ hidden' = hidden \ {n}
    /\ UNCHANGED <<sources, panel, others, bounds, torn, unsigned>>

(* The UPDATE of the registry finds no row if db_writer has not inserted   *)
(* it yet; if db_writer is about to, it inserts what it read before.       *)
CommitStatus ==
    /\ request.step = "rewritten"
    /\ request' = Idle
    /\ LET n == request.name
           missed == registry[n] = "none"
       IN /\ registry' = [registry EXCEPT ![n] =
                 IF missed THEN @
                 ELSE IF request.status = "approved" THEN "active" ELSE "inactive"]
          /\ reputation' = [reputation EXCEPT ![n] = ReputationOf(request.status)]
          /\ stale' = IF missed /\ writer = "starting" THEN stale \union {n} ELSE stale \ {n}
          /\ hidden' = hidden \ {n}
    /\ UNCHANGED <<sources, panel, others, bounds, torn, unsigned>>

(* admin_reset_reputation, whatever the file says of the source.           *)
ResetReputation(name) ==
    /\ Change
    /\ request = Idle
    /\ reputation' = [reputation EXCEPT ![name] = "active"]
    /\ hidden' = hidden \union {name}
    /\ UNCHANGED <<sources, panel, registry, request, others, torn, unsigned, stale>>

(***************************************************************************)
(* The other processes                                                     *)
(***************************************************************************)
(* A mistake to catch: a cycle that cannot read the file uses the last list. *)
CrawlCycleOfLastList ==
    /\ targets' = IF Readable(sources) THEN Approved(sources.entries) ELSE targets
    /\ crawled' = crawled \union targets'
    /\ UNCHANGED <<sources, panel, tables, request, writer, snapshot, bounds, history>>

(* crawl_loop: each cycle visits the approved sources of the file; a file  *)
(* that cannot be read ends the cycle.                                     *)
CrawlCycle ==
    /\ targets' = IF Readable(sources) THEN Approved(sources.entries) ELSE {}
    /\ crawled' = crawled \union targets'
    /\ UNCHANGED <<sources, panel, tables, request, writer, snapshot, bounds, history>>

(* init_source_registry reads the file; if it cannot, db_writer exits and  *)
(* is started again.                                                       *)
WriterReadsFile ==
    /\ writer = "down"
    /\ Readable(sources)
    /\ writer' = "starting"
    /\ snapshot' = sources.entries
    /\ UNCHANGED <<sources, panel, tables, request, targets, crawled, bounds, history>>

(* A mistake to catch: every inserted row is active.                       *)
WriterFillsActive ==
    /\ writer = "starting"
    /\ writer' = "up"
    /\ snapshot' = {}
    /\ registry' = [n \in SourceId |->
           IF registry[n] = "none" /\ n \in Names(snapshot) THEN "active" ELSE registry[n]]
    /\ UNCHANGED <<sources, panel, reputation, request, targets, crawled, bounds, history>>

(* ... and inserts the rows that are missing.                              *)
WriterFillsRegistry ==
    /\ writer = "starting"
    /\ writer' = "up"
    /\ snapshot' = {}
    /\ registry' = [n \in SourceId |->
           IF registry[n] # "none" \/ n \notin Names(snapshot) THEN registry[n]
           ELSE IF n \in Approved(snapshot) THEN "active" ELSE "inactive"]
    /\ UNCHANGED <<sources, panel, reputation, request, targets, crawled, bounds, history>>

(* A mistake to catch: ON CONFLICT (url) DO UPDATE, pending again.          *)
DiscoverCandidateAgain(u) ==
    /\ writer = "up"
    /\ crawled # {}
    /\ candidates' = [candidates EXCEPT ![u] = "pending_review"]
    /\ UNCHANGED <<sources, proposals, tables, request, others, bounds, history>>

(* process_discovered_candidate: ON CONFLICT (url) DO NOTHING              *)
DiscoverCandidate(u) ==
    /\ writer = "up"
    /\ crawled # {}
    /\ candidates' = [candidates EXCEPT ![u] = IF @ = "unknown" THEN "pending_review" ELSE @]
    /\ UNCHANGED <<sources, proposals, tables, request, others, bounds, history>>

(* _update_source_reputation, for a record of a source that was crawled.   *)
(* Whether the patterns reach the limit is the matter of DbWriter.         *)
ScoreSource(name) ==
    /\ writer = "up"
    /\ name \in crawled
    /\ \E status \in {"degraded",
                      IF reputation[name] = "none" THEN "active" ELSE reputation[name]} :
           reputation' = [reputation EXCEPT ![name] = status]
    /\ UNCHANGED <<sources, panel, registry, request, others, bounds, history>>

(***************************************************************************)
(* Faults                                                                  *)
(***************************************************************************)
Fault == faults < MaxFaults /\ faults' = faults + 1 /\ UNCHANGED changes

(* The database fails, or the dashboard is stopped, before the commit.     *)
CommitFails ==
    /\ Fault
    /\ request.step \in {"approving", "rewritten"}
    /\ request' = Idle
    /\ IF request.step = "approving"
       THEN unsigned' = unsigned \union {request.id} /\ UNCHANGED <<stale, hidden>>
       ELSE /\ stale' = stale \union {request.name}
            /\ hidden' = hidden \union {request.name}
            /\ UNCHANGED unsigned
    /\ UNCHANGED <<sources, panel, tables, others, torn>>

(* The dashboard is stopped, or the disk is full, between the truncation   *)
(* and the write.                                                          *)
RewriteCutShort ==
    /\ Fault
    /\ request.step = "rewriting"
    /\ request' = Idle
    /\ torn' = TRUE
    /\ UNCHANGED <<sources, panel, tables, others, unsigned, stale, hidden>>

WriterStops ==
    /\ Fault
    /\ writer # "down"
    /\ writer' = "down"
    /\ snapshot' = {}
    /\ UNCHANGED <<sources, panel, tables, request, targets, crawled, history>>

(***************************************************************************)
(* The specification                                                       *)
(***************************************************************************)
Reviewing ==
    \/ \E n \in Proposable : ProposeSource(n)
    \/ \E u \in Url, n \in Proposable : PromoteCandidate(u, n)
    \/ \E u \in Url : RejectCandidate(u)
    \/ \E n \in SourceId : ResetReputation(n)
    \/ \E i \in 1..MaxProposals : RejectSource(i) \/ AppendSource(i)
    \/ \E n \in SourceId, s \in Requested : OpenForRewrite(n, s)

(* The rest of a handler that has begun.                                   *)
Handling == CommitApproval \/ RewriteFile \/ CommitStatus

Writing ==
    \/ WriterReadsFile
    \/ WriterFillsRegistry
    \/ \E u \in Url : DiscoverCandidate(u)
    \/ \E n \in SourceId : ScoreSource(n)

Faulting == CommitFails \/ RewriteCutShort \/ WriterStops

Next == Reviewing \/ Handling \/ CrawlCycle \/ Writing \/ Faulting

Spec == Init /\ [][Next]_vars

(* The crawler starts cycle after cycle, and a handler runs to its end.    *)
FairSpec ==
    /\ Spec
    /\ WF_vars(CrawlCycle)
    /\ WF_vars(Handling)

(***************************************************************************)
(* Properties                                                              *)
(***************************************************************************)
(* One entry per source_id, although the same name can be proposed any     *)
(* number of times, an approval can fail between the file and the          *)
(* database and be tried again, and entries get lost: the crawler visits   *)
(* every approved entry, and a status change only finds the first.         *)
SourcesUnique ==
    \A e, f \in sources.entries : e.source_id = f.source_id => e = f

(* File and reviews account for each other.  An entry that is not shipped  *)
(* belongs to a proposal of that name whose approval was committed, except *)
(* while it is being committed and after the commit failed.  A proposal    *)
(* whose approval was committed has its entry in the file, except while    *)
(* the file is rewritten and once a rewrite was cut short.                 *)
ReviewsAccounted ==
    /\ \A e \in sources.entries : e.from # 0 =>
        /\ e.from \in DOMAIN proposals
        /\ proposals[e.from].source_id = e.source_id
        /\ \/ proposals[e.from].status = "approved"
           \/ e.from \in unsigned
           \/ request = [step |-> "approving", id |-> e.from]
    /\ \A i \in DOMAIN proposals : proposals[i].status = "approved" =>
        \/ torn
        \/ request.step = "rewriting"
        \/ \E e \in sources.entries : e.from = i

ChangeUnderWay(name) == request.step \in {"rewriting", "rewritten"} /\ request.name = name

(* The registry the panel shows agrees with the file the crawler obeys,    *)
(* whatever db_writer reads and inserts while administrators change        *)
(* statuses.  The exceptions: a change whose commit failed, a change that  *)
(* was committed before the row it had to update was inserted from an      *)
(* older reading of the file, and a file that was cut short.               *)
RegistryAgrees ==
    ~torn =>
        \A e \in sources.entries :
            \/ registry[e.source_id] = "none"
            \/ e.source_id \in stale
            \/ ChangeUnderWay(e.source_id)
            \/ registry[e.source_id] = "active" <=> e.status = "approved"

Frozen == {"retired", "quarantined"}

(* A source an administrator froze is never shown as active, whatever      *)
(* db_writer scores late, unless its reputation was reset after that or    *)
(* the commit failed.                                                      *)
FrozenShown ==
    \A e \in sources.entries :
        e.status \in Frozen =>
            \/ e.source_id \in hidden
            \/ ChangeUnderWay(e.source_id)
            \/ reputation[e.source_id] # "active"

(* What a human decided stays decided: no request of another administrator *)
(* changes a reviewed proposal, and a rejected or promoted address that is *)
(* found again is not offered for review again.                            *)
ReviewsFinal ==
    [][ /\ \A i \in DOMAIN proposals :
            proposals[i].status # "pending_review" => proposals'[i] = proposals[i]
        /\ \A u \in Url :
            candidates[u] \in {"approved", "rejected"} => candidates'[u] = candidates[u]
      ]_vars

(* A source that is not approved any more is not crawled any more, even if *)
(* the change was never committed or left the file unreadable.             *)
RetirementTakesEffect ==
    \A n \in SourceId :
        <>[](n \notin Approved(sources.entries)) => <>[](n \notin targets)

=============================================================================
