---------------------------- MODULE GovernanceProofs ----------------------------
(***************************************************************************)
(* Proofs about source governance, for any sources, shipped entries and    *)
(* addresses, and any numbers of proposals, changes and faults.            *)
(***************************************************************************)
EXTENDS Governance, TLAPS

(***************************************************************************)
(* Types                                                                   *)
(***************************************************************************)
LEMMA TypeInit == Init => TypeOK
<1> SUFFICES ASSUME Init PROVE TypeOK
  OBVIOUS
<1>1. <<>> \in Seq([source_id : SourceId, status : Review]) /\ Len(<<>>) = 0
  OBVIOUS
<1>2. 0 <= MaxProposals /\ 0 \in 0..MaxChanges /\ 0 \in 0..MaxFaults
  BY GovernanceAssumption DEF GovernanceAssumption
<1>3. sources \in Document
  BY GovernanceAssumption DEF Init, Document, GovernanceAssumption
<1>4. request \in Request /\ request.step # "approving"
  BY DEF Init, Request, Idle
<1>5. reputation \in [SourceId -> ReputationStatus \union {"none"}]
  BY DEF Init, ReputationStatus
<1>6. QED
  BY <1>1, <1>2, <1>3, <1>4, <1>5 DEF Init, TypeOK, Review

(* The document with one status replaced is a document.                    *)
LEMMA WithStatusType ==
  ASSUME NEW document \in Document, NEW name \in SourceId, NEW status \in Status
  PROVE  WithStatus(document, name, status) \in Document
<1>1. \A e \in document.entries :
          (IF e.source_id = name THEN [e EXCEPT !.status = status] ELSE e) \in Entry
  BY DEF Document, Entry
<1>2. QED
  BY <1>1 DEF WithStatus, Document

(* Elements of a sequence.                                                 *)
LEMMA ElementType ==
  ASSUME NEW S, NEW q \in Seq(S) PROVE \A i \in DOMAIN q : q[i] \in S
  OBVIOUS

LEMMA ProposalsType ==
  ASSUME TypeOK
  PROVE  /\ Len(proposals) \in Nat
         /\ DOMAIN proposals = 1..Len(proposals)
         /\ DOMAIN proposals \subseteq 1..MaxProposals
         /\ \A i \in DOMAIN proposals :
                /\ proposals[i] \in [source_id : SourceId, status : Review]
                /\ proposals[i].source_id \in SourceId
                /\ proposals[i].status \in Review
<1>1. proposals \in Seq([source_id : SourceId, status : Review]) /\ Len(proposals) <= MaxProposals
  BY DEF TypeOK
<1>2. \A i \in DOMAIN proposals : proposals[i] \in [source_id : SourceId, status : Review]
  BY <1>1, ElementType
<1>3. Len(proposals) \in Nat /\ DOMAIN proposals = 1..Len(proposals)
  BY <1>1
<1>4. DOMAIN proposals \subseteq 1..MaxProposals
  BY <1>1, <1>3, GovernanceAssumption DEF GovernanceAssumption
<1>5. \A i \in DOMAIN proposals :
          proposals[i].source_id \in SourceId /\ proposals[i].status \in Review
  BY <1>2
<1>6. QED
  BY <1>2, <1>3, <1>4, <1>5

(* A review changes the status of one proposal and the length of nothing.  *)
LEMMA ReviewType ==
  ASSUME TypeOK, NEW i \in DOMAIN proposals, NEW r \in Review,
         proposals' = [proposals EXCEPT ![i].status = r]
  PROVE  /\ proposals' \in Seq([source_id : SourceId, status : Review])
         /\ Len(proposals') = Len(proposals)
         /\ DOMAIN proposals' = DOMAIN proposals
         /\ \A j \in DOMAIN proposals :
                /\ proposals'[j].source_id = proposals[j].source_id
                /\ proposals'[j].status = IF j = i THEN r ELSE proposals[j].status
<1>1. proposals[i] \in [source_id : SourceId, status : Review]
  BY ProposalsType
<1>2. [proposals[i] EXCEPT !.status = r] \in [source_id : SourceId, status : Review]
  BY <1>1
<1>3. proposals' = [proposals EXCEPT ![i] = [proposals[i] EXCEPT !.status = r]]
  OBVIOUS
<1>4. /\ proposals' \in Seq([source_id : SourceId, status : Review])
      /\ Len(proposals') = Len(proposals)
      /\ DOMAIN proposals' = DOMAIN proposals
  BY <1>2, <1>3 DEF TypeOK
<1>5. ASSUME NEW j \in DOMAIN proposals
      PROVE  /\ proposals'[j].source_id = proposals[j].source_id
             /\ proposals'[j].status = IF j = i THEN r ELSE proposals[j].status
  <2>1. CASE j = i
    BY <1>1, <1>3, <2>1
  <2>2. CASE j # i
    BY <1>3, <2>2
  <2>3. QED
    BY <2>1, <2>2
<1>6. QED
  BY <1>4, <1>5

(* A proposal is added at the end and the others stay what they are.       *)
LEMMA ProposeType ==
  ASSUME TypeOK, NEW n \in SourceId, Len(proposals) < MaxProposals,
         proposals' = Append(proposals, Proposal(n))
  PROVE  /\ proposals' \in Seq([source_id : SourceId, status : Review])
         /\ Len(proposals') <= MaxProposals
         /\ Len(proposals') = Len(proposals) + 1
         /\ DOMAIN proposals \subseteq DOMAIN proposals'
         /\ \A j \in DOMAIN proposals : proposals'[j] = proposals[j]
         /\ \A j \in DOMAIN proposals' \ DOMAIN proposals :
                proposals'[j].status = "pending_review"
<1>1. Proposal(n) \in [source_id : SourceId, status : Review]
  BY DEF Proposal, Review
<1>2. Proposal(n).status = "pending_review"
  BY DEF Proposal
<1>3. QED
  BY <1>1, <1>2, GovernanceAssumption DEF TypeOK, GovernanceAssumption

LEMMA TypeReviewing == TypeOK /\ Reviewing => TypeOK'
<1> SUFFICES ASSUME TypeOK, Reviewing PROVE TypeOK'
  OBVIOUS
<1> USE GovernanceAssumption
    DEF GovernanceAssumption, tables, others, bounds, history
<1>1. ASSUME NEW n \in Proposable, ProposeSource(n) PROVE TypeOK'
  <2>1. n \in SourceId
    OBVIOUS
  <2>2. QED
    BY <1>1, <2>1, ProposeType DEF ProposeSource, TypeOK, Idle
<1>2. ASSUME NEW u \in Url, NEW n \in Proposable, PromoteCandidate(u, n) PROVE TypeOK'
  <2>1. n \in SourceId
    OBVIOUS
  <2>2. candidates' \in [Url -> Review \union {"unknown"}]
    BY <1>2 DEF PromoteCandidate, TypeOK, Review
  <2>3. QED
    BY <1>2, <2>1, <2>2, ProposeType DEF PromoteCandidate, TypeOK, Idle
<1>3. ASSUME NEW u \in Url, RejectCandidate(u) PROVE TypeOK'
  BY <1>3 DEF RejectCandidate, TypeOK, Review
<1>4. ASSUME NEW n \in SourceId, ResetReputation(n) PROVE TypeOK'
  BY <1>4 DEF ResetReputation, Change, panel, TypeOK, ReputationStatus
<1>5. ASSUME NEW i \in 1..MaxProposals, RejectSource(i) PROVE TypeOK'
  <2>1. "rejected" \in Review
    BY DEF Review
  <2>2. QED
    BY <1>5, <2>1, ReviewType DEF RejectSource, TypeOK, Idle
<1>6. ASSUME NEW i \in 1..MaxProposals, AppendSource(i) PROVE TypeOK'
  <2>1. [source_id |-> proposals[i].source_id, from |-> i, status |-> "approved"] \in Entry
    BY <1>6, ProposalsType DEF AppendSource, Entry, Status
  <2>2. sources' \in Document
    BY <1>6, <2>1 DEF AppendSource, TypeOK, Document
  <2>3. request' \in Request /\ request'.step = "approving" /\ request'.id = i
    BY <1>6 DEF AppendSource, Request
  <2>4. i <= Len(proposals)
    BY <1>6, ProposalsType DEF AppendSource
  <2>5. QED
    BY <1>6, <2>2, <2>3, <2>4 DEF AppendSource, TypeOK, panel
<1>7. ASSUME NEW n \in SourceId, NEW s \in Requested, OpenForRewrite(n, s) PROVE TypeOK'
  <2>1. s \in Status
    OBVIOUS
  <2>2. WithStatus(sources, n, s) \in Document
    BY <2>1, WithStatusType DEF TypeOK
  <2>3. request' \in Request /\ request'.step = "rewriting"
    BY <1>7, <2>1, <2>2 DEF OpenForRewrite, Request
  <2>4. sources' \in Document
    BY <1>7 DEF OpenForRewrite, Truncated, Document
  <2>5. QED
    BY <1>7, <2>3, <2>4 DEF OpenForRewrite, Change, TypeOK, panel
<1>8. QED
  BY <1>1, <1>2, <1>3, <1>4, <1>5, <1>6, <1>7 DEF Reviewing

(* What a request holds, by its step.                                      *)
LEMMA RequestType ==
  ASSUME TypeOK
  PROVE  /\ request.step \in {"idle", "approving", "rewriting", "rewritten"}
         /\ request.step = "idle" <=> request = Idle
         /\ request.step = "approving" =>
                request.id \in DOMAIN proposals /\ request.id \in 1..MaxProposals
         /\ request.step = "approving" => request = [step |-> "approving", id |-> request.id]
         /\ request.step \in {"rewriting", "rewritten"} =>
                /\ request.name \in SourceId
                /\ request.status \in Status
                /\ request.lines \in Document
                /\ request = [step |-> request.step, name |-> request.name,
                              status |-> request.status, lines |-> request.lines]
<1>1. request \in Request
  BY DEF TypeOK
<1>2. CASE request = Idle
  BY <1>2 DEF Idle
<1>3. CASE request \in [step : {"approving"}, id : 1..MaxProposals]
  <2>1. request.step = "approving" /\ request.id \in 1..MaxProposals
        /\ request = [step |-> "approving", id |-> request.id]
    BY <1>3
  <2>2. request.id \in DOMAIN proposals
    BY <2>1, ProposalsType, GovernanceAssumption DEF TypeOK, GovernanceAssumption
  <2>3. QED
    BY <2>1, <2>2 DEF Idle
<1>4. CASE request \in [step : {"rewriting", "rewritten"}, name : SourceId, status : Status,
                        lines : Document]
  BY <1>4 DEF Idle
<1>5. QED
  BY <1>1, <1>2, <1>3, <1>4 DEF Request

LEMMA TypeHandling == TypeOK /\ Handling => TypeOK'
<1> SUFFICES ASSUME TypeOK, Handling PROVE TypeOK'
  OBVIOUS
<1> USE DEF others, bounds, history
<1>1. CASE CommitApproval
  <2>1. /\ proposals' \in Seq([source_id : SourceId, status : Review])
        /\ Len(proposals') = Len(proposals)
    BY <1>1, RequestType, ReviewType DEF CommitApproval, Review
  <2>2. registry' \in [SourceId -> {"none", "active", "inactive"}]
    BY <1>1 DEF CommitApproval, TypeOK
  <2>3. request' \in Request /\ request'.step = "idle"
    BY <1>1 DEF CommitApproval, Request, Idle
  <2>4. QED
    BY <1>1, <2>1, <2>2, <2>3 DEF CommitApproval, TypeOK
<1>2. CASE RewriteFile
  <2>1. sources' \in Document
    BY <1>2, RequestType DEF RewriteFile
  <2>2. request' = [step |-> "rewritten", name |-> request.name, status |-> request.status,
                    lines |-> Truncated]
    BY <1>2, RequestType DEF RewriteFile
  <2>3. request.name \in SourceId /\ request.status \in Status /\ Truncated \in Document
    BY <1>2, RequestType DEF RewriteFile, Truncated, Document
  <2>4. request' \in Request /\ request'.step = "rewritten"
    BY <2>2, <2>3 DEF Request
  <2>5. QED
    BY <1>2, <2>1, <2>4 DEF RewriteFile, TypeOK, panel, tables
<1>3. CASE CommitStatus
  <2>1. request.name \in SourceId /\ request.status \in Status
    BY <1>3, RequestType DEF CommitStatus
  <2>2. ReputationOf(request.status) \in ReputationStatus
    BY <2>1 DEF ReputationOf, Status, ReputationStatus
  <2>3. reputation' \in [SourceId -> ReputationStatus \union {"none"}]
    BY <1>3, <2>1, <2>2 DEF CommitStatus, TypeOK
  <2>4. registry' \in [SourceId -> {"none", "active", "inactive"}]
    BY <1>3, <2>1 DEF CommitStatus, TypeOK
  <2>5. request' \in Request /\ request'.step = "idle"
    BY <1>3 DEF CommitStatus, Request, Idle
  <2>6. stale' \in SUBSET SourceId /\ hidden' \in SUBSET SourceId
    BY <1>3, <2>1 DEF CommitStatus, TypeOK
  <2>7. QED
    BY <1>3, <2>3, <2>4, <2>5, <2>6 DEF CommitStatus, TypeOK, panel
<1>4. QED
  BY <1>1, <1>2, <1>3 DEF Handling

LEMMA TypeWriting == TypeOK /\ (Writing \/ CrawlCycle) => TypeOK'
<1> SUFFICES ASSUME TypeOK, Writing \/ CrawlCycle PROVE TypeOK'
  OBVIOUS
<1> USE DEF panel, tables, others, bounds, history
<1>1. CASE CrawlCycle
  <2>1. Approved(sources.entries) \in SUBSET SourceId
    BY DEF Approved, TypeOK, Document, Entry
  <2>2. QED
    BY <1>1, <2>1 DEF CrawlCycle, TypeOK
<1>2. CASE WriterReadsFile
  BY <1>2 DEF WriterReadsFile, TypeOK, Document
<1>3. CASE WriterFillsRegistry
  <2>1. registry' \in [SourceId -> {"none", "active", "inactive"}]
    BY <1>3 DEF WriterFillsRegistry, TypeOK
  <2>2. QED
    BY <1>3, <2>1 DEF WriterFillsRegistry, TypeOK
<1>4. ASSUME NEW u \in Url, DiscoverCandidate(u) PROVE TypeOK'
  <2>1. candidates' \in [Url -> Review \union {"unknown"}]
    BY <1>4 DEF DiscoverCandidate, TypeOK, Review
  <2>2. QED
    BY <1>4, <2>1 DEF DiscoverCandidate, TypeOK
<1>5. ASSUME NEW n \in SourceId, ScoreSource(n) PROVE TypeOK'
  <2>1. reputation' \in [SourceId -> ReputationStatus \union {"none"}]
    BY <1>5 DEF ScoreSource, TypeOK, ReputationStatus
  <2>2. QED
    BY <1>5, <2>1 DEF ScoreSource, TypeOK
<1>6. QED
  BY <1>1, <1>2, <1>3, <1>4, <1>5 DEF Writing

LEMMA TypeFaulting == TypeOK /\ Faulting => TypeOK'
<1> SUFFICES ASSUME TypeOK, Faulting PROVE TypeOK'
  OBVIOUS
<1> USE GovernanceAssumption
    DEF GovernanceAssumption, panel, tables, others, bounds, history, Fault
<1>1. Idle \in Request /\ Idle.step = "idle"
  BY DEF Idle, Request
<1>2. CASE CommitFails
  <2>1. CASE request.step = "approving"
    BY <1>1, <1>2, <2>1, RequestType DEF CommitFails, TypeOK
  <2>2. CASE request.step = "rewritten"
    BY <1>1, <1>2, <2>2, RequestType DEF CommitFails, TypeOK
  <2>3. QED
    BY <1>2, <2>1, <2>2 DEF CommitFails
<1>3. CASE RewriteCutShort
  BY <1>1, <1>3 DEF RewriteCutShort, TypeOK
<1>4. CASE WriterStops
  BY <1>4 DEF WriterStops, TypeOK
<1>5. QED
  BY <1>2, <1>3, <1>4 DEF Faulting

(* Every variable keeps its type: among others, every reputation status    *)
(* satisfies the table's CHECK, and a handler that commits an approval has *)
(* its proposal.                                                           *)
THEOREM TypeCorrect == Spec => []TypeOK
<1>1. TypeOK /\ [Next]_vars => TypeOK'
  <2>1. TypeOK /\ UNCHANGED vars => TypeOK'
    BY DEF TypeOK, vars
  <2>2. QED
    BY <2>1, TypeReviewing, TypeHandling, TypeWriting, TypeFaulting DEF Next
<1>2. QED
  BY <1>1, TypeInit, PTL DEF Spec

(***************************************************************************)
(* What is in the file, or in the hands of the handler that rewrites it    *)
(***************************************************************************)
Lines == IF request.step = "rewriting" THEN request.lines.entries ELSE sources.entries

UniqueIn(entries) == \A e, f \in entries : e.source_id = f.source_id => e = f

(* The entry a handler is about to commit is the one in the file.          *)
LinesInv ==
    /\ UniqueIn(Lines)
    /\ request.step = "rewriting" => sources = Truncated
    /\ request.step = "approving" =>
        /\ proposals[request.id].status = "pending_review"
        /\ \E e \in Lines :
            /\ e.from = request.id
            /\ e.source_id = proposals[request.id].source_id
            /\ e.status = "approved"
    /\ request.step \in {"rewriting", "rewritten"} =>
        \A e \in Lines : e.source_id = request.name => e.status = request.status

ReviewInv ==
    /\ \A e \in Lines : e.from # 0 =>
        /\ e.from \in DOMAIN proposals
        /\ proposals[e.from].source_id = e.source_id
        /\ \/ proposals[e.from].status = "approved"
           \/ e.from \in unsigned
           \/ request = [step |-> "approving", id |-> e.from]
    /\ \A i \in DOMAIN proposals : proposals[i].status = "approved" =>
        torn \/ \E e \in Lines : e.from = i

(* As long as the file was not cut short: rows and db_writer's reading are *)
(* about entries of the file, and where a row is missing, the reading      *)
(* agrees with the file, or the name is one that may be out of date.       *)
Listed(n) == \E e \in Lines : e.source_id = n

Excused(n) == n \in stale \/ ChangeUnderWay(n)

RegistryInv ==
    /\ UniqueIn(snapshot)
    /\ snapshot # {} => writer = "starting"
    /\ ~torn =>
        /\ \A n \in SourceId : registry[n] # "none" => Listed(n)
        /\ \A f \in snapshot : Listed(f.source_id)
        /\ \A e \in Lines :
            \/ registry[e.source_id] = "none"
            \/ Excused(e.source_id)
            \/ registry[e.source_id] = "active" <=> e.status = "approved"
        /\ \A e \in Lines, f \in snapshot : e.source_id = f.source_id =>
            \/ registry[e.source_id] # "none"
            \/ Excused(e.source_id)
            \/ f.status = e.status

(* A frozen source without a reputation row was never crawled, so no       *)
(* record of it can make one.                                              *)
FrozenInv ==
    \A e \in Lines :
        e.status \in Frozen =>
            \/ e.source_id \in hidden
            \/ ChangeUnderWay(e.source_id)
            \/ /\ reputation[e.source_id] # "active"
               /\ reputation[e.source_id] = "none" => e.source_id \notin crawled

(***************************************************************************)
(* What the steps do to the file                                           *)
(***************************************************************************)
(* Entries and proposals have the fields they should, and what is visible  *)
(* in the file is what Lines says.                                         *)
LEMMA LinesType ==
  ASSUME TypeOK, LinesInv
  PROVE  /\ Lines \in SUBSET Entry
         /\ \A e \in Lines : e.source_id \in SourceId /\ e.status \in Status
         /\ sources.entries \subseteq Lines
         /\ sources.keyed => sources.entries = Lines
<1>1. sources \in Document
  BY DEF TypeOK
<1>2. Lines \in SUBSET Entry
  BY <1>1, RequestType DEF Lines, Document
<1>3. \A e \in Lines : e.source_id \in SourceId /\ e.status \in Status
  BY <1>2 DEF Entry
<1>4. QED
  BY <1>2, <1>3 DEF Lines, LinesInv, Truncated

(* The steps that write neither the file nor a proposal nor the request.   *)
Quiet == UNCHANGED <<sources, proposals, request>>

LEMMA StepCases ==
  ASSUME [Next]_vars
  PROVE  \/ \E i \in 1..MaxProposals : AppendSource(i) \/ RejectSource(i)
         \/ \E n \in SourceId, s \in Requested : OpenForRewrite(n, s)
         \/ \E n \in Proposable : ProposeSource(n)
         \/ \E u \in Url, n \in Proposable : PromoteCandidate(u, n)
         \/ CommitApproval \/ RewriteFile \/ CommitStatus
         \/ CommitFails \/ RewriteCutShort
         \/ Quiet
<1>1. ASSUME NEW u \in Url, RejectCandidate(u) \/ DiscoverCandidate(u) PROVE Quiet
  BY <1>1 DEF RejectCandidate, DiscoverCandidate, Quiet
<1>2. ASSUME NEW n \in SourceId, ResetReputation(n) \/ ScoreSource(n) PROVE Quiet
  BY <1>2 DEF ResetReputation, ScoreSource, Quiet, panel
<1>3. CrawlCycle \/ WriterReadsFile \/ WriterFillsRegistry \/ WriterStops => Quiet
  BY DEF CrawlCycle, WriterReadsFile, WriterFillsRegistry, WriterStops, Quiet, panel
<1>4. UNCHANGED vars => Quiet
  BY DEF vars, Quiet
<1>5. QED
  BY <1>1, <1>2, <1>3, <1>4 DEF Next, Reviewing, Handling, Writing, Faulting

LEMMA QuietLines == Quiet => UNCHANGED <<Lines, request, proposals>>
  BY DEF Quiet, Lines

LEMMA AppendLines ==
  ASSUME TypeOK, LinesInv, NEW i \in 1..MaxProposals, AppendSource(i)
  PROVE  LET entry == [source_id |-> proposals[i].source_id, from |-> i, status |-> "approved"]
         IN /\ Lines' = Lines \union {entry}
            /\ \A e \in Lines : e.source_id # entry.source_id
            /\ i \in DOMAIN proposals
            /\ request.step = "idle"
            /\ request' = [step |-> "approving", id |-> i]
<1>1. request.step = "idle" /\ request'.step = "approving"
  BY DEF AppendSource, Idle
<1>2. Lines = sources.entries
  BY <1>1 DEF Lines
<1>3. \A e \in Lines : e.source_id # proposals[i].source_id
  BY <1>2 DEF AppendSource, Appendable, Names
<1>4. Lines' = sources.entries \union {[source_id |-> proposals[i].source_id, from |-> i,
                                        status |-> "approved"]}
  BY <1>1 DEF AppendSource, TypeOK, Document, Lines
<1>5. QED
  BY <1>1, <1>2, <1>3, <1>4 DEF AppendSource

LEMMA RewriteLines ==
  ASSUME TypeOK, LinesInv, NEW n \in SourceId, NEW s \in Status, OpenForRewrite(n, s)
  PROVE  /\ \A g \in Lines' : \E e \in Lines :
                /\ g = IF e.source_id = n THEN [e EXCEPT !.status = s] ELSE e
                /\ g.source_id = e.source_id
                /\ g.from = e.from
                /\ g.status = IF e.source_id = n THEN s ELSE e.status
         /\ \A e \in Lines : \E g \in Lines' :
                g.source_id = e.source_id /\ g.from = e.from
         /\ request.step = "idle"
         /\ request'.step = "rewriting" /\ request'.name = n /\ request'.status = s
         /\ sources' = Truncated
<1> DEFINE Restated(e) == IF e.source_id = n THEN [e EXCEPT !.status = s] ELSE e
<1>1. request.step = "idle" /\ request'.step = "rewriting" /\ request'.name = n
      /\ request'.status = s /\ request'.lines = WithStatus(sources, n, s)
  BY DEF OpenForRewrite, Idle
<1>2. Lines = sources.entries
  BY <1>1 DEF Lines
<1>3. Lines' = {Restated(e) : e \in Lines}
  BY <1>1, <1>2 DEF Lines, WithStatus, TypeOK, Document
<1>4. \A e \in Lines : /\ Restated(e).source_id = e.source_id
                       /\ Restated(e).from = e.from
                       /\ Restated(e).status = IF e.source_id = n THEN s ELSE e.status
  BY LinesType DEF Entry
<1>5. QED
  BY <1>1, <1>3, <1>4 DEF OpenForRewrite

(* The rest of a handler: the lines stay, or are lost with the rewrite.    *)
LEMMA HandlerLines ==
  ASSUME TypeOK, LinesInv
  PROVE  /\ CommitApproval \/ CommitStatus \/ CommitFails =>
                /\ Lines' = Lines
                /\ request.step \in {"approving", "rewritten"}
                /\ request' = Idle
         /\ RewriteFile =>
                /\ Lines' = Lines
                /\ request.step = "rewriting"
                /\ request'.step = "rewritten"
                /\ request'.name = request.name
                /\ request'.status = request.status
         /\ RewriteCutShort => Lines' = {} /\ request' = Idle /\ torn'
<1>1. CommitApproval \/ CommitStatus \/ CommitFails =>
          /\ Lines' = Lines
          /\ request.step \in {"approving", "rewritten"}
          /\ request' = Idle
  BY DEF CommitApproval, CommitStatus, CommitFails, Lines, Idle
<1>2. ASSUME RewriteFile
      PROVE  /\ Lines' = Lines
             /\ request.step = "rewriting"
             /\ request'.step = "rewritten"
             /\ request'.name = request.name
             /\ request'.status = request.status
  <2>1. /\ request.step = "rewriting"
        /\ request'.step = "rewritten"
        /\ request'.name = request.name
        /\ request'.status = request.status
    BY <1>2, RequestType DEF RewriteFile
  <2>2. Lines' = Lines
    BY <1>2, <2>1 DEF RewriteFile, Lines
  <2>3. QED
    BY <2>1, <2>2
<1>3. RewriteCutShort => Lines' = {} /\ request' = Idle /\ torn'
  BY DEF RewriteCutShort, Lines, Idle, LinesInv, Truncated
<1>4. QED
  BY <1>1, <1>2, <1>3

(* A new proposal: no request is under way, and the file stays.            *)
LEMMA ProposeLines ==
  ASSUME TypeOK, LinesInv, NEW n \in Proposable,
         ProposeSource(n) \/ \E u \in Url : PromoteCandidate(u, n)
  PROVE  /\ request.step = "idle"
         /\ UNCHANGED <<Lines, sources, request, registry, snapshot, writer, torn, stale, unsigned>>
         /\ DOMAIN proposals \subseteq DOMAIN proposals'
         /\ \A j \in DOMAIN proposals : proposals'[j] = proposals[j]
         /\ \A j \in DOMAIN proposals' \ DOMAIN proposals :
                proposals'[j].status = "pending_review"
<1>1. n \in SourceId
  BY GovernanceAssumption DEF GovernanceAssumption
<1>2. /\ request.step = "idle"
      /\ UNCHANGED <<sources, request, registry, snapshot, writer, torn, stale, unsigned>>
      /\ Len(proposals) < MaxProposals
      /\ proposals' = Append(proposals, Proposal(n))
  BY DEF ProposeSource, PromoteCandidate, Idle, tables, others, history
<1>3. UNCHANGED Lines
  BY <1>2 DEF Lines
<1>4. QED
  BY <1>1, <1>2, <1>3, ProposeType

LEMMA RejectLines ==
  ASSUME TypeOK, LinesInv, NEW i \in 1..MaxProposals, RejectSource(i)
  PROVE  /\ request.step = "idle"
         /\ UNCHANGED <<Lines, sources, request, registry, snapshot, writer, torn, stale, unsigned>>
         /\ i \in DOMAIN proposals
         /\ proposals[i].status = "pending_review"
         /\ DOMAIN proposals' = DOMAIN proposals
         /\ \A j \in DOMAIN proposals :
                /\ proposals'[j].source_id = proposals[j].source_id
                /\ proposals'[j].status = IF j = i THEN "rejected" ELSE proposals[j].status
<1>1. /\ request.step = "idle"
      /\ UNCHANGED <<sources, request, registry, snapshot, writer, torn, stale, unsigned>>
  BY DEF RejectSource, Idle, tables, others, history
<1>2. UNCHANGED Lines
  BY <1>1 DEF Lines
<1>3. "rejected" \in Review
  BY DEF Review
<1>4. QED
  BY <1>1, <1>2, <1>3, ReviewType DEF RejectSource

(***************************************************************************)
(* One entry per source                                                    *)
(***************************************************************************)
LEMMA LinesStep == TypeOK /\ LinesInv /\ [Next]_vars => LinesInv'
<1> SUFFICES ASSUME TypeOK, LinesInv, [Next]_vars PROVE LinesInv'
  OBVIOUS
<1>1. ASSUME NEW i \in 1..MaxProposals, AppendSource(i) PROVE LinesInv'
  <2> DEFINE entry == [source_id |-> proposals[i].source_id, from |-> i, status |-> "approved"]
  <2>1. /\ Lines' = Lines \union {entry}
        /\ \A e \in Lines : e.source_id # entry.source_id
        /\ request'.step = "approving" /\ request'.id = i
    BY <1>1, AppendLines
  <2>2. entry.source_id = proposals[i].source_id /\ entry.from = i /\ entry.status = "approved"
    OBVIOUS
  <2>3. proposals' = proposals /\ proposals[i].status = "pending_review"
    BY <1>1 DEF AppendSource, panel
  <2> HIDE DEF entry
  <2>4. UniqueIn(Lines)'
    BY <2>1 DEF LinesInv, UniqueIn
  <2>5. QED
    BY <2>1, <2>2, <2>3, <2>4 DEF LinesInv
<1>2. ASSUME NEW n \in SourceId, NEW s \in Requested, OpenForRewrite(n, s) PROVE LinesInv'
  <2>1. s \in Status
    BY GovernanceAssumption DEF GovernanceAssumption
  <2>2. UniqueIn(Lines)'
    <3>1. SUFFICES ASSUME NEW g \in Lines', NEW h \in Lines', g.source_id = h.source_id
                   PROVE  g = h
      BY DEF UniqueIn
    <3>2. PICK e \in Lines : /\ g = IF e.source_id = n THEN [e EXCEPT !.status = s] ELSE e
                             /\ g.source_id = e.source_id
      BY <1>2, <2>1, RewriteLines
    <3>3. PICK f \in Lines : /\ h = IF f.source_id = n THEN [f EXCEPT !.status = s] ELSE f
                             /\ h.source_id = f.source_id
      BY <1>2, <2>1, RewriteLines
    <3>4. e = f
      BY <3>1, <3>2, <3>3 DEF LinesInv, UniqueIn
    <3>5. QED
      BY <3>2, <3>3, <3>4
  <2>3. QED
    BY <1>2, <2>1, <2>2, RewriteLines DEF LinesInv
<1>3. CASE CommitApproval \/ CommitStatus \/ CommitFails
  BY <1>3, HandlerLines DEF LinesInv, UniqueIn, Idle
<1>4. CASE RewriteFile
  BY <1>4, HandlerLines DEF LinesInv, UniqueIn
<1>5. CASE RewriteCutShort
  BY <1>5, HandlerLines DEF LinesInv, UniqueIn, Idle
<1>6. ASSUME NEW n \in Proposable, ProposeSource(n) \/ \E u \in Url : PromoteCandidate(u, n)
      PROVE  LinesInv'
  BY <1>6, ProposeLines DEF LinesInv, UniqueIn
<1>7. ASSUME NEW i \in 1..MaxProposals, RejectSource(i) PROVE LinesInv'
  BY <1>7, RejectLines DEF LinesInv, UniqueIn
<1>8. CASE Quiet
  BY <1>8, QuietLines DEF LinesInv, UniqueIn, Quiet
<1>9. QED
  BY <1>1, <1>2, <1>3, <1>4, <1>5, <1>6, <1>7, <1>8, StepCases

LEMMA LinesCorrect == Spec => [](TypeOK /\ LinesInv)
<1>1. Init => LinesInv
  BY GovernanceAssumption DEF Init, LinesInv, UniqueIn, Lines, Idle, GovernanceAssumption
<1>2. QED
  BY <1>1, LinesStep, TypeCorrect, PTL DEF Spec

(* The file never has two entries of one source_id, for any sequence of    *)
(* proposals, approvals, failed commits, retries and lost files.           *)
THEOREM SourcesStayUnique == Spec => []SourcesUnique
<1>1. TypeOK /\ LinesInv => SourcesUnique
  BY LinesType DEF LinesInv, UniqueIn, SourcesUnique
<1>2. QED
  BY <1>1, LinesCorrect, PTL

(***************************************************************************)
(* Decisions stand                                                         *)
(***************************************************************************)
LEMMA DecisionStep ==
  ASSUME TypeOK, LinesInv, [Next]_vars
  PROVE  /\ \A i \in DOMAIN proposals :
                proposals[i].status # "pending_review" => proposals'[i] = proposals[i]
         /\ \A u \in Url :
                candidates[u] \in {"approved", "rejected"} => candidates'[u] = candidates[u]
<1>1. \A i \in DOMAIN proposals :
          proposals[i].status # "pending_review" => proposals'[i] = proposals[i]
  <2>1. ASSUME NEW i \in 1..MaxProposals, AppendSource(i) PROVE proposals' = proposals
    BY <2>1 DEF AppendSource, panel
  <2>2. ASSUME NEW i \in 1..MaxProposals, RejectSource(i), NEW j \in DOMAIN proposals,
               proposals[j].status # "pending_review"
        PROVE  proposals'[j] = proposals[j]
    BY <2>2 DEF RejectSource, TypeOK
  <2>3. ASSUME CommitApproval, NEW j \in DOMAIN proposals, proposals[j].status # "pending_review"
        PROVE  proposals'[j] = proposals[j]
    BY <2>3 DEF CommitApproval, LinesInv, TypeOK
  <2>4. ASSUME NEW n \in Proposable, ProposeSource(n) \/ \E u \in Url : PromoteCandidate(u, n),
               NEW j \in DOMAIN proposals
        PROVE  proposals'[j] = proposals[j]
    BY <2>4, ProposeLines
  <2>5. ASSUME NEW n \in SourceId, NEW s \in Requested, OpenForRewrite(n, s)
        PROVE  proposals' = proposals
    BY <2>5 DEF OpenForRewrite, panel
  <2>6. RewriteFile \/ CommitStatus \/ CommitFails \/ RewriteCutShort \/ Quiet
        => proposals' = proposals
    BY DEF RewriteFile, CommitStatus, CommitFails, RewriteCutShort, Quiet, panel
  <2>7. QED
    BY <2>1, <2>2, <2>3, <2>4, <2>5, <2>6, StepCases
<1>2. \A u \in Url :
          candidates[u] \in {"approved", "rejected"} => candidates'[u] = candidates[u]
  <2> USE DEF TypeOK
  <2>1. ASSUME NEW v \in Url, NEW n \in Proposable, PromoteCandidate(v, n),
               NEW u \in Url, candidates[u] \in {"approved", "rejected"}
        PROVE  candidates'[u] = candidates[u]
    BY <2>1 DEF PromoteCandidate
  <2>2. ASSUME NEW v \in Url, RejectCandidate(v) \/ DiscoverCandidate(v),
               NEW u \in Url, candidates[u] \in {"approved", "rejected"}
        PROVE  candidates'[u] = candidates[u]
    BY <2>2 DEF RejectCandidate, DiscoverCandidate
  <2>3. ASSUME NEW n \in SourceId,
               \/ ResetReputation(n) \/ ScoreSource(n)
               \/ \E s \in Requested : OpenForRewrite(n, s)
        PROVE  candidates' = candidates
    BY <2>3 DEF ResetReputation, ScoreSource, OpenForRewrite, panel
  <2>4. ASSUME NEW n \in Proposable, ProposeSource(n) PROVE candidates' = candidates
    BY <2>4 DEF ProposeSource
  <2>5. ASSUME NEW i \in 1..MaxProposals, RejectSource(i) \/ AppendSource(i)
        PROVE  candidates' = candidates
    BY <2>5 DEF RejectSource, AppendSource, panel
  <2>6. \/ Handling \/ CrawlCycle \/ WriterReadsFile \/ WriterFillsRegistry \/ Faulting
        \/ UNCHANGED vars
        => candidates' = candidates
    BY DEF Handling, CommitApproval, RewriteFile, CommitStatus, CrawlCycle, WriterReadsFile,
           WriterFillsRegistry, Faulting, CommitFails, RewriteCutShort, WriterStops, panel, vars
  <2>7. QED
    BY <2>1, <2>2, <2>3, <2>4, <2>5, <2>6 DEF Next, Reviewing, Writing
<1>3. QED
  BY <1>1, <1>2

(* No step changes a reviewed proposal, or offers a reviewed address again. *)
THEOREM DecisionsStand == Spec => ReviewsFinal
<1>1. TypeOK /\ LinesInv /\ [Next]_vars =>
        [ /\ \A i \in DOMAIN proposals :
                proposals[i].status # "pending_review" => proposals'[i] = proposals[i]
          /\ \A u \in Url :
                candidates[u] \in {"approved", "rejected"} => candidates'[u] = candidates[u]
        ]_vars
  BY DecisionStep
<1>2. QED
  BY <1>1, LinesCorrect, PTL DEF Spec, ReviewsFinal

(***************************************************************************)
(* File and reviews                                                        *)
(***************************************************************************)
LEMMA ReviewStep == TypeOK /\ LinesInv /\ ReviewInv /\ [Next]_vars => ReviewInv'
<1> SUFFICES ASSUME TypeOK, LinesInv, ReviewInv, [Next]_vars PROVE ReviewInv'
  OBVIOUS
<1>1. ASSUME NEW i \in 1..MaxProposals, AppendSource(i) PROVE ReviewInv'
  <2> DEFINE entry == [source_id |-> proposals[i].source_id, from |-> i, status |-> "approved"]
  <2>1. /\ Lines' = Lines \union {entry}
        /\ i \in DOMAIN proposals
        /\ request.step = "idle"
        /\ request' = [step |-> "approving", id |-> i]
    BY <1>1, AppendLines
  <2>2. entry.source_id = proposals[i].source_id /\ entry.from = i
    OBVIOUS
  <2>3. UNCHANGED <<proposals, unsigned, torn>>
    BY <1>1 DEF AppendSource, panel, history
  <2> HIDE DEF entry
  <2>4. \A e \in Lines : e.from # 0 => request # [step |-> "approving", id |-> e.from]
    BY <2>1
  <2>5. QED
    BY <2>1, <2>2, <2>3, <2>4 DEF ReviewInv
<1>2. ASSUME NEW n \in SourceId, NEW s \in Requested, OpenForRewrite(n, s) PROVE ReviewInv'
  <2>1. s \in Status
    BY GovernanceAssumption DEF GovernanceAssumption
  <2>2. UNCHANGED <<proposals, unsigned, torn>>
    BY <1>2 DEF OpenForRewrite, panel, history
  <2>3. \A e \in Lines : request # [step |-> "approving", id |-> e.from]
    BY <1>2, <2>1, RewriteLines
  <2>4. ASSUME NEW g \in Lines', g.from # 0
        PROVE  /\ g.from \in DOMAIN proposals
               /\ proposals[g.from].source_id = g.source_id
               /\ proposals[g.from].status = "approved" \/ g.from \in unsigned
    <3>1. PICK e \in Lines : g.source_id = e.source_id /\ g.from = e.from
      BY <1>2, <2>1, RewriteLines
    <3>2. QED
      BY <2>3, <2>4, <3>1 DEF ReviewInv
  <2>5. ASSUME NEW i \in DOMAIN proposals, proposals[i].status = "approved", ~torn
        PROVE  \E g \in Lines' : g.from = i
    <3>1. PICK e \in Lines : e.from = i
      BY <2>5 DEF ReviewInv
    <3>2. QED
      BY <1>2, <2>1, <3>1, RewriteLines
  <2>6. QED
    BY <2>2, <2>4, <2>5 DEF ReviewInv
<1>3. CASE CommitApproval
  <2>1. Lines' = Lines /\ UNCHANGED <<unsigned, torn>> /\ request.step = "approving"
    BY <1>3, HandlerLines DEF CommitApproval, history
  <2>2. /\ DOMAIN proposals' = DOMAIN proposals
        /\ \A j \in DOMAIN proposals :
              /\ proposals'[j].source_id = proposals[j].source_id
              /\ proposals'[j].status = IF j = request.id THEN "approved" ELSE proposals[j].status
    BY <1>3, <2>1, RequestType, ReviewType DEF CommitApproval, Review
  <2>3. \E e \in Lines : e.from = request.id
    BY <2>1 DEF LinesInv
  <2>4. \A e \in Lines : request = [step |-> "approving", id |-> e.from] => e.from = request.id
    OBVIOUS
  <2>5. QED
    BY <2>1, <2>2, <2>3, <2>4 DEF ReviewInv
<1>4. CASE CommitStatus
  BY <1>4, HandlerLines DEF CommitStatus, ReviewInv, panel
<1>5. CASE CommitFails
  <2>1. Lines' = Lines /\ UNCHANGED <<proposals, torn>>
    BY <1>5, HandlerLines DEF CommitFails, panel
  <2>2. \A e \in Lines : request = [step |-> "approving", id |-> e.from] => e.from \in unsigned'
    BY <1>5 DEF CommitFails
  <2>3. unsigned \subseteq unsigned'
    BY <1>5 DEF CommitFails
  <2>4. QED
    BY <2>1, <2>2, <2>3 DEF ReviewInv
<1>6. CASE RewriteFile
  BY <1>6, HandlerLines DEF RewriteFile, ReviewInv, panel, history
<1>7. CASE RewriteCutShort
  BY <1>7, HandlerLines DEF RewriteCutShort, ReviewInv
<1>8. ASSUME NEW n \in Proposable, ProposeSource(n) \/ \E u \in Url : PromoteCandidate(u, n)
      PROVE  ReviewInv'
  BY <1>8, ProposeLines DEF ReviewInv
<1>9. ASSUME NEW i \in 1..MaxProposals, RejectSource(i) PROVE ReviewInv'
  BY <1>9, RejectLines DEF ReviewInv
<1>10. CASE Quiet
  <2>1. \/ UNCHANGED <<unsigned, torn>>
        \/ ~Quiet
    BY DEF Next, Reviewing, Handling, Writing, Faulting, Quiet, ProposeSource, PromoteCandidate,
           RejectCandidate, ResetReputation, RejectSource, AppendSource, OpenForRewrite,
           CommitApproval, RewriteFile, CommitStatus, CrawlCycle, WriterReadsFile,
           WriterFillsRegistry, DiscoverCandidate, ScoreSource, CommitFails, RewriteCutShort,
           WriterStops, history, vars, Idle
  <2>2. QED
    BY <1>10, <2>1, QuietLines DEF ReviewInv, Quiet
<1>11. QED
  BY <1>1, <1>2, <1>3, <1>4, <1>5, <1>6, <1>7, <1>8, <1>9, <1>10, StepCases

(* Every entry that was not shipped has a committed review, except those   *)
(* whose commit failed or is under way; and no approved one is missing,    *)
(* except under a rewrite or after a lost file.                            *)
THEOREM ReviewsHold == Spec => []ReviewsAccounted
<1>1. Init => ReviewInv
  BY GovernanceAssumption DEF Init, ReviewInv, Lines, Idle, GovernanceAssumption
<1>2. TypeOK /\ LinesInv /\ ReviewInv => ReviewsAccounted
  <2> SUFFICES ASSUME TypeOK, LinesInv, ReviewInv PROVE ReviewsAccounted
    OBVIOUS
  <2>1. request.step # "rewriting" => sources.entries = Lines
    BY DEF Lines
  <2>2. QED
    BY <2>1, LinesType DEF ReviewInv, ReviewsAccounted
<1>3. QED
  BY <1>1, <1>2, ReviewStep, LinesCorrect, PTL DEF Spec

(***************************************************************************)
(* File and registry                                                       *)
(***************************************************************************)
LEMMA SnapshotType ==
  ASSUME TypeOK PROVE \A f \in snapshot : f.source_id \in SourceId
  BY DEF TypeOK, Entry

(* db_writer's insert takes each missing row from its own reading.         *)
LEMMA FilledRow ==
  ASSUME TypeOK, RegistryInv, WriterFillsRegistry, NEW n \in SourceId
  PROVE  /\ registry[n] # "none" => registry'[n] = registry[n]
         /\ n \notin Names(snapshot) => registry'[n] = registry[n]
         /\ \A f \in snapshot : f.source_id = n /\ registry[n] = "none" =>
                registry'[n] = IF f.status = "approved" THEN "active" ELSE "inactive"
<1>1. \A f \in snapshot : f.source_id = n => n \in Names(snapshot)
  BY DEF Names
<1>2. \A f \in snapshot : f.source_id = n =>
          (n \in Approved(snapshot) <=> f.status = "approved")
  BY DEF Approved, RegistryInv, UniqueIn
<1>3. registry'[n] = IF registry[n] # "none" \/ n \notin Names(snapshot) THEN registry[n]
                     ELSE IF n \in Approved(snapshot) THEN "active" ELSE "inactive"
  BY DEF WriterFillsRegistry
<1>4. QED
  BY <1>1, <1>2, <1>3

LEMMA RegistryQuiet ==
  ASSUME TypeOK, LinesInv, RegistryInv, [Next]_vars, Quiet
  PROVE  RegistryInv'
<1>1. Lines' = Lines /\ request' = request
  BY QuietLines
<1>2. CASE WriterReadsFile
  <2>1. /\ snapshot' = Lines
        /\ writer' = "starting"
        /\ UNCHANGED <<registry, torn, stale>>
    BY <1>2, LinesType DEF WriterReadsFile, Readable, tables, history
  <2>2. UniqueIn(Lines)
    BY DEF LinesInv
  <2>3. QED
    BY <1>1, <2>1, <2>2 DEF RegistryInv, UniqueIn, Excused, ChangeUnderWay, Listed
<1>3. CASE WriterFillsRegistry
  <2>1. snapshot' = {} /\ UNCHANGED <<torn, stale>>
    BY <1>3 DEF WriterFillsRegistry, history
  <2>2. ASSUME ~torn, NEW n \in SourceId, registry'[n] # "none" PROVE Listed(n)
    <3>1. CASE n \in Names(snapshot)
      BY <2>2, <3>1 DEF RegistryInv, Names
    <3>2. CASE n \notin Names(snapshot)
      BY <1>3, <2>2, <3>2, FilledRow DEF RegistryInv
    <3>3. QED
      BY <3>1, <3>2
  <2>3. ASSUME ~torn, NEW e \in Lines
        PROVE  \/ registry'[e.source_id] = "none"
               \/ Excused(e.source_id)
               \/ registry'[e.source_id] = "active" <=> e.status = "approved"
    <3>1. e.source_id \in SourceId
      BY LinesType
    <3>2. CASE registry[e.source_id] # "none" \/ e.source_id \notin Names(snapshot)
      BY <1>3, <2>3, <3>1, <3>2, FilledRow DEF RegistryInv
    <3>3. CASE registry[e.source_id] = "none" /\ e.source_id \in Names(snapshot)
      <4>1. PICK f \in snapshot : f.source_id = e.source_id
        BY <3>3 DEF Names
      <4>2. Excused(e.source_id) \/ f.status = e.status
        BY <2>3, <3>3, <4>1 DEF RegistryInv
      <4>3. registry'[e.source_id] = IF f.status = "approved" THEN "active" ELSE "inactive"
        BY <1>3, <3>1, <3>3, <4>1, FilledRow
      <4>4. QED
        BY <4>2, <4>3
    <3>4. QED
      BY <3>2, <3>3
  <2>4. \A n : Excused(n)' <=> Excused(n)
    BY <1>1, <2>1 DEF Excused, ChangeUnderWay
  <2>5. QED
    BY <1>1, <2>1, <2>2, <2>3, <2>4 DEF RegistryInv, UniqueIn, Listed
<1>4. CASE WriterStops
  <2>1. snapshot' = {} /\ UNCHANGED <<registry, torn, stale>>
    BY <1>4 DEF WriterStops, tables, history
  <2>2. QED
    BY <1>1, <2>1 DEF RegistryInv, UniqueIn, Excused, ChangeUnderWay, Listed
<1>5. CASE ~WriterReadsFile /\ ~WriterFillsRegistry /\ ~WriterStops
  <2>1. UNCHANGED <<registry, snapshot, writer, torn, stale>>
    BY <1>5 DEF Next, Reviewing, Handling, Writing, Faulting, Quiet, ProposeSource,
           PromoteCandidate, RejectCandidate, ResetReputation, RejectSource, AppendSource,
           OpenForRewrite, CommitApproval, RewriteFile, CommitStatus, CrawlCycle,
           DiscoverCandidate, ScoreSource, CommitFails, RewriteCutShort, tables, others,
           history, vars, Idle
  <2>2. QED
    BY <1>1, <2>1 DEF RegistryInv, UniqueIn, Excused, ChangeUnderWay, Listed
<1>6. QED
  BY <1>2, <1>3, <1>4, <1>5

LEMMA RegistryStep ==
  TypeOK /\ LinesInv /\ RegistryInv /\ [Next]_vars => RegistryInv'
<1> SUFFICES ASSUME TypeOK, LinesInv, RegistryInv, [Next]_vars PROVE RegistryInv'
  OBVIOUS
<1>1. ASSUME NEW i \in 1..MaxProposals, AppendSource(i) PROVE RegistryInv'
  <2> DEFINE entry == [source_id |-> proposals[i].source_id, from |-> i, status |-> "approved"]
  <2>1. /\ Lines' = Lines \union {entry}
        /\ \A e \in Lines : e.source_id # entry.source_id
        /\ i \in DOMAIN proposals
        /\ request.step = "idle"
        /\ request'.step = "approving"
    BY <1>1, AppendLines
  <2>2. UNCHANGED <<registry, snapshot, writer, torn, stale>>
    BY <1>1 DEF AppendSource, tables, others, history
  <2>3. entry.source_id \in SourceId /\ ~Listed(entry.source_id)
    BY <2>1, ProposalsType DEF Listed
  <2> HIDE DEF entry
  <2>4. \A n : Excused(n)' <=> Excused(n)
    BY <2>1, <2>2 DEF Excused, ChangeUnderWay
  <2>5. \A n : Listed(n) => Listed(n)'
    BY <2>1 DEF Listed
  <2>6. ~torn => registry[entry.source_id] = "none"
    BY <2>3 DEF RegistryInv
  <2>7. ~torn => \A f \in snapshot : f.source_id # entry.source_id
    BY <2>3 DEF RegistryInv, Listed
  <2>8. QED
    BY <2>1, <2>2, <2>4, <2>5, <2>6, <2>7 DEF RegistryInv, UniqueIn, Listed
<1>2. ASSUME NEW n \in SourceId, NEW s \in Requested, OpenForRewrite(n, s) PROVE RegistryInv'
  <2>1. s \in Status
    BY GovernanceAssumption DEF GovernanceAssumption
  <2>2. UNCHANGED <<registry, snapshot, writer, torn, stale>>
    BY <1>2 DEF OpenForRewrite, tables, others, history
  <2>3. \A m : Excused(m)' <=> m \in stale \/ m = n
    BY <1>2, <2>1, <2>2, RewriteLines DEF Excused, ChangeUnderWay
  <2>4. \A m : Excused(m) <=> m \in stale
    BY <1>2, <2>1, RewriteLines DEF Excused, ChangeUnderWay
  <2>5. \A g \in Lines' : \E e \in Lines :
            /\ g.source_id = e.source_id
            /\ g.status = IF e.source_id = n THEN s ELSE e.status
    BY <1>2, <2>1, RewriteLines
  <2>6. \A m : Listed(m) => Listed(m)'
    BY <1>2, <2>1, RewriteLines DEF Listed
  <2>7. ASSUME ~torn, NEW g \in Lines'
        PROVE  \/ registry[g.source_id] = "none"
               \/ g.source_id \in stale \/ g.source_id = n
               \/ registry[g.source_id] = "active" <=> g.status = "approved"
    BY <2>4, <2>5, <2>7 DEF RegistryInv
  <2>8. ASSUME ~torn, NEW g \in Lines', NEW f \in snapshot, g.source_id = f.source_id
        PROVE  \/ registry[g.source_id] # "none"
               \/ g.source_id \in stale \/ g.source_id = n
               \/ f.status = g.status
    BY <2>4, <2>5, <2>8 DEF RegistryInv
  <2>9. QED
    BY <2>2, <2>3, <2>6, <2>7, <2>8 DEF RegistryInv, UniqueIn, Listed
<1>3. CASE CommitApproval
  <2>1. /\ Lines' = Lines /\ request.step = "approving" /\ request'.step = "idle"
        /\ UNCHANGED <<snapshot, writer, torn, stale>>
    BY <1>3, HandlerLines DEF CommitApproval, others, history, Idle
  <2>2. \A n : (Excused(n) <=> n \in stale) /\ (Excused(n)' <=> n \in stale)
    BY <2>1 DEF Excused, ChangeUnderWay
  <2> DEFINE name == proposals[request.id].source_id
  <2>3. name \in SourceId
    BY <2>1, RequestType, ProposalsType
  <2>4. \A n \in SourceId : registry'[n] =
            IF n = name /\ registry[n] = "none" THEN "active" ELSE registry[n]
    BY <1>3, <2>3 DEF CommitApproval, TypeOK
  <2>5. /\ Listed(name)
        /\ \A e \in Lines : e.source_id = name => e.status = "approved"
    BY <2>1 DEF LinesInv, UniqueIn, Listed
  <2> HIDE DEF name
  <2>6. \A e \in Lines : e.source_id \in SourceId
    BY LinesType
  <2>7. ~torn => \A n \in SourceId : registry'[n] # "none" => Listed(n)
    BY <2>4, <2>5 DEF RegistryInv
  <2>8. ASSUME ~torn, NEW e \in Lines
        PROVE  \/ registry'[e.source_id] = "none"
               \/ e.source_id \in stale
               \/ registry'[e.source_id] = "active" <=> e.status = "approved"
    BY <2>2, <2>4, <2>5, <2>6, <2>8 DEF RegistryInv
  <2>9. ASSUME ~torn, NEW e \in Lines, NEW f \in snapshot, e.source_id = f.source_id
        PROVE  \/ registry'[e.source_id] # "none"
               \/ e.source_id \in stale
               \/ f.status = e.status
    BY <2>2, <2>4, <2>6, <2>9 DEF RegistryInv
  <2>10. QED
    BY <2>1, <2>2, <2>7, <2>8, <2>9 DEF RegistryInv, UniqueIn, Listed
<1>4. CASE CommitStatus
  <2>1. /\ Lines' = Lines /\ request.step = "rewritten" /\ request'.step = "idle"
        /\ UNCHANGED <<snapshot, writer, torn>>
    BY <1>4, HandlerLines DEF CommitStatus, others, Idle
  <2> DEFINE name == request.name
  <2>2. name \in SourceId
    BY <2>1, RequestType
  <2>3. \A n \in SourceId : registry'[n] =
            IF n # name \/ registry[n] = "none" THEN registry[n]
            ELSE IF request.status = "approved" THEN "active" ELSE "inactive"
    BY <1>4, <2>2 DEF CommitStatus, TypeOK
  <2>4. \A n : n # name => (Excused(n) <=> n \in stale) /\ (Excused(n)' <=> n \in stale)
    BY <1>4, <2>1 DEF Excused, ChangeUnderWay, CommitStatus
  <2>5. registry[name] = "none" /\ writer = "starting" => name \in stale'
    BY <1>4 DEF CommitStatus
  <2>6. \A e \in Lines : e.source_id = name => e.status = request.status
    BY <2>1 DEF LinesInv
  <2>7. \A e \in Lines : e.source_id \in SourceId
    BY LinesType
  <2> HIDE DEF name
  <2>8. ~torn => \A n \in SourceId : registry'[n] # "none" => Listed(n)
    BY <2>3 DEF RegistryInv
  <2>9. ASSUME ~torn, NEW e \in Lines
        PROVE  \/ registry'[e.source_id] = "none"
               \/ Excused(e.source_id)'
               \/ registry'[e.source_id] = "active" <=> e.status = "approved"
    <3>1. CASE e.source_id = name
      BY <2>3, <2>6, <2>7, <3>1
    <3>2. CASE e.source_id # name
      BY <2>3, <2>4, <2>7, <2>9, <3>2 DEF RegistryInv
    <3>3. QED
      BY <3>1, <3>2
  <2>10. ASSUME ~torn, NEW e \in Lines, NEW f \in snapshot, e.source_id = f.source_id
         PROVE  \/ registry'[e.source_id] # "none"
                \/ Excused(e.source_id)'
                \/ f.status = e.status
    <3>1. CASE e.source_id = name
      <4>1. writer = "starting"
        BY <2>10 DEF RegistryInv
      <4>2. QED
        BY <2>3, <2>5, <2>7, <3>1, <4>1 DEF Excused
    <3>2. CASE e.source_id # name
      BY <2>3, <2>4, <2>7, <2>10, <3>2 DEF RegistryInv
    <3>3. QED
      BY <3>1, <3>2
  <2>11. QED
    BY <2>1, <2>8, <2>9, <2>10 DEF RegistryInv, UniqueIn, Listed
<1>5. CASE CommitFails
  <2>1. /\ Lines' = Lines /\ request'.step = "idle"
        /\ UNCHANGED <<registry, snapshot, writer, torn>>
    BY <1>5, HandlerLines DEF CommitFails, tables, others, Idle
  <2>2. \A n : Excused(n) => Excused(n)'
    BY <1>5 DEF Excused, ChangeUnderWay, CommitFails
  <2>3. QED
    BY <2>1, <2>2 DEF RegistryInv, UniqueIn, Listed
<1>6. CASE RewriteFile
  <2>1. UNCHANGED <<registry, snapshot, writer, torn, stale>>
    BY <1>6 DEF RewriteFile, tables, others, history
  <2>2. Lines' = Lines /\ \A n : Excused(n)' <=> Excused(n)
    BY <1>6, <2>1, HandlerLines DEF Excused, ChangeUnderWay
  <2>3. QED
    BY <2>1, <2>2 DEF RegistryInv, UniqueIn, Listed
<1>7. CASE RewriteCutShort
  BY <1>7 DEF RewriteCutShort, RegistryInv, UniqueIn, others
<1>8. ASSUME NEW n \in Proposable, ProposeSource(n) \/ \E u \in Url : PromoteCandidate(u, n)
      PROVE  RegistryInv'
  BY <1>8, ProposeLines DEF RegistryInv, UniqueIn, Listed, Excused, ChangeUnderWay
<1>9. ASSUME NEW i \in 1..MaxProposals, RejectSource(i) PROVE RegistryInv'
  BY <1>9, RejectLines DEF RegistryInv, UniqueIn, Listed, Excused, ChangeUnderWay
<1>10. CASE Quiet
  BY <1>10, RegistryQuiet
<1>11. QED
  BY <1>1, <1>2, <1>3, <1>4, <1>5, <1>6, <1>7, <1>8, <1>9, <1>10, StepCases

(* For any interleaving of status changes with db_writer's start: file and *)
(* registry agree, but for the exceptions the property names.              *)
THEOREM RegistryHolds == Spec => []RegistryAgrees
<1>1. Init => RegistryInv
  <2> SUFFICES ASSUME Init PROVE RegistryInv
    OBVIOUS
  <2>1. snapshot = {} /\ \A n \in SourceId : registry[n] = "none"
    BY DEF Init
  <2>2. \A e \in Lines : registry[e.source_id] = "none"
    BY <2>1, GovernanceAssumption DEF Init, Lines, Idle, Entry, GovernanceAssumption
  <2>3. QED
    BY <2>1, <2>2 DEF RegistryInv, UniqueIn
<1>2. TypeOK /\ LinesInv /\ RegistryInv => RegistryAgrees
  BY LinesType DEF RegistryInv, RegistryAgrees, Excused
<1>3. QED
  BY <1>1, <1>2, RegistryStep, LinesCorrect, PTL DEF Spec

(***************************************************************************)
(* File and reputation                                                     *)
(***************************************************************************)
(* With one entry per source, a frozen source is not among the approved.   *)
LEMMA FrozenNotApproved ==
  ASSUME TypeOK, LinesInv, NEW e \in Lines, e.status \in Frozen
  PROVE  e.source_id \notin Approved(sources.entries)
<1>1. sources.entries \subseteq Lines
  BY LinesType
<1>2. \A f \in sources.entries : f.source_id = e.source_id => f.status # "approved"
  BY <1>1 DEF LinesInv, UniqueIn, Frozen
<1>3. QED
  BY <1>2 DEF Approved

LEMMA FrozenQuiet ==
  ASSUME TypeOK, LinesInv, FrozenInv, [Next]_vars, Quiet
  PROVE  FrozenInv'
<1>1. Lines' = Lines /\ request' = request
  BY QuietLines
<1>2. \A e \in Lines : e.source_id \in SourceId
  BY LinesType
<1> USE DEF FrozenInv, ChangeUnderWay
<1>3. CASE CrawlCycle
  <2>1. UNCHANGED <<reputation, hidden>> /\ crawled' \subseteq crawled \union Approved(sources.entries)
    BY <1>3 DEF CrawlCycle, tables, history
  <2>2. \A e \in Lines : e.status \in Frozen => e.source_id \notin Approved(sources.entries)
    BY FrozenNotApproved
  <2>3. QED
    BY <1>1, <2>1, <2>2
<1>4. ASSUME NEW n \in SourceId, ScoreSource(n) PROVE FrozenInv'
  <2>1. n \in crawled /\ UNCHANGED <<crawled, hidden>>
    BY <1>4 DEF ScoreSource, others, history
  <2>2. \A m \in SourceId : m # n => reputation'[m] = reputation[m]
    BY <1>4 DEF ScoreSource, TypeOK
  <2>3. reputation[n] \notin {"none", "active"} => reputation'[n] \notin {"none", "active"}
    BY <1>4 DEF ScoreSource, TypeOK
  <2>4. QED
    BY <1>1, <1>2, <2>1, <2>2, <2>3
<1>5. ASSUME NEW n \in SourceId, ResetReputation(n) PROVE FrozenInv'
  <2>1. hidden' = hidden \union {n} /\ UNCHANGED crawled
    BY <1>5 DEF ResetReputation, others
  <2>2. \A m \in SourceId : m # n => reputation'[m] = reputation[m]
    BY <1>5 DEF ResetReputation, TypeOK
  <2>3. QED
    BY <1>1, <1>2, <2>1, <2>2
<1>6. CASE /\ ~CrawlCycle
           /\ \A n \in SourceId : ~ScoreSource(n) /\ ~ResetReputation(n)
  <2>1. UNCHANGED <<reputation, crawled, hidden>>
    BY <1>6 DEF Next, Reviewing, Handling, Writing, Faulting, Quiet, ProposeSource,
           PromoteCandidate, RejectCandidate, RejectSource, AppendSource, OpenForRewrite,
           CommitApproval, RewriteFile, CommitStatus, WriterReadsFile, WriterFillsRegistry,
           DiscoverCandidate, CommitFails, RewriteCutShort, WriterStops, tables, others,
           history, vars, Idle
  <2>2. QED
    BY <1>1, <2>1
<1>7. QED
  BY <1>3, <1>4, <1>5, <1>6

LEMMA FrozenStep == TypeOK /\ LinesInv /\ FrozenInv /\ [Next]_vars => FrozenInv'
<1> SUFFICES ASSUME TypeOK, LinesInv, FrozenInv, [Next]_vars PROVE FrozenInv'
  OBVIOUS
<1> USE DEF FrozenInv, ChangeUnderWay
<1>1. ASSUME NEW i \in 1..MaxProposals, AppendSource(i) PROVE FrozenInv'
  <2> DEFINE entry == [source_id |-> proposals[i].source_id, from |-> i, status |-> "approved"]
  <2>1. Lines' = Lines \union {entry} /\ request.step = "idle"
    BY <1>1, AppendLines
  <2>2. entry.status \notin Frozen
    BY DEF Frozen
  <2>3. UNCHANGED <<reputation, crawled, hidden>>
    BY <1>1 DEF AppendSource, tables, others, history
  <2> HIDE DEF entry
  <2>4. QED
    BY <2>1, <2>2, <2>3
<1>2. ASSUME NEW n \in SourceId, NEW s \in Requested, OpenForRewrite(n, s) PROVE FrozenInv'
  <2>1. s \in Status
    BY GovernanceAssumption DEF GovernanceAssumption
  <2>2. UNCHANGED <<reputation, crawled, hidden>>
    BY <1>2 DEF OpenForRewrite, tables, others, history
  <2>3. \A m : ~ChangeUnderWay(m) /\ (ChangeUnderWay(m)' <=> m = n)
    BY <1>2, <2>1, RewriteLines
  <2>4. \A g \in Lines' : g.source_id # n => \E e \in Lines :
            g.source_id = e.source_id /\ g.status = e.status
    BY <1>2, <2>1, RewriteLines
  <2>5. QED
    BY <2>2, <2>3, <2>4
<1>3. CASE CommitApproval
  BY <1>3, HandlerLines DEF CommitApproval, others, history
<1>4. CASE CommitStatus
  <2>1. Lines' = Lines /\ request.step = "rewritten" /\ UNCHANGED crawled
    BY <1>4, HandlerLines DEF CommitStatus, others
  <2>2. /\ request.name \in SourceId
        /\ \A e \in Lines : e.source_id = request.name => e.status = request.status
    BY <2>1, RequestType DEF LinesInv
  <2>3. /\ \A m \in SourceId : m # request.name => reputation'[m] = reputation[m]
        /\ request.status \in Frozen => reputation'[request.name] = request.status
    BY <1>4, <2>2 DEF CommitStatus, TypeOK, ReputationOf, Frozen
  <2>4. hidden' = hidden \ {request.name}
    BY <1>4 DEF CommitStatus
  <2>5. \A e \in Lines : e.source_id \in SourceId
    BY LinesType
  <2>6. QED
    BY <2>1, <2>2, <2>3, <2>4, <2>5 DEF Frozen
<1>5. CASE CommitFails
  <2>1. Lines' = Lines /\ UNCHANGED <<reputation, crawled>>
    BY <1>5, HandlerLines DEF CommitFails, tables, others
  <2>2. \A n : n \in hidden \/ ChangeUnderWay(n) => n \in hidden'
    BY <1>5 DEF CommitFails
  <2>3. QED
    BY <2>1, <2>2
<1>6. CASE RewriteFile
  BY <1>6, HandlerLines DEF RewriteFile, tables, others, history
<1>7. CASE RewriteCutShort
  BY <1>7, HandlerLines
<1>8. ASSUME NEW n \in Proposable, ProposeSource(n) \/ \E u \in Url : PromoteCandidate(u, n)
      PROVE  FrozenInv'
  BY <1>8, ProposeLines DEF ProposeSource, PromoteCandidate, tables, others, history
<1>9. ASSUME NEW i \in 1..MaxProposals, RejectSource(i) PROVE FrozenInv'
  BY <1>9, RejectLines DEF RejectSource, tables, others, history
<1>10. CASE Quiet
  BY <1>10, FrozenQuiet
<1>11. QED
  BY <1>1, <1>2, <1>3, <1>4, <1>5, <1>6, <1>7, <1>8, <1>9, <1>10, StepCases

(* A frozen source is never shown as active, however late its records are  *)
(* scored, but for the exceptions the property names.                      *)
THEOREM FrozenHolds == Spec => []FrozenShown
<1>1. Init => FrozenInv
  <2> SUFFICES ASSUME Init PROVE FrozenInv
    OBVIOUS
  <2>1. crawled = {} /\ \A n \in SourceId : n \notin Seeded => reputation[n] = "none"
    BY DEF Init
  <2>2. \A e \in Lines : reputation[e.source_id] = "none"
    BY <2>1, GovernanceAssumption DEF Init, Lines, Idle, Entry, GovernanceAssumption
  <2>3. QED
    BY <2>1, <2>2 DEF FrozenInv
<1>2. TypeOK /\ LinesInv /\ FrozenInv => FrozenShown
  BY LinesType DEF FrozenInv, FrozenShown
<1>3. QED
  BY <1>1, <1>2, FrozenStep, LinesCorrect, PTL DEF Spec

=============================================================================
