------------------------------ MODULE Analysis ------------------------------
(***************************************************************************)
(* src/analysis: extracts entities, publishes the record to analysis.ready *)
(* and then one discovery.candidate per onion address, each publish on its *)
(* own: a failure or a crash in between leaves the earlier ones done.      *)
(***************************************************************************)
EXTENDS Broker

VARIABLE linksLeft  \* onion addresses of the record in hand still to publish

analysisVars == <<linksLeft>>

AnalysisTypeOK == linksLeft \in SUBSET Url

AnalysisInit == linksLeft = {}

(* The record itself first.                                                *)
PublishAnalysis ==
    /\ step["analysis"] = "taken"
    /\ LET m == hand["analysis"] IN
        /\ Publish("analysis.ready", m)
        /\ linksLeft' = LinksOf[m.rec]
        /\ IF LinksOf[m.rec] = {}
           THEN Finish("analysis")
           ELSE Advance("analysis", "linking")
    /\ UNCHANGED discovery

(* A mistake to catch: the handler does not end with the last address.     *)
PublishCandidateForever(u) ==
    /\ step["analysis"] = "linking"
    /\ u \in linksLeft
    /\ discovery' = Append(discovery, [url |-> u, from |-> SourceOf[hand["analysis"].rec]])
    /\ linksLeft' = linksLeft \ {u}
    /\ UNCHANGED <<queue, hand, step>>

(* list(set(...)): the addresses come out in an arbitrary order.           *)
PublishCandidate(u) ==
    /\ step["analysis"] = "linking"
    /\ u \in linksLeft
    /\ discovery' = Append(discovery, [url |-> u, from |-> SourceOf[hand["analysis"].rec]])
    /\ linksLeft' = linksLeft \ {u}
    /\ IF linksLeft = {u}
       THEN Finish("analysis")
       ELSE UNCHANGED <<hand, step>>
    /\ UNCHANGED queue
=============================================================================
