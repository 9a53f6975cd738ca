----------------------------- MODULE MCParts -----------------------------
(* The sequential parts for TLC.  They share no state: in one behaviour one *)
(* of them runs and the others wait, so that their state spaces are added  *)
(* and not multiplied.                                                     *)
EXTENDS Classifier, RateLimiter, AccessQueue, Findings, TLC

MCCategory ==
    <<"malware_sale", "credential_leak", "drug_trafficking", "terrorism_extremism",
      "child_exploitation", "money_laundering">>

MCBase ==
    [c \in Range(MCCategory) |->
        CASE c = "malware_sale"        -> ("Vidar" :> 15)
          [] c = "credential_leak"     -> ("combo" :> 10)
          [] c = "drug_trafficking"    -> ("vendor" :> 5)
          [] c = "terrorism_extremism" -> ("ISIS" :> 15) @@ ("attack planning" :> 20)
          [] c = "child_exploitation"  -> ("pthc" :> 14)
          [] c = "money_laundering"    -> ("anti-money laundering" :> 16)]

MCExtra == ("malware_sale" :> ("Vidar" :> 14))

(* "anti-money laundering" is a marker, and a hit for "money laundering".  *)
MCMarkerWeight ==
    ("were arrested" :> 15) @@ ("documentation" :> 6) @@ ("anti-money laundering" :> 14)

MCIocWeight ==
    ("cves" :> ("malware_sale" :> 5))
      @@ ("onion" :> (("drug_trafficking" :> 4) @@ ("malware_sale" :> 4)))

MCWord ==
    [word : {"Vidar", "vendor", "ISIS", "attack planning", "pthc",
             "were arrested", "documentation", "anti-money laundering",
             "credentials", "line"},
     spelling : {"listed"}]
      \cup [word : {"ISIS", "anti-money laundering"}, spelling : {"other"}]

MCWidth ==
    ("Vidar" :> 2) @@ ("vendor" :> 1) @@ ("ISIS" :> 1) @@ ("attack planning" :> 3)
      @@ ("pthc" :> 1) @@ ("were arrested" :> 1) @@ ("documentation" :> 2)
      @@ ("credentials" :> 2) @@ ("line" :> 5) @@ ("combo" :> 1)
      @@ ("anti-money laundering" :> 3)

CONSTANTS f1, f2, f3, f4, f5

MCSymmetry == Permutations({f1, f2, f3, f4, f5})

Init == ClassifierInit /\ RateLimiterInit /\ AccessQueueInit /\ FindingsInit

ClassifierIdle == text = <<>> /\ entities = {}
LimiterIdle == clock = 0 /\ answers = <<>>
AccessQueueIdle == doing = "idle"
FindingsIdle == table = <<>> /\ phase = "idle" /\ filter = "none"

Next ==
    \/ /\ LimiterIdle /\ AccessQueueIdle /\ FindingsIdle
       /\ ClassifierNext
       /\ UNCHANGED <<limiterVars, accessVars, findingsVars>>
    \/ /\ ClassifierIdle /\ AccessQueueIdle /\ FindingsIdle
       /\ RateLimiterNext
       /\ UNCHANGED <<classifierVars, accessVars, findingsVars>>
    \/ /\ ClassifierIdle /\ LimiterIdle /\ FindingsIdle
       /\ AccessQueueNext
       /\ UNCHANGED <<classifierVars, limiterVars, findingsVars>>
    \/ /\ ClassifierIdle /\ LimiterIdle /\ AccessQueueIdle
       /\ FindingsNext
       /\ UNCHANGED <<classifierVars, limiterVars, accessVars>>

Spec == Init /\ [][Next]_<<classifierVars, limiterVars, accessVars, findingsVars>>
==========================================================================
