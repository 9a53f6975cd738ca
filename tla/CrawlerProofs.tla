----------------------------- MODULE CrawlerProofs -----------------------------
(***************************************************************************)
(* Proofs about the crawl cycle, for every site, redirect, bound and       *)
(* number of faults.                                                       *)
(***************************************************************************)
EXTENDS Crawler, AccessQueue, FiniteSetTheorems, TLAPS

(***************************************************************************)
(* Types                                                                   *)
(***************************************************************************)
LEMMA TypeInit == Init => TypeOK
<1> SUFFICES ASSUME Init PROVE TypeOK
  OBVIOUS
<1>1. <<>> \in Seq(Url)
  OBVIOUS
<1>2. QED
  BY <1>1, CrawlerAssumption DEF Init, TypeOK, CrawlerAssumption, Location, Dependency

(* The variables a stop resets.                                            *)
LEMMA StopType ==
  ASSUME TypeOK, Stop
  PROVE  /\ pc' \in Location
         /\ seen' \in SUBSET Url
         /\ buffer' \in Seq(Url)
         /\ targetsLeft' \in SUBSET Target
         /\ target' \in Target
         /\ toVisit' \in SUBSET Url
         /\ attempted' \in SUBSET Url
         /\ visited' \in 0..MAX_PAGES
         /\ requests' \in Nat
         /\ overdue' \in Nat
         /\ client' \in {"closed", "open", "stale"}
         /\ produced' \in [Url -> Nat]
         /\ delivered' \in SUBSET Url
         /\ losses' \in Nat
<1>1. <<>> \in Seq(Url)
  OBVIOUS
<1>2. QED
  BY <1>1, CrawlerAssumption DEF TypeOK, Stop, Location, CrawlerAssumption

(* What a target that is left, a page count and the links of a page do to  *)
(* the crawl's variables.                                                  *)
LEMMA LeaveType ==
  ASSUME LeaveTarget
  PROVE  /\ toVisit' \in SUBSET Url
         /\ attempted' \in SUBSET Url
         /\ visited' \in 0..MAX_PAGES
BY CrawlerAssumption DEF LeaveTarget, CrawlerAssumption

LEMMA ReadType ==
  ASSUME TypeOK, NEW n \in 0..3, ReadPages(n)
  PROVE  requests' \in Nat
BY DEF TypeOK, ReadPages

LEMMA BreakOffType ==
  ASSUME TypeOK, BreakOff
  PROVE  /\ pc' \in Location
         /\ toVisit' \in SUBSET Url
         /\ attempted' \in SUBSET Url
         /\ visited' \in 0..MAX_PAGES
         /\ overdue' \in Nat
<1>1. overdue' = overdue \/ overdue' = overdue + 1
  BY DEF BreakOff
<1>2. QED
  BY <1>1, LeaveType DEF BreakOff, TypeOK, Location

LEMMA LinksType ==
  ASSUME TypeOK, NEW u \in Url, NEW known, NEW n \in 0..MAX_PAGES,
         \/ ExtractLinks(u, known, n)
         \/ toVisit' = toVisit \ {u} /\ GoOn(u, n)
  PROVE  /\ pc' \in Location
         /\ toVisit' \in SUBSET Url
         /\ attempted' \in SUBSET Url
         /\ visited' \in 0..MAX_PAGES
         /\ overdue' \in Nat
<1>1. CASE BreakOff
  BY <1>1, BreakOffType
<1>2. CASE AddLinks(u, known) /\ GoOn(u, n)
  BY <1>2, CrawlerAssumption DEF TypeOK, AddLinks, GoOn, CrawlerAssumption
<1>3. CASE toVisit' = toVisit \ {u} /\ GoOn(u, n)
  BY <1>3 DEF TypeOK, GoOn
<1>4. QED
  BY <1>1, <1>2, <1>3 DEF ExtractLinks

LEMMA PublishType ==
  ASSUME TypeOK, NEW page \in Url, PublishOrBuffer(page)
  PROVE  /\ buffer' \in Seq(Url)
         /\ delivered' \in SUBSET Url
         /\ client' \in {"closed", "open", "stale"}
<1>1. CASE "queue" \in up /\ client # "stale"
  BY <1>1 DEF TypeOK, PublishOrBuffer
<1>2. CASE ~("queue" \in up /\ client # "stale")
  <2>1. Append(buffer, page) \in Seq(Url)
    BY DEF TypeOK
  <2>2. QED
    BY <1>2, <2>1 DEF TypeOK, PublishOrBuffer
<1>3. QED
  BY <1>1, <1>2

LEMMA CrawlPageType ==
  ASSUME TypeOK, NEW u \in Url, CrawlPage(u)
  PROVE  TypeOK'
<1>1. FinalOf[u] \in Url
  BY CrawlerAssumption DEF CrawlerAssumption
<1>2. requests' \in Nat
  BY ReadType DEF CrawlPage, Fetched, Fetches
<1>3. visited + 1 \in 0..MAX_PAGES
  BY CrawlerAssumption DEF CrawlPage, Fetched, Attempt, Pop, TypeOK, CrawlerAssumption
<1>4. \/ ExtractLinks(u, seen', visited + 1)
      \/ toVisit' = toVisit \ {u} /\ GoOn(u, visited + 1)
  BY DEF CrawlPage
<1>5. seen' \in SUBSET Url /\ produced' \in [Url -> Nat]
  BY <1>1 DEF CrawlPage, TypeOK
<1>6. /\ pc' \in Location
      /\ toVisit' \in SUBSET Url
      /\ attempted' \in SUBSET Url
      /\ visited' \in 0..MAX_PAGES
      /\ overdue' \in Nat
  BY <1>3, <1>4, LinksType
<1>7. QED
  BY <1>1, <1>2, <1>5, <1>6, PublishType DEF CrawlPage, TypeOK

(* A flush that breaks off hands over a part of what it found.             *)
LEMMA PartlyFlushed ==
  ASSUME TypeOK, NEW i \in DOMAIN buffer, FlushPartly(i)
  PROVE  /\ buffer' \in Seq(Url)
         /\ delivered' \in SUBSET Url
         /\ delivered' \cup Range(buffer') = delivered \cup Range(buffer)
<1>1. /\ buffer \in Seq(Url) /\ delivered \in SUBSET Url
      /\ DOMAIN buffer = 1..Len(buffer) /\ Len(buffer) \in Nat /\ i \in 1..Len(buffer)
      /\ \A j \in 1..Len(buffer) : buffer[j] \in Url
  BY DEF TypeOK
<1>2. CASE /\ delivered' = delivered \cup {buffer[j] : j \in DOMAIN buffer \ {i}}
           /\ buffer' = <<buffer[i]>>
  <2>1. Range(<<buffer[i]>>) = {buffer[i]} /\ <<buffer[i]>> \in Seq(Url)
    BY <1>1 DEF Range
  <2>2. Range(buffer) = {buffer[j] : j \in DOMAIN buffer \ {i}} \cup {buffer[i]}
    BY <1>1 DEF Range
  <2>3. QED
    BY <1>1, <1>2, <2>1, <2>2
<1>3. CASE /\ delivered' = delivered \cup {buffer[j] : j \in 1..(i - 1)}
           /\ buffer' = SubSeq(buffer, i, Len(buffer))
  <2> DEFINE b == SubSeq(buffer, i, Len(buffer))
  <2>1. /\ b \in Seq(Url) /\ Len(b) = Len(buffer) - i + 1
        /\ \A k \in 1..Len(b) : b[k] = buffer[i + k - 1]
    BY <1>1
  <2>2. DOMAIN b = 1..(Len(buffer) - i + 1)
    BY <2>1
  <2>3. Range(b) = {buffer[j] : j \in i..Len(buffer)}
    <3>1. ASSUME NEW j \in i..Len(buffer)
          PROVE  buffer[j] \in Range(b)
      <4>1. j - i + 1 \in 1..(Len(buffer) - i + 1) /\ i + (j - i + 1) - 1 = j
        BY <1>1
      <4>2. b[j - i + 1] = buffer[j]
        BY <2>1, <4>1
      <4>3. QED
        BY <2>2, <4>1, <4>2 DEF Range
    <3>2. ASSUME NEW k \in DOMAIN b
          PROVE  b[k] \in {buffer[j] : j \in i..Len(buffer)}
      <4>1. i + k - 1 \in i..Len(buffer)
        BY <1>1, <2>2
      <4>2. QED
        BY <2>1, <2>2, <4>1
    <3>3. QED
      BY <3>1, <3>2 DEF Range
  <2>4. Range(buffer) = {buffer[j] : j \in 1..(i - 1)} \cup {buffer[j] : j \in i..Len(buffer)}
    BY <1>1 DEF Range
  <2>5. {buffer[j] : j \in 1..(i - 1)} \subseteq Url
    BY <1>1
  <2>6. QED
    BY <1>1, <1>3, <2>1, <2>3, <2>4, <2>5
<1>4. QED
  BY <1>2, <1>3 DEF FlushPartly

LEMMA TypeNext == TypeOK /\ [Next]_vars => TypeOK'
<1> SUFFICES ASSUME TypeOK, [Next]_vars
             PROVE  TypeOK'
  OBVIOUS
<1> USE DEF TypeOK, memory, history, crawlVars, circuitVars
<1>0. /\ RootOf \in [Target -> Url]
      /\ CIRCUIT_ROTATION_INTERVAL \in Nat
      /\ MAX_PAGES \in Nat
      /\ MaxFaults \in Nat
      /\ <<>> \in Seq(Url)
  BY CrawlerAssumption DEF CrawlerAssumption
<1>1. CASE Start \/ BeginCycle \/ EndCycle \/ TruncateSeenFile \/ SaveSeenUrls
  BY <1>1 DEF Start, BeginCycle, EndCycle, TruncateSeenFile, SaveSeenUrls, Location
<1>2. CASE Halt
  BY <1>2, StopType DEF Halt
<1>3. CASE FlushPublishBuffer
  <2>1. Range(buffer) \subseteq Url
    BY DEF Range
  <2>2. QED
    BY <1>0, <1>3, <2>1 DEF FlushPublishBuffer, Location
<1>4. ASSUME NEW t \in Target, BeginTarget(t)
      PROVE  TypeOK'
  BY <1>0, <1>4 DEF BeginTarget, Location
<1>5. ASSUME NEW u \in Url, SkipKnown(u)
      PROVE  TypeOK'
  BY <1>5 DEF SkipKnown
<1>6. ASSUME NEW u \in Url, FetchNothing(u) \/ FetchRaises(u)
      PROVE  TypeOK'
  <2>1. requests' \in Nat
    BY <1>6, ReadType DEF FetchNothing, FetchRaises, Fetches
  <2>2. CASE FetchNothing(u)
    <3>1. /\ pc' \in Location
          /\ toVisit' \in SUBSET Url
          /\ attempted' \in SUBSET Url
          /\ visited' \in 0..MAX_PAGES
          /\ overdue' \in Nat
      BY <2>2, LinksType DEF FetchNothing
    <3>2. QED
      BY <2>1, <2>2, <3>1 DEF FetchNothing
  <2>3. CASE FetchRaises(u)
    BY <2>1, <2>3, BreakOffType DEF FetchRaises
  <2>4. QED
    BY <1>6, <2>2, <2>3
<1>7. ASSUME NEW u \in Url, HarvestLinks(u)
      PROVE  TypeOK'
  <2>1. requests' \in Nat
    BY <1>7, ReadType DEF HarvestLinks, Fetched, Fetches
  <2>2. /\ pc' \in Location
        /\ toVisit' \in SUBSET Url
        /\ attempted' \in SUBSET Url
        /\ visited' \in 0..MAX_PAGES
        /\ overdue' \in Nat
    BY <1>7, LinksType DEF HarvestLinks
  <2>3. QED
    BY <1>7, <2>1, <2>2 DEF HarvestLinks
<1>8. ASSUME NEW u \in Url, CrawlPage(u)
      PROVE  TypeOK'
  BY <1>8, CrawlPageType
<1>9. CASE EndTarget
  BY <1>9, LeaveType DEF EndTarget, RotateIfDue, Location
<1>10. ASSUME NEW d \in Dependency, DependencyFails(d) \/ DependencyRecovers(d)
       PROVE  TypeOK'
  BY <1>0, <1>10 DEF DependencyFails, DependencyRecovers, Fault
<1>11. CASE Crash
  <2>1. faults' \in 0..MaxFaults
    BY <1>0, <1>11 DEF Crash, Fault
  <2>2. QED
    BY <1>11, <2>1, StopType DEF Crash
<1>12. CASE Interrupt
  <2>1. faults' \in 0..MaxFaults
    BY <1>0, <1>12 DEF Interrupt, Fault
  <2>2. QED
    BY <1>12, <2>1, StopType DEF Interrupt
<1>13. CASE ConnectionDropped \/ CycleError \/ RotationFails \/ SaveFails
  BY <1>0, <1>13, LeaveType
  DEF ConnectionDropped, CycleError, RotationFails, SaveFails, Fault, Location
<1>14. ASSUME NEW i \in DOMAIN buffer, FlushPartly(i)
       PROVE  TypeOK'
  <2>1. /\ pc' \in Location /\ faults' \in 0..MaxFaults
        /\ client' \in {"closed", "open", "stale"} /\ up' \in SUBSET Dependency
    BY <1>0, <1>14 DEF FlushPartly, Fault, Location
  <2>2. /\ buffer' \in Seq(Url) /\ delivered' \in SUBSET Url
        /\ UNCHANGED <<seen, file, targetsLeft, target, toVisit, attempted, visited, requests,
                       overdue, produced, losses>>
    BY <1>14, PartlyFlushed DEF FlushPartly
  <2>3. QED
    BY <2>1, <2>2
<1>15. CASE UNCHANGED vars
  BY <1>15 DEF vars
<1>16. QED
  BY <1>1, <1>2, <1>3, <1>4, <1>5, <1>6, <1>7, <1>8, <1>9, <1>10, <1>11, <1>12, <1>13, <1>14,
     <1>15
  DEF Next, Work

(* The types of the crawl, with every outage, crash and error.             *)
THEOREM TypeCorrect == Spec => []TypeOK
<1>1. QED
  BY TypeInit, TypeNext, PTL DEF Spec

(***************************************************************************)
(* No silent loss while the process lives, and crawl-once                  *)
(***************************************************************************)
(* While nothing was lost, what is remembered was handed over or waits in  *)
(* the buffer; when the process is down, so is what the file remembers.    *)
SeenInv ==
    /\ SeenAccounted
    /\ pc = "down" => seen = {} /\ buffer = <<>>
    /\ pc = "down" /\ losses = 0 => file \subseteq delivered

(* A page is a record once more than there were losses only while it is    *)
(* remembered: in memory, or on disk when the process is down.             *)
OnceInv ==
    \A u \in Url :
        /\ produced[u] <= 1 + losses
        /\ pc # "down" /\ u \notin seen => produced[u] <= losses
        /\ pc = "down" /\ u \notin file => produced[u] <= losses

(* After the links of a page the crawl goes on, or the cycle has ended.    *)
LEMMA LinksFrame ==
  ASSUME NEW u, NEW known, NEW n,
         \/ ExtractLinks(u, known, n)
         \/ toVisit' = toVisit \ {u} /\ GoOn(u, n)
  PROVE  \/ /\ attempted' = attempted \cup {u}
            /\ visited' = n
            /\ UNCHANGED <<pc, overdue>>
            /\ toVisit' \subseteq (toVisit \ {u})
                              \cup (LinksOn[FinalOf[u]] \ (known \cup attempted \cup {u}))
         \/ BreakOff
BY DEF ExtractLinks, AddLinks, GoOn

(* Everything but a new page, a start, a stop, a save and a flush leaves   *)
(* what these invariants speak of as it is.                                *)
LEMMA CrawlFrame ==
  ASSUME [Next]_vars
  PROVE  \/ Start
         \/ FlushPublishBuffer
         \/ \E u \in Url : CrawlPage(u)
         \/ \E i \in DOMAIN buffer : FlushPartly(i)
         \/ pc # "down" /\ Stop
         \/ /\ pc # "down" <=> pc' # "down"
            /\ UNCHANGED <<seen, buffer, produced, delivered, losses>>
            /\ pc = "down" => UNCHANGED file
<1> USE DEF memory, history, crawlVars, circuitVars
<1>1. CASE BeginCycle \/ EndCycle \/ TruncateSeenFile \/ SaveSeenUrls \/ EndTarget
  BY <1>1 DEF BeginCycle, EndCycle, TruncateSeenFile, SaveSeenUrls, EndTarget, TargetDone
<1>2. CASE Halt \/ Crash \/ Interrupt
  BY <1>2 DEF Halt, Crash, Interrupt
<1>3. CASE \E t \in Target : BeginTarget(t)
  BY <1>3 DEF BeginTarget
<1>4. ASSUME NEW u \in Url,
             SkipKnown(u) \/ FetchNothing(u) \/ FetchRaises(u) \/ HarvestLinks(u)
      PROVE  /\ pc # "down" /\ pc' # "down"
             /\ UNCHANGED <<seen, buffer, produced, delivered, losses>>
  <2>1. /\ pc = "crawl" /\ UNCHANGED <<seen, buffer, produced, delivered, losses>>
    BY <1>4 DEF SkipKnown, FetchNothing, FetchRaises, HarvestLinks, Fetched, Attempt, Pop
  <2>2. pc' = pc \/ pc' = "cycle"
    BY <1>4, LinksFrame DEF SkipKnown, FetchNothing, FetchRaises, HarvestLinks, BreakOff, GoOn
  <2>3. QED
    BY <2>1, <2>2
<1>5. CASE \E d \in Dependency : DependencyFails(d) \/ DependencyRecovers(d)
  BY <1>5 DEF DependencyFails, DependencyRecovers
<1>6. CASE ConnectionDropped \/ CycleError \/ RotationFails \/ SaveFails
  BY <1>6 DEF ConnectionDropped, CycleError, RotationFails, SaveFails, TargetDone
<1>7. CASE UNCHANGED vars
  BY <1>7 DEF vars
<1>8. QED
  BY <1>1, <1>2, <1>3, <1>4, <1>5, <1>6, <1>7 DEF Next, Work

LEMMA SeenNext ==
  ASSUME TypeOK, SeenInv, [Next]_vars
  PROVE  SeenInv'
<1> USE DEF SeenInv, SeenAccounted
<1>0. buffer \in Seq(Url) /\ Range(<<>>) = {} /\ losses \in Nat
  BY DEF TypeOK, Range
<1>1. CASE Start
  BY <1>0, <1>1 DEF Start, history
<1>2. CASE FlushPublishBuffer
  BY <1>0, <1>2 DEF FlushPublishBuffer
<1>3. ASSUME NEW u \in Url, CrawlPage(u)
      PROVE  SeenInv'
  <2>1. /\ seen' = seen \cup {FinalOf[u]}
        /\ pc # "down" /\ pc' # "down"
        /\ UNCHANGED losses
    <3>1. seen' = seen \cup {FinalOf[u]} /\ pc = "crawl" /\ UNCHANGED losses
      BY <1>3 DEF CrawlPage, Fetched, Attempt, Pop
    <3>2. pc' = pc \/ pc' = "cycle"
      BY <1>3, LinksFrame DEF CrawlPage, BreakOff
    <3>3. QED
      BY <3>1, <3>2
  <2>2. delivered' \cup Range(buffer') = delivered \cup Range(buffer) \cup {FinalOf[u]}
    <3>1. CASE "queue" \in up /\ client # "stale"
      BY <1>3, <3>1 DEF CrawlPage, PublishOrBuffer
    <3>2. CASE ~("queue" \in up /\ client # "stale")
      <4>1. buffer' = Append(buffer, FinalOf[u]) /\ UNCHANGED delivered
        BY <1>3, <3>2 DEF CrawlPage, PublishOrBuffer
      <4>2. Range(Append(buffer, FinalOf[u])) = Range(buffer) \cup {FinalOf[u]}
        <5> DEFINE b == Append(buffer, FinalOf[u])
        <5>1. /\ DOMAIN b = 1..(Len(buffer) + 1)
              /\ DOMAIN buffer = 1..Len(buffer)
              /\ b[Len(buffer) + 1] = FinalOf[u]
              /\ \A i \in 1..Len(buffer) : b[i] = buffer[i]
              /\ Len(buffer) \in Nat
          BY <1>0
        <5>2. DOMAIN b = DOMAIN buffer \cup {Len(buffer) + 1}
          BY <5>1
        <5>3. QED
          BY <5>1, <5>2 DEF Range
      <4>3. QED
        BY <4>1, <4>2
    <3>3. QED
      BY <3>1, <3>2
  <2>3. QED
    BY <2>1, <2>2
<1>4. CASE pc # "down" /\ Stop
  <2>1. CASE seen = file' /\ buffer = <<>>
    BY <1>0, <1>4, <2>1 DEF Stop
  <2>2. CASE ~(seen = file' /\ buffer = <<>>)
    BY <1>0, <1>4, <2>2 DEF Stop
  <2>3. QED
    BY <2>1, <2>2
<1>5. CASE /\ pc # "down" <=> pc' # "down"
           /\ UNCHANGED <<seen, buffer, produced, delivered, losses>>
           /\ pc = "down" => UNCHANGED file
  BY <1>5
<1>6. ASSUME NEW i \in DOMAIN buffer, FlushPartly(i)
      PROVE  SeenInv'
  BY <1>0, <1>6, PartlyFlushed DEF FlushPartly
<1>7. QED
  BY <1>1, <1>2, <1>3, <1>4, <1>5, <1>6, CrawlFrame

(* An outage alone loses nothing: as long as no stop took anything with    *)
(* it, every remembered page was handed to the broker or is buffered.      *)
THEOREM NothingForgotten == Spec => []SeenAccounted
<1>1. Init => TypeOK /\ SeenInv
  BY TypeInit DEF Init, SeenInv, SeenAccounted
<1>2. TypeOK /\ SeenInv /\ [Next]_vars => TypeOK' /\ SeenInv'
  BY TypeNext, SeenNext
<1>3. SeenInv => SeenAccounted
  BY DEF SeenInv
<1>4. QED
  BY <1>1, <1>2, <1>3, PTL DEF Spec

(* The site of a target holds its root, what its pages redirect to and the *)
(* links on them.                                                          *)
LEMMA SiteClosed ==
  ASSUME NEW t \in Target
  PROVE  /\ RootOf[t] \in Site[t]
         /\ \A u \in Site[t] : FinalOf[u] \in Site[t] /\ LinksOn[FinalOf[u]] \subseteq Site[t]
<1> DEFINE Closed(S) == /\ RootOf[t] \in S
                        /\ \A v \in S : FinalOf[v] \in S /\ LinksOn[FinalOf[v]] \subseteq S
<1>1. Site[t] = {u \in Url : \A S \in SUBSET Url : Closed(S) => u \in S}
  BY DEF Site
<1>2. /\ RootOf[t] \in Url
      /\ \A u \in Url : FinalOf[u] \in Url /\ LinksOn[FinalOf[u]] \subseteq Url
  BY CrawlerAssumption DEF CrawlerAssumption
<1>3. RootOf[t] \in Site[t]
  BY <1>1, <1>2
<1>4. ASSUME NEW u \in Site[t]
      PROVE  FinalOf[u] \in Site[t] /\ LinksOn[FinalOf[u]] \subseteq Site[t]
  <2>1. ASSUME NEW S \in SUBSET Url, Closed(S)
        PROVE  FinalOf[u] \in S /\ LinksOn[FinalOf[u]] \subseteq S
    <3>1. u \in S
      BY <1>1, <2>1
    <3>2. QED
      BY <2>1, <3>1
  <2>2. FinalOf[u] \in Url /\ LinksOn[FinalOf[u]] \subseteq Url
    BY <1>1, <1>2
  <2> HIDE DEF Closed
  <2>3. QED
    BY <1>1, <2>1, <2>2
<1>5. QED
  BY <1>3, <1>4

(* The crawl of a target stays on its site.                                *)
SiteInv == toVisit \subseteq Site[target]

LEMMA SiteNext ==
  ASSUME TypeOK, SiteInv, [Next]_vars
  PROVE  SiteInv'
<1> USE DEF SiteInv, memory, history, crawlVars, circuitVars
<1>0. Site' = Site
  BY DEF Site
<1>1. CASE Start \/ FlushPublishBuffer \/ BeginCycle \/ EndCycle \/ TruncateSeenFile
           \/ SaveSeenUrls
  BY <1>0, <1>1 DEF Start, FlushPublishBuffer, BeginCycle, EndCycle, TruncateSeenFile,
                    SaveSeenUrls
<1>2. CASE Halt \/ Crash \/ Interrupt
  BY <1>2 DEF Halt, Crash, Interrupt, Stop
<1>3. ASSUME NEW t \in Target, BeginTarget(t)
      PROVE  SiteInv'
  <2>1. toVisit' = {RootOf[t]} /\ target' = t
    BY <1>3 DEF BeginTarget
  <2>2. QED
    BY <1>0, <2>1, SiteClosed
<1>4. ASSUME NEW u \in Url,
             SkipKnown(u) \/ FetchNothing(u) \/ FetchRaises(u) \/ HarvestLinks(u) \/ CrawlPage(u)
      PROVE  SiteInv'
  <2>1. u \in Site[target] /\ target \in Target /\ UNCHANGED target
    BY <1>4 DEF SkipKnown, FetchNothing, FetchRaises, HarvestLinks, CrawlPage, Fetched, Attempt,
                Pop, TypeOK
  <2>2. LinksOn[FinalOf[u]] \subseteq Site[target]
    BY <2>1, SiteClosed
  <2>3. CASE SkipKnown(u) \/ FetchNothing(u) \/ FetchRaises(u)
    BY <1>0, <2>1, <2>3 DEF SkipKnown, FetchNothing, FetchRaises, BreakOff, LeaveTarget
  <2>4. CASE HarvestLinks(u) \/ CrawlPage(u)
    <3>1. toVisit' \subseteq toVisit \cup LinksOn[FinalOf[u]]
      BY <2>4, LinksFrame DEF HarvestLinks, CrawlPage, BreakOff, LeaveTarget
    <3>2. QED
      BY <1>0, <2>1, <2>2, <3>1
  <2>5. QED
    BY <1>4, <2>3, <2>4
<1>5. CASE EndTarget \/ CycleError \/ RotationFails
  BY <1>5 DEF EndTarget, CycleError, RotationFails, LeaveTarget
<1>6. ASSUME NEW d \in Dependency, DependencyFails(d) \/ DependencyRecovers(d)
      PROVE  SiteInv'
  BY <1>0, <1>6 DEF DependencyFails, DependencyRecovers
<1>7. CASE ConnectionDropped \/ SaveFails \/ \E i \in DOMAIN buffer : FlushPartly(i)
  BY <1>0, <1>7 DEF ConnectionDropped, SaveFails, FlushPartly
<1>8. CASE UNCHANGED vars
  BY <1>0, <1>8 DEF vars
<1>9. QED
  BY <1>1, <1>2, <1>3, <1>4, <1>5, <1>6, <1>7, <1>8 DEF Next, Work

(* What is found from the root of a target with an access queue is where   *)
(* its address says.                                                       *)
NoRedirects == \A t \in Target \cap QueueWait : \A u \in Site[t] : FinalOf[u] = u

(* The gate lets a page in whatever is remembered; but until the first     *)
(* page of a target nothing that waits is remembered, but for the root.    *)
GateInv ==
    /\ SiteInv
    /\ pc = "down" => toVisit = {}
    /\ AtGate => \A u \in toVisit : u = RootOf[target] \/ u \notin seen

LEMMA GateNext ==
  ASSUME TypeOK, GateInv, [Next]_vars
  PROVE  GateInv'
<1> USE DEF GateInv, AtGate, memory, history, crawlVars, circuitVars
<1>0. SiteInv'
  BY SiteNext
<1>1. CASE Start \/ FlushPublishBuffer \/ BeginCycle \/ EndCycle \/ TruncateSeenFile
           \/ SaveSeenUrls
  BY <1>0, <1>1 DEF Start, FlushPublishBuffer, BeginCycle, EndCycle, TruncateSeenFile,
                    SaveSeenUrls
<1>2. CASE Halt \/ Crash \/ Interrupt
  BY <1>0, <1>2 DEF Halt, Crash, Interrupt, Stop
<1>3. ASSUME NEW t \in Target, BeginTarget(t)
      PROVE  GateInv'
  BY <1>0, <1>3 DEF BeginTarget
<1>4. ASSUME NEW u \in Url, SkipKnown(u) \/ FetchNothing(u)
      PROVE  GateInv'
  BY <1>0, <1>4 DEF SkipKnown, FetchNothing, Attempt, Pop, GoOn
<1>5. ASSUME NEW u \in Url, HarvestLinks(u)
      PROVE  GateInv'
  <2>1. pc = "crawl" /\ UNCHANGED <<target, seen>>
    BY <1>5 DEF HarvestLinks, Fetched, Attempt, Pop
  <2>2. \/ toVisit' = {} /\ pc' = "cycle"
        \/ /\ toVisit' \subseteq toVisit \cup (LinksOn[FinalOf[u]] \ seen)
           /\ UNCHANGED <<pc, visited>>
    BY <1>5, LinksFrame DEF HarvestLinks, BreakOff, LeaveTarget
  <2>3. QED
    BY <1>0, <2>1, <2>2
<1>6. ASSUME NEW u \in Url, CrawlPage(u)
      PROVE  GateInv'
  <2>1. pc = "crawl" /\ visited \in Nat
    BY <1>6 DEF CrawlPage, Fetched, Attempt, Pop, TypeOK
  <2>2. \/ toVisit' = {} /\ pc' = "cycle"
        \/ visited' # 0 /\ pc' = pc
    <3>1. \/ ExtractLinks(u, seen', visited + 1)
          \/ toVisit' = toVisit \ {u} /\ GoOn(u, visited + 1)
      BY <1>6 DEF CrawlPage
    <3>2. \/ visited' = visited + 1 /\ pc' = pc
          \/ BreakOff
      BY <3>1, LinksFrame
    <3>3. BreakOff => toVisit' = {} /\ pc' = "cycle"
      BY DEF BreakOff, LeaveTarget
    <3>4. visited + 1 # 0
      BY <2>1
    <3>5. QED
      BY <3>2, <3>3, <3>4
  <2>3. QED
    BY <1>0, <2>1, <2>2
<1>7. CASE EndTarget \/ CycleError \/ RotationFails \/ \E u \in Url : FetchRaises(u)
  BY <1>0, <1>7 DEF EndTarget, CycleError, RotationFails, FetchRaises, BreakOff, LeaveTarget
<1>8. ASSUME NEW d \in Dependency, DependencyFails(d) \/ DependencyRecovers(d)
      PROVE  GateInv'
  BY <1>0, <1>8 DEF DependencyFails, DependencyRecovers
<1>9. CASE ConnectionDropped \/ SaveFails \/ \E i \in DOMAIN buffer : FlushPartly(i)
  BY <1>0, <1>9 DEF ConnectionDropped, SaveFails, FlushPartly
<1>10. CASE UNCHANGED vars
  BY <1>0, <1>10 DEF vars
<1>11. QED
  BY <1>1, <1>2, <1>3, <1>4, <1>5, <1>6, <1>7, <1>8, <1>9, <1>10 DEF Next, Work

LEMMA OnceNext ==
  ASSUME NoRedirects, TypeOK, GateInv, OnceInv, [Next]_vars
  PROVE  OnceInv'
<1> USE DEF OnceInv
<1>0. produced \in [Url -> Nat] /\ losses \in Nat
  BY DEF TypeOK
<1>1. CASE Start
  BY <1>0, <1>1 DEF Start, history
<1>2. CASE FlushPublishBuffer
  BY <1>0, <1>2 DEF FlushPublishBuffer
<1>3. ASSUME NEW u \in Url, CrawlPage(u)
      PROVE  OnceInv'
  <2>1. /\ seen' = seen \cup {FinalOf[u]}
        /\ produced' = [produced EXCEPT ![FinalOf[u]] = @ + 1]
        /\ pc = "crawl" /\ (pc' = pc \/ pc' = "cycle")
        /\ UNCHANGED <<losses, file>>
        /\ u \in toVisit /\ ~LinkOnly(FinalOf[u])
        /\ FinalOf[u] \notin seen \/ AtGate
    BY <1>3, LinksFrame DEF CrawlPage, Fetched, Attempt, Pop, BreakOff
  <2>2. FinalOf[u] \in Url
    BY CrawlerAssumption DEF CrawlerAssumption
  <2>3. FinalOf[u] \notin seen
    <3> SUFFICES ASSUME AtGate PROVE FinalOf[u] \notin seen
      BY <2>1
    <3>1. FinalOf[u] = u
      BY <2>1 DEF GateInv, SiteInv, NoRedirects, AtGate, TypeOK
    <3>2. QED
      BY <2>1, <3>1 DEF GateInv, LinkOnly
  <2>4. QED
    BY <1>0, <2>1, <2>2, <2>3
<1>4. CASE pc # "down" /\ Stop
  <2>0. pc' = "down" /\ UNCHANGED produced
    BY <1>4 DEF Stop
  <2>1. CASE seen = file' /\ buffer = <<>>
    <3>1. losses' = losses
      BY <1>4, <2>1 DEF Stop
    <3>2. \A u \in Url : u \notin file' => produced[u] <= losses
      BY <1>4, <2>1
    <3>3. QED
      BY <2>0, <3>1, <3>2
  <2>2. CASE ~(seen = file' /\ buffer = <<>>)
    <3>1. losses' = losses + 1
      BY <1>4, <2>2 DEF Stop
    <3>2. QED
      BY <1>0, <2>0, <3>1
  <2>3. QED
    BY <2>1, <2>2
<1>5. CASE /\ pc # "down" <=> pc' # "down"
           /\ UNCHANGED <<seen, buffer, produced, delivered, losses>>
           /\ pc = "down" => UNCHANGED file
  BY <1>0, <1>5
<1>6. ASSUME NEW i \in DOMAIN buffer, FlushPartly(i)
      PROVE  OnceInv'
  BY <1>6 DEF FlushPartly
<1>7. QED
  BY <1>1, <1>2, <1>3, <1>4, <1>5, <1>6, CrawlFrame

(* Where no page behind an access queue is found through a redirect, a     *)
(* content page becomes a record once more than the process has been       *)
(* stopped with unsaved pages, at most: whatever redirects to it on other  *)
(* sites, and however often a gate is passed again.                        *)
THEOREM CrawledOnce ==
  ASSUME NoRedirects
  PROVE  Spec => []CrawlOnce
<1>1. Init => TypeOK /\ GateInv /\ OnceInv
  BY TypeInit DEF Init, GateInv, SiteInv, OnceInv
<1>2. TypeOK /\ GateInv /\ OnceInv /\ [Next]_vars => TypeOK' /\ GateInv' /\ OnceInv'
  BY TypeNext, GateNext, OnceNext
<1>3. OnceInv => CrawlOnce
  BY DEF OnceInv, CrawlOnce
<1>4. QED
  BY <1>1, <1>2, <1>3, PTL DEF Spec

(***************************************************************************)
(* Listings, and the bound on a circuit                                    *)
(***************************************************************************)
LEMMA FreshNext ==
  ASSUME TypeOK, SiteInv, ListingsStayFresh, [Next]_vars
  PROVE  ListingsStayFresh'
<1> USE DEF memory, history, crawlVars, circuitVars
<1>0. Site' = Site /\ \A t \in Target : Listing(t)' = Listing(t)
  BY DEF Site, Listing
<1>1. ASSUME seen' \cup file' \subseteq seen \cup file
      PROVE  ListingsStayFresh'
  BY <1>0, <1>1 DEF ListingsStayFresh
<1>2. CASE Start \/ FlushPublishBuffer \/ BeginCycle \/ EndTarget \/ EndCycle
           \/ TruncateSeenFile \/ SaveSeenUrls
  <2>1. seen' \cup file' \subseteq seen \cup file
    BY <1>2 DEF Start, FlushPublishBuffer, BeginCycle, EndTarget, EndCycle, TruncateSeenFile,
                SaveSeenUrls
  <2>2. QED
    BY <1>1, <2>1
<1>3. CASE Halt \/ Crash \/ Interrupt
  <2>1. seen' = {} /\ file' \in {file, seen}
    BY <1>3 DEF Halt, Crash, Interrupt, Stop
  <2>2. QED
    BY <1>1, <2>1
<1>4. CASE \/ \E t \in Target : BeginTarget(t)
           \/ \E u \in Url : SkipKnown(u) \/ FetchNothing(u) \/ FetchRaises(u) \/ HarvestLinks(u)
  <2>1. UNCHANGED <<seen, file>>
    BY <1>4 DEF BeginTarget, SkipKnown, FetchNothing, FetchRaises, HarvestLinks
  <2>2. QED
    BY <1>1, <2>1
<1>5. ASSUME NEW u \in Url, CrawlPage(u)
      PROVE  ListingsStayFresh'
  <2>1. /\ u \in Site[target] /\ target \in Target /\ ~LinkOnly(FinalOf[u])
        /\ seen' = seen \cup {FinalOf[u]} /\ UNCHANGED file
    BY <1>5 DEF CrawlPage, Fetched, Attempt, Pop, TypeOK, SiteInv
  <2>2. FinalOf[u] \in Site[target] \ Listing(target)
    BY <2>1, SiteClosed DEF LinkOnly, Listing
  <2>3. QED
    BY <1>0, <2>1, <2>2 DEF ListingsStayFresh
<1>6. CASE \/ \E d \in Dependency : DependencyFails(d) \/ DependencyRecovers(d)
           \/ ConnectionDropped \/ CycleError \/ RotationFails \/ SaveFails
           \/ \E i \in DOMAIN buffer : FlushPartly(i)
  <2>1. UNCHANGED <<seen, file>>
    BY <1>6 DEF DependencyFails, DependencyRecovers, ConnectionDropped, CycleError,
                RotationFails, SaveFails, FlushPartly
  <2>2. QED
    BY <1>1, <2>1
<1>7. CASE UNCHANGED vars
  BY <1>1, <1>7 DEF vars
<1>8. QED
  BY <1>2, <1>3, <1>4, <1>5, <1>6, <1>7 DEF Next, Work

(* Whatever links, redirects and patterns there are: a page is remembered  *)
(* by a crawl that can come to it and does not take it for a listing, and  *)
(* so a listing of every target that can come to it never is.              *)
THEOREM ListingsFresh == Spec => []ListingsStayFresh
<1>1. Init => TypeOK /\ SiteInv /\ ListingsStayFresh
  BY TypeInit DEF Init, SiteInv, ListingsStayFresh
<1>2. TypeOK /\ SiteInv /\ ListingsStayFresh /\ [Next]_vars
        => TypeOK' /\ SiteInv' /\ ListingsStayFresh'
  BY TypeNext, SiteNext, FreshNext
<1>3. QED
  BY <1>1, <1>2, PTL DEF Spec

(* What is still to visit was not attempted, so that every fetch of the    *)
(* loop grows "attempted"; a renewal that fails or is skipped is a fault   *)
(* or an overdue cycle, and pays for one more target's pages.              *)
Allowance == CIRCUIT_ROTATION_INTERVAL + (3 * Cardinality(Url)) * (faults + overdue)

CircuitInv ==
    /\ pc = "crawl" => requests < Allowance + 3 * Cardinality(attempted)
    /\ pc # "crawl" => requests < Allowance
    /\ toVisit \cap attempted = {}

LEMMA Sizes ==
  ASSUME IsFiniteSet(Url)
  PROVE  /\ Cardinality(Url) \in Nat
         /\ \A S \in SUBSET Url :
               /\ IsFiniteSet(S)
               /\ Cardinality(S) \in Nat
               /\ Cardinality(S) <= Cardinality(Url)
               /\ \A u \in Url \ S : Cardinality(S \cup {u}) = Cardinality(S) + 1
BY FS_CardinalityType, FS_Subset, FS_AddElement

LEMMA Products ==
  ASSUME NEW n \in Nat, NEW k \in Nat
  PROVE  n * k \in Nat /\ n * (k + 1) = n * k + n
OBVIOUS

LEMMA AllowanceSize ==
  ASSUME TypeOK, IsFiniteSet(Url)
  PROVE  Allowance \in Nat /\ CIRCUIT_ROTATION_INTERVAL <= Allowance
<1> DEFINE n == 3 * Cardinality(Url)
           k == faults + overdue
<1>1. n \in Nat /\ k \in Nat /\ CIRCUIT_ROTATION_INTERVAL \in Nat
  BY Sizes, CrawlerAssumption DEF TypeOK, CrawlerAssumption
<1>2. n * k \in Nat
  BY <1>1, Products
<1>3. Allowance = CIRCUIT_ROTATION_INTERVAL + n * k
  BY DEF Allowance
<1> HIDE DEF n, k
<1>4. QED
  BY <1>1, <1>2, <1>3

LEMMA AllowanceGrows ==
  ASSUME TypeOK, IsFiniteSet(Url)
  PROVE  /\ UNCHANGED <<faults, overdue>> => Allowance' = Allowance
         /\ faults' + overdue' = faults + overdue + 1
              => Allowance' = Allowance + 3 * Cardinality(Url)
<1> DEFINE n == 3 * Cardinality(Url)
           k == faults + overdue
<1>1. n \in Nat /\ k \in Nat /\ CIRCUIT_ROTATION_INTERVAL \in Nat
  BY Sizes, CrawlerAssumption DEF TypeOK, CrawlerAssumption
<1>2. n * k \in Nat /\ n * (k + 1) = n * k + n
  BY <1>1, Products
<1>3. Allowance = CIRCUIT_ROTATION_INTERVAL + n * k
  BY DEF Allowance
<1>4. Allowance' = CIRCUIT_ROTATION_INTERVAL + n * (faults' + overdue')
  BY DEF Allowance
<1>5. UNCHANGED <<faults, overdue>> => Allowance' = Allowance
  BY <1>3, <1>4
<1>6. ASSUME faults' + overdue' = k + 1
      PROVE  Allowance' = Allowance + n
  <2>1. Allowance' = CIRCUIT_ROTATION_INTERVAL + n * (k + 1)
    BY <1>4, <1>6
  <2> HIDE DEF n, k
  <2>2. QED
    BY <1>1, <1>2, <1>3, <2>1
<1>7. QED
  BY <1>5, <1>6

LEMMA CircuitNext ==
  ASSUME IsFiniteSet(Url), TypeOK, TypeOK', CircuitInv, [Next]_vars
  PROVE  CircuitInv'
<1> USE DEF memory, history, crawlVars, circuitVars
<1>0. /\ Cardinality(Url) \in Nat /\ Cardinality(attempted) \in Nat
      /\ Cardinality(attempted) <= Cardinality(Url)
      /\ Allowance \in Nat /\ requests \in Nat
      /\ CIRCUIT_ROTATION_INTERVAL \in Nat \ {0}
      /\ faults \in Nat /\ overdue \in Nat
  BY Sizes, AllowanceSize, CrawlerAssumption DEF TypeOK, CrawlerAssumption
<1>a. Allowance' \in Nat /\ CIRCUIT_ROTATION_INTERVAL <= Allowance'
  <2>1. TypeOK /\ IsFiniteSet(Url) => Allowance \in Nat /\ CIRCUIT_ROTATION_INTERVAL <= Allowance
    BY AllowanceSize
  <2>2. (TypeOK /\ IsFiniteSet(Url) => Allowance \in Nat /\ CIRCUIT_ROTATION_INTERVAL <= Allowance)'
    BY <2>1, AllowanceSize, PTL
  <2>3. QED
    BY <2>2
<1>b. UNCHANGED <<faults, overdue>> => Allowance' = Allowance
  BY AllowanceGrows
<1>c. faults' + overdue' = faults + overdue + 1 => Allowance' = Allowance + 3 * Cardinality(Url)
  BY AllowanceGrows
<1>1. CASE /\ pc' # "crawl" /\ requests' < CIRCUIT_ROTATION_INTERVAL /\ requests' \in Nat
           /\ toVisit' \cap attempted' = {}
  BY <1>0, <1>a, <1>1 DEF CircuitInv
<1>2. CASE /\ faults' + overdue' = faults + overdue + 1
           /\ requests' \in Nat
           /\ \/ requests' = requests
              \/ requests' <= requests + 3 /\ Cardinality(attempted) < Cardinality(Url)
           /\ pc' # "crawl"
           /\ toVisit' \cap attempted' = {}
  BY <1>0, <1>a, <1>c, <1>2 DEF CircuitInv
<1>3. CASE /\ faults' + overdue' = faults + overdue + 1
           /\ UNCHANGED <<requests, toVisit, attempted>>
           /\ pc' = "crawl" => pc = "crawl"
  BY <1>0, <1>c, <1>3 DEF CircuitInv
<1>4. CASE /\ pc # "crawl" /\ pc' # "crawl"
           /\ UNCHANGED <<requests, faults, overdue, toVisit, attempted>>
  BY <1>0, <1>b, <1>4 DEF CircuitInv
<1>5. CASE UNCHANGED <<pc, requests, faults, overdue, toVisit, attempted>>
  BY <1>5, <1>b DEF CircuitInv
<1>6. CASE Halt \/ Crash \/ Interrupt
  BY <1>0, <1>1, <1>6 DEF Halt, Crash, Interrupt, Stop
<1>7. CASE EndTarget
  <2>1. /\ pc' # "crawl" /\ toVisit' = {} /\ requests' < CIRCUIT_ROTATION_INTERVAL
        /\ requests' \in Nat
    BY <1>0, <1>7 DEF EndTarget, RotateIfDue, LeaveTarget
  <2>2. QED
    BY <1>1, <2>1
<1>8. ASSUME NEW t \in Target, BeginTarget(t)
      PROVE  CircuitInv'
  <2>1. /\ pc' = "crawl" /\ pc # "crawl" /\ UNCHANGED <<requests, faults, overdue>>
        /\ attempted' = {}
    BY <1>8 DEF BeginTarget
  <2>2. Cardinality(attempted') = 0
    BY <2>1, FS_EmptySet
  <2>3. QED
    BY <1>0, <1>b, <2>1, <2>2 DEF CircuitInv
<1>9. ASSUME NEW u \in Url, SkipKnown(u)
      PROVE  CircuitInv'
  <2>1. /\ UNCHANGED <<pc, requests, faults, overdue, attempted>> /\ toVisit' \subseteq toVisit
    BY <1>9 DEF SkipKnown
  <2>2. QED
    BY <1>b, <2>1 DEF CircuitInv
<1>10. ASSUME NEW u \in Url,
              FetchNothing(u) \/ FetchRaises(u) \/ HarvestLinks(u) \/ CrawlPage(u)
       PROVE  CircuitInv'
  <2>1. /\ pc = "crawl" /\ UNCHANGED faults /\ u \in toVisit /\ \E n \in 0..3 : ReadPages(n)
    BY <1>10 DEF FetchNothing, FetchRaises, HarvestLinks, CrawlPage, Fetched, Fetches, Attempt, Pop
  <2>2. /\ Cardinality(attempted \cup {u}) = Cardinality(attempted) + 1
        /\ Cardinality(attempted \cup {u}) <= Cardinality(Url)
    <3>1. u \notin attempted /\ attempted \in SUBSET Url
      BY <2>1 DEF CircuitInv, TypeOK
    <3>2. QED
      BY <3>1, Sizes
  <2>3. requests' \in Nat /\ requests' <= requests + 3
    BY <1>0, <2>1 DEF ReadPages
  <2>4. CASE BreakOff
    <3>1. pc' # "crawl" /\ toVisit' \cap attempted' = {}
      BY <2>4 DEF BreakOff, LeaveTarget
    <3>2. CASE requests' < CIRCUIT_ROTATION_INTERVAL
      BY <1>1, <2>3, <3>1, <3>2
    <3>3. CASE requests' >= CIRCUIT_ROTATION_INTERVAL
      <4>1. overdue' = overdue + 1
        BY <2>4, <3>3 DEF BreakOff
      <4>2. faults' + overdue' = faults + overdue + 1 /\ Cardinality(attempted) < Cardinality(Url)
        BY <1>0, <2>1, <2>2, <4>1
      <4>3. QED
        BY <1>2, <2>3, <3>1, <4>2
    <3>4. QED
      BY <1>0, <2>3, <3>2, <3>3
  <2>5. CASE ~BreakOff
    <3>1. /\ attempted' = attempted \cup {u}
          /\ UNCHANGED <<pc, overdue>>
          /\ toVisit' \subseteq (toVisit \ {u}) \cup (LinksOn[FinalOf[u]] \ (attempted \cup {u}))
      <4>1. CASE FetchNothing(u)
        BY <4>1, <2>5, LinksFrame DEF FetchNothing, GoOn
      <4>2. CASE HarvestLinks(u)
        BY <4>2, <2>5, LinksFrame DEF HarvestLinks
      <4>3. CASE CrawlPage(u)
        BY <4>3, <2>5, LinksFrame DEF CrawlPage
      <4>4. QED
        BY <1>10, <2>5, <4>1, <4>2, <4>3 DEF FetchRaises
    <3>2. toVisit' \cap attempted' = {}
      BY <3>1 DEF CircuitInv
    <3>3. QED
      BY <1>0, <1>b, <2>1, <2>2, <2>3, <3>1, <3>2 DEF CircuitInv
  <2>6. QED
    BY <2>4, <2>5
<1>11. CASE CycleError \/ RotationFails
  <2>1. /\ faults' + overdue' = faults + overdue + 1 /\ requests' = requests
        /\ pc' # "crawl" /\ toVisit' \cap attempted' = {}
    BY <1>0, <1>11 DEF CycleError, RotationFails, Fault, LeaveTarget
  <2>2. QED
    BY <1>0, <1>2, <2>1
<1>12. ASSUME NEW d \in Dependency, DependencyFails(d)
       PROVE  CircuitInv'
  BY <1>0, <1>3, <1>12 DEF DependencyFails, Fault
<1>13. CASE ConnectionDropped \/ SaveFails \/ \E i \in DOMAIN buffer : FlushPartly(i)
  BY <1>0, <1>3, <1>13 DEF ConnectionDropped, SaveFails, FlushPartly, Fault
<1>14. ASSUME NEW d \in Dependency, DependencyRecovers(d)
       PROVE  CircuitInv'
  BY <1>5, <1>14 DEF DependencyRecovers
<1>15. CASE Start \/ BeginCycle \/ FlushPublishBuffer \/ EndCycle \/ TruncateSeenFile
            \/ SaveSeenUrls
  BY <1>4, <1>15 DEF Start, BeginCycle, FlushPublishBuffer, EndCycle, TruncateSeenFile,
                     SaveSeenUrls
<1>16. CASE UNCHANGED vars
  BY <1>5, <1>16 DEF vars
<1>17. QED
  BY <1>6, <1>7, <1>8, <1>9, <1>10, <1>11, <1>12, <1>13, <1>14, <1>15, <1>16 DEF Next, Work

(* The pages counted on one circuit: the rotation interval, the pages of   *)
(* one target, and those of another for every fault and overdue cycle, for *)
(* any number of targets, pages and links.                                 *)
THEOREM CircuitsBounded ==
  ASSUME IsFiniteSet(Url)
  PROVE  Spec => []CircuitBound
<1>1. Init => TypeOK /\ CircuitInv
  <2> SUFFICES ASSUME Init PROVE CircuitInv
    BY TypeInit
  <2>1. Allowance \in Nat /\ CIRCUIT_ROTATION_INTERVAL <= Allowance
    BY TypeInit, AllowanceSize
  <2>2. QED
    BY <2>1, CrawlerAssumption DEF Init, CircuitInv, CrawlerAssumption
<1>2. TypeOK /\ CircuitInv /\ [Next]_vars => TypeOK' /\ CircuitInv'
  BY TypeNext, CircuitNext
<1>3. TypeOK /\ CircuitInv => CircuitBound
  <2> SUFFICES ASSUME TypeOK, CircuitInv PROVE CircuitBound
    OBVIOUS
  <2> DEFINE n == 3 * Cardinality(Url)
             k == faults + overdue
  <2>1. /\ n \in Nat /\ k \in Nat /\ requests \in Nat
        /\ Cardinality(attempted) \in Nat /\ 3 * Cardinality(attempted) <= n
        /\ CIRCUIT_ROTATION_INTERVAL \in Nat
        /\ 1 + faults + overdue = k + 1
    BY Sizes, CrawlerAssumption DEF TypeOK, CrawlerAssumption
  <2>2. n * (k + 1) = n * k + n /\ n * k \in Nat
    BY <2>1, Products
  <2>3. Allowance = CIRCUIT_ROTATION_INTERVAL + n * k
    BY DEF Allowance
  <2>4. CircuitBound <=> requests < CIRCUIT_ROTATION_INTERVAL + n * (k + 1)
    BY <2>1 DEF CircuitBound
  <2>5. requests < Allowance + n
    <3>1. Allowance \in Nat
      BY AllowanceSize
    <3>2. requests < Allowance + 3 * Cardinality(attempted)
      BY <2>1, <3>1 DEF CircuitInv
    <3>3. QED
      BY <2>1, <3>1, <3>2
  <2> HIDE DEF n, k
  <2>6. QED
    BY <2>1, <2>2, <2>3, <2>4, <2>5
<1>4. QED
  BY <1>1, <1>2, <1>3, PTL DEF Spec

(***************************************************************************)
(* The access queue                                                        *)
(***************************************************************************)
(* Until the end, every reply so far was short of the page, and the first  *)
(* was a queue page; only addresses that were looked at are current.       *)
AccessInv ==
    /\ doing \in {"idle", "fetch", "wait", "done", "raised"}
    /\ replies \in Seq(Reply)
    /\ asked \subseteq Valid
    /\ doing = "idle" => replies = <<>>
    /\ doing = "fetch" => current \in Valid
    /\ doing = "wait" => Len(replies) > 0
    /\ doing # "done" => outcome = Nothing
    /\ doing \in {"fetch", "wait"} =>
          /\ Len(replies) <= 2
          /\ \A i \in DOMAIN replies : replies[i].kind # "page"
          /\ replies # <<>> => replies[1].kind = "queue"
    /\ ResultEarned

LEMMA ReplyKept ==
  ASSUME AccessInv, NEW r \in Reply, HandleReply(r), doing \in {"idle", "fetch"},
         doing = "idle" => r = Nothing, asked' \subseteq Valid
  PROVE  AccessInv'
<1>1. /\ r.kind \in {"page", "queue", "nothing"}
      /\ replies \in Seq(Reply)
      /\ replies' = Append(replies, r)
      /\ replies' \in Seq(Reply)
      /\ Len(replies') = Len(replies) + 1
      /\ replies'[Len(replies) + 1] = r
      /\ \A i \in 1..Len(replies) : replies'[i] = replies[i]
      /\ DOMAIN replies = 1..Len(replies) /\ DOMAIN replies' = 1..(Len(replies) + 1)
      /\ Len(replies) \in Nat
  BY DEF AccessInv, HandleReply, Reply, Nothing
<1>2. /\ Len(replies) <= 2
      /\ \A i \in 1..Len(replies) : replies[i].kind # "page"
      /\ Len(replies) > 0 => replies[1].kind = "queue"
      /\ Len(replies) = 0 <=> replies = <<>>
      /\ doing = "idle" => Len(replies) = 0
  BY <1>1 DEF AccessInv
<1>3. CASE r.kind = "page" /\ Return(r)
  BY <1>1, <1>2, <1>3 DEF AccessInv, Return, ResultEarned
<1>4. CASE r.kind = "nothing" /\ replies = <<>> /\ Return(Nothing)
  BY <1>1, <1>2, <1>4 DEF AccessInv, Return, ResultEarned, Nothing
<1>5. CASE r.kind = "queue" /\ replies = <<>> /\ Await(r.url)
  BY <1>1, <1>2, <1>5 DEF AccessInv, Await, ResultEarned
<1>6. CASE r.kind # "page" /\ Len(replies) = 1 /\ Await(retryUrl)
  BY <1>1, <1>2, <1>6 DEF AccessInv, Await, ResultEarned
<1>7. CASE r.kind # "page" /\ Len(replies) = 2 /\ Return(replies[1])
  <2>1. /\ outcome' = replies'[1] /\ outcome'.kind = "queue"
        /\ doing' = "done" /\ Len(replies') = 3
    BY <1>1, <1>2, <1>7 DEF Return
  <2>2. \A i \in 2..3 : replies'[i].kind # "page"
    BY <1>1, <1>2, <1>7
  <2>3. QED
    BY <1>1, <2>1, <2>2 DEF AccessInv, ResultEarned
<1>8. QED
  BY <1>3, <1>4, <1>5, <1>6, <1>7 DEF HandleReply

LEMMA AccessNext == AccessInv /\ [AccessQueueNext]_accessVars => AccessInv'
<1> SUFFICES ASSUME AccessInv, [AccessQueueNext]_accessVars
             PROVE  AccessInv'
  OBVIOUS
<1>0. Nothing \in Reply
  BY DEF Reply
<1>1. CASE Waited
  BY <1>1 DEF Waited, Fetch, AccessInv, ResultEarned
<1>2. CASE RequestFails
  <2>1. doing = "fetch" /\ asked' \subseteq Valid /\ HandleReply(Nothing)
    BY <1>2 DEF RequestFails, Requested, AccessInv
  <2>2. QED
    BY <1>0, <2>1, ReplyKept
<1>3. ASSUME NEW a \in Address, Begin(a)
      PROVE  AccessInv'
  <2>1. CASE Fetch(a) /\ UNCHANGED <<replies, outcome, retryUrl>>
    BY <1>3, <2>1 DEF Begin, Fetch, AccessInv, ResultEarned
  <2>2. CASE HandleReply(Nothing)
    <3>1. doing = "idle" /\ asked' \subseteq Valid
      BY <1>3 DEF Begin, AccessInv
    <3>2. QED
      BY <1>0, <2>2, <3>1, ReplyKept
  <2>3. QED
    BY <1>3, <2>1, <2>2 DEF Begin
<1>4. ASSUME NEW a \in Address, Redirects(a)
      PROVE  AccessInv'
  <2>1. doing = "fetch" /\ asked' \subseteq Valid
    BY <1>4 DEF Redirects, Requested, AccessInv
  <2>2. CASE a \in Valid /\ current' = a /\ UNCHANGED <<doing, retryUrl, replies, outcome>>
    BY <2>1, <2>2 DEF AccessInv, ResultEarned
  <2>3. CASE HandleReply(Nothing)
    BY <1>0, <2>1, <2>3, ReplyKept
  <2>4. QED
    BY <1>4, <2>2, <2>3 DEF Redirects
<1>5. ASSUME NEW kind \in {"page", "queue"}, Answers(kind)
      PROVE  AccessInv'
  <2>1. doing = "fetch" /\ asked' \subseteq Valid
    BY <1>5 DEF Answers, Requested, AccessInv
  <2>2. [kind |-> kind, url |-> current] \in Reply
    BY <2>1 DEF AccessInv, Reply
  <2>3. QED
    BY <1>5, <2>1, <2>2, ReplyKept DEF Answers
<1>b. CASE BodyBreaksOff
  BY <1>b DEF BodyBreaksOff, Requested, AccessInv, ResultEarned
<1>6. CASE UNCHANGED accessVars
  BY <1>6 DEF accessVars, AccessInv, ResultEarned
<1>7. QED
  BY <1>1, <1>2, <1>3, <1>4, <1>5, <1>b, <1>6 DEF AccessQueueNext

(* For any addresses, any that pass validate_url and any limit on          *)
(* redirects: a queue page is passed off as the page only after three      *)
(* fetches, no page in hand is lost to a body that breaks off, and no      *)
(* address that was not looked at is asked for.                            *)
THEOREM ResultsEarned ==
  AccessQueueInit /\ [][AccessQueueNext]_accessVars => []ResultEarned
<1>1. AccessQueueInit => AccessInv
  BY DEF AccessQueueInit, AccessInv, ResultEarned
<1>2. AccessInv => ResultEarned
  BY DEF AccessInv
<1>3. QED
  BY <1>1, <1>2, AccessNext, PTL
=============================================================================
