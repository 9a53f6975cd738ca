------------------------------- MODULE Crawler -------------------------------
(***************************************************************************)
(* src/crawler: the crawl cycle.  One single-threaded process, restarted   *)
(* by compose, walks every approved target, publishes content pages to     *)
(* raw.crawl and remembers them in a seen-set it saves after each complete *)
(* cycle.  A page the broker does not take goes to an in-memory buffer,    *)
(* flushed at the start of the next cycle.  A guard stops the process when *)
(* Tor or the broker is unreachable.                                       *)
(***************************************************************************)
EXTENDS Naturals, Sequences, FiniteSets, Functions

CONSTANTS
    Target,         \* the sources config/sources.yaml marks "approved"
    Url,
    RootOf,         \* [Target -> Url]: the target's own page
    ListingOf,      \* [Target -> SUBSET Url]: pages its listing patterns match
    FinalOf,        \* [Url -> Url]: where a fetch of the address ends up
    LinksOn,        \* [Url -> SUBSET Url]: what extract_links finds on the page
    Gated,          \* pages that show a login wall when the session has gone
    Malformed,      \* pages with an address on them that urljoin does not accept
    Broken,         \* pages whose body breaks off each time it is read
    Place,          \* [Target -> Nat]: the target's place in the file
    QueueWait,      \* targets with queue_wait_seconds > 0
    MAX_PAGES,
    CIRCUIT_ROTATION_INTERVAL,
    MaxFaults       \* bound: outages, crashes and errors in one behaviour

ASSUME CrawlerAssumption ==
    /\ RootOf \in [Target -> Url]
    /\ ListingOf \in [Target -> SUBSET Url]
    /\ FinalOf \in [Url -> Url]
    /\ LinksOn \in [Url -> SUBSET Url]
    /\ Gated \subseteq Url /\ Malformed \subseteq Url /\ Broken \subseteq Url
    /\ Place \in [Target -> Nat]
    /\ \A s, t \in Target : Place[s] = Place[t] => s = t
    /\ QueueWait \subseteq Target
    /\ MAX_PAGES \in Nat \ {0}
    /\ CIRCUIT_ROTATION_INTERVAL \in Nat \ {0}
    /\ MaxFaults \in Nat

VARIABLES
    pc,          \* where the process is
    seen,        \* _seen_urls
    file,        \* the addresses in SEEN_URLS_FILE
    buffer,      \* _publish_buffer
    targetsLeft, \* targets of this cycle still to crawl
    target,      \* the target being crawled
    toVisit,     \* to_visit; the order of links on a page is abstracted away
    attempted,
    visited,     \* content pages of this target in this cycle
    requests,    \* _requests_since_circuit_rotation
    client,      \* the cycle's connection: not open, open, or open on our side only
    up,          \* the dependencies that answer: "tor", "queue"
    faults,
    \* history
    produced,    \* [Url -> Nat]: records made of the page
    delivered,   \* pages with a record whose publish returned
    losses,      \* stops of the process with something in memory only
    overdue      \* cycles that broke off with a renewal of the circuit due

crawlVars == <<target, toVisit, attempted, visited>>
memory == <<seen, buffer>>
history == <<produced, delivered, losses>>
circuitVars == <<requests, overdue>>
vars == <<pc, seen, file, buffer, targetsLeft, target, toVisit, attempted, visited,
          requests, client, up, faults, produced, delivered, losses, overdue>>

Dependency == {"tor", "queue"}

Location == {"down", "cycle", "flush", "next", "crawl", "sleep", "save"}

TypeOK ==
    /\ pc \in Location
    /\ seen \in SUBSET Url
    /\ file \in SUBSET Url
    /\ buffer \in Seq(Url)
    /\ targetsLeft \in SUBSET Target
    /\ target \in Target
    /\ toVisit \in SUBSET Url
    /\ attempted \in SUBSET Url
    /\ visited \in 0..MAX_PAGES
    /\ requests \in Nat
    /\ client \in {"closed", "open", "stale"}
    /\ up \in SUBSET Dependency
    /\ faults \in 0..MaxFaults
    /\ produced \in [Url -> Nat]
    /\ delivered \in SUBSET Url
    /\ losses \in Nat
    /\ overdue \in Nat

Init ==
    /\ pc = "down"
    /\ seen = {}
    /\ file = {}
    /\ buffer = <<>>
    /\ targetsLeft = {}
    /\ target \in Target
    /\ toVisit = {}
    /\ attempted = {}
    /\ visited = 0
    /\ requests = 0
    /\ client = "closed"
    /\ up = Dependency
    /\ faults = 0
    /\ produced = [u \in Url |-> 0]
    /\ delivered = {}
    /\ losses = 0
    /\ overdue = 0

(***************************************************************************)
(* main and the start of a cycle                                           *)
(***************************************************************************)
(* The process starts: load_seen_urls; a missing file is an empty set.     *)
Start ==
    /\ pc = "down"
    /\ pc' = "cycle"
    /\ seen' = file
    /\ UNCHANGED <<file, buffer, targetsLeft, crawlVars, circuitVars, client, up, faults, history>>

(* What dies with the process; file' is set before.                        *)
Stop ==
    /\ pc' = "down"
    /\ seen' = {}
    /\ buffer' = <<>>
    /\ targetsLeft' = {}
    /\ toVisit' = {}
    /\ attempted' = {}
    /\ visited' = 0
    /\ requests' = 0
    /\ overdue' = 0
    /\ client' = "closed"
    /\ losses' = IF seen = file' /\ buffer = <<>> THEN losses ELSE losses + 1
    /\ UNCHANGED <<target, produced, delivered>>

Nominal == up = Dependency

(* _halt calls sys.exit: SystemExit passes by main's "except Exception",   *)
(* so nothing is saved on the way out.                                     *)
Halt ==
    /\ pc \in {"cycle", "next"}
    /\ pc = "next" => targetsLeft # {}
    /\ ~Nominal
    /\ UNCHANGED <<file, up, faults>>
    /\ Stop

BeginCycle ==
    /\ pc = "cycle"
    /\ Nominal
    /\ pc' = "flush"
    /\ targetsLeft' = Target
    /\ client' = "closed"
    /\ UNCHANGED <<memory, file, crawlVars, circuitVars, up, faults, history>>

(* A mistake to catch: the cycle starts without the flush.                 *)
FlushNothing ==
    /\ pc = "flush"
    /\ pc' = "next"
    /\ UNCHANGED <<memory, file, targetsLeft, crawlVars, circuitVars, client, up, faults, history>>

(* flush_publish_buffer: what the broker refuses stays buffered.           *)
FlushPublishBuffer ==
    /\ pc = "flush"
    /\ pc' = "next"
    /\ IF "queue" \in up /\ buffer # <<>>
       THEN /\ delivered' = delivered \cup Range(buffer)
            /\ buffer' = <<>>
            /\ client' = "open"
       ELSE UNCHANGED <<buffer, delivered, client>>
    /\ UNCHANGED <<seen, file, targetsLeft, crawlVars, circuitVars, up, faults,
                   produced, losses>>

(* The targets are crawled in the order of the file.                       *)
BeginTarget(t) ==
    /\ pc = "next"
    /\ t \in targetsLeft
    /\ \A s \in targetsLeft : Place[t] <= Place[s]
    /\ Nominal
    /\ pc' = "crawl"
    /\ target' = t
    /\ targetsLeft' = targetsLeft \ {t}
    /\ toVisit' = {RootOf[t]}
    /\ attempted' = {}
    /\ visited' = 0
    /\ UNCHANGED <<memory, file, circuitVars, client, up, faults, history>>

(***************************************************************************)
(* crawl_url: one turn of the loop                                         *)
(***************************************************************************)
(* A target with an access queue is let in again until its first page of   *)
(* the cycle: neither the seen-set nor "attempted" stops it.               *)
AtGate == visited = 0 /\ target \in QueueWait

(* The gate may be fetched three times, any other page once.               *)
Fetches == IF AtGate THEN 1..3 ELSE {1}

Pop(u) ==
    /\ pc = "crawl"
    /\ visited < MAX_PAGES
    /\ u \in toVisit

(* A mistake to catch: only the root counts as a listing.                  *)
LinkOnlyRoot(u) == u = RootOf[target]

LinkOnly(u) == u = RootOf[target] \/ u \in ListingOf[target]

(* The address is done with; visited' is n.                                *)
GoOn(u, n) ==
    /\ attempted' = attempted \cup {u}
    /\ visited' = n
    /\ UNCHANGED <<pc, overdue>>

(* The variables of crawl_url go with its frame.                           *)
LeaveTarget == toVisit' = {} /\ attempted' = {} /\ visited' = 0

(* An exception that nothing catches before main: it waits and starts the  *)
(* next cycle.  The circuit is not renewed, were it due or not.            *)
BreakOff ==
    /\ pc' = "cycle"
    /\ LeaveTarget
    /\ overdue' = IF requests' >= CIRCUIT_ROTATION_INTERVAL THEN overdue + 1 ELSE overdue

AddLinks(u, known) ==
    toVisit' = (toVisit \ {u}) \cup (LinksOn[FinalOf[u]] \ (known \cup attempted \cup {u}))

(* extract_links, which urljoin and urlparse leave with a ValueError when  *)
(* an address is malformed.                                                *)
ExtractLinks(u, known, n) ==
    IF FinalOf[u] \in Malformed
    THEN BreakOff
    ELSE AddLinks(u, known) /\ GoOn(u, n)

(* What the code counts: a fetch_url that returns a text page.             *)
ReadPages(n) == requests' = requests + n

(* A mistake to catch: "continue" before the address is off the list.      *)
SkipKnownAndKeep(u) ==
    /\ Pop(u)
    /\ u \in seen \cup attempted
    /\ ~AtGate
    /\ UNCHANGED vars

SkipKnown(u) ==
    /\ Pop(u)
    /\ u \in seen \cup attempted
    /\ ~AtGate
    /\ toVisit' = toVisit \ {u}
    /\ UNCHANGED <<pc, memory, file, targetsLeft, target, attempted, visited,
                   circuitVars, client, up, faults, history>>

Attempt(u) ==
    /\ Pop(u)
    /\ u \notin seen \cup attempted \/ AtGate

(* No page: the fetch fails, or redirects to a page already seen, or the   *)
(* page is too short.                                                      *)
FetchNothing(u) ==
    /\ Attempt(u)
    /\ \E n \in Fetches \cup {0} : ReadPages(n)
    /\ toVisit' = toVisit \ {u}
    /\ GoOn(u, visited)
    /\ UNCHANGED <<memory, file, targetsLeft, target, client, up, faults, history>>

(* The body is read outside of fetch_url's "try": when it breaks off, the  *)
(* exception ends the cycle.  At the gate it may be the second or third.   *)
FetchRaises(u) ==
    /\ Attempt(u)
    /\ FinalOf[u] \in Broken
    /\ \E n \in IF AtGate THEN 0..2 ELSE {0} : ReadPages(n)
    /\ BreakOff
    /\ UNCHANGED <<memory, file, targetsLeft, target, client, up, faults, history>>

(* The page is one to work with: it is new, or the target's gate.          *)
Fetched(u) ==
    /\ Attempt(u)
    /\ FinalOf[u] \notin Broken
    /\ FinalOf[u] \notin seen \/ AtGate
    /\ \E n \in Fetches : ReadPages(n)

(* A listing page or a login wall is read for its links only.              *)
HarvestLinks(u) ==
    /\ Fetched(u)
    /\ LinkOnly(FinalOf[u]) \/ FinalOf[u] \in Gated
    /\ ExtractLinks(u, seen, visited)
    /\ UNCHANGED <<memory, file, targetsLeft, target, client, up, faults, history>>

(* publish_or_buffer: a publish opens the connection if it has to; on a    *)
(* connection that has died unnoticed it raises, once, and closes it.      *)
PublishOrBuffer(page) ==
    IF "queue" \in up /\ client # "stale"
    THEN /\ delivered' = delivered \cup {page}
         /\ client' = "open"
         /\ UNCHANGED buffer
    ELSE /\ buffer' = Append(buffer, page)
         /\ client' = "closed"
         /\ UNCHANGED delivered

(* Mistakes to catch: the address asked for is remembered and not the one  *)
(* the page was found at; a page the broker refuses is not buffered.       *)
CrawlPageByRequest(u) ==
    /\ Fetched(u)
    /\ ~LinkOnly(FinalOf[u])
    /\ seen' = seen \cup {u}
    /\ produced' = [produced EXCEPT ![FinalOf[u]] = @ + 1]
    /\ PublishOrBuffer(FinalOf[u])
    /\ IF visited + 1 < MAX_PAGES
       THEN ExtractLinks(u, seen', visited + 1)
       ELSE toVisit' = toVisit \ {u} /\ GoOn(u, visited + 1)
    /\ UNCHANGED <<file, targetsLeft, target, up, faults, losses>>

CrawlPageUnbuffered(u) ==
    /\ Fetched(u)
    /\ ~LinkOnly(FinalOf[u])
    /\ seen' = seen \cup {FinalOf[u]}
    /\ produced' = [produced EXCEPT ![FinalOf[u]] = @ + 1]
    /\ delivered' = IF "queue" \in up THEN delivered \cup {FinalOf[u]} ELSE delivered
    /\ toVisit' = toVisit \ {u}
    /\ GoOn(u, visited + 1)
    /\ UNCHANGED <<buffer, client, file, targetsLeft, target, up, faults, losses>>

(* A content page is remembered, then published or buffered.  The last     *)
(* page of the quota leaves the loop before its links are read.            *)
CrawlPage(u) ==
    /\ Fetched(u)
    /\ ~LinkOnly(FinalOf[u])
    /\ seen' = seen \cup {FinalOf[u]}
    /\ produced' = [produced EXCEPT ![FinalOf[u]] = @ + 1]
    /\ PublishOrBuffer(FinalOf[u])
    /\ IF visited + 1 < MAX_PAGES
       THEN ExtractLinks(u, seen', visited + 1)
       ELSE toVisit' = toVisit \ {u} /\ GoOn(u, visited + 1)
    /\ UNCHANGED <<file, targetsLeft, target, up, faults, losses>>

TargetDone == pc = "crawl" /\ (toVisit = {} \/ visited = MAX_PAGES)

(* Back in crawl_loop: a new Tor circuit when the counter says so.         *)
RotateIfDue ==
    IF requests >= CIRCUIT_ROTATION_INTERVAL
    THEN requests' = 0 /\ overdue' = 0
    ELSE UNCHANGED circuitVars

(* A mistake to catch: the circuit is never renewed.                       *)
EndTargetSameCircuit ==
    /\ TargetDone
    /\ pc' = "next"
    /\ LeaveTarget
    /\ UNCHANGED <<memory, file, targetsLeft, target, circuitVars, client, up, faults, history>>

EndTarget ==
    /\ TargetDone
    /\ pc' = "next"
    /\ LeaveTarget
    /\ RotateIfDue
    /\ UNCHANGED <<memory, file, targetsLeft, target, client, up, faults, history>>

(***************************************************************************)
(* The end of a cycle                                                      *)
(***************************************************************************)
EndCycle ==
    /\ pc = "next"
    /\ targetsLeft = {}
    /\ pc' = "sleep"
    /\ UNCHANGED <<memory, file, targetsLeft, crawlVars, circuitVars, client, up, faults, history>>

(* save_seen_urls opens the file for writing, which empties it ...         *)
TruncateSeenFile ==
    /\ pc = "sleep"
    /\ pc' = "save"
    /\ file' = {}
    /\ UNCHANGED <<memory, targetsLeft, crawlVars, circuitVars, client, up, faults, history>>

(* ... and writes the whole set.                                           *)
SaveSeenUrls ==
    /\ pc = "save"
    /\ pc' = "cycle"
    /\ file' = seen
    /\ UNCHANGED <<memory, targetsLeft, crawlVars, circuitVars, client, up, faults, history>>

(***************************************************************************)
(* Faults                                                                  *)
(***************************************************************************)
Fault ==
    /\ faults < MaxFaults
    /\ faults' = faults + 1

DependencyFails(d) ==
    /\ Fault
    /\ d \in up
    /\ up' = up \ {d}
    /\ client' = IF d = "queue" /\ client = "open" THEN "stale" ELSE client
    /\ UNCHANGED <<pc, memory, file, targetsLeft, crawlVars, circuitVars, history>>

DependencyRecovers(d) ==
    /\ d \notin up
    /\ up' = up \cup {d}
    /\ UNCHANGED <<pc, memory, file, targetsLeft, crawlVars, circuitVars, client, faults, history>>

(* The broker drops a connection that does not answer heartbeats, and none *)
(* is answered while pages are fetched.                                    *)
ConnectionDropped ==
    /\ Fault
    /\ client = "open"
    /\ client' = "stale"
    /\ UNCHANGED <<pc, memory, file, targetsLeft, crawlVars, circuitVars, up, history>>

(* The process is killed, at any point.                                    *)
Crash ==
    /\ Fault
    /\ pc # "down"
    /\ UNCHANGED <<file, up>>
    /\ Stop

(* The operator interrupts: the seen-set is saved, the buffer is not.      *)
Interrupt ==
    /\ Fault
    /\ pc # "down"
    /\ file' = seen
    /\ UNCHANGED up
    /\ Stop

(* The connection dies under the flush.  Once, so that the record in hand  *)
(* stays buffered and the others are sent over a new connection; or the    *)
(* broker goes with it, and that record and all behind it stay.            *)
FlushPartly(i) ==
    /\ Fault
    /\ pc = "flush"
    /\ "queue" \in up
    /\ i \in DOMAIN buffer
    /\ pc' = "next"
    /\ \/ /\ delivered' = delivered \cup {buffer[j] : j \in DOMAIN buffer \ {i}}
          /\ buffer' = <<buffer[i]>>
          /\ client' = IF i < Len(buffer) THEN "open" ELSE "closed"
          /\ UNCHANGED up
       \/ /\ delivered' = delivered \cup {buffer[j] : j \in 1..(i - 1)}
          /\ buffer' = SubSeq(buffer, i, Len(buffer))
          /\ client' = "closed"
          /\ up' = up \ {"queue"}
    /\ UNCHANGED <<seen, file, targetsLeft, crawlVars, circuitVars, produced, losses>>

(* Any other exception out of crawl_loop, once: main waits and starts a    *)
(* cycle without saving; seen-set and buffer stay in memory.               *)
CycleError ==
    /\ Fault
    /\ pc \in {"cycle", "flush", "next", "crawl"}
    /\ pc' = "cycle"
    /\ LeaveTarget
    /\ UNCHANGED <<memory, file, targetsLeft, target, circuitVars, client, up, history>>

(* rotate_tor_circuit swallows its errors and leaves the counter.          *)
RotationFails ==
    /\ Fault
    /\ TargetDone
    /\ requests >= CIRCUIT_ROTATION_INTERVAL
    /\ pc' = "next"
    /\ LeaveTarget
    /\ UNCHANGED <<memory, file, targetsLeft, target, circuitVars, client, up, history>>

(* save_seen_urls swallows an OSError: the file is as it was or, once      *)
(* opened, empty, and the next cycle starts.                               *)
SaveFails ==
    /\ Fault
    /\ pc \in {"sleep", "save"}
    /\ pc' = "cycle"
    /\ UNCHANGED <<memory, file, targetsLeft, crawlVars, circuitVars, client, up, history>>

Work ==
    \/ Start
    \/ Halt
    \/ BeginCycle
    \/ FlushPublishBuffer
    \/ \E t \in Target : BeginTarget(t)
    \/ \E u \in Url :
          SkipKnown(u) \/ FetchNothing(u) \/ FetchRaises(u) \/ HarvestLinks(u) \/ CrawlPage(u)
    \/ EndTarget
    \/ EndCycle
    \/ TruncateSeenFile
    \/ SaveSeenUrls

Next ==
    \/ Work
    \/ \E d \in Dependency : DependencyFails(d) \/ DependencyRecovers(d)
    \/ Crash
    \/ Interrupt
    \/ ConnectionDropped
    \/ \E i \in DOMAIN buffer : FlushPartly(i)
    \/ CycleError
    \/ RotationFails
    \/ SaveFails

Spec == Init /\ [][Next]_vars

(* The process is a loop that compose restarts; Tor and the broker are     *)
(* containers that compose restarts too.                                   *)
FairSpec ==
    /\ Spec
    /\ WF_vars(Work)
    /\ \A d \in Dependency : WF_vars(DependencyRecovers(d))

(***************************************************************************)
(* Properties                                                              *)
(***************************************************************************)
(* "Crawl-once": however many addresses redirect to a content page and     *)
(* however many cycles find a link to it, it becomes a record once; only a *)
(* stop that takes unsaved pages with it may make it one again.  This is   *)
(* so where no page behind an access queue is found through a redirect:    *)
(* such a page is published each time its target is let in.                *)
CrawlOnce == \A u \in Url : produced[u] <= 1 + losses

(* What the crawl of a target can come to.                                 *)
Site ==
    [t \in Target |->
        {u \in Url : \A S \in SUBSET Url :
            /\ RootOf[t] \in S
            /\ \A v \in S : FinalOf[v] \in S /\ LinksOn[FinalOf[v]] \subseteq S
            => u \in S}]

Listing(t) == {RootOf[t]} \cup ListingOf[t]

(* A listing page is not remembered, in memory or on disk, so that every   *)
(* cycle reads it again and new posts are found.  is_listing_url asks only *)
(* about the target in hand: a page that the crawl of another target can   *)
(* come to, and that is no listing there, is remembered for all.           *)
ListingsStayFresh ==
    \A t \in Target : \A u \in Listing(t) :
        (\A s \in Target : u \in Site[s] => u \in Listing(s)) => u \notin seen \cup file

(* As long as the process lives, a remembered page has been taken by the   *)
(* broker or waits in the buffer: an outage alone loses nothing.           *)
SeenAccounted == losses = 0 => seen \subseteq delivered \cup Range(buffer)

(* The same of the seen-set on disk, which is what the feature list says   *)
(* ("transient broker outages don't lose data").  It fails: the guard      *)
(* halts the next cycle during the outage, and the buffer is gone while    *)
(* the file remembers its pages as crawled.                                *)
PersistedAccounted == file \subseteq delivered \cup Range(buffer)

(* The pages a process has counted on one Tor circuit stay within the      *)
(* rotation interval plus what one target can give, and that again for     *)
(* every fault and every cycle that broke off with the renewal due.  It is *)
(* the code's own count that is bounded: requests that give no page are    *)
(* not in it, and a restart forgets it.                                    *)
CircuitBound ==
    requests < CIRCUIT_ROTATION_INTERVAL + 3 * Cardinality(Url) * (1 + faults + overdue)

(* Targets that have a page which ends the cycle whenever it is come to: a *)
(* body that breaks off, or a malformed address on a page that is not      *)
(* remembered or is let in without asking.                                 *)
EndsEveryCycle(t) ==
    \E u \in Site[t] :
        \/ u \in Broken
        \/ u \in Malformed /\ (u \in Listing(t) \cup Gated \/ t \in QueueWait)

(* The targets up to the first of those.                                   *)
Served == {t \in Target : \A s \in Target : Place[s] < Place[t] => ~EndsEveryCycle(s)}

(* A target is crawled again and again if none before it in the file ends  *)
(* every cycle: no outage, error or page that was published first, however *)
(* malformed, keeps the crawler from it for good.                          *)
TargetsRevisited == \A t \in Served : []<>(pc = "crawl" /\ target = t)

(* A buffered record does not stay buffered: it is flushed or, with the    *)
(* process, lost.                                                          *)
BufferDrains == buffer # <<>> ~> buffer = <<>>
=============================================================================
