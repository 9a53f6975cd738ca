---------------------------- MODULE AccessQueue ----------------------------
(***************************************************************************)
(* src/crawler/main.py: fetch_url and handle_queue_if_needed, request by   *)
(* request.  Crawler.tla takes from here that a page behind an access      *)
(* queue costs up to three fetches, and that what comes back may be the    *)
(* queue page.                                                             *)
(***************************************************************************)
EXTENDS Naturals, Sequences

CONSTANTS
    Address,        \* addresses a site can name
    Valid,          \* those validate_url lets pass
    MAX_REDIRECTS

VARIABLES
    doing,          \* "idle", "fetch", "wait", "done", "raised"
    current,        \* current_url
    hops,           \* redirect_count
    retryUrl,       \* retry_url
    replies,        \* what each fetch_url returned: Seq(Reply)
    asked,          \* history: the addresses requested over Tor
    outcome         \* what handle_queue_if_needed returns

accessVars == <<doing, current, hops, retryUrl, replies, asked, outcome>>

Nothing == [kind |-> "nothing", url |-> "none"]
Reply == [kind : {"page", "queue"}, url : Valid] \cup {Nothing}

AccessQueueInit ==
    /\ doing = "idle"
    /\ current = "none" /\ hops = 0 /\ retryUrl = "none"
    /\ replies = <<>> /\ asked = {}
    /\ outcome = Nothing

Return(r) == doing' = "done" /\ outcome' = r /\ UNCHANGED <<current, hops, retryUrl>>

Await(url) == doing' = "wait" /\ retryUrl' = url /\ UNCHANGED <<current, hops, outcome>>

(* A mistake to catch: a retry that fails ends the waiting.                *)
HandleReplyOrStop(r) ==
    /\ replies' = Append(replies, r)
    /\ IF replies = <<>> /\ r.kind = "queue"
       THEN Await(r.url)
       ELSE IF r.kind = "queue" /\ Len(replies) < 2 THEN Await(retryUrl) ELSE Return(r)

(* What handle_queue_if_needed makes of a fetch: the first must succeed,   *)
(* two more are waited for, and if neither gets past the queue the first   *)
(* queue page is the result.                                               *)
HandleReply(r) ==
    /\ replies' = Append(replies, r)
    /\ \/ r.kind = "page" /\ Return(r)
       \/ r.kind = "nothing" /\ replies = <<>> /\ Return(Nothing)
       \/ r.kind = "queue" /\ replies = <<>> /\ Await(r.url)
       \/ r.kind # "page" /\ Len(replies) = 1 /\ Await(retryUrl)
       \/ r.kind # "page" /\ Len(replies) = 2 /\ Return(replies[1])

(* fetch_url validates what it is given.                                   *)
Fetch(url) ==
    /\ url \in Valid
    /\ doing' = "fetch"
    /\ current' = url
    /\ hops' = 0

Begin(url) ==
    /\ doing = "idle"
    /\ \/ Fetch(url) /\ UNCHANGED <<replies, outcome, retryUrl>>
       \/ url \notin Valid /\ HandleReply(Nothing)
    /\ UNCHANGED asked

Waited ==
    /\ doing = "wait"
    /\ Fetch(retryUrl)
    /\ UNCHANGED <<retryUrl, replies, asked, outcome>>

Requested == doing = "fetch" /\ asked' = asked \cup {current}

(* An error before the body is read, another status than 200, a type that  *)
(* is not text, too many bytes, a redirect too many or to nowhere.         *)
RequestFails ==
    /\ Requested
    /\ HandleReply(Nothing)

(* The body is read outside of the "try": when it breaks off, the          *)
(* exception leaves fetch_url, handle_queue_if_needed and the crawl cycle. *)
BodyBreaksOff ==
    /\ Requested
    /\ doing' = "raised"
    /\ UNCHANGED <<current, hops, retryUrl, replies, outcome>>

(* A mistake to catch: where a redirect leads is not looked at.            *)
RedirectsAnywhere(to) ==
    /\ Requested
    /\ hops < MAX_REDIRECTS
    /\ current' = to /\ hops' = hops + 1
    /\ UNCHANGED <<doing, retryUrl, replies, outcome>>

Redirects(to) ==
    /\ Requested
    /\ \/ /\ hops < MAX_REDIRECTS /\ to \in Valid
          /\ current' = to /\ hops' = hops + 1
          /\ UNCHANGED <<doing, retryUrl, replies, outcome>>
       \/ /\ hops >= MAX_REDIRECTS \/ to \notin Valid
          /\ HandleReply(Nothing)

Answers(kind) ==
    /\ Requested
    /\ HandleReply([kind |-> kind, url |-> current])

AccessQueueNext ==
    \/ Waited
    \/ RequestFails
    \/ BodyBreaksOff
    \/ \E a \in Address : Begin(a) \/ Redirects(a)
    \/ \E kind \in {"page", "queue"} : Answers(kind)

(***************************************************************************)
(* Properties                                                              *)
(***************************************************************************)
(* Over all ways three fetches, their redirects and their failures can     *)
(* end: whoever got past the queue once gets that page, and a queue page   *)
(* is passed off as the page (crawler/main.py:423) only after every retry  *)
(* was spent.  A retry without a page is not the end; a body that breaks   *)
(* off is, at any of the three, with no page in hand to lose.  Only        *)
(* addresses that were looked at are asked for.                            *)
ResultEarned ==
    /\ asked \subseteq Valid
    /\ doing = "done" =>
        CASE outcome.kind = "page"    -> outcome = replies[Len(replies)]
          [] outcome.kind = "queue"   -> /\ Len(replies) = 3
                                         /\ outcome = replies[1]
                                         /\ \A i \in 2..3 : replies[i].kind # "page"
          [] outcome.kind = "nothing" -> Len(replies) = 1
    /\ doing = "raised" =>
        /\ outcome = Nothing /\ Len(replies) < 3
        /\ \A i \in DOMAIN replies : replies[i].kind # "page"
=============================================================================
