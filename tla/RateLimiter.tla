---------------------------- MODULE RateLimiter ----------------------------
(***************************************************************************)
(* src/dashboard/main.py: rate_limit_middleware.  The times of the         *)
(* requests it let through in the last window, per client address.  No     *)
(* await separates reading a bucket from appending to it: a request is one *)
(* step.                                                                   *)
(***************************************************************************)
EXTENDS Naturals, Sequences, FiniteSets

CONSTANTS
    Client,
    RATE_LIMIT_WINDOW, RATE_LIMIT_MAX,
    MaxClock,       \* bound
    MaxRequests     \* bound: requests in one behaviour

ASSUME LimiterAssumption == RATE_LIMIT_WINDOW \in Nat /\ RATE_LIMIT_MAX \in Nat

VARIABLES
    clock,          \* time.monotonic()
    buckets,        \* _rate_buckets: client -> SUBSET Passage
    answers         \* history, in no line of the code: Seq([from, at, passed])

limiterVars == <<clock, buckets, answers>>

(* An entry of a bucket.  The code's list keeps equal times apart by their *)
(* places in it, the set by the number of the request.                     *)
Passage == [request : Nat, at : Nat]

RateLimiterTypeOK ==
    /\ clock \in Nat
    /\ buckets \in [Client -> SUBSET Passage]
    /\ answers \in Seq([from : Client, at : Nat, passed : BOOLEAN])

RateLimiterInit ==
    /\ clock = 0
    /\ buckets = [c \in Client |-> {}]
    /\ answers = <<>>

Recent(bucket) == {e \in bucket : clock - e.at < RATE_LIMIT_WINDOW}

Passing == [request |-> Len(answers) + 1, at |-> clock]

Answer(c, passed) ==
    answers' = Append(answers, [from |-> c, at |-> clock, passed |-> passed])

(* A mistake to catch: a request that is refused counts as well.           *)
RequestCounted(c) ==
    LET bucket == Recent(buckets[c]) IN
    /\ Len(answers) < MaxRequests
    /\ buckets' = [buckets EXCEPT ![c] = bucket \cup {Passing}]
    /\ Answer(c, Cardinality(bucket) < RATE_LIMIT_MAX)
    /\ UNCHANGED clock

Request(c) ==
    LET bucket == Recent(buckets[c]) IN
    /\ Len(answers) < MaxRequests
    /\ \/ /\ Cardinality(bucket) >= RATE_LIMIT_MAX
          /\ buckets' = [buckets EXCEPT ![c] = bucket]
          /\ Answer(c, FALSE)
       \/ /\ Cardinality(bucket) < RATE_LIMIT_MAX
          /\ buckets' = [buckets EXCEPT ![c] = bucket \cup {Passing}]
          /\ Answer(c, TRUE)
    /\ UNCHANGED clock

Tick ==
    /\ clock < MaxClock
    /\ clock' = clock + 1
    /\ UNCHANGED <<buckets, answers>>

RateLimiterNext == Tick \/ \E c \in Client : Request(c)

RateLimiterSpec == RateLimiterInit /\ [][RateLimiterNext]_limiterVars

(***************************************************************************)
(* Properties                                                              *)
(***************************************************************************)
(* "60 req/min per IP" (main.py:106), exactly: over the whole history, a   *)
(* request was refused if and only if as many of the same client's were    *)
(* let through in the window that ends with it, although the bucket is     *)
(* trimmed only when the client comes again, and keeps no refusal.         *)
LimitExact ==
    \A k \in DOMAIN answers :
        answers[k].passed <=>
            Cardinality({j \in 1..(k - 1) :
                /\ answers[j].passed
                /\ answers[j].from = answers[k].from
                /\ answers[k].at - answers[j].at < RATE_LIMIT_WINDOW}) < RATE_LIMIT_MAX
=============================================================================
