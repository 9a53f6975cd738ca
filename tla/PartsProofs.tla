----------------------------- MODULE PartsProofs -----------------------------
(***************************************************************************)
(* Proofs about the parts that share no state with the pipeline: the       *)
(* dashboard's accounts, its rate limiter and its walk through the         *)
(* findings, for any set of users, clients and findings, any window, limit *)
(* and page size; and the classifier, for any lexicon, weights and page.   *)
(***************************************************************************)
EXTENDS Accounts, Classifier, RateLimiter, Findings, SequenceTheorems, Counting

(***************************************************************************)
(* Accounts: types                                                         *)
(***************************************************************************)
LEMMA TypeInit == Init => TypeOK
  BY DEF Init, TypeOK, Role

LEMMA TypeAdminister == TypeOK /\ Administer => TypeOK'
<1> SUFFICES ASSUME TypeOK, Administer PROVE TypeOK'
  OBVIOUS
<1> USE DEF TypeOK, Role, Admits, tokens
<1>1. ASSUME NEW a \in User, NEW u \in User, NEW r \in Role, CreateUser(a, u, r)
      PROVE  TypeOK'
  BY <1>1 DEF CreateUser
<1>2. ASSUME NEW a \in User, NEW u \in User, NEW r \in Role, ChangeRole(a, u, r)
      PROVE  TypeOK'
  BY <1>2 DEF ChangeRole
<1>3. ASSUME NEW a \in User, NEW u \in User, DeactivateUser(a, u) PROVE TypeOK'
  BY <1>3 DEF DeactivateUser
<1>4. ASSUME NEW a \in User, NEW u \in User, ReactivateUser(a, u) PROVE TypeOK'
  BY <1>4 DEF ReactivateUser
<1>5. ASSUME NEW a \in User, NEW u \in User, ResetPassword(a, u) PROVE TypeOK'
  BY <1>5 DEF ResetPassword
<1>6. QED
  BY <1>1, <1>2, <1>3, <1>4, <1>5 DEF Administer

LEMMA TypeVisit == TypeOK /\ Visit => TypeOK'
<1> SUFFICES ASSUME TypeOK, Visit PROVE TypeOK'
  OBVIOUS
<1> USE DEF TypeOK, Role, Authenticate, rows, tokens, history
<1>1. ASSUME NEW u \in User, Login(u) PROVE TypeOK'
  BY <1>1 DEF Login
<1>2. ASSUME NEW u \in User, AdminLogin(u) PROVE TypeOK'
  BY <1>2 DEF AdminLogin
<1>3. ASSUME NEW u \in User, EndSession(u) \/ EndAdminSession(u) \/ TellPassword(u)
      PROVE  TypeOK'
  BY <1>3 DEF EndSession, EndAdminSession, TellPassword
<1>4. QED
  BY <1>1, <1>2, <1>3 DEF Visit

LEMMA TypeStart == TypeOK /\ (Start \/ Stop) => TypeOK'
<1> SUFFICES ASSUME TypeOK, Start \/ Stop PROVE TypeOK'
  OBVIOUS
<1>1. CASE Start
  BY <1>1, AccountsAssumption
     DEF Start, AccountsAssumption, TypeOK, Role, rows, tokens, history
<1>2. CASE Stop
  BY <1>2 DEF Stop, TypeOK, rows, tokens, history
<1>3. QED
  BY <1>1, <1>2

(* Every variable keeps its type, and tokens are held by accounts only.    *)
THEOREM TypeCorrect == Spec => []TypeOK
<1>1. TypeOK /\ [Next]_vars => TypeOK'
  <2>1. TypeOK /\ UNCHANGED vars => TypeOK'
    BY DEF TypeOK, vars
  <2>2. QED
    BY <2>1, TypeAdminister, TypeVisit, TypeStart DEF Next
<1>2. QED
  BY <1>1, TypeInit, PTL DEF Spec

(***************************************************************************)
(* An administrator remains                                                *)
(***************************************************************************)
(* Who acts is an active administrator, or the session was outlived; and   *)
(* nobody's own request takes that away.                                   *)
LEMMA ActorKeepsPower ==
  ASSUME TypeOK, Administer, ~outlived'
  PROVE  \E a \in User : ActiveAdmin(a) /\ ActiveAdmin(a)'
<1> USE DEF ActiveAdmin, Admits, TypeOK
<1>1. PICK a \in User, u \in User :
         \/ \E r \in Role : CreateUser(a, u, r) \/ ChangeRole(a, u, r)
         \/ DeactivateUser(a, u)
         \/ ReactivateUser(a, u)
         \/ ResetPassword(a, u)
  BY DEF Administer
<1>2. ActiveAdmin(a)
  BY <1>1 DEF CreateUser, ChangeRole, DeactivateUser, ReactivateUser, ResetPassword
<1>3. ASSUME NEW r \in Role, CreateUser(a, u, r) PROVE ActiveAdmin(a)'
  BY <1>2, <1>3 DEF CreateUser
<1>4. ASSUME NEW r \in Role, ChangeRole(a, u, r) PROVE ActiveAdmin(a)'
  BY <1>2, <1>4 DEF ChangeRole
<1>5. CASE DeactivateUser(a, u)
  BY <1>2, <1>5 DEF DeactivateUser
<1>6. CASE ReactivateUser(a, u) \/ ResetPassword(a, u)
  BY <1>2, <1>6 DEF ReactivateUser, ResetPassword
<1>7. QED
  BY <1>1, <1>2, <1>3, <1>4, <1>5, <1>6

LEMMA RemainsStep ==
  TypeOK /\ AdministratorRemains /\ [Next]_vars => AdministratorRemains'
<1> SUFFICES ASSUME TypeOK, AdministratorRemains, [Next]_vars PROVE AdministratorRemains'
  OBVIOUS
<1> USE DEF AdministratorRemains, ActiveAdmin
<1>1. CASE Administer
  BY <1>1, ActorKeepsPower
<1>2. CASE Start
  BY <1>2, AccountsAssumption DEF Start, AccountsAssumption, TypeOK, rows, history
<1>3. CASE Stop \/ UNCHANGED vars
  BY <1>3 DEF Stop, rows, history, vars
<1>4. CASE Visit
  <2>1. UNCHANGED <<accounts, role, active, outlived>>
    BY <1>4 DEF Visit, Login, AdminLogin, EndSession, EndAdminSession, TellPassword, rows, history
  <2>2. QED
    BY <2>1
<1>5. QED
  BY <1>1, <1>2, <1>3, <1>4 DEF Next

(* Whatever administrators do to accounts, an active one remains, unless   *)
(* one of their requests was made on a session its account had lost.       *)
THEOREM AdministratorHolds == Spec => []AdministratorRemains
<1>1. Init => AdministratorRemains
  BY DEF Init, AdministratorRemains
<1>2. QED
  BY <1>1, RemainsStep, TypeCorrect, PTL DEF Spec

(***************************************************************************)
(* An administrator's session was earned                                   *)
(***************************************************************************)
LEMMA EarnedStep ==
  TypeOK /\ AdminSessionsEarned /\ [Next]_vars => AdminSessionsEarned'
<1> SUFFICES ASSUME TypeOK, AdminSessionsEarned, [Next]_vars PROVE AdminSessionsEarned'
  OBVIOUS
<1> USE DEF AdminSessionsEarned, ActiveAdmin, TypeOK, Role
<1>1. ASSUME NEW a \in User, NEW u \in User, NEW r \in Role, CreateUser(a, u, r)
      PROVE  AdminSessionsEarned'
  BY <1>1 DEF CreateUser, Admits, tokens
<1>2. ASSUME NEW a \in User, NEW u \in User, NEW r \in Role, ChangeRole(a, u, r)
      PROVE  AdminSessionsEarned'
  BY <1>2 DEF ChangeRole, Admits, tokens
<1>3. ASSUME NEW a \in User, NEW u \in User, DeactivateUser(a, u)
      PROVE  AdminSessionsEarned'
  BY <1>3 DEF DeactivateUser, Admits, tokens
<1>4. ASSUME NEW a \in User, NEW u \in User, ReactivateUser(a, u) \/ ResetPassword(a, u)
      PROVE  AdminSessionsEarned'
  BY <1>4 DEF ReactivateUser, ResetPassword, Admits, tokens
<1>5. ASSUME NEW u \in User, AdminLogin(u) PROVE AdminSessionsEarned'
  BY <1>5 DEF AdminLogin, Authenticate, rows
<1>6. ASSUME NEW u \in User, Login(u) \/ EndSession(u) \/ EndAdminSession(u) \/ TellPassword(u)
      PROVE  AdminSessionsEarned'
  BY <1>6 DEF Login, EndSession, EndAdminSession, TellPassword, rows, tokens, history
<1>7. CASE Start
  BY <1>7 DEF Start, rows, tokens, history
<1>8. CASE Stop \/ UNCHANGED vars
  BY <1>8 DEF Stop, rows, tokens, history, vars
<1>9. QED
  BY <1>1, <1>2, <1>3, <1>4, <1>5, <1>6, <1>7, <1>8 DEF Next, Administer, Visit

(* Nobody holds an administrator's session who was not an active           *)
(* administrator when it began.                                            *)
THEOREM SessionsEarned == Spec => []AdminSessionsEarned
<1>1. Init => AdminSessionsEarned
  BY DEF Init, AdminSessionsEarned
<1>2. QED
  BY <1>1, EarnedStep, TypeCorrect, PTL DEF Spec

(***************************************************************************)
(* The rate limiter                                                        *)
(***************************************************************************)
PassedOf(c) == {j \in DOMAIN answers : answers[j].passed /\ answers[j].from = c}

PassageOf(j) == [request |-> j, at |-> answers[j].at]

RecentOf(c) == {j \in PassedOf(c) : clock - answers[j].at < RATE_LIMIT_WINDOW}

(* A bucket holds requests that were let through, and every recent one.    *)
BucketsInv ==
    /\ \A j \in DOMAIN answers : answers[j].at <= clock
    /\ \A c \in Client : buckets[c] \subseteq {PassageOf(j) : j \in PassedOf(c)}
    /\ \A c \in Client : \A j \in RecentOf(c) : PassageOf(j) \in buckets[c]

LimiterInv == RateLimiterTypeOK /\ BucketsInv /\ LimitExact

LEMMA RecentCounted ==
  ASSUME RateLimiterTypeOK, BucketsInv, NEW c \in Client
  PROVE  Cardinality(Recent(buckets[c])) = Cardinality(RecentOf(c))
<1> DEFINE f == [j \in RecentOf(c) |-> PassageOf(j)]
           B == Recent(buckets[c])
<1>1. \A j \in RecentOf(c) : PassageOf(j) \in B
  BY DEF BucketsInv, Recent, PassageOf, RecentOf
<1>2. \A e \in B : \E j \in RecentOf(c) : PassageOf(j) = e
  BY DEF BucketsInv, Recent, PassageOf, RecentOf
<1>3. \A i, j \in RecentOf(c) : PassageOf(i) = PassageOf(j) => i = j
  BY DEF PassageOf
<1>4. f \in Bijection(RecentOf(c), B)
  BY <1>1, <1>2, <1>3, Fun_IsBij
<1>5. RecentOf(c) \subseteq 1..Len(answers)
  BY DEF RecentOf, PassedOf, RateLimiterTypeOK
<1>6. IsFiniteSet(RecentOf(c))
  <2>1. IsFiniteSet(1..Len(answers))
    BY FS_Interval DEF RateLimiterTypeOK
  <2>2. QED
    BY <1>5, <2>1, FS_Subset
<1>7. QED
  BY <1>4, <1>6, FS_Bijection DEF ExistsBijection

LEMMA LimiterInit == RateLimiterInit => LimiterInv
<1> SUFFICES ASSUME RateLimiterInit PROVE LimiterInv
  OBVIOUS
<1>1. /\ answers = <<>> /\ DOMAIN answers = {}
      /\ <<>> \in Seq([from : Client, at : Nat, passed : BOOLEAN])
  BY DEF RateLimiterInit
<1>2. QED
  BY <1>1 DEF RateLimiterInit, LimiterInv, RateLimiterTypeOK, BucketsInv, LimitExact,
     PassedOf, RecentOf

LEMMA LimiterRequest ==
  ASSUME LimiterInv, NEW c \in Client, Request(c)
  PROVE  LimiterInv'
<1> PICK n : n = Len(answers) + 1
  OBVIOUS
<1> DEFINE p == Cardinality(Recent(buckets[c])) < RATE_LIMIT_MAX
           a == [from |-> c, at |-> clock, passed |-> p]
           B == IF p THEN Recent(buckets[c]) \cup {Passing} ELSE Recent(buckets[c])
<1>0. /\ clock \in Nat /\ buckets \in [Client -> SUBSET Passage]
      /\ answers \in Seq([from : Client, at : Nat, passed : BOOLEAN])
  BY DEF LimiterInv, RateLimiterTypeOK
<1>1. /\ answers' = Append(answers, a)
      /\ buckets' = [buckets EXCEPT ![c] = B]
      /\ clock' = clock
  <2>1. Cardinality(Recent(buckets[c])) \in Nat
    <3>1. IsFiniteSet(1..Len(answers))
      BY <1>0, FS_Interval
    <3>2. RecentOf(c) \subseteq 1..Len(answers)
      BY <1>0 DEF RecentOf, PassedOf
    <3>3. QED
      BY <3>1, <3>2, FS_Subset, FS_CardinalityType, RecentCounted DEF LimiterInv
  <2>2. CASE p
    <3>1. /\ buckets' = [buckets EXCEPT ![c] = Recent(buckets[c]) \cup {Passing}]
          /\ answers' = Append(answers, [from |-> c, at |-> clock, passed |-> TRUE])
          /\ clock' = clock
      BY <2>1, <2>2, LimiterAssumption DEF Request, Answer, LimiterAssumption
    <3>2. p = TRUE
      BY <2>2
    <3>3. QED
      BY <3>1, <3>2
  <2>3. CASE ~p
    <3>1. /\ buckets' = [buckets EXCEPT ![c] = Recent(buckets[c])]
          /\ answers' = Append(answers, [from |-> c, at |-> clock, passed |-> FALSE])
          /\ clock' = clock
      BY <2>1, <2>3, LimiterAssumption DEF Request, Answer, LimiterAssumption
    <3>2. p = FALSE
      BY <2>3
    <3>3. QED
      BY <3>1, <3>2
  <2>4. QED
    BY <2>2, <2>3
<1>2. a \in [from : Client, at : Nat, passed : BOOLEAN]
  BY <1>0
<1>2a. /\ p \in BOOLEAN
       /\ Recent(buckets[c]) \subseteq B
       /\ p => Passing \in B /\ B = Recent(buckets[c]) \cup {Passing}
       /\ ~p => B = Recent(buckets[c])
  OBVIOUS
<1> HIDE DEF p, B
<1>3. /\ Len(answers) \in Nat
      /\ DOMAIN answers = 1..Len(answers)
      /\ DOMAIN answers' = 1..n
      /\ answers'[n] = a
      /\ \A j \in DOMAIN answers : answers'[j] = answers[j]
  BY <1>0, <1>1, <1>2
<1>4. RateLimiterTypeOK'
  <2>1. Passing \in Passage
    BY <1>0, <1>3 DEF Passing, Passage
  <2>2. answers' \in Seq([from : Client, at : Nat, passed : BOOLEAN])
    BY <1>0, <1>1, <1>2
  <2>3. B \subseteq Passage
    BY <1>0, <1>2a, <2>1 DEF Recent
  <2>4. QED
    BY <1>0, <1>1, <2>2, <2>3 DEF RateLimiterTypeOK
<1>5. \A j \in DOMAIN answers' : answers'[j].at <= clock'
  BY <1>0, <1>1, <1>3 DEF LimiterInv, BucketsInv
<1>6. /\ \A j \in DOMAIN answers : PassageOf(j)' = PassageOf(j)
      /\ PassageOf(n)' = Passing
  BY <1>1, <1>3 DEF PassageOf, Passing
<1>6a. ASSUME NEW d \in Client
       PROVE  /\ PassedOf(d) \subseteq DOMAIN answers
              /\ PassedOf(d) \subseteq PassedOf(d)'
              /\ PassedOf(d)' \subseteq PassedOf(d) \cup {n}
              /\ n \in PassedOf(d)' <=> d = c /\ p
  <2>1. PassedOf(d)' = {j \in 1..n : answers'[j].passed /\ answers'[j].from = d}
    BY <1>3 DEF PassedOf
  <2>2. n \in 1..n /\ n \notin DOMAIN answers /\ 1..n = DOMAIN answers \cup {n}
    BY <1>3
  <2>3. answers'[n].passed = p /\ answers'[n].from = c
    BY <1>3
  <2>4. n \in PassedOf(d)' <=> d = c /\ p
    BY <2>1, <2>2, <2>3, <1>2a
  <2>5. QED
    BY <1>3, <2>1, <2>2, <2>4 DEF PassedOf
<1>7. ASSUME NEW d \in Client
      PROVE  /\ buckets'[d] \subseteq {PassageOf(j)' : j \in PassedOf(d)'}
             /\ \A j \in RecentOf(d)' : PassageOf(j)' \in buckets'[d]
  <2>1. /\ buckets[d] \subseteq {PassageOf(j) : j \in PassedOf(d)}
        /\ \A j \in RecentOf(d) : PassageOf(j) \in buckets[d]
        /\ PassedOf(d) \subseteq DOMAIN answers
    BY DEF LimiterInv, BucketsInv, PassedOf
  <2>2. buckets'[d] = IF d = c THEN B ELSE buckets[d]
    BY <1>0, <1>1
  <2>3. buckets'[d] \subseteq {PassageOf(j)' : j \in PassedOf(d)'}
    <3>1. Recent(buckets[c]) \subseteq buckets[c]
      BY DEF Recent
    <3>2. ASSUME NEW e \in buckets[d]
          PROVE  \E j \in PassedOf(d)' : e = PassageOf(j)'
      BY <1>6, <1>6a, <2>1
    <3>3. ASSUME d = c, p
          PROVE  \E j \in PassedOf(d)' : Passing = PassageOf(j)'
      BY <1>6, <1>6a, <3>3
    <3>4. QED
      BY <1>2a, <2>2, <3>1, <3>2, <3>3
  <2>4. ASSUME NEW j \in RecentOf(d)'
        PROVE  PassageOf(j)' \in buckets'[d]
    <3>1. j \in PassedOf(d)' /\ clock - answers'[j].at < RATE_LIMIT_WINDOW
      BY <1>1 DEF RecentOf
    <3>2. CASE j \in PassedOf(d)
      <4>1. j \in RecentOf(d) /\ PassageOf(j)' = PassageOf(j)
        BY <1>3, <1>6, <2>1, <3>1, <3>2 DEF RecentOf, PassedOf
      <4>2. PassageOf(j) \in buckets[d] /\ clock - PassageOf(j).at < RATE_LIMIT_WINDOW
        BY <2>1, <4>1 DEF RecentOf, PassageOf
      <4>3. d = c => PassageOf(j) \in Recent(buckets[c])
        BY <4>2 DEF Recent
      <4>4. QED
        BY <1>2a, <2>2, <4>1, <4>2, <4>3
    <3>3. CASE j \notin PassedOf(d)
      <4>1. d = c /\ p /\ j = n
        BY <1>6a, <3>1, <3>3
      <4>2. QED
        BY <1>2a, <1>6, <2>2, <4>1
    <3>4. QED
      BY <3>2, <3>3
  <2>5. QED
    BY <2>3, <2>4
<1>8. LimitExact'
  <2> DEFINE Before(s, k) == {j \in 1..(k - 1) :
                /\ s[j].passed
                /\ s[j].from = s[k].from
                /\ s[k].at - s[j].at < RATE_LIMIT_WINDOW}
  <2>1. SUFFICES ASSUME NEW k \in DOMAIN answers'
                 PROVE  answers'[k].passed <=> Cardinality(Before(answers', k)) < RATE_LIMIT_MAX
    BY DEF LimitExact
  <2>2. CASE k \in DOMAIN answers
    <3>1. Before(answers', k) = Before(answers, k)
      BY <1>3, <2>2
    <3>2. answers[k].passed <=> Cardinality(Before(answers, k)) < RATE_LIMIT_MAX
      BY <2>2 DEF LimiterInv, LimitExact
    <3>3. QED
      BY <1>3, <2>2, <3>1, <3>2
  <2>3. CASE k = n
    <3>1. Before(answers', n) = RecentOf(c)
      BY <1>3 DEF RecentOf, PassedOf
    <3>2. answers'[n].passed <=> p
      BY <1>3
    <3>3. QED
      BY <2>3, <3>1, <3>2, RecentCounted DEF p, LimiterInv
  <2>4. QED
    BY <1>3, <2>2, <2>3
<1>9. QED
  BY <1>4, <1>5, <1>7, <1>8 DEF LimiterInv, BucketsInv

LEMMA LimiterTick ==
  ASSUME LimiterInv, Tick
  PROVE  LimiterInv'
<1>0. /\ clock \in Nat /\ clock' = clock + 1 /\ UNCHANGED <<buckets, answers>>
      /\ answers \in Seq([from : Client, at : Nat, passed : BOOLEAN])
  BY DEF Tick, LimiterInv, RateLimiterTypeOK
<1>0a. ASSUME NEW j \in DOMAIN answers
       PROVE  answers[j].at \in Nat
  <2> DEFINE R == [from : Client, at : Nat, passed : BOOLEAN]
  <2>1. \A e \in R : e.at \in Nat
    OBVIOUS
  <2>2. answers \in Seq(R)
    BY <1>0
  <2> HIDE DEF R
  <2>3. answers[j] \in R
    BY <2>2
  <2>4. QED
    BY <2>1, <2>3
<1>1. RateLimiterTypeOK' /\ LimitExact'
  BY <1>0 DEF LimiterInv, RateLimiterTypeOK, LimitExact
<1>2. \A j \in DOMAIN answers : answers[j].at <= clock'
  BY <1>0, <1>0a DEF LimiterInv, BucketsInv
<1>3. /\ \A c \in Client : PassedOf(c)' = PassedOf(c)
      /\ \A j \in DOMAIN answers : PassageOf(j)' = PassageOf(j)
  BY <1>0 DEF PassedOf, PassageOf
<1>4. \A c \in Client : RecentOf(c)' \subseteq RecentOf(c)
  BY <1>0, <1>0a, LimiterAssumption DEF RecentOf, PassedOf, LimiterAssumption
<1>5. QED
  BY <1>0, <1>1, <1>2, <1>3, <1>4 DEF LimiterInv, BucketsInv, PassedOf, PassageOf

(* Over the whole history a request was refused exactly when as many of    *)
(* the same client's had been let through in the window that ends with it. *)
THEOREM LimiterExact == RateLimiterSpec => []LimitExact
<1>1. LimiterInv /\ [RateLimiterNext]_limiterVars => LimiterInv'
  <2>1. LimiterInv /\ UNCHANGED limiterVars => LimiterInv'
    BY DEF limiterVars, LimiterInv, RateLimiterTypeOK, BucketsInv, LimitExact, PassedOf,
       RecentOf, PassageOf
  <2>2. QED
    BY <2>1, LimiterRequest, LimiterTick DEF RateLimiterNext
<1>2. LimiterInv => LimitExact
  BY DEF LimiterInv
<1>3. QED
  BY <1>1, <1>2, LimiterInit, PTL DEF RateLimiterSpec

(***************************************************************************)
(* The walk through the findings                                           *)
(***************************************************************************)
(* A product by the page size, and the last page.                          *)
LEMMA PageProducts ==
  ASSUME FindingsTypeOK
  PROVE  /\ perPage \in Nat \ {0} /\ opened \in Nat \ {0} /\ DefaultPerPage \in Nat \ {0}
         /\ (page - 1) * perPage \in Nat
         /\ page * perPage \in Nat
         /\ (page - 1) * perPage <= page * perPage
         /\ (page + 1 - 1) * perPage = page * perPage
BY PerPageAssumption DEF FindingsTypeOK, PerPageAssumption

(* What a first page of another size than the default skips.               *)
LEMMA SkippedType ==
  ASSUME FindingsTypeOK
  PROVE  Skipped \in Nat /\ (UNCHANGED <<page, opened>> => Skipped' = Skipped)
BY PerPageAssumption DEF FindingsTypeOK, Skipped, PerPageAssumption

LEMMA LastPage ==
  ASSUME NEW total \in Nat, NEW size \in Nat \ {0}, NEW p \in Nat,
         p >= (total + size - 1) \div size
  PROVE  total <= p * size
<1> DEFINE q == (total + size - 1) \div size
<1>1. q \in Nat /\ total + size - 1 < size * q + size
  OBVIOUS
<1>2. PICK d \in Nat : p = q + d
  BY <1>1
<1> HIDE DEF q
<1>3. p * size = q * size + d * size
  BY <1>1, <1>2
<1>4. d * size \in Nat /\ q * size \in Nat /\ size * q = q * size
  BY <1>1
<1>5. QED
  BY <1>1, <1>3, <1>4

(* The rows at least as new as row i that the filter lets through.         *)
ListedFrom(i) == {k \in i..Len(table) : Listed(table[k])}

LEMMA ListedFromFinite ==
  ASSUME FindingsTypeOK, NEW i \in Nat
  PROVE  IsFiniteSet(ListedFrom(i))
<1>1. IsFiniteSet(i..Len(table))
  BY FS_Interval DEF FindingsTypeOK
<1>2. QED
  BY <1>1, FS_Subset DEF ListedFrom

LEMMA RankFacts ==
  ASSUME FindingsTypeOK, NEW i \in DOMAIN table
  PROVE  /\ Rank(i) \in Nat
         /\ Rank(i) <= Total
         /\ Listed(table[i]) => Rank(i) >= 1
         /\ \A j \in DOMAIN table : i < j /\ Listed(table[i]) => Rank(j) < Rank(i)
<1>0. Len(table) \in Nat /\ DOMAIN table = 1..Len(table)
  BY DEF FindingsTypeOK
<1>1. \A j \in DOMAIN table : /\ IsFiniteSet(ListedFrom(j))
                              /\ Rank(j) = Cardinality(ListedFrom(j))
                              /\ Rank(j) \in Nat
  BY <1>0, ListedFromFinite, FS_CardinalityType DEF Rank, ListedFrom
<1>2. Rank(i) <= Total
  <2>1. Total = Cardinality(ListedFrom(1)) /\ ListedFrom(i) \subseteq ListedFrom(1)
    BY <1>0 DEF Total, ListedFrom
  <2>2. QED
    BY <1>1, <2>1, ListedFromFinite, FS_Subset
<1>3. ASSUME Listed(table[i]) PROVE Rank(i) >= 1
  <2>1. i \in ListedFrom(i)
    BY <1>0, <1>3 DEF ListedFrom
  <2>2. Cardinality(ListedFrom(i)) # 0
    BY <1>1, <2>1, FS_EmptySet
  <2>3. QED
    BY <1>1, <2>2
<1>4. ASSUME NEW j \in DOMAIN table, i < j, Listed(table[i])
      PROVE  Rank(j) < Rank(i)
  <2>1. /\ ListedFrom(j) \subseteq ListedFrom(i)
        /\ i \in ListedFrom(i)
        /\ i \notin ListedFrom(j)
    BY <1>0, <1>4 DEF ListedFrom
  <2>2. /\ Cardinality(ListedFrom(j)) <= Cardinality(ListedFrom(i))
        /\ Cardinality(ListedFrom(j)) # Cardinality(ListedFrom(i))
    BY <1>1, <2>1, FS_Subset
  <2>3. QED
    BY <1>1, <2>2
<1>5. QED
  BY <1>1, <1>2, <1>3, <1>4

(* How many rows the pages shown so far have gone through, and which rows  *)
(* of the start the next ones will not show any more.                      *)
Covered == IF phase \in {"total", "shown"} THEN page * perPage ELSE (page - 1) * perPage

Ahead(f) == \E i \in DOMAIN table : table[i] = f /\ Listed(f) /\ Rank(i) > Covered

Missed == {f \in atStart \ shown : ~Ahead(f)}

TableInv ==
    /\ \A i, j \in DOMAIN table : table[i] = table[j] => i = j
    /\ atStart \subseteq Elements(table)
    /\ reviewed \subseteq Elements(table)
    /\ phase = "idle" => atStart = {} /\ page = 1
    /\ perPage = IF page = 1 THEN opened ELSE DefaultPerPage
    /\ filter # "open" => \A f \in atStart : Listed(f)

WalkInv ==
    /\ FindingsTypeOK
    /\ TableInv
    /\ Cardinality(Missed) <= gone + Skipped
    /\ WalkComplete

LEMMA StartFinite ==
  ASSUME FindingsTypeOK, TableInv, NEW T, T \subseteq atStart
  PROVE  IsFiniteSet(T) /\ Cardinality(T) \in Nat
<1>1. table \in Surjection(DOMAIN table, Elements(table))
  BY DEF FindingsTypeOK, Elements, Surjection
<1>2. IsFiniteSet(DOMAIN table)
  BY FS_Interval DEF FindingsTypeOK
<1>3. IsFiniteSet(Elements(table))
  BY <1>1, <1>2, FS_Surjection
<1>4. QED
  BY <1>3, FS_Subset, FS_CardinalityType DEF TableInv

LEMMA WalkInit == FindingsInit => WalkInv
<1> SUFFICES ASSUME FindingsInit PROVE WalkInv
  OBVIOUS
<1>1. <<>> \in Seq(Finding) /\ DOMAIN <<>> = {}
  OBVIOUS
<1>2. FindingsTypeOK /\ TableInv /\ WalkComplete
  BY <1>1, PerPageAssumption
  DEF FindingsInit, FindingsTypeOK, TableInv, WalkComplete, Elements, PerPageAssumption
<1>3. Missed = {}
  BY DEF FindingsInit, Missed
<1>4. Skipped \in Nat
  BY <1>2, SkippedType
<1>5. QED
  BY <1>2, <1>3, <1>4, FS_EmptySet DEF FindingsInit, WalkInv

(* A step after which no more rows of the start are missed.                *)
LEMMA NoMoreMissed ==
  ASSUME WalkInv, FindingsTypeOK', TableInv', Missed' \subseteq Missed, gone' >= gone,
         UNCHANGED <<page, opened>>
  PROVE  Cardinality(Missed') <= gone' + Skipped'
<1>1. Missed \subseteq atStart
  BY DEF Missed
<1>2. IsFiniteSet(Missed) /\ Cardinality(Missed) \in Nat
  BY <1>1, StartFinite DEF WalkInv
<1>3. IsFiniteSet(Missed') /\ Cardinality(Missed') \in Nat /\ Cardinality(Missed') <= Cardinality(Missed)
  BY <1>2, FS_Subset, FS_CardinalityType
<1>4. Skipped' = Skipped /\ Skipped \in Nat
  BY SkippedType DEF WalkInv
<1>5. QED
  BY <1>2, <1>3, <1>4 DEF WalkInv, FindingsTypeOK

(* What stays ahead of the walk.                                           *)
LEMMA StillAhead ==
  ASSUME UNCHANGED <<atStart>>, shown \subseteq shown',
         \A f \in atStart \ shown' : Ahead(f) => Ahead(f)'
  PROVE  Missed' \subseteq Missed
BY DEF Missed

LEMMA WalkWriterAdds ==
  ASSUME WalkInv, NEW g \in Finding, WriterAdds(g)
  PROVE  WalkInv'
<1> PICK n : n = Len(table) + 1
  OBVIOUS
<1>0. /\ table \in Seq(Finding)
      /\ table' = Append(table, g)
      /\ UNCHANGED <<reviewed, gone, filter, page, perPage, phase, pages, shown, opened, atStart>>
      /\ g \notin Elements(table)
  BY DEF WriterAdds, walkVars, WalkInv, FindingsTypeOK
<1>1. /\ Len(table) \in Nat
      /\ DOMAIN table = 1..Len(table)
      /\ Len(table') = n
      /\ DOMAIN table' = 1..n
      /\ table'[n] = g
      /\ \A i \in DOMAIN table : table'[i] = table[i] /\ table[i] # g
  BY <1>0 DEF Elements
<1>2. FindingsTypeOK'
  BY <1>0 DEF WalkInv, FindingsTypeOK
<1>3. \A f : Listed(f)' <=> Listed(f)
  BY <1>0 DEF Listed
<1>4. TableInv'
  <2>1. \A i, j \in DOMAIN table' : table'[i] = table'[j] => i = j
    BY <1>1 DEF WalkInv, TableInv
  <2>2. Elements(table) \subseteq Elements(table')
    BY <1>1 DEF Elements
  <2>3. QED
    BY <1>0, <1>3, <2>1, <2>2 DEF WalkInv, TableInv, Elements
<1>5. ASSUME NEW i \in DOMAIN table
      PROVE  Rank(i) <= Rank(i)'
  <2>1. /\ Rank(i) = Cardinality(ListedFrom(i))
        /\ Rank(i)' = Cardinality(ListedFrom(i)')
        /\ i \in Nat
    BY <1>1 DEF Rank, ListedFrom
  <2>2. ListedFrom(i) \subseteq ListedFrom(i)'
    BY <1>1, <1>3 DEF ListedFrom
  <2>3. IsFiniteSet(ListedFrom(i)')
    <3>1. IsFiniteSet(i..n)
      BY <1>1, FS_Interval
    <3>2. ListedFrom(i)' \subseteq i..n
      BY <1>1 DEF ListedFrom
    <3>3. QED
      BY <3>1, <3>2, FS_Subset
  <2>4. QED
    BY <2>1, <2>2, <2>3, FS_Subset
<1>6. ASSUME NEW f, Ahead(f)
      PROVE  Ahead(f)'
  <2>1. PICK i \in DOMAIN table : table[i] = f /\ Listed(f) /\ Rank(i) > Covered
    BY <1>6 DEF Ahead
  <2>2. Covered' = Covered /\ Covered \in Nat
    BY <1>0, PageProducts DEF Covered, WalkInv
  <2>3. Rank(i) \in Nat /\ Rank(i)' \in Nat
    <3>1. i \in DOMAIN table'
      BY <1>1
    <3>2. Rank(i)' \in Nat
      <4>1. IsFiniteSet(i..n)
        BY <1>1, FS_Interval
      <4>2. Rank(i)' = Cardinality(ListedFrom(i)') /\ ListedFrom(i)' \subseteq i..n
        BY <1>1 DEF Rank, ListedFrom
      <4>3. QED
        BY <4>1, <4>2, FS_Subset, FS_CardinalityType
    <3>3. QED
      BY <3>2, RankFacts DEF WalkInv
  <2>4. Rank(i)' > Covered'
    BY <1>5, <2>1, <2>2, <2>3
  <2>5. QED
    BY <1>1, <1>3, <2>1, <2>4 DEF Ahead
<1>7. Missed' \subseteq Missed
  BY <1>0, <1>6, StillAhead
<1>8. Cardinality(Missed') <= gone' + Skipped'
  BY <1>0, <1>2, <1>4, <1>7, NoMoreMissed DEF WalkInv, FindingsTypeOK
<1>9. Skipped' = Skipped
  BY <1>0, SkippedType DEF WalkInv
<1>10. QED
  BY <1>0, <1>2, <1>4, <1>8, <1>9 DEF WalkInv, WalkComplete

(* Reviewing g takes it out of an open list and moves what is behind it up *)
(* by one: one row of the start is missed for it, and not two.             *)
LEMMA ReviewMissesOne ==
  ASSUME WalkInv, FindingsTypeOK', NEW g \in Finding, ReviewFinding(g),
         filter = "open", g \notin reviewed
  PROVE  \A f, h \in Missed' \ Missed : f = h
<1>0. /\ FindingsTypeOK /\ TableInv
      /\ UNCHANGED <<table, filter, page, perPage, phase, pages, shown, opened, atStart>>
      /\ reviewed' = reviewed \cup {g}
      /\ g \in Elements(table)
  BY DEF WalkInv, ReviewFinding, walkVars
<1>1. \A f : Listed(f)' <=> Listed(f) /\ f # g
  BY <1>0 DEF Listed
<1>2. PICK r \in DOMAIN table : table[r] = g
  BY <1>0 DEF Elements
<1>3. Len(table) \in Nat /\ DOMAIN table = 1..Len(table)
  BY <1>0 DEF FindingsTypeOK
<1>4. Covered' = Covered /\ Covered \in Nat
  BY <1>0, PageProducts DEF Covered
<1>5. ASSUME NEW i \in DOMAIN table
      PROVE  /\ Rank(i) \in Nat /\ Rank(i)' \in Nat
             /\ Rank(i)' >= Rank(i) - 1
             /\ i > r => Rank(i)' = Rank(i)
  <2>1. /\ Rank(i) = Cardinality(ListedFrom(i))
        /\ Rank(i)' = Cardinality(ListedFrom(i)')
    BY DEF Rank, ListedFrom
  <2>2. ListedFrom(i)' = ListedFrom(i) \ {r}
    BY <1>0, <1>1, <1>2, <1>3 DEF ListedFrom, TableInv
  <2>3. IsFiniteSet(ListedFrom(i))
    BY <1>0, <1>3, ListedFromFinite
  <2>4. i > r => r \notin ListedFrom(i)
    BY <1>3 DEF ListedFrom
  <2>5. /\ Cardinality(ListedFrom(i)) \in Nat
        /\ Cardinality(ListedFrom(i) \ {r}) =
              Cardinality(ListedFrom(i)) - (IF r \in ListedFrom(i) THEN 1 ELSE 0)
    BY <2>3, FS_CardinalityType, FS_RemoveElement
  <2>6. Cardinality(ListedFrom(i) \ {r}) \in Nat
    BY <2>3, FS_Subset, FS_CardinalityType
  <2>7. i > r => ListedFrom(i) \ {r} = ListedFrom(i)
    BY <2>4
  <2> HIDE DEF ListedFrom
  <2>8. QED
    BY <2>1, <2>2, <2>5, <2>6, <2>7
<1>6. ASSUME NEW f \in Missed' \ Missed, f # g
      PROVE  \E i \in DOMAIN table : /\ table[i] = f /\ Listed(f)
                                     /\ Rank(i) = Covered + 1
                                     /\ i <= r
  <2>1. f \in atStart \ shown /\ Ahead(f) /\ ~Ahead(f)'
    BY <1>0, <1>6 DEF Missed
  <2>2. PICK i \in DOMAIN table : table[i] = f /\ Listed(f) /\ Rank(i) > Covered
    BY <2>1 DEF Ahead
  <2>3. ~(Rank(i)' > Covered')
    BY <1>0, <1>1, <1>6, <2>1, <2>2 DEF Ahead
  <2>4. Rank(i) = Covered + 1 /\ ~(i > r)
    BY <1>4, <1>5, <2>2, <2>3
  <2>5. QED
    BY <1>3, <2>2, <2>4
<1>7. \A i, j \in DOMAIN table :
         Listed(table[i]) /\ Listed(table[j]) /\ Rank(i) = Rank(j) => i = j
  <2> SUFFICES ASSUME NEW i \in DOMAIN table, NEW j \in DOMAIN table,
                      Listed(table[i]), Listed(table[j]), Rank(i) = Rank(j)
               PROVE  i = j
    OBVIOUS
  <2>1. ~(i < j) /\ ~(j < i)
    BY <1>0, <1>5, RankFacts
  <2>2. QED
    BY <1>3, <2>1
<1>8. SUFFICES ASSUME NEW f \in Missed' \ Missed, NEW h \in Missed' \ Missed, f # h
               PROVE  FALSE
  OBVIOUS
<1>9. CASE f # g /\ h # g
  BY <1>6, <1>7, <1>8, <1>9
<1>10. ASSUME NEW e \in Missed' \ Missed, e # g, g \in Missed' \ Missed
       PROVE  FALSE
  <2>1. PICK i \in DOMAIN table : /\ table[i] = e /\ Listed(e)
                                  /\ Rank(i) = Covered + 1 /\ i <= r
    BY <1>6, <1>10
  <2>2. g \in atStart \ shown /\ Ahead(g)
    BY <1>0, <1>10 DEF Missed
  <2>3. Rank(r) > Covered
    BY <1>0, <1>2, <2>2 DEF Ahead, TableInv
  <2>4. i < r
    BY <1>2, <1>3, <1>10, <2>1
  <2>5. Rank(r) < Rank(i)
    BY <1>0, <2>1, <2>4, RankFacts
  <2>6. QED
    BY <1>4, <1>5, <2>1, <2>3, <2>5
<1>11. QED
  BY <1>8, <1>9, <1>10

LEMMA WalkReview ==
  ASSUME WalkInv, NEW g \in Finding, ReviewFinding(g)
  PROVE  WalkInv'
<1>0. /\ FindingsTypeOK /\ TableInv /\ Cardinality(Missed) <= gone + Skipped
      /\ UNCHANGED <<table, filter, page, perPage, phase, pages, shown, opened, atStart>>
      /\ reviewed' = reviewed \cup {g}
      /\ g \in Elements(table)
      /\ gone' = IF phase # "idle" /\ filter = "open" /\ g \notin reviewed
                  THEN gone + 1 ELSE gone
  BY DEF WalkInv, ReviewFinding, walkVars
<1>1. FindingsTypeOK' /\ gone' >= gone
  BY <1>0 DEF FindingsTypeOK
<1>2. TableInv'
  <2>1. filter # "open" => \A f : Listed(f) => Listed(f)'
    BY <1>0 DEF Listed, FindingsTypeOK
  <2>2. QED
    BY <1>0, <2>1 DEF TableInv, Elements
<1>3. Cardinality(Missed') <= gone' + Skipped'
  <2>1. CASE phase = "idle"
    <3>1. Missed' \subseteq Missed
      BY <1>0, <2>1 DEF Missed, TableInv
    <3>2. QED
      BY <1>0, <1>1, <1>2, <3>1, NoMoreMissed
  <2>2. CASE phase # "idle" /\ filter = "open" /\ g \notin reviewed
    <3>1. \A f, h \in Missed' \ Missed : f = h
      BY <1>1, <2>2, ReviewMissesOne
    <3>2. /\ IsFiniteSet(Missed) /\ Cardinality(Missed) \in Nat
          /\ IsFiniteSet(Missed') /\ Cardinality(Missed') \in Nat
      <4>1. Missed \subseteq atStart /\ Missed' \subseteq atStart'
        BY DEF Missed
      <4>2. QED
        BY <1>0, <1>1, <1>2, <4>1, StartFinite
    <3>3. Cardinality(Missed') <= Cardinality(Missed) + 1
      <4>1. PICK x : Missed' \subseteq Missed \cup {x}
        <5>1. CASE Missed' \ Missed = {}
          BY <5>1
        <5>2. CASE Missed' \ Missed # {}
          BY <3>1, <5>2
        <5>3. QED
          BY <5>1, <5>2
      <4>2. IsFiniteSet(Missed \cup {x})
        BY <3>2, FS_AddElement
      <4>3. Cardinality(Missed') <= Cardinality(Missed \cup {x})
        BY <4>1, <4>2, FS_Subset
      <4>4. /\ Cardinality(Missed \cup {x}) \in Nat
            /\ Cardinality(Missed \cup {x}) <= Cardinality(Missed) + 1
        BY <3>2, FS_AddElement
      <4>5. QED
        BY <3>2, <4>3, <4>4
    <3>4. Skipped' = Skipped /\ Skipped \in Nat
      BY <1>0, SkippedType
    <3>5. QED
      BY <1>0, <2>2, <3>2, <3>3, <3>4 DEF FindingsTypeOK
  <2>3. CASE filter # "open" \/ g \in reviewed
    <3>1. \A f : Listed(f) => Listed(f)'
      BY <1>0, <2>3 DEF Listed, FindingsTypeOK
    <3>2. Len(table) \in Nat /\ DOMAIN table = 1..Len(table)
      BY <1>0 DEF FindingsTypeOK
    <3>3. Covered' = Covered /\ Covered \in Nat
      BY <1>0, PageProducts DEF Covered
    <3>4. ASSUME NEW i \in DOMAIN table
          PROVE  /\ Rank(i) \in Nat /\ Rank(i)' \in Nat
                 /\ Rank(i) <= Rank(i)'
      <4>1. /\ Rank(i) = Cardinality(ListedFrom(i))
            /\ Rank(i)' = Cardinality(ListedFrom(i)')
        BY DEF Rank, ListedFrom
      <4>2. ListedFrom(i) \subseteq ListedFrom(i)'
        BY <1>0, <3>1 DEF ListedFrom
      <4>3. IsFiniteSet(ListedFrom(i)') /\ IsFiniteSet(ListedFrom(i))
        <5>1. IsFiniteSet(i..Len(table))
          BY <3>2, FS_Interval
        <5>2. ListedFrom(i)' \subseteq i..Len(table) /\ ListedFrom(i) \subseteq i..Len(table)
          BY <1>0 DEF ListedFrom
        <5>3. QED
          BY <5>1, <5>2, FS_Subset
      <4>4. QED
        BY <4>1, <4>2, <4>3, FS_Subset, FS_CardinalityType
    <3>5. ASSUME NEW f, Ahead(f)
          PROVE  Ahead(f)'
      <4>1. PICK i \in DOMAIN table : table[i] = f /\ Listed(f) /\ Rank(i) > Covered
        BY <3>5 DEF Ahead
      <4>2. Rank(i)' > Covered'
        BY <3>3, <3>4, <4>1
      <4>3. QED
        BY <1>0, <3>1, <4>1, <4>2 DEF Ahead
    <3>6. Missed' \subseteq Missed
      BY <1>0, <3>5, StillAhead
    <3>7. QED
      BY <1>0, <1>1, <1>2, <3>6, NoMoreMissed
  <2>4. QED
    BY <2>1, <2>2, <2>3
<1>4. WalkComplete'
  <2>1. Cardinality(atStart \ shown) \in Nat
    BY <1>0, StartFinite
  <2>2. Skipped' = Skipped /\ Skipped \in Nat
    BY <1>0, SkippedType
  <2>3. QED
    BY <1>0, <1>1, <2>1, <2>2 DEF WalkInv, WalkComplete, FindingsTypeOK
<1>5. QED
  BY <1>1, <1>2, <1>3, <1>4 DEF WalkInv

LEMMA WalkOpen ==
  ASSUME WalkInv, OpenList
  PROVE  WalkInv'
<1>0. /\ FindingsTypeOK /\ TableInv /\ Cardinality(Missed) <= gone + Skipped
      /\ UNCHANGED <<table, reviewed, filter, page, pages, shown, gone>>
      /\ perPage' \in PageSize /\ opened' = perPage'
      /\ phase = "idle" /\ phase' = "rows"
      /\ atStart' = {f \in Elements(table) : Listed(f)}
  BY DEF WalkInv, OpenList
<1>1. Elements(table) \subseteq Finding
  BY <1>0 DEF FindingsTypeOK, Elements
<1>2. FindingsTypeOK'
  BY <1>0, <1>1 DEF FindingsTypeOK
<1>3. \A f : Listed(f)' <=> Listed(f)
  BY <1>0 DEF Listed
<1>4. TableInv'
  BY <1>0, <1>3 DEF TableInv, Elements
<1>5. Missed' = {}
  <2>1. Covered' = 0
    <3>1. perPage' \in Nat /\ page' = 1
      BY <1>0, PerPageAssumption DEF TableInv, PerPageAssumption
    <3>2. Covered' = (page' - 1) * perPage'
      BY <1>0 DEF Covered
    <3>3. page' - 1 = 0 /\ \A n \in Nat : 0 * n = 0
      BY <3>1
    <3>4. QED
      BY <3>1, <3>2, <3>3
  <2>2. ASSUME NEW f \in atStart' PROVE Ahead(f)'
    <3>1. PICK i \in DOMAIN table : table[i] = f
      BY <1>0, <2>2 DEF Elements
    <3>2. Listed(f) /\ Listed(f)'
      BY <1>0, <1>3, <2>2
    <3>3. Rank(i)' = Rank(i)
      BY <1>0, <1>3 DEF Rank
    <3>4. Rank(i)' \in Nat /\ Rank(i)' >= 1
      BY <1>0, <3>1, <3>2, <3>3, RankFacts
    <3>5. QED
      BY <1>0, <2>1, <3>1, <3>2, <3>4 DEF Ahead
  <2>3. QED
    BY <2>2 DEF Missed
<1>6. Cardinality(Missed') <= gone' + Skipped'
  <2>1. FindingsTypeOK => Skipped \in Nat
    BY SkippedType
  <2>2. (FindingsTypeOK => Skipped \in Nat)'
    BY SkippedType, PTL
  <2>3. QED
    BY <1>0, <1>2, <1>5, <2>2, FS_EmptySet DEF FindingsTypeOK
<1>7. QED
  BY <1>0, <1>2, <1>4, <1>6 DEF WalkInv, WalkComplete

LEMMA WalkRows ==
  ASSUME WalkInv, SelectRows
  PROVE  WalkInv'
<1>0. /\ FindingsTypeOK /\ TableInv /\ Cardinality(Missed) <= gone + Skipped
      /\ UNCHANGED <<table, reviewed, filter, page, perPage, pages, opened, atStart, gone>>
      /\ phase = "rows" /\ phase' = "total"
      /\ shown' = shown \cup Rows
  BY DEF WalkInv, SelectRows
<1>1. Rows \subseteq Finding
  BY <1>0 DEF FindingsTypeOK, Rows
<1>2. FindingsTypeOK'
  BY <1>0, <1>1 DEF FindingsTypeOK
<1>3. \A f : Listed(f)' <=> Listed(f)
  BY <1>0 DEF Listed
<1>4. TableInv'
  BY <1>0, <1>3 DEF TableInv, Elements
<1>5. Covered = (page - 1) * perPage /\ Covered' = page * perPage
  BY <1>0 DEF Covered
<1>6. \A i : Rank(i)' = Rank(i)
  BY <1>0, <1>3 DEF Rank
<1>7. ASSUME NEW f \in atStart \ shown', Ahead(f)
      PROVE  Ahead(f)'
  <2>1. PICK i \in DOMAIN table : table[i] = f /\ Listed(f) /\ Rank(i) > (page - 1) * perPage
    BY <1>5, <1>7 DEF Ahead
  <2>2. ~(Rank(i) <= page * perPage)
    BY <1>0, <1>7, <2>1 DEF Rows
  <2>3. Rank(i) \in Nat /\ page * perPage \in Nat
    BY <1>0, RankFacts, PageProducts
  <2>4. Rank(i)' > Covered'
    BY <1>5, <1>6, <2>2, <2>3
  <2>5. QED
    BY <1>0, <1>3, <2>1, <2>4 DEF Ahead
<1>8. Missed' \subseteq Missed
  BY <1>0, <1>7, StillAhead
<1>9. Cardinality(Missed') <= gone' + Skipped'
  BY <1>0, <1>2, <1>4, <1>8, NoMoreMissed DEF FindingsTypeOK
<1>10. QED
  BY <1>0, <1>2, <1>4, <1>9 DEF WalkInv, WalkComplete

(* Nothing is ahead of a walk that has come to the last page.              *)
LEMMA WalkCount ==
  ASSUME WalkInv, SelectCount
  PROVE  WalkInv'
<1>0. /\ FindingsTypeOK /\ TableInv /\ Cardinality(Missed) <= gone + Skipped
      /\ UNCHANGED <<table, reviewed, filter, page, perPage, shown, opened, atStart, gone>>
      /\ phase = "total" /\ phase' = "shown"
      /\ pages' = TotalPages(Total)
  BY DEF WalkInv, SelectCount
<1>1. Total \in Nat
  <2>1. IsFiniteSet(DOMAIN table)
    BY <1>0, FS_Interval DEF FindingsTypeOK
  <2>2. QED
    BY <2>1, FS_Subset, FS_CardinalityType DEF Total
<1>2. FindingsTypeOK'
  BY <1>0, <1>1, PerPageAssumption DEF FindingsTypeOK, TotalPages, PerPageAssumption
<1>3. \A f : Listed(f)' <=> Listed(f)
  BY <1>0 DEF Listed
<1>4. TableInv'
  BY <1>0, <1>3 DEF TableInv, Elements
<1>5. Missed' = Missed
  <2>1. Covered' = Covered
    BY <1>0 DEF Covered
  <2>2. \A i : Rank(i)' = Rank(i)
    BY <1>0, <1>3 DEF Rank
  <2>3. \A f : Ahead(f)' <=> Ahead(f)
    BY <1>0, <1>3, <2>1, <2>2 DEF Ahead
  <2>4. QED
    BY <1>0, <2>3 DEF Missed
<1>6. ASSUME page >= pages'
      PROVE  Cardinality(atStart \ shown) <= gone + Skipped
  <2>1. Total <= page * perPage
    BY <1>0, <1>1, <1>6, LastPage, PerPageAssumption
    DEF TotalPages, FindingsTypeOK, PerPageAssumption
  <2>2. ASSUME NEW f \in atStart \ shown PROVE ~Ahead(f)
    <3> SUFFICES ASSUME Ahead(f) PROVE FALSE
      OBVIOUS
    <3>1. PICK i \in DOMAIN table : Rank(i) > Covered
      BY DEF Ahead
    <3>2. Covered = page * perPage
      BY <1>0 DEF Covered
    <3>3. Rank(i) \in Nat /\ Rank(i) <= Total /\ page * perPage \in Nat
      BY <1>0, RankFacts, PageProducts
    <3>4. QED
      BY <1>1, <2>1, <3>1, <3>2, <3>3
  <2>3. Missed = atStart \ shown
    BY <2>2 DEF Missed
  <2>4. QED
    BY <1>0, <2>3
<1>7. Skipped' = Skipped
  BY <1>0, SkippedType
<1>8. QED
  BY <1>0, <1>2, <1>4, <1>5, <1>6, <1>7 DEF WalkInv, WalkComplete

(* Between two places of the list there are no more rows than places.      *)
LEMMA RowsBetween ==
  ASSUME FindingsTypeOK, NEW a \in Nat, NEW b \in Nat, a <= b, NEW T,
         \A f \in T : \E i \in DOMAIN table :
             table[i] = f /\ Listed(f) /\ a < Rank(i) /\ Rank(i) <= b
  PROVE  IsFiniteSet(T) /\ Cardinality(T) <= b - a
<1> DEFINE at(f) == CHOOSE i \in DOMAIN table :
                       table[i] = f /\ Listed(f) /\ a < Rank(i) /\ Rank(i) <= b
           place == [f \in T |-> Rank(at(f))]
<1>0. Len(table) \in Nat /\ DOMAIN table = 1..Len(table)
  BY DEF FindingsTypeOK
<1>1. \A f \in T : /\ at(f) \in DOMAIN table
                   /\ table[at(f)] = f /\ Listed(f)
                   /\ a < Rank(at(f)) /\ Rank(at(f)) <= b
  OBVIOUS
<1> HIDE DEF at
<1>2. \A f \in T : Rank(at(f)) \in (a + 1)..b
  BY <1>1, RankFacts
<1>3. ASSUME NEW f \in T, NEW h \in T, Rank(at(f)) = Rank(at(h))
      PROVE  f = h
  <2>1. Rank(at(f)) \in Nat /\ Rank(at(h)) \in Nat
    BY <1>1, RankFacts
  <2>2. ~(at(f) < at(h)) /\ ~(at(h) < at(f))
    BY <1>1, <1>3, <2>1, RankFacts
  <2>3. at(f) = at(h)
    BY <1>0, <1>1, <2>2
  <2>4. QED
    BY <1>1, <2>3
<1>4. place \in Injection(T, (a + 1)..b)
  BY <1>2, <1>3 DEF Injection, IsInjective
<1>5. IsFiniteSet((a + 1)..b) /\ Cardinality((a + 1)..b) = b - a
  <2>1. a + 1 \in Int /\ b \in Int
    OBVIOUS
  <2>2. /\ IsFiniteSet((a + 1)..b)
        /\ Cardinality((a + 1)..b) = IF a + 1 > b THEN 0 ELSE b - (a + 1) + 1
    BY <2>1, FS_Interval
  <2>3. QED
    BY <2>2
<1>6. QED
  BY <1>4, <1>5, FS_Injection

LEMMA WalkNextPage ==
  ASSUME WalkInv, NextPage
  PROVE  WalkInv'
<1>0. /\ FindingsTypeOK /\ TableInv /\ Cardinality(Missed) <= gone + Skipped
      /\ UNCHANGED <<table, reviewed, filter, pages, shown, opened, atStart, gone>>
      /\ phase = "shown" /\ phase' = "rows"
      /\ page' = page + 1 /\ perPage' = DefaultPerPage
  BY DEF WalkInv, NextPage
<1>1. FindingsTypeOK'
  BY <1>0, PerPageAssumption DEF FindingsTypeOK, PerPageAssumption
<1>2. \A f : Listed(f)' <=> Listed(f)
  BY <1>0 DEF Listed
<1>3. TableInv'
  BY <1>0, <1>2 DEF TableInv, Elements, FindingsTypeOK
<1>a. /\ page \in Nat \ {0} /\ perPage \in Nat \ {0} /\ opened \in Nat \ {0}
      /\ DefaultPerPage \in Nat \ {0} /\ gone \in Nat
      /\ perPage = IF page = 1 THEN opened ELSE DefaultPerPage
  BY <1>0, PageProducts DEF FindingsTypeOK, TableInv
<1>b. Covered = page * perPage /\ Covered' = page * DefaultPerPage
  <2>1. Covered' = (page' - 1) * perPage' /\ page' - 1 = page
    BY <1>0, <1>a DEF Covered
  <2>2. QED
    BY <1>0, <2>1 DEF Covered
<1>c. Covered \in Nat /\ Covered' \in Nat
  BY <1>a, <1>b, PageProducts, <1>0
<1>d. \A i : Rank(i)' = Rank(i)
  BY <1>0, <1>2 DEF Rank
<1>4. CASE Covered' <= Covered
  <2>1. \A f : Ahead(f) => Ahead(f)'
    <3> SUFFICES ASSUME NEW f, Ahead(f) PROVE Ahead(f)'
      OBVIOUS
    <3>1. PICK i \in DOMAIN table : table[i] = f /\ Listed(f) /\ Rank(i) > Covered
      BY DEF Ahead
    <3>2. Rank(i) \in Nat
      BY <1>0, RankFacts
    <3>3. Rank(i)' > Covered'
      BY <1>4, <1>c, <1>d, <3>1, <3>2
    <3>4. QED
      BY <1>0, <1>2, <3>1, <3>3 DEF Ahead
  <2>2. Missed' \subseteq Missed
    BY <1>0, <2>1 DEF Missed
  <2>3. Cardinality(Missed') <= Cardinality(Missed) /\ Cardinality(Missed') \in Nat
    <3>1. Missed \subseteq atStart /\ Missed' \subseteq atStart
      BY <1>0 DEF Missed
    <3>2. IsFiniteSet(Missed) /\ Cardinality(Missed) \in Nat
      BY <1>0, <3>1, StartFinite
    <3>3. QED
      BY <2>2, <3>2, FS_Subset, FS_CardinalityType
  <2>4. Skipped <= Skipped' /\ Skipped \in Nat /\ Skipped' \in Nat
    BY <1>0, <1>a DEF Skipped
  <2>5. Cardinality(Missed) \in Nat
    BY <1>0, StartFinite DEF Missed
  <2>6. Cardinality(Missed') <= gone' + Skipped'
    BY <1>0, <1>a, <2>3, <2>4, <2>5
  <2>7. QED
    BY <1>0, <1>1, <1>3, <2>6 DEF WalkInv, WalkComplete
(* The page of default size begins behind the end of a shorter first page. *)
<1>5. CASE ~(Covered' <= Covered)
  <2>1. page = 1 /\ opened < DefaultPerPage
    <3>1. perPage # DefaultPerPage
      BY <1>5, <1>b, <1>c
    <3>2. page = 1 /\ perPage = opened
      BY <1>a, <3>1
    <3>3. Covered = opened /\ Covered' = DefaultPerPage
      BY <1>a, <1>b, <3>2
    <3>4. QED
      BY <1>5, <1>a, <3>2, <3>3
  <2>2. Covered = opened /\ Covered' = DefaultPerPage
    BY <1>a, <1>b, <2>1
  <2>3. Skipped = 0 /\ Skipped' = DefaultPerPage - opened
    BY <1>0, <1>a, <2>1 DEF Skipped
  <2> DEFINE T == Missed' \ Missed
  <2>4. ASSUME NEW f \in T
        PROVE  \E i \in DOMAIN table :
                   table[i] = f /\ Listed(f) /\ opened < Rank(i) /\ Rank(i) <= DefaultPerPage
    <3>1. f \in atStart \ shown /\ Ahead(f) /\ ~Ahead(f)'
      BY <1>0, <2>4 DEF Missed
    <3>2. PICK i \in DOMAIN table : table[i] = f /\ Listed(f) /\ Rank(i) > Covered
      BY <3>1 DEF Ahead
    <3>3. ~(Rank(i)' > Covered')
      BY <1>0, <1>2, <3>1, <3>2 DEF Ahead
    <3>4. Rank(i) \in Nat
      BY <1>0, RankFacts
    <3>5. QED
      BY <1>a, <1>d, <2>2, <3>2, <3>3, <3>4
  <2>5. IsFiniteSet(T) /\ Cardinality(T) <= DefaultPerPage - opened /\ Cardinality(T) \in Nat
    <3>1. IsFiniteSet(T) /\ Cardinality(T) <= DefaultPerPage - opened
      BY <1>0, <1>a, <2>1, <2>4, RowsBetween
    <3>2. QED
      BY <3>1, FS_CardinalityType
  <2>6. IsFiniteSet(Missed) /\ Cardinality(Missed) \in Nat
    BY <1>0, StartFinite DEF Missed
  <2>7. /\ IsFiniteSet(Missed \cup T) /\ Cardinality(Missed \cup T) \in Nat
        /\ Cardinality(Missed \cup T) <= Cardinality(Missed) + Cardinality(T)
    <3>1. Missed \cap T = {}
      OBVIOUS
    <3>2. Cardinality(Missed \cup T)
            = Cardinality(Missed) + Cardinality(T) - Cardinality(Missed \cap T)
      BY <2>5, <2>6, FS_Union
    <3>3. Cardinality(Missed \cap T) = 0
      BY <3>1, FS_EmptySet
    <3>4. IsFiniteSet(Missed \cup T)
      BY <2>5, <2>6, FS_Union
    <3>5. QED
      BY <2>5, <2>6, <3>2, <3>3, <3>4, FS_CardinalityType
  <2>8. Cardinality(Missed') <= Cardinality(Missed \cup T) /\ Cardinality(Missed') \in Nat
    <3>1. Missed' \subseteq Missed \cup T
      OBVIOUS
    <3>2. QED
      BY <2>7, <3>1, FS_Subset, FS_CardinalityType
  <2> HIDE DEF T
  <2>9. Cardinality(Missed') <= gone' + Skipped'
    BY <1>0, <1>a, <2>3, <2>5, <2>6, <2>7, <2>8
  <2>10. QED
    BY <1>0, <1>1, <1>3, <2>9 DEF WalkInv, WalkComplete
<1>6. QED
  BY <1>4, <1>5

(* Who follows "Next" to the end has seen every finding that was there at  *)
(* the start, but for as many as were reviewed meanwhile and as a short    *)
(* first page skips: for every page size, and whatever db_writer adds      *)
(* between the pages and between a page's two queries.                     *)
THEOREM WalkHolds == FindingsSpec => []WalkComplete
<1>1. FindingsInit => WalkInv
  BY WalkInit
<1>2. WalkInv /\ [FindingsNext]_findingsVars => WalkInv'
  <2> SUFFICES ASSUME WalkInv, [FindingsNext]_findingsVars PROVE WalkInv'
    OBVIOUS
  <2>1. CASE \E g \in Finding : WriterAdds(g)
    BY <2>1, WalkWriterAdds
  <2>2. CASE \E g \in Finding : ReviewFinding(g)
    BY <2>2, WalkReview
  <2>3. CASE OpenList
    BY <2>3, WalkOpen
  <2>4. CASE SelectRows
    BY <2>4, WalkRows
  <2>5. CASE SelectCount
    BY <2>5, WalkCount
  <2>6. CASE NextPage
    BY <2>6, WalkNextPage
  <2>7. CASE UNCHANGED findingsVars
    <3>1. UNCHANGED <<table, reviewed, filter, page, perPage, phase, pages, shown, opened,
                      atStart, gone>>
      BY <2>7 DEF findingsVars
    <3>2. FindingsTypeOK' /\ TableInv' /\ WalkComplete'
      BY <3>1 DEF WalkInv, FindingsTypeOK, TableInv, WalkComplete, Elements, Listed, Skipped
    <3>3. Missed' = Missed
      BY <3>1 DEF Missed, Ahead, Covered, Rank, Listed
    <3>4. QED
      BY <3>1, <3>2, <3>3 DEF WalkInv, Skipped
  <2>8. QED
    BY <2>1, <2>2, <2>3, <2>4, <2>5, <2>6, <2>7 DEF FindingsNext
<1>3. WalkInv => WalkComplete
  BY DEF WalkInv
<1>4. QED
  BY <1>1, <1>2, <1>3, PTL DEF FindingsSpec

(***************************************************************************)
(* The classifier                                                          *)
(***************************************************************************)
LEMMA LexiconFacts ==
  ASSUME NEW c \in DOMAIN Base, NEW p \in DOMAIN Lexicon[c]
  PROVE  Lexicon[c][p] \in Nat /\ Width[p] <= Radius
<1>1. CASE p \in DOMAIN Base[c]
  BY <1>1, ClassifierAssumption DEF ClassifierAssumption, Lexicon
<1>2. CASE p \notin DOMAIN Base[c]
  BY <1>2, ClassifierAssumption DEF ClassifierAssumption, Lexicon
<1>3. QED
  BY <1>1, <1>2

LEMMA CategoriesFinite ==
  /\ IsFiniteSet(DOMAIN Base) /\ DOMAIN Base # {}
  /\ Len(Category) \in Nat
  /\ DOMAIN Category = 1..Len(Category)
  /\ \A i \in DOMAIN Category : Category[i] \in DOMAIN Base
  /\ \A c \in DOMAIN Base : \E i \in DOMAIN Category : Category[i] = c
<1>1. /\ Category \in Seq(DOMAIN Base) /\ Range(Category) = DOMAIN Base
      /\ DOMAIN Base # {}
  BY ClassifierAssumption DEF ClassifierAssumption
<1>2. /\ Len(Category) \in Nat
      /\ DOMAIN Category = 1..Len(Category)
      /\ \A i \in DOMAIN Category : Category[i] \in DOMAIN Base
  BY <1>1
<1>3. \A c \in DOMAIN Base : \E i \in DOMAIN Category : Category[i] = c
  BY <1>1 DEF Range
<1>4. Category \in Surjection(DOMAIN Category, DOMAIN Base)
  <2>1. Category \in [DOMAIN Category -> DOMAIN Base]
    BY <1>1
  <2>2. QED
    BY <1>3, <2>1 DEF Surjection
<1>5. IsFiniteSet(DOMAIN Category)
  BY <1>2, FS_Interval
<1>6. QED
  BY <1>1, <1>2, <1>3, <1>4, <1>5, FS_Surjection

LEMMA SumOfType ==
  ASSUME NEW w, IsFiniteSet(DOMAIN w), \A x \in DOMAIN w : w[x] \in Nat
  PROVE  SumOf(w) \in Nat
<1>1. SumOf(w) = SumOver(w, DOMAIN w)
  BY DEF SumOf, SumOver
<1>2. QED
  BY <1>1, SumType

(* What a page's words are worth.                                          *)
LEMMA MatchFacts ==
  ASSUME NEW content \in Seq(Word), NEW c \in DOMAIN Base
  PROVE  /\ Matches(c, content) \subseteq DOMAIN content
         /\ IsFiniteSet(Matches(c, content))
         /\ \A i \in Matches(c, content) : content[i].word \in DOMAIN Lexicon[c]
         /\ \A i \in Matches(c, content) : Lexicon[c][content[i].word] \in Nat
         /\ PhraseScore(c, content) \in Nat
<1>1. Matches(c, content) \subseteq DOMAIN content
  BY DEF Matches
<1>2. IsFiniteSet(Matches(c, content))
  <2>1. DOMAIN content = 1..Len(content) /\ Len(content) \in Nat
    OBVIOUS
  <2>2. IsFiniteSet(1..Len(content))
    BY <2>1, FS_Interval
  <2>3. QED
    BY <1>1, <2>1, <2>2, FS_Subset
<1>3. \A i \in Matches(c, content) : content[i].word \in DOMAIN Lexicon[c]
  BY DEF Matches
<1>4. \A i \in Matches(c, content) : Lexicon[c][content[i].word] \in Nat
  BY <1>3, LexiconFacts
<1> DEFINE w == [i \in Matches(c, content) |-> Lexicon[c][content[i].word]]
<1>5. SumOf(w) \in Nat
  BY <1>2, <1>4, SumOfType
<1>6. QED
  BY <1>1, <1>2, <1>3, <1>4, <1>5 DEF PhraseScore

LEMMA RawType ==
  ASSUME NEW content \in Seq(Word), NEW found \in SUBSET DOMAIN IocWeight,
         NEW c \in DOMAIN Base
  PROVE  RawScore(c, content, found) \in Nat
<1>1. PhraseScore(c, content) \in Nat /\ DumpScore(c, content) \in Nat
  BY MatchFacts DEF DumpScore
<1> DEFINE w == [e \in found |-> IF c \in DOMAIN IocWeight[e] THEN IocWeight[e][c] ELSE 0]
<1>2. IsFiniteSet(found)
  BY ClassifierAssumption, FS_Subset DEF ClassifierAssumption
<1>3. \A e \in found : w[e] \in Nat
  BY ClassifierAssumption DEF ClassifierAssumption
<1>4. DOMAIN w = found
  OBVIOUS
<1>5. SumOf(w) \in Nat
  <2> HIDE DEF w
  <2>1. QED
    BY <1>2, <1>3, <1>4, SumOfType
<1>6. IocScore(c, found) \in Nat
  BY <1>5 DEF IocScore
<1>7. QED
  BY <1>1, <1>6 DEF RawScore

(* The markers that are on a page, and what they sum up to.                *)
MarkersOn(content) == {content[i].word : i \in DOMAIN content} \cap DOMAIN MarkerWeight

LEMMA PenaltyFacts ==
  ASSUME NEW content \in Seq(Word)
  PROVE  /\ IsFiniteSet(MarkersOn(content))
         /\ \A m \in MarkersOn(content) : MarkerWeight[m] \in Nat
         /\ SumOver(MarkerWeight, MarkersOn(content)) \in Nat
         /\ NegativePenalty(content) \in Nat
         /\ NegativePenalty(content) \in {SumOver(MarkerWeight, MarkersOn(content)), 25}
         /\ NegativePenalty(content) <= SumOver(MarkerWeight, MarkersOn(content))
         /\ NegativePenalty(content) <= 25
<1> DEFINE f == [i \in DOMAIN content |-> content[i].word]
           W == {content[i].word : i \in DOMAIN content}
<1>1. IsFiniteSet(DOMAIN content)
  <2>1. DOMAIN content = 1..Len(content) /\ Len(content) \in Nat
    OBVIOUS
  <2>2. QED
    BY <2>1, FS_Interval
<1>2. f \in Surjection(DOMAIN content, W)
  BY DEF Surjection
<1>3. IsFiniteSet(W)
  BY <1>1, <1>2, FS_Surjection
<1>4. IsFiniteSet(MarkersOn(content))
  BY <1>3, FS_Intersection DEF MarkersOn
<1>5. \A m \in MarkersOn(content) : MarkerWeight[m] \in Nat
  BY ClassifierAssumption DEF ClassifierAssumption, MarkersOn
<1>6. SumOver(MarkerWeight, MarkersOn(content)) \in Nat
  BY <1>4, <1>5, SumType
<1>7. NegativePenalty(content) = Min({SumOver(MarkerWeight, MarkersOn(content)), 25})
  BY DEF NegativePenalty, SumOver, MarkersOn
<1> DEFINE T == {SumOver(MarkerWeight, MarkersOn(content)), 25}
<1>8. T \subseteq Nat /\ T # {}
  BY <1>6
<1>9. Min(T) \in T /\ \A n \in T : Min(T) <= n
  BY <1>8, MinFacts
<1>10. QED
  BY <1>4, <1>5, <1>6, <1>7, <1>9

(* A marker that is no phrase leaves every raw score as it was.            *)
LEMMA MarkerScores ==
  ASSUME NEW content \in Seq(Word), NEW found \in SUBSET DOMAIN IocWeight,
         NEW w \in Word, w.word \in Markers
  PROVE  /\ \A c \in DOMAIN Base :
               RawScore(c, Append(content, w), found) = RawScore(c, content, found)
         /\ NegativePenalty(content) <= NegativePenalty(Append(content, w))
<1> DEFINE n == Len(content) + 1
           more == Append(content, w)
<1>1. /\ Len(content) \in Nat
      /\ DOMAIN content = 1..Len(content)
      /\ DOMAIN more = 1..n
      /\ more[n] = w
      /\ \A i \in DOMAIN content : more[i] = content[i]
      /\ more \in Seq(Word)
  OBVIOUS
<1> HIDE DEF more
<1>2. ASSUME NEW c \in DOMAIN Base
      PROVE  RawScore(c, more, found) = RawScore(c, content, found)
  <2>1. Matches(c, more) = Matches(c, content)
    <3>1. w.word \notin DOMAIN Lexicon[c]
      BY DEF Markers
    <3>2. QED
      BY <1>1, <3>1 DEF Matches
  <2>2. [i \in Matches(c, more) |-> Lexicon[c][more[i].word]]
          = [i \in Matches(c, content) |-> Lexicon[c][content[i].word]]
    BY <1>1, <2>1, MatchFacts
  <2>3. PhraseScore(c, more) = PhraseScore(c, content)
    BY <2>2 DEF PhraseScore
  <2>4. {i \in DOMAIN more : more[i].word = "credentials"}
          = {i \in DOMAIN content : content[i].word = "credentials"}
    <3>1. w.word # "credentials"
      BY ClassifierAssumption DEF ClassifierAssumption, Markers
    <3>2. QED
      BY <1>1, <3>1
  <2>5. DumpScore(c, more) = DumpScore(c, content)
    BY <2>4 DEF DumpScore
  <2>6. QED
    BY <2>3, <2>5 DEF RawScore
<1>3. NegativePenalty(content) <= NegativePenalty(more)
  <2>1. MarkersOn(content) \subseteq MarkersOn(more)
    BY <1>1 DEF MarkersOn
  <2>2. /\ IsFiniteSet(MarkersOn(more))
        /\ \A m \in MarkersOn(more) : MarkerWeight[m] \in Nat
    BY <1>1, PenaltyFacts
  <2>3. SumOver(MarkerWeight, MarkersOn(content)) <= SumOver(MarkerWeight, MarkersOn(more))
    BY <2>1, <2>2, SumMonotone
  <2>4. QED
    BY <1>1, <2>3, PenaltyFacts
<1>4. QED
  BY <1>2, <1>3 DEF more

(* The first category of the greatest score.                               *)
First(score, k) ==
    /\ k \in DOMAIN Category
    /\ \A i \in DOMAIN Category : score[Category[i]] <= score[Category[k]]
    /\ \A i \in DOMAIN Category : i < k => score[Category[i]] < score[Category[k]]

LEMMA BestFacts ==
  ASSUME NEW score \in [DOMAIN Base -> Nat]
  PROVE  /\ \E k \in DOMAIN Category : First(score, k) /\ Best(score) = Category[k]
         /\ \A k : First(score, k) => Best(score) = Category[k]
<1> DEFINE T == {i \in DOMAIN Category : score[Category[i]] = Max(Range(score))}
<1>1. Range(score) = {score[c] : c \in DOMAIN Base}
  BY DEF Range
<1>2. /\ Max(Range(score)) \in Range(score)
      /\ \A c \in DOMAIN Base : score[c] <= Max(Range(score))
  <2>1. IsFiniteSet(DOMAIN Base) /\ DOMAIN Base # {} /\ \A c \in DOMAIN Base : score[c] \in Nat
    BY CategoriesFinite
  <2>2. /\ Max({score[c] : c \in DOMAIN Base}) \in {score[c] : c \in DOMAIN Base}
        /\ \A c \in DOMAIN Base : score[c] <= Max({score[d] : d \in DOMAIN Base})
    BY <2>1, Greatest
  <2>3. QED
    BY <1>1, <2>2
<1>3. T # {}
  <2>1. PICK c \in DOMAIN Base : score[c] = Max(Range(score))
    BY <1>1, <1>2
  <2>2. PICK i \in DOMAIN Category : Category[i] = c
    BY CategoriesFinite
  <2>3. QED
    BY <2>1, <2>2
<1>4. T \subseteq Nat
  BY CategoriesFinite
<1>5. Min(T) \in T /\ \A i \in T : Min(T) <= i
  BY <1>3, <1>4, MinFacts
<1>6. Best(score) = Category[Min(T)]
  BY DEF Best
<1>7. First(score, Min(T))
  <2>1. \A i \in DOMAIN Category : score[Category[i]] \in Nat /\ i \in Nat
    BY CategoriesFinite
  <2>2. \A i \in DOMAIN Category : score[Category[i]] <= score[Category[Min(T)]]
    BY <1>2, <1>5, CategoriesFinite
  <2>3. ASSUME NEW i \in DOMAIN Category, i < Min(T)
        PROVE  score[Category[i]] < score[Category[Min(T)]]
    <3>1. i \notin T
      BY <1>5, <2>1, <2>3
    <3>2. QED
      BY <1>5, <2>1, <2>2, <3>1
  <2>4. QED
    BY <1>5, <2>2, <2>3 DEF First
<1>8. ASSUME NEW k, First(score, k)
      PROVE  k = Min(T)
  <2>1. \A i \in DOMAIN Category : score[Category[i]] \in Nat /\ i \in Nat
    BY CategoriesFinite
  <2>2. Min(T) \in DOMAIN Category /\ k \in DOMAIN Category
    BY <1>5, <1>8 DEF First
  <2>3. ~(k < Min(T)) /\ ~(Min(T) < k)
    BY <1>7, <1>8, <2>1, <2>2 DEF First
  <2>4. QED
    BY <2>1, <2>2, <2>3
<1>9. QED
  BY <1>5, <1>6, <1>7, <1>8

(* Knocking every category down by more leaves the first of them, or none. *)
LEMMA LabelFalls ==
  ASSUME NEW raw \in [DOMAIN Base -> Nat], NEW p \in Nat, NEW q \in Nat, p <= q
  PROVE  Label([c \in DOMAIN Base |-> Floor(raw[c], q)]) \in
             {Label([c \in DOMAIN Base |-> Floor(raw[c], p)]), "unknown"}
<1> DEFINE s == [c \in DOMAIN Base |-> Floor(raw[c], p)]
           t == [c \in DOMAIN Base |-> Floor(raw[c], q)]
<1>1. \A c \in DOMAIN Base : /\ s[c] = (IF raw[c] > p THEN raw[c] - p ELSE 0)
                             /\ t[c] = (IF raw[c] > q THEN raw[c] - q ELSE 0)
                             /\ raw[c] \in Nat
  BY DEF Floor
<1>2. s \in [DOMAIN Base -> Nat] /\ t \in [DOMAIN Base -> Nat]
  BY DEF Floor
<1> HIDE DEF s, t
<1>3. SUFFICES ASSUME Label(t) # "unknown" PROVE Label(t) = Label(s)
  BY DEF s, t
<1>4. PICK k \in DOMAIN Category : First(t, k) /\ Best(t) = Category[k]
  BY <1>2, BestFacts
<1>5. /\ t[Category[k]] >= 5
      /\ Category[k] \in Restrained => t[Category[k]] > 20
      /\ Label(t) = Category[k]
  <2>1. t[Category[k]] \in Nat
    BY <1>2, CategoriesFinite
  <2>2. QED
    BY <1>3, <1>4, <2>1 DEF Label, SureEnough
<1>6. \A i \in DOMAIN Category : Category[i] \in DOMAIN Base
  BY CategoriesFinite
<1>7. s[Category[k]] >= t[Category[k]]
  BY <1>1, <1>6
<1>8. First(s, k)
  <2>1. ASSUME NEW i \in DOMAIN Category
        PROVE  /\ s[Category[i]] <= s[Category[k]]
               /\ i < k => s[Category[i]] < s[Category[k]]
    <3> DEFINE a == raw[Category[i]]
               b == raw[Category[k]]
    <3>1. a \in Nat /\ b \in Nat /\ b > q
      BY <1>1, <1>5, <1>6
    <3>2. /\ t[Category[i]] <= t[Category[k]]
          /\ i < k => t[Category[i]] < t[Category[k]]
      BY <1>4 DEF First
    <3>3. /\ s[Category[i]] = (IF a > p THEN a - p ELSE 0)
          /\ t[Category[i]] = (IF a > q THEN a - q ELSE 0)
          /\ s[Category[k]] = (IF b > p THEN b - p ELSE 0)
          /\ t[Category[k]] = (IF b > q THEN b - q ELSE 0)
      BY <1>1, <1>6
    <3> HIDE DEF a, b
    <3>4. a <= b /\ (i < k => a < b)
      BY <3>1, <3>2, <3>3
    <3>5. QED
      BY <3>1, <3>3, <3>4
  <2>2. QED
    BY <2>1 DEF First
<1>9. Best(s) = Category[k]
  BY <1>2, <1>8, BestFacts
<1>10. Label(s) = Category[k]
  <2>1. s[Category[k]] \in Nat /\ t[Category[k]] \in Nat
    BY <1>2, <1>6
  <2>2. QED
    BY <1>5, <1>7, <1>9, <2>1 DEF Label, SureEnough
<1>11. QED
  BY <1>5, <1>10

(* The part of a page that is read.                                        *)
Content(whole) == SubSeq(whole, 1, Min({Len(whole), MaxWords}))

LEMMA ContentFacts ==
  ASSUME NEW whole \in Seq(Word)
  PROVE  /\ Content(whole) \in Seq(Word)
         /\ Len(Content(whole)) = IF Len(whole) <= MaxWords THEN Len(whole) ELSE MaxWords
         /\ \A i \in 1..Len(Content(whole)) : Content(whole)[i] = whole[i]
<1> DEFINE n == Min({Len(whole), MaxWords})
<1>1. Len(whole) \in Nat /\ MaxWords \in Nat
  BY ClassifierAssumption DEF ClassifierAssumption
<1>3. n = IF Len(whole) <= MaxWords THEN Len(whole) ELSE MaxWords
  BY <1>1, MinOfTwo
<1>4. n \in 0..Len(whole)
  BY <1>1, <1>3
<1> HIDE DEF n
<1>5. /\ SubSeq(whole, 1, n) \in Seq(Word)
      /\ Len(SubSeq(whole, 1, n)) = n
      /\ \A i \in 1..n : SubSeq(whole, 1, n)[i] = whole[i]
  BY <1>4
<1>6. QED
  BY <1>3, <1>5 DEF Content, n

LEMMA ContentAppend ==
  ASSUME NEW whole \in Seq(Word), NEW w \in Word
  PROVE  Content(Append(whole, w)) \in {Content(whole), Append(Content(whole), w)}
<1> DEFINE more == Append(whole, w)
           a == Content(whole)
           b == Content(more)
<1>1. /\ more \in Seq(Word) /\ Len(more) = Len(whole) + 1 /\ Len(whole) \in Nat
      /\ \A i \in 1..Len(whole) : more[i] = whole[i]
      /\ more[Len(whole) + 1] = w
  OBVIOUS
<1> HIDE DEF more
<1>2. /\ a \in Seq(Word)
      /\ Len(a) = IF Len(whole) <= MaxWords THEN Len(whole) ELSE MaxWords
      /\ \A i \in 1..Len(a) : a[i] = whole[i]
  BY ContentFacts
<1>3. /\ b \in Seq(Word)
      /\ Len(b) = IF Len(more) <= MaxWords THEN Len(more) ELSE MaxWords
      /\ \A i \in 1..Len(b) : b[i] = more[i]
  BY <1>1, ContentFacts
<1> HIDE DEF a, b
<1>4. MaxWords \in Nat
  BY ClassifierAssumption DEF ClassifierAssumption
<1>5. CASE Len(whole) < MaxWords
  <2>1. Len(a) = Len(whole) /\ Len(b) = Len(whole) + 1
    BY <1>1, <1>2, <1>3, <1>4, <1>5
  <2>2. /\ Append(a, w) \in Seq(Word)
        /\ Len(Append(a, w)) = Len(a) + 1
        /\ \A i \in 1..Len(a) : Append(a, w)[i] = a[i]
        /\ Append(a, w)[Len(a) + 1] = w
    BY <1>2
  <2>3. \A i \in 1..Len(b) : b[i] = Append(a, w)[i]
    BY <1>1, <1>2, <1>3, <2>1, <2>2
  <2>4. b = Append(a, w)
    BY <1>3, <2>1, <2>2, <2>3, SeqEqual
  <2>5. QED
    BY <2>4 DEF a, b, more
<1>6. CASE ~(Len(whole) < MaxWords)
  <2>1. Len(a) = MaxWords /\ Len(b) = MaxWords
    BY <1>1, <1>2, <1>3, <1>4, <1>6
  <2>2. \A i \in 1..Len(b) : b[i] = a[i]
    BY <1>1, <1>2, <1>3, <1>4, <1>6, <2>1
  <2>3. b = a
    BY <1>2, <1>3, <2>1, <2>2, SeqEqual
  <2>4. QED
    BY <2>3 DEF a, b, more
<1>7. QED
  BY <1>5, <1>6

CategoryOf(whole, found) == Label(Scores(Content(whole), found))

ClassifierInv == ClassifierTypeOK /\ verdict = Classify(text, entities)

LEMMA VerdictCategory ==
  ASSUME NEW whole, NEW found
  PROVE  Classify(whole, found).category = CategoryOf(whole, found)
BY DEF Classify, CategoryOf, Content

LEMMA MarkerWritten ==
  ASSUME NEW whole \in Seq(Word), NEW found \in SUBSET DOMAIN IocWeight,
         NEW w \in Word, w.word \in Markers
  PROVE  CategoryOf(Append(whole, w), found) \in {CategoryOf(whole, found), "unknown"}
<1> DEFINE a == Content(whole)
           raw == [c \in DOMAIN Base |-> RawScore(c, a, found)]
           p == NegativePenalty(a)
           q == NegativePenalty(Append(a, w))
<1>1. a \in Seq(Word)
  BY ContentFacts
<1> HIDE DEF a
<1>2. Append(a, w) \in Seq(Word)
  BY <1>1
<1>3. raw \in [DOMAIN Base -> Nat]
  BY <1>1, RawType
<1>4. p \in Nat /\ q \in Nat
  BY <1>1, <1>2, PenaltyFacts
<1>5. p <= q
  BY <1>1, MarkerScores
<1>6. Scores(a, found) = [c \in DOMAIN Base |-> Floor(raw[c], p)]
  BY DEF Scores, Knock
<1>7. Scores(Append(a, w), found) = [c \in DOMAIN Base |-> Floor(raw[c], q)]
  BY <1>1, MarkerScores DEF Scores, Knock
<1> HIDE DEF raw, p, q
<1>8. Label(Scores(Append(a, w), found)) \in {Label(Scores(a, found)), "unknown"}
  BY <1>3, <1>4, <1>5, <1>6, <1>7, LabelFalls
<1>9. QED
  BY <1>8, ContentAppend DEF CategoryOf, a

LEMMA ClassifierKeeps == ClassifierSpec => []ClassifierInv
<1>1. ClassifierInit => ClassifierInv
  <2>1. <<>> \in Seq(Word)
    OBVIOUS
  <2>2. QED
    BY <2>1 DEF ClassifierInit, ClassifierInv, ClassifierTypeOK
<1>2. ClassifierInv /\ [ClassifierNext]_classifierVars => ClassifierInv'
  <2> SUFFICES ASSUME ClassifierInv, [ClassifierNext]_classifierVars PROVE ClassifierInv'
    OBVIOUS
  <2>1. CASE \E w \in Word : Write(w)
    BY <2>1 DEF Write, ClassifierInv, ClassifierTypeOK
  <2>2. CASE \E e \in DOMAIN IocWeight : Extract(e)
    BY <2>2 DEF Extract, ClassifierInv, ClassifierTypeOK
  <2>3. CASE UNCHANGED classifierVars
    BY <2>3 DEF classifierVars, ClassifierInv, ClassifierTypeOK
  <2>4. QED
    BY <2>1, <2>2, <2>3 DEF ClassifierNext
<1>3. QED
  BY <1>1, <1>2, PTL DEF ClassifierSpec

(* Writing one more marker on a page, whatever lexicon, weights and page,  *)
(* never turns its finding into one of another category.                   *)
THEOREM MarkersHold == ClassifierSpec => MarkersOnlySuppress
<1>1. ASSUME ClassifierInv, ClassifierInv', [ClassifierNext]_classifierVars,
             NEW w \in Word, w.word \in Markers, text' = Append(text, w)
      PROVE  verdict'.category \in {verdict.category, "unknown"}
  <2>1. text \in Seq(Word) /\ entities \in SUBSET DOMAIN IocWeight
    BY <1>1 DEF ClassifierInv, ClassifierTypeOK
  <2>2. text' # text
    <3>1. Len(Append(text, w)) = Len(text) + 1 /\ Len(text) \in Nat
      BY <2>1
    <3>2. QED
      BY <1>1, <3>1
  <2>3. entities' = entities
    BY <1>1, <2>2 DEF ClassifierNext, Write, Extract, classifierVars
  <2>4. /\ verdict.category = CategoryOf(text, entities)
        /\ verdict'.category = CategoryOf(text', entities')
    BY <1>1, VerdictCategory DEF ClassifierInv
  <2>5. QED
    BY <1>1, <2>1, <2>3, <2>4, MarkerWritten
<1>2. ClassifierInv /\ ClassifierInv' /\ [ClassifierNext]_classifierVars =>
        [\A w \in Word :
            (w.word \in Markers /\ text' = Append(text, w))
                => verdict'.category \in {verdict.category, "unknown"}]_classifierVars
  BY <1>1
<1>3. QED
  BY <1>2, ClassifierKeeps, PTL DEF ClassifierSpec, MarkersOnlySuppress

(* The words of a page follow each other.                                  *)
WidthOf(content, i) == Width[content[i].word]

LEMMA StartsRecur ==
  ASSUME NEW content \in Seq(Word)
  PROVE  Starts(content) =
            [i \in DOMAIN content |->
                IF i = 1 THEN 0
                ELSE Starts(content)[i - 1] + Width[content[i - 1].word] + 1]
<1> DEFINE W(i) == Width[content[i].word]
           Rec(f, n) == [i \in 1..n |-> IF i = 1 THEN 0 ELSE f[i - 1] + W(i - 1) + 1]
           Bad == {n \in Nat : ~\E f : f = Rec(f, n)}
<1>1. Bad = {}
  <2>1. SUFFICES ASSUME Bad # {} PROVE FALSE
    OBVIOUS
  <2>2. PICK n \in Bad : \A k \in Bad : n <= k
    <3>1. Bad \subseteq Nat
      OBVIOUS
    <3> HIDE DEF Bad
    <3>2. QED
      BY <2>1, <3>1, LeastNumber
  <2>3. n \in Nat /\ ~\E f : f = Rec(f, n)
    BY <2>2
  <2>4. CASE n = 0
    <3> DEFINE e == [i \in 1..0 |-> 0]
    <3>1. e = Rec(e, 0)
      OBVIOUS
    <3>2. QED
      BY <2>3, <2>4, <3>1
  <2>5. CASE n # 0
    <3>1. n - 1 \in Nat /\ n - 1 \notin Bad
      <4> HIDE DEF Bad
      <4>1. QED
        BY <2>2, <2>3, <2>5
    <3>2. PICK f : f = Rec(f, n - 1)
      BY <3>1
    <3> DEFINE g == [i \in 1..n |-> IF i = 1 THEN 0 ELSE f[i - 1] + W(i - 1) + 1]
    <3>3. \A i \in 1..(n - 1) : f[i] = g[i]
      BY <2>3, <3>2
    <3>4. g = Rec(g, n)
      <4>1. \A i \in 1..n : i # 1 => i - 1 \in 1..(n - 1)
        BY <2>3
      <4>2. \A i \in 1..n : i # 1 => f[i - 1] = g[i - 1]
        BY <3>3, <4>1
      <4>3. QED
        BY <4>2
    <3>5. QED
      BY <2>3, <3>4
  <2>6. QED
    BY <2>4, <2>5
<1>2. Len(content) \in Nat /\ DOMAIN content = 1..Len(content)
  OBVIOUS
<1>3. PICK f : f = Rec(f, Len(content))
  BY <1>1, <1>2
<1> DEFINE at == CHOOSE h : h = [i \in DOMAIN content |->
                                    IF i = 1 THEN 0 ELSE h[i - 1] + W(i - 1) + 1]
<1>4. f = [i \in DOMAIN content |-> IF i = 1 THEN 0 ELSE f[i - 1] + W(i - 1) + 1]
  BY <1>2, <1>3
<1>5. at = [i \in DOMAIN content |-> IF i = 1 THEN 0 ELSE at[i - 1] + W(i - 1) + 1]
  BY <1>4
<1>6. Starts(content) = at
  BY DEF Starts
<1> HIDE DEF at
<1>7. QED
  BY <1>5, <1>6

LEMMA StartsFacts ==
  ASSUME NEW content \in Seq(Word)
  PROVE  \A j \in DOMAIN content :
            /\ Starts(content)[j] \in Nat
            /\ j # 1 => Starts(content)[j] >= 1
            /\ \A i \in 1..j : Starts(content)[i] + WidthOf(content, i)
                                  <= Starts(content)[j] + WidthOf(content, j)
<1> DEFINE at == Starts(content)
           W(i) == WidthOf(content, i)
           Good(j) == /\ at[j] \in Nat
                      /\ j # 1 => at[j] >= 1
                      /\ \A i \in 1..j : at[i] + W(i) <= at[j] + W(j)
           Bad == {j \in DOMAIN content : ~Good(j)}
<1>1. Len(content) \in Nat /\ DOMAIN content = 1..Len(content)
  OBVIOUS
<1>2. at = [i \in DOMAIN content |-> IF i = 1 THEN 0 ELSE at[i - 1] + W(i - 1) + 1]
  BY StartsRecur DEF WidthOf
<1>3. \A i \in DOMAIN content : W(i) \in Nat
  BY ClassifierAssumption DEF ClassifierAssumption, WidthOf
<1> HIDE DEF at, W
<1>4. SUFFICES ASSUME Bad # {} PROVE FALSE
  BY DEF at, W
<1>5. PICK j \in Bad : \A k \in Bad : j <= k
  <2>1. Bad \subseteq Nat
    BY <1>1
  <2> HIDE DEF Bad
  <2>2. QED
    BY <1>4, <2>1, LeastNumber
<1>6. j \in DOMAIN content /\ ~Good(j)
  BY <1>5
<1>7. CASE j = 1
  <2>1. at[1] = 0 /\ W(1) \in Nat
    BY <1>2, <1>3, <1>6, <1>7
  <2>2. Good(1)
    BY <2>1
  <2>3. QED
    BY <1>6, <1>7, <2>2
<1>8. CASE j # 1
  <2>1. j - 1 \in DOMAIN content /\ j - 1 \notin Bad
    BY <1>1, <1>5, <1>6, <1>8
  <2>2. Good(j - 1)
    BY <2>1
  <2>3. at[j] = at[j - 1] + W(j - 1) + 1
    BY <1>2, <1>6, <1>8
  <2>4. W(j) \in Nat /\ W(j - 1) \in Nat /\ at[j - 1] \in Nat
    BY <1>3, <1>6, <2>1, <2>2
  <2>5. at[j] \in Nat /\ at[j] >= 1
    BY <2>3, <2>4
  <2>6. ASSUME NEW i \in 1..j PROVE at[i] + W(i) <= at[j] + W(j)
    <3>1. CASE i = j
      BY <2>4, <2>5, <3>1
    <3>2. CASE i # j
      <4>1. i \in 1..(j - 1) /\ i \in DOMAIN content /\ i \notin Bad
        BY <1>1, <1>5, <1>6, <3>2
      <4>2. at[i] \in Nat /\ W(i) \in Nat
        BY <1>3, <4>1
      <4>3. at[i] + W(i) <= at[j - 1] + W(j - 1)
        BY <2>2, <4>1
      <4>4. QED
        BY <2>3, <2>4, <4>2, <4>3
    <3>3. QED
      BY <3>1, <3>2
  <2>7. QED
    BY <1>6, <2>5, <2>6
<1>9. QED
  BY <1>7, <1>8

(* The heaviest match is one: a phrase of some category.                   *)
LEMMA BestMatchFacts ==
  ASSUME NEW content \in Seq(Word), HasMatch(content)
  PROVE  /\ BestMatch(content) \in DOMAIN content
         /\ WidthOf(content, BestMatch(content)) <= Radius
<1> DEFINE All == {m \in (DOMAIN Base) \X (DOMAIN content) : m[2] \in Matches(m[1], content)}
           w == [m \in All |-> Lexicon[m[1]][content[m[2]].word]]
           Heaviest == {m \in All : \A n \in All : w[n] <= w[m]}
           T == {m[2] : m \in Heaviest}
<1>1. Len(content) \in Nat /\ DOMAIN content = 1..Len(content)
  OBVIOUS
<1>2. IsFiniteSet(All)
  <2>1. IsFiniteSet(DOMAIN Base) /\ IsFiniteSet(DOMAIN content)
    BY <1>1, CategoriesFinite, FS_Interval
  <2>2. IsFiniteSet((DOMAIN Base) \X (DOMAIN content))
    BY <2>1, FS_Product
  <2>3. QED
    BY <2>2, FS_Subset
<1>3. All # {}
  <2>1. PICK c \in DOMAIN Base : Matches(c, content) # {}
    BY DEF HasMatch
  <2>2. PICK i \in Matches(c, content) : i \in DOMAIN content
    BY <2>1, MatchFacts
  <2>3. <<c, i>> \in All
    BY <2>2
  <2>4. QED
    BY <2>3
<1>4. \A m \in All : w[m] \in Nat
  BY MatchFacts
<1>5. Heaviest # {}
  <2> HIDE DEF All, w
  <2>1. \E m \in All : \A n \in All : w[n] <= w[m]
    BY <1>2, <1>3, <1>4, Greatest
  <2>2. QED
    BY <2>1
<1>6. T # {}
  <2> HIDE DEF Heaviest
  <2>1. QED
    BY <1>5
<1>7. \A m \in All : m[2] \in DOMAIN content /\ m[1] \in DOMAIN Base
  OBVIOUS
<1>8. T \subseteq Nat
  BY <1>1, <1>7
<1>9. Min(T) \in T
  <2> HIDE DEF T
  <2>1. QED
    BY <1>6, <1>8, MinFacts
<1>10. BestMatch(content) = Min(T)
  <2>1. Heaviest = {m \in All : \A n \in All :
                       Lexicon[n[1]][content[n[2]].word] <= Lexicon[m[1]][content[m[2]].word]}
    OBVIOUS
  <2>2. QED
    BY <2>1 DEF BestMatch
<1>11. PICK m \in All : m[2] = BestMatch(content)
  BY <1>9, <1>10
<1>12. m[1] \in DOMAIN Base /\ m[2] \in DOMAIN content /\ m[2] \in Matches(m[1], content)
  BY <1>7, <1>11
<1>13. content[m[2]].word \in DOMAIN Lexicon[m[1]]
  BY <1>12, MatchFacts
<1>14. QED
  BY <1>11, <1>12, <1>13, LexiconFacts DEF WidthOf

(* The cut keeps the match and no more than its share around it.           *)
LEMMA QuoteBounds ==
  ASSUME NEW start \in Nat, NEW width \in Nat, width <= Radius,
         NEW spaces, spaces \subseteq Nat,
         NEW length \in Nat, start + width <= length
  PROVE  LET from == QuoteFrom(start, spaces, length)
             to   == Min({QuoteTo(start + width, spaces, length), from + 2 * Radius})
         IN  from <= start /\ start + width <= to /\ to - from <= 2 * Radius
<1> DEFINE from == QuoteFrom(start, spaces, length)
           end  == start + width
           last == QuoteTo(end, spaces, length)
           to   == Min({last, from + 2 * Radius})
<1>0. Radius \in Nat /\ 2 * Radius \in Nat
  BY ClassifierAssumption DEF ClassifierAssumption
<1>1. from \in Nat /\ from <= start /\ start <= from + Radius
  <2>1. CASE start <= Radius
    BY <1>0, <2>1 DEF QuoteFrom
  <2>2. CASE ~(start <= Radius)
    <3> DEFINE T == {p \in spaces \cup {start} : p >= start - Radius}
    <3>1. from = Min(T)
      BY <2>2 DEF QuoteFrom
    <3>2. T \subseteq Nat /\ start \in T
      <4>1. start >= start - Radius
        BY <1>0
      <4>2. QED
        BY <4>1
    <3>3. Min(T) \in T /\ Min(T) <= start
      <4> HIDE DEF T
      <4>1. QED
        BY <3>2, MinFacts
    <3>4. Min(T) \in Nat /\ Min(T) >= start - Radius
      BY <3>2, <3>3
    <3>5. QED
      BY <1>0, <3>1, <3>3, <3>4
  <2>3. QED
    BY <2>1, <2>2
<1>2. last \in Nat /\ end <= last
  <2>1. CASE end + Radius >= length
    BY <2>1 DEF QuoteTo
  <2>2. CASE ~(end + Radius >= length)
    <3> DEFINE T == {p \in {s + 1 : s \in spaces} \cup {end} : p <= end + Radius}
    <3>1. last = Max(T)
      BY <2>2 DEF QuoteTo
    <3>2. T \subseteq Nat /\ end \in T /\ \A p \in T : p <= end + Radius
      <4>1. end \in Nat /\ end <= end + Radius /\ \A s \in spaces : s + 1 \in Nat
        BY <1>0
      <4>2. QED
        BY <4>1
    <3>3. end + Radius \in Nat
      BY <1>0
    <3>4. Max(T) \in T /\ end <= Max(T)
      <4> HIDE DEF T
      <4>1. QED
        BY <3>2, <3>3, MaxFacts
    <3>5. QED
      BY <3>1, <3>2, <3>4
  <2>3. QED
    BY <2>1, <2>2
<1> HIDE DEF from, last
<1>3. from + 2 * Radius \in Nat /\ end <= from + 2 * Radius
  BY <1>0, <1>1
<1>4. to = IF last <= from + 2 * Radius THEN last ELSE from + 2 * Radius
  BY <1>2, <1>3, MinOfTwo
<1> HIDE DEF to
<1>5. from <= start /\ end <= to /\ to - from <= 2 * Radius
  BY <1>0, <1>1, <1>2, <1>3, <1>4
<1>6. QED
  BY <1>5 DEF from, to, last

LEMMA QuoteOfPage ==
  ASSUME NEW content \in Seq(Word), HasMatch(content)
  PROVE  LET q == FindBestEvidence(content)
         IN  q.from <= q.start /\ q.end <= q.to /\ q.to - q.from <= 2 * Radius
<1> DEFINE starts == Starts(content)
           spaces == {starts[i] - 1 :
                         i \in {j \in DOMAIN content \ {1} : content[j - 1].word # "line"}}
           n      == Len(content)
           length == starts[n] + WidthOf(content, n)
           best   == BestMatch(content)
           start  == starts[best]
           width  == WidthOf(content, best)
           from   == QuoteFrom(start, spaces, length)
           to     == Min({QuoteTo(start + width, spaces, length), from + 2 * Radius})
<1>1. best \in DOMAIN content /\ width <= Radius
  BY BestMatchFacts
<1>2. n \in Nat /\ n \in DOMAIN content /\ DOMAIN content = 1..n
  BY <1>1
<1>3. \A i \in DOMAIN content : WidthOf(content, i) \in Nat
  BY ClassifierAssumption DEF ClassifierAssumption, WidthOf
<1>4. \A j \in DOMAIN content : /\ starts[j] \in Nat
                                /\ j # 1 => starts[j] >= 1
  BY StartsFacts
<1>5. spaces \subseteq Nat
  <2> HIDE DEF starts
  <2>1. \A j \in DOMAIN content \ {1} : starts[j] - 1 \in Nat
    BY <1>4
  <2>2. QED
    BY <2>1
<1>6. start \in Nat /\ width \in Nat /\ length \in Nat
  BY <1>1, <1>2, <1>3, <1>4
<1>7. start + width <= length
  BY <1>1, <1>2, StartsFacts
<1>8. FindBestEvidence(content) =
         [from |-> from, to |-> to, start |-> start, end |-> start + width]
  BY DEF FindBestEvidence, WidthOf
<1>9. from <= start /\ start + width <= to /\ to - from <= 2 * Radius
  <2> HIDE DEF start, width, spaces, length
  <2>1. QED
    BY <1>1, <1>5, <1>6, <1>7, QuoteBounds
<1> HIDE DEF from, to, start, width
<1>10. QED
  BY <1>8, <1>9

(* The quote of a finding shows the whole of a phrase that was matched, on *)
(* every page and for every context radius no phrase is longer than.       *)
THEOREM QuoteHolds == ClassifierSpec => []QuoteHoldsPhrase
<1>1. ClassifierInv => QuoteHoldsPhrase
  <2> SUFFICES ASSUME ClassifierInv PROVE QuoteHoldsPhrase
    OBVIOUS
  <2> DEFINE content == Content(text)
             q == verdict.quote
  <2>1. text \in Seq(Word) /\ verdict = Classify(text, entities)
    BY DEF ClassifierInv, ClassifierTypeOK
  <2>2. content \in Seq(Word)
    BY <2>1, ContentFacts
  <2>3. /\ q = NoQuote \/ q = FindBestEvidence(content)
        /\ q # NoQuote => HasMatch(content)
    BY <2>1 DEF Classify, Content
  <2> HIDE DEF content, q
  <2>4. CASE q = NoQuote
    <3>1. q.from = 0 /\ q.start = 0 /\ q.end = 0 /\ q.to = 0
      BY <2>4 DEF NoQuote
    <3>2. 2 * Radius \in Nat
      BY ClassifierAssumption DEF ClassifierAssumption
    <3>3. QED
      BY <3>1, <3>2 DEF QuoteHoldsPhrase, q
  <2>5. CASE q # NoQuote
    <3>1. q.from <= q.start /\ q.end <= q.to /\ q.to - q.from <= 2 * Radius
      BY <2>2, <2>3, <2>5, QuoteOfPage
    <3>2. QED
      BY <3>1 DEF QuoteHoldsPhrase, q
  <2>6. QED
    BY <2>4, <2>5
<1>2. QED
  BY <1>1, ClassifierKeeps, PTL
==============================================================================
