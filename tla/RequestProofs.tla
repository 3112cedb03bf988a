---------------------------- MODULE RequestProofs ----------------------------
(***************************************************************************)
(* What an API process promises its requests, for every number of threads, *)
(* keys and requests and every schedule: the cache of signing keys follows *)
(* a rotation, Retry-After is enough to be admitted, one idempotency key   *)
(* has one effect and one bill, and what is spent and set aside stays      *)
(* within the user's and the organisation's ceilings. And what it promises *)
(* a client that follows a run: every committed event, once and in order.  *)
(***************************************************************************)
EXTENDS KeyCache, RateLimit, RetrievalRun, EventStream, CollectionProofs, SequenceTheorems

(* ----------------------------- signing keys ------------------------------ *)
KeySpec == KeyInit /\ [][KeyNext]_keyVars

CheckStates == {"idle", "known", "waiting", "locked", "fetching", "read"}

\* The shape of the verifier's state and of the requests in it.
KeyTypeOK ==
  /\ keyClock \in Nat
  /\ published \in (SUBSET Kids) \ {{}}
  /\ since \in [Kids -> Nat]
  /\ cachedKeys \in [at : Nat \cup {NoTime}, keys : SUBSET Kids]
  /\ attempt \in Nat \cup {NoTime}
  /\ fetchFailed \in BOOLEAN
  /\ keyLock \in Verifiers \cup {NoThread}
  /\ check \in [Verifiers -> [pc : CheckStates, kid : Kids, began : Nat, keys : SUBSET Kids]]

\* Nothing is dated in the future.
NothingAhead ==
  /\ \A k \in Kids : since[k] <= keyClock
  /\ attempt # NoTime => attempt <= keyClock
  /\ cachedKeys.at # NoTime => cachedKeys.at <= keyClock

\* A fetch is made under the lock; it is the last attempt, and until it is done
\* it counts as failed.
FetchIsLocked ==
  \A v \in Verifiers :
    /\ check[v].pc \in {"locked", "fetching", "read"} => keyLock = v
    /\ check[v].pc \in {"fetching", "read"} => fetchFailed /\ attempt = check[v].began

\* A set that was read differs from what is published only by changes made
\* since its fetch began.
ReadIsRecent ==
  \A v \in Verifiers : \A k \in Kids :
    check[v].pc = "read" /\ ~(k \in check[v].keys <=> k \in published)
      => check[v].began <= since[k]

\* A key of the cache that is withdrawn was withdrawn no longer than a fetch
\* before it was cached.
CacheIsRecent ==
  \A k \in Kids :
    cachedKeys.at # NoTime /\ k \in cachedKeys.keys /\ k \notin published
      => cachedKeys.at <= since[k] + FetchTime

\* Unless the last attempt failed, a key the cache lacks was published after it.
CacheLacksOnlyNewer ==
  ~fetchFailed /\ attempt # NoTime =>
    /\ cachedKeys.at # NoTime
    /\ \A k \in Kids : k \notin cachedKeys.keys /\ k \in published => attempt <= since[k]

KeyInv ==
  /\ KeyTypeOK /\ NothingAhead /\ FetchIsLocked /\ ReadIsRecent
  /\ CacheIsRecent /\ CacheLacksOnlyNewer /\ RotationIsFollowed

(* A new process knows no key and has fetched none.                        *)
LEMMA KeyInitInv == KeyInit => KeyInv
<1> SUFFICES ASSUME KeyInit PROVE KeyInv
  OBVIOUS
<1>1. NoCheck \in [pc : CheckStates, kid : Kids, began : Nat, keys : SUBSET Kids]
      /\ NoCheck.pc = "idle"
  BY DEF NoCheck, CheckStates, KeyInit
<1>2. KeyTypeOK
  BY <1>1 DEF KeyInit, KeyTypeOK
<1>3. FetchIsLocked /\ ReadIsRecent
  BY <1>1 DEF KeyInit, FetchIsLocked, ReadIsRecent
<1>4. QED
  BY <1>2, <1>3, KeyAssumption
  DEF KeyInit, KeyInv, NothingAhead, CacheIsRecent, CacheLacksOnlyNewer,
      RotationIsFollowed, NoVerdict

(* The record of a request that was answered, or of a new one.             *)
LEMMA NoCheckType ==
  ASSUME KeyTypeOK
  PROVE  /\ NoCheck \in [pc : CheckStates, kid : Kids, began : Nat, keys : SUBSET Kids]
         /\ NoCheck.pc = "idle"
  BY DEF KeyTypeOK, NoCheck, CheckStates

(* The clock and the provider keep the invariant: a rotation is dated now, *)
(* so whatever it makes stale is not staler than that.                     *)
LEMMA KeyEnvironment ==
  ASSUME KeyInv, KeyTick \/ Rotate
  PROVE  KeyInv'
<1>1. CASE KeyTick
  <2> USE <1>1 DEF KeyTick, Silent
  <2>1. KeyTypeOK'
    BY DEF KeyInv, KeyTypeOK
  <2>2. NothingAhead'
    BY DEF KeyInv, KeyTypeOK, NothingAhead
  <2>3. (FetchIsLocked /\ ReadIsRecent /\ CacheIsRecent /\ CacheLacksOnlyNewer)'
    BY DEF KeyInv, FetchIsLocked, ReadIsRecent, CacheIsRecent, CacheLacksOnlyNewer
  <2>4. RotationIsFollowed'
    BY DEF RotationIsFollowed, NoVerdict
  <2>5. QED
    BY <2>1, <2>2, <2>3, <2>4 DEF KeyInv
<1>2. CASE Rotate
  <2>1. PICK ks \in (SUBSET Kids) \ {{}, published} :
          /\ published' = ks
          /\ since' = [k \in Kids |-> IF (k \in ks) = (k \in published) THEN since[k]
                                      ELSE keyClock]
    BY <1>2 DEF Rotate
  <2>2. UNCHANGED <<keyClock, cachedKeys, attempt, fetchFailed, keyLock, check>>
        /\ verdict' = NoVerdict
    BY <1>2 DEF Rotate, Silent
  <2>3. KeyTypeOK'
    BY <2>1, <2>2 DEF KeyInv, KeyTypeOK
  <2>4. NothingAhead'
    BY <2>1, <2>2 DEF KeyInv, KeyTypeOK, NothingAhead
  <2>5. FetchIsLocked'
    BY <2>2 DEF KeyInv, FetchIsLocked
  <2>6. \A k \in Kids : /\ since'[k] = since[k] \/ since'[k] = keyClock
                        /\ ~(k \in published' <=> k \in published) => since'[k] = keyClock
                        /\ since[k] <= since'[k]
    BY <2>1 DEF KeyInv, KeyTypeOK, NothingAhead
  <2>7. ReadIsRecent'
    <3> SUFFICES ASSUME NEW v \in Verifiers, NEW k \in Kids, check[v].pc = "read",
                        ~(k \in check[v].keys <=> k \in published')
                 PROVE  check[v].began <= since'[k]
      BY <2>2 DEF ReadIsRecent
    <3>1. check[v].began \in Nat /\ check[v].began <= keyClock
      BY KeyAssumption DEF KeyInv, KeyTypeOK, NothingAhead, FetchIsLocked
    <3>2. CASE k \in published' <=> k \in published
      BY <2>1, <2>6, <3>1, <3>2 DEF KeyInv, KeyTypeOK, ReadIsRecent
    <3>3. CASE ~(k \in published' <=> k \in published)
      BY <2>6, <3>1, <3>3
    <3>4. QED
      BY <3>2, <3>3
  <2>8. CacheIsRecent'
    BY <2>1, <2>2, <2>6, KeyAssumption
    DEF KeyInv, KeyTypeOK, CacheIsRecent, NothingAhead
  <2>9. CacheLacksOnlyNewer'
    BY <2>1, <2>2, <2>6
    DEF KeyInv, KeyTypeOK, CacheLacksOnlyNewer, NothingAhead
  <2>10. RotationIsFollowed'
    BY <2>2 DEF RotationIsFollowed, NoVerdict
  <2>11. QED
    BY <2>3, <2>4, <2>5, <2>7, <2>8, <2>9, <2>10 DEF KeyInv
<1>3. QED
  BY <1>1, <1>2

(* A request that neither fetches nor answers with the key of a fetch      *)
(* leaves all but its own state, the lock and the answer as they were.     *)
LEMMA KeyRequest ==
  ASSUME KeyInv, NEW v \in Verifiers,
         Verify(v) \/ UseKnown(v) \/ AcquireKeys(v) \/ GiveUpWaiting(v) \/ AnswerLocked(v)
  PROVE  KeyInv'
<1>1. UNCHANGED <<keyClock, published, since, cachedKeys, attempt, fetchFailed>>
  BY DEF Verify, UseKnown, AcquireKeys, GiveUpWaiting, AnswerLocked
<1>2. KeyTypeOK /\ FetchIsLocked
  BY DEF KeyInv
<1>3. \E c \in [pc : CheckStates, kid : Kids, began : Nat, keys : SUBSET Kids] :
        /\ check' = [check EXCEPT ![v] = c]
        /\ c.pc \in {"idle", "known", "waiting", "locked"}
        /\ c.pc = "locked" => keyLock = NoThread /\ keyLock' = v
        /\ c.pc # "locked" => \/ keyLock' = keyLock
                              \/ keyLock' = NoThread /\ keyLock = v
  <2>1. CASE Verify(v)
    BY <1>2, <2>1, NoCheckType DEF Verify, CheckStates
  <2>2. CASE UseKnown(v)
    <3>1. CASE check[v].kid \in FreshKeys
      BY <1>2, <2>2, <3>1, NoCheckType DEF UseKnown, Answer
    <3>2. CASE check[v].kid \notin FreshKeys
      <4>1. check' = [check EXCEPT ![v] = [check[v] EXCEPT !.pc = "waiting"]]
        BY <2>2, <3>2 DEF UseKnown
      <4>2. QED
        BY <1>2, <2>2, <4>1 DEF UseKnown, KeyTypeOK, CheckStates
    <3>3. QED
      BY <3>1, <3>2
  <2>3. CASE AcquireKeys(v)
    <3>1. check' = [check EXCEPT ![v] = [check[v] EXCEPT !.pc = "locked"]]
      BY <2>3 DEF AcquireKeys
    <3>2. QED
      BY <1>2, <2>3, <3>1 DEF AcquireKeys, KeyTypeOK, CheckStates
  <2>4. CASE GiveUpWaiting(v)
    BY <1>2, <2>4, NoCheckType DEF GiveUpWaiting, Answer
  <2>5. CASE AnswerLocked(v)
    BY <1>2, <2>5, NoCheckType DEF AnswerLocked, Answer, FetchIsLocked
  <2>6. QED
    BY <2>1, <2>2, <2>3, <2>4, <2>5
<1>4. PICK c \in [pc : CheckStates, kid : Kids, began : Nat, keys : SUBSET Kids] :
        /\ check' = [check EXCEPT ![v] = c]
        /\ c.pc \in {"idle", "known", "waiting", "locked"}
        /\ c.pc = "locked" => keyLock = NoThread /\ keyLock' = v
        /\ c.pc # "locked" => \/ keyLock' = keyLock
                              \/ keyLock' = NoThread /\ keyLock = v
  BY <1>3
<1>5. KeyTypeOK'
  BY <1>1, <1>2, <1>4 DEF KeyTypeOK
<1>6. \A u \in Verifiers : check'[u] = IF u = v THEN c ELSE check[u]
  BY <1>2, <1>4 DEF KeyTypeOK
<1>7. FetchIsLocked'
  BY <1>1, <1>2, <1>4, <1>6, KeyAssumption DEF FetchIsLocked
<1>8. ReadIsRecent'
  BY <1>1, <1>4, <1>6 DEF KeyInv, ReadIsRecent
<1>9. (NothingAhead /\ CacheIsRecent /\ CacheLacksOnlyNewer)'
  BY <1>1 DEF KeyInv, NothingAhead, CacheIsRecent, CacheLacksOnlyNewer
<1>10. RotationIsFollowed'
  <2>1. CASE verdict' = NoVerdict
    BY <2>1 DEF RotationIsFollowed, NoVerdict
  <2>2. CASE verdict' # NoVerdict
    <3> DEFINE kid == check[v].kid
    <3>1. /\ verdict'.current = (kid \in published)
          /\ verdict'.age = keyClock - since[kid]
          /\ verdict'.answer = "accepted" => kid \in FreshKeys
          /\ verdict'.answer = "invalid" =>
                kid \notin FreshKeys /\ RecentAttempt /\ FreshKeys # {} /\ ~fetchFailed
      <4>1. CASE Verify(v) \/ AcquireKeys(v)
        BY <2>2, <4>1 DEF Verify, AcquireKeys, Silent
      <4>2. CASE UseKnown(v)
        BY <2>2, <4>2 DEF UseKnown, Answer, Silent
      <4>3. CASE GiveUpWaiting(v)
        BY <4>3 DEF GiveUpWaiting, Answer
      <4>4. CASE AnswerLocked(v)
        BY <4>4 DEF AnswerLocked, Answer
      <4>5. QED
        BY <4>1, <4>2, <4>3, <4>4
    <3>2. kid \in Kids
      BY <1>2 DEF KeyTypeOK
    <3>3. ASSUME verdict'.answer = "accepted", ~verdict'.current
          PROVE  verdict'.age < KeyLife + FetchTime
      <4>1. /\ cachedKeys.at # NoTime /\ keyClock - cachedKeys.at < KeyLife
            /\ kid \in cachedKeys.keys /\ kid \notin published
        BY <3>1, <3>3 DEF FreshKeys
      <4>2. cachedKeys.at <= since[kid] + FetchTime
        BY <3>2, <4>1 DEF KeyInv, CacheIsRecent
      <4>3. since[kid] \in Nat /\ cachedKeys.at \in Nat /\ keyClock \in Nat
        BY <1>2, <3>2, <4>1 DEF KeyTypeOK
      <4>4. QED
        BY <3>1, <4>1, <4>2, <4>3, KeyAssumption
    <3>4. ASSUME verdict'.answer = "invalid", verdict'.current
          PROVE  verdict'.age < KeyPause
      <4>1. /\ attempt # NoTime /\ keyClock - attempt < KeyPause
            /\ kid \notin cachedKeys.keys /\ kid \in published /\ ~fetchFailed
        BY <3>1, <3>4 DEF FreshKeys, RecentAttempt
      <4>2. attempt <= since[kid]
        BY <3>2, <4>1 DEF KeyInv, CacheLacksOnlyNewer
      <4>3. since[kid] \in Nat /\ attempt \in Nat /\ keyClock \in Nat
        BY <1>2, <3>2, <4>1 DEF KeyTypeOK
      <4>4. QED
        BY <3>1, <4>1, <4>2, <4>3, KeyAssumption
    <3>5. QED
      BY <3>3, <3>4 DEF RotationIsFollowed
  <2>3. QED
    BY <2>1, <2>2
<1>11. QED
  BY <1>5, <1>7, <1>8, <1>9, <1>10 DEF KeyInv

(* A fetch keeps the invariant, whatever it comes to: what it caches was   *)
(* read while it was under way, and that is never longer than FetchTime.   *)
LEMMA KeyFetch ==
  ASSUME KeyInv, NEW v \in Verifiers,
         BeginFetch(v) \/ FetchAnswered(v) \/ FetchDone(v) \/ FetchFailed(v)
  PROVE  KeyInv'
<1> USE DEF KeyInv
<1>1. KeyTypeOK
  OBVIOUS
<1>2. NoCheck \in [pc : CheckStates, kid : Kids, began : Nat, keys : SUBSET Kids]
      /\ NoCheck.pc = "idle"
  BY NoCheckType
<1>3. \A u \in Verifiers : u # v => check'[u] = check[u]
  BY <1>1
  DEF KeyTypeOK, BeginFetch, FetchAnswered, FetchDone, FetchFailed, Answer
<1>4. \A u \in Verifiers : u # v => check[u].pc \notin {"locked", "fetching", "read"}
  BY DEF FetchIsLocked, BeginFetch, FetchAnswered, FetchDone, FetchFailed
<1>5. CASE BeginFetch(v)
  <2> USE <1>5 DEF BeginFetch, Silent
  <2>1. check'[v] = [check[v] EXCEPT !.pc = "fetching", !.began = keyClock]
    BY <1>1 DEF KeyTypeOK
  <2>2. KeyTypeOK'
    BY <1>1 DEF KeyTypeOK, CheckStates
  <2>3. FetchIsLocked'
    BY <1>1, <1>3, <1>4, <2>1 DEF FetchIsLocked, KeyTypeOK
  <2>4. ReadIsRecent'
    BY <1>1, <1>3, <1>4, <2>1 DEF ReadIsRecent, KeyTypeOK
  <2>5. (NothingAhead /\ CacheIsRecent /\ CacheLacksOnlyNewer)'
    BY <1>1 DEF NothingAhead, CacheIsRecent, CacheLacksOnlyNewer, KeyTypeOK
  <2>6. RotationIsFollowed'
    BY DEF RotationIsFollowed, NoVerdict
  <2>7. QED
    BY <2>2, <2>3, <2>4, <2>5, <2>6
<1>6. CASE FetchAnswered(v)
  <2> USE <1>6 DEF FetchAnswered, Silent
  <2>1. check'[v] = [check[v] EXCEPT !.pc = "read", !.keys = published]
    BY <1>1 DEF KeyTypeOK
  <2>2. KeyTypeOK'
    BY <1>1 DEF KeyTypeOK, CheckStates
  <2>3. FetchIsLocked'
    BY <1>1, <1>3, <1>4, <2>1 DEF FetchIsLocked, KeyTypeOK
  <2>4. ReadIsRecent'
    BY <1>1, <1>3, <1>4, <2>1 DEF ReadIsRecent, KeyTypeOK
  <2>5. (NothingAhead /\ CacheIsRecent /\ CacheLacksOnlyNewer)'
    BY DEF NothingAhead, CacheIsRecent, CacheLacksOnlyNewer
  <2>6. RotationIsFollowed'
    BY DEF RotationIsFollowed, NoVerdict
  <2>7. QED
    BY <2>2, <2>3, <2>4, <2>5, <2>6
<1>7. CASE FetchFailed(v)
  <2> USE <1>7 DEF FetchFailed, Answer
  <2>1. check'[v] = NoCheck
    BY <1>1 DEF KeyTypeOK
  <2>2. KeyTypeOK'
    BY <1>1, <1>2 DEF KeyTypeOK
  <2>3. FetchIsLocked' /\ ReadIsRecent'
    BY <1>2, <1>3, <1>4, <2>1 DEF FetchIsLocked, ReadIsRecent
  <2>4. (NothingAhead /\ CacheIsRecent /\ CacheLacksOnlyNewer)'
    BY DEF NothingAhead, CacheIsRecent, CacheLacksOnlyNewer
  <2>5. RotationIsFollowed'
    BY DEF RotationIsFollowed
  <2>6. QED
    BY <2>2, <2>3, <2>4, <2>5
<1>8. CASE FetchDone(v)
  <2> USE <1>8 DEF FetchDone, Answer
  <2> DEFINE kid == check[v].kid
             began == check[v].began
  <2>1. check'[v] = NoCheck
    BY <1>1 DEF KeyTypeOK
  <2>2. KeyTypeOK'
    BY <1>1, <1>2 DEF KeyTypeOK
  <2>3. FetchIsLocked' /\ ReadIsRecent'
    BY <1>2, <1>3, <1>4, <2>1 DEF FetchIsLocked, ReadIsRecent
  <2>4. /\ began \in Nat /\ keyClock \in Nat /\ kid \in Kids /\ attempt = began
        /\ \A k \in Kids : since[k] \in Nat
        /\ keyClock <= began + FetchTime
        /\ cachedKeys'.at = keyClock /\ cachedKeys'.keys = check[v].keys
    BY <1>1, KeyAssumption DEF KeyTypeOK, FetchIsLocked
  <2>5. \A k \in Kids : ~(k \in check[v].keys <=> k \in published) => began <= since[k]
    BY DEF ReadIsRecent
  <2>6. NothingAhead'
    BY <2>4 DEF NothingAhead
  <2>7. CacheIsRecent' /\ CacheLacksOnlyNewer'
    BY <2>4, <2>5, KeyAssumption DEF CacheIsRecent, CacheLacksOnlyNewer
  <2>8. RotationIsFollowed'
    <3>1. /\ verdict'.answer = "accepted" => kid \in check[v].keys
          /\ verdict'.answer = "invalid" => kid \notin check[v].keys
          /\ verdict'.current = (kid \in published)
          /\ verdict'.age = keyClock - since[kid]
      OBVIOUS
    <3>2. ~(kid \in check[v].keys <=> kid \in published)
            => verdict'.age < KeyLife + FetchTime /\ verdict'.age < KeyPause
      BY <2>4, <2>5, <3>1, KeyAssumption
    <3>3. QED
      BY <3>1, <3>2, Zenon DEF RotationIsFollowed
  <2>9. QED
    BY <2>2, <2>3, <2>6, <2>7, <2>8
<1>9. QED
  BY <1>5, <1>6, <1>7, <1>8

(* A rotation of the signing keys is followed in bounded time, both ways,  *)
(* for any number of request threads, keys and rotations and any timing of *)
(* the fetches (SupabaseTokenVerifier._key and _fetch, supabase_auth.py).  *)
THEOREM KeySpecFollowsRotation == KeySpec => []RotationIsFollowed
<1>1. KeyInv /\ [KeyNext]_keyVars => KeyInv'
  <2> SUFFICES ASSUME KeyInv, [KeyNext]_keyVars PROVE KeyInv'
    OBVIOUS
  <2>1. CASE KeyNext
    BY <2>1, KeyEnvironment, KeyRequest, KeyFetch DEF KeyNext
  <2>2. CASE UNCHANGED keyVars
    BY <2>2
    DEF keyVars, KeyInv, KeyTypeOK, NothingAhead, FetchIsLocked, ReadIsRecent,
        CacheIsRecent, CacheLacksOnlyNewer, RotationIsFollowed
  <2>3. QED
    BY <2>1, <2>2
<1>2. KeyInv => RotationIsFollowed
  BY DEF KeyInv
<1>3. QED
  BY <1>1, <1>2, KeyInitInv, PTL DEF KeySpec

(* ----------------------------- rate limiting ----------------------------- *)
LimiterSpec == LimiterInit /\ [][LimiterNext]_limiterVars

\* The shape of the limiter's state and of the checks under way.
LimiterTypeOK ==
  /\ ticks \in Nat
  /\ thread \in [Threads -> {Unset} \cup [key : BucketKeys, now : Nat]]
  /\ buckets \in [BucketKeys -> {Unset} \cup [tokens : Int, updatedAt : Nat]]
  /\ promise \in [BucketKeys -> {Unset} \cup Int]

\* A clock reading may be old, and never lies ahead.
ReadingsAreOld ==
  /\ \A t \in Threads : thread[t] # Unset => thread[t].now <= ticks
  /\ \A k \in BucketKeys : buckets[k] # Unset => buckets[k].updatedAt <= ticks

\* A bucket that refused somebody will hold a token when it said it would.
RefillCoversPromise ==
  \A k \in BucketKeys :
    promise[k] # Unset /\ buckets[k] # Unset =>
      Token <= buckets[k].tokens + (promise[k] - buckets[k].updatedAt) * RefillRate

LimiterInv == LimiterTypeOK /\ ReadingsAreOld /\ RefillCoversPromise

(* A longer wait refills at least as much.                                 *)
LEMMA RefillGrows ==
  ASSUME NEW a \in Int, NEW b \in Int, NEW c \in Nat, a <= b
  PROVE  a * c <= b * c
  OBVIOUS

(* Retry-After, rounded up to whole seconds, covers what is missing of a   *)
(* token (RateLimiter.check, ratelimit.py).                                *)
LEMMA RetryAfterCovers ==
  ASSUME NEW tokens \in Int
  PROVE  /\ RetryAfter(tokens) \in Nat
         /\ Token - tokens <= (RetryAfter(tokens) * TicksPerSecond) * RefillRate
<1> DEFINE p == RefillRate * TicksPerSecond
           n == Token - tokens + p - 1
           q == n \div p
<1>1. Token \in Nat /\ RefillRate \in Nat \ {0} /\ TicksPerSecond \in Nat \ {0}
  BY LimiterAssumption
<1>2. p \in Nat \ {0}
  BY <1>1
<1>3. n \in Int
  BY <1>1, <1>2
<1> HIDE DEF p, n
<1>4. q \in Int /\ n < q * p + p
  BY <1>2, <1>3
<1>5. Token - tokens <= q * p
  BY <1>1, <1>2, <1>4 DEF n
<1> HIDE DEF q
<1>6. RetryAfter(tokens) = AtLeast(1, q)
  BY DEF RetryAfter, p, n, q
<1>7. RetryAfter(tokens) \in Nat /\ q <= RetryAfter(tokens)
  BY <1>4, <1>6 DEF AtLeast
<1>8. q * p <= RetryAfter(tokens) * p
  BY <1>2, <1>4, <1>7, RefillGrows
<1>9. RetryAfter(tokens) * p = (RetryAfter(tokens) * TicksPerSecond) * RefillRate
  BY <1>1, <1>7 DEF p
<1>10. QED
  BY <1>1, <1>2, <1>4, <1>5, <1>7, <1>8, <1>9

(* The invariant gives the promise: at the time it named, a refill, or the *)
(* full bucket a new key starts with, holds a token.                       *)
LEMMA LimiterInvSuffices == LimiterInv => RetryAfterSuffices
<1> SUFFICES ASSUME LimiterInv, NEW k \in BucketKeys, promise[k] # Unset, ticks >= promise[k]
             PROVE  Refilled(buckets[k], ticks) >= Token
  BY DEF RetryAfterSuffices
<1>1. CASE buckets[k] = Unset
  BY <1>1, LimiterAssumption DEF Refilled
<1>2. CASE buckets[k] # Unset
  <2> DEFINE b == buckets[k]
  <2>1. b.tokens \in Int /\ b.updatedAt \in Nat /\ promise[k] \in Int /\ ticks \in Nat
    BY <1>2 DEF LimiterInv, LimiterTypeOK
  <2>2. b.updatedAt <= ticks
    BY <1>2 DEF LimiterInv, ReadingsAreOld
  <2>3. Token <= b.tokens + (promise[k] - b.updatedAt) * RefillRate
    BY <1>2 DEF LimiterInv, RefillCoversPromise
  <2>4. RefillRate \in Nat /\ Token \in Nat /\ Burst \in Nat /\ Token <= Burst
    BY LimiterAssumption
  <2>5. (promise[k] - b.updatedAt) * RefillRate <= (ticks - b.updatedAt) * RefillRate
    BY <2>1, <2>4, RefillGrows
  <2>6. AtLeast(0, ticks - b.updatedAt) = ticks - b.updatedAt
    BY <2>1, <2>2 DEF AtLeast
  <2>7. Refilled(b, ticks) = AtMost(Burst, b.tokens + (ticks - b.updatedAt) * RefillRate)
    BY <1>2, <2>6 DEF Refilled
  <2> HIDE DEF b
  <2>8. (ticks - b.updatedAt) * RefillRate \in Int /\ (promise[k] - b.updatedAt) * RefillRate \in Int
    BY <2>1, <2>4
  <2>9. Refilled(b, ticks) >= Token
    BY <2>1, <2>3, <2>4, <2>5, <2>7, <2>8 DEF AtMost
  <2>10. QED
    BY <2>9 DEF b
<1>3. QED
  BY <1>1, <1>2

(* A check, from the reading of the clock to the spending of the token,    *)
(* keeps the invariant, though the reading may be older than the bucket's. *)
LEMMA SpendTokenInv ==
  ASSUME LimiterInv, NEW t \in Threads, SpendToken(t)
  PROVE  LimiterInv'
<1> DEFINE k == thread[t].key
           now == thread[t].now
           kept == Kept(now)
           tokens == Refilled(kept[k], now)
           ok == tokens >= Token
           left == IF ok THEN tokens - Token ELSE tokens
           back == ticks + RetryAfter(tokens) * TicksPerSecond
<1>1. /\ Token \in Nat /\ RefillRate \in Nat /\ Burst \in Nat /\ TicksPerSecond \in Nat
      /\ Unset \notin Int
      /\ Unset \notin [tokens : Int, updatedAt : Int]
      /\ Unset \notin [key : BucketKeys, now : Int]
  BY LimiterAssumption
<1>2. k \in BucketKeys /\ now \in Nat /\ now <= ticks /\ ticks \in Nat
  BY DEF SpendToken, LimiterInv, LimiterTypeOK, ReadingsAreOld
<1>3. /\ kept \in [BucketKeys -> {Unset} \cup [tokens : Int, updatedAt : Nat]]
      /\ \A j \in BucketKeys : kept[j] # Unset => kept[j] = buckets[j]
  BY DEF Kept, LimiterInv, LimiterTypeOK
<1>4. tokens \in Int
  <2>1. CASE kept[k] = Unset
    BY <1>1, <2>1 DEF Refilled
  <2>2. CASE kept[k] # Unset
    <3>1. kept[k].tokens \in Int /\ kept[k].updatedAt \in Nat
      BY <1>2, <1>3, <2>2
    <3>2. AtLeast(0, now - kept[k].updatedAt) \in Int
      BY <1>2, <3>1 DEF AtLeast
    <3>3. AtLeast(0, now - kept[k].updatedAt) * RefillRate \in Int
      BY <1>1, <3>2
    <3>4. QED
      BY <1>1, <2>2, <3>1, <3>3 DEF Refilled, AtMost
  <2>3. QED
    BY <2>1, <2>2
<1>5. /\ buckets' = [kept EXCEPT ![k] = [tokens |-> left, updatedAt |-> now]]
      /\ promise' = [promise EXCEPT ![k] = IF ok THEN Unset ELSE back]
      /\ thread' = [thread EXCEPT ![t] = Unset]
      /\ ticks' = ticks
  BY DEF SpendToken
<1>6. /\ RetryAfter(tokens) \in Nat
      /\ Token - tokens <= (RetryAfter(tokens) * TicksPerSecond) * RefillRate
  BY <1>4, RetryAfterCovers
<1> HIDE DEF k, now, kept, tokens
<1>7. left \in Int
  BY <1>1, <1>4
<1>8. back \in Nat /\ ticks <= back
  BY <1>1, <1>2, <1>6
<1>9. LimiterTypeOK'
  BY <1>2, <1>3, <1>5, <1>7, <1>8 DEF LimiterInv, LimiterTypeOK
<1>10. \A j \in BucketKeys :
         /\ j # k => buckets'[j] = kept[j] /\ promise'[j] = promise[j]
         /\ j = k => buckets'[j] = [tokens |-> left, updatedAt |-> now]
         /\ j = k => promise'[j] = IF ok THEN Unset ELSE back
  BY <1>2, <1>3, <1>5 DEF LimiterInv, LimiterTypeOK
<1>11. ReadingsAreOld'
  BY <1>2, <1>3, <1>5, <1>10 DEF LimiterInv, LimiterTypeOK, ReadingsAreOld
<1>12. RefillCoversPromise'
  <2> SUFFICES ASSUME NEW j \in BucketKeys, promise'[j] # Unset, buckets'[j] # Unset
               PROVE  Token <= buckets'[j].tokens + (promise'[j] - buckets'[j].updatedAt) * RefillRate
    BY DEF RefillCoversPromise
  <2>1. CASE j # k
    BY <1>3, <1>10, <2>1 DEF LimiterInv, RefillCoversPromise
  <2>2. CASE j = k
    <3>1. ~ok /\ left = tokens /\ promise'[j] = back /\ buckets'[j] = [tokens |-> tokens, updatedAt |-> now]
      BY <1>10, <2>2
    <3>2. RetryAfter(tokens) * TicksPerSecond \in Nat
      BY <1>1, <1>6
    <3>3. RetryAfter(tokens) * TicksPerSecond <= back - now
      BY <1>2, <3>2
    <3>4. (RetryAfter(tokens) * TicksPerSecond) * RefillRate <= (back - now) * RefillRate
      BY <1>1, <1>2, <1>8, <3>2, <3>3, RefillGrows
    <3> HIDE DEF back
    <3>5. Token <= tokens + (back - now) * RefillRate
      <4>1. (back - now) * RefillRate \in Int
            /\ (RetryAfter(tokens) * TicksPerSecond) * RefillRate \in Int
        BY <1>1, <1>2, <1>8, <3>2
      <4>2. QED
        BY <1>1, <1>4, <1>6, <3>4, <4>1
    <3>6. QED
      BY <3>1, <3>5
  <2>3. QED
    BY <2>1, <2>2
<1>13. QED
  BY <1>9, <1>11, <1>12 DEF LimiterInv

(* Retry-After is enough for every burst, rate and number of threads and   *)
(* organisations, whatever stale clock readings and evictions lie between  *)
(* the refusal and the return (RateLimiter.check, ratelimit.py).           *)
THEOREM LimiterSpecRetryAfter == LimiterSpec => []RetryAfterSuffices
<1>1. LimiterInit => LimiterInv
  BY DEF LimiterInit, LimiterInv, LimiterTypeOK, ReadingsAreOld, RefillCoversPromise
<1>2. LimiterInv /\ [LimiterNext]_limiterVars => LimiterInv'
  <2> SUFFICES ASSUME LimiterInv, [LimiterNext]_limiterVars PROVE LimiterInv'
    OBVIOUS
  <2>1. ASSUME NEW t \in Threads, NEW k \in BucketKeys, ReadClock(t, k)
        PROVE  LimiterInv'
    <3>1. LimiterTypeOK'
      BY <2>1 DEF ReadClock, LimiterInv, LimiterTypeOK
    <3>2. ReadingsAreOld'
      BY <2>1 DEF ReadClock, LimiterInv, LimiterTypeOK, ReadingsAreOld
    <3>3. RefillCoversPromise'
      BY <2>1 DEF ReadClock, LimiterInv, RefillCoversPromise
    <3>4. QED
      BY <3>1, <3>2, <3>3 DEF LimiterInv
  <2>2. CASE ClockTick
    <3>1. LimiterTypeOK' /\ ReadingsAreOld'
      BY <2>2 DEF ClockTick, LimiterInv, LimiterTypeOK, ReadingsAreOld
    <3>2. RefillCoversPromise'
      BY <2>2 DEF ClockTick, LimiterInv, RefillCoversPromise
    <3>3. QED
      BY <3>1, <3>2 DEF LimiterInv
  <2>3. CASE UNCHANGED limiterVars
    BY <2>3
    DEF limiterVars, LimiterInv, LimiterTypeOK, ReadingsAreOld, RefillCoversPromise
  <2>4. QED
    BY <2>1, <2>2, <2>3, SpendTokenInv DEF LimiterNext
<1>3. QED
  BY <1>1, <1>2, LimiterInvSuffices, PTL DEF LimiterSpec

(* ---------------------------- retrieval runs ----------------------------- *)
\* Where a request stands before its run is committed, and with it.
BeforeRun == {"idle", "locked", "admissible", "posting"}
InPipeline == {"queued", "planning", "retrieving", "fusing", "generating", "verifying",
               "failing"}

TerminalEvent == [succeeded |-> "run_completed", abstained |-> "run_abstained",
                  failed |-> "run_failed"]

TraceEvents ==
  {"run_started", "plan_ready", "lane_started", "lane_completed", "fusion_completed",
   "rerank_completed", "context_selected", "claim_generated", "citation_verified",
   "run_completed", "run_abstained", "run_failed"}

\* What an answered request stores under its key.
KeyRow(r) == [key |-> KeyOf[r], route |-> Route[r], of |-> r]

\* The shape of the tables and of the requests in flight.
RetrievalTypeOK ==
  /\ at \in [Requests -> BeforeRun \cup InPipeline \cup {"done"}]
  /\ paid \in [Requests -> Nat]
  /\ runs \in [Requests -> [status : {"absent", "queued", "succeeded", "abstained", "failed"},
                            trace : Seq(TraceEvents), cost : Nat]]
  /\ keys \subseteq {KeyRow(r) : r \in Requests}
  /\ feedback \subseteq Requests
  /\ \A u \in usage : u.run \in Requests

\* A key is stored once at an endpoint, and with every effect.
KeysRecordEffects ==
  /\ \A k, j \in keys : k.key = j.key /\ k.route = j.route => k = j
  /\ \A r \in Requests :
       r \in feedback \/ runs[r].status # "absent" => KeyRow(r) \in keys

\* A run is there from its admission on, and is unfinished while its pipeline
\* or its failure path is under way.
RunsFollowRequests ==
  \A r \in Requests :
    /\ at[r] \in BeforeRun => runs[r].status = "absent"
    /\ at[r] \in InPipeline => runs[r].status = "queued"

\* A usage row is that of a finished run and says what its pipeline paid; a
\* finished run without one paid nothing.
UsageFollowsRuns ==
  /\ \A u, w \in usage : u.run = w.run => u = w
  /\ \A u \in usage : Finished(u.run) /\ u.cost = paid[u.run]
  /\ \A r \in Requests : Finished(r) /\ paid[r] # 0 => \E u \in usage : u.run = r

TracesEndWithStatus ==
  \A r \in Requests :
    Finished(r) => runs[r].trace[Len(runs[r].trace)] = TerminalEvent[runs[r].status]

RetrievalInv ==
  /\ RetrievalTypeOK /\ KeysRecordEffects /\ RunsFollowRequests
  /\ UsageFollowsRuns /\ TracesEndWithStatus

(* A pipeline goes from one stage to another (set_status).                 *)
LEMMA StagesFollow ==
  ASSUME NEW s \in {"queued", "planning", "retrieving", "fusing", "generating"}
  PROVE  StageFollowing(s) \in {"planning", "retrieving", "fusing", "generating", "verifying"}
<1> DEFINE i == CHOOSE n \in 1 .. 4 : PipelineStages[n] = s
<1>1. CASE s = "queued"
  BY <1>1 DEF StageFollowing, PipelineStages
<1>2. CASE s # "queued"
  <2>1. \E n \in 1 .. 4 : PipelineStages[n] = s
    <3>1. /\ PipelineStages[1] = "planning" /\ PipelineStages[2] = "retrieving"
          /\ PipelineStages[3] = "fusing" /\ PipelineStages[4] = "generating"
      BY DEF PipelineStages
    <3>2. 1 \in 1 .. 4 /\ 2 \in 1 .. 4 /\ 3 \in 1 .. 4 /\ 4 \in 1 .. 4
      OBVIOUS
    <3>3. QED
      BY <1>2, <3>1, <3>2
  <2>2. i \in 1 .. 4
    BY <2>1
  <2>3. StageFollowing(s) = PipelineStages[1 + i]
    BY <1>2 DEF StageFollowing
  <2> HIDE DEF i
  <2>4. i = 1 \/ i = 2 \/ i = 3 \/ i = 4
    BY <2>2
  <2>5. QED
    BY <2>3, <2>4 DEF PipelineStages
<1>3. QED
  BY <1>1, <1>2

(* The trace of a completed run ends with its terminal event.              *)
LEMMA TraceEnds ==
  ASSUME NEW last \in TraceEvents
  PROVE  /\ Append(FullTrace, last) \in Seq(TraceEvents)
         /\ Append(FullTrace, last)[Len(Append(FullTrace, last))] = last
<1>1. /\ Emitted.planning \in Seq(TraceEvents) /\ Emitted.retrieving \in Seq(TraceEvents)
      /\ Emitted.fusing \in Seq(TraceEvents) /\ Emitted.generating \in Seq(TraceEvents)
      /\ Emitted.verifying \in Seq(TraceEvents)
  BY DEF Emitted, TraceEvents
<1>2. FullTrace \in Seq(TraceEvents)
  BY <1>1 DEF FullTrace
<1>3. QED
  BY <1>2, AppendProperties

(* What the invariant says of keys and usage rows is what OneEffectOneBill *)
(* counts: a set of rows without two different members has at most one.    *)
LEMMA RetrievalInvSuffices == RetrievalInv => OneEffectOneBill
<1> SUFFICES ASSUME RetrievalInv PROVE OneEffectOneBill
  OBVIOUS
<1>1. OneEffectPerKey
  <2> SUFFICES ASSUME NEW r \in Requests, r \in feedback \/ runs[r].status # "absent"
               PROVE  /\ \E k \in keys : k.key = KeyOf[r] /\ k.route = Route[r] /\ k.of = r
                      /\ Cardinality(Stored(r)) = 1
    BY DEF OneEffectPerKey
  <2>1. KeyRow(r) \in keys
    BY DEF RetrievalInv, KeysRecordEffects
  <2>2. KeyRow(r).key = KeyOf[r] /\ KeyRow(r).route = Route[r] /\ KeyRow(r).of = r
    BY DEF KeyRow
  <2>3. Stored(r) = {KeyRow(r)}
    BY <2>1, <2>2 DEF RetrievalInv, KeysRecordEffects, Stored
  <2>4. QED
    BY <2>1, <2>2, <2>3, FS_Singleton
<1>2. FinishedRunsBilled
  <2> SUFFICES ASSUME NEW r \in Requests
               PROVE  LET rows == {u \in usage : u.run = r}
                      IN  IF Finished(r)
                            THEN /\ Cardinality(rows) <= 1
                                 /\ \A u \in rows : u.cost = paid[r]
                                 /\ rows = {} => paid[r] = 0
                                 /\ runs[r].trace[Len(runs[r].trace)]
                                      = TerminalEvent[runs[r].status]
                            ELSE rows = {}
    BY DEF FinishedRunsBilled, TerminalEvent
  <2> DEFINE rows == {u \in usage : u.run = r}
  <2>1. rows = {} \/ \E u : rows = {u}
    BY DEF RetrievalInv, UsageFollowsRuns
  <2>2. Cardinality(rows) <= 1
    <3>1. CASE rows = {}
      BY <3>1, FS_EmptySet
    <3>2. CASE \E u : rows = {u}
      <4>1. PICK u : rows = {u}
        BY <3>2
      <4>2. Cardinality({u}) = 1
        BY FS_Singleton
      <4>3. QED
        BY <4>1, <4>2
    <3>3. QED
      BY <2>1, <3>1, <3>2
  <2>3. CASE Finished(r)
    BY <2>2, <2>3 DEF RetrievalInv, UsageFollowsRuns, TracesEndWithStatus
  <2>4. CASE ~Finished(r)
    BY <2>4 DEF RetrievalInv, UsageFollowsRuns
  <2>5. QED
    BY <2>3, <2>4
<1>3. QED
  BY <1>1, <1>2 DEF OneEffectOneBill

(* A step that only moves a request, before its run is committed or within *)
(* the pipeline's transaction, changes no table.                           *)
LEMMA RequestMoves ==
  ASSUME RetrievalInv, NEW r \in Requests,
         UNCHANGED <<runs, usage, keys, feedback, paid>>,
         NEW s \in BeforeRun \cup InPipeline \cup {"done"},
         at' = [at EXCEPT ![r] = s],
         s \in BeforeRun => at[r] \in BeforeRun,
         s \in InPipeline => at[r] \in InPipeline
  PROVE  RetrievalInv'
<1>1. RetrievalTypeOK'
  BY DEF RetrievalInv, RetrievalTypeOK
<1>2. RunsFollowRequests'
  BY DEF RetrievalInv, RetrievalTypeOK, RunsFollowRequests
<1>3. KeysRecordEffects' /\ UsageFollowsRuns' /\ TracesEndWithStatus'
  BY DEF RetrievalInv, KeysRecordEffects, UsageFollowsRuns, TracesEndWithStatus, Finished
<1>4. QED
  BY <1>1, <1>2, <1>3 DEF RetrievalInv

(* The steps of a request that write no table keep the invariant.          *)
LEMMA QuietRequestInv ==
  ASSUME RetrievalInv, NEW r \in Requests,
         \/ LockQueryBudget(r) \/ ReadSpend(r) \/ Reject(r) \/ IllegalScale(r) \/ Raise(r)
         \/ LoseFailure(r) \/ LookUpFeedback(r) \/ CrashApi(r)
  PROVE  RetrievalInv'
<1>1. UNCHANGED <<runs, usage, keys, feedback, paid>>
  BY DEF LockQueryBudget, ReadSpend, Reject, IllegalScale, Raise, LoseFailure,
         LookUpFeedback, CrashApi
<1>2. \E s \in BeforeRun \cup InPipeline \cup {"done"} :
        /\ at' = [at EXCEPT ![r] = s]
        /\ s \in BeforeRun => at[r] \in BeforeRun
        /\ s \in InPipeline => at[r] \in InPipeline
  BY DEF LockQueryBudget, ReadSpend, Reject, IllegalScale, Raise, LoseFailure,
         LookUpFeedback, CrashApi, BeforeRun, InPipeline
<1>3. QED
  BY <1>1, <1>2, RequestMoves

(* A stage of the pipeline keeps the invariant: the cost it captures is    *)
(* that of a run which is still unfinished.                                *)
LEMMA AdvanceInv ==
  ASSUME RetrievalInv, NEW r \in Requests, Advance(r)
  PROVE  RetrievalInv'
<1>1. /\ StageFollowing(at[r]) \in {"planning", "retrieving", "fusing", "generating", "verifying"}
      /\ at' = [at EXCEPT ![r] = StageFollowing(at[r])]
      /\ UNCHANGED <<runs, usage, keys, feedback>>
      /\ runs[r].status = "queued"
  BY StagesFollow DEF Advance, RetrievalInv, RunsFollowRequests, InPipeline
<1>2. paid' \in [Requests -> Nat] /\ \A q \in Requests : q # r => paid'[q] = paid[q]
  BY RetrievalAssumption DEF Advance, RetrievalInv, RetrievalTypeOK
<1>3. ~Finished(r)
  BY <1>1 DEF Finished
<1>4. RetrievalTypeOK'
  BY <1>1, <1>2 DEF RetrievalInv, RetrievalTypeOK, InPipeline
<1>5. RunsFollowRequests'
  BY <1>1 DEF RetrievalInv, RetrievalTypeOK, RunsFollowRequests, InPipeline, BeforeRun
<1>6. KeysRecordEffects' /\ TracesEndWithStatus'
  BY <1>1 DEF RetrievalInv, KeysRecordEffects, TracesEndWithStatus, Finished
<1>7. \A q \in Requests : Finished(q)' <=> Finished(q)
  BY <1>1 DEF Finished
<1>8. UsageFollowsRuns'
  BY <1>1, <1>2, <1>3, <1>7 DEF RetrievalInv, RetrievalTypeOK, UsageFollowsRuns
<1>9. QED
  BY <1>4, <1>5, <1>6, <1>8 DEF RetrievalInv

(* A run finishes once, with its terminal event and its bill in the same   *)
(* transaction (_run_pipeline_or_fail, _record_run_failure).               *)
LEMMA FinishInv ==
  ASSUME RetrievalInv, NEW r \in Requests, CompleteRun(r) \/ RecordFailure(r)
  PROVE  RetrievalInv'
<1>1. runs[r].status = "queued" /\ ~Finished(r)
  BY DEF CompleteRun, RecordFailure, RetrievalInv, RunsFollowRequests, InPipeline, Finished
<1>2. \E run \in [status : {"succeeded", "abstained", "failed"}, trace : Seq(TraceEvents), cost : Nat] :
        /\ runs' = [runs EXCEPT ![r] = run]
        /\ run.trace[Len(run.trace)] = TerminalEvent[run.status]
  <2>1. CASE CompleteRun(r)
    <3>1. PICK out \in {[status |-> "succeeded", last |-> "run_completed"],
                        [status |-> "abstained", last |-> "run_abstained"]} :
            runs' = [runs EXCEPT ![r] = [status |-> out.status, cost |-> paid[r],
                                         trace |-> Append(FullTrace, out.last)]]
      BY <2>1 DEF CompleteRun
    <3>2. /\ out.last \in TraceEvents /\ out.status \in {"succeeded", "abstained"}
          /\ TerminalEvent[out.status] = out.last
      <4>1. CASE out = [status |-> "succeeded", last |-> "run_completed"]
        BY <4>1 DEF TerminalEvent, TraceEvents
      <4>2. CASE out = [status |-> "abstained", last |-> "run_abstained"]
        BY <4>2 DEF TerminalEvent, TraceEvents
      <4>3. QED
        BY <4>1, <4>2
    <3>3. paid[r] \in Nat
      BY DEF RetrievalInv, RetrievalTypeOK
    <3> DEFINE run == [status |-> out.status, cost |-> paid[r],
                       trace |-> Append(FullTrace, out.last)]
    <3>4. run.status = out.status /\ run.trace = Append(FullTrace, out.last)
      OBVIOUS
    <3>5. run.trace[Len(run.trace)] = TerminalEvent[run.status]
      BY <3>2, <3>4, TraceEnds
    <3>6. Append(FullTrace, out.last) \in Seq(TraceEvents)
      BY <3>2, TraceEnds
    <3>7. run \in [status : {"succeeded", "abstained", "failed"}, trace : Seq(TraceEvents), cost : Nat]
      BY <3>2, <3>3, <3>6
    <3>8. QED
      BY <3>1, <3>5, <3>7
  <2>2. CASE RecordFailure(r)
    <3> DEFINE run == [status |-> "failed", cost |-> paid[r], trace |-> <<"run_failed">>]
    <3>1. run \in [status : {"succeeded", "abstained", "failed"}, trace : Seq(TraceEvents), cost : Nat]
      <4>1. paid[r] \in Nat /\ <<"run_failed">> \in Seq(TraceEvents)
        BY DEF RetrievalInv, RetrievalTypeOK, TraceEvents
      <4>2. QED
        BY <4>1
    <3>2. run.trace[Len(run.trace)] = TerminalEvent[run.status]
      BY DEF TerminalEvent
    <3>3. runs' = [runs EXCEPT ![r] = run]
      BY <2>2 DEF RecordFailure
    <3>4. QED
      BY <3>1, <3>2, <3>3
  <2>3. QED
    BY <2>1, <2>2
<1>3. PICK run \in [status : {"succeeded", "abstained", "failed"}, trace : Seq(TraceEvents), cost : Nat] :
        /\ runs' = [runs EXCEPT ![r] = run]
        /\ run.trace[Len(run.trace)] = TerminalEvent[run.status]
  BY <1>2
<1>4. /\ at' = [at EXCEPT ![r] = "done"]
      /\ UNCHANGED <<keys, feedback, paid>>
  BY DEF CompleteRun, RecordFailure
<1>5. usage' = usage \cup {UsageRow(r)} \/ (usage' = usage /\ paid[r] = 0)
  <2>1. paid[r] \in Nat
    BY DEF RetrievalInv, RetrievalTypeOK
  <2>2. usage' = usage \cup {UsageRow(r)} \/ usage' = usage \cup FailureUsage(r)
    BY DEF CompleteRun, RecordFailure
  <2>3. CASE paid[r] > 0
    BY <2>2, <2>3 DEF FailureUsage
  <2>4. CASE ~(paid[r] > 0)
    <3>1. paid[r] = 0
      BY <2>1, <2>4
    <3>2. usage \cup FailureUsage(r) = usage
      BY <2>4 DEF FailureUsage
    <3>3. QED
      BY <2>2, <3>1, <3>2
  <2>5. QED
    BY <2>3, <2>4
<1>6. UsageRow(r).run = r /\ UsageRow(r).cost = paid[r]
  BY DEF UsageRow
<1>7. \A q \in Requests : /\ q # r => runs'[q] = runs[q]
                          /\ q = r => runs'[q] = run
  BY <1>3 DEF RetrievalInv, RetrievalTypeOK
<1>8. \A q \in Requests : Finished(q)' <=> Finished(q) \/ q = r
  BY <1>7 DEF Finished
<1>9. RetrievalTypeOK'
  BY <1>3, <1>4, <1>5, <1>6 DEF RetrievalInv, RetrievalTypeOK
<1>10. RunsFollowRequests'
  BY <1>4, <1>7 DEF RetrievalInv, RetrievalTypeOK, RunsFollowRequests, BeforeRun, InPipeline
<1>11. KeysRecordEffects'
  BY <1>1, <1>4, <1>7 DEF RetrievalInv, KeysRecordEffects
<1>12. TracesEndWithStatus'
  BY <1>3, <1>7, <1>8 DEF RetrievalInv, TracesEndWithStatus
<1>13. UsageFollowsRuns'
  <2>1. \A u \in usage : u.run # r
    BY <1>1 DEF RetrievalInv, UsageFollowsRuns
  <2>2. \A u \in usage : u.run \in Requests
    BY DEF RetrievalInv, RetrievalTypeOK
  <2>3. QED
    BY <1>4, <1>5, <1>6, <1>8, <2>1, <2>2 DEF RetrievalInv, UsageFollowsRuns
<1>14. QED
  BY <1>9, <1>10, <1>11, <1>12, <1>13 DEF RetrievalInv

(* An effect and its key are committed together, and only while the key is *)
(* free (_idempotent_store under its primary key).                         *)
LEMMA StoreInv ==
  ASSUME RetrievalInv, NEW r \in Requests, Admit(r) \/ PostFeedback(r)
  PROVE  RetrievalInv'
<1>1. CASE Admit(r)
  <2>1. /\ at[r] \in BeforeRun /\ runs[r].status = "absent"
        /\ Stored(r) = {} /\ keys' = keys \cup {KeyRow(r)}
        /\ UNCHANGED <<usage, feedback, paid>>
        /\ at' = [at EXCEPT ![r] = "queued"]
        /\ runs' = [runs EXCEPT ![r] = [runs[r] EXCEPT !.status = "queued"]]
    BY <1>1 DEF Admit, KeyFree, KeyRow, RetrievalInv, RunsFollowRequests, BeforeRun
  <2>2. \A q \in Requests : /\ q # r => runs'[q] = runs[q]
                            /\ q = r => runs'[q].status = "queued"
    BY <2>1 DEF RetrievalInv, RetrievalTypeOK
  <2>3. \A q \in Requests : /\ Finished(q)' <=> Finished(q)
                            /\ Finished(q) => runs'[q] = runs[q]
    BY <2>1, <2>2 DEF Finished
  <2>4. RetrievalTypeOK'
    BY <2>1 DEF RetrievalInv, RetrievalTypeOK, InPipeline
  <2>5. RunsFollowRequests'
    BY <2>1, <2>2 DEF RetrievalInv, RetrievalTypeOK, RunsFollowRequests, BeforeRun, InPipeline
  <2>6. KeysRecordEffects'
    BY <2>1, <2>2 DEF RetrievalInv, KeysRecordEffects, Stored, KeyRow
  <2>7. UsageFollowsRuns'
    BY <2>1, <2>3 DEF RetrievalInv, RetrievalTypeOK, UsageFollowsRuns
  <2>8. TracesEndWithStatus'
    BY <2>3 DEF RetrievalInv, TracesEndWithStatus
  <2>9. QED
    BY <2>4, <2>5, <2>6, <2>7, <2>8 DEF RetrievalInv
<1>2. CASE PostFeedback(r)
  <2>1. /\ at[r] = "posting" /\ at' = [at EXCEPT ![r] = "done"]
        /\ UNCHANGED <<runs, usage, paid>>
    BY <1>2 DEF PostFeedback
  <2>2. CASE UNCHANGED <<feedback, keys>>
    BY <2>1, <2>2, RequestMoves DEF BeforeRun, InPipeline
  <2>3. CASE Stored(r) = {} /\ feedback' = feedback \cup {r} /\ keys' = keys \cup {KeyRow(r)}
    <3>1. RetrievalTypeOK'
      BY <2>1, <2>3 DEF RetrievalInv, RetrievalTypeOK
    <3>2. RunsFollowRequests'
      BY <2>1 DEF RetrievalInv, RetrievalTypeOK, RunsFollowRequests, BeforeRun, InPipeline
    <3>3. KeysRecordEffects'
      BY <2>1, <2>3 DEF RetrievalInv, KeysRecordEffects, Stored, KeyRow
    <3>4. UsageFollowsRuns' /\ TracesEndWithStatus'
      BY <2>1 DEF RetrievalInv, UsageFollowsRuns, TracesEndWithStatus, Finished
    <3>5. QED
      BY <3>1, <3>2, <3>3, <3>4 DEF RetrievalInv
  <2>4. QED
    BY <1>2, <2>2, <2>3 DEF PostFeedback, KeyFree, KeyRow
<1>3. QED
  BY <1>1, <1>2

(* The invariant holds throughout.                                         *)
LEMMA RetrievalSpecInv == RetrievalSpec => []RetrievalInv
<1>1. RetrievalInit => RetrievalInv
  BY DEF RetrievalInit, RetrievalInv, RetrievalTypeOK, KeysRecordEffects, RunsFollowRequests,
         UsageFollowsRuns, TracesEndWithStatus, BeforeRun, InPipeline, Absent, Finished
<1>2. RetrievalInv /\ [RetrievalNext]_retrievalVars => RetrievalInv'
  <2> SUFFICES ASSUME RetrievalInv, [RetrievalNext]_retrievalVars PROVE RetrievalInv'
    OBVIOUS
  <2>1. CASE Midnight \/ UNCHANGED retrievalVars
    BY <2>1
    DEF Midnight, retrievalVars, RetrievalInv, RetrievalTypeOK, KeysRecordEffects,
        RunsFollowRequests, UsageFollowsRuns, TracesEndWithStatus, Finished
  <2>2. QED
    BY <2>1, QuietRequestInv, AdvanceInv, FinishInv, StoreInv DEF RetrievalNext
<1>3. QED
  BY <1>1, <1>2, PTL DEF RetrievalSpec

(* One idempotency key has one effect, and a finished run one bill, for    *)
(* any number of users, requests and keys and whatever fails or crashes    *)
(* between two commits (_idempotent_store, _run_pipeline_or_fail).         *)
THEOREM RetrievalSpecOneEffectOneBill == RetrievalSpec => []OneEffectOneBill
BY RetrievalSpecInv, RetrievalInvSuffices, PTL

(* ------------------------- spending ceilings ----------------------------- *)
\* What each run of a table counts against a ceiling.
CountsOf(rs) == [r \in Requests |-> IF rs[r].status = "queued" THEN Reserve
                                    ELSE Min({rs[r].cost, Reserve})]

\* The runs that count for a user's day and for the organisation's month.
DayRuns(c, rs, us, d) ==
  {r \in Requests : Caller[r] = c /\ (rs[r].status = "queued" \/ \E u \in us : u.run = r /\ u.day = d)}
MonthRuns(rs, us, d) ==
  {r \in Requests : rs[r].status = "queued" \/ \E u \in us : u.run = r /\ Month(u.day) = Month(d)}

\* What counts, and what will be set aside on top of it, is within both limits.
Room(c, more, rs, us, d) ==
  /\ Total(CountsOf(rs), DayRuns(c, rs, us, d)) + more <= UserLimit
  /\ Total(CountsOf(rs), MonthRuns(rs, us, d)) + more <= OrgLimit

\* Only the holder of the advisory lock is being admitted.
AdmissionIsLocked == \A r \in Requests : at[r] \in {"locked", "admissible"} => budgetLock = r

\* The ledger: finitely many rows, of the past, that say what their run cost.
LedgerIsOfRuns ==
  /\ IsFiniteSet(usage) /\ today \in Nat
  /\ \A u \in usage : /\ u.user = Caller[u.run] /\ u.cost = runs[u.run].cost
                      /\ u.day \in Nat /\ u.day <= today

\* The limits hold for every caller, and whoever was told that there is room
\* still has it when it inserts its run.
CeilingInv ==
  /\ AdmissionIsLocked /\ LedgerIsOfRuns
  /\ \A r \in Requests : Room(Caller[r], 0, runs, usage, today)
  /\ \A r \in Requests : at[r] = "admissible" => Room(Caller[r], Reserve, runs, usage, today)

(* Min of two naturals.                                                     *)
LEMMA MinOfTwo ==
  ASSUME NEW a \in Nat, NEW b \in Nat
  PROVE  Min({a, b}) \in Nat /\ Min({a, b}) <= a /\ Min({a, b}) <= b
<1>1. \E x \in {a, b} : \A y \in {a, b} : x <= y
  OBVIOUS
<1> QED BY <1>1, Zenon DEF Min

(* What a run counts is a natural, at most the reserve.                      *)
LEMMA CountsType ==
  ASSUME RetrievalTypeOK
  PROVE  /\ CountsOf(runs) \in [Requests -> Nat]
         /\ \A r \in Requests : /\ CountsOf(runs)[r] = Counted(r)
                                /\ CountsOf(runs)[r] <= Reserve
                                /\ ~Pending(r) => CountsOf(runs)[r] <= runs[r].cost
<1>1. \A r \in Requests : runs[r].cost \in Nat /\ Reserve \in Nat
  BY RetrievalAssumption DEF RetrievalTypeOK
<1>2. \A r \in Requests : /\ Min({runs[r].cost, Reserve}) \in Nat
                          /\ Min({runs[r].cost, Reserve}) <= runs[r].cost
                          /\ Min({runs[r].cost, Reserve}) <= Reserve
  BY <1>1, MinOfTwo
<1>3. \A r \in Requests : CountsOf(runs)[r] = IF runs[r].status = "queued" THEN Reserve
                                              ELSE Min({runs[r].cost, Reserve})
  BY DEF CountsOf
<1>4. \A r \in Requests : CountsOf(runs)[r] \in Nat
  BY <1>1, <1>2, <1>3
<1>5. CountsOf(runs) \in [Requests -> Nat]
  <2>1. CountsOf(runs) = [r \in Requests |-> CountsOf(runs)[r]]
    BY DEF CountsOf
  <2> QED BY <1>4, <2>1
<1> QED BY <1>1, <1>2, <1>3, <1>5 DEF Counted, Pending

(* The property's sum of what runs count is the invariant's.                *)
LEMMA CountedTotal ==
  ASSUME RetrievalTypeOK, NEW S \in SUBSET Requests
  PROVE  MapThenSumSet(Counted, S) = Total(CountsOf(runs), S)
<1> DEFINE pick(s) == CHOOSE x \in s : TRUE
           P(g) == g = [s \in SUBSET S |-> IF s = {} THEN 0
                                           ELSE Counted(pick(s)) + g[s \ {pick(s)}]]
<1>1. MapThenSumSet(Counted, S) = (CHOOSE g : P(g))[S]
  BY Zenon DEF MapThenSumSet, MapThenFoldSet
<1>2. \A s \in SUBSET S : s # {} => pick(s) \in Requests
  OBVIOUS
<1> HIDE DEF pick
<1>3. \A s \in SUBSET S : s # {} => Counted(pick(s)) = CountsOf(runs)[pick(s)]
  BY <1>2, CountsType
<1>4. \A g : P(g) <=> g = [s \in SUBSET S |-> IF s = {} THEN 0
                             ELSE CountsOf(runs)[pick(s)] + g[s \ {pick(s)}]]
  BY <1>3
<1>5. \A g : P(g) <=> IsSum(g, CountsOf(runs), S)
  BY <1>4 DEF IsSum, pick
<1> HIDE DEF P
<1>6. IsFiniteSet(S)
  BY RetrievalAssumption, FS_Subset
<1>7. PICK h : IsSum(h, CountsOf(runs), S)
  BY RetrievalAssumption, CountsType, TotalFacts
<1>8. PICK k : k = CHOOSE g : P(g)
  OBVIOUS
<1>9. IsSum(k, CountsOf(runs), S)
  BY <1>5, <1>7, <1>8, Zenon
<1> QED BY <1>1, <1>8, <1>9, RetrievalAssumption, CountsType, TotalIs

\* What each row of the ledger says.
CostsOf(us) == [u \in us |-> u.cost]

(* The bills of a set of ledger rows, as the model adds them up.             *)
LEMMA ActualTotal ==
  ASSUME RetrievalTypeOK, LedgerIsOfRuns, NEW S \in SUBSET usage
  PROVE  CostsOf(usage) \in [usage -> Nat] /\ Actual(S) = Total(CostsOf(usage), S)
<1> DEFINE pick(s) == CHOOSE x \in s : TRUE
           P(g) == g = [s \in SUBSET S |-> IF s = {} THEN 0
                                           ELSE pick(s).cost + g[s \ {pick(s)}]]
<1>0. CostsOf(usage) \in [usage -> Nat] /\ \A u \in usage : CostsOf(usage)[u] = u.cost
  BY DEF CostsOf, LedgerIsOfRuns, RetrievalTypeOK
<1>1. Actual(S) = (CHOOSE g : P(g))[S]
  BY Zenon DEF Actual, MapThenSumSet, MapThenFoldSet
<1>2. \A s \in SUBSET S : s # {} => pick(s) \in usage
  OBVIOUS
<1> HIDE DEF pick
<1>3. \A s \in SUBSET S : s # {} => pick(s).cost = CostsOf(usage)[pick(s)]
  BY <1>0, <1>2
<1>4. \A g : P(g) <=> g = [s \in SUBSET S |-> IF s = {} THEN 0
                             ELSE CostsOf(usage)[pick(s)] + g[s \ {pick(s)}]]
  BY <1>3
<1>5. \A g : P(g) <=> IsSum(g, CostsOf(usage), S)
  BY <1>4 DEF IsSum, pick
<1> HIDE DEF P
<1>6. IsFiniteSet(usage)
  BY DEF LedgerIsOfRuns
<1>7. PICK h : IsSum(h, CostsOf(usage), S)
  BY <1>0, <1>6, TotalFacts
<1>8. PICK k : k = CHOOSE g : P(g)
  OBVIOUS
<1>9. IsSum(k, CostsOf(usage), S)
  BY <1>5, <1>7, <1>8, Zenon
<1> QED BY <1>0, <1>1, <1>6, <1>8, <1>9, TotalIs

(* One reserve more.                                                         *)
LEMMA OneMoreTime ==
  ASSUME NEW i \in Nat, NEW j \in Nat
  PROVE  i * j \in Int /\ i * (j + 1) = i * j + i
  OBVIOUS

(* What runs count is no more than what their rows say and what the unfinished *)
(* ones set aside.                                                             *)
LEMMA SpendCovers ==
  ASSUME RetrievalTypeOK, UsageFollowsRuns, LedgerIsOfRuns,
         NEW S \in SUBSET Requests, NEW R \in SUBSET usage,
         \A r \in S : Pending(r) \/ \E u \in R : u.run = r
  PROVE  Total(CountsOf(runs), S)
           <= Total(CostsOf(usage), {u \in R : u.run \in S})
                + Reserve * Cardinality({r \in S : Pending(r)})
<1> DEFINE rows(T) == {u \in R : u.run \in T}
           held(T) == {r \in T : Pending(r)}
<1>1. /\ IsFiniteSet(Requests) /\ IsFiniteSet(usage) /\ Reserve \in Nat
      /\ CountsOf(runs) \in [Requests -> Nat] /\ CostsOf(usage) \in [usage -> Nat]
  BY RetrievalAssumption, CountsType, ActualTotal DEF LedgerIsOfRuns
<1>2. /\ \A T \in SUBSET Requests : Total(CountsOf(runs), T) \in Nat
      /\ \A T \in SUBSET Requests : \A x \in T :
           Total(CountsOf(runs), T) = CountsOf(runs)[x] + Total(CountsOf(runs), T \ {x})
      /\ Total(CountsOf(runs), {}) = 0
  BY <1>1, TotalFacts
<1>3. /\ \A T \in SUBSET usage : Total(CostsOf(usage), T) \in Nat
      /\ \A T \in SUBSET usage : \A x \in T :
           Total(CostsOf(usage), T) = CostsOf(usage)[x] + Total(CostsOf(usage), T \ {x})
      /\ Total(CostsOf(usage), {}) = 0
  BY <1>1, TotalFacts
<1>4. PICK Q : Q = {T \in SUBSET S : Total(CountsOf(runs), T)
                       <= Total(CostsOf(usage), rows(T)) + Reserve * Cardinality(held(T))}
  OBVIOUS
<1>5. IsFiniteSet(S)
  BY <1>1, FS_Subset
<1>6. {} \in Q
  <2>1. rows({}) = {} /\ held({}) = {} /\ {} \in SUBSET S
    OBVIOUS
  <2>2. Cardinality({}) = 0 /\ Reserve * 0 = 0
    BY <1>1, FS_EmptySet
  <2>3. Total(CountsOf(runs), {}) <= Total(CostsOf(usage), {}) + Reserve * Cardinality({})
    BY <1>2, <1>3, <2>2
  <2> QED BY <1>4, <2>1, <2>3
<1>7. ASSUME NEW T \in SUBSET S, T # {}, \A x \in T : T \ {x} \in Q PROVE T \in Q
  <2>1. PICK x \in T : TRUE
    BY <1>7
  <2>2. x \in Requests /\ T \in SUBSET Requests /\ T \ {x} \in SUBSET Requests
    OBVIOUS
  <2>3. PICK a \in Nat, b \in Nat, n \in Nat, A \in Nat :
           /\ a = Total(CountsOf(runs), T \ {x}) /\ b = Total(CostsOf(usage), rows(T \ {x}))
           /\ n = Cardinality(held(T \ {x})) /\ A = CountsOf(runs)[x]
    <3>1. rows(T \ {x}) \in SUBSET usage /\ held(T \ {x}) \in SUBSET Requests
      BY <2>2
    <3>2. Cardinality(held(T \ {x})) \in Nat
      BY <1>1, <3>1, FS_Subset, FS_CardinalityType
    <3> QED BY <1>1, <1>2, <1>3, <2>2, <3>1, <3>2
  <2>4. a <= b + Reserve * n
    <3>1. T \ {x} \in Q
      BY <1>7
    <3> QED BY <1>4, <2>3, <3>1
  <2>5. Total(CountsOf(runs), T) = A + a
    BY <1>2, <2>2, <2>3
  <2>6. CASE Pending(x)
    <3>1. A <= Reserve
      BY <2>2, <2>3, CountsType
    <3>2. Cardinality(held(T)) = n + 1
      <4>1. held(T) = held(T \ {x}) \cup {x} /\ x \notin held(T \ {x})
        BY <2>6
      <4>2. IsFiniteSet(held(T \ {x}))
        BY <1>1, <2>2, FS_Subset
      <4> HIDE DEF held
      <4> QED BY <2>3, <4>1, <4>2, FS_AddElement
    <3>3. rows(T) = rows(T \ {x})
      <4>1. \A u \in R : u.run # x
        BY <2>2, <2>6 DEF UsageFollowsRuns, Finished, Pending
      <4> QED BY <4>1
    <3>4. Reserve * (n + 1) = Reserve * n + Reserve
      BY <1>1, <2>3, OneMoreTime
    <3>5. PICK p \in Int : p = Reserve * n
      BY <1>1, <2>3, OneMoreTime
    <3>6. A + a <= b + (p + Reserve)
      BY <1>1, <2>3, <2>4, <3>1, <3>5
    <3>7. Total(CountsOf(runs), T)
            <= Total(CostsOf(usage), rows(T)) + Reserve * Cardinality(held(T))
      BY <2>3, <2>5, <3>2, <3>3, <3>4, <3>5, <3>6
    <3> QED BY <1>4, <3>7
  <2>7. CASE ~Pending(x)
    <3>1. PICK u \in R : u.run = x
      BY <2>2, <2>7
    <3>2. A <= CostsOf(usage)[u] /\ CostsOf(usage)[u] \in Nat
      BY <1>1, <2>2, <2>3, <2>7, <3>1, CountsType DEF LedgerIsOfRuns, CostsOf
    <3>3. rows(T) \in SUBSET usage /\ u \in rows(T) /\ rows(T) \ {u} = rows(T \ {x})
      <4>1. \A w \in R : w.run = x => w = u
        BY <3>1 DEF UsageFollowsRuns
      <4> QED BY <3>1, <4>1
    <3>4. Total(CostsOf(usage), rows(T)) = CostsOf(usage)[u] + b
      BY <1>3, <2>3, <3>3
    <3>5. held(T) = held(T \ {x})
      BY <2>7
    <3>6. PICK p \in Int : p = Reserve * n
      BY <1>1, <2>3, OneMoreTime
    <3>7. A + a <= (CostsOf(usage)[u] + b) + p
      BY <2>3, <2>4, <3>2, <3>6
    <3>8. Total(CountsOf(runs), T)
            <= Total(CostsOf(usage), rows(T)) + Reserve * Cardinality(held(T))
      BY <2>3, <2>5, <3>4, <3>5, <3>6, <3>7
    <3> QED BY <1>4, <3>8
  <2> QED BY <2>6, <2>7
<1>8. \A T \in SUBSET S : T \in Q
  BY <1>5, <1>6, <1>7, SubsetSteps
<1> QED BY <1>4, <1>8

(* The invariant is about the sums that CeilingsHold is about.              *)
LEMMA CeilingInvSuffices == RetrievalTypeOK /\ CeilingInv => CeilingsHold
<1> SUFFICES ASSUME RetrievalTypeOK, CeilingInv PROVE CeilingsHold
  OBVIOUS
<1> DEFINE billed == {u.run : u \in {v \in usage : v.day = today}}
           month  == {u.run : u \in {v \in usage : Month(v.day) = Month(today)}}
<1>0. UserLimit \in Nat /\ OrgLimit \in Nat
  BY RetrievalAssumption
<1>1. ASSUME NEW q \in Requests
      PROVE  MapThenSumSet(Counted, {r \in Requests : Caller[r] = Caller[q] /\ (Pending(r) \/ r \in billed)})
               <= UserLimit
  <2>1. {r \in Requests : Caller[r] = Caller[q] /\ (Pending(r) \/ r \in billed)}
          = DayRuns(Caller[q], runs, usage, today)
    BY DEF DayRuns, Pending
  <2>2. PICK S \in SUBSET Requests : S = DayRuns(Caller[q], runs, usage, today)
    BY DEF DayRuns
  <2>3. Total(CountsOf(runs), S) \in Nat
    BY RetrievalAssumption, CountsType, TotalFacts
  <2>4. Total(CountsOf(runs), S) <= UserLimit
    BY <1>0, <2>2, <2>3 DEF CeilingInv, Room
  <2>5. MapThenSumSet(Counted, S) = Total(CountsOf(runs), S)
    BY CountedTotal
  <2> QED BY <2>1, <2>2, <2>4, <2>5
<1>2. ASSUME NEW q \in Requests
      PROVE MapThenSumSet(Counted, {r \in Requests : Pending(r) \/ r \in month}) <= OrgLimit
  <2>1. {r \in Requests : Pending(r) \/ r \in month} = MonthRuns(runs, usage, today)
    BY DEF MonthRuns, Pending
  <2>2. PICK S \in SUBSET Requests : S = MonthRuns(runs, usage, today)
    BY DEF MonthRuns
  <2>3. Total(CountsOf(runs), S) \in Nat
    BY RetrievalAssumption, CountsType, TotalFacts
  <2>4. Total(CountsOf(runs), S) <= OrgLimit
    BY <1>0, <2>2, <2>3 DEF CeilingInv, Room
  <2>5. MapThenSumSet(Counted, S) = Total(CountsOf(runs), S)
    BY CountedTotal
  <2> QED BY <2>1, <2>2, <2>4, <2>5
<1>3. ASSUME Requests = {}
      PROVE  MapThenSumSet(Counted, {r \in Requests : Pending(r) \/ r \in month}) <= OrgLimit
  <2>1. PICK S \in SUBSET Requests : S = {r \in Requests : Pending(r) \/ r \in month}
    OBVIOUS
  <2>2. S = {}
    BY <1>3
  <2>3. MapThenSumSet(Counted, S) = Total(CountsOf(runs), S)
    BY CountedTotal
  <2>4. Total(CountsOf(runs), {}) = 0
    BY RetrievalAssumption, CountsType, TotalFacts
  <2>5. MapThenSumSet(Counted, S) <= OrgLimit
    BY <1>0, <2>2, <2>3, <2>4
  <2> QED BY <2>1, <2>5
<1>4. MapThenSumSet(Counted, {r \in Requests : Pending(r) \/ r \in month}) <= OrgLimit
  <2>1. CASE Requests = {}
    BY <1>3, <2>1
  <2>2. CASE Requests # {}
    <3>1. PICK q \in Requests : TRUE
      BY <2>2
    <3> QED BY <1>2
  <2> QED BY <2>1, <2>2
<1>5. ASSUME NEW c \in {Caller[r] : r \in Requests}
      PROVE  MapThenSumSet(Counted, {r \in Requests : Caller[r] = c /\ (Pending(r) \/ r \in billed)})
               <= UserLimit
  <2>1. PICK q \in Requests : c = Caller[q]
    OBVIOUS
  <2> QED BY <1>1, <2>1
<1> QED BY <1>4, <1>5 DEF CeilingsHold

(* Whatever the ceilings let through leaves room for one more reservation   *)
(* (spend_snapshot, enforce_ceilings).                                      *)
LEMMA CeilingsLeaveRoom ==
  ASSUME RetrievalInv, LedgerIsOfRuns, NEW q \in Requests, WithinCeilings(q)
  PROVE  Room(Caller[q], Reserve, runs, usage, today)
<1>0. RetrievalTypeOK /\ UsageFollowsRuns /\ Reserve \in Nat /\ UserLimit \in Nat /\ OrgLimit \in Nat
  BY RetrievalAssumption DEF RetrievalInv
<1>1. IsFiniteSet(Requests) /\ IsFiniteSet(usage)
  BY RetrievalAssumption DEF LedgerIsOfRuns
<1>2. ASSUME NEW S \in SUBSET Requests, NEW R \in SUBSET usage, NEW H \in SUBSET Requests,
             \A r \in S : Pending(r) \/ \E u \in R : u.run = r,
             {u \in R : u.run \in S} = R, {r \in S : Pending(r)} = {r \in H : Pending(r)},
             NEW L \in Nat, Actual(R) + Reserved(H) + Reserve <= L
      PROVE  Total(CountsOf(runs), S) + Reserve <= L
  <2>1. Actual(R) = Total(CostsOf(usage), R) /\ CostsOf(usage) \in [usage -> Nat]
    BY <1>0, ActualTotal
  <2>2. Total(CountsOf(runs), S)
           <= Total(CostsOf(usage), {u \in R : u.run \in S})
                + Reserve * Cardinality({r \in S : Pending(r)})
    BY <1>0, <1>2, SpendCovers
  <2>3. PICK p : p = Reserve * Cardinality({r \in H : Pending(r)})
    OBVIOUS
  <2>4. Reserved(H) = p
    BY <2>3 DEF Reserved
  <2>5. p \in Int
    <3>1. {r \in H : Pending(r)} \in SUBSET Requests
      OBVIOUS
    <3>2. Cardinality({r \in H : Pending(r)}) \in Nat
      BY <1>1, <3>1, FS_Subset, FS_CardinalityType
    <3> QED BY <1>0, <2>3, <3>2, OneMoreTime
  <2>6. Total(CountsOf(runs), S) <= Total(CostsOf(usage), R) + p
    BY <1>2, <2>2, <2>3
  <2>7. Total(CountsOf(runs), S) \in Nat /\ Total(CostsOf(usage), R) \in Nat
    BY <1>0, <1>1, <2>1, CountsType, TotalFacts
  <2>8. Total(CostsOf(usage), R) + p + Reserve <= L
    BY <1>2, <2>1, <2>4
  <2> QED BY <1>0, <2>5, <2>6, <2>7, <2>8
<1>3. Total(CountsOf(runs), DayRuns(Caller[q], runs, usage, today)) + Reserve <= UserLimit
  <2>1. PICK S, R, H : /\ S = DayRuns(Caller[q], runs, usage, today)
                       /\ R = {u \in usage : u.user = Caller[q] /\ u.day = today}
                       /\ H = {r \in Requests : Caller[r] = Caller[q]}
    OBVIOUS
  <2>2. S \in SUBSET Requests /\ R \in SUBSET usage /\ H \in SUBSET Requests
    BY <2>1 DEF DayRuns
  <2>3. /\ \A r \in S : Pending(r) \/ \E u \in R : u.run = r
        /\ {r \in S : Pending(r)} = {r \in H : Pending(r)}
    BY <2>1 DEF DayRuns, Pending, LedgerIsOfRuns
  <2>4. {u \in R : u.run \in S} = R
    BY <1>0, <2>1 DEF DayRuns, LedgerIsOfRuns, RetrievalTypeOK
  <2>5. Actual(R) + Reserved(H) + Reserve <= UserLimit
    BY <2>1 DEF WithinCeilings, UserDay
  <2> QED BY <1>0, <1>2, <2>1, <2>2, <2>3, <2>4, <2>5
<1>4. Total(CountsOf(runs), MonthRuns(runs, usage, today)) + Reserve <= OrgLimit
  <2>1. PICK S, R : /\ S = MonthRuns(runs, usage, today)
                    /\ R = {u \in usage : Month(u.day) = Month(today)}
    OBVIOUS
  <2>2. S \in SUBSET Requests /\ R \in SUBSET usage /\ Requests \in SUBSET Requests
    BY <2>1 DEF MonthRuns
  <2>3. /\ \A r \in S : Pending(r) \/ \E u \in R : u.run = r
        /\ {r \in S : Pending(r)} = {r \in Requests : Pending(r)}
    BY <2>1 DEF MonthRuns, Pending
  <2>4. {u \in R : u.run \in S} = R
    BY <1>0, <2>1 DEF MonthRuns, RetrievalTypeOK
  <2>5. Actual(R) + Reserved(Requests) + Reserve <= OrgLimit
    BY <2>1 DEF WithinCeilings, OrgMonth
  <2> QED BY <1>0, <1>2, <2>1, <2>2, <2>3, <2>4, <2>5
<1> QED BY <1>3, <1>4 DEF Room

(* A step that makes no run count for more and no further run count keeps   *)
(* whatever room there was.                                                 *)
LEMMA RoomStays ==
  ASSUME RetrievalTypeOK, RetrievalTypeOK', NEW q \in Requests, NEW more \in Nat,
         Room(Caller[q], more, runs, usage, today),
         \A r \in Requests : CountsOf(runs')[r] <= CountsOf(runs)[r],
         DayRuns(Caller[q], runs', usage', today') \subseteq DayRuns(Caller[q], runs, usage, today),
         MonthRuns(runs', usage', today') \subseteq MonthRuns(runs, usage, today)
  PROVE  Room(Caller[q], more, runs', usage', today')
<1>1. IsFiniteSet(Requests) /\ UserLimit \in Nat /\ OrgLimit \in Nat
  BY RetrievalAssumption
<1>2. CountsOf(runs) \in [Requests -> Nat]
  BY CountsType
<1>3. CountsOf(runs') \in [Requests -> Nat]
  <2>1. ASSUME NEW r \in Requests PROVE CountsOf(runs')[r] \in Nat
    <3>1. runs'[r].cost \in Nat /\ Reserve \in Nat
      BY RetrievalAssumption DEF RetrievalTypeOK
    <3>2. Min({runs'[r].cost, Reserve}) \in Nat
      BY <3>1, MinOfTwo
    <3> QED BY <3>1, <3>2 DEF CountsOf
  <2>2. CountsOf(runs') = [r \in Requests |-> CountsOf(runs')[r]]
    BY DEF CountsOf
  <2> QED BY <2>1, <2>2
<1>4. ASSUME NEW S \in SUBSET Requests, NEW T \in SUBSET S, NEW L \in Nat,
             Total(CountsOf(runs), S) + more <= L
      PROVE  Total(CountsOf(runs'), T) + more <= L
  <2>1. Total(CountsOf(runs'), T) <= Total(CountsOf(runs), S)
    BY <1>1, <1>2, <1>3, TotalGrows
  <2>2. Total(CountsOf(runs'), T) \in Nat /\ Total(CountsOf(runs), S) \in Nat
    BY <1>1, <1>2, <1>3, TotalFacts
  <2> QED BY <1>4, <2>1, <2>2
<1>5. /\ DayRuns(Caller[q], runs, usage, today) \in SUBSET Requests
      /\ MonthRuns(runs, usage, today) \in SUBSET Requests
  BY DEF DayRuns, MonthRuns
<1> QED BY <1>1, <1>4, <1>5 DEF Room

(* Nothing that counts changes when a request only moves.                   *)
LEMMA CeilingUnchanged ==
  ASSUME RetrievalInv, CeilingInv, UNCHANGED <<runs, usage, today>>,
         \A r \in Requests : at'[r] \in {"locked", "admissible"} => budgetLock' = r,
         \A r \in Requests : at'[r] = "admissible" =>
           at[r] = "admissible" \/ WithinCeilings(r)
  PROVE  CeilingInv'
<1>1. AdmissionIsLocked' /\ LedgerIsOfRuns'
  BY DEF CeilingInv, AdmissionIsLocked, LedgerIsOfRuns
<1>2. \A r \in Requests : WithinCeilings(r) => Room(Caller[r], Reserve, runs, usage, today)
  BY CeilingsLeaveRoom DEF CeilingInv
<1> QED BY <1>1, <1>2 DEF CeilingInv

(* The steps of a request up to its admission.                              *)
LEMMA CeilingRequest ==
  ASSUME RetrievalInv, CeilingInv, NEW r \in Requests,
         \/ LockQueryBudget(r) \/ ReadSpend(r) \/ Reject(r) \/ Advance(r) \/ IllegalScale(r)
         \/ Raise(r) \/ LoseFailure(r) \/ LookUpFeedback(r) \/ PostFeedback(r) \/ CrashApi(r)
  PROVE  CeilingInv'
<1>0. at \in [Requests -> BeforeRun \cup InPipeline \cup {"done"}] /\ r # Nobody
  BY RetrievalAssumption DEF RetrievalInv, RetrievalTypeOK
<1>1. \A q \in Requests : at[q] \in {"locked", "admissible"} => budgetLock = q
  BY DEF CeilingInv, AdmissionIsLocked
<1>2. CASE LockQueryBudget(r)
  BY <1>0, <1>1, <1>2, CeilingUnchanged, RetrievalAssumption DEF LockQueryBudget, MayAdmit
<1>3. CASE ReadSpend(r)
  <2>1. /\ UNCHANGED <<runs, usage, today>> /\ at[r] = "locked"
        /\ \/ WithinCeilings(r) /\ at' = [at EXCEPT ![r] = "admissible"] /\ budgetLock' = budgetLock
           \/ at' = [at EXCEPT ![r] = "done"]  /\ budgetLock' = Unlocked(r)
    BY <1>3 DEF ReadSpend
  <2> QED BY <1>0, <1>1, <2>1, CeilingUnchanged DEF Unlocked
<1>4. CASE Reject(r) \/ CrashApi(r)
  <2>1. /\ UNCHANGED <<runs, usage, today>>
        /\ at' = [at EXCEPT ![r] = "done"] /\ budgetLock' = Unlocked(r)
    BY <1>4 DEF Reject, CrashApi
  <2> QED BY <1>0, <1>1, <2>1, CeilingUnchanged DEF Unlocked
<1>5. CASE Advance(r)
  <2>1. /\ UNCHANGED <<runs, usage, today, budgetLock>>
        /\ \E s \in {"planning", "retrieving", "fusing", "generating", "verifying"} :
             at' = [at EXCEPT ![r] = s]
    BY <1>5, StagesFollow DEF Advance
  <2> QED BY <1>0, <1>1, <2>1, CeilingUnchanged
<1>6. CASE IllegalScale(r) \/ Raise(r) \/ LoseFailure(r) \/ LookUpFeedback(r) \/ PostFeedback(r)
  <2>1. /\ UNCHANGED <<runs, usage, today, budgetLock>>
        /\ \E s \in {"failing", "done", "posting"} : at' = [at EXCEPT ![r] = s]
    BY <1>6 DEF IllegalScale, Raise, LoseFailure, LookUpFeedback, PostFeedback
  <2> QED BY <1>0, <1>1, <2>1, CeilingUnchanged
<1> QED BY <1>2, <1>3, <1>4, <1>5, <1>6

(* An admission uses the room it was told of.                               *)
LEMMA CeilingAdmit ==
  ASSUME RetrievalInv, RetrievalInv', CeilingInv, NEW r \in Requests, Admit(r)
  PROVE  CeilingInv'
<1>0. /\ at \in [Requests -> BeforeRun \cup InPipeline \cup {"done"}] /\ r # Nobody
      /\ at[r] = "admissible" /\ at' = [at EXCEPT ![r] = "queued"] /\ budgetLock' = Unlocked(r)
      /\ runs' = [runs EXCEPT ![r].status = "queued"] /\ usage' = usage /\ today' = today
      /\ runs[r].status = "absent"
      /\ IsFiniteSet(Requests) /\ Reserve \in Nat /\ UserLimit \in Nat /\ OrgLimit \in Nat
  BY RetrievalAssumption DEF RetrievalInv, RetrievalTypeOK, RunsFollowRequests, BeforeRun, Admit
<1>1. RetrievalTypeOK /\ RetrievalTypeOK'
  BY DEF RetrievalInv
<1>2. AdmissionIsLocked' /\ \A q \in Requests : at'[q] # "admissible"
  BY <1>0 DEF CeilingInv, AdmissionIsLocked, Unlocked
<1>3. LedgerIsOfRuns'
  <2>1. \A u \in usage : u.run \in Requests /\ runs'[u.run].cost = runs[u.run].cost
    BY <1>0, <1>1 DEF RetrievalTypeOK
  <2> QED BY <1>0, <2>1 DEF CeilingInv, LedgerIsOfRuns
<1>4. /\ CountsOf(runs) \in [Requests -> Nat] /\ CountsOf(runs') \in [Requests -> Nat]
      /\ CountsOf(runs')[r] = Reserve
      /\ \A q \in Requests \ {r} : CountsOf(runs')[q] = CountsOf(runs)[q]
  <2>1. CountsOf(runs) \in [Requests -> Nat]
    BY <1>1, CountsType
  <2>2. /\ runs'[r].status = "queued" 
        /\ \A q \in Requests \ {r} : runs'[q] = runs[q]
    BY <1>0, <1>1 DEF RetrievalTypeOK
  <2>3. CountsOf(runs')[r] = Reserve /\ \A q \in Requests \ {r} : CountsOf(runs')[q] = CountsOf(runs)[q]
    BY <2>2 DEF CountsOf
  <2>4. \A q \in Requests : CountsOf(runs')[q] \in Nat
    BY <1>0, <2>1, <2>3
  <2>5. CountsOf(runs') = [q \in Requests |-> CountsOf(runs')[q]]
    BY DEF CountsOf
  <2> QED BY <2>1, <2>3, <2>4, <2>5
<1>5. ASSUME NEW S \in SUBSET Requests, NEW T \in SUBSET Requests, NEW L \in Nat,
             r \notin S, T \subseteq S \cup {r}, Total(CountsOf(runs), S) + Reserve <= L
      PROVE  Total(CountsOf(runs'), T) + 0 <= L
  <2>1. PICK U \in SUBSET Requests : U = S \cup {r}
    OBVIOUS
  <2>2. Total(CountsOf(runs'), T) <= Total(CountsOf(runs'), U)
    <3>1. T \in SUBSET U /\ \A x \in T : CountsOf(runs')[x] <= CountsOf(runs')[x]
      BY <1>4, <1>5, <2>1
    <3> QED BY <1>0, <1>4, <3>1, TotalGrows
  <2>3. Total(CountsOf(runs'), U) = Reserve + Total(CountsOf(runs'), U \ {r})
    <3>1. r \in U /\ U \in SUBSET Requests
      BY <2>1
    <3>2. PICK F \in [Requests -> Nat] : F = CountsOf(runs') /\ F[r] = Reserve
      BY <1>4
    <3>3. Total(F, U) = F[r] + Total(F, U \ {r})
      BY <1>0, <3>1, TotalTakes
    <3> QED BY <3>2, <3>3
  <2>4. U \ {r} = S
    BY <1>5, <2>1
  <2>5. Total(CountsOf(runs'), S) <= Total(CountsOf(runs), S)
    <3>1. S \in SUBSET S /\ \A x \in S : CountsOf(runs')[x] <= CountsOf(runs)[x]
      BY <1>4, <1>5
    <3> QED BY <1>0, <1>4, <3>1, TotalGrows
  <2>6. /\ Total(CountsOf(runs'), T) \in Nat /\ Total(CountsOf(runs'), U) \in Nat
        /\ Total(CountsOf(runs'), S) \in Nat /\ Total(CountsOf(runs), S) \in Nat
    BY <1>0, <1>4, TotalFacts
  <2>7. PICK a \in Nat, b \in Nat, c \in Nat, d \in Nat :
           /\ a = Total(CountsOf(runs'), T) /\ b = Total(CountsOf(runs'), U)
           /\ c = Total(CountsOf(runs'), S) /\ d = Total(CountsOf(runs), S)
    BY <2>6
  <2>8. a <= b /\ b = Reserve + c /\ c <= d /\ d + Reserve <= L
    BY <1>5, <2>2, <2>3, <2>4, <2>5, <2>7
  <2>9. a + 0 <= L
    BY <1>0, <2>7, <2>8
  <2> QED BY <2>7, <2>9
<1>6. /\ \A u \in usage : u.run # r
      /\ Room(Caller[r], Reserve, runs, usage, today)
      /\ \A q \in Requests : Room(Caller[q], 0, runs, usage, today)
  BY <1>0 DEF RetrievalInv, UsageFollowsRuns, Finished, CeilingInv
<1>7. Total(CountsOf(runs'), MonthRuns(runs', usage', today')) + 0 <= OrgLimit
  <2>1. PICK S, T : S = MonthRuns(runs, usage, today) /\ T = MonthRuns(runs', usage', today')
    OBVIOUS
  <2>2. S \in SUBSET Requests /\ T \in SUBSET Requests
    BY <2>1 DEF MonthRuns
  <2>3. r \notin S /\ T \subseteq S \cup {r}
    BY <1>0, <1>1, <1>6, <2>1 DEF MonthRuns, RetrievalTypeOK
  <2>4. Total(CountsOf(runs), S) + Reserve <= OrgLimit
    BY <1>6, <2>1 DEF Room
  <2> QED BY <1>0, <1>5, <2>1, <2>2, <2>3, <2>4
<1>8. ASSUME NEW q \in Requests
      PROVE  Total(CountsOf(runs'), DayRuns(Caller[q], runs', usage', today')) + 0 <= UserLimit
  <2>1. PICK S, T : /\ S = DayRuns(Caller[q], runs, usage, today)
                    /\ T = DayRuns(Caller[q], runs', usage', today')
    OBVIOUS
  <2>2. S \in SUBSET Requests /\ T \in SUBSET Requests
    BY <2>1 DEF DayRuns
  <2>3. r \notin S /\ T \subseteq S \cup {r} /\ (Caller[q] # Caller[r] => T \subseteq S)
    BY <1>0, <1>1, <1>6, <2>1 DEF DayRuns, RetrievalTypeOK
  <2>4. CASE Caller[q] = Caller[r]
    <3>1. Total(CountsOf(runs), S) + Reserve <= UserLimit
      BY <1>6, <2>1, <2>4 DEF Room
    <3> QED BY <1>0, <1>5, <2>1, <2>2, <2>3, <3>1
  <2>5. CASE Caller[q] # Caller[r]
    <3>1. Total(CountsOf(runs), S) + 0 <= UserLimit
      BY <1>6, <2>1 DEF Room
    <3>2. T \in SUBSET S /\ \A x \in T : CountsOf(runs')[x] <= CountsOf(runs)[x]
      BY <1>4, <2>2, <2>3, <2>5
    <3>3. Total(CountsOf(runs'), T) <= Total(CountsOf(runs), S)
      BY <1>0, <1>4, <2>2, <3>2, TotalGrows
    <3>4. Total(CountsOf(runs'), T) \in Nat /\ Total(CountsOf(runs), S) \in Nat
      BY <1>0, <1>4, <2>2, TotalFacts
    <3> QED BY <1>0, <2>1, <3>1, <3>3, <3>4
  <2> QED BY <2>4, <2>5
<1>9. \A q \in Requests : Room(Caller[q], 0, runs', usage', today')
  BY <1>7, <1>8 DEF Room
<1> QED BY <1>2, <1>3, <1>9 DEF CeilingInv

(* The end of a run gives back its reservation and counts its bill, which is *)
(* no more (_run_pipeline_or_fail, _record_run_failure).                     *)
LEMMA CeilingFinish ==
  ASSUME RetrievalInv, RetrievalInv', CeilingInv, NEW r \in Requests,
         CompleteRun(r) \/ RecordFailure(r)
  PROVE  CeilingInv'
<1>0. /\ at \in [Requests -> BeforeRun \cup InPipeline \cup {"done"}]
      /\ at[r] \in {"verifying", "failing"} /\ at' = [at EXCEPT ![r] = "done"]
      /\ budgetLock' = budgetLock /\ today' = today
      /\ usage' \in {usage, usage \cup {UsageRow(r)}}
      /\ runs' = [runs EXCEPT ![r] = runs'[r]]
      /\ runs'[r].status # "queued" /\ runs'[r].cost = paid[r]
  <2>1. runs \in [Requests -> [status : {"absent", "queued", "succeeded", "abstained", "failed"},
                               trace : Seq(TraceEvents), cost : Nat]]
    BY DEF RetrievalInv, RetrievalTypeOK
  <2>2. CASE CompleteRun(r)
    <3>1. PICK out \in {[status |-> "succeeded", last |-> "run_completed"],
                        [status |-> "abstained", last |-> "run_abstained"]} :
            runs' = [runs EXCEPT ![r] = [status |-> out.status, cost |-> paid[r],
                                         trace |-> Append(FullTrace, out.last)]]
      BY <2>2 DEF CompleteRun
    <3>2. /\ runs' = [runs EXCEPT ![r] = runs'[r]] /\ runs'[r].status = out.status
          /\ runs'[r].cost = paid[r]
      BY <2>1, <3>1
    <3> QED BY <2>2, <3>2 DEF RetrievalInv, RetrievalTypeOK, CompleteRun
  <2>3. CASE RecordFailure(r)
    <3>1. /\ runs' = [runs EXCEPT ![r] = runs'[r]] /\ runs'[r].status = "failed"
          /\ runs'[r].cost = paid[r]
      BY <2>1, <2>3 DEF RecordFailure
    <3> QED BY <2>3, <3>1 DEF RetrievalInv, RetrievalTypeOK, RecordFailure, FailureUsage
  <2> QED BY <2>2, <2>3
<1>1. RetrievalTypeOK /\ RetrievalTypeOK' /\ runs[r].status = "queued"
  BY <1>0 DEF RetrievalInv, RunsFollowRequests, InPipeline
<1>2. /\ runs'[r].cost \in Nat /\ paid[r] \in Nat
      /\ \A q \in Requests \ {r} : runs'[q] = runs[q]
  BY <1>0, <1>1 DEF RetrievalTypeOK
<1>3. AdmissionIsLocked'
  BY <1>0 DEF CeilingInv, AdmissionIsLocked
<1>4. LedgerIsOfRuns'
  <2>1. IsFiniteSet(usage')
    BY <1>0, FS_AddElement DEF CeilingInv, LedgerIsOfRuns
  <2>2. ASSUME NEW u \in usage'
        PROVE  /\ u.user = Caller[u.run] /\ u.cost = runs'[u.run].cost
               /\ u.day \in Nat /\ u.day <= today
    <3>1. CASE u \in usage
      <4>1. u.run \in Requests /\ u.run # r
        BY <1>1, <3>1 DEF RetrievalInv, RetrievalTypeOK, UsageFollowsRuns, Finished
      <4> QED BY <1>2, <3>1, <4>1 DEF CeilingInv, LedgerIsOfRuns
    <3>2. CASE u = UsageRow(r)
      BY <1>0, <3>2 DEF CeilingInv, LedgerIsOfRuns, UsageRow
    <3> QED BY <1>0, <3>1, <3>2
  <2> QED BY <1>0, <2>1, <2>2 DEF CeilingInv, LedgerIsOfRuns
<1>5. \A q \in Requests : CountsOf(runs')[q] <= CountsOf(runs)[q]
  <2>1. Reserve \in Nat /\ CountsOf(runs) \in [Requests -> Nat]
    BY <1>1, CountsType, RetrievalAssumption
  <2>2. CountsOf(runs')[r] <= Reserve /\ CountsOf(runs)[r] = Reserve
    BY <1>0, <1>1, <1>2, <2>1, MinOfTwo DEF CountsOf
  <2>3. ASSUME NEW q \in Requests \ {r} PROVE CountsOf(runs')[q] = CountsOf(runs)[q]
    BY <1>2 DEF CountsOf
  <2>4. \A q \in Requests : CountsOf(runs)[q] \in Nat
    BY <2>1
  <2> QED BY <2>2, <2>3, <2>4
<1>6. /\ \A q \in Requests : DayRuns(Caller[q], runs', usage', today')
                               \subseteq DayRuns(Caller[q], runs, usage, today)
      /\ MonthRuns(runs', usage', today') \subseteq MonthRuns(runs, usage, today)
  <2>1. \A u \in usage' : u \in usage \/ u.run = r
    BY <1>0 DEF UsageRow
  <2> QED BY <1>0, <1>1, <1>2, <2>1 DEF DayRuns, MonthRuns
<1>7. \A q \in Requests : \A more \in Nat :
        Room(Caller[q], more, runs, usage, today) => Room(Caller[q], more, runs', usage', today')
  BY <1>1, <1>5, <1>6, RoomStays
<1>8. \A q \in Requests : at'[q] = "admissible" => at[q] = "admissible"
  BY <1>0
<1>9. 0 \in Nat /\ Reserve \in Nat
  BY RetrievalAssumption
<1> QED BY <1>3, <1>4, <1>7, <1>8, <1>9 DEF CeilingInv

(* At midnight a day's bills, and at the end of the month all of them, stop  *)
(* counting; no bill is of a day to come.                                    *)
LEMMA CeilingMidnight ==
  ASSUME RetrievalInv, RetrievalInv', CeilingInv, Midnight
  PROVE  CeilingInv'
<1>0. /\ today' = today + 1 /\ today \in Nat /\ MonthEnd \in Nat
      /\ at' = at /\ budgetLock' = budgetLock /\ runs' = runs /\ usage' = usage
      /\ \A u \in usage : u.day \in Nat /\ u.day <= today
  BY RetrievalAssumption DEF Midnight, CeilingInv, LedgerIsOfRuns
<1>1. RetrievalTypeOK /\ RetrievalTypeOK'
  BY DEF RetrievalInv
<1>2. AdmissionIsLocked' /\ LedgerIsOfRuns'
  BY <1>0 DEF CeilingInv, AdmissionIsLocked, LedgerIsOfRuns
<1>3. \A q \in Requests : CountsOf(runs')[q] <= CountsOf(runs)[q]
  <2>1. \A q \in Requests : CountsOf(runs)[q] \in Nat
    BY <1>1, CountsType
  <2> QED BY <1>0, <2>1
<1>4. ASSUME NEW u \in usage
      PROVE  /\ u.day # today + 1
             /\ Month(u.day) = Month(today + 1) => Month(u.day) = Month(today)
  BY <1>0 DEF Month
<1>5. /\ \A q \in Requests : DayRuns(Caller[q], runs', usage', today')
                               \subseteq DayRuns(Caller[q], runs, usage, today)
      /\ MonthRuns(runs', usage', today') \subseteq MonthRuns(runs, usage, today)
  BY <1>0, <1>4 DEF DayRuns, MonthRuns
<1>6. \A q \in Requests : \A more \in Nat :
        Room(Caller[q], more, runs, usage, today) => Room(Caller[q], more, runs', usage', today')
  BY <1>1, <1>3, <1>5, RoomStays
<1>7. 0 \in Nat /\ Reserve \in Nat
  BY RetrievalAssumption
<1> QED BY <1>0, <1>2, <1>6, <1>7 DEF CeilingInv

(* Nothing is spent at first.                                                *)
LEMMA CeilingInit == RetrievalInit => CeilingInv
<1> SUFFICES ASSUME RetrievalInit PROVE CeilingInv
  OBVIOUS
<1>1. AdmissionIsLocked /\ LedgerIsOfRuns /\ \A r \in Requests : at[r] # "admissible"
  BY FS_EmptySet DEF RetrievalInit, AdmissionIsLocked, LedgerIsOfRuns
<1>2. \A c : DayRuns(c, runs, usage, today) = {} /\ MonthRuns(runs, usage, today) = {}
  BY DEF RetrievalInit, DayRuns, MonthRuns, Absent
<1>3. RetrievalTypeOK
  BY DEF RetrievalInit, RetrievalTypeOK, BeforeRun, InPipeline, Absent
<1>4. Total(CountsOf(runs), {}) = 0
  BY <1>3, RetrievalAssumption, CountsType, TotalFacts
<1>5. UserLimit \in Nat /\ OrgLimit \in Nat
  BY RetrievalAssumption
<1>6. \A r \in Requests : Room(Caller[r], 0, runs, usage, today)
  BY <1>2, <1>4, <1>5 DEF Room
<1> QED BY <1>1, <1>6 DEF CeilingInv

(* The hard ceilings hold for any number of requests and users, any limits,  *)
(* and whatever crashes or fails between two commits: the admission's lock   *)
(* makes the room that was read still be there at the insert                 *)
(* (lock_query_budget, enforce_ceilings, spend_snapshot).                    *)
THEOREM RetrievalSpecCeilings == RetrievalSpec => []CeilingsHold
<1>1. RetrievalInit => CeilingInv
  BY CeilingInit
<1>2. RetrievalInv /\ RetrievalInv' /\ CeilingInv /\ [RetrievalNext]_retrievalVars => CeilingInv'
  <2> SUFFICES ASSUME RetrievalInv, RetrievalInv', CeilingInv, [RetrievalNext]_retrievalVars
               PROVE  CeilingInv'
    OBVIOUS
  <2>1. CASE UNCHANGED retrievalVars
    BY <2>1, CeilingUnchanged DEF retrievalVars, CeilingInv, AdmissionIsLocked
  <2> QED BY <2>1, CeilingRequest, CeilingAdmit, CeilingFinish, CeilingMidnight DEF RetrievalNext
<1>3. RetrievalInv => RetrievalTypeOK
  BY DEF RetrievalInv
<1> QED BY <1>1, <1>2, <1>3, RetrievalSpecInv, CeilingInvSuffices, PTL DEF RetrievalSpec

(* --------------------------- the event stream ---------------------------- *)
(* Of the stream of an extraction run, for any number of writers, events,    *)
(* pages and broken connections. The argument is the lock's: only the holder *)
(* of the run's row lock has events that are not committed, and their ids    *)
(* are above every committed one (LockOrdersIds). So no event ever appears   *)
(* below an id that has been sent, a page has no gap below its last row      *)
(* (PageHasNoGap), and what is on the wire is all there is between the       *)
(* client's id and the server's (WireIsExact).                               *)
Event == [id : Nat, type : {"progress", "terminal"}]
ClientStates == {"connecting", "connected", "complete", "stopped"}

\* The shape of the log, of the open stream and of its client.
StreamTypeOK ==
  /\ holder \in Writers \cup {NoWriter} /\ nextId \in Nat
  /\ uncommitted \in [Writers -> SUBSET Event] /\ eventLog \in SUBSET Event
  /\ IsFiniteSet(eventLog) /\ \A w \in Writers : IsFiniteSet(uncommitted[w])
  /\ server \in [open : BOOLEAN, last : Nat, batch : SUBSET Event]
  /\ wire \in Seq(Event) /\ seen \in Seq(Event)
  /\ client \in [last : Nat, state : ClientStates, tries : Nat, progressed : BOOLEAN]

\* Ids are given out in the order of commits: what is not committed belongs to
\* the lock's holder and is above everything that is.
LockOrdersIds ==
  /\ \A w \in Writers : uncommitted[w] # {} => holder = w
  /\ \A w \in Writers : \A e \in uncommitted[w] :
       /\ 0 < e.id /\ e.id < nextId
       /\ \A d \in uncommitted[w] : d.id = e.id => d = e
       /\ \A d \in eventLog : d.id < e.id
  /\ \A e \in eventLog :
       /\ 0 < e.id /\ e.id < nextId
       /\ \A d \in eventLog : d.id = e.id => d = e
  /\ 0 < nextId

\* A position in the log: nothing was sent, or a committed event was.
Position(n) == n = 0 \/ \E e \in eventLog : e.id = n

\* The rest of a page has no gap below any of its rows.
PageHasNoGap ==
  server.open =>
    /\ server.batch \subseteq After(server.last)
    /\ \A e \in server.batch, d \in After(server.last) : d.id < e.id => d \in server.batch

\* What is on the wire is what the log holds between the client and the server.
WireIsExact ==
  /\ client.last <= server.last
  /\ \A i \in DOMAIN wire : /\ wire[i] \in eventLog
                            /\ client.last < wire[i].id /\ wire[i].id <= server.last
  /\ \A i, j \in DOMAIN wire : i < j => wire[i].id < wire[j].id
  /\ \A e \in eventLog : client.last < e.id /\ e.id <= server.last
                           => \E i \in DOMAIN wire : wire[i] = e

FollowerIsExact ==
  /\ Position(client.last) /\ Position(server.last)
  /\ client.state \in {"connecting", "stopped"} => wire = <<>> /\ ~server.open
  /\ client.state = "connected" => WireIsExact

\* The events handed over are those of the log up to the client's position.
SeenIsExact ==
  /\ \A i \in DOMAIN seen : seen[i] \in eventLog /\ seen[i].id <= client.last
  /\ \A i, j \in DOMAIN seen : i < j => seen[i].id < seen[j].id
  /\ \A e \in eventLog : e.id <= client.last => \E i \in DOMAIN seen : seen[i] = e

StreamInv == StreamTypeOK /\ LockOrdersIds /\ PageHasNoGap /\ FollowerIsExact /\ SeenIsExact

-----------------------------------------------------------------------------
\* A commit under the run's lock adds events above everything in the log; the
\* stream and its client are as they were.
LEMMA LogGrows ==
  ASSUME StreamTypeOK, PageHasNoGap, FollowerIsExact, SeenIsExact, UNCHANGED followVars,
         NEW N, N \subseteq Event, eventLog' = eventLog \cup N,
         \A e \in N : 0 < e.id /\ \A d \in eventLog : d.id < e.id
  PROVE  PageHasNoGap' /\ FollowerIsExact' /\ SeenIsExact'
<1>1. /\ server' = server /\ wire' = wire /\ client' = client /\ seen' = seen
      /\ eventLog \subseteq Event /\ server.last \in Nat /\ client.last \in Nat
      /\ \A e \in Event : e.id \in Nat
  BY DEF followVars, StreamTypeOK, Event
<1>2. Position(server.last) /\ Position(client.last)
  BY DEF FollowerIsExact
<1>3. \A e \in N : server.last < e.id /\ client.last < e.id
  BY <1>1, <1>2 DEF Position
<1>4. PageHasNoGap'
  <2>1. SUFFICES ASSUME server.open
                 PROVE  /\ server.batch \subseteq After(server.last)'
                        /\ \A e \in server.batch, d \in After(server.last)' : d.id < e.id => d \in server.batch
    BY <1>1 DEF PageHasNoGap, After
  <2>2. server.batch \subseteq eventLog
    BY <2>1 DEF PageHasNoGap, After
  <2>3. \A e \in server.batch, d \in N : ~(d.id < e.id)
    BY <1>1, <2>2
  <2> QED BY <1>1, <2>1, <2>2, <2>3 DEF PageHasNoGap, After
<1>5. FollowerIsExact'
  <2>1. Position(server.last)' /\ Position(client.last)'
    BY <1>1, <1>2 DEF Position
  <2>2. WireIsExact => WireIsExact'
    BY <1>1, <1>3 DEF WireIsExact
  <2> QED BY <1>1, <2>1, <2>2 DEF FollowerIsExact
<1>6. SeenIsExact'
  BY <1>1, <1>3 DEF SeenIsExact
<1> QED BY <1>4, <1>5, <1>6

\* The lock is taken, the row's status is written, or the worker dies between
\* its event and its status: the log is as it was.
LEMMA LockSteps ==
  ASSUME StreamInv, \/ \E w \in Writers : Begin(w) \/ Rollback(w)
                    \/ WriteStatus \/ WorkerDies
  PROVE  StreamInv'
<1>0. /\ holder \in Writers \cup {NoWriter} /\ uncommitted \in [Writers -> SUBSET Event]
      /\ \A v \in Writers : uncommitted[v] # {} => holder = v
  BY DEF StreamInv, StreamTypeOK, LockOrdersIds
<1>1. /\ eventLog' = eventLog /\ UNCHANGED followVars /\ nextId' = nextId
      /\ holder' \in Writers \cup {NoWriter}
      /\ uncommitted' \in [Writers -> SUBSET Event]
      /\ \A v \in Writers : uncommitted'[v] = {} \/ uncommitted'[v] = uncommitted[v]
      /\ \A v \in Writers : uncommitted'[v] # {} => holder' = v
  <2>1. ASSUME NEW w \in Writers, Begin(w) PROVE <1>1!:
    <3>1. \A v \in Writers : uncommitted[v] = {}
      BY <1>0, <2>1, StreamAssumption DEF Begin, MayLock
    <3> QED BY <1>0, <2>1, <3>1 DEF Begin
  <2>2. ASSUME NEW w \in Writers, Rollback(w) PROVE <1>1!:
    BY <1>0, <2>2 DEF Rollback, LockAfter
  <2>3. CASE WriteStatus \/ WorkerDies
    BY <1>0, <2>3 DEF WriteStatus, WorkerDies
  <2> QED BY <2>1, <2>2, <2>3
<1>2. \A v \in Writers : IsFiniteSet(uncommitted'[v])
  BY <1>1, FS_EmptySet DEF StreamInv, StreamTypeOK
<1>3. StreamTypeOK'
  BY <1>1, <1>2 DEF StreamInv, StreamTypeOK, followVars
<1>4. LockOrdersIds'
  BY <1>1 DEF StreamInv, LockOrdersIds
<1>5. PageHasNoGap' /\ FollowerIsExact' /\ SeenIsExact'
  BY <1>1, LogGrows, eventLog' = eventLog \cup {} DEF StreamInv
<1> QED BY <1>3, <1>4, <1>5 DEF StreamInv

\* An insert draws the next id inside the transaction that holds the lock.
LEMMA InsertStep ==
  ASSUME StreamInv, NEW w \in Writers, NEW type \in {"progress", "terminal"}, Insert(w, type)
  PROVE  StreamInv'
<1>1. PICK new : new = [id |-> nextId, type |-> type]
  OBVIOUS
<1>2. /\ uncommitted' = [uncommitted EXCEPT ![w] = @ \cup {new}] /\ nextId' = nextId + 1
      /\ UNCHANGED <<holder, eventLog>> /\ UNCHANGED followVars
      /\ holder = w \/ uncommitted[w] # {}
  BY <1>1 DEF Insert
<1>3. nextId \in Nat /\ uncommitted \in [Writers -> SUBSET Event] /\ eventLog \subseteq Event
  BY DEF StreamInv, StreamTypeOK
<1>4. new \in Event /\ new.id = nextId
  BY <1>1, <1>3 DEF Event
<1>5. /\ uncommitted' \in [Writers -> SUBSET Event]
      /\ uncommitted'[w] = uncommitted[w] \cup {new}
      /\ \A v \in Writers : v # w => uncommitted'[v] = uncommitted[v]
  BY <1>2, <1>3, <1>4
<1>6. \A v \in Writers : IsFiniteSet(uncommitted'[v])
  <2>1. \A v \in Writers : IsFiniteSet(uncommitted[v]) BY DEF StreamInv, StreamTypeOK
  <2>2. IsFiniteSet(uncommitted[w] \cup {new}) BY <2>1, FS_AddElement
  <2> QED BY <1>5, <2>1, <2>2
<1>7. StreamTypeOK'
  <2>1. nextId' \in Nat BY <1>2, <1>3
  <2> QED BY <1>2, <1>5, <1>6, <2>1 DEF StreamInv, StreamTypeOK, followVars
<1>8. LockOrdersIds'
  <2>1. holder = w BY <1>2 DEF StreamInv, LockOrdersIds
  <2>2. \A v \in Writers : uncommitted'[v] # {} => holder' = v
    BY <1>2, <1>5, <2>1 DEF StreamInv, LockOrdersIds
  <2>3. \A e \in Event : e.id \in Nat BY DEF Event
  <2>4. \A v \in Writers : \A e \in uncommitted'[v] :
          /\ 0 < e.id /\ e.id < nextId'
          /\ \A d \in uncommitted'[v] : d.id = e.id => d = e
          /\ \A d \in eventLog : d.id < e.id
    <3>1. SUFFICES ASSUME NEW v \in Writers, NEW e \in uncommitted'[v]
                   PROVE  /\ 0 < e.id /\ e.id < nextId'
                          /\ \A d \in uncommitted'[v] : d.id = e.id => d = e
                          /\ \A d \in eventLog : d.id < e.id
      OBVIOUS
    <3>2. /\ 0 < nextId /\ \A d \in eventLog : d.id < nextId
          /\ \A u \in Writers : \A d \in uncommitted[u] : d.id < nextId /\ d.id # nextId
      BY <1>3, <2>3 DEF StreamInv, LockOrdersIds
    <3>3. CASE e = new /\ v = w BY <1>2, <1>3, <1>4, <1>5, <2>3, <3>2, <3>3
    <3>4. CASE e \in uncommitted[v]
      <4>1. e \in Event /\ e.id \in Nat BY <1>3, <2>3, <3>4
      <4>2. /\ 0 < e.id /\ e.id < nextId /\ \A d \in eventLog : d.id < e.id
            /\ \A d \in uncommitted[v] : d.id = e.id => d = e
        BY <3>4 DEF StreamInv, LockOrdersIds
      <4>3. e.id < nextId' BY <1>2, <1>3, <4>1, <4>2
      <4>4. \A d \in uncommitted'[v] : d.id = e.id => d = e
        BY <1>4, <1>5, <3>2, <3>4, <4>2
      <4> QED BY <4>2, <4>3, <4>4
    <3> QED BY <1>5, <3>1, <3>3, <3>4
  <2>5. \A e \in eventLog : e.id < nextId'
    BY <1>2, <1>3, <2>3 DEF StreamInv, LockOrdersIds
  <2>6. 0 < nextId' BY <1>2, <1>3 DEF StreamInv, LockOrdersIds
  <2> QED BY <1>2, <2>2, <2>4, <2>5, <2>6 DEF StreamInv, LockOrdersIds
<1>9. PageHasNoGap' /\ FollowerIsExact' /\ SeenIsExact'
  <2>1. PICK N : N = {} OBVIOUS
  <2>2. N \subseteq Event /\ eventLog' = eventLog \cup N BY <1>2, <2>1
  <2>3. \A e \in N : 0 < e.id /\ \A d \in eventLog : d.id < e.id BY <2>1
  <2> QED BY <1>2, <2>2, <2>3, LogGrows DEF StreamInv
<1> QED BY <1>7, <1>8, <1>9 DEF StreamInv

\* A commit publishes the events of the lock's holder.
LEMMA CommitStep ==
  ASSUME StreamInv, NEW w \in Writers, Commit(w)
  PROVE  StreamInv'
<1>1. PICK N : N = uncommitted[w] OBVIOUS
<1>2. /\ eventLog' = eventLog \cup N /\ uncommitted' = [uncommitted EXCEPT ![w] = {}]
      /\ holder' = LockAfter(w) /\ nextId' = nextId /\ UNCHANGED followVars /\ N # {}
  BY <1>1 DEF Commit
<1>3. /\ uncommitted \in [Writers -> SUBSET Event] /\ eventLog \subseteq Event /\ N \subseteq Event
      /\ \A e \in Event : e.id \in Nat
  BY <1>1 DEF StreamInv, StreamTypeOK, Event
<1>4. /\ uncommitted' \in [Writers -> SUBSET Event] /\ uncommitted'[w] = {}
      /\ \A v \in Writers : v # w => uncommitted'[v] = uncommitted[v]
  BY <1>2, <1>3
<1>5. holder = w /\ \A v \in Writers : v # w => uncommitted[v] = {}
  BY <1>1, <1>2, StreamAssumption DEF StreamInv, LockOrdersIds
<1>6. holder' = NoWriter /\ \A v \in Writers : uncommitted'[v] = {}
  BY <1>2, <1>4, <1>5 DEF LockAfter
<1>7. IsFiniteSet(eventLog') /\ \A v \in Writers : IsFiniteSet(uncommitted'[v])
  <2>1. IsFiniteSet(eventLog) /\ IsFiniteSet(N) BY <1>1 DEF StreamInv, StreamTypeOK
  <2> QED BY <1>2, <1>6, <2>1, FS_Union, FS_EmptySet
<1>8. StreamTypeOK'
  BY <1>2, <1>3, <1>4, <1>6, <1>7 DEF StreamInv, StreamTypeOK, followVars
<1>9. \A e \in N : /\ 0 < e.id /\ e.id < nextId /\ \A d \in N : d.id = e.id => d = e
                   /\ \A d \in eventLog : d.id < e.id /\ d.id # e.id
  BY <1>1, <1>3 DEF StreamInv, LockOrdersIds
<1>10. LockOrdersIds'
  BY <1>2, <1>6, <1>9 DEF StreamInv, LockOrdersIds
<1>11. PageHasNoGap' /\ FollowerIsExact' /\ SeenIsExact'
  BY <1>2, <1>3, <1>9, LogGrows DEF StreamInv
<1> QED BY <1>8, <1>10, <1>11 DEF StreamInv

-----------------------------------------------------------------------------
\* A step of the stream or of its client leaves the log alone.
LEMMA LogStays ==
  ASSUME StreamInv, UNCHANGED logVars
  PROVE  /\ LockOrdersIds' /\ eventLog' = eventLog /\ eventLog \subseteq Event
         /\ \A e \in Event : e.id \in Nat
         /\ \A d, e \in eventLog : d.id = e.id => d = e
         /\ \A n : Position(n)' <=> Position(n)
         /\ \A n : After(n)' = After(n)
BY DEF StreamInv, LockOrdersIds, logVars, StreamTypeOK, Event, Position, After

\* events.fetch returns rows without a gap: fewer rows precede an earlier row.
LEMMA PageIsDownClosed ==
  ASSUME StreamInv, NEW n \in Nat
  PROVE  /\ Page(n) \subseteq After(n)
         /\ \A e \in Page(n), d \in After(n) : d.id < e.id => d \in Page(n)
<1> DEFINE Below(e) == {d \in After(n) : d.id < e.id}
<1>1. IsFiniteSet(eventLog) /\ \A e \in eventLog : e.id \in Nat
  BY DEF StreamInv, StreamTypeOK, Event
<1>2. SUFFICES ASSUME NEW e \in Page(n), NEW d \in After(n), d.id < e.id
               PROVE  Cardinality(Below(d)) < PageLimit
  BY DEF Page
<1>3. Below(d) \subseteq Below(e)
  BY <1>1, <1>2 DEF Page, After
<1>4. IsFiniteSet(Below(e)) /\ Below(e) \subseteq eventLog
  <2>1. Below(e) \subseteq eventLog BY DEF After
  <2> QED BY <1>1, <2>1, FS_Subset
<1>5. IsFiniteSet(Below(d)) /\ Cardinality(Below(d)) <= Cardinality(Below(e))
  BY <1>3, <1>4, FS_Subset
<1>6. Cardinality(Below(d)) \in Nat /\ Cardinality(Below(e)) \in Nat
  BY <1>4, <1>5, FS_CardinalityType
<1>7. Cardinality(Below(e)) < PageLimit
  BY DEF Page
<1> QED BY <1>5, <1>6, <1>7, StreamAssumption

\* stream_events: the response starts after the client's last event.
LEMMA ConnectStep ==
  ASSUME StreamInv, Connect
  PROVE  StreamInv'
<1> USE LogStays
<1>1. /\ client.state = "connecting" /\ UNCHANGED logVars /\ UNCHANGED <<wire, seen>>
      /\ server' = [open |-> TRUE, last |-> client.last, batch |-> Page(client.last)]
      /\ client' = [client EXCEPT !.state = "connected", !.progressed = FALSE]
  BY DEF Connect
<1>2. client \in [last : Nat, state : ClientStates, tries : Nat, progressed : BOOLEAN]
  BY DEF StreamInv, StreamTypeOK
<1>3. client' \in [last : Nat, state : ClientStates, tries : Nat, progressed : BOOLEAN]
  BY <1>1, <1>2 DEF ClientStates
<1>4. client'.last = client.last /\ client'.state = "connected" /\ client.last \in Nat
  BY <1>1, <1>2
<1>5. /\ Page(client.last) \subseteq After(client.last)
      /\ \A e \in Page(client.last), d \in After(client.last) : d.id < e.id => d \in Page(client.last)
  BY <1>4, PageIsDownClosed
<1>6. /\ server'.open = TRUE /\ server'.last = client.last /\ server'.batch = Page(client.last)
      /\ server' \in [open : BOOLEAN, last : Nat, batch : SUBSET Event]
  BY <1>1, <1>4, <1>5 DEF After
<1>7. StreamTypeOK'
  BY <1>1, <1>3, <1>6 DEF StreamInv, StreamTypeOK, logVars
<1>8. PageHasNoGap'
  BY <1>1, <1>5, <1>6 DEF PageHasNoGap
<1>9. FollowerIsExact'
  <2>1. wire = <<>> /\ Position(client.last) BY <1>1 DEF StreamInv, FollowerIsExact
  <2>2. wire' = <<>> /\ DOMAIN wire' = {} BY <1>1, <2>1
  <2>3. WireIsExact' BY <1>1, <1>4, <1>6, <2>2 DEF WireIsExact
  <2> QED BY <1>1, <1>4, <1>6, <2>1, <2>3 DEF FollowerIsExact
<1>10. SeenIsExact' BY <1>1, <1>4 DEF StreamInv, SeenIsExact
<1> QED BY <1>1, <1>7, <1>8, <1>9, <1>10 DEF StreamInv

\* The next row of the page goes out: nothing in the log lies before it.
LEMMA SendFrameStep ==
  ASSUME StreamInv, SendFrame
  PROVE  StreamInv'
<1> USE LogStays
<1>1. PICK e \in server.batch :
        /\ \A d \in server.batch : e.id <= d.id
        /\ wire' = Append(wire, e)
        /\ server' = [server EXCEPT !.last = e.id, !.batch = @ \ {e}, !.open = e.type # "terminal"]
  BY DEF SendFrame
<1>2. server.open /\ UNCHANGED <<client, seen>> /\ UNCHANGED logVars
  BY DEF SendFrame
<1>3. /\ server \in [open : BOOLEAN, last : Nat, batch : SUBSET Event] /\ wire \in Seq(Event)
      /\ client.last \in Nat
  BY DEF StreamInv, StreamTypeOK
<1>4. e \in eventLog /\ e \in Event /\ server.last < e.id /\ server.batch \subseteq After(server.last)
  BY <1>1, <1>2 DEF StreamInv, PageHasNoGap, After
<1>5. /\ server'.last = e.id /\ server'.batch = server.batch \ {e}
      /\ server' \in [open : BOOLEAN, last : Nat, batch : SUBSET Event]
  BY <1>1, <1>2, <1>3, <1>4
<1>6. wire' \in Seq(Event) /\ Len(wire') = Len(wire) + 1 /\ wire'[Len(wire) + 1] = e
      /\ \A i \in 1 .. Len(wire) : wire'[i] = wire[i]
  BY <1>1, <1>3, <1>4, AppendProperties
<1>7. StreamTypeOK'
  BY <1>2, <1>5, <1>6 DEF StreamInv, StreamTypeOK, logVars
<1>8. \A d \in eventLog : server.last < d.id /\ d.id <= e.id => d = e
  <2>1. SUFFICES ASSUME NEW d \in eventLog, server.last < d.id, d.id <= e.id, d # e PROVE FALSE
    OBVIOUS
  <2>2. d.id < e.id BY <1>2, <1>4, <2>1
  <2>3. d \in server.batch BY <1>2, <2>1, <2>2 DEF StreamInv, PageHasNoGap, After
  <2> QED BY <1>1, <1>2, <1>4, <2>1, <2>2, <2>3
<1>9. PageHasNoGap'
  <2>1. \A d \in server.batch \ {e} : e.id < d.id
    BY <1>1, <1>2, <1>3, <1>4 DEF After
  <2>2. server.batch \ {e} \subseteq After(e.id)
    BY <1>4, <2>1 DEF After
  <2>3. \A b \in server.batch \ {e}, d \in After(e.id) : d.id < b.id => d \in server.batch \ {e}
    <3>1. SUFFICES ASSUME NEW b \in server.batch \ {e}, NEW d \in After(e.id), d.id < b.id
                   PROVE  d \in server.batch \ {e}
      OBVIOUS
    <3>2. d \in After(server.last) /\ d # e
      BY <1>2, <1>3, <1>4, <3>1 DEF After
    <3> QED BY <1>2, <3>1, <3>2 DEF StreamInv, PageHasNoGap
  <2> QED BY <1>2, <1>5, <2>2, <2>3 DEF PageHasNoGap
<1>10. FollowerIsExact'
  <2>1. Position(client.last)' /\ Position(server.last)'
    BY <1>2, <1>4, <1>5 DEF StreamInv, FollowerIsExact, Position
  <2>2. client.state \notin {"connecting", "stopped"}
    BY <1>2 DEF StreamInv, FollowerIsExact
  <2>3. ASSUME client.state = "connected" PROVE WireIsExact'
    <3>1. WireIsExact BY <2>3 DEF StreamInv, FollowerIsExact
    <3>2. client.last <= server.last /\ client.last < e.id /\ client.last <= e.id
      BY <1>2, <1>3, <1>4, <3>1 DEF WireIsExact
    <3>3. DOMAIN wire = 1 .. Len(wire) /\ DOMAIN wire' = 1 .. Len(wire) + 1 /\ Len(wire) \in Nat
      BY <1>3, <1>6, LenProperties
    <3>4. \A i \in DOMAIN wire : /\ wire[i] \in eventLog /\ client.last < wire[i].id
                                 /\ wire[i].id <= e.id /\ wire[i].id < e.id
      BY <1>2, <1>3, <1>4, <3>1 DEF WireIsExact
    <3>5. \A i \in DOMAIN wire' : /\ wire'[i] \in eventLog /\ client.last < wire'[i].id
                                  /\ wire'[i].id <= e.id
      BY <1>2, <1>4, <1>6, <3>2, <3>3, <3>4
    <3>6. \A i, j \in DOMAIN wire' : i < j => wire'[i].id < wire'[j].id
      <4>1. SUFFICES ASSUME NEW i \in 1 .. Len(wire) + 1, NEW j \in 1 .. Len(wire) + 1, i < j
                     PROVE  wire'[i].id < wire'[j].id
        BY <3>3
      <4>2. i \in 1 .. Len(wire) BY <3>3, <4>1
      <4>3. CASE j = Len(wire) + 1 BY <1>6, <3>3, <3>4, <4>2, <4>3
      <4>4. CASE j # Len(wire) + 1
        <5>1. j \in 1 .. Len(wire) BY <3>3, <4>1, <4>4
        <5> QED BY <1>6, <3>1, <3>3, <4>1, <4>2, <5>1 DEF WireIsExact
      <4> QED BY <4>3, <4>4
    <3>7. ASSUME NEW d \in eventLog, client.last < d.id, d.id <= e.id
          PROVE  \E i \in DOMAIN wire' : wire'[i] = d
      <4>1. CASE d.id <= server.last
        <5>1. PICK i \in DOMAIN wire : wire[i] = d BY <3>1, <3>7, <4>1 DEF WireIsExact
        <5>2. i \in DOMAIN wire' /\ wire'[i] = d BY <1>6, <3>3, <5>1
        <5> QED BY <5>2
      <4>2. CASE server.last < d.id
        <5>1. d = e BY <1>8, <3>7, <4>2
        <5>2. Len(wire) + 1 \in DOMAIN wire' BY <3>3
        <5> QED BY <1>6, <5>1, <5>2
      <4>3. d.id \in Nat /\ server.last \in Nat BY <1>2, <1>3, <3>7
      <4> QED BY <4>1, <4>2, <4>3
    <3> QED BY <1>2, <1>5, <3>2, <3>5, <3>6, <3>7 DEF WireIsExact
  <2> QED BY <1>2, <2>1, <2>2, <2>3 DEF FollowerIsExact
<1>11. SeenIsExact' BY <1>2 DEF StreamInv, SeenIsExact
<1> QED BY <1>2, <1>7, <1>9, <1>10, <1>11 DEF StreamInv

\* The server polls again: an empty page of an ended run closes the stream.
LEMMA PollStep ==
  ASSUME StreamInv, PollStream
  PROVE  StreamInv'
<1> USE LogStays
<1>1. /\ server.open /\ server.batch = {} /\ UNCHANGED <<wire, client, seen>> /\ UNCHANGED logVars
      /\ \/ server' = [server EXCEPT !.open = FALSE]
         \/ server' = [server EXCEPT !.batch = Page(server.last)]
  BY DEF PollStream
<1>2. /\ server \in [open : BOOLEAN, last : Nat, batch : SUBSET Event] /\ server.last \in Nat
  BY DEF StreamInv, StreamTypeOK
<1>3. /\ Page(server.last) \subseteq After(server.last)
      /\ \A e \in Page(server.last), d \in After(server.last) : d.id < e.id => d \in Page(server.last)
  BY <1>2, PageIsDownClosed
<1>4. /\ server'.last = server.last
      /\ server' \in [open : BOOLEAN, last : Nat, batch : SUBSET Event]
  BY <1>1, <1>2, <1>3 DEF After
<1>5. StreamTypeOK'
  BY <1>1, <1>4 DEF StreamInv, StreamTypeOK, logVars
<1>6. PageHasNoGap'
  <2>1. CASE server' = [server EXCEPT !.open = FALSE]
    <3>1. ~server'.open BY <1>2, <2>1
    <3> QED BY <3>1 DEF PageHasNoGap
  <2>2. CASE server' = [server EXCEPT !.batch = Page(server.last)]
    <3>1. server'.batch = Page(server.last) BY <1>2, <2>2
    <3> QED BY <1>1, <1>3, <1>4, <3>1 DEF PageHasNoGap
  <2> QED BY <1>1, <2>1, <2>2
<1>7. FollowerIsExact'
  <2>1. client.state \notin {"connecting", "stopped"}
    BY <1>1 DEF StreamInv, FollowerIsExact
  <2>2. WireIsExact => WireIsExact'
    BY <1>1, <1>4 DEF WireIsExact
  <2> QED BY <1>1, <1>4, <2>1, <2>2 DEF StreamInv, FollowerIsExact
<1>8. SeenIsExact' BY <1>1 DEF StreamInv, SeenIsExact
<1> QED BY <1>1, <1>5, <1>6, <1>7, <1>8 DEF StreamInv

\* consumeExtractionEvents takes the next frame.
LEMMA ReceiveStep ==
  ASSUME StreamInv, Receive
  PROVE  StreamInv'
<1> USE LogStays
<1>1. PICK e : e = Head(wire) OBVIOUS
<1>2. /\ client.state = "connected" /\ wire # <<>> /\ wire' = Tail(wire) /\ UNCHANGED server
      /\ UNCHANGED logVars
      /\ e.id <= client.last \/
           (seen' = Append(seen, e) /\
            client' = [client EXCEPT !.last = e.id, !.progressed = TRUE,
                         !.state = IF e.type = "terminal" THEN "complete" ELSE @])
  BY <1>1 DEF Receive
<1>3. /\ wire \in Seq(Event) /\ seen \in Seq(Event) /\ client.last \in Nat /\ server.last \in Nat
      /\ client \in [last : Nat, state : ClientStates, tries : Nat, progressed : BOOLEAN]
  BY DEF StreamInv, StreamTypeOK
<1>4. WireIsExact BY <1>2 DEF StreamInv, FollowerIsExact
<1>5. PICK n \in Nat : /\ Len(wire) = n + 1 /\ DOMAIN wire = 1 .. n + 1 /\ e = wire[1]
                       /\ wire' \in Seq(Event) /\ DOMAIN wire' = 1 .. n
                       /\ \A i \in 1 .. n : wire'[i] = wire[i + 1]
  <2>1. /\ Len(wire) \in Nat /\ Len(wire) # 0 /\ DOMAIN wire = 1 .. Len(wire)
        /\ wire' \in Seq(Event) /\ Len(wire') = Len(wire) - 1 /\ e = wire[1]
        /\ \A i \in 1 .. Len(wire') : wire'[i] = wire[i + 1]
    BY <1>1, <1>2, <1>3, HeadTailProperties, EmptySeq, LenProperties
  <2>2. PICK n \in Nat : Len(wire) = n + 1
    <3>1. Len(wire) - 1 \in Nat /\ Len(wire) = (Len(wire) - 1) + 1 BY <2>1
    <3> QED BY <3>1
  <2>3. Len(wire') = n /\ DOMAIN wire' = 1 .. n BY <2>1, <2>2, LenProperties
  <2> QED BY <2>1, <2>2, <2>3
<1>6. e \in eventLog /\ client.last < e.id /\ e.id <= server.last /\ e \in Event /\ e.id \in Nat
  <2>1. 1 \in DOMAIN wire BY <1>5
  <2> QED BY <1>2, <1>4, <1>5, <2>1 DEF WireIsExact
<1>7. /\ seen' = Append(seen, e)
      /\ client' = [client EXCEPT !.last = e.id, !.progressed = TRUE,
                      !.state = IF e.type = "terminal" THEN "complete" ELSE @]
  BY <1>2, <1>3, <1>6
<1>8. /\ client' \in [last : Nat, state : ClientStates, tries : Nat, progressed : BOOLEAN]
      /\ client'.last = e.id /\ client'.state \in {"complete", "connected"}
  <2>1. PICK st \in {"complete", "connected"} :
          client' = [client EXCEPT !.last = e.id, !.progressed = TRUE, !.state = st]
    <3>1. CASE e.type = "terminal" BY <1>7, <3>1
    <3>2. CASE e.type # "terminal"
      <4>1. client' = [client EXCEPT !.last = e.id, !.progressed = TRUE, !.state = client.state]
        BY <1>7, <3>2
      <4> QED BY <1>2, <4>1
    <3> QED BY <3>1, <3>2
  <2> QED BY <1>3, <1>6, <2>1 DEF ClientStates
<1>9. /\ seen' \in Seq(Event) /\ Len(seen') = Len(seen) + 1 /\ seen'[Len(seen) + 1] = e
      /\ \A i \in 1 .. Len(seen) : seen'[i] = seen[i]
      /\ DOMAIN seen = 1 .. Len(seen) /\ DOMAIN seen' = 1 .. Len(seen) + 1 /\ Len(seen) \in Nat
  BY <1>3, <1>6, <1>7, AppendProperties, LenProperties
<1>10. StreamTypeOK'
  BY <1>2, <1>5, <1>8, <1>9 DEF StreamInv, StreamTypeOK, logVars
<1>11. PageHasNoGap' BY <1>2 DEF StreamInv, PageHasNoGap
<1>12. FollowerIsExact'
  <2>1. Position(client.last)' /\ Position(server.last)'
    BY <1>2, <1>6, <1>8 DEF StreamInv, FollowerIsExact, Position
  <2>2. \A i \in 1 .. n : i + 1 \in DOMAIN wire /\ 1 \in DOMAIN wire /\ 1 < i + 1 BY <1>5
  <2>3. \A i \in 1 .. n : /\ wire'[i] \in eventLog /\ e.id < wire'[i].id
                          /\ wire'[i].id <= server.last
    BY <1>4, <1>5, <2>2 DEF WireIsExact
  <2>4. \A i, j \in 1 .. n : i < j => wire'[i].id < wire'[j].id
    <3>1. SUFFICES ASSUME NEW i \in 1 .. n, NEW j \in 1 .. n, i < j
                   PROVE  wire'[i].id < wire'[j].id
      OBVIOUS
    <3>2. i + 1 \in DOMAIN wire /\ j + 1 \in DOMAIN wire /\ i + 1 < j + 1 BY <2>2, <3>1
    <3>3. wire[i + 1].id < wire[j + 1].id BY <1>4, <3>2 DEF WireIsExact
    <3> QED BY <1>5, <3>3
  <2>5. ASSUME NEW d \in eventLog, e.id < d.id, d.id <= server.last
        PROVE  \E i \in 1 .. n : wire'[i] = d
    <3>1. client.last < d.id /\ d # e BY <1>2, <1>3, <1>6, <2>5
    <3>2. PICK k \in DOMAIN wire : wire[k] = d BY <1>4, <2>5, <3>1 DEF WireIsExact
    <3>3. k # 1 /\ k - 1 \in 1 .. n /\ (k - 1) + 1 = k BY <1>5, <3>1, <3>2
    <3> QED BY <1>5, <3>2, <3>3
  <2>6. WireIsExact' BY <1>2, <1>5, <1>6, <1>8, <2>3, <2>4, <2>5 DEF WireIsExact
  <2> QED BY <1>8, <2>1, <2>6 DEF FollowerIsExact
<1>13. SeenIsExact'
  <2>1. \A i \in 1 .. Len(seen) : /\ seen[i] \in eventLog /\ seen[i].id <= client.last
                                  /\ seen[i].id < e.id
    BY <1>2, <1>3, <1>6, <1>9 DEF StreamInv, SeenIsExact
  <2>2. \A i \in DOMAIN seen' : seen'[i] \in eventLog /\ seen'[i].id <= e.id
    BY <1>2, <1>6, <1>9, <2>1
  <2>3. \A i, j \in DOMAIN seen' : i < j => seen'[i].id < seen'[j].id
    <3>1. SUFFICES ASSUME NEW i \in 1 .. Len(seen) + 1, NEW j \in 1 .. Len(seen) + 1, i < j
                   PROVE  seen'[i].id < seen'[j].id
      BY <1>9
    <3>2. i \in 1 .. Len(seen) BY <1>9, <3>1
    <3>3. CASE j = Len(seen) + 1 BY <1>9, <2>1, <3>2, <3>3
    <3>4. CASE j # Len(seen) + 1
      <4>1. j \in 1 .. Len(seen) BY <1>9, <3>1, <3>4
      <4> QED BY <1>9, <3>1, <3>2, <4>1 DEF StreamInv, SeenIsExact
    <3> QED BY <3>3, <3>4
  <2>4. ASSUME NEW d \in eventLog, d.id <= e.id PROVE \E i \in DOMAIN seen' : seen'[i] = d
    <3>1. CASE d.id <= client.last
      <4>1. PICK i \in DOMAIN seen : seen[i] = d BY <2>4, <3>1 DEF StreamInv, SeenIsExact
      <4>2. i \in DOMAIN seen' /\ seen'[i] = d BY <1>9, <4>1
      <4> QED BY <4>2
    <3>2. CASE client.last < d.id
      <4>1. PICK k \in DOMAIN wire : wire[k] = d
        <5>1. d.id <= server.last BY <1>2, <1>3, <1>6, <2>4
        <5> QED BY <1>4, <2>4, <3>2, <5>1 DEF WireIsExact
      <4>2. k = 1
        <5>1. CASE 1 < k
          <6>1. 1 \in DOMAIN wire BY <1>5
          <6>2. e.id < d.id BY <1>4, <1>5, <4>1, <5>1, <6>1 DEF WireIsExact
          <6> QED BY <1>2, <1>6, <2>4, <6>2
        <5> QED BY <1>5, <4>1, <5>1
      <4>3. d = e /\ Len(seen) + 1 \in DOMAIN seen' BY <1>5, <1>9, <4>1, <4>2
      <4> QED BY <1>9, <4>3
    <3>3. d.id \in Nat BY <1>2, <2>4
    <3> QED BY <1>3, <3>1, <3>2, <3>3
  <2> QED BY <1>2, <1>8, <2>2, <2>3, <2>4 DEF SeenIsExact
<1> QED BY <1>2, <1>10, <1>11, <1>12, <1>13 DEF StreamInv

\* A connection ends, by the server or by a break: the client keeps its place.
LEMMA DisconnectStep ==
  ASSUME StreamInv, \E h \in BOOLEAN : StreamEnds(h) \/ Drop(h)
  PROVE  StreamInv'
<1> USE LogStays
<1>1. PICK h \in BOOLEAN : StreamEnds(h) \/ Drop(h) OBVIOUS
<1>2. /\ Retry(h) /\ UNCHANGED seen /\ UNCHANGED logVars
      /\ wire' = <<>>
      /\ server' = server \/ server' = Closed
      /\ server' = server => ~server.open
  BY <1>1 DEF StreamEnds, Drop, Closed
<1>3. /\ client \in [last : Nat, state : ClientStates, tries : Nat, progressed : BOOLEAN]
      /\ server \in [open : BOOLEAN, last : Nat, batch : SUBSET Event]
  BY DEF StreamInv, StreamTypeOK
<1>4. Closed \in [open : BOOLEAN, last : Nat, batch : SUBSET Event] /\ ~Closed.open /\ Closed.last = 0
  <2>1. PICK n \in Nat, b \in SUBSET Event : n = 0 /\ b = {} OBVIOUS
  <2>2. Closed = [open |-> FALSE, last |-> n, batch |-> b] BY <2>1 DEF Closed
  <2> QED BY <2>1, <2>2
<1>5. /\ client' \in [last : Nat, state : ClientStates, tries : Nat, progressed : BOOLEAN]
      /\ client'.last = client.last /\ client'.state \in {"connecting", "stopped"}
  <2>1. PICK k \in Nat, st \in {"connecting", "stopped"} :
          client' = [client EXCEPT !.tries = k, !.state = st]
    <3>1. PICK tries \in Nat : tries = IF client.progressed \/ h THEN 0 ELSE client.tries
      BY <1>3
    <3>2. client' = [client EXCEPT
                       !.tries = IF tries = Reconnects THEN tries ELSE tries + 1,
                       !.state = IF tries = Reconnects THEN "stopped" ELSE "connecting"]
      BY <1>2, <3>1 DEF Retry
    <3>3. CASE tries = Reconnects BY <3>1, <3>2, <3>3
    <3>4. CASE tries # Reconnects
      <4>1. PICK k \in Nat : k = tries + 1 BY <3>1
      <4>2. client' = [client EXCEPT !.tries = k, !.state = "connecting"] BY <3>2, <3>4, <4>1
      <4> QED BY <4>2
    <3> QED BY <3>3, <3>4
  <2> QED BY <1>3, <2>1 DEF ClientStates
<1>6. /\ server' \in [open : BOOLEAN, last : Nat, batch : SUBSET Event] /\ ~server'.open
      /\ server'.last = server.last \/ server'.last = 0
  BY <1>2, <1>3, <1>4
<1>7. StreamTypeOK'
  <2>1. wire' \in Seq(Event) BY <1>2
  <2> QED BY <1>2, <1>5, <1>6, <2>1 DEF StreamInv, StreamTypeOK, logVars
<1>8. PageHasNoGap' BY <1>6 DEF PageHasNoGap
<1>9. FollowerIsExact'
  <2>1. Position(client.last)' /\ Position(server.last)'
    BY <1>2, <1>5, <1>6 DEF StreamInv, FollowerIsExact, Position
  <2> QED BY <1>2, <1>5, <1>6, <2>1 DEF FollowerIsExact
<1>10. SeenIsExact' BY <1>2, <1>5 DEF StreamInv, SeenIsExact
<1> QED BY <1>2, <1>7, <1>8, <1>9, <1>10 DEF StreamInv
-----------------------------------------------------------------------------
\* The log is empty and no client is connected.
LEMMA StreamInitInv == StreamInit => StreamInv
<1>1. SUFFICES ASSUME StreamInit PROVE StreamInv
  OBVIOUS
<1>2. /\ wire = <<>> /\ seen = <<>> /\ wire \in Seq(Event) /\ seen \in Seq(Event)
      /\ DOMAIN seen = {}
  BY <1>1 DEF StreamInit
<1>3. PICK n \in Nat, b \in SUBSET Event : n = 0 /\ b = {} OBVIOUS
<1>4. server = [open |-> FALSE, last |-> n, batch |-> b] BY <1>1, <1>3 DEF StreamInit, Closed
<1>5. client = [last |-> n, state |-> "connecting", tries |-> n, progressed |-> FALSE]
  BY <1>1, <1>3 DEF StreamInit
<1>6. /\ server \in [open : BOOLEAN, last : Nat, batch : SUBSET Event]
      /\ client \in [last : Nat, state : ClientStates, tries : Nat, progressed : BOOLEAN]
      /\ ~server.open /\ server.last = 0 /\ client.last = 0 /\ client.state = "connecting"
  BY <1>3, <1>4, <1>5 DEF ClientStates
<1>7. StreamTypeOK
  BY <1>1, <1>2, <1>6, FS_EmptySet DEF StreamInit, StreamTypeOK
<1>8. LockOrdersIds /\ PageHasNoGap
  BY <1>1, <1>6 DEF StreamInit, LockOrdersIds, PageHasNoGap
<1>9. FollowerIsExact /\ SeenIsExact
  BY <1>1, <1>2, <1>6 DEF StreamInit, FollowerIsExact, SeenIsExact, Position
<1> QED BY <1>7, <1>8, <1>9 DEF StreamInv

\* Every step of a writer, of the server, of the client and of the network
\* keeps the invariant.
LEMMA StreamNextInv == StreamInv /\ [StreamNext]_streamVars => StreamInv'
<1>1. SUFFICES ASSUME StreamInv, [StreamNext]_streamVars PROVE StreamInv'
  OBVIOUS
<1>2. CASE \/ \E w \in Writers : Begin(w) \/ Rollback(w)
           \/ WriteStatus \/ WorkerDies
  BY <1>1, <1>2, LockSteps
<1>3. ASSUME NEW w \in Writers, NEW type \in {"progress", "terminal"}, Insert(w, type)
      PROVE  StreamInv'
  BY <1>1, <1>3, InsertStep
<1>4. ASSUME NEW w \in Writers, Commit(w) PROVE StreamInv'
  BY <1>1, <1>4, CommitStep
<1>5. CASE Connect BY <1>1, <1>5, ConnectStep
<1>6. CASE SendFrame BY <1>1, <1>6, SendFrameStep
<1>7. CASE PollStream BY <1>1, <1>7, PollStep
<1>8. CASE Receive BY <1>1, <1>8, ReceiveStep
<1>9. CASE \E h \in BOOLEAN : StreamEnds(h) \/ Drop(h) BY <1>1, <1>9, DisconnectStep
<1>10. CASE UNCHANGED streamVars
  BY <1>1, <1>10 DEF streamVars, StreamInv, StreamTypeOK, LockOrdersIds, PageHasNoGap, After,
       FollowerIsExact, Position, WireIsExact, SeenIsExact
<1> QED BY <1>1, <1>2, <1>3, <1>4, <1>5, <1>6, <1>7, <1>8, <1>9, <1>10 DEF StreamNext, Follow

\* Exactly the committed events up to the resume id, in order: whatever the
\* order in which transactions draw ids, commit and roll back, and however
\* often the connection breaks (persist_events.py, routes_events.py, sse.ts).
THEOREM StreamSpecSkipsNothing == StreamSpec => []NothingSkipped
<1>1. StreamInv => NothingSkipped
  BY DEF StreamInv, SeenIsExact, NothingSkipped
<1> QED BY <1>1, StreamInitInv, StreamNextInv, PTL DEF StreamSpec
=============================================================================
