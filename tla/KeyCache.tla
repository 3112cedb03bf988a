------------------------------- MODULE KeyCache -------------------------------
(* The signing keys of the identity provider, as an API process caches them   *)
(* (SupabaseTokenVerifier of apps/api/app/supabase_auth.py).                  *)
(*                                                                            *)
(* Request threads share one verifier. A known key is taken from an immutable *)
(* snapshot without the lock; an unknown one is looked for under the lock,    *)
(* which one thread holds while it fetches the published set. Meanwhile the   *)
(* provider rotates its keys. Time is in ticks.                               *)
EXTENDS Integers, Sequences, FiniteSets

CONSTANTS
    Verifiers,    \* request threads
    Kids,         \* key ids
    KeyLife,      \* a cached set is used for less than this long
    KeyPause,     \* time between two attempts to fetch
    FetchTime,    \* a fetch that takes longer is given up
    MaxKeyTime,   \* bound: the clock
    MaxRotations, \* bound: changes of the published set
    NoThread, NoTime

ASSUME KeyAssumption ==
    /\ {KeyLife, KeyPause, FetchTime, MaxKeyTime, MaxRotations} \subseteq Nat
    /\ KeyLife # 0 /\ FetchTime < KeyPause
    /\ NoThread \notin Verifiers /\ NoTime \notin Nat

VARIABLES
    keyClock,    \* monotonic()
    published,   \* external: the keys the provider serves
    since,       \* when each key was last published, or withdrawn
    cachedKeys,  \* _cache: [at, keys]
    attempt,     \* _attempt
    fetchFailed, \* _failed
    keyLock,     \* who holds _lock
    check,       \* each thread's request
    verdict,     \* what the step answered: whether its key was published, since when
    rotations    \* number of rotations so far

keyVars == <<keyClock, published, since, cachedKeys, attempt, fetchFailed, keyLock, check,
             verdict, rotations>>

NoCheck == [pc |-> "idle", kid |-> CHOOSE k \in Kids : TRUE, began |-> 0, keys |-> {}]

NoVerdict == [answer |-> "none", current |-> TRUE, age |-> 0]

\* A step that answers no request.
Silent == verdict' = NoVerdict

KeyInit ==
    /\ keyClock = 0 /\ published \in {{k} : k \in Kids} /\ since = [k \in Kids |-> 0]
    /\ cachedKeys = [at |-> NoTime, keys |-> {}]
    /\ attempt = NoTime /\ fetchFailed = FALSE /\ keyLock = NoThread
    /\ check = [v \in Verifiers |-> NoCheck] /\ rotations = 0
    /\ verdict = NoVerdict

(* ------------------------------- environment ------------------------------ *)
KeyTick ==
    /\ keyClock < MaxKeyTime /\ keyClock' = keyClock + 1
    /\ Silent /\ UNCHANGED <<published, since, cachedKeys, attempt, fetchFailed, keyLock, check,
                             rotations>>

\* The provider publishes another set; some key is always there.
Rotate ==
    /\ rotations < MaxRotations /\ rotations' = rotations + 1
    /\ \E ks \in (SUBSET Kids) \ {{}, published} :
         /\ published' = ks
         /\ since' = [k \in Kids |-> IF (k \in ks) = (k \in published) THEN since[k]
                                     ELSE keyClock]
    /\ Silent /\ UNCHANGED <<keyClock, cachedKeys, attempt, fetchFailed, keyLock, check>>

(* --------------------------------- verify --------------------------------- *)
\* A token names a key; its algorithm, claims and identity are not modelled.
Verify(v) ==
    /\ check[v].pc = "idle"
    /\ \E k \in Kids : check' = [check EXCEPT ![v] = [NoCheck EXCEPT !.pc = "known", !.kid = k]]
    /\ Silent /\ UNCHANGED <<keyClock, published, since, cachedKeys, attempt, fetchFailed, keyLock,
                   rotations>>

\* The answer, and how the key stood with the provider then.
Answer(v, answer) ==
    /\ check' = [check EXCEPT ![v] = NoCheck]
    /\ verdict' = [answer |-> answer, current |-> check[v].kid \in published,
                   age |-> keyClock - since[check[v].kid]]

\* A snapshot is kept for as long as no other replaces it.
ForeverMutant == cachedKeys.keys

\* _fresh.
FreshKeys ==
    IF cachedKeys.at # NoTime /\ keyClock - cachedKeys.at < KeyLife
    THEN cachedKeys.keys ELSE {}

\* _key, before the lock.
UseKnown(v) ==
    /\ check[v].pc = "known"
    /\ IF check[v].kid \in FreshKeys THEN Answer(v, "accepted")
       ELSE check' = [check EXCEPT ![v].pc = "waiting"] /\ Silent
    /\ UNCHANGED <<keyClock, published, since, cachedKeys, attempt, fetchFailed, keyLock,
                   rotations>>

AcquireKeys(v) ==
    /\ check[v].pc = "waiting" /\ keyLock = NoThread
    /\ keyLock' = v /\ check' = [check EXCEPT ![v].pc = "locked"]
    /\ Silent /\ UNCHANGED <<keyClock, published, since, cachedKeys, attempt, fetchFailed, rotations>>

\* acquire(timeout=1).
GiveUpWaiting(v) ==
    /\ check[v].pc = "waiting" /\ keyLock # NoThread
    /\ Answer(v, "unavailable")
    /\ UNCHANGED <<keyClock, published, since, cachedKeys, attempt, fetchFailed, keyLock,
                   rotations>>

RecentAttempt == attempt # NoTime /\ keyClock - attempt < KeyPause

\* _key under the lock, when it can answer from what is known.
AnswerLocked(v) ==
    /\ check[v].pc = "locked"
    /\ check[v].kid \in FreshKeys \/ RecentAttempt
    /\ Answer(v, IF check[v].kid \in FreshKeys THEN "accepted"
                 ELSE IF FreshKeys # {} /\ ~fetchFailed THEN "invalid" ELSE "unavailable")
    /\ keyLock' = NoThread
    /\ UNCHANGED <<keyClock, published, since, cachedKeys, attempt, fetchFailed, rotations>>

BeginFetch(v) ==
    /\ check[v].pc = "locked" /\ check[v].kid \notin FreshKeys /\ ~RecentAttempt
    /\ attempt' = keyClock /\ fetchFailed' = TRUE
    /\ check' = [check EXCEPT ![v].pc = "fetching", ![v].began = keyClock]
    /\ Silent /\ UNCHANGED <<keyClock, published, since, cachedKeys, keyLock, rotations>>

\* _fetch: the provider answers with what it publishes at that moment,
FetchAnswered(v) ==
    /\ check[v].pc = "fetching"
    /\ check' = [check EXCEPT ![v].pc = "read", ![v].keys = published]
    /\ Silent /\ UNCHANGED <<keyClock, published, since, cachedKeys, attempt, fetchFailed, keyLock,
                   rotations>>

\* and the set is cached if it was read in time.
FetchDone(v) ==
    /\ check[v].pc = "read" /\ keyClock - check[v].began <= FetchTime
    /\ cachedKeys' = [at |-> keyClock, keys |-> check[v].keys]
    /\ fetchFailed' = FALSE /\ keyLock' = NoThread
    /\ Answer(v, IF check[v].kid \in check[v].keys THEN "accepted" ELSE "invalid")
    /\ UNCHANGED <<keyClock, published, since, attempt, rotations>>

\* An error, a malformed set, or the deadline.
FetchFailed(v) ==
    /\ check[v].pc \in {"fetching", "read"}
    /\ Answer(v, "unavailable")
    /\ keyLock' = NoThread
    /\ UNCHANGED <<keyClock, published, since, cachedKeys, attempt, fetchFailed, rotations>>

KeyNext ==
    \/ KeyTick \/ Rotate
    \/ \E v \in Verifiers :
         \/ Verify(v) \/ UseKnown(v) \/ AcquireKeys(v) \/ GiveUpWaiting(v)
         \/ AnswerLocked(v) \/ BeginFetch(v)
         \/ FetchAnswered(v) \/ FetchDone(v) \/ FetchFailed(v)

(* ------------------------------- properties ------------------------------- *)
\* A rotation is followed in bounded time, both ways: a withdrawn key is accepted
\* for less than a cache life and a fetch, and a published one is refused as
\* invalid only while it is newer than the last successful fetch; when the keys
\* cannot be had the answer is that verification is unavailable (_key, _fetch).
RotationIsFollowed ==
    /\ verdict.answer = "accepted" /\ ~verdict.current => verdict.age < KeyLife + FetchTime
    /\ verdict.answer = "invalid" /\ verdict.current => verdict.age < KeyPause
=============================================================================
