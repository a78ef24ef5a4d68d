---------------------------- MODULE CacheGuards ----------------------------
(***************************************************************************)
(* The guards of the cache (app/common/container/advanced_cache.go):       *)
(* PenetrationProtection, AvalancheProtection, the breaker of the package  *)
(* and the bloom filter.                                                   *)
(***************************************************************************)
EXTENDS Naturals, FiniteSets

CONSTANTS
    Key, Caller,
    blockTime, threshold, window, timeout, failureThreshold,
    size, hashes, Hash,   \* the bloom filter; Hash[k, i]: the md5 of k with seed i
    MaxTime, MaxFailures  \* bounds

VARIABLES
    now,
    blockedKeys,     \* key -> when it was blocked, 0 if it is not
    erasing,         \* callers about to delete a key, under the read lock
    keyOf,           \* caller -> the key it asks for
    missCount, lastCheck,
    breaker,         \* [state, failures, lastFailure]
    bitset, added    \* the filter's bits, and the keys that were added

vars == <<now, blockedKeys, erasing, keyOf, missCount, lastCheck, breaker, bitset, added>>

Init ==
    /\ now = 1 /\ blockedKeys = [k \in Key |-> 0]
    /\ erasing = {} /\ keyOf \in [Caller -> Key]
    /\ missCount = 0 /\ lastCheck = 0
    /\ breaker = [state |-> "closed", failures |-> 0, lastFailure |-> 0]
    /\ bitset = {} /\ added = {}

Tick ==
    /\ now < MaxTime /\ now' = now + 1
    /\ UNCHANGED <<blockedKeys, erasing, keyOf, missCount, lastCheck, breaker, bitset, added>>

-----------------------------------------------------------------------------
\* BlockKey and RecordSet take the write lock, IsBlocked only the read lock.
BlockKey(k) ==
    /\ erasing = {} /\ blockedKeys' = [blockedKeys EXCEPT ![k] = now]
    /\ UNCHANGED <<now, erasing, keyOf, missCount, lastCheck, breaker, bitset, added>>

RecordSet(k) ==
    /\ erasing = {} /\ blockedKeys' = [blockedKeys EXCEPT ![k] = 0]
    /\ UNCHANGED <<now, erasing, keyOf, missCount, lastCheck, breaker, bitset, added>>

Blocked(k) == blockedKeys[k] # 0 /\ now - blockedKeys[k] < blockTime

\* IsBlocked finds a block that is over ...
IsBlocked(c) ==
    /\ c \notin erasing /\ blockedKeys[keyOf[c]] # 0 /\ ~ Blocked(keyOf[c])
    /\ erasing' = erasing \cup {c}
    /\ UNCHANGED <<now, blockedKeys, keyOf, missCount, lastCheck, breaker, bitset, added>>

\* ... and deletes it.
Erase(c) ==
    /\ c \in erasing /\ erasing' = erasing \ {c}
    /\ blockedKeys' = [blockedKeys EXCEPT ![keyOf[c]] = 0]
    /\ UNCHANGED <<now, keyOf, missCount, lastCheck, breaker, bitset, added>>

\* IsAvalanche, called on every miss.
IsAvalanche ==
    LET reset == now - lastCheck > window IN
    /\ missCount' = (IF reset THEN 0 ELSE missCount) + 1
    /\ missCount' <= threshold + 1
    /\ lastCheck' = IF reset THEN now ELSE lastCheck
    /\ UNCHANGED <<now, blockedKeys, erasing, keyOf, breaker, bitset, added>>

-----------------------------------------------------------------------------
\* Mutant: the success of a trial call closes the breaker and keeps the failures.
SucceededOnly(b) ==
    IF b.state = "half-open" THEN [b EXCEPT !.state = "closed"] ELSE [b EXCEPT !.failures = 0]

Succeeded(b) == [b EXCEPT !.state = IF @ = "half-open" THEN "closed" ELSE @, !.failures = 0]

Failed(b) ==
    [state |-> IF b.failures + 1 >= failureThreshold THEN "open" ELSE b.state,
     failures |-> b.failures + 1, lastFailure |-> now]

\* Call runs fn under the lock; a panic of fn leaves the state as it is at that moment.
Call ==
    /\ ~ (breaker.state = "open" /\ now - breaker.lastFailure < timeout)
    /\ LET b == [breaker EXCEPT !.state = IF @ = "open" THEN "half-open" ELSE @] IN
       \/ breaker' = Succeeded(b)
       \/ b.failures < MaxFailures /\ breaker' = Failed(b)
       \/ breaker' = b
    /\ UNCHANGED <<now, blockedKeys, erasing, keyOf, missCount, lastCheck, bitset, added>>

-----------------------------------------------------------------------------
Bits(k) == {Hash[k, i] % size : i \in 0 .. hashes - 1}

Add(k) ==
    /\ k \notin added /\ added' = added \cup {k} /\ bitset' = bitset \cup Bits(k)
    /\ UNCHANGED <<now, blockedKeys, erasing, keyOf, missCount, lastCheck, breaker>>

MayContain(k) == Bits(k) \subseteq bitset

Next ==
    \/ Tick \/ IsAvalanche \/ Call
    \/ \E k \in Key : BlockKey(k) \/ RecordSet(k) \/ Add(k)
    \/ \E c \in Caller : IsBlocked(c) \/ Erase(c)

Spec == Init /\ [][Next]_vars

-----------------------------------------------------------------------------
\* The type invariant of the guards.
TypeOK ==
    /\ now \in 1 .. MaxTime /\ blockedKeys \in [Key -> 0 .. MaxTime]
    /\ erasing \subseteq Caller /\ missCount \in 0 .. threshold + 1
    /\ breaker \in [state : {"closed", "open", "half-open"}, failures : 0 .. MaxFailures,
                    lastFailure : 0 .. MaxTime]
    /\ bitset \subseteq 0 .. size - 1 /\ added \subseteq Key

\* The breaker is out of "closed" exactly as long as the failures in a row reach the
\* threshold, across trial calls, panics and time-outs: a trial call that fails, or that
\* panics, never leaves a breaker that counts from zero or one that is closed too early.
BreakerCounts == breaker.state # "closed" <=> breaker.failures >= failureThreshold

\* The filter never denies a key that was added, whatever keys share its bits.
NoFalseNegative == \A k \in added : MayContain(k)

\* The map of blocked keys is written by one goroutine at a time.
OneWriter == Cardinality(erasing) <= 1
=============================================================================
