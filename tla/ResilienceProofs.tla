-------------------------- MODULE ResilienceProofs --------------------------
(***************************************************************************)
(* Proofs about the parts MCResilience checks on small instances, the rate *)
(* limiters excepted (PlatformProofs), and about the registration and      *)
(* discovery of services, for every value of their constants. The breaker  *)
(* of the discovery package is extended; every other theorem is about one  *)
(* of the instances. Their constants and variables have here the names     *)
(* they have in their modules; where two share a name, no theorem is about *)
(* both.                                                                   *)
(***************************************************************************)
EXTENDS CircuitBreaker, Sequences, FiniteSetTheorems, SequenceTheorems,
        WellFoundedInduction, TLAPS

\* What makes the counters inductive: no request in flight belongs to a generation
\* that is still to come, so a new generation starts with nothing in flight; a
\* half-open breaker has counted no more than its probes; and the expiry of an open
\* breaker is its opening plus Timeout.
BreakerInv ==
    /\ TypeOK
    /\ \A c \in Callers : running[c] <= cb.generation
    /\ CountsAddUp
    /\ cb.state = "half-open" => cb.counts.Requests <= MaxRequests
    /\ cb.state = "open" => cb.expiry = openedAt + Timeout

-----------------------------------------------------------------------------
(* The operators of the state machine. *)

\* One outcome is one success or one failure, and no request.
LEMMA Counting ==
    ASSUME NEW n \in Counts
    PROVE  /\ CountRequest(n) \in Counts
           /\ CountRequest(n).Requests = n.Requests + 1
           /\ CountRequest(n).TotalSuccesses = n.TotalSuccesses
           /\ CountRequest(n).TotalFailures = n.TotalFailures
           /\ CountSuccess(n) \in Counts
           /\ CountSuccess(n).Requests = n.Requests
           /\ CountSuccess(n).TotalSuccesses = n.TotalSuccesses + 1
           /\ CountSuccess(n).TotalFailures = n.TotalFailures
           /\ CountFailure(n) \in Counts
           /\ CountFailure(n).Requests = n.Requests
           /\ CountFailure(n).TotalSuccesses = n.TotalSuccesses
           /\ CountFailure(n).TotalFailures = n.TotalFailures + 1
<1>1. /\ CountRequest(n) \in Counts
      /\ CountRequest(n).Requests = n.Requests + 1
      /\ CountRequest(n).TotalSuccesses = n.TotalSuccesses
      /\ CountRequest(n).TotalFailures = n.TotalFailures
  BY DEF CountRequest, Counts
<1>2. /\ CountSuccess(n) \in Counts
      /\ CountSuccess(n).Requests = n.Requests
      /\ CountSuccess(n).TotalSuccesses = n.TotalSuccesses + 1
      /\ CountSuccess(n).TotalFailures = n.TotalFailures
  BY DEF CountSuccess, Counts
<1>3. /\ CountFailure(n) \in Counts
      /\ CountFailure(n).Requests = n.Requests
      /\ CountFailure(n).TotalSuccesses = n.TotalSuccesses
      /\ CountFailure(n).TotalFailures = n.TotalFailures + 1
  BY DEF CountFailure, Counts
<1> QED
  BY <1>1, <1>2, <1>3

\* Replacing the counts of a breaker replaces nothing else.
LEMMA Recounting ==
    ASSUME NEW b \in Breaker, NEW n \in Counts
    PROVE  /\ [b EXCEPT !.counts = n] \in Breaker
           /\ [b EXCEPT !.counts = n].state = b.state
           /\ [b EXCEPT !.counts = n].generation = b.generation
           /\ [b EXCEPT !.counts = n].expiry = b.expiry
           /\ [b EXCEPT !.counts = n].counts = n
BY DEF Breaker

\* A new generation has the next number, no counts and the expiry of its state.
LEMMA NewGeneration ==
    ASSUME NEW b \in Breaker, NEW t \in Nat
    PROVE  /\ ToNewGeneration(b, t) \in Breaker
           /\ ToNewGeneration(b, t).state = b.state
           /\ ToNewGeneration(b, t).generation = b.generation + 1
           /\ ToNewGeneration(b, t).counts = NoCounts
           /\ b.state = "open" => ToNewGeneration(b, t).expiry = t + Timeout
<1>1. Expiry(b.state, t) \in Nat
  BY SettingsAssumption DEF Expiry, Breaker, States, Zero
<1>2. NoCounts \in Counts
  BY DEF NoCounts, Counts
<1>3. b.state = "open" => Expiry(b.state, t) = t + Timeout
  BY DEF Expiry
<1>4. ToNewGeneration(b, t) = [state |-> b.state, generation |-> b.generation + 1,
                               counts |-> NoCounts, expiry |-> Expiry(b.state, t)]
  BY DEF ToNewGeneration, Breaker
<1>5. b.state \in States /\ b.generation + 1 \in Nat \ {0}
  BY DEF Breaker
<1>6. ToNewGeneration(b, t) \in Breaker
  BY <1>1, <1>2, <1>4, <1>5 DEF Breaker
<1> QED
  BY <1>3, <1>4, <1>6

\* setState changes nothing, or enters the new state with a new generation.
LEMMA SettingState ==
    ASSUME NEW b \in Breaker, NEW s \in States, NEW t \in Nat
    PROVE  /\ SetState(b, s, t) \in Breaker
           /\ SetState(b, s, t).state = s
           /\ \/ SetState(b, s, t) = b
              \/ /\ SetState(b, s, t).generation = b.generation + 1
                 /\ SetState(b, s, t).counts = NoCounts
                 /\ s = "open" => SetState(b, s, t).expiry = t + Timeout
<1> DEFINE m == [b EXCEPT !.state = s]
<1>1. m \in Breaker /\ m.state = s /\ m.generation = b.generation
  BY DEF Breaker
<1> HIDE DEF m
<1>2. /\ ToNewGeneration(m, t) \in Breaker
      /\ ToNewGeneration(m, t).state = s
      /\ ToNewGeneration(m, t).generation = b.generation + 1
      /\ ToNewGeneration(m, t).counts = NoCounts
      /\ s = "open" => ToNewGeneration(m, t).expiry = t + Timeout
  BY <1>1, NewGeneration
<1>3. SetState(b, s, t) = IF b.state = s THEN b ELSE ToNewGeneration(m, t)
  BY DEF SetState, m
<1> QED
  BY <1>2, <1>3

\* currentState leaves the breaker alone, or starts a generation that is not open;
\* it leaves the open state only after the expiry.
LEMMA LookingAt ==
    ASSUME NEW b \in Breaker, NEW t \in Nat
    PROVE  /\ CurrentState(b, t) \in Breaker
           /\ \/ CurrentState(b, t) = b
              \/ /\ CurrentState(b, t).generation = b.generation + 1
                 /\ CurrentState(b, t).counts = NoCounts
                 /\ \/ b.state = "closed" /\ CurrentState(b, t).state = "closed"
                    \/ /\ b.state = "open" /\ CurrentState(b, t).state = "half-open"
                       /\ b.expiry < t
<1>1. "half-open" \in States
  BY DEF States
<1>2. CASE b.state = "closed" /\ b.expiry # Zero /\ b.expiry < t
  BY <1>2, NewGeneration DEF CurrentState
<1>3. CASE b.state = "open" /\ b.expiry < t
  <2>1. CurrentState(b, t) = SetState(b, "half-open", t)
    BY <1>3 DEF CurrentState
  <2>2. SetState(b, "half-open", t) # b
    BY <1>1, <1>3, SettingState
  <2> QED
    BY <1>1, <1>3, <2>1, <2>2, SettingState
<1>4. CASE /\ ~(b.state = "closed" /\ b.expiry # Zero /\ b.expiry < t)
           /\ ~(b.state = "open" /\ b.expiry < t)
  BY <1>4 DEF CurrentState
<1> QED
  BY <1>2, <1>3, <1>4

\* An outcome reported under the current generation is counted once, or starts a
\* new generation; a half-open breaker closes only on a success.
LEMMA Settling ==
    ASSUME NEW b \in Breaker, NEW g, NEW ok \in BOOLEAN, NEW t \in Nat
    PROVE  /\ Settle(b, g, ok, t) \in Breaker
           /\ \/ /\ Settle(b, g, ok, t) = b
                 /\ b.generation # g
              \/ /\ b.generation = g
                 /\ Settle(b, g, ok, t).generation = b.generation
                 /\ Settle(b, g, ok, t).state = b.state
                 /\ Settle(b, g, ok, t).expiry = b.expiry
                 /\ Settle(b, g, ok, t).counts.Requests = b.counts.Requests
                 /\ Settle(b, g, ok, t).counts.TotalSuccesses
                       + Settle(b, g, ok, t).counts.TotalFailures
                    = b.counts.TotalSuccesses + b.counts.TotalFailures + 1
              \/ /\ b.generation = g
                 /\ Settle(b, g, ok, t).generation = b.generation + 1
                 /\ Settle(b, g, ok, t).counts = NoCounts
                 /\ \/ Settle(b, g, ok, t).state = "closed" /\ b.state = "half-open"
                    \/ /\ Settle(b, g, ok, t).state = "open" /\ b.state # "open"
                       /\ Settle(b, g, ok, t).expiry = t + Timeout
<1>1. "open" \in States /\ "closed" \in States
  BY DEF States
<1>2. CASE b.generation # g
  BY <1>2 DEF Settle
<1>3. CASE b.generation = g /\ ok
  <2> DEFINE k == [b EXCEPT !.counts = CountSuccess(@)]
  <2>1. /\ k \in Breaker /\ k.state = b.state /\ k.generation = b.generation
        /\ k.expiry = b.expiry /\ k.counts.Requests = b.counts.Requests
        /\ k.counts.TotalSuccesses + k.counts.TotalFailures
           = b.counts.TotalSuccesses + b.counts.TotalFailures + 1
    <3>1. b.counts \in Counts
      BY DEF Breaker
    <3>2. b.counts.TotalSuccesses \in Nat /\ b.counts.TotalFailures \in Nat
      BY <3>1 DEF Counts
    <3>3. CountSuccess(b.counts) \in Counts
      BY <3>1, Counting
    <3>4. /\ k \in Breaker /\ k.state = b.state /\ k.generation = b.generation
          /\ k.expiry = b.expiry /\ k.counts = CountSuccess(b.counts)
      BY <3>3, Recounting
    <3>5. /\ CountSuccess(b.counts).Requests = b.counts.Requests
          /\ CountSuccess(b.counts).TotalSuccesses = b.counts.TotalSuccesses + 1
          /\ CountSuccess(b.counts).TotalFailures = b.counts.TotalFailures
      BY <3>1, Counting
    <3> HIDE DEF k
    <3> QED
      BY <3>2, <3>4, <3>5
  <2>2. Settle(b, g, ok, t)
        = IF b.state = "half-open" THEN SetState(k, "closed", t) ELSE k
    BY <1>3 DEF Settle, OnSuccess
  <2> HIDE DEF k
  <2>3. CASE b.state = "half-open"
    <3>a. "closed" \in States /\ k \in Breaker /\ k.state = "half-open"
      BY <2>1, <2>3 DEF States
    <3>b. SetState(k, "closed", t).state = "closed"
      BY <3>a, SettingState
    <3>1. SetState(k, "closed", t) # k
      BY <3>a, <3>b
    <3>2. Settle(b, g, ok, t) = SetState(k, "closed", t)
      BY <2>2, <2>3
    <3>3. /\ SetState(k, "closed", t) \in Breaker
          /\ SetState(k, "closed", t).state = "closed"
          /\ SetState(k, "closed", t).generation = k.generation + 1
          /\ SetState(k, "closed", t).counts = NoCounts
      BY <1>1, <2>1, <3>1, SettingState, SMTT(30)
    <3> QED
      BY <1>3, <2>1, <2>3, <3>2, <3>3
  <2> QED
    BY <1>3, <2>1, <2>2, <2>3
<1>4. CASE b.generation = g /\ ~ok
  <2> DEFINE k == [b EXCEPT !.counts = CountFailure(@)]
  <2>1. /\ k \in Breaker /\ k.state = b.state /\ k.generation = b.generation
        /\ k.expiry = b.expiry /\ k.counts.Requests = b.counts.Requests
        /\ k.counts.TotalSuccesses + k.counts.TotalFailures
           = b.counts.TotalSuccesses + b.counts.TotalFailures + 1
    <3>1. b.counts \in Counts
      BY DEF Breaker
    <3>2. b.counts.TotalSuccesses \in Nat /\ b.counts.TotalFailures \in Nat
      BY <3>1 DEF Counts
    <3>3. CountFailure(b.counts) \in Counts
      BY <3>1, Counting
    <3>4. /\ k \in Breaker /\ k.state = b.state /\ k.generation = b.generation
          /\ k.expiry = b.expiry /\ k.counts = CountFailure(b.counts)
      BY <3>3, Recounting
    <3>5. /\ CountFailure(b.counts).Requests = b.counts.Requests
          /\ CountFailure(b.counts).TotalSuccesses = b.counts.TotalSuccesses
          /\ CountFailure(b.counts).TotalFailures = b.counts.TotalFailures + 1
      BY <3>1, Counting
    <3> HIDE DEF k
    <3> QED
      BY <3>2, <3>4, <3>5
  <2>2. Settle(b, g, ok, t)
        = IF ReadyToTrip(k.counts) THEN SetState(k, "open", t) ELSE k
    BY <1>4 DEF Settle, OnFailure
  <2> HIDE DEF k
  <2>3. CASE ReadyToTrip(k.counts) /\ k.state # "open"
    <3>1. SetState(k, "open", t) # k
      BY <1>1, <2>1, <2>3, SettingState
    <3> QED
      BY <1>1, <1>4, <2>1, <2>2, <2>3, <3>1, SettingState
  <2>4. CASE ~(ReadyToTrip(k.counts) /\ k.state # "open")
    <3>1. Settle(b, g, ok, t) = k
      BY <2>2, <2>4 DEF SetState
    <3> QED
      BY <1>4, <2>1, <3>1
  <2> QED
    BY <2>3, <2>4
<1> QED
  BY <1>2, <1>3, <1>4

-----------------------------------------------------------------------------
(* The inductive invariant. *)

\* The requests in flight under generation g
Under(g) == {c \in Callers : running[c] = g}

\* What currentState returns satisfies the invariant with the requests in flight as
\* they are; a generation it starts has none.
LEMMA LookingKeeps ==
    ASSUME BreakerInv
    PROVE  LET cur == CurrentState(cb, now) IN
           /\ cur \in Breaker
           /\ cur # cb => cur.generation = cb.generation + 1 /\ Under(cur.generation) = {}
           /\ cur.counts.Requests = cur.counts.TotalSuccesses + cur.counts.TotalFailures
                                    + Cardinality(Under(cur.generation))
           /\ cur.state = "half-open" => cur.counts.Requests <= MaxRequests
           /\ cur.state = "open" => cur = cb
           /\ cb.state = "open" /\ cur # cb => cur.state = "half-open" /\ cb.expiry < now
           /\ cb.state = "half-open" => cur = cb
<1> DEFINE cur == CurrentState(cb, now)
<1>1. cb \in Breaker /\ now \in Nat
  BY DEF BreakerInv, TypeOK
<1>2. /\ cur \in Breaker
      /\ \/ cur = cb
         \/ /\ cur.generation = cb.generation + 1
            /\ cur.counts = NoCounts
            /\ \/ cb.state = "closed" /\ cur.state = "closed"
               \/ cb.state = "open" /\ cur.state = "half-open" /\ cb.expiry < now
  BY <1>1, LookingAt
<1> HIDE DEF cur
<1>3. CASE cur = cb
  BY <1>1, <1>3 DEF cur, BreakerInv, CountsAddUp, InFlight, Under
<1>4. CASE cur # cb
  <2>1. /\ cur.generation = cb.generation + 1 /\ cur.counts = NoCounts
        /\ \/ cb.state = "closed" /\ cur.state = "closed"
           \/ cb.state = "open" /\ cur.state = "half-open" /\ cb.expiry < now
    BY <1>2, <1>4
  <2>2. cb.generation \in Nat /\ \A c \in Callers : running[c] \in Nat /\ running[c] <= cb.generation
    BY DEF BreakerInv, TypeOK, Breaker
  <2>3. Under(cur.generation) = {}
    BY <2>1, <2>2 DEF Under
  <2>4. Cardinality(Under(cur.generation)) = 0
    BY <2>3, FS_EmptySet
  <2>5. /\ cur.counts.Requests = 0 /\ cur.counts.TotalSuccesses = 0
        /\ cur.counts.TotalFailures = 0
    BY <2>1 DEF NoCounts
  <2> QED
    BY <1>2, <2>1, <2>3, <2>4, <2>5, SettingsAssumption DEF cur
<1> QED
  BY <1>3, <1>4

\* The sets of requests in flight are finite.
LEMMA UnderIsFinite == ASSUME NEW g PROVE IsFiniteSet(Under(g)) /\ Cardinality(Under(g)) \in Nat
<1>1. Under(g) \subseteq Callers
  BY DEF Under
<1> QED
  BY <1>1, CallersAssumption, FS_Subset, FS_CardinalityType

\* A new breaker satisfies the invariant.
LEMMA InitInv == Init => BreakerInv
<1> SUFFICES ASSUME Init PROVE BreakerInv
  OBVIOUS
<1> DEFINE b == [state |-> "closed", generation |-> 0, counts |-> NoCounts, expiry |-> Zero]
<1>1. cb = [state |-> "closed", generation |-> 1, counts |-> NoCounts, expiry |-> Expiry("closed", 1)]
  BY DEF Init, ToNewGeneration
<1>2. Expiry("closed", 1) \in Nat
  BY SettingsAssumption DEF Expiry, Zero
<1>3. cb \in Breaker
  BY <1>1, <1>2 DEF Breaker, Counts, NoCounts, States
<1>4. TypeOK
  BY <1>3 DEF TypeOK, Init, Idle, Zero
<1>5. InFlight = {}
  BY <1>1 DEF InFlight, Init, Idle
<1>6. CountsAddUp
  BY <1>1, <1>5, FS_EmptySet DEF CountsAddUp, NoCounts
<1>7. \A c \in Callers : running[c] <= cb.generation
  BY <1>1 DEF Init, Idle
<1> QED
  BY <1>1, <1>4, <1>6, <1>7 DEF BreakerInv

\* beforeRequest admits a call.
LEMMA AdmitKeeps == ASSUME BreakerInv, NEW c \in Callers, Admit(c) PROVE BreakerInv'
<1> DEFINE cur == CurrentState(cb, now)
           n == CountRequest(cur.counts)
<1>1. /\ cur \in Breaker
      /\ cur # cb => cur.generation = cb.generation + 1 /\ Under(cur.generation) = {}
      /\ cur.counts.Requests = cur.counts.TotalSuccesses + cur.counts.TotalFailures
                               + Cardinality(Under(cur.generation))
      /\ cur.state = "open" => cur = cb
  BY LookingKeeps
<1>2. /\ running[c] = Idle /\ ~Refuses(cur) /\ now' = now
      /\ cb' = [cur EXCEPT !.counts = n]
      /\ running' = [running EXCEPT ![c] = cur.generation]
      /\ Remember
  BY DEF Admit
<1> HIDE DEF cur
<1>3. cur.counts \in Counts /\ cur.generation \in Nat /\ cur.generation > 0 /\ cur.state \in States
  BY <1>1 DEF Breaker
<1>4. /\ n \in Counts
      /\ n.Requests = cur.counts.Requests + 1
      /\ n.TotalSuccesses = cur.counts.TotalSuccesses
      /\ n.TotalFailures = cur.counts.TotalFailures
  BY <1>3, Counting
<1> HIDE DEF n
<1>5. /\ cb' \in Breaker /\ cb'.state = cur.state /\ cb'.generation = cur.generation
      /\ cb'.expiry = cur.expiry /\ cb'.counts = n
  BY <1>1, <1>2, <1>4, Recounting
<1>6. running \in [Callers -> Nat] /\ now \in Nat \ {0} /\ cb.generation \in Nat
  BY DEF BreakerInv, TypeOK, Breaker
<1>7. InFlight' = Under(cur.generation) \cup {c} /\ c \notin Under(cur.generation)
  BY <1>2, <1>3, <1>5, <1>6 DEF InFlight, Under, Idle
<1>8. Cardinality(InFlight') = Cardinality(Under(cur.generation)) + 1
  BY <1>7, UnderIsFinite, FS_AddElement
<1>9. CountsAddUp'
  <2>1. Cardinality(Under(cur.generation)) \in Nat
    BY UnderIsFinite
  <2>2. /\ cur.counts.Requests \in Nat /\ cur.counts.TotalSuccesses \in Nat
        /\ cur.counts.TotalFailures \in Nat
    BY <1>3 DEF Counts
  <2> QED
    BY <1>1, <1>4, <1>5, <1>8, <2>1, <2>2 DEF CountsAddUp
<1>10. \A x \in Callers : running'[x] <= cb'.generation
  BY <1>1, <1>2, <1>3, <1>5, <1>6 DEF BreakerInv
<1>11. cb'.state = "half-open" => cb'.counts.Requests <= MaxRequests
  <2>1. cur.counts.Requests \in Nat
    BY <1>3 DEF Counts
  <2> QED
    BY <1>2, <1>4, <1>5, <2>1, SettingsAssumption DEF Refuses
<1>12. cb'.state # "open"
  BY <1>2, <1>5 DEF Refuses
<1>13. TypeOK'
  BY <1>2, <1>3, <1>5, <1>6, <1>12 DEF TypeOK, Remember, BreakerInv
<1> QED
  BY <1>9, <1>10, <1>11, <1>12, <1>13 DEF BreakerInv

\* Refused calls and readers only look at the breaker.
LEMMA LookKeeps ==
    ASSUME BreakerInv, cb' = CurrentState(cb, now), Remember, UNCHANGED <<now, running>>
    PROVE  BreakerInv'
<1> DEFINE cur == CurrentState(cb, now)
<1>1. /\ cur \in Breaker
      /\ cur # cb => cur.generation = cb.generation + 1 /\ Under(cur.generation) = {}
      /\ cur.counts.Requests = cur.counts.TotalSuccesses + cur.counts.TotalFailures
                               + Cardinality(Under(cur.generation))
      /\ cur.state = "half-open" => cur.counts.Requests <= MaxRequests
      /\ cur.state = "open" => cur = cb
  BY LookingKeeps
<1> HIDE DEF cur
<1>2. cb' = cur /\ UNCHANGED now /\ UNCHANGED running
  BY DEF cur
<1>3. CountsAddUp'
  BY <1>1, <1>2 DEF CountsAddUp, InFlight, Under
<1>4. \A x \in Callers : running'[x] <= cb'.generation
  BY <1>1, <1>2 DEF BreakerInv, TypeOK, Breaker
<1>5. openedAt' \in Nat /\ (cb'.state = "open" => cb'.expiry = openedAt' + Timeout)
  BY <1>1, <1>2 DEF Remember, BreakerInv, TypeOK
<1>6. TypeOK'
  BY <1>1, <1>2, <1>5 DEF BreakerInv, TypeOK
<1> QED
  BY <1>1, <1>2, <1>3, <1>4, <1>5, <1>6 DEF BreakerInv

\* afterRequest: the outcome is not counted, or counted, or ends the generation.
LEMMA AfterRequestKeeps ==
    ASSUME BreakerInv, NEW c \in Callers, NEW ok \in BOOLEAN, AfterRequest(c, ok)
    PROVE  BreakerInv'
<1> DEFINE cur == CurrentState(cb, now)
<1>1. /\ cur \in Breaker
      /\ cur # cb => cur.generation = cb.generation + 1 /\ Under(cur.generation) = {}
      /\ cur.counts.Requests = cur.counts.TotalSuccesses + cur.counts.TotalFailures
                               + Cardinality(Under(cur.generation))
      /\ cur.state = "half-open" => cur.counts.Requests <= MaxRequests
      /\ cur.state = "open" => cur = cb
  BY LookingKeeps
<1>2. /\ cb' = Settle(cur, running[c], ok, now)
      /\ running' = [running EXCEPT ![c] = Idle]
      /\ running[c] # Idle
      /\ Remember /\ UNCHANGED now
  BY DEF AfterRequest
<1> HIDE DEF cur
<1>3. /\ running \in [Callers -> Nat] /\ now \in Nat \ {0} /\ cb.generation \in Nat
      /\ cur.generation \in Nat /\ cur.generation > 0 /\ cur.counts \in Counts
      /\ \A x \in Callers : running[x] <= cb.generation
  BY <1>1 DEF BreakerInv, TypeOK, Breaker
<1>4. now \in Nat
  BY <1>3
<1>5. /\ cb' \in Breaker
      /\ \/ cb' = cur /\ cur.generation # running[c]
         \/ /\ cur.generation = running[c] /\ cb'.generation = cur.generation
            /\ cb'.state = cur.state /\ cb'.expiry = cur.expiry
            /\ cb'.counts.Requests = cur.counts.Requests
            /\ cb'.counts.TotalSuccesses + cb'.counts.TotalFailures
               = cur.counts.TotalSuccesses + cur.counts.TotalFailures + 1
         \/ /\ cur.generation = running[c] /\ cb'.generation = cur.generation + 1
            /\ cb'.counts = NoCounts
            /\ \/ cb'.state = "closed" /\ cur.state = "half-open"
               \/ /\ cb'.state = "open" /\ cur.state # "open"
                  /\ cb'.expiry = now + Timeout
  BY <1>1, <1>2, <1>4, Settling
<1>6. cur.generation = running[c] => cur = cb
  BY <1>1 DEF Under
<1>7. openedAt' \in Nat /\ (cb'.state = "open" => cb'.expiry = openedAt' + Timeout)
  BY <1>1, <1>2, <1>5, <1>6 DEF Remember, BreakerInv, TypeOK
<1>8. TypeOK'
  BY <1>2, <1>3, <1>5, <1>7 DEF TypeOK, Idle
<1>9. cb'.generation \in Nat /\ cb'.generation >= cur.generation
  BY <1>3, <1>5
<1>10. \A x \in Callers : running'[x] <= cb'.generation
  <2>1. cur.generation >= cb.generation
    BY <1>1, <1>3
  <2> QED
    BY <1>2, <1>3, <1>9, <2>1 DEF Idle
<1>11. cb'.state = "half-open" => cb'.counts.Requests <= MaxRequests
  BY <1>1, <1>5
<1>12. CountsAddUp'
  <2>1. CASE cb' = cur /\ cur.generation # running[c]
    <3>1. InFlight' = Under(cur.generation)
      BY <1>2, <1>3, <2>1 DEF InFlight, Under, Idle
    <3> QED
      BY <1>1, <2>1, <3>1 DEF CountsAddUp
  <2>2. CASE /\ cur.generation = running[c] /\ cb'.generation = cur.generation
             /\ cb'.counts.Requests = cur.counts.Requests
             /\ cb'.counts.TotalSuccesses + cb'.counts.TotalFailures
                = cur.counts.TotalSuccesses + cur.counts.TotalFailures + 1
    <3>1. InFlight' = Under(cur.generation) \ {c} /\ c \in Under(cur.generation)
      BY <1>2, <1>3, <2>2 DEF InFlight, Under, Idle
    <3>2. Cardinality(InFlight') = Cardinality(Under(cur.generation)) - 1
      BY <3>1, UnderIsFinite, FS_RemoveElement
    <3>3. Cardinality(Under(cur.generation)) \in Nat
      BY UnderIsFinite
    <3>4. /\ cur.counts.Requests \in Nat /\ cur.counts.TotalSuccesses \in Nat
          /\ cur.counts.TotalFailures \in Nat
      BY <1>3 DEF Counts
    <3>5. cb'.counts \in Counts
      BY <1>5 DEF Breaker
    <3>6. cb'.counts.TotalSuccesses \in Nat /\ cb'.counts.TotalFailures \in Nat
      BY <3>5 DEF Counts
    <3> QED
      BY <1>1, <2>2, <3>2, <3>3, <3>4, <3>6 DEF CountsAddUp
  <2>3. CASE cur.generation = running[c] /\ cb'.generation = cur.generation + 1 /\ cb'.counts = NoCounts
    <3>1. InFlight' = {}
      BY <1>2, <1>3, <1>6, <2>3 DEF InFlight, Idle
    <3>2. Cardinality(InFlight') = 0
      BY <3>1, FS_EmptySet
    <3> QED
      BY <2>3, <3>2 DEF CountsAddUp, NoCounts
  <2> QED
    BY <1>5, <2>1, <2>2, <2>3
<1> QED
  BY <1>7, <1>8, <1>10, <1>11, <1>12 DEF BreakerInv

\* Every step keeps the invariant.
LEMMA NextInv == BreakerInv /\ [Next]_vars => BreakerInv'
<1> SUFFICES ASSUME BreakerInv, [Next]_vars PROVE BreakerInv'
  OBVIOUS
<1>1. ASSUME NEW c \in Callers, Admit(c) PROVE BreakerInv'
  BY <1>1, AdmitKeeps
<1>2. ASSUME NEW c \in Callers, Refuse(c) PROVE BreakerInv'
  BY <1>2, LookKeeps DEF Refuse
<1>3. ASSUME NEW c \in Callers, NEW ok \in BOOLEAN, AfterRequest(c, ok) PROVE BreakerInv'
  BY <1>3, AfterRequestKeeps
<1>4. ASSUME Read PROVE BreakerInv'
  BY <1>4, LookKeeps DEF Read
<1>5. ASSUME Tick PROVE BreakerInv'
  BY <1>5 DEF Tick, BreakerInv, TypeOK, CountsAddUp, InFlight
<1>6. ASSUME UNCHANGED vars PROVE BreakerInv'
  BY <1>6 DEF vars, BreakerInv, TypeOK, CountsAddUp, InFlight
<1> QED
  BY <1>1, <1>2, <1>3, <1>4, <1>5, <1>6 DEF Next

\* The breaker and its callers are well typed, the counters of a generation account
\* for its own requests, and so no more than MaxRequests probes are in flight.
THEOREM BreakerInvHolds == Spec => []BreakerInv
BY InitInv, NextInv, PTL DEF Spec

\* Typing of the breaker.
THEOREM Typing == Spec => []TypeOK
<1>1. BreakerInv => TypeOK
  BY DEF BreakerInv
<1> QED
  BY <1>1, BreakerInvHolds, PTL

\* The counters of a generation are those of its own requests, for any number of
\* callers and whatever older requests are doing (afterRequest).
THEOREM CountSafety == Spec => []CountsAddUp
<1>1. BreakerInv => CountsAddUp
  BY DEF BreakerInv
<1> QED
  BY <1>1, BreakerInvHolds, PTL

\* At most MaxRequests probes of a half-open breaker are in flight (beforeRequest).
THEOREM ProbeSafety == Spec => []ProbesBounded
<1>1. BreakerInv => ProbesBounded
  <2> SUFFICES ASSUME BreakerInv, cb.state = "half-open" PROVE Cardinality(InFlight) <= MaxRequests
    BY DEF ProbesBounded
  <2>1. /\ cb.counts.Requests = cb.counts.TotalSuccesses + cb.counts.TotalFailures
                                 + Cardinality(InFlight)
        /\ cb.counts.Requests <= MaxRequests
    BY DEF BreakerInv, CountsAddUp
  <2>2. cb.counts \in Counts
    BY DEF BreakerInv, TypeOK, Breaker
  <2>3. /\ cb.counts.Requests \in Nat /\ cb.counts.TotalSuccesses \in Nat
        /\ cb.counts.TotalFailures \in Nat
    BY <2>2 DEF Counts
  <2>4. InFlight = Under(cb.generation)
    BY DEF InFlight, Under
  <2>5. Cardinality(InFlight) \in Nat
    BY <2>4, UnderIsFinite
  <2> QED
    BY <2>1, <2>3, <2>5, SettingsAssumption
<1> QED
  BY <1>1, BreakerInvHolds, PTL

\* Only a probe of its own closes a half-open breaker (onSuccess under the generation
\* check of afterRequest).
THEOREM ProbesClose == Spec => OnlyProbesClose
<1> DEFINE A == cb.state = "half-open" /\ cb'.state = "closed"
                => \E c \in InFlight : running'[c] = Idle
<1>1. BreakerInv /\ [Next]_vars => A
  <2> SUFFICES ASSUME BreakerInv, Next, cb.state = "half-open", cb'.state = "closed"
               PROVE  \E c \in InFlight : running'[c] = Idle
    BY DEF vars
  <2>1. cb \in Breaker /\ now \in Nat /\ running \in [Callers -> Nat] /\ CurrentState(cb, now) = cb
    BY LookingKeeps DEF BreakerInv, TypeOK
  <2>2. cb' # cb
    OBVIOUS
  <2>3. ASSUME NEW c \in Callers, Admit(c) PROVE FALSE
    <3>1. cb.counts \in Counts
      BY <2>1 DEF Breaker
    <3>2. cb' = [cb EXCEPT !.counts = CountRequest(cb.counts)] /\ CountRequest(cb.counts) \in Counts
      BY <2>1, <2>3, <3>1, Counting DEF Admit
    <3> QED
      BY <2>1, <3>2, Recounting
  <2>4. ASSUME NEW c \in Callers, Refuse(c) PROVE FALSE
    BY <2>1, <2>2, <2>4 DEF Refuse
  <2>5. ASSUME Read \/ Tick PROVE FALSE
    BY <2>1, <2>2, <2>5 DEF Read, Tick
  <2>6. ASSUME NEW c \in Callers, NEW ok \in BOOLEAN, AfterRequest(c, ok)
        PROVE  c \in InFlight /\ running'[c] = Idle
    <3>1. cb' = Settle(cb, running[c], ok, now) /\ running' = [running EXCEPT ![c] = Idle]
      BY <2>1, <2>6 DEF AfterRequest
    <3>2. cb.generation = running[c]
      BY <2>2, <3>1 DEF Settle
    <3> QED
      BY <2>1, <3>1, <3>2 DEF InFlight
  <2> QED
    BY <2>3, <2>4, <2>5, <2>6 DEF Next
<1> QED
  BY <1>1, BreakerInvHolds, PTL DEF Spec, OnlyProbesClose

\* An open breaker becomes half-open, and only after Timeout (toNewGeneration's expiry
\* and currentState).
THEOREM OpenDwell == Spec => OpenForTimeout
<1>1. BreakerInv /\ [Next]_vars
      => (cb.state = "open" /\ cb'.state # "open"
          => cb'.state = "half-open" /\ now > openedAt + Timeout)
  <2> SUFFICES ASSUME BreakerInv, Next, cb.state = "open", cb'.state # "open"
               PROVE  cb'.state = "half-open" /\ now > openedAt + Timeout
    BY DEF vars
  <2> DEFINE cur == CurrentState(cb, now)
  <2>1. /\ cur \in Breaker
        /\ cur # cb => cur.state = "half-open" /\ cb.expiry < now
        /\ cur # cb => Under(cur.generation) = {}
    BY LookingKeeps
  <2>2. /\ cb.expiry = openedAt + Timeout /\ now \in Nat /\ openedAt \in Nat
        /\ running \in [Callers -> Nat]
    BY DEF BreakerInv, TypeOK
  <2> HIDE DEF cur
  <2>3. SUFFICES cb'.state = cur.state
    BY <2>1, <2>2, SettingsAssumption
  <2>4. ASSUME NEW c \in Callers, Admit(c) PROVE cb'.state = cur.state
    <3>1. cur.counts \in Counts
      BY <2>1 DEF Breaker
    <3>2. cb' = [cur EXCEPT !.counts = CountRequest(cur.counts)] /\ CountRequest(cur.counts) \in Counts
      BY <2>4, <3>1, Counting DEF Admit, cur
    <3> QED
      BY <2>1, <3>2, Recounting
  <2>5. ASSUME NEW c \in Callers, Refuse(c) PROVE cb'.state = cur.state
    BY <2>5 DEF Refuse, cur
  <2>6. ASSUME Read PROVE cb'.state = cur.state
    BY <2>6 DEF Read, cur
  <2>7. ASSUME Tick PROVE FALSE
    BY <2>7 DEF Tick
  <2>8. ASSUME NEW c \in Callers, NEW ok \in BOOLEAN, AfterRequest(c, ok)
        PROVE  cb'.state = cur.state
    <3>1. cb' = Settle(cur, running[c], ok, now)
      BY <2>8 DEF AfterRequest, cur
    <3>2. CASE cur = cb
      <4>1. \/ cb' = cur
            \/ cb'.state = cur.state
            \/ cur.state = "half-open"
            \/ cb'.state = "open"
        BY <2>1, <2>2, <3>1, Settling
      <4> QED
        BY <3>2, <4>1
    <3>3. CASE cur # cb
      <4>1. cur.generation # running[c]
        BY <2>1, <3>3 DEF Under
      <4> QED
        BY <3>1, <4>1 DEF Settle
    <3> QED
      BY <3>2, <3>3
  <2> QED
    BY <2>4, <2>5, <2>6, <2>7, <2>8 DEF Next
<1> QED
  BY <1>1, BreakerInvHolds, PTL DEF Spec, OpenForTimeout

\* A half-open breaker whose probes all failed without tripping it never lets another
\* call through, whatever happens (beforeRequest, and toNewGeneration's zero expiry).
THEOREM WedgedForGood == Spec => WedgedIsForever
<1>1. BreakerInv /\ [Next]_vars => (Wedged => Wedged')
  <2> SUFFICES ASSUME BreakerInv, Next, Wedged PROVE Wedged'
    BY DEF vars, Wedged, InFlight
  <2>1. cb \in Breaker /\ running \in [Callers -> Nat] /\ CurrentState(cb, now) = cb
    BY LookingKeeps DEF BreakerInv, TypeOK, Wedged
  <2>2. cb.generation # 0
    BY <2>1 DEF Breaker
  <2>3. ASSUME NEW c \in Callers, Admit(c) PROVE FALSE
    BY <2>1, <2>3 DEF Admit, Refuses, Wedged
  <2>4. ASSUME NEW c \in Callers, Refuse(c) PROVE Wedged'
    BY <2>1, <2>4 DEF Refuse, Wedged, InFlight
  <2>5. ASSUME Read \/ Tick PROVE Wedged'
    BY <2>1, <2>5 DEF Read, Tick, Wedged, InFlight
  <2>6. ASSUME NEW c \in Callers, NEW ok \in BOOLEAN, AfterRequest(c, ok) PROVE Wedged'
    <3>1. cb' = cb
      BY <2>1, <2>6 DEF AfterRequest, Settle, Wedged, InFlight
    <3>2. running' = [running EXCEPT ![c] = Idle]
      BY <2>6 DEF AfterRequest
    <3> QED
      BY <2>1, <2>2, <3>1, <3>2 DEF Wedged, InFlight, Idle
  <2> QED
    BY <2>3, <2>4, <2>5, <2>6 DEF Next
<1> QED
  BY <1>1, BreakerInvHolds, PTL DEF Spec, WedgedIsForever

-----------------------------------------------------------------------------
(***************************************************************************)
(* WorkerPool, for any number of workers, jobs and places in the queue.    *)
(***************************************************************************)
CONSTANTS N, Cap, Job

VARIABLES jobQueue, workerPool, ctxDone, dpc, djob, dworker, wpc, wjob, wctxDone, spc,
          answer, executed

Pool == INSTANCE WorkerPool

\* Which places hold a job, and that none holds one another holds: what OnePlace says
\* without counting.
Queued(j) == \E i \in DOMAIN jobQueue : jobQueue[i] = j
AtWorker(j) == \E w \in Pool!Worker : wjob[w] = j

Apart ==
    /\ \A i, k \in DOMAIN jobQueue : jobQueue[i] = jobQueue[k] => i = k
    /\ \A v, w \in Pool!Worker : wjob[v] = wjob[w] /\ wjob[v] # Pool!NoJob => v = w
    /\ \A j \in Job :
          /\ Queued(j) => djob # j /\ ~AtWorker(j) /\ j \notin executed
          /\ djob = j => ~AtWorker(j) /\ j \notin executed
          /\ AtWorker(j) => j \notin executed

Known ==
    \A j \in Job :
        answer[j] = "accepted" <=> Queued(j) \/ djob = j \/ AtWorker(j) \/ j \in executed

\* A goroutine has a job in hand exactly between the receive and the send or the return.
InHand ==
    /\ djob # Pool!NoJob <=> dpc \in {"worker", "hand"}
    /\ \A w \in Pool!Worker : wjob[w] # Pool!NoJob <=> wpc[w] = "execute"

JobInv == Apart /\ Known /\ InHand

\* While the dispatcher lives the workers in the pool channel wait, each listed once, and
\* so does the one it has taken.
PoolInv ==
    dpc # "gone" =>
        /\ \A i \in DOMAIN workerPool : wpc[workerPool[i]] = "wait"
        /\ \A i, k \in DOMAIN workerPool : workerPool[i] = workerPool[k] => i = k
        /\ dpc = "hand" => /\ wpc[dworker] = "wait"
                           /\ \A i \in DOMAIN workerPool : workerPool[i] # dworker

\* Stop ends the dispatcher before it cancels the first worker, and the workers in turn.
StopInv ==
    /\ spc.at \in {"cancel", "stop", "returned"} => dpc = "gone"
    /\ \A w \in Pool!Worker :
          wctxDone[w] \/ wpc[w] = "gone" => spc.at \in {"cancel", "stop", "returned"}
    /\ \A w \in Pool!Worker : w < spc.worker => wpc[w] = "gone"
    /\ spc.at \in {"idle", "quit"} => spc.worker = 1
    /\ spc.at = "returned" => \A w \in Pool!Worker : wpc[w] = "gone"

WorkerPoolInv == Pool!TypeOK /\ JobInv /\ PoolInv /\ StopInv

\* What a channel holds after a send.
LEMMA Sent ==
    ASSUME NEW S, NEW q \in Seq(S), NEW x \in S
    PROVE  /\ Append(q, x) \in Seq(S) /\ Len(Append(q, x)) = Len(q) + 1
           /\ DOMAIN Append(q, x) = 1 .. Len(q) + 1
           /\ DOMAIN q = 1 .. Len(q)
           /\ Append(q, x)[Len(q) + 1] = x
           /\ \A i \in 1 .. Len(q) : Append(q, x)[i] = q[i] /\ i # Len(q) + 1
  OBVIOUS

\* What it holds after a receive.
LEMMA Received ==
    ASSUME NEW S, NEW q \in Seq(S), q # <<>>
    PROVE  /\ Head(q) \in S /\ Head(q) = q[1] /\ 1 \in DOMAIN q
           /\ Tail(q) \in Seq(S) /\ Len(Tail(q)) < Len(q)
           /\ \A i \in DOMAIN Tail(q) : i + 1 \in DOMAIN q /\ i + 1 # 1 /\ Tail(q)[i] = q[i + 1]
           /\ \A i \in DOMAIN q : i # 1 => i - 1 \in DOMAIN Tail(q) /\ Tail(q)[i - 1] = q[i]
           /\ \A i, k \in DOMAIN Tail(q) : i + 1 = k + 1 => i = k
  OBVIOUS

\* The initial state has the invariant.
LEMMA WorkerPoolInit ==
    ASSUME N \in Nat \ {0}, Cap \in Nat, Pool!NoJob \notin Job, Pool!Init
    PROVE  WorkerPoolInv
  <1> USE DEF Pool!Init, Pool!Worker, Pool!NoJob
  <1>1. Pool!TypeOK
    <2>1. /\ jobQueue \in Seq(Job) /\ Len(jobQueue) = 0
          /\ workerPool \in Seq(Pool!Worker) /\ Len(workerPool) = 0
      OBVIOUS
    <2>2. spc \in [at : {"idle", "quit", "cancel", "stop", "returned"}, worker : Pool!Worker]
      OBVIOUS
    <2>3. /\ wpc \in [Pool!Worker -> {"register", "wait", "execute", "gone"}]
          /\ wjob \in [Pool!Worker -> Job \cup {Pool!NoJob}]
          /\ wctxDone \in [Pool!Worker -> BOOLEAN]
          /\ answer \in [Job -> {"none", "accepted", "rejected"}]
      OBVIOUS
    <2>4. Len(jobQueue) <= Cap /\ Len(workerPool) <= N /\ 1 \in Pool!Worker
      BY <2>1
    <2>5. ctxDone \in BOOLEAN /\ executed \subseteq Job
      OBVIOUS
    <2> HIDE DEF Pool!Worker
    <2> QED
      BY <2>1, <2>2, <2>3, <2>4, <2>5 DEF Pool!TypeOK
  <1>2. JobInv
    BY DEF JobInv, Apart, Known, InHand, Queued, AtWorker
  <1>3. PoolInv /\ StopInv
    BY DEF PoolInv, StopInv
  <1> QED
    BY <1>1, <1>2, <1>3 DEF WorkerPoolInv

\* Every step of a goroutine keeps the types.
LEMMA WorkerPoolTyped ==
    ASSUME N \in Nat \ {0}, Cap \in Nat, Pool!NoJob \notin Job, WorkerPoolInv, Pool!Next
    PROVE  Pool!TypeOK'
  <1> USE DEF WorkerPoolInv, Pool!TypeOK, Pool!Worker, Pool!pool, Pool!dispatcher, Pool!workers
  <1>1. ASSUME NEW w \in Pool!Worker, Pool!Register(w) PROVE Pool!TypeOK'
    BY <1>1, Sent DEF Pool!Register
  <1>2. ASSUME NEW w \in Pool!Worker, Pool!Finish(w) PROVE Pool!TypeOK'
    BY <1>2 DEF Pool!Finish, JobInv, InHand
  <1>3. ASSUME NEW w \in Pool!Worker, Pool!WorkerDone(w) PROVE Pool!TypeOK'
    BY <1>3 DEF Pool!WorkerDone
  <1>4. CASE Pool!TakeJob
    BY <1>4, Received DEF Pool!TakeJob, Pool!RestOfQueue
  <1>5. CASE Pool!TakeWorker
    BY <1>5, Received DEF Pool!TakeWorker, Pool!RestOfPool
  <1>6. CASE Pool!HandOver
    BY <1>6 DEF Pool!HandOver
  <1>7. CASE Pool!DispatchDone
    BY <1>7 DEF Pool!DispatchDone
  <1>8. CASE Pool!Stop
    <2>1. CASE Pool!StopCancel
      BY <2>1 DEF Pool!StopCancel
    <2>2. CASE Pool!StopDispatcher
      BY <2>2 DEF Pool!StopDispatcher
    <2>3. CASE Pool!CancelWorker
      BY <2>3 DEF Pool!CancelWorker
    <2>4. CASE Pool!StopWorker
      <3>1. spc.worker \in 1 .. N /\ wpc' = [wpc EXCEPT ![spc.worker] = "gone"]
        BY <2>4 DEF Pool!StopWorker
      <3>2. spc' \in [at : {"cancel", "returned"}, worker : Pool!Worker]
        BY <2>4, <3>1 DEF Pool!StopWorker, Pool!NextToStop
      <3> QED
        BY <2>4, <3>1, <3>2 DEF Pool!StopWorker
    <2> QED
      BY <1>8, <2>1, <2>2, <2>3, <2>4 DEF Pool!Stop
  <1>9. ASSUME NEW j \in Job, Pool!Accept(j) PROVE Pool!TypeOK'
    BY <1>9, Sent DEF Pool!Accept, Pool!HasRoom
  <1>10. ASSUME NEW j \in Job, NEW timeout \in BOOLEAN, Pool!Reject(j, timeout) PROVE Pool!TypeOK'
    BY <1>10 DEF Pool!Reject
  <1> QED
    BY <1>1, <1>2, <1>3, <1>4, <1>5, <1>6, <1>7, <1>8, <1>9, <1>10
    DEF Pool!Next, Pool!WorkerStep, Pool!Dispatch

\* A step that moves no job keeps every job where it is.
LEMMA NothingMoves ==
    ASSUME Apart /\ Known, UNCHANGED <<jobQueue, djob, wjob, executed, answer>>
    PROVE  Apart' /\ Known'
  BY DEF Apart, Known, Queued, AtWorker

\* No step puts a job into a second place or drops it.
LEMMA WorkerPoolJobs ==
    ASSUME N \in Nat \ {0}, Cap \in Nat, Pool!NoJob \notin Job, WorkerPoolInv, Pool!Next
    PROVE  JobInv'
  <1> Pool!TypeOK /\ Apart /\ Known /\ InHand
    BY DEF WorkerPoolInv, JobInv
  <1> USE DEF JobInv, Pool!pool, Pool!dispatcher, Pool!workers
  <1>1. ASSUME NEW w \in Pool!Worker, Pool!Register(w) \/ Pool!WorkerDone(w) PROVE JobInv'
    BY <1>1, NothingMoves DEF Pool!Register, Pool!WorkerDone, InHand, Pool!TypeOK
  <1>2. ASSUME NEW w \in Pool!Worker, Pool!Finish(w) PROVE JobInv'
    <2>1. /\ wjob[w] \in Job /\ wjob[w] # Pool!NoJob
          /\ executed' = executed \cup {wjob[w]} /\ wjob' = [wjob EXCEPT ![w] = Pool!NoJob]
          /\ UNCHANGED <<jobQueue, djob, answer>>
      BY <1>2 DEF Pool!Finish, InHand, Pool!TypeOK
    <2>2. \A j \in Job : Queued(j)' <=> Queued(j)
      BY <2>1 DEF Queued
    <2>3. \A j \in Job : AtWorker(j)' <=> AtWorker(j) /\ j # wjob[w]
      BY <2>1 DEF AtWorker, Apart, Pool!TypeOK
    <2>4. Apart'
      BY <2>1, <2>2, <2>3 DEF Apart, AtWorker, Pool!TypeOK
    <2>5. Known'
      BY <2>1, <2>2, <2>3 DEF Known, AtWorker
    <2>6. InHand'
      BY <1>2 DEF Pool!Finish, InHand, Pool!TypeOK
    <2> QED
      BY <2>4, <2>5, <2>6
  <1>3. CASE Pool!TakeJob
    <2>1. /\ djob = Pool!NoJob /\ djob' \in Job /\ djob' # Pool!NoJob
          /\ djob' = jobQueue[1] /\ 1 \in DOMAIN jobQueue
          /\ UNCHANGED <<wpc, wjob, answer, executed>>
      BY <1>3, Received DEF Pool!TakeJob, InHand, Pool!TypeOK
    <2>2. /\ \A i \in DOMAIN jobQueue' :
                i + 1 \in DOMAIN jobQueue /\ i + 1 # 1 /\ jobQueue'[i] = jobQueue[i + 1]
          /\ \A i \in DOMAIN jobQueue :
                i # 1 => i - 1 \in DOMAIN jobQueue' /\ jobQueue'[i - 1] = jobQueue[i]
          /\ \A i, k \in DOMAIN jobQueue' : i + 1 = k + 1 => i = k
      BY <1>3, Received DEF Pool!TakeJob, Pool!RestOfQueue, Pool!TypeOK
    <2>3. \A j \in Job : Queued(j) <=> Queued(j)' \/ djob' = j
      BY <2>1, <2>2 DEF Queued
    <2>4. \A i, k \in DOMAIN jobQueue' : jobQueue'[i] = jobQueue'[k] => i = k
      BY <2>2 DEF Apart
    <2>5. \A j \in Job : Queued(j)' => djob' # j
      BY <2>1, <2>2 DEF Apart, Queued
    <2>6. \A j \in Job : AtWorker(j)' <=> AtWorker(j)
      BY <2>1 DEF AtWorker
    <2>7. Apart'
      BY <2>1, <2>3, <2>4, <2>5, <2>6 DEF Apart
    <2>8. Known'
      BY <2>1, <2>3, <2>6 DEF Known
    <2>9. InHand'
      BY <1>3, <2>1 DEF Pool!TakeJob, InHand
    <2> QED
      BY <2>7, <2>8, <2>9
  <1>4. CASE Pool!TakeWorker \/ Pool!DispatchDone
    BY <1>4, NothingMoves DEF Pool!TakeWorker, Pool!DispatchDone, InHand
  <1>5. CASE Pool!HandOver
    <2>1. /\ dworker \in Pool!Worker
          /\ djob \in Job /\ djob # Pool!NoJob /\ wjob[dworker] = Pool!NoJob
          /\ wjob' = [wjob EXCEPT ![dworker] = djob] /\ djob' = Pool!NoJob
          /\ UNCHANGED <<jobQueue, answer, executed>>
      BY <1>5 DEF Pool!HandOver, InHand, Pool!TypeOK
    <2>2. \A j \in Job : Queued(j)' <=> Queued(j)
      BY <2>1 DEF Queued
    <2>3. \A j \in Job : AtWorker(j)' <=> AtWorker(j) \/ j = djob
      BY <2>1 DEF AtWorker, Pool!TypeOK
    <2>4. \A v, w \in Pool!Worker : wjob'[v] = wjob'[w] /\ wjob'[v] # Pool!NoJob => v = w
      BY <2>1 DEF Apart, AtWorker, Pool!TypeOK
    <2>5. Apart'
      BY <2>1, <2>2, <2>3, <2>4 DEF Apart
    <2>6. Known'
      BY <2>1, <2>2, <2>3 DEF Known
    <2>7. InHand'
      BY <1>5, <2>1 DEF Pool!HandOver, InHand, Pool!TypeOK
    <2> QED
      BY <2>5, <2>6, <2>7
  <1>6. CASE Pool!Stop
    <2>1. CASE Pool!StopCancel \/ Pool!StopDispatcher \/ Pool!CancelWorker
      BY <2>1, NothingMoves DEF Pool!StopCancel, Pool!StopDispatcher, Pool!CancelWorker, InHand
    <2>2. CASE Pool!StopWorker
      BY <2>2, NothingMoves DEF Pool!StopWorker, InHand, Pool!TypeOK
    <2> QED
      BY <1>6, <2>1, <2>2 DEF Pool!Stop
  <1>7. ASSUME NEW j \in Job, Pool!Accept(j) PROVE JobInv'
    <2>1. /\ answer[j] = "none" /\ answer' = [answer EXCEPT ![j] = "accepted"]
          /\ UNCHANGED <<dpc, djob, wpc, wjob, executed>>
      BY <1>7 DEF Pool!Accept
    <2>2. /\ DOMAIN jobQueue = 1 .. Len(jobQueue) /\ DOMAIN jobQueue' = 1 .. Len(jobQueue) + 1
          /\ Len(jobQueue) \in Nat /\ jobQueue'[Len(jobQueue) + 1] = j
          /\ \A i \in 1 .. Len(jobQueue) : jobQueue'[i] = jobQueue[i]
      BY <1>7, Sent DEF Pool!Accept, Pool!TypeOK
    <2>3. \A k \in Job : Queued(k)' <=> Queued(k) \/ k = j
      BY <2>2 DEF Queued
    <2>4. ~Queued(j) /\ djob # j /\ ~AtWorker(j) /\ j \notin executed
      BY <2>1 DEF Known
    <2>5. \A i, k \in DOMAIN jobQueue' : jobQueue'[i] = jobQueue'[k] => i = k
      BY <2>2, <2>4 DEF Apart, Queued
    <2>6. \A k \in Job : AtWorker(k)' <=> AtWorker(k)
      BY <2>1 DEF AtWorker
    <2>7. Apart'
      BY <2>1, <2>3, <2>4, <2>5, <2>6 DEF Apart
    <2>8. Known'
      BY <2>1, <2>3, <2>6 DEF Known, Pool!TypeOK
    <2>9. InHand'
      BY <2>1 DEF InHand
    <2> QED
      BY <2>7, <2>8, <2>9
  <1>8. ASSUME NEW j \in Job, NEW timeout \in BOOLEAN, Pool!Reject(j, timeout) PROVE JobInv'
    BY <1>8 DEF Pool!Reject, Apart, Known, InHand, Queued, AtWorker, Pool!TypeOK
  <1> QED
    BY <1>1, <1>2, <1>3, <1>4, <1>5, <1>6, <1>7, <1>8 DEF Pool!Next, Pool!WorkerStep,
       Pool!Dispatch

\* A worker that is listed or taken stays until the dispatcher has left.
LEMMA WorkerPoolListed ==
    ASSUME N \in Nat \ {0}, Cap \in Nat, WorkerPoolInv, Pool!Next
    PROVE  PoolInv'
  <1> USE DEF WorkerPoolInv, Pool!TypeOK, PoolInv, Pool!pool, Pool!dispatcher, Pool!workers
  <1>1. ASSUME NEW w \in Pool!Worker, Pool!Register(w) PROVE PoolInv'
    BY <1>1, Sent DEF Pool!Register
  <1>2. ASSUME NEW w \in Pool!Worker, Pool!Finish(w) PROVE PoolInv'
    BY <1>2 DEF Pool!Finish
  <1>3. ASSUME NEW w \in Pool!Worker, Pool!WorkerDone(w) PROVE PoolInv'
    BY <1>3 DEF Pool!WorkerDone, StopInv
  <1>4. CASE Pool!TakeJob
    BY <1>4 DEF Pool!TakeJob
  <1>5. CASE Pool!TakeWorker
    BY <1>5, Received DEF Pool!TakeWorker, Pool!RestOfPool
  <1>6. CASE Pool!HandOver
    BY <1>6 DEF Pool!HandOver
  <1>7. CASE Pool!DispatchDone
    BY <1>7 DEF Pool!DispatchDone
  <1>8. CASE Pool!Stop
    BY <1>8 DEF Pool!Stop, Pool!StopCancel, Pool!StopDispatcher, Pool!CancelWorker,
       Pool!StopWorker, StopInv
  <1>9. ASSUME NEW j \in Job, Pool!Accept(j) PROVE PoolInv'
    BY <1>9 DEF Pool!Accept
  <1>10. ASSUME NEW j \in Job, NEW timeout \in BOOLEAN, Pool!Reject(j, timeout) PROVE PoolInv'
    BY <1>10 DEF Pool!Reject
  <1> QED
    BY <1>1, <1>2, <1>3, <1>4, <1>5, <1>6, <1>7, <1>8, <1>9, <1>10
    DEF Pool!Next, Pool!WorkerStep, Pool!Dispatch

\* Stop passes the workers in order, behind the dispatcher.
LEMMA WorkerPoolStops ==
    ASSUME N \in Nat \ {0}, Cap \in Nat, WorkerPoolInv, Pool!Next
    PROVE  StopInv'
  <1> USE DEF WorkerPoolInv, Pool!TypeOK, StopInv, Pool!Worker, Pool!pool, Pool!dispatcher,
          Pool!workers
  <1>1. ASSUME NEW w \in Pool!Worker, Pool!WorkerStep(w) PROVE StopInv'
    BY <1>1 DEF Pool!WorkerStep, Pool!Register, Pool!Finish, Pool!WorkerDone
  <1>2. CASE Pool!Dispatch
    <2>1. CASE Pool!TakeJob \/ Pool!TakeWorker \/ Pool!DispatchDone
      BY <2>1 DEF Pool!TakeJob, Pool!TakeWorker, Pool!DispatchDone
    <2>2. CASE Pool!HandOver
      BY <2>2 DEF Pool!HandOver
    <2> QED
      BY <1>2, <2>1, <2>2 DEF Pool!Dispatch
  <1>3. CASE Pool!StopCancel
    BY <1>3 DEF Pool!StopCancel
  <1>4. CASE Pool!StopDispatcher
    BY <1>4 DEF Pool!StopDispatcher
  <1>5. CASE Pool!CancelWorker
    BY <1>5 DEF Pool!CancelWorker
  <1>6. CASE Pool!StopWorker
    BY <1>6 DEF Pool!StopWorker, Pool!NextToStop
  <1>7. ASSUME NEW j \in Job, Pool!Accept(j) \/ \E timeout \in BOOLEAN : Pool!Reject(j, timeout)
        PROVE  StopInv'
    BY <1>7 DEF Pool!Accept, Pool!Reject
  <1> QED
    BY <1>1, <1>2, <1>3, <1>4, <1>5, <1>6, <1>7 DEF Pool!Next, Pool!Stop

\* A behaviour of the pool has the invariant in every state.
LEMMA WorkerPoolInductive ==
    ASSUME N \in Nat \ {0}, Cap \in Nat, Pool!NoJob \notin Job
    PROVE  Pool!Spec => []WorkerPoolInv
  <1>1. Pool!Init => WorkerPoolInv
    BY WorkerPoolInit
  <1>2. WorkerPoolInv /\ [Pool!Next]_(Pool!vars) => WorkerPoolInv'
    <2>1. CASE Pool!Next
      BY <2>1, WorkerPoolTyped, WorkerPoolJobs, WorkerPoolListed, WorkerPoolStops
      DEF WorkerPoolInv
    <2>2. CASE UNCHANGED Pool!vars
      BY <2>2 DEF Pool!vars, Pool!pool, Pool!dispatcher, Pool!workers, WorkerPoolInv,
         Pool!TypeOK, JobInv, Apart, Known,
         InHand, Queued, AtWorker, PoolInv, StopInv
    <2> QED
      BY <2>1, <2>2
  <1> QED
    BY <1>1, <1>2, PTL DEF Pool!Spec

\* No order of Submit, dispatch, the workers and Stop runs a job twice or drops it: an
\* accepted job is in one place and another is nowhere.  Jobs are not nil.
THEOREM OnePlaceSafety ==
    ASSUME N \in Nat \ {0}, Cap \in Nat, Pool!NoJob \notin Job
    PROVE  Pool!Spec => []Pool!OnePlace
  <1>1. WorkerPoolInv => Pool!OnePlace
    <2> SUFFICES ASSUME WorkerPoolInv, NEW j \in Job
                 PROVE  Pool!Places(j) = IF answer[j] = "accepted" THEN 1 ELSE 0
      BY DEF Pool!OnePlace
    <2> DEFINE Q == {i \in DOMAIN jobQueue : jobQueue[i] = j}
               W == {w \in Pool!Worker : wjob[w] = j}
    <2>1. Cardinality(Q) = IF Queued(j) THEN 1 ELSE 0
      <3>1. CASE Queued(j)
        <4>1. PICK i \in DOMAIN jobQueue : jobQueue[i] = j
          BY <3>1 DEF Queued
        <4>2. Q = {i}
          BY <4>1 DEF WorkerPoolInv, JobInv, Apart
        <4> QED
          BY <3>1, <4>2, FS_Singleton
      <3>2. CASE ~Queued(j)
        BY <3>2, FS_EmptySet DEF Queued
      <3> QED
        BY <3>1, <3>2
    <2>2. Cardinality(W) = IF AtWorker(j) THEN 1 ELSE 0
      <3>1. CASE AtWorker(j)
        <4>1. PICK w \in Pool!Worker : wjob[w] = j
          BY <3>1 DEF AtWorker
        <4>2. W = {w}
          BY <4>1 DEF WorkerPoolInv, JobInv, Apart
        <4> QED
          BY <3>1, <4>2, FS_Singleton
      <3>2. CASE ~AtWorker(j)
        BY <3>2, FS_EmptySet DEF AtWorker
      <3> QED
        BY <3>1, <3>2
    <2>3. Pool!Places(j) = Cardinality(Q) + Cardinality(W) + (IF djob = j THEN 1 ELSE 0)
                        + (IF j \in executed THEN 1 ELSE 0)
      BY DEF Pool!Places, Pool!Cardinality, Cardinality
    <2> HIDE DEF Q, W
    <2> QED
      BY <2>1, <2>2, <2>3 DEF WorkerPoolInv, JobInv, Apart, Known
  <1> QED
    BY <1>1, WorkerPoolInductive, PTL

\* The dispatcher never sends to a worker that has left, though a worker that leaves does
\* not take its queue out of the pool channel, and Stop returns with all goroutines gone.
THEOREM StopSafety ==
    ASSUME N \in Nat \ {0}, Cap \in Nat, Pool!NoJob \notin Job
    PROVE  Pool!Spec => [](Pool!TypeOK /\ Pool!HandedToALiveWorker /\ Pool!StopIsComplete)
  <1>1. WorkerPoolInv => Pool!TypeOK /\ Pool!HandedToALiveWorker /\ Pool!StopIsComplete
    BY DEF WorkerPoolInv, PoolInv, StopInv, Pool!HandedToALiveWorker, Pool!StopIsComplete
  <1> QED
    BY <1>1, WorkerPoolInductive, PTL

-----------------------------------------------------------------------------
(***************************************************************************)
(* GatewayBreaker, for any number of requests and any settings.            *)
(***************************************************************************)
CONSTANT Middleware

Gateway == INSTANCE GatewayBreaker

BreakerState == {"closed", "open", "half-open"}
BreakerRecord == [state : BreakerState, generation : {1, 2}, counts : Gateway!Counts]

Fresh(b, s) == [state |-> s, generation |-> 3 - b.generation, counts |-> Gateway!NoCounts]

\* The counters of a generation: what it admitted has succeeded, failed or is in flight; a
\* half-open one has admitted at most MaxRequests and has seen no failure, so its successes
\* are in a row, and fewer than would close it.
Accounted(b, inFlight) ==
    /\ b.counts.Requests = b.counts.TotalSuccesses + b.counts.TotalFailures + inFlight
    /\ b.state = "half-open" =>
          /\ b.counts.Requests <= MaxRequests
          /\ b.counts.TotalFailures = 0
          /\ b.counts.ConsecutiveSuccesses = b.counts.TotalSuccesses
          /\ b.counts.TotalSuccesses < MaxRequests

\* No request runs under a generation other than the current one: it is marked stale.
GatewayInv ==
    /\ Gateway!TypeOK
    /\ \A c \in Callers : running[c] \in {Gateway!Idle, Gateway!Stale, cb.generation}
    /\ Accounted(cb, Cardinality(Gateway!InFlight))

GatewayAssumption == IsFiniteSet(Callers) /\ MaxRequests \in Nat \ {0} /\ TripAfter \in Nat

\* A new generation is empty and differs from the one before.
LEMMA FreshBreaker ==
    ASSUME NEW b \in BreakerRecord, NEW s \in BreakerState
    PROVE  /\ Fresh(b, s) \in BreakerRecord /\ Fresh(b, s).generation # b.generation
           /\ Fresh(b, s).state = s /\ Fresh(b, s).counts = Gateway!NoCounts
           /\ Fresh(b, s).generation \in {1, 2}
  <1>1. Gateway!NoCounts \in Gateway!Counts
    BY DEF Gateway!NoCounts, Gateway!Counts
  <1> QED
    BY <1>1 DEF Fresh, BreakerRecord

\* setState and currentState.
LEMMA StateChanges ==
    ASSUME NEW b \in BreakerRecord, NEW s \in BreakerState
    PROVE  /\ b.state # s => Gateway!SetState(b, s) = Fresh(b, s)
           /\ b.state = s => Gateway!SetState(b, s) = b
           /\ b.state = "open" => Gateway!CurrentState(b) = Fresh(b, "half-open")
           /\ b.state # "open" => Gateway!CurrentState(b) = b
  <1>1. ASSUME NEW x \in BreakerState, b.state # x
        PROVE  Gateway!SetState(b, x) = Fresh(b, x)
    <2>1. Gateway!SetState(b, x) = Gateway!ToNewGeneration([b EXCEPT !.state = x])
      BY <1>1 DEF Gateway!SetState
    <2>2. [b EXCEPT !.state = x] =
             [state |-> x, generation |-> b.generation, counts |-> b.counts]
      BY DEF BreakerRecord
    <2> QED
      BY <2>1, <2>2 DEF Gateway!ToNewGeneration, Fresh, BreakerRecord
  <1> QED
    BY <1>1 DEF Gateway!SetState, Gateway!CurrentState, BreakerState

\* The counters after a request, a success and a failure.
LEMMA OutcomeCounts ==
    ASSUME NEW n \in Gateway!Counts
    PROVE  /\ Gateway!CountRequest(n) \in Gateway!Counts
           /\ Gateway!CountSuccess(n) \in Gateway!Counts
           /\ Gateway!CountFailure(n) \in Gateway!Counts
           /\ Gateway!CountRequest(n).Requests = n.Requests + 1
           /\ Gateway!CountRequest(n).TotalSuccesses = n.TotalSuccesses
           /\ Gateway!CountRequest(n).TotalFailures = n.TotalFailures
           /\ Gateway!CountRequest(n).ConsecutiveSuccesses = n.ConsecutiveSuccesses
           /\ Gateway!CountSuccess(n).Requests = n.Requests
           /\ Gateway!CountSuccess(n).TotalSuccesses = n.TotalSuccesses + 1
           /\ Gateway!CountSuccess(n).TotalFailures = n.TotalFailures
           /\ Gateway!CountSuccess(n).ConsecutiveSuccesses = n.ConsecutiveSuccesses + 1
           /\ Gateway!CountFailure(n).Requests = n.Requests
           /\ Gateway!CountFailure(n).TotalSuccesses = n.TotalSuccesses
           /\ Gateway!CountFailure(n).TotalFailures = n.TotalFailures + 1
  <1>1. /\ Gateway!CountRequest(n) \in Gateway!Counts
        /\ Gateway!CountRequest(n).Requests = n.Requests + 1
        /\ Gateway!CountRequest(n).TotalSuccesses = n.TotalSuccesses
        /\ Gateway!CountRequest(n).TotalFailures = n.TotalFailures
        /\ Gateway!CountRequest(n).ConsecutiveSuccesses = n.ConsecutiveSuccesses
    BY DEF Gateway!Counts, Gateway!CountRequest
  <1>2. /\ Gateway!CountSuccess(n) \in Gateway!Counts
        /\ Gateway!CountSuccess(n).Requests = n.Requests
        /\ Gateway!CountSuccess(n).TotalSuccesses = n.TotalSuccesses + 1
        /\ Gateway!CountSuccess(n).TotalFailures = n.TotalFailures
        /\ Gateway!CountSuccess(n).ConsecutiveSuccesses = n.ConsecutiveSuccesses + 1
    BY DEF Gateway!Counts, Gateway!CountSuccess
  <1>3. /\ Gateway!CountFailure(n) \in Gateway!Counts
        /\ Gateway!CountFailure(n).Requests = n.Requests
        /\ Gateway!CountFailure(n).TotalSuccesses = n.TotalSuccesses
        /\ Gateway!CountFailure(n).TotalFailures = n.TotalFailures + 1
    BY DEF Gateway!Counts, Gateway!CountFailure
  <1> QED
    BY <1>1, <1>2, <1>3

\* A breaker with other counters.
LEMMA Recounted ==
    ASSUME NEW b \in BreakerRecord, NEW n \in Gateway!Counts
    PROVE  /\ [b EXCEPT !.counts = n] \in BreakerRecord
           /\ [b EXCEPT !.counts = n].state = b.state
           /\ [b EXCEPT !.counts = n].generation = b.generation
           /\ [b EXCEPT !.counts = n].counts = n
           /\ Fresh([b EXCEPT !.counts = n], "open") = Fresh(b, "open")
           /\ Fresh([b EXCEPT !.counts = n], "closed") = Fresh(b, "closed")
  BY DEF BreakerRecord, Fresh

\* The requests of the current generation are finitely many.
LEMMA FlightIsFinite ==
    ASSUME IsFiniteSet(Callers)
    PROVE  IsFiniteSet(Gateway!InFlight) /\ Cardinality(Gateway!InFlight) \in Nat
  BY FS_Subset, FS_CardinalityType DEF Gateway!InFlight

\* A change of the generation leaves every other request behind.
LEMMA LeftBehind ==
    ASSUME GatewayAssumption, Gateway!TypeOK, NEW c \in Callers, NEW g, Gateway!Mark(c, g),
           cb' \in BreakerRecord, cb'.generation # cb.generation,
           g \in {Gateway!Idle, cb'.generation}
    PROVE  /\ running' \in [Callers -> {Gateway!Idle, 1, 2, Gateway!Stale}]
           /\ \A x \in Callers : running'[x] \in {Gateway!Idle, Gateway!Stale, cb'.generation}
           /\ g = Gateway!Idle => Cardinality(Gateway!InFlight') = 0
           /\ g = cb'.generation => Cardinality(Gateway!InFlight') = 1
  <1> USE DEF Gateway!Idle, Gateway!Stale
  <1>1. /\ running'[c] = g
        /\ \A x \in Callers \ {c} : running'[x] \in {Gateway!Idle, Gateway!Stale}
    BY DEF Gateway!Mark
  <1>2. cb'.generation \in {1, 2}
    BY DEF BreakerRecord
  <1>3. running' \in [Callers -> {Gateway!Idle, 1, 2, Gateway!Stale}]
    BY <1>1, <1>2 DEF Gateway!Mark, Gateway!TypeOK
  <1>4. g = Gateway!Idle => Gateway!InFlight' = {}
    BY <1>1, <1>2 DEF Gateway!InFlight
  <1>5. g = cb'.generation => Gateway!InFlight' = {c}
    BY <1>1, <1>2 DEF Gateway!InFlight
  <1> QED
    BY <1>1, <1>3, <1>4, <1>5, FS_EmptySet, FS_Singleton

\* Within a generation only the caller's own request changes.
LEMMA OneRequest ==
    ASSUME GatewayAssumption, GatewayInv, NEW c \in Callers, NEW g, Gateway!Mark(c, g),
           cb'.generation = cb.generation, g \in {Gateway!Idle, cb.generation}
    PROVE  /\ running' \in [Callers -> {Gateway!Idle, 1, 2, Gateway!Stale}]
           /\ \A x \in Callers : running'[x] \in {Gateway!Idle, Gateway!Stale, cb'.generation}
           /\ g # Gateway!Idle /\ running[c] = Gateway!Idle =>
                 Cardinality(Gateway!InFlight') = Cardinality(Gateway!InFlight) + 1
           /\ g = Gateway!Idle /\ running[c] = cb.generation =>
                 Cardinality(Gateway!InFlight') = Cardinality(Gateway!InFlight) - 1
           /\ g = Gateway!Idle /\ running[c] # cb.generation =>
                 Cardinality(Gateway!InFlight') = Cardinality(Gateway!InFlight)
  <1> USE DEF Gateway!Idle, Gateway!Stale
  <1>1. running'[c] = g /\ \A x \in Callers \ {c} : running'[x] = running[x]
    BY DEF Gateway!Mark
  <1>2. cb.generation \in {1, 2}
    BY DEF GatewayInv, Gateway!TypeOK
  <1>3. running' \in [Callers -> {Gateway!Idle, 1, 2, Gateway!Stale}]
    BY <1>1, <1>2 DEF Gateway!Mark, GatewayInv, Gateway!TypeOK
  <1>4. CASE g # Gateway!Idle /\ running[c] = Gateway!Idle
    <2>1. Gateway!InFlight' = Gateway!InFlight \cup {c} /\ c \notin Gateway!InFlight
      BY <1>1, <1>2, <1>4 DEF Gateway!InFlight
    <2> QED
      BY <1>1, <1>2, <1>3, <1>4, <2>1, FlightIsFinite, FS_AddElement
      DEF GatewayInv, GatewayAssumption
  <1>5. CASE g = Gateway!Idle /\ running[c] = cb.generation
    <2>1. Gateway!InFlight' = Gateway!InFlight \ {c} /\ c \in Gateway!InFlight
      BY <1>1, <1>2, <1>5 DEF Gateway!InFlight
    <2> QED
      BY <1>1, <1>2, <1>3, <1>5, <2>1, FlightIsFinite, FS_RemoveElement
      DEF GatewayInv, GatewayAssumption
  <1>6. CASE g = Gateway!Idle /\ running[c] # cb.generation
    <2>1. Gateway!InFlight' = Gateway!InFlight
      BY <1>1, <1>2, <1>6 DEF Gateway!InFlight
    <2> QED
      BY <1>1, <1>2, <1>3, <1>6, <2>1 DEF GatewayInv
  <1>7. CASE g # Gateway!Idle /\ running[c] # Gateway!Idle
    BY <1>1, <1>2, <1>3, <1>7 DEF GatewayInv
  <1> QED
    BY <1>4, <1>5, <1>6, <1>7

\* A new generation has nothing to account for.
LEMMA FreshIsAccounted ==
    ASSUME GatewayAssumption, NEW b \in BreakerRecord, NEW s \in BreakerState
    PROVE  Accounted(Fresh(b, s), 0)
  BY FreshBreaker DEF Accounted, GatewayAssumption, Gateway!NoCounts

\* What afterRequest makes of a breaker that is not open, by the report of a request of its
\* own generation.
Settled(b, b2, n) ==
    /\ b2 \in BreakerRecord
    /\ \/ b2.generation = b.generation /\ b2.state = b.state /\ Accounted(b2, n - 1)
       \/ \E s \in BreakerState : b2 = Fresh(b, s) /\ (s = "closed" => b.state = "half-open")

\* It opens on a failure only, and closes with the last of the probes it is to have.
LEMMA SettleOwn ==
    ASSUME GatewayAssumption, NEW b \in BreakerRecord, b.state # "open", NEW n \in Nat, n > 0,
           Accounted(b, n), NEW success \in BOOLEAN
    PROVE  /\ Settled(b, Gateway!Settle(b, b.generation, success), n)
           /\ Gateway!Settle(b, b.generation, success).state = "closed" /\ b.state = "half-open"
              => b.counts.TotalSuccesses = MaxRequests - 1 /\ n = 1
           /\ Gateway!Settle(b, b.generation, success).state = "open" => ~success
  <1>1. /\ b.counts \in Gateway!Counts /\ b.state \in {"closed", "half-open"}
        /\ b.counts.Requests \in Nat /\ b.counts.TotalSuccesses \in Nat
        /\ b.counts.TotalFailures \in Nat /\ b.counts.ConsecutiveSuccesses \in Nat
    BY DEF BreakerRecord, BreakerState, Gateway!Counts
  <1>2. CASE success
    <2> DEFINE b2 == [b EXCEPT !.counts = Gateway!CountSuccess(@)]
    <2>1. b2 = [b EXCEPT !.counts = Gateway!CountSuccess(b.counts)]
      BY DEF BreakerRecord
    <2>2. /\ b2 \in BreakerRecord /\ b2.state = b.state /\ b2.generation = b.generation
          /\ b2.counts = Gateway!CountSuccess(b.counts) /\ Fresh(b2, "closed") = Fresh(b, "closed")
      BY <1>1, <2>1, Recounted, OutcomeCounts
    <2>3. Gateway!Settle(b, b.generation, success) = Gateway!OnSuccess(b)
      BY <1>2 DEF Gateway!Settle
    <2>4. /\ b2.counts.Requests = b.counts.Requests
          /\ b2.counts.TotalSuccesses = b.counts.TotalSuccesses + 1
          /\ b2.counts.TotalFailures = b.counts.TotalFailures
          /\ b2.counts.ConsecutiveSuccesses = b.counts.ConsecutiveSuccesses + 1
      BY <1>1, <2>2, OutcomeCounts
    <2>5. Gateway!OnSuccess(b) =
             IF b.state = "half-open" /\ b2.counts.ConsecutiveSuccesses >= MaxRequests
             THEN Gateway!SetState(b2, "closed") ELSE b2
      BY <1>1 DEF Gateway!OnSuccess
    <2> HIDE DEF b2
    <2>6. CASE b.state = "half-open" /\ b2.counts.ConsecutiveSuccesses >= MaxRequests
      <3>1. Gateway!OnSuccess(b) = Fresh(b, "closed")
        BY <2>2, <2>5, <2>6, StateChanges DEF BreakerState
      <3>2. Fresh(b, "closed") \in BreakerRecord /\ Fresh(b, "closed").state = "closed"
        BY FreshBreaker DEF BreakerState
      <3>3. b.counts.TotalSuccesses = MaxRequests - 1 /\ n = 1
        BY <1>1, <2>4, <2>6 DEF Accounted, GatewayAssumption
      <3> QED
        BY <1>2, <2>3, <2>6, <3>1, <3>2, <3>3 DEF Settled, BreakerState
    <2>7. CASE ~(b.state = "half-open" /\ b2.counts.ConsecutiveSuccesses >= MaxRequests)
      <3>1. Accounted(b2, n - 1)
        BY <1>1, <2>2, <2>4, <2>7 DEF Accounted, GatewayAssumption
      <3> QED
        BY <1>1, <1>2, <2>2, <2>3, <2>5, <2>7, <3>1 DEF Settled
    <2> QED
      BY <2>6, <2>7
  <1>3. CASE ~success
    <2> DEFINE b2 == [b EXCEPT !.counts = Gateway!CountFailure(@)]
    <2>1. b2 = [b EXCEPT !.counts = Gateway!CountFailure(b.counts)]
      BY DEF BreakerRecord
    <2>2. /\ b2 \in BreakerRecord /\ b2.state = b.state /\ b2.generation = b.generation
          /\ b2.counts = Gateway!CountFailure(b.counts) /\ Fresh(b2, "open") = Fresh(b, "open")
      BY <1>1, <2>1, Recounted, OutcomeCounts
    <2>3. Gateway!Settle(b, b.generation, success) = Gateway!OnFailure(b)
      BY <1>3 DEF Gateway!Settle
    <2>4. /\ b2.counts.Requests = b.counts.Requests
          /\ b2.counts.TotalSuccesses = b.counts.TotalSuccesses
          /\ b2.counts.TotalFailures = b.counts.TotalFailures + 1
      BY <1>1, <2>2, OutcomeCounts
    <2>5. Gateway!OnFailure(b) =
             IF b.state = "half-open" THEN Gateway!SetState(b, "open")
             ELSE IF Gateway!ReadyToTrip(b2.counts) THEN Gateway!SetState(b2, "open") ELSE b2
      BY <1>1 DEF Gateway!OnFailure
    <2> HIDE DEF b2
    <2>6. Fresh(b, "open") \in BreakerRecord /\ Fresh(b, "open").state = "open"
      BY FreshBreaker DEF BreakerState
    <2>7. CASE b.state = "half-open" \/ Gateway!ReadyToTrip(b2.counts)
      <3>1. Gateway!OnFailure(b) = Fresh(b, "open")
        BY <1>1, <2>2, <2>5, <2>7, StateChanges DEF BreakerState
      <3> QED
        BY <1>3, <2>3, <2>6, <3>1 DEF Settled, BreakerState
    <2>8. CASE ~(b.state = "half-open" \/ Gateway!ReadyToTrip(b2.counts))
      <3>1. Accounted(b2, n - 1) /\ b.state = "closed"
        BY <1>1, <2>2, <2>4, <2>8 DEF Accounted
      <3> QED
        BY <1>3, <2>2, <2>3, <2>5, <2>8, <3>1 DEF Settled
    <2> QED
      BY <2>7, <2>8
  <1> QED
    BY <1>2, <1>3

\* A step of the gateway's breaker keeps the invariant.
LEMMA GatewayStep ==
    ASSUME GatewayAssumption, GatewayInv, Gateway!Next
    PROVE  GatewayInv'
  <1> DEFINE n == Cardinality(Gateway!InFlight)
  <1>1. /\ cb \in BreakerRecord /\ n \in Nat /\ Accounted(cb, n) /\ Gateway!TypeOK
    BY FlightIsFinite DEF GatewayInv, Gateway!TypeOK, BreakerRecord, BreakerState,
       GatewayAssumption
  <1>2. SUFFICES /\ cb' \in BreakerRecord
                 /\ running' \in [Callers -> {Gateway!Idle, 1, 2, Gateway!Stale}]
                 /\ \A x \in Callers :
                       running'[x] \in {Gateway!Idle, Gateway!Stale, cb'.generation}
                 /\ Accounted(cb', Cardinality(Gateway!InFlight'))
                 /\ answer' \in [Callers -> Gateway!Outcomes \cup
                                    {"none", "refusedOpen", "refusedHalfOpen"}]
    BY DEF GatewayInv, Gateway!TypeOK, BreakerRecord, BreakerState,
       Accounted, Cardinality
  <1> HIDE DEF n
  <1>3. ASSUME NEW c \in Callers, Gateway!Admit(c)
        PROVE  /\ cb' \in BreakerRecord
               /\ running' \in [Callers -> {Gateway!Idle, 1, 2, Gateway!Stale}]
               /\ \A x \in Callers :
                     running'[x] \in {Gateway!Idle, Gateway!Stale, cb'.generation}
               /\ Accounted(cb', Cardinality(Gateway!InFlight'))
               /\ UNCHANGED answer
    <2> DEFINE cur == Gateway!CurrentState(cb)
    <2>1. /\ running[c] = Gateway!Idle /\ ~Gateway!Refuses(cur)
          /\ cb' = [cur EXCEPT !.counts = Gateway!CountRequest(@)]
          /\ Gateway!Mark(c, cur.generation) /\ UNCHANGED answer
      BY <1>3 DEF Gateway!Admit
    <2>2. CASE cb.state = "open"
      <3>1. cur = Fresh(cb, "half-open")
        BY <1>1, <2>2, StateChanges DEF BreakerState
      <3>2. /\ cur \in BreakerRecord /\ cur.generation # cb.generation /\ cur.state = "half-open"
            /\ cur.counts = Gateway!NoCounts /\ cur.counts \in Gateway!Counts
        BY <1>1, <3>1, FreshBreaker DEF BreakerState, BreakerRecord
      <3> HIDE DEF cur
      <3>3. cb' = [cur EXCEPT !.counts = Gateway!CountRequest(cur.counts)]
        BY <2>1, <3>2 DEF BreakerRecord
      <3>4. /\ cb' \in BreakerRecord /\ cb'.generation = cur.generation /\ cb'.state = "half-open"
            /\ cb'.counts = Gateway!CountRequest(cur.counts)
        BY <3>2, <3>3, Recounted, OutcomeCounts
      <3>5. /\ cb'.counts.Requests = 1 /\ cb'.counts.TotalSuccesses = 0
            /\ cb'.counts.TotalFailures = 0 /\ cb'.counts.ConsecutiveSuccesses = 0
        BY <3>2, <3>4, OutcomeCounts DEF Gateway!NoCounts
      <3>6. Accounted(cb', 1)
        BY <3>4, <3>5 DEF Accounted, GatewayAssumption
      <3> QED
        BY <1>1, <2>1, <3>2, <3>4, <3>6, LeftBehind
    <2>3. CASE cb.state # "open"
      <3>1. cur = cb
        BY <1>1, <2>3, StateChanges DEF BreakerState
      <3>2. cb.counts \in Gateway!Counts /\ cb.generation \in {1, 2}
        BY <1>1 DEF BreakerRecord
      <3>3. cb' = [cb EXCEPT !.counts = Gateway!CountRequest(cb.counts)]
        BY <1>1, <2>1, <3>1 DEF BreakerRecord
      <3>4. /\ cb' \in BreakerRecord /\ cb'.generation = cb.generation /\ cb'.state = cb.state
            /\ cb'.counts = Gateway!CountRequest(cb.counts)
        BY <1>1, <3>2, <3>3, Recounted, OutcomeCounts
      <3>5. /\ cb'.counts.Requests = cb.counts.Requests + 1
            /\ cb'.counts.TotalSuccesses = cb.counts.TotalSuccesses
            /\ cb'.counts.TotalFailures = cb.counts.TotalFailures
            /\ cb'.counts.ConsecutiveSuccesses = cb.counts.ConsecutiveSuccesses
        BY <3>2, <3>4, OutcomeCounts
      <3>6. /\ cb.counts.Requests \in Nat /\ cb.counts.TotalSuccesses \in Nat
            /\ cb.counts.TotalFailures \in Nat
        BY <3>2 DEF Gateway!Counts
      <3>7. cb.state = "half-open" => cb.counts.Requests < MaxRequests
        BY <2>1, <3>1, <3>6 DEF Gateway!Refuses, GatewayAssumption
      <3>8. Accounted(cb', n + 1)
        BY <1>1, <3>4, <3>5, <3>6, <3>7 DEF Accounted, GatewayAssumption
      <3>9. cb.generation # Gateway!Idle
        BY <3>2 DEF Gateway!Idle
      <3> QED
        BY <2>1, <3>1, <3>4, <3>8, <3>9, OneRequest DEF n
    <2> QED
      BY <2>2, <2>3
  <1>4. ASSUME NEW c \in Callers, Gateway!Refuse(c)
        PROVE  /\ cb' = cb /\ running' = running
               /\ answer' = [answer EXCEPT ![c] = "refusedHalfOpen"]
    <2> DEFINE cur == Gateway!CurrentState(cb)
    <2>1. /\ Gateway!Refuses(cur) /\ cb' = cur /\ running[c] = Gateway!Idle
          /\ answer' = [answer EXCEPT ![c] = IF cur.state = "open" THEN "refusedOpen"
                                             ELSE "refusedHalfOpen"]
          /\ Gateway!Mark(c, Gateway!Idle)
      BY <1>4 DEF Gateway!Refuse
    <2>2. cb.state # "open"
      <3> SUFFICES ASSUME cb.state = "open" PROVE FALSE
        OBVIOUS
      <3>1. cur = Fresh(cb, "half-open")
        BY <1>1, StateChanges DEF BreakerState
      <3>2. cur.state = "half-open" /\ cur.counts.Requests = 0
        BY <1>1, <3>1, FreshBreaker DEF BreakerState, Gateway!NoCounts
      <3> QED
        BY <2>1, <3>2 DEF Gateway!Refuses, GatewayAssumption
    <2>3. cur = cb
      BY <1>1, <2>2, StateChanges DEF BreakerState
    <2>4. running' = running
      BY <1>1, <2>1, <2>3 DEF Gateway!Mark, Gateway!TypeOK
    <2> QED
      BY <2>1, <2>2, <2>3, <2>4
  <1>5. ASSUME NEW c \in Callers, NEW outcome \in Gateway!Outcomes,
               Gateway!AfterRequest(c, outcome)
        PROVE  /\ cb' \in BreakerRecord
               /\ running' \in [Callers -> {Gateway!Idle, 1, 2, Gateway!Stale}]
               /\ \A x \in Callers :
                     running'[x] \in {Gateway!Idle, Gateway!Stale, cb'.generation}
               /\ Accounted(cb', Cardinality(Gateway!InFlight'))
               /\ answer' = [answer EXCEPT ![c] = outcome]
    <2> DEFINE cur == Gateway!CurrentState(cb)
               ok == Gateway!Succeeds(c, outcome)
    <2>1. /\ running[c] # Gateway!Idle /\ cb' = Gateway!Settle(cur, running[c], ok)
          /\ Gateway!Mark(c, Gateway!Idle) /\ answer' = [answer EXCEPT ![c] = outcome]
      BY <1>5 DEF Gateway!AfterRequest
    <2>2. ok \in BOOLEAN
      BY DEF Gateway!Succeeds
    <2> HIDE DEF ok
    <2>3. running[c] \in {Gateway!Stale, cb.generation} /\ cb.generation \in {1, 2}
      BY <1>1, <2>1 DEF GatewayInv, BreakerRecord
    <2>4. CASE cb.state = "open"
      <3>1. cur = Fresh(cb, "half-open")
        BY <1>1, <2>4, StateChanges DEF BreakerState
      <3>2. /\ cur \in BreakerRecord /\ cur.generation # cb.generation /\ cur.generation \in {1, 2}
            /\ Accounted(cur, 0)
        BY <1>1, <3>1, FreshBreaker, FreshIsAccounted, SMTT(30) DEF BreakerState
      <3>3. cb' = cur
        BY <2>1, <2>3, <3>2 DEF Gateway!Settle, Gateway!Stale
      <3> HIDE DEF cur
      <3> QED
        BY <1>1, <2>1, <3>2, <3>3, LeftBehind
    <2>5. CASE cb.state # "open" /\ running[c] # cb.generation
      <3>1. cb' = cb
        BY <1>1, <2>1, <2>5, StateChanges DEF Gateway!Settle, BreakerState
      <3> QED
        BY <1>1, <2>1, <2>5, <3>1, OneRequest DEF n
    <2>6. CASE cb.state # "open" /\ running[c] = cb.generation
      <3>1. cb' = Gateway!Settle(cb, cb.generation, ok)
        BY <1>1, <2>1, <2>6, StateChanges DEF BreakerState
      <3>2. n > 0
        <4>1. c \in Gateway!InFlight
          BY <2>6 DEF Gateway!InFlight
        <4> QED
          BY <1>1, <4>1, FlightIsFinite, FS_EmptySet DEF n, GatewayAssumption
      <3>3. Settled(cb, cb', n)
        BY <1>1, <2>2, <2>6, <3>1, <3>2, SettleOwn
      <3>4. CASE cb'.generation = cb.generation /\ Accounted(cb', n - 1)
        BY <2>1, <2>6, <3>3, <3>4, OneRequest DEF n, Settled
      <3>5. CASE \E s \in BreakerState : cb' = Fresh(cb, s)
        <4>1. cb' \in BreakerRecord /\ cb'.generation # cb.generation /\ Accounted(cb', 0)
          BY <1>1, <3>5, FreshBreaker, FreshIsAccounted
        <4> QED
          BY <1>1, <2>1, <4>1, LeftBehind
      <3> QED
        BY <3>3, <3>4, <3>5 DEF Settled
    <2> QED
      BY <2>1, <2>4, <2>5, <2>6
  <1>6. ASSUME NEW c \in Callers, Gateway!Refuse(c)
        PROVE  /\ cb' \in BreakerRecord
               /\ running' \in [Callers -> {Gateway!Idle, 1, 2, Gateway!Stale}]
               /\ \A x \in Callers :
                     running'[x] \in {Gateway!Idle, Gateway!Stale, cb'.generation}
               /\ Accounted(cb', Cardinality(Gateway!InFlight'))
    <2>1. Gateway!InFlight' = Gateway!InFlight
      BY <1>4, <1>6 DEF Gateway!InFlight
    <2> QED
      BY <1>1, <1>4, <1>6, <2>1 DEF GatewayInv, Gateway!TypeOK, n
  <1>7. /\ answer \in [Callers -> Gateway!Outcomes \cup
                          {"none", "refusedOpen", "refusedHalfOpen"}]
    BY <1>1 DEF Gateway!TypeOK, Gateway!Outcomes
  <1> QED
    BY <1>3, <1>4, <1>5, <1>6, <1>7 DEF Gateway!Next

\* A behaviour of the gateway's breaker has the invariant in every state.
LEMMA GatewayInductive ==
    ASSUME GatewayAssumption
    PROVE  Gateway!Spec => []GatewayInv
  <1>1. Gateway!Init => GatewayInv
    <2> SUFFICES ASSUME Gateway!Init PROVE GatewayInv
      OBVIOUS
    <2>5. Gateway!NoCounts \in Gateway!Counts
      BY DEF Gateway!NoCounts, Gateway!Counts
    <2>1. /\ cb \in BreakerRecord /\ cb.state = "closed" /\ cb.generation \in {1, 2}
          /\ cb.counts = Gateway!NoCounts
      <3> DEFINE b == [state |-> "closed", generation |-> 2, counts |-> Gateway!NoCounts]
      <3>1. b \in BreakerRecord /\ b.state = "closed"
        BY <2>5 DEF BreakerRecord, BreakerState
      <3>2. cb = Gateway!ToNewGeneration(b)
        BY DEF Gateway!Init
      <3> HIDE DEF b
      <3>3. cb = Fresh(b, "closed")
        BY <3>1, <3>2 DEF Gateway!ToNewGeneration, Fresh, BreakerRecord
      <3> QED
        BY <3>1, <3>3, FreshBreaker DEF BreakerState
    <2>2. running = [c \in Callers |-> Gateway!Idle] /\ answer = [c \in Callers |-> "none"]
      BY DEF Gateway!Init
    <2>3. Gateway!InFlight = {}
      BY <2>1, <2>2 DEF Gateway!InFlight, Gateway!Idle
    <2>4. Accounted(cb, Cardinality(Gateway!InFlight))
      BY <2>1, <2>3, FS_EmptySet DEF Accounted, Gateway!NoCounts
    <2> QED
      BY <2>1, <2>2, <2>4 DEF BreakerRecord, BreakerState, GatewayInv, Gateway!TypeOK
  <1>2. GatewayInv /\ [Gateway!Next]_(Gateway!vars) => GatewayInv'
    <2>1. ASSUME GatewayInv, UNCHANGED Gateway!vars PROVE GatewayInv'
      <3>1. cb' = cb /\ running' = running /\ answer' = answer
        BY <2>1 DEF Gateway!vars
      <3>2. Gateway!InFlight' = Gateway!InFlight
        BY <3>1 DEF Gateway!InFlight
      <3> QED
        BY <2>1, <3>1, <3>2 DEF GatewayInv, Gateway!TypeOK, Accounted
    <2> QED
      BY <2>1, GatewayStep
  <1> QED
    BY <1>1, <1>2, PTL DEF Gateway!Spec

\* A generation accounts for its own requests and no others, a half-open one admits at most
\* MaxRequests, and whenever it refuses one of its probes is in flight.
THEOREM GatewayProbeSafety ==
    ASSUME GatewayAssumption
    PROVE  Gateway!Spec => [](/\ Gateway!TypeOK /\ Gateway!ProbesAccounted
                              /\ Gateway!RefusalHasProbe)
  <1>1. GatewayInv => /\ Gateway!TypeOK /\ Gateway!ProbesAccounted
                     /\ Gateway!RefusalHasProbe
    <2> SUFFICES ASSUME GatewayInv
                 PROVE  /\ Gateway!TypeOK /\ Gateway!ProbesAccounted /\ Gateway!RefusalHasProbe
      OBVIOUS
    <2>1. Gateway!TypeOK /\ Gateway!ProbesAccounted
      BY DEF GatewayInv, Accounted, Gateway!ProbesAccounted, Gateway!Cardinality, Cardinality
    <2>2. ASSUME cb.state = "half-open", Gateway!Refuses(cb), Gateway!InFlight = {} PROVE FALSE
      <3>1. Cardinality(Gateway!InFlight) = 0
        BY <2>2, FS_EmptySet
      <3>2. /\ cb.counts.Requests = cb.counts.TotalSuccesses + cb.counts.TotalFailures + 0
            /\ cb.counts.TotalFailures = 0 /\ cb.counts.TotalSuccesses < MaxRequests
            /\ cb.counts.TotalSuccesses \in Nat
        BY <2>2, <3>1 DEF GatewayInv, Accounted, Gateway!TypeOK, Gateway!Counts
      <3> QED
        BY <2>2, <3>2 DEF Gateway!Refuses, GatewayAssumption
    <2> QED
      BY <2>1, <2>2 DEF Gateway!RefusalHasProbe
  <1> QED
    BY <1>1, GatewayInductive, PTL

\* A half-open breaker closes with the last of its probes, after all the others succeeded, and
\* behind the middleware only a panic trips it.
THEOREM GatewayTransitions ==
    ASSUME GatewayAssumption
    PROVE  Gateway!Spec =>
              [][Gateway!ClosesWhenAllSucceeded /\ Gateway!ErrorStatusNeverTrips]_(Gateway!vars)
  <1>1. ASSUME GatewayInv, Gateway!Next, cb.state # cb'.state, cb.state # "open"
        PROVE  /\ cb.state = "half-open" /\ cb'.state = "closed" =>
                     /\ cb.counts.TotalSuccesses = MaxRequests - 1
                     /\ \E c \in Callers :
                           Gateway!InFlight = {c} /\ running'[c] = Gateway!Idle
               /\ cb'.state = "open" =>
                     \E c \in Callers : /\ running[c] # Gateway!Idle /\ running'[c] = Gateway!Idle
                                        /\ answer'[c] = "panic" \/ c \notin Middleware
    <2> DEFINE n == Cardinality(Gateway!InFlight)
    <2>1. cb \in BreakerRecord /\ n \in Nat /\ Accounted(cb, n) /\ IsFiniteSet(Gateway!InFlight)
      BY <1>1, FlightIsFinite
      DEF GatewayInv, Gateway!TypeOK, BreakerRecord, BreakerState, GatewayAssumption
    <2>2. Gateway!CurrentState(cb) = cb
      BY <1>1, <2>1, StateChanges DEF BreakerState
    <2>3. PICK c \in Callers, outcome \in Gateway!Outcomes : Gateway!AfterRequest(c, outcome)
      <3>1. ASSUME NEW c \in Callers, Gateway!Admit(c) PROVE FALSE
        <4>1. cb' = [cb EXCEPT !.counts = Gateway!CountRequest(@)]
          BY <2>2, <3>1 DEF Gateway!Admit
        <4> QED
          BY <1>1, <2>1, <4>1 DEF BreakerRecord
      <3>2. ASSUME NEW c \in Callers, Gateway!Refuse(c) PROVE FALSE
        BY <1>1, <2>2, <3>2 DEF Gateway!Refuse
      <3> QED
        BY <1>1, <3>1, <3>2 DEF Gateway!Next
    <2> DEFINE ok == Gateway!Succeeds(c, outcome)
    <2>4. /\ running[c] # Gateway!Idle /\ cb' = Gateway!Settle(cb, running[c], ok)
          /\ running'[c] = Gateway!Idle /\ answer'[c] = outcome
      BY <1>1, <2>2, <2>3 DEF Gateway!AfterRequest, Gateway!Mark, GatewayInv, Gateway!TypeOK
    <2>5. ok \in BOOLEAN /\ (~ok => outcome = "panic" \/ c \notin Middleware)
      BY DEF Gateway!Succeeds, Gateway!Outcomes
    <2> HIDE DEF ok
    <2>6. running[c] = cb.generation /\ c \in Gateway!InFlight
      BY <1>1, <2>4 DEF Gateway!Settle, Gateway!InFlight
    <2>7. n > 0
      BY <2>1, <2>6, FS_EmptySet
    <2>8. n = 1 => Gateway!InFlight = {c}
      <3> SUFFICES ASSUME n = 1, NEW d \in Gateway!InFlight, d # c PROVE FALSE
        BY <2>6
      <3>1. {c, d} \subseteq Gateway!InFlight
        BY <2>6
      <3>2. Cardinality({c, d}) <= n /\ Cardinality({c, d}) = 2
        <4>1. IsFiniteSet({c}) /\ Cardinality({c}) = 1
          BY FS_Singleton
        <4>2. d \notin {c} /\ {c, d} = {c} \cup {d}
          OBVIOUS
        <4>3. Cardinality({c} \cup {d}) = Cardinality({c}) + 1
          BY <4>1, <4>2, FS_AddElement
        <4>4. Cardinality({c, d}) <= n
          BY <2>1, <3>1, FS_Subset
        <4> QED
          BY <4>1, <4>2, <4>3, <4>4
      <3> QED
        BY <3>2
    <2> HIDE DEF n
    <2> QED
      BY <1>1, <2>1, <2>4, <2>5, <2>6, <2>7, <2>8, SettleOwn
  <1>2. GatewayInv /\ [Gateway!Next]_(Gateway!vars) =>
           [Gateway!ClosesWhenAllSucceeded /\ Gateway!ErrorStatusNeverTrips]_(Gateway!vars)
    BY <1>1 DEF Gateway!ClosesWhenAllSucceeded, Gateway!ErrorStatusNeverTrips
  <1> QED
    BY <1>2, GatewayInductive, PTL DEF Gateway!Spec

-----------------------------------------------------------------------------
(***************************************************************************)
(* RequestMerger, for any requests, keys and sizes of a batch.             *)
(***************************************************************************)
CONSTANTS Request, KeyOf, BatchSize, Nil, MaxCloses

VARIABLES pc, requests, closed, closes, proc, batch, next, found, response, answered, panic

Merger == INSTANCE RequestMerger

MergerTypes ==
    /\ pc \in [Request -> {"idle", "send", "wait", "done"}]
    /\ requests \in Seq(Request) /\ batch \in Seq(Request \cup {Nil})
    /\ proc \in {"select", "merge", "answer"} /\ next \in Nat \ {0}
    /\ answered \subseteq Request /\ DOMAIN response = Request

\* The goroutine stands at the first of a batch that is not answered yet.
Turn ==
    /\ proc # "answer" => next = 1
    /\ proc = "merge" => batch # <<>>
    /\ proc = "answer" => next <= Len(batch)

\* Which places hold a request, and that none holds one another holds.
InChannel(r) == \E i \in DOMAIN requests : requests[i] = r
InBatch(r) == \E i \in DOMAIN batch : i >= next /\ batch[i] = r

NoneTwice ==
    /\ \A i, k \in DOMAIN requests : requests[i] = requests[k] => i = k
    /\ \A i, k \in DOMAIN batch :
          i >= next /\ k >= next /\ batch[i] = batch[k] /\ batch[i] \in Request => i = k

PlaceInv ==
    \A r \in Request :
        /\ InChannel(r) => ~InBatch(r) /\ r \notin answered
        /\ InBatch(r) => r \notin answered
        /\ pc[r] = "wait" => InChannel(r) \/ InBatch(r) \/ r \in answered
        /\ pc[r] \in {"idle", "send"} => ~InChannel(r) /\ ~InBatch(r) /\ r \notin answered
        /\ pc[r] = "wait" /\ r \in answered => response[r] # <<>>

MergerInv == MergerTypes /\ Turn /\ NoneTwice /\ PlaceInv

\* The calls of Submit and Close.
LEMMA SubmitKeeps ==
    ASSUME MergerInv, NEW r \in Request,
           \/ Merger!CheckClosed(r) \/ Merger!Send(r) \/ Merger!Receive(r) \/ Merger!Cancelled(r)
    PROVE  MergerInv'
  <1> USE DEF MergerInv, Merger!processVars
  <1>1. /\ pc'[r] \in {"idle", "send", "wait", "done"} /\ pc' = [pc EXCEPT ![r] = pc'[r]]
        /\ UNCHANGED <<proc, batch, next, answered>>
    BY DEF Merger!CheckClosed, Merger!Send, Merger!Receive, Merger!Cancelled, MergerTypes
  <1>2. CASE requests' = requests
    <2>1. /\ pc'[r] # pc[r] => pc'[r] \in {"send", "done"} /\ (pc'[r] = "send" => pc[r] = "idle")
          /\ DOMAIN response' = Request
          /\ \A q \in Request \ {r} : response'[q] = response[q]
          /\ pc'[r] = pc[r] => response' = response
      <3>1. CASE Merger!Send(r)
        <4>1. pc' = pc /\ response' = response
          <5>1. requests' # Append(requests, r)
            <6>1. Len(Append(requests, r)) = Len(requests) + 1 /\ Len(requests) \in Nat
              BY DEF MergerTypes
            <6> QED
              BY <1>2, <6>1
          <5> QED
            BY <3>1, <5>1 DEF Merger!Send
        <4> QED
          BY <4>1 DEF MergerTypes
      <3>2. CASE Merger!CheckClosed(r)
        BY <3>2 DEF Merger!CheckClosed, MergerTypes
      <3>3. CASE Merger!Receive(r)
        BY <3>3 DEF Merger!Receive, MergerTypes
      <3>4. CASE Merger!Cancelled(r)
        BY <3>4 DEF Merger!Cancelled, MergerTypes
      <3> QED
        BY <3>1, <3>2, <3>3, <3>4
    <2>2. MergerTypes' /\ Turn' /\ NoneTwice'
      BY <1>1, <1>2, <2>1 DEF MergerTypes, Turn, NoneTwice
    <2>3. \A q \in Request : (InChannel(q)' <=> InChannel(q)) /\ (InBatch(q)' <=> InBatch(q))
      BY <1>1, <1>2 DEF InChannel, InBatch
    <2>4. \A q \in Request : pc'[q] = pc[q] \/ q = r
      BY <1>1 DEF MergerTypes
    <2>5. PlaceInv'
      BY <1>1, <2>1, <2>3, <2>4 DEF PlaceInv, MergerTypes
    <2> QED
      BY <2>2, <2>5
  <1>3. CASE requests' # requests
    <2>1. /\ pc[r] = "send" /\ pc' = [pc EXCEPT ![r] = "wait"] /\ response' = response
          /\ requests' = Append(requests, r)
      BY <1>3 DEF Merger!CheckClosed, Merger!Send, Merger!Receive, Merger!Cancelled
    <2>2. /\ requests' \in Seq(Request) /\ DOMAIN requests' = 1 .. Len(requests) + 1
          /\ DOMAIN requests = 1 .. Len(requests) /\ Len(requests) \in Nat
          /\ requests'[Len(requests) + 1] = r
          /\ \A i \in 1 .. Len(requests) : requests'[i] = requests[i]
      BY <2>1 DEF MergerTypes
    <2>3. \A q \in Request : /\ InChannel(q)' <=> InChannel(q) \/ q = r
                             /\ InBatch(q)' <=> InBatch(q)
      BY <1>1, <2>2 DEF InChannel, InBatch
    <2>4. ~InChannel(r) /\ ~InBatch(r) /\ r \notin answered
      BY <2>1 DEF PlaceInv
    <2>5. NoneTwice'
      BY <1>1, <2>2, <2>4 DEF NoneTwice, InChannel
    <2>6. MergerTypes' /\ Turn'
      BY <1>1, <2>1, <2>2 DEF MergerTypes, Turn
    <2>7. PlaceInv'
      BY <1>1, <2>1, <2>3, <2>4 DEF PlaceInv, MergerTypes
    <2> QED
      BY <2>5, <2>6, <2>7
  <1> QED
    BY <1>2, <1>3

\* The goroutine takes a request from the channel into its batch, or a nil.
LEMMA CollectKeeps ==
    ASSUME Nil \notin Request, MergerInv, Merger!Collect
    PROVE  MergerInv'
  <1> USE DEF MergerInv
  <1> DEFINE x == IF requests = <<>> THEN Nil ELSE Head(requests)
  <1>1. /\ proc = "select" /\ next = 1 /\ batch' = Append(batch, x)
        /\ requests' = IF requests = <<>> THEN <<>> ELSE Tail(requests)
        /\ proc' \in {"select", "merge"}
        /\ UNCHANGED <<pc, next, response, answered>>
    BY DEF Merger!Collect, Turn
  <1>2. /\ requests = <<>> => x = Nil /\ requests' = <<>> /\ DOMAIN requests' = {}
        /\ requests # <<>> =>
              /\ x \in Request /\ x = requests[1] /\ 1 \in DOMAIN requests
              /\ requests' \in Seq(Request)
              /\ \A i \in DOMAIN requests' : /\ i + 1 \in DOMAIN requests /\ i + 1 # 1
                                             /\ requests'[i] = requests[i + 1]
              /\ \A i \in DOMAIN requests : i # 1 => /\ i - 1 \in DOMAIN requests'
                                                     /\ requests'[i - 1] = requests[i]
              /\ \A i, k \in DOMAIN requests' : i + 1 = k + 1 => i = k
    <2>1. CASE requests = <<>>
      BY <1>1, <2>1
    <2>2. CASE requests # <<>>
      BY <1>1, <2>2, Received DEF MergerTypes
    <2> QED
      BY <2>1, <2>2
  <1>3. x \in Request \cup {Nil}
    BY <1>2
  <1> HIDE DEF x
  <1>4. /\ batch' \in Seq(Request \cup {Nil}) /\ batch' # <<>> /\ DOMAIN batch = 1 .. Len(batch)
        /\ DOMAIN batch' = 1 .. Len(batch) + 1 /\ Len(batch) \in Nat
        /\ batch'[Len(batch) + 1] = x
        /\ \A i \in 1 .. Len(batch) : batch'[i] = batch[i]
    BY <1>1, <1>3 DEF MergerTypes
  <1>5. \A q \in Request : InChannel(q)' <=> InChannel(q) /\ q # x
    <2> SUFFICES ASSUME NEW q \in Request PROVE InChannel(q)' <=> InChannel(q) /\ q # x
      OBVIOUS
    <2>1. CASE requests = <<>>
      BY <1>2, <2>1 DEF InChannel
    <2>2. CASE requests # <<>>
      BY <1>2, <2>2 DEF InChannel, NoneTwice
    <2> QED
      BY <2>1, <2>2
  <1>6. \A q \in Request : InBatch(q)' <=> InBatch(q) \/ q = x
    BY <1>1, <1>4 DEF InBatch
  <1>7. x \in Request => InChannel(x) /\ ~InBatch(x) /\ x \notin answered
    BY <1>2 DEF InChannel, PlaceInv
  <1>8. NoneTwice'
    <2>1. \A i, k \in DOMAIN requests' : requests'[i] = requests'[k] => i = k
      <3>1. CASE requests = <<>>
        BY <1>2, <3>1
      <3>2. CASE requests # <<>>
        BY <1>2, <3>2 DEF NoneTwice
      <3> QED
        BY <3>1, <3>2
    <2>2. \A i, k \in DOMAIN batch' : batch'[i] = batch'[k] /\ batch'[i] \in Request => i = k
      BY <1>1, <1>4, <1>7 DEF NoneTwice, InBatch
    <2> QED
      BY <2>1, <2>2 DEF NoneTwice
  <1>9. MergerTypes' /\ Turn'
    BY <1>1, <1>2, <1>4 DEF MergerTypes, Turn
  <1>10. PlaceInv'
    BY <1>1, <1>5, <1>6, <1>7 DEF PlaceInv
  <1> QED
    BY <1>8, <1>9, <1>10

\* One turn of the loop over the batch.
LEMMA RespondKeeps ==
    ASSUME Nil \notin Request, MergerInv, Merger!Respond
    PROVE  MergerInv'
  <1> USE DEF MergerInv
  <1> DEFINE x == batch[next]
  <1>0. next \in Nat /\ Len(batch) \in Nat /\ 1 <= next /\ next <= Len(batch)
    BY DEF Merger!Respond, MergerTypes, Turn
  <1>1. proc = "answer" /\ next \in 1 .. Len(batch) /\ DOMAIN batch = 1 .. Len(batch)
    BY <1>0 DEF Merger!Respond, MergerTypes
  <1>2. CASE x = Nil
    BY <1>2 DEF Merger!Respond, MergerTypes, Turn, NoneTwice, PlaceInv, InChannel, InBatch
  <1>3. CASE x # Nil
    <2>1. x \in Request
      BY <1>1, <1>3 DEF MergerTypes
    <2>2. /\ answered' = answered \cup {x} /\ UNCHANGED <<pc, requests>>
          /\ response' = IF response[x] = <<>> THEN [response EXCEPT ![x] = <<Merger!AnswerOf(x)>>]
                         ELSE response
          /\ \/ next = Len(batch) /\ proc' = "select" /\ batch' = <<>> /\ next' = 1
             \/ next # Len(batch) /\ next' = next + 1 /\ UNCHANGED <<proc, batch>>
      BY <1>3 DEF Merger!Respond, Merger!RestOfBatch
    <2>3. /\ DOMAIN response' = Request /\ response'[x] # <<>>
          /\ \A q \in Request \ {x} : response'[q] = response[q]
      <3>1. <<Merger!AnswerOf(x)>> # <<>>
        OBVIOUS
      <3> QED
        BY <2>1, <2>2, <3>1 DEF MergerTypes
    <2> HIDE DEF x
    <2>4. /\ InBatch(x) /\ ~InChannel(x) /\ x \notin answered
          /\ \A i \in DOMAIN batch : i >= next /\ batch[i] = x => i = next
      BY <1>1, <2>1 DEF InBatch, PlaceInv, NoneTwice, x
    <2>5. \A q \in Request : /\ InChannel(q)' <=> InChannel(q)
                             /\ InBatch(q)' <=> InBatch(q) /\ q # x
      <3>1. CASE next = Len(batch)
        <4>1. DOMAIN batch' = {}
          BY <2>2, <3>1
        <4>2. \A i \in DOMAIN batch : i >= next => i = next
          BY <1>1, <3>1
        <4> QED
          BY <2>2, <4>1, <4>2 DEF InChannel, InBatch, x
      <3>2. CASE next # Len(batch)
        <4>1. \A i \in DOMAIN batch : i >= next + 1 <=> i >= next /\ i # next
          BY <1>1
        <4> QED
          BY <2>2, <2>4, <3>2, <4>1 DEF InChannel, InBatch, x
      <3> QED
        BY <3>1, <3>2
    <2>6. NoneTwice'
      <3>1. CASE next = Len(batch)
        <4>1. DOMAIN batch' = {}
          BY <2>2, <3>1
        <4> QED
          BY <2>2, <4>1 DEF NoneTwice
      <3>2. CASE next # Len(batch)
        <4>1. \A i \in DOMAIN batch : i >= next + 1 => i >= next
          BY <1>1
        <4> QED
          BY <2>2, <3>2, <4>1 DEF NoneTwice
      <3> QED
        BY <3>1, <3>2
    <2>7. MergerTypes' /\ Turn'
      <3>1. /\ batch' = batch \/ batch' = <<>>
            /\ answered' \subseteq Request /\ UNCHANGED <<pc, requests>>
        BY <2>1, <2>2 DEF MergerTypes
      <3>2. batch' \in Seq(Request \cup {Nil})
        <4>1. <<>> \in Seq(Request \cup {Nil})
          OBVIOUS
        <4> QED
          BY <3>1, <4>1 DEF MergerTypes
      <3>3. CASE next = Len(batch)
        <4>1. proc' = "select" /\ next' = 1 /\ next' \in Nat \ {0}
          BY <2>2, <3>3
        <4> QED
          BY <2>3, <3>1, <3>2, <4>1 DEF MergerTypes, Turn
      <3>4. CASE next # Len(batch)
        <4>1. next + 1 \in Nat \ {0} /\ next + 1 <= Len(batch)
          BY <1>0, <3>4, SMTT(40)
        <4>2. /\ proc' = "answer" /\ next' \in Nat \ {0} /\ next' <= Len(batch)
              /\ batch' = batch
          BY <1>1, <2>2, <3>4, <4>1, Zenon
        <4>3. MergerTypes'
          BY <2>3, <3>1, <3>2, <4>2 DEF MergerTypes
        <4>4. Turn'
          BY <4>2 DEF Turn
        <4> QED
          BY <4>3, <4>4
      <3> QED
        BY <3>3, <3>4
    <2>8. PlaceInv'
      BY <2>1, <2>2, <2>3, <2>4, <2>5 DEF PlaceInv
    <2> QED
      BY <2>6, <2>7, <2>8
  <1> QED
    BY <1>2, <1>3

\* A request is never lost, merged twice or answered twice, for any number of callers,
\* whether they wait or have left, and whenever the merger is closed.
THEOREM MergerSafety ==
    ASSUME Nil \notin Request
    PROVE  Merger!Spec => []Merger!OnePlace
  <1>1. Merger!Init => MergerInv
    <2> SUFFICES ASSUME Merger!Init PROVE MergerInv
      OBVIOUS
    <2>1. /\ DOMAIN requests = {} /\ DOMAIN batch = {} /\ requests \in Seq(Request)
          /\ batch \in Seq(Request \cup {Nil})
      BY DEF Merger!Init
    <2> QED
      BY <2>1 DEF Merger!Init, MergerInv, MergerTypes, Turn, NoneTwice, PlaceInv, InChannel,
         InBatch
  <1>2. MergerInv /\ [Merger!Next]_(Merger!vars) => MergerInv'
    <2> USE DEF MergerInv, Merger!processVars
    <2>1. ASSUME MergerInv, UNCHANGED Merger!vars \/ Merger!Close PROVE MergerInv'
      BY <2>1 DEF Merger!vars, Merger!Close, MergerTypes, Turn, NoneTwice, PlaceInv, InChannel,
         InBatch
    <2>2. ASSUME MergerInv, Merger!Tick PROVE MergerInv'
      BY <2>2 DEF Merger!Tick, Merger!Flushes, MergerTypes, Turn, NoneTwice, PlaceInv,
         InChannel, InBatch
    <2>3. ASSUME MergerInv, Merger!Merge PROVE MergerInv'
      <3>1. /\ proc = "merge" /\ proc' = "answer" /\ next = 1 /\ next' = 1
            /\ UNCHANGED <<pc, requests, batch, response, answered>>
        BY <2>3 DEF Merger!Merge, Turn
      <3>2. 1 <= Len(batch)
        BY <2>3, <3>1 DEF MergerTypes, Turn
      <3> QED
        BY <2>3, <3>1, <3>2 DEF MergerTypes, Turn, NoneTwice, PlaceInv, InChannel, InBatch
    <2> HIDE DEF MergerInv
    <2> QED
      BY <2>1, <2>2, <2>3, SubmitKeeps, CollectKeeps, RespondKeeps
      DEF Merger!Next, Merger!Process
  <1>3. MergerInv => Merger!OnePlace
    <2> SUFFICES ASSUME MergerInv, NEW r \in Request
                 PROVE  /\ Cardinality(Merger!Places(r)) <= 1
                        /\ pc[r] = "wait" => Cardinality(Merger!Places(r)) = 1
                        /\ pc[r] = "wait" /\ r \in answered => response[r] # <<>>
                        /\ pc[r] \in {"idle", "send"} => Merger!Places(r) = {}
      BY DEF Merger!OnePlace, Merger!Cardinality, Cardinality
    <2>1. Merger!Places(r) = {} <=> ~InChannel(r) /\ ~InBatch(r) /\ r \notin answered
      BY DEF Merger!Places, InChannel, InBatch
    <2>2. \A p, q \in Merger!Places(r) : p = q
      <3>1. \A p \in Merger!Places(r) :
               \/ \E i \in DOMAIN requests : requests[i] = r /\ p = <<"queued", i>>
               \/ \E i \in DOMAIN batch : i >= next /\ batch[i] = r /\ p = <<"batch", i>>
               \/ r \in answered /\ p = <<"answered", 1>>
        BY DEF Merger!Places
      <3> QED
        BY <3>1 DEF MergerInv, NoneTwice, PlaceInv, InChannel, InBatch
    <2>3. Merger!Places(r) = {} \/ \E p : Merger!Places(r) = {p}
      BY <2>2
    <2>4. /\ Merger!Places(r) = {} => Cardinality(Merger!Places(r)) = 0
          /\ Merger!Places(r) # {} => Cardinality(Merger!Places(r)) = 1
      BY <2>3, FS_EmptySet, FS_Singleton
    <2> QED
      BY <2>1, <2>4 DEF MergerInv, PlaceInv
  <1> QED
    BY <1>1, <1>2, <1>3, PTL DEF Merger!Spec

-----------------------------------------------------------------------------
(***************************************************************************)
(* BatchProcessor, for any items, batch size and number of nils received.  *)
(***************************************************************************)
CONSTANTS Item, MaxNil

VARIABLES items, handed, accepted, nils

Batches == INSTANCE BatchProcessor

Entry == Item \cup {Nil}

\* What the goroutine was sent and has not handed over is in one of two sequences; nils
\* come after Close only, when nothing is accepted any more.
BatchInv ==
    /\ items \in Seq(Entry) /\ batch \in Seq(Entry)
    /\ handed \in Seq(Entry) /\ accepted \in Seq(Entry)
    /\ nils \in Nat /\ (~closed => nils = 0)
    /\ Batches!HandedInOrder

\* One element moves from the head of one sequence to the end of the one before it.
LEMMA HeadMoves ==
    ASSUME NEW S, NEW s \in Seq(S), NEW t \in Seq(S), t # <<>>
    PROVE  Append(s, Head(t)) \o Tail(t) = s \o t
  <1> DEFINE u == Append(s, Head(t)) \o Tail(t)
             v == s \o t
  <1>1. /\ Head(t) \in S /\ Head(t) = t[1] /\ Tail(t) \in Seq(S) /\ Len(Tail(t)) = Len(t) - 1
        /\ \A i \in 1 .. Len(Tail(t)) : Tail(t)[i] = t[i + 1]
        /\ Len(t) \in Nat /\ Len(t) > 0 /\ Len(s) \in Nat
    OBVIOUS
  <1>2. /\ Append(s, Head(t)) \in Seq(S) /\ Len(Append(s, Head(t))) = Len(s) + 1
        /\ \A i \in 1 .. Len(s) : Append(s, Head(t))[i] = s[i]
        /\ Append(s, Head(t))[Len(s) + 1] = Head(t)
    BY <1>1
  <1>3. /\ u \in Seq(S) /\ Len(u) = Len(s) + Len(t)
        /\ \A i \in 1 .. Len(s) + Len(t) :
              u[i] = IF i <= Len(s) + 1 THEN Append(s, Head(t))[i] ELSE Tail(t)[i - (Len(s) + 1)]
    BY <1>1, <1>2, ConcatProperties
  <1>4. /\ v \in Seq(S) /\ Len(v) = Len(s) + Len(t)
        /\ \A i \in 1 .. Len(s) + Len(t) : v[i] = IF i <= Len(s) THEN s[i] ELSE t[i - Len(s)]
    BY ConcatProperties
  <1>5. ASSUME NEW i \in 1 .. Len(u) PROVE u[i] = v[i]
    <2>1. CASE i <= Len(s)
      BY <1>1, <1>2, <1>3, <1>4, <2>1
    <2>2. CASE i = Len(s) + 1
      BY <1>1, <1>2, <1>3, <1>4, <2>2
    <2>3. CASE i > Len(s) + 1
      <3>1. /\ i - (Len(s) + 1) \in 1 .. Len(Tail(t)) /\ i - (Len(s) + 1) + 1 = i - Len(s)
            /\ ~(i <= Len(s)) /\ ~(i <= Len(s) + 1) /\ i \in 1 .. Len(s) + Len(t)
        BY <1>1, <1>3, <2>3
      <3> QED
        BY <1>1, <1>3, <1>4, <3>1
    <2> QED
      BY <1>1, <1>3, <2>1, <2>2, <2>3
  <1> HIDE DEF u, v
  <1>6. u = v
    BY <1>3, <1>4, <1>5, SeqEqual
  <1> QED
    BY <1>6 DEF u, v

\* An element at the end of the last of two sequences is at the end of both.
LEMMA EndOfBoth ==
    ASSUME NEW S, NEW s \in Seq(S), NEW t \in Seq(S), NEW e \in S
    PROVE  s \o Append(t, e) = Append(s \o t, e)
  <1>1. /\ Append(t, e) = t \o <<e>> /\ <<e>> \in Seq(S) /\ s \o t \in Seq(S)
        /\ Append(s \o t, e) = (s \o t) \o <<e>>
    BY ConcatProperties, AppendIsConcat
  <1> QED
    BY <1>1, ConcatAssociative

\* The nils received so far.
LEMMA NilsGrow ==
    ASSUME NEW n \in Nat
    PROVE  /\ [i \in 1 .. n |-> Nil] \in Seq(Entry)
           /\ Append([i \in 1 .. n |-> Nil], Nil) = [i \in 1 .. n + 1 |-> Nil]
           /\ [i \in 1 .. 0 |-> Nil] = <<>>
  BY DEF Entry

\* The items that were not handed over yet may be split in any way between the batch and
\* the channel.
LEMMA ReceiveKeeps ==
    ASSUME BatchInv, Batches!Receive
    PROVE  BatchInv'
  <1> DEFINE x == IF items = <<>> THEN Nil ELSE Head(items)
             b == Append(batch, x)
  <1> USE DEF BatchInv
  <1>1. /\ x \in Entry /\ b \in Seq(Entry) /\ handed \o b \in Seq(Entry)
        /\ handed \o batch \in Seq(Entry) /\ <<>> \in Seq(Entry)
    <2>1. x \in Entry
      BY DEF Entry
    <2>2. b \in Seq(Entry)
      BY <2>1
    <2> QED
      BY <2>1, <2>2, ConcatProperties
  <1>2. handed \o b = Append(handed \o batch, x)
    BY <1>1, EndOfBoth, SMTT(30)
  <1>3. /\ \/ handed' = handed \o b /\ batch' = <<>>
           \/ handed' = handed /\ batch' = b
        /\ UNCHANGED <<closed, accepted>>
    BY DEF Batches!Receive, Batches!HandOver
  <1> HIDE DEF b, x
  <1>4. /\ handed' \in Seq(Entry) /\ batch' \in Seq(Entry)
        /\ handed' \o batch' = Append(handed \o batch, x)
    BY <1>1, <1>2, <1>3, ConcatEmptySeq
  <1>5. CASE items # <<>>
    <2>1. items' = Tail(items) /\ nils' = nils /\ x = Head(items)
      BY <1>5 DEF Batches!Receive, x
    <2>2. items' \in Seq(Entry)
      BY <1>5, <2>1, HeadTailProperties
    <2>3. handed' \o batch' \o items' = handed \o batch \o items
      BY <1>1, <1>4, <1>5, <2>1, HeadMoves
    <2> QED
      BY <1>3, <1>4, <2>1, <2>2, <2>3 DEF Batches!HandedInOrder
  <1>6. CASE items = <<>>
    <2>1. /\ closed /\ nils' = nils + 1 /\ items' = <<>> /\ x = Nil
      BY <1>6 DEF Batches!Receive, x
    <2>2. PICK n \in 0 .. nils : handed \o batch \o items = accepted \o [i \in 1 .. n |-> Nil]
      BY DEF Batches!HandedInOrder
    <2>3. n \in Nat /\ n + 1 \in 0 .. nils' /\ Nil \in Entry
      BY <2>1 DEF Entry
    <2>4. handed \o batch = accepted \o [i \in 1 .. n |-> Nil]
      BY <1>1, <1>6, <2>2, ConcatEmptySeq
    <2>5. handed' \o batch' \o items' = Append(handed \o batch, Nil)
      <3>1. Append(handed \o batch, Nil) \in Seq(Entry)
        BY <1>1, <2>3
      <3> QED
        BY <1>4, <2>1, <3>1, ConcatEmptySeq
    <2>6. Append(handed \o batch, Nil) = accepted \o Append([i \in 1 .. n |-> Nil], Nil)
      BY <2>3, <2>4, NilsGrow, EndOfBoth
    <2>7. handed' \o batch' \o items' = accepted' \o [i \in 1 .. n + 1 |-> Nil]
      BY <1>3, <2>3, <2>5, <2>6, NilsGrow
    <2>8. Batches!HandedInOrder'
      BY <2>3, <2>7 DEF Batches!HandedInOrder
    <2> QED
      BY <1>1, <1>3, <1>4, <2>1, <2>8
  <1> QED
    BY <1>5, <1>6

\* The processor is handed what Add accepted, once each and in order, for any items and
\* batch size, whenever the ticker fires and whenever the processor is closed.
THEOREM BatchSafety == Batches!Spec => []Batches!HandedInOrder
  <1>1. Batches!Init => BatchInv
    <2> SUFFICES ASSUME Batches!Init PROVE BatchInv
      OBVIOUS
    <2>1. <<>> \in Seq(Entry) /\ <<>> \o <<>> \o <<>> = <<>> \o [i \in 1 .. 0 |-> Nil]
      BY NilsGrow, ConcatEmptySeq, EmptySeq
    <2> QED
      BY <2>1 DEF Batches!Init, BatchInv, Batches!HandedInOrder
  <1>2. BatchInv /\ [Batches!Next]_(Batches!vars) => BatchInv'
    <2>1. ASSUME BatchInv, \/ UNCHANGED Batches!vars \/ Batches!Close
                           \/ \E i \in Item : Batches!CheckClosed(i)
          PROVE  BatchInv'
      <3>1. UNCHANGED <<items, batch, handed, accepted, nils>> /\ (closed => closed')
        BY <2>1 DEF Batches!vars, Batches!Close, Batches!CheckClosed
      <3> QED
        BY <2>1, <3>1 DEF BatchInv, Batches!HandedInOrder
    <2>2. ASSUME BatchInv, NEW i \in Item, Batches!Put(i) PROVE BatchInv'
      <3>1. CASE UNCHANGED <<items, accepted>>
        BY <2>2, <3>1 DEF BatchInv, Batches!Put, Batches!HandedInOrder
      <3>2. CASE ~closed /\ items' = Append(items, i) /\ accepted' = Append(accepted, i)
        <4> USE DEF BatchInv
        <4>1. /\ UNCHANGED <<closed, batch, handed, nils>> /\ nils = 0 /\ i \in Entry
              /\ items' \in Seq(Entry) /\ accepted' \in Seq(Entry)
              /\ handed \o batch \in Seq(Entry)
          BY <2>2, <3>2, ConcatProperties DEF Batches!Put, Entry
        <4>2. handed \o batch \o items = accepted
          <5>1. PICK n \in 0 .. nils :
                   handed \o batch \o items = accepted \o [k \in 1 .. n |-> Nil]
            BY <2>2 DEF Batches!HandedInOrder
          <5>2. n = 0
            BY <4>1, <5>1
          <5> QED
            BY <2>2, <5>1, <5>2, NilsGrow, ConcatEmptySeq
        <4>3. handed' \o batch' \o items' = accepted'
          <5>1. (handed \o batch) \o Append(items, i) = Append(handed \o batch \o items, i)
            BY <2>2, <4>1, EndOfBoth, SMTT(30)
          <5> QED
            BY <3>2, <4>1, <4>2, <5>1
        <4>4. accepted' = accepted' \o [k \in 1 .. 0 |-> Nil]
          BY <4>1, NilsGrow, ConcatEmptySeq
        <4>5. Batches!HandedInOrder'
          BY <4>1, <4>3, <4>4 DEF Batches!HandedInOrder
        <4> QED
          BY <2>2, <4>1, <4>5
      <3> QED
        BY <2>2, <3>1, <3>2 DEF Batches!Put
    <2>3. ASSUME BatchInv, Batches!Tick PROVE BatchInv'
      <3>1. /\ handed' = handed \o batch /\ batch' = <<>>
            /\ UNCHANGED <<items, closed, accepted, nils>>
        BY <2>3 DEF Batches!Tick, Batches!HandOver
      <3>2. /\ handed' \in Seq(Entry) /\ batch' \in Seq(Entry)
            /\ handed' \o batch' = handed \o batch
        BY <2>3, <3>1, ConcatProperties, ConcatEmptySeq DEF BatchInv
      <3> QED
        BY <2>3, <3>1, <3>2 DEF BatchInv, Batches!HandedInOrder
    <2> QED
      BY <2>1, <2>2, <2>3, ReceiveKeeps DEF Batches!Next
  <1>3. BatchInv => Batches!HandedInOrder
    BY DEF BatchInv
  <1> QED
    BY <1>1, <1>2, <1>3, PTL DEF Batches!Spec

-----------------------------------------------------------------------------
(***************************************************************************)
(* Permits, for any number of clients and permits.                         *)
(***************************************************************************)
CONSTANTS Client, maxConcurrency, MaxTotal

VARIABLES kind, semaphore, Active, Total, Rejected, at

Permits == INSTANCE Permits

\* The points of a controller or a limiter and those of the rate limiter are apart, and the
\* marks in the channel of ConcurrentLimiter are those of the clients that took one.
PointInv ==
    /\ kind = "rate" => \A c \in Client : at[c] \in {"idle", "waiting"}
    /\ kind # "rate" => \A c \in Client : at[c] # "waiting"
    /\ kind = "limiter" => semaphore = Permits!Clients("working") + Permits!Clients("taken")

PermitInv ==
    /\ Permits!TypeOK /\ PointInv
    /\ Permits!StatisticsLag /\ Permits!LetThroughWithinTokens

\* A client that goes from one point to another is counted at the other.
LEMMA ClientMoves ==
    ASSUME IsFiniteSet(Client), Permits!TypeOK, NEW c \in Client, NEW to, to # at[c],
           Permits!Moves(c, to), NEW p
    PROVE  /\ Permits!Clients(p) \in Nat
           /\ Permits!Clients(p)' = Permits!Clients(p) + (IF p = to THEN 1 ELSE 0)
                                      - (IF p = at[c] THEN 1 ELSE 0)
  <1> DEFINE Here == {d \in Client : at[d] = p}
             Then == {d \in Client : at'[d] = p}
  <1>1. Permits!Clients(p) = Cardinality(Here) /\ Permits!Clients(p)' = Cardinality(Then)
    BY DEF Permits!Clients, Permits!Cardinality, Cardinality
  <1>2. IsFiniteSet(Here) /\ Cardinality(Here) \in Nat
    BY FS_Subset, FS_CardinalityType
  <1>3. at' = [at EXCEPT ![c] = to] /\ at \in [Client -> {"idle", "taken", "refused", "told",
                                                          "working", "freed", "waiting"}]
    BY DEF Permits!Moves, Permits!TypeOK
  <1>4. CASE p = to
    <2>1. Then = Here \cup {c} /\ c \notin Here
      BY <1>3, <1>4
    <2> HIDE DEF Here, Then
    <2>2. Cardinality(Then) = Cardinality(Here) + 1
      BY <1>2, <2>1, FS_AddElement
    <2> QED
      BY <1>1, <1>2, <1>4, <2>2
  <1>5. CASE p = at[c]
    <2>1. Then = Here \ {c} /\ c \in Here
      BY <1>3, <1>5
    <2> HIDE DEF Here, Then
    <2>2. Cardinality(Then) = Cardinality(Here) - 1
      BY <1>2, <2>1, FS_RemoveElement
    <2> QED
      BY <1>1, <1>2, <1>5, <2>2
  <1>6. CASE p # to /\ p # at[c]
    <2>1. Then = Here
      BY <1>3, <1>6
    <2> HIDE DEF Here, Then
    <2> QED
      BY <1>1, <1>2, <1>6, <2>1
  <1> QED
    BY <1>4, <1>5, <1>6

\* Nobody is counted anywhere else when nobody moves.
LEMMA ClientsRest ==
    ASSUME IsFiniteSet(Client), UNCHANGED at, NEW p
    PROVE  Permits!Clients(p) \in Nat /\ Permits!Clients(p)' = Permits!Clients(p)
  <1> DEFINE Here == {d \in Client : at[d] = p}
  <1>1. Permits!Clients(p) = Cardinality(Here) /\ Permits!Clients(p)' = Cardinality(Here)
    BY DEF Permits!Clients, Permits!Cardinality, Cardinality
  <1>2. Cardinality(Here) \in Nat
    BY FS_Subset, FS_CardinalityType
  <1> QED
    BY <1>1, <1>2

\* Every step of a client keeps the invariant.
LEMMA PermitStep ==
    ASSUME IsFiniteSet(Client), maxConcurrency \in Nat, PermitInv, [Permits!Next]_(Permits!vars)
    PROVE  PermitInv'
  <1> USE DEF PermitInv, Permits!TypeOK, PointInv, Permits!StatisticsLag,
          Permits!LetThroughWithinTokens
  <1>1. ASSUME NEW c \in Client, Permits!TakePermit(c) PROVE PermitInv'
    <2>1. CASE semaphore < maxConcurrency
      <3>1. /\ at[c] = "idle" /\ kind # "rate" /\ Permits!Moves(c, "taken")
            /\ semaphore' = semaphore + 1 /\ UNCHANGED <<kind, Active, Total, Rejected>>
        BY <1>1, <2>1 DEF Permits!TakePermit
      <3>2. /\ Permits!Clients("taken")' = Permits!Clients("taken") + 1
            /\ Permits!Clients("freed")' = Permits!Clients("freed")
            /\ Permits!Clients("working")' = Permits!Clients("working")
            /\ \A p \in {"taken", "freed", "working"} : Permits!Clients(p) \in Nat
        BY <3>1, ClientMoves
      <3>3. /\ at' \in [Client -> {"idle", "taken", "refused", "told", "working", "freed",
                                   "waiting"}]
            /\ \A d \in Client : at'[d] # "waiting"
        BY <3>1 DEF Permits!Moves
      <3> QED
        BY <2>1, <3>1, <3>2, <3>3
    <2>2. CASE ~(semaphore < maxConcurrency)
      <3>1. /\ at[c] = "idle" /\ kind # "rate" /\ Permits!Moves(c, "refused")
            /\ UNCHANGED <<kind, semaphore, Active, Total, Rejected>>
        BY <1>1, <2>2 DEF Permits!TakePermit
      <3>2. \A p \in {"taken", "freed", "working"} :
               Permits!Clients(p) \in Nat /\ Permits!Clients(p)' = Permits!Clients(p)
        BY <3>1, ClientMoves
      <3> QED
        BY <3>1, <3>2 DEF Permits!Moves
    <2> QED
      BY <2>1, <2>2
  <1>2. ASSUME NEW c \in Client, Permits!CountTaken(c) PROVE PermitInv'
    <2>1. /\ at[c] = "taken" /\ Permits!Moves(c, "working") /\ Active' = Active + 1
          /\ Total' = Total + 1 /\ UNCHANGED <<kind, semaphore, Rejected>>
      BY <1>2 DEF Permits!CountTaken
    <2>2. /\ Permits!Clients("taken")' = Permits!Clients("taken") - 1
          /\ Permits!Clients("freed")' = Permits!Clients("freed")
          /\ Permits!Clients("working")' = Permits!Clients("working") + 1
          /\ \A p \in {"taken", "freed", "working"} : Permits!Clients(p) \in Nat
      BY <2>1, ClientMoves
    <2> QED
      BY <2>1, <2>2 DEF Permits!Moves
  <1>3. ASSUME NEW c \in Client, Permits!CountRefused(c) \/ Permits!GivesUp(c) PROVE PermitInv'
    <2>1. PICK to \in {"told", "idle"} :
             /\ at[c] \in {"refused", "told"} /\ to # at[c] /\ Permits!Moves(c, to)
             /\ UNCHANGED <<kind, semaphore, Active, Total>> /\ Rejected' \in Nat
      BY <1>3 DEF Permits!CountRefused, Permits!GivesUp
    <2>2. \A p \in {"taken", "freed", "working"} :
             Permits!Clients(p) \in Nat /\ Permits!Clients(p)' = Permits!Clients(p)
      BY <2>1, ClientMoves
    <2> QED
      BY <2>1, <2>2 DEF Permits!Moves
  <1>4. ASSUME NEW c \in Client, Permits!FreePermit(c) PROVE PermitInv'
    <2>1. /\ at[c] \in {"working", "told"} /\ kind # "rate"
          /\ kind = "limiter" => at[c] = "working" /\ semaphore > 0
          /\ UNCHANGED <<kind, Active, Total, Rejected>>
      BY <1>4 DEF Permits!FreePermit
    <2>2. CASE semaphore > 0
      <3>1. Permits!Moves(c, "freed") /\ semaphore' = semaphore - 1
        BY <1>4, <2>2 DEF Permits!FreePermit, Permits!Freed
      <3>2. /\ Permits!Clients("freed")' = Permits!Clients("freed") + 1
            /\ Permits!Clients("taken")' = Permits!Clients("taken")
            /\ at[c] = "working" =>
                  Permits!Clients("working")' = Permits!Clients("working") - 1
            /\ \A p \in {"taken", "freed", "working"} : Permits!Clients(p) \in Nat
        BY <2>1, <3>1, ClientMoves
      <3> QED
        BY <2>1, <2>2, <3>1, <3>2 DEF Permits!Moves
    <2>3. CASE ~(semaphore > 0)
      <3>1. Permits!Moves(c, "idle") /\ semaphore' = 0 /\ semaphore = 0
        BY <1>4, <2>3 DEF Permits!FreePermit, Permits!Freed
      <3>2. \A p \in {"taken", "freed"} :
               Permits!Clients(p) \in Nat /\ Permits!Clients(p)' = Permits!Clients(p)
        BY <2>1, <3>1, ClientMoves
      <3> QED
        BY <2>1, <2>3, <3>1, <3>2 DEF Permits!Moves
    <2> QED
      BY <2>2, <2>3
  <1>5. ASSUME NEW c \in Client, Permits!CountFreed(c) PROVE PermitInv'
    <2>1. /\ at[c] = "freed" /\ Permits!Moves(c, "idle") /\ Active' = Active - 1
          /\ UNCHANGED <<kind, semaphore, Total, Rejected>>
      BY <1>5 DEF Permits!CountFreed
    <2>2. /\ Permits!Clients("freed")' = Permits!Clients("freed") - 1
          /\ Permits!Clients("taken")' = Permits!Clients("taken")
          /\ Permits!Clients("working")' = Permits!Clients("working")
          /\ \A p \in {"taken", "freed", "working"} : Permits!Clients(p) \in Nat
      BY <2>1, ClientMoves
    <2> QED
      BY <2>1, <2>2 DEF Permits!Moves
  <1>6. ASSUME NEW c \in Client, Permits!Allow(c) PROVE PermitInv'
    BY <1>6 DEF Permits!Allow
  <1>7. ASSUME NEW c \in Client, Permits!Wait(c) PROVE PermitInv'
    BY <1>7 DEF Permits!Wait, Permits!Moves
  <1>8. ASSUME NEW c \in Client, Permits!Waited(c) PROVE PermitInv'
    BY <1>8 DEF Permits!Waited, Permits!Moves
  <1>9. CASE Permits!refillTokens
    BY <1>9 DEF Permits!refillTokens
  <1>10. CASE UNCHANGED Permits!vars
    <2>1. UNCHANGED <<kind, semaphore, Active, Total, Rejected, at>>
      BY <1>10 DEF Permits!vars
    <2>2. \A p \in {"taken", "freed", "working"} : Permits!Clients(p)' = Permits!Clients(p)
      BY <2>1, ClientsRest
    <2> QED
      BY <2>1, <2>2
  <1> QED
    BY <1>1, <1>2, <1>3, <1>4, <1>5, <1>6, <1>7, <1>8, <1>9, <1>10 DEF Permits!Next

\* A behaviour of the permits has the invariant in every state.
LEMMA PermitInductive ==
    ASSUME IsFiniteSet(Client), maxConcurrency \in Nat
    PROVE  Permits!Spec => []PermitInv
  <1>1. Permits!Init => PermitInv
    <2> SUFFICES ASSUME Permits!Init PROVE PermitInv
      OBVIOUS
    <2>1. ASSUME NEW p, p # "idle" PROVE Permits!Clients(p) = 0
      <3>1. {c \in Client : at[c] = p} = {}
        BY <2>1 DEF Permits!Init
      <3>2. Permits!Clients(p) = Cardinality({c \in Client : at[c] = p})
        BY DEF Permits!Clients, Permits!Cardinality, Cardinality
      <3> QED
        BY <3>1, <3>2, FS_EmptySet
    <2>2. /\ Permits!Clients("taken") = 0 /\ Permits!Clients("freed") = 0
          /\ Permits!Clients("working") = 0
      BY <2>1
    <2> QED
      BY <2>2 DEF Permits!Init, PermitInv, Permits!TypeOK, PointInv, Permits!StatisticsLag,
         Permits!LetThroughWithinTokens
  <1>2. PermitInv /\ [Permits!Next]_(Permits!vars) => PermitInv'
    BY PermitStep
  <1> QED
    BY <1>1, <1>2, PTL DEF Permits!Spec

\* The statistics differ from the channel by the clients between the two steps only, also when
\* a refused client calls Release; ConcurrentLimiter runs no more functions than it has
\* permits; the rate limiter lets through its burst and what was put back.
THEOREM PermitSafety ==
    ASSUME IsFiniteSet(Client), maxConcurrency \in Nat
    PROVE  Permits!Spec => [](/\ Permits!TypeOK /\ Permits!StatisticsLag
                              /\ Permits!AtMostMaxRun /\ Permits!LetThroughWithinTokens)
  <1>1. PermitInv => Permits!AtMostMaxRun
    <2> SUFFICES ASSUME PermitInv, kind = "limiter"
                 PROVE  /\ Permits!Clients("working") + Permits!Clients("taken") <= maxConcurrency
                        /\ Active <= maxConcurrency + Permits!Clients("freed")
      BY DEF Permits!AtMostMaxRun
    <2>1. \A p : Permits!Clients(p) \in Nat
      <3> SUFFICES ASSUME NEW p PROVE Cardinality({c \in Client : at[c] = p}) \in Nat
        BY DEF Permits!Clients, Permits!Cardinality, Cardinality
      <3> QED
        BY FS_Subset, FS_CardinalityType
    <2>2. /\ Permits!Clients("taken") \in Nat /\ Permits!Clients("freed") \in Nat
          /\ Permits!Clients("working") \in Nat
      BY <2>1
    <2> QED
      BY <2>2 DEF PermitInv, PointInv, Permits!TypeOK, Permits!StatisticsLag
  <1>2. PermitInv => Permits!TypeOK /\ Permits!StatisticsLag /\ Permits!LetThroughWithinTokens
    BY DEF PermitInv
  <1> QED
    BY <1>1, <1>2, PermitInductive, PTL

-----------------------------------------------------------------------------
(***************************************************************************)
(* AdaptiveLimiter, for any requests, rates and number of replacements.    *)
(***************************************************************************)
CONSTANTS baseRate, minRate, maxRate, MaxGen, MaxRecords

VARIABLES currentRate, rateLimiter, capacity, marks, bucket, successCount, errorCount, mutex,
          adjust, stopper, on

Limits == INSTANCE AdaptiveLimiter

LimitsAssumption ==
    /\ baseRate \in Nat /\ minRate \in Nat /\ maxRate \in Nat
    /\ minRate <= baseRate /\ baseRate <= maxRate
    /\ MaxGen \in Nat \ {0} /\ MaxRecords \in Nat

\* What has not been made yet is empty; a request works on a limiter that has been made.
MadeInv ==
    /\ \A g \in Limits!Gen : g > rateLimiter => bucket[g] = "none" /\ marks[g] = 0
    /\ \A r \in Request : pc[r] # "idle" => on[r] \in 1 .. rateLimiter

\* An adjustment has the mutex, there is a limiter to come, and the old one is stopped
\* before it is replaced.
AdjustInv ==
    /\ mutex = "adjust" <=> adjust # "idle"
    /\ adjust # "idle" => rateLimiter < MaxGen
    /\ adjust = "replacing" => bucket[rateLimiter] = "gone"

LimitsInv == Limits!TypeOK /\ MadeInv /\ AdjustInv /\ Limits!OneBucket

\* The rate stays within its limits.
LEMMA RateInLimits ==
    ASSUME LimitsAssumption, Limits!TypeOK
    PROVE  Limits!AdjustedRate \in minRate .. maxRate
  <1>1. /\ currentRate \in minRate .. maxRate /\ minRate \in Nat /\ maxRate \in Nat
        /\ minRate <= maxRate
    BY DEF LimitsAssumption, Limits!TypeOK
  <1>2. /\ (IF currentRate + 1 < maxRate THEN currentRate + 1 ELSE maxRate) \in minRate .. maxRate
        /\ (IF currentRate > minRate + 1 THEN currentRate - 1 ELSE minRate) \in minRate .. maxRate
    BY <1>1
  <1> DEFINE total == successCount + errorCount
             up == 10 * successCount > 9 * total
             down == 10 * successCount < 7 * total
  <1>3. Limits!AdjustedRate =
            CASE up -> IF currentRate + 1 < maxRate THEN currentRate + 1 ELSE maxRate
              [] down -> IF currentRate > minRate + 1 THEN currentRate - 1 ELSE minRate
              [] OTHER -> currentRate
    BY DEF Limits!AdjustedRate
  <1>4. ~(up /\ down)
    BY DEF Limits!TypeOK
  <1> HIDE DEF up, down
  <1> QED
    BY <1>1, <1>2, <1>3, <1>4

\* A request: it reads the limiter, puts its mark where there is room, gives up or reports.
LEMMA RequestKeeps ==
    ASSUME LimitsAssumption, LimitsInv, NEW r \in Request,
           \/ \E p \in {"allow", "wait", "waitTimeout"} : Limits!Call(r, p)
           \/ Limits!Acquire(r) \/ Limits!Refused(r) \/ Limits!Record(r)
    PROVE  LimitsInv'
  <1>0. /\ Limits!TypeOK /\ MadeInv /\ AdjustInv /\ Limits!OneBucket /\ rateLimiter \in Limits!Gen
        /\ rateLimiter \in 1 .. rateLimiter /\ MaxGen \in Nat /\ MaxRecords \in Nat
    BY DEF LimitsInv, Limits!TypeOK, Limits!Gen, LimitsAssumption
  <1>1. ASSUME NEW p \in {"allow", "wait", "waitTimeout"}, Limits!Call(r, p) PROVE LimitsInv'
    <2>1. /\ pc' = [pc EXCEPT ![r] = p] /\ on' = [on EXCEPT ![r] = rateLimiter]
          /\ UNCHANGED <<currentRate, rateLimiter, capacity, marks, bucket, successCount,
                         errorCount, mutex, adjust, stopper>>
      BY <1>1 DEF Limits!Call, Limits!limiterVars, Limits!countVars
    <2>2. Limits!TypeOK'
      BY <1>0, <2>1 DEF Limits!TypeOK
    <2>3. MadeInv'
      BY <1>0, <2>1 DEF MadeInv, Limits!TypeOK
    <2> QED
      BY <1>0, <2>1, <2>2, <2>3 DEF LimitsInv, AdjustInv, Limits!OneBucket
  <1>2. ASSUME Limits!Acquire(r) PROVE LimitsInv'
    <2>1. /\ pc[r] # "idle" /\ marks[on[r]] < capacity[on[r]]
          /\ marks' = [marks EXCEPT ![on[r]] = @ + 1] /\ pc' = [pc EXCEPT ![r] = "through"]
          /\ UNCHANGED <<currentRate, rateLimiter, capacity, bucket, successCount,
                         errorCount, mutex, adjust, stopper, on>>
      BY <1>2 DEF Limits!Acquire, Limits!countVars
    <2>2. on[r] \in 1 .. rateLimiter /\ on[r] \in Limits!Gen
      BY <1>0, <2>1 DEF MadeInv, Limits!Gen
    <2>3. Limits!TypeOK'
      BY <1>0, <2>1, <2>2 DEF Limits!TypeOK
    <2>4. MadeInv'
      <3>1. \A g \in Limits!Gen : g > rateLimiter => g # on[r]
        BY <1>0, <2>2 DEF Limits!Gen
      <3> QED
        BY <1>0, <2>1, <3>1 DEF MadeInv, Limits!TypeOK
    <2>5. Limits!OneBucket'
      <3>1. \A g \in Limits!Gen : marks'[g] <= capacity[g]
        BY <1>0, <2>1, <2>2 DEF Limits!OneBucket, Limits!TypeOK
      <3> QED
        BY <1>0, <2>1, <3>1 DEF Limits!OneBucket
    <2> QED
      BY <1>0, <2>1, <2>3, <2>4, <2>5 DEF LimitsInv, AdjustInv
  <1>3. ASSUME Limits!Refused(r) PROVE LimitsInv'
    <2>1. /\ pc[r] # "idle" /\ pc' = [pc EXCEPT ![r] = "refused"]
          /\ UNCHANGED <<currentRate, rateLimiter, capacity, marks, bucket, successCount,
                         errorCount, mutex, adjust, stopper, on>>
      BY <1>3 DEF Limits!Refused, Limits!limiterVars, Limits!countVars
    <2>2. Limits!TypeOK' /\ MadeInv'
      BY <1>0, <2>1 DEF Limits!TypeOK, MadeInv
    <2> QED
      BY <1>0, <2>1, <2>2 DEF LimitsInv, AdjustInv, Limits!OneBucket
  <1>4. ASSUME Limits!Record(r) PROVE LimitsInv'
    <2>1. /\ successCount + errorCount < MaxRecords /\ pc' = [pc EXCEPT ![r] = "idle"]
          /\ \/ successCount' = successCount + 1 /\ errorCount' = errorCount
             \/ errorCount' = errorCount + 1 /\ successCount' = successCount
          /\ UNCHANGED <<currentRate, rateLimiter, capacity, marks, bucket, mutex, adjust,
                         stopper, on>>
      BY <1>4 DEF Limits!Record, Limits!limiterVars
    <2>2. successCount' \in 0 .. MaxRecords /\ errorCount' \in 0 .. MaxRecords
      BY <1>0, <2>1 DEF Limits!TypeOK
    <2>3. Limits!TypeOK' /\ MadeInv'
      BY <1>0, <2>1, <2>2 DEF Limits!TypeOK, MadeInv
    <2> QED
      BY <1>0, <2>1, <2>3 DEF LimitsInv, AdjustInv, Limits!OneBucket
  <1> QED
    BY <1>1, <1>2, <1>3, <1>4

LEMMA LimiterTickKeeps ==
    ASSUME LimitsInv, NEW g \in Limits!Gen, Limits!Tick(g)
    PROVE  LimitsInv'
  <1>1. /\ bucket[g] = "running" /\ marks[g] > 0 /\ marks' = [marks EXCEPT ![g] = @ - 1]
        /\ UNCHANGED <<currentRate, rateLimiter, capacity, bucket, successCount,
                       errorCount, mutex, adjust, stopper, pc, on>>
    BY DEF Limits!Tick, Limits!countVars
  <1>2. marks[g] \in Nat /\ marks[g] - 1 \in Nat
    BY <1>1 DEF LimitsInv, Limits!TypeOK
  <1>3. Limits!TypeOK'
    BY <1>1, <1>2 DEF LimitsInv, Limits!TypeOK
  <1>4. MadeInv'
    BY <1>1 DEF LimitsInv, Limits!TypeOK, MadeInv
  <1>5. Limits!OneBucket'
    <2>1. ASSUME NEW h \in Limits!Gen PROVE marks'[h] <= capacity[h]
      <3>1. marks[h] \in Nat /\ capacity[h] \in Nat /\ marks[h] <= capacity[h]
        BY DEF LimitsInv, Limits!TypeOK, Limits!OneBucket
      <3>2. marks'[h] = IF h = g THEN marks[h] - 1 ELSE marks[h]
        BY <1>1 DEF LimitsInv, Limits!TypeOK
      <3> QED
        BY <3>1, <3>2
    <2> QED
      BY <1>1, <2>1 DEF LimitsInv, Limits!OneBucket
  <1> QED
    BY <1>1, <1>3, <1>4, <1>5 DEF LimitsInv, AdjustInv

\* adjustRate, and Stop.
LEMMA AdjustKeeps ==
    ASSUME LimitsAssumption, LimitsInv,
           Limits!AdjustRate \/ Limits!StopOld \/ Limits!Replace \/ Limits!Stop
    PROVE  LimitsInv'
  <1>0. /\ Limits!TypeOK /\ MadeInv /\ AdjustInv /\ Limits!OneBucket /\ rateLimiter \in Limits!Gen
        /\ rateLimiter \in Nat /\ MaxGen \in Nat /\ MaxRecords \in Nat
    BY DEF LimitsInv, Limits!TypeOK, Limits!Gen, LimitsAssumption
  <1>1. CASE Limits!AdjustRate
    <2>1. /\ adjust = "idle" /\ rateLimiter < MaxGen /\ mutex' = "adjust" /\ adjust' = "stopping"
          /\ currentRate' \in minRate .. maxRate
          /\ UNCHANGED <<rateLimiter, capacity, marks, bucket, successCount, errorCount,
                         stopper, pc, on>>
      BY <1>0, <1>1, RateInLimits DEF Limits!AdjustRate, Limits!limiterVars
    <2>2. Limits!TypeOK'
      BY <1>0, <2>1 DEF Limits!TypeOK
    <2> QED
      BY <1>0, <2>1, <2>2 DEF LimitsInv, MadeInv, AdjustInv, Limits!OneBucket
  <1>2. ASSUME bucket' = [bucket EXCEPT ![rateLimiter] = "gone"],
               stopper' \in {"no", "done"},
               \/ adjust' = adjust
               \/ adjust = "stopping" /\ adjust' = "replacing",
               UNCHANGED <<currentRate, rateLimiter, capacity, marks, successCount, errorCount,
                           mutex, pc, on>>
        PROVE  LimitsInv'
    <2>1. Limits!TypeOK'
      BY <1>0, <1>2 DEF Limits!TypeOK
    <2>2. /\ bucket'[rateLimiter] = "gone"
          /\ \A g \in Limits!Gen : g # rateLimiter => bucket'[g] = bucket[g]
      BY <1>0, <1>2 DEF Limits!TypeOK
    <2>3. MadeInv'
      BY <1>0, <1>2, <2>2 DEF MadeInv
    <2>4. AdjustInv'
      BY <1>0, <1>2, <2>2 DEF AdjustInv
    <2>5. Limits!OneBucket'
      BY <1>0, <1>2, <2>2 DEF Limits!OneBucket
    <2> QED
      BY <2>1, <2>3, <2>4, <2>5 DEF LimitsInv
  <1>3. CASE Limits!StopOld
    <2>1. stopper' \in {"no", "done"}
      BY <1>0, <1>3 DEF Limits!StopOld, Limits!TypeOK
    <2> QED
      BY <1>2, <1>3, <2>1 DEF Limits!StopOld, Limits!countVars
  <1>4. CASE Limits!Stop
    BY <1>2, <1>4 DEF Limits!Stop, Limits!countVars
  <1>5. CASE Limits!Replace
    <2> DEFINE g == rateLimiter + 1
    <2>1. /\ adjust = "replacing" /\ rateLimiter' = g
          /\ capacity' = [capacity EXCEPT ![g] = currentRate]
          /\ bucket' = [bucket EXCEPT ![g] = "running"]
          /\ successCount' = 0 /\ errorCount' = 0 /\ mutex' = "none" /\ adjust' = "idle"
          /\ UNCHANGED <<marks, currentRate, stopper, pc, on>>
      BY <1>5 DEF Limits!Replace
    <2>2. g \in Limits!Gen /\ g \in Nat /\ g > rateLimiter /\ 0 \in 0 .. MaxRecords
      BY <1>0, <2>1 DEF AdjustInv, Limits!Gen
    <2>3. currentRate \in Nat
      BY <1>0 DEF Limits!TypeOK, LimitsAssumption
    <2>4. /\ marks[g] = 0 /\ \A h \in Limits!Gen : bucket[h] # "running"
      BY <1>0, <2>1, <2>2 DEF MadeInv, AdjustInv, Limits!OneBucket
    <2>5. /\ capacity'[g] = currentRate /\ bucket'[g] = "running"
          /\ \A h \in Limits!Gen \ {g} : capacity'[h] = capacity[h] /\ bucket'[h] = bucket[h]
      BY <1>0, <2>1, <2>2 DEF Limits!TypeOK
    <2>6. Limits!TypeOK'
      BY <1>0, <2>1, <2>2, <2>3 DEF Limits!TypeOK
    <2>7. MadeInv'
      <3>1. \A h \in Limits!Gen : h > g => h > rateLimiter /\ h # g
        BY <1>0, <2>2 DEF Limits!Gen
      <3>2. 1 .. rateLimiter \subseteq 1 .. g
        BY <1>0, <2>2
      <3> HIDE DEF g
      <3> QED
        BY <1>0, <2>1, <2>5, <3>1, <3>2 DEF MadeInv
    <2>8. AdjustInv'
      BY <2>1 DEF AdjustInv
    <2>9. Limits!OneBucket'
      <3> HIDE DEF g
      <3>1. \A h \in Limits!Gen : bucket'[h] = "running" => h = g
        BY <2>4, <2>5
      <3>2. \A h \in Limits!Gen : marks[h] <= capacity'[h]
        BY <1>0, <2>3, <2>4, <2>5 DEF Limits!OneBucket
      <3> QED
        BY <2>1, <2>5, <3>1, <3>2 DEF Limits!OneBucket
    <2> QED
      BY <2>6, <2>7, <2>8, <2>9 DEF LimitsInv
  <1> QED
    BY <1>1, <1>3, <1>4, <1>5

LEMMA LimitsInvHolds ==
    ASSUME LimitsAssumption
    PROVE  Limits!Spec => []LimitsInv
  <1>1. Limits!Init => LimitsInv
    <2> SUFFICES ASSUME Limits!Init PROVE LimitsInv
      OBVIOUS
    <2>1. /\ baseRate \in minRate .. maxRate /\ baseRate \in Nat /\ 1 \in Limits!Gen
          /\ 0 \in 0 .. MaxRecords
      BY DEF LimitsAssumption, Limits!Gen
    <2>2. Limits!TypeOK
      BY <2>1 DEF Limits!Init, Limits!TypeOK
    <2>3. MadeInv /\ AdjustInv
      BY <2>1 DEF Limits!Init, MadeInv, AdjustInv
    <2>4. Limits!OneBucket
      BY <2>1 DEF Limits!Init, Limits!OneBucket
    <2> QED
      BY <2>2, <2>3, <2>4 DEF LimitsInv
  <1>2. LimitsInv /\ [Limits!Next]_(Limits!vars) => LimitsInv'
    <2> SUFFICES ASSUME LimitsInv, [Limits!Next]_(Limits!vars) PROVE LimitsInv'
      OBVIOUS
    <2>1. ASSUME NEW r \in Request,
                 \/ \E p \in {"allow", "wait", "waitTimeout"} : Limits!Call(r, p)
                 \/ Limits!Acquire(r) \/ Limits!Refused(r) \/ Limits!Record(r)
          PROVE  LimitsInv'
      BY <2>1, RequestKeeps
    <2>2. ASSUME NEW g \in Limits!Gen, Limits!Tick(g) PROVE LimitsInv'
      BY <2>2, LimiterTickKeeps
    <2>3. CASE Limits!AdjustRate \/ Limits!StopOld \/ Limits!Replace \/ Limits!Stop
      BY <2>3, AdjustKeeps
    <2>4. CASE UNCHANGED Limits!vars
      BY <2>4 DEF Limits!vars, LimitsInv, Limits!TypeOK, MadeInv, AdjustInv, Limits!OneBucket
    <2> QED
      BY <2>1, <2>2, <2>3, <2>4 DEF Limits!Next
  <1> QED
    BY <1>1, <1>2, PTL DEF Limits!Spec

\* adjustRate replaces the limiter while requests work on the one they read: only the
\* goroutine of the limiter in use runs, no channel has more marks than places, and the rate
\* in use is the one that was computed last, for any number of requests and replacements.
THEOREM OneTokenGoroutine ==
    ASSUME LimitsAssumption
    PROVE  Limits!Spec => [](Limits!TypeOK /\ Limits!OneBucket)
  <1>1. LimitsInv => Limits!TypeOK /\ Limits!OneBucket
    BY DEF LimitsInv
  <1> QED
    BY <1>1, LimitsInvHolds, PTL

\* A Wait on a limiter that was stopped with its channel full is never served: no step takes
\* a mark out of that channel or gives the request another one.
THEOREM StuckStaysStuck ==
    ASSUME LimitsAssumption
    PROVE  Limits!Spec => [][Limits!StuckIsForever]_(Limits!vars)
  <1>1. LimitsInv /\ [Limits!Next]_(Limits!vars) => [Limits!StuckIsForever]_(Limits!vars)
    <2> SUFFICES ASSUME LimitsInv, Limits!Next, NEW r \in Request, Limits!Stuck(r)
                 PROVE  Limits!Stuck(r)'
      BY DEF Limits!StuckIsForever
    <2> DEFINE g == on[r]
    <2>0. /\ pc[r] = "wait" /\ bucket[g] = "gone" /\ marks[g] >= capacity[g]
          /\ g \in 1 .. rateLimiter /\ g \in Limits!Gen /\ rateLimiter \in Nat
          /\ marks \in [Limits!Gen -> Nat] /\ capacity \in [Limits!Gen -> Nat]
          /\ bucket \in [Limits!Gen -> {"none", "running", "gone"}]
          /\ pc \in [Request -> {"idle", "allow", "wait", "waitTimeout", "through", "refused"}]
          /\ DOMAIN on = Request
      <3>1. g \in 1 .. rateLimiter /\ rateLimiter \in Limits!Gen
        BY DEF LimitsInv, Limits!TypeOK, MadeInv, Limits!Stuck
      <3> HIDE DEF g
      <3>2. g \in Limits!Gen /\ rateLimiter \in Nat
        <4>1. MaxGen \in Nat /\ Limits!Gen = 1 .. MaxGen
          BY DEF LimitsAssumption, Limits!Gen
        <4> QED
          BY <3>1, <4>1
      <3> QED
        BY <3>1, <3>2 DEF LimitsInv, Limits!TypeOK, Limits!Stuck, g
    <2>1. ASSUME pc'[r] = "wait", on'[r] = g, bucket'[g] = "gone", marks'[g] >= capacity'[g]
          PROVE  Limits!Stuck(r)'
      BY <2>1 DEF Limits!Stuck
    <2> HIDE DEF g
    <2>2. ASSUME NEW s \in Request, NEW p \in {"allow", "wait", "waitTimeout"}, Limits!Call(s, p)
          PROVE  Limits!Stuck(r)'
      <3>1. s # r
        BY <2>0, <2>2 DEF Limits!Call
      <3> QED
        BY <2>0, <2>1, <2>2, <3>1 DEF Limits!Call, Limits!limiterVars, g
    <2>3. ASSUME NEW s \in Request, Limits!Acquire(s) PROVE Limits!Stuck(r)'
      <3>1. on[s] # g
        <4>1. marks[on[s]] < capacity[on[s]]
          BY <2>3 DEF Limits!Acquire
        <4> QED
          BY <2>0, <4>1
      <3>2. s # r
        BY <3>1 DEF g
      <3> QED
        BY <2>0, <2>1, <2>3, <3>1, <3>2 DEF Limits!Acquire, g
    <2>4. ASSUME NEW s \in Request, Limits!Refused(s) \/ Limits!Record(s) PROVE Limits!Stuck(r)'
      <3>1. s # r
        BY <2>0, <2>4 DEF Limits!Refused, Limits!Record
      <3> QED
        BY <2>0, <2>1, <2>4, <3>1 DEF Limits!Refused, Limits!Record, Limits!limiterVars, g
    <2>5. ASSUME NEW h \in Limits!Gen, Limits!Tick(h) PROVE Limits!Stuck(r)'
      <3>1. h # g
        BY <2>0, <2>5 DEF Limits!Tick
      <3> QED
        BY <2>0, <2>1, <2>5, <3>1 DEF Limits!Tick, g
    <2>6. CASE Limits!AdjustRate
      BY <2>0, <2>1, <2>6 DEF Limits!AdjustRate, Limits!limiterVars, g
    <2>7. CASE Limits!StopOld \/ Limits!Stop
      <3>1. bucket[rateLimiter] = "running" /\ bucket' = [bucket EXCEPT ![rateLimiter] = "gone"]
        BY <2>7 DEF Limits!StopOld, Limits!Stop
      <3>2. bucket'[g] = "gone"
        BY <2>0, <3>1
      <3> QED
        BY <2>0, <2>1, <2>7, <3>2 DEF Limits!StopOld, Limits!Stop, g
    <2>8. CASE Limits!Replace
      <3>1. rateLimiter + 1 # g
        BY <2>0
      <3> QED
        BY <2>0, <2>1, <2>8, <3>1 DEF Limits!Replace, g
    <2> QED
      BY <2>2, <2>3, <2>4, <2>5, <2>6, <2>7, <2>8 DEF Limits!Next
  <1> QED
    BY <1>1, LimitsInvHolds, PTL DEF Limits!Spec

\* After Stop the next adjustment blocks with the mutex held: from then on no step records an
\* outcome or replaces the limiter.
THEOREM StoppedHangs ==
    ASSUME LimitsAssumption
    PROVE  Limits!Spec => [][Limits!StoppedAdjustHangs]_(Limits!vars)
  <1>1. LimitsInv /\ [Limits!Next]_(Limits!vars) => [Limits!StoppedAdjustHangs]_(Limits!vars)
    <2> SUFFICES ASSUME LimitsInv, Limits!Next, adjust = "stopping", bucket[rateLimiter] = "gone"
                 PROVE  UNCHANGED <<adjust, mutex, rateLimiter, successCount, errorCount>>
      BY DEF Limits!StoppedAdjustHangs
    <2>1. mutex = "adjust"
      BY DEF LimitsInv, AdjustInv
    <2>2. ASSUME NEW r \in Request,
                 \/ \E p \in {"allow", "wait", "waitTimeout"} : Limits!Call(r, p)
                 \/ Limits!Acquire(r) \/ Limits!Refused(r) \/ Limits!Record(r)
          PROVE  UNCHANGED <<adjust, mutex, rateLimiter, successCount, errorCount>>
      BY <2>1, <2>2 DEF Limits!Call, Limits!Acquire, Limits!Refused, Limits!Record,
                        Limits!limiterVars, Limits!countVars
    <2>3. ASSUME NEW g \in Limits!Gen, Limits!Tick(g)
          PROVE  UNCHANGED <<adjust, mutex, rateLimiter, successCount, errorCount>>
      BY <2>3 DEF Limits!Tick, Limits!countVars
    <2>4. ~Limits!AdjustRate /\ ~Limits!StopOld /\ ~Limits!Replace /\ ~Limits!Stop
      BY <2>1 DEF Limits!AdjustRate, Limits!StopOld, Limits!Replace, Limits!Stop
    <2> QED
      BY <2>2, <2>3, <2>4 DEF Limits!Next
  <1> QED
    BY <1>1, LimitsInvHolds, PTL DEF Limits!Spec

-----------------------------------------------------------------------------
(***************************************************************************)
(* Recovery, for any errors, delays and number of retries.                 *)
(***************************************************************************)
CONSTANTS BaseDelays, increment, customDelays, RetryLimit, Errors, Text, RetryableLists

VARIABLES policy, ctx, attempt, calls, err, delay, strategies, todo

Retries == INSTANCE Recovery

RetryAssumption ==
    /\ BaseDelays \subseteq Nat /\ increment \in Nat /\ RetryLimit \subseteq Nat
    /\ customDelays \in Seq(Nat) /\ Text \in [Errors -> SUBSET STRING]

Backoffs == {"newPolicy", "exponential", "linear", "fixed", "custom"}

\* Where the loop is, how often it has called the operation, and with which error it goes on.
LoopInv ==
    /\ at = "idle" => calls = 0
    /\ at \in {"check", "call"} => calls = attempt /\ attempt <= policy.maxRetries
    /\ at \in {"delay", "wait"} => calls = attempt + 1 /\ attempt < policy.maxRetries
    /\ at = "exhausted" => calls = policy.maxRetries + 1
    /\ at \in {"delay", "wait", "exhausted"} =>
          Text[err] \cap Retries!retryTypes # {} \/ err \in policy.retryable
    /\ at = "notRetryable" =>
          /\ err \notin policy.retryable
          /\ Text[err] \ Retries!retryTypes # {} \/ Text[err] = {}

RetryInv ==
    /\ policy.maxRetries \in Nat /\ policy.baseDelay \in Nat /\ policy.backoff \in Backoffs
    /\ attempt \in Nat /\ calls \in Nat /\ delay \in Int
    /\ calls <= policy.maxRetries + 1
    /\ LoopInv
    /\ Retries!DelayBounded

\* The limit is applied before the jitter, which adds less than a tenth.
LEMMA DelaysAreLimited ==
    ASSUME RetryAssumption, NEW a \in Nat, policy.baseDelay \in Nat,
           policy.backoff \in Backoffs, NEW d \in Retries!Delays(a)
    PROVE  d \in Int /\ d <= Retries!maxDelay + (Retries!maxDelay \div 10)
  <1>1. Retries!maxDelay \in Nat
    BY DEF Retries!maxDelay
  <1>2. Retries!CalculateDelay(a) \in Int
    <2>1. 2 ^ a \in Int
      BY SMT
    <2>2. policy.baseDelay * 2 ^ a \in Int /\ policy.baseDelay + a * increment \in Int
      BY <2>1 DEF RetryAssumption
    <2>3. a < Len(customDelays) => customDelays[a + 1] \in Int
      BY DEF RetryAssumption
    <2> QED
      BY <2>2, <2>3 DEF Retries!CalculateDelay, Backoffs
  <1>3. Retries!Limited(a) \in Int /\ Retries!Limited(a) <= Retries!maxDelay
    BY <1>1, <1>2 DEF Retries!Limited
  <1>4. CASE d = Retries!Limited(a)
    BY <1>1, <1>3, <1>4
  <1>5. ASSUME NEW x \in 0 .. (Retries!Limited(a) \div 10) - 1, d = Retries!Limited(a) + x
        PROVE  d \in Int /\ d <= Retries!maxDelay + (Retries!maxDelay \div 10)
    <2>1. Retries!Limited(a) \div 10 <= Retries!maxDelay \div 10
      BY <1>1, <1>3
    <2> QED
      BY <1>1, <1>3, <1>5, <2>1
  <1> QED
    BY <1>4, <1>5 DEF Retries!Delays

\* The operation: an error of several patterns has any of their types at each classification.
LEMMA OperationKeeps ==
    ASSUME RetryInv, Retries!Operation
    PROVE  RetryInv'
  <1>1. /\ at = "call" /\ calls = attempt /\ attempt <= policy.maxRetries
        /\ attempt \in Nat /\ policy.maxRetries \in Nat
    BY DEF RetryInv, LoopInv, Retries!Operation
  <1>2. /\ calls' = calls + 1 /\ attempt' = attempt /\ policy' = policy /\ delay' = delay
        /\ \/ at' = "ok"
           \/ \E e \in Errors : \E type \in Retries!Classes(e) :
                 /\ err' = e
                 /\ at' = IF ~ Retries!IsRetryable(e, type) THEN "notRetryable"
                          ELSE IF Retries!More THEN "delay" ELSE "exhausted"
    BY DEF Retries!Operation
  <1>3. calls' \in Nat /\ calls' = attempt + 1 /\ calls' <= policy.maxRetries + 1
    BY <1>1, <1>2
  <1>4. Retries!DelayBounded'
    BY <1>2 DEF RetryInv, Retries!DelayBounded, Retries!maxDelay
  <1>5. LoopInv'
    <2>1. CASE at' = "ok"
      BY <2>1 DEF LoopInv
    <2>2. ASSUME NEW type \in Retries!Classes(err'), ~ Retries!IsRetryable(err', type),
                 at' = "notRetryable"
          PROVE  LoopInv'
      BY <1>2, <2>2 DEF LoopInv, Retries!Classes, Retries!IsRetryable
    <2>3. ASSUME NEW type \in Retries!Classes(err'), Retries!IsRetryable(err', type),
                 at' = IF Retries!More THEN "delay" ELSE "exhausted"
          PROVE  LoopInv'
      <3>1. "unknown" \notin Retries!retryTypes
        BY DEF Retries!retryTypes
      <3>2. err' \in policy'.retryable \/ Text[err'] \cap Retries!retryTypes # {}
        <4>1. CASE err' \in policy.retryable
          BY <1>2, <4>1
        <4>2. CASE type \in Retries!retryTypes
          <5>1. type \in Text[err']
            BY <3>1, <2>3, <4>2 DEF Retries!Classes
          <5> QED
            BY <4>2, <5>1, SMTT(30)
        <4> QED
          BY <2>3, <4>1, <4>2 DEF Retries!IsRetryable
      <3> QED
        BY <1>1, <1>2, <1>3, <2>3, <3>2 DEF LoopInv, Retries!More
    <2> QED
      BY <1>2, <2>1, <2>2, <2>3
  <1> QED
    BY <1>2, <1>3, <1>4, <1>5 DEF RetryInv

\* The other steps: the policy is fixed, and none but calculateDelay sets the delay.
LEMMA RetryStep ==
    ASSUME RetryAssumption, RetryInv, Retries!Next
    PROVE  RetryInv'
  <1> USE DEF RetryInv, LoopInv, Retries!DelayBounded, Retries!maxDelay
  <1>1. CASE Retries!Execute
    BY <1>1 DEF Retries!Execute
  <1>2. CASE Retries!CheckContext
    BY <1>2 DEF Retries!CheckContext
  <1>3. CASE Retries!Operation
    BY <1>3, OperationKeeps
  <1>4. CASE Retries!calculateDelay
    <2>1. /\ at = "delay" /\ at' \in {"panic", "wait"}
          /\ UNCHANGED <<policy, attempt, calls, err>>
          /\ delay' = delay \/ delay' \in Retries!Delays(attempt)
      BY <1>4 DEF Retries!calculateDelay
    <2>2. delay' \in Int /\ delay' <= Retries!maxDelay + (Retries!maxDelay \div 10)
      BY <2>1, DelaysAreLimited
    <2> QED
      BY <2>1, <2>2
  <1>5. CASE Retries!Wait
    BY <1>5 DEF Retries!Wait
  <1>6. CASE Retries!Cancel
    BY <1>6 DEF Retries!Cancel
  <1>7. CASE Retries!Recover
    BY <1>7 DEF Retries!Recover
  <1>8. CASE Retries!TryStrategy
    BY <1>8 DEF Retries!TryStrategy
  <1>9. ASSUME NEW s \in {"retry", "circuit_breaker", "fallback"}, Retries!RegisterStrategy(s)
        PROVE  RetryInv'
    BY <1>9 DEF Retries!RegisterStrategy
  <1> QED
    BY <1>1, <1>2, <1>3, <1>4, <1>5, <1>6, <1>7, <1>8, <1>9 DEF Retries!Next

\* RetryPolicy.Execute: whatever the back-off, the errors and the moment of a cancellation,
\* the operation is called at most MaxRetries + 1 times, exactly so many times when the
\* retries are said to be exhausted, and no wait is
\* longer than MaxDelay and its tenth.  An error that is listed as retryable is never given up
\* while retries are left, and one that is neither listed nor of a retried type never retried.
THEOREM RetrySafety ==
    ASSUME RetryAssumption
    PROVE  Retries!Spec => [](Retries!AttemptsBounded /\ Retries!DelayBounded)
  <1>1. Retries!Init => RetryInv
    <2> SUFFICES ASSUME Retries!Init PROVE RetryInv
      OBVIOUS
    <2>1. /\ policy.maxRetries \in Nat /\ policy.baseDelay \in Nat
          /\ policy.backoff \in Backoffs
      BY DEF Retries!Init, RetryAssumption, Backoffs
    <2>2. /\ at = "idle" /\ attempt = 0 /\ calls = 0 /\ delay = 0
      BY DEF Retries!Init
    <2>3. Retries!maxDelay \in Nat /\ 0 <= Retries!maxDelay + (Retries!maxDelay \div 10)
      BY <2>1 DEF Retries!maxDelay
    <2> QED
      BY <2>1, <2>2, <2>3 DEF RetryInv, LoopInv, Retries!DelayBounded
  <1>2. RetryInv /\ [Retries!Next]_(Retries!vars) => RetryInv'
    <2>1. ASSUME RetryInv, UNCHANGED Retries!vars PROVE RetryInv'
      BY <2>1 DEF Retries!vars, RetryInv, LoopInv, Retries!DelayBounded, Retries!maxDelay
    <2> QED
      BY <2>1, RetryStep
  <1>3. RetryInv => Retries!AttemptsBounded /\ Retries!DelayBounded
    BY DEF RetryInv, LoopInv, Retries!AttemptsBounded
  <1> QED
    BY <1>1, <1>2, <1>3, PTL DEF Retries!Spec

-----------------------------------------------------------------------------
(***************************************************************************)
(* CacheGuards, for any keys, callers, hash functions and settings.        *)
(***************************************************************************)
CONSTANTS Key, Caller, blockTime, threshold, window, timeout, failureThreshold, size, hashes,
          Hash, MaxFailures

VARIABLES blockedKeys, erasing, keyOf, missCount, lastCheck, breaker, bitset, added

Guards == INSTANCE CacheGuards

GuardAssumption ==
    /\ failureThreshold \in Nat \ {0} /\ MaxFailures \in Nat /\ MaxTime \in Nat \ {0}
    /\ threshold \in Nat /\ size \in Nat \ {0}

\* What is made of an md5 is a number.
HashAssumption == \A k \in Key, i \in 0 .. hashes - 1 : Hash[k, i] \in Nat

\* The breaker counts failures only, and its panics leave a trial call counted.
GuardInv ==
    /\ breaker \in [state : {"closed", "open", "half-open"}, failures : Nat, lastFailure : Nat]
    /\ now \in Nat /\ Guards!BreakerCounts /\ Guards!NoFalseNegative

\* A call through the breaker preserves the count, whether it succeeds, fails or panics.
LEMMA GuardCallKeeps ==
    ASSUME GuardAssumption, GuardInv, Guards!Call
    PROVE  GuardInv'
  <1> DEFINE B == [state : {"closed", "open", "half-open"}, failures : Nat, lastFailure : Nat]
             b == [breaker EXCEPT !.state = IF breaker.state = "open" THEN "half-open"
                                            ELSE breaker.state]
  <1>1. /\ UNCHANGED <<now, bitset, added>>
        /\ \/ breaker' = Guards!Succeeded(b) \/ breaker' = Guards!Failed(b) \/ breaker' = b
    BY DEF Guards!Call
  <1>2. /\ b \in B /\ b.state \in {"closed", "half-open"} /\ b.failures = breaker.failures
        /\ b.failures \in Nat
        /\ b.state # "closed" <=> breaker.state # "closed"
    BY DEF GuardInv
  <1>3. b.state # "closed" <=> b.failures >= failureThreshold
    BY <1>2 DEF GuardInv, Guards!BreakerCounts
  <1> HIDE DEF b
  <1>4. breaker' \in B /\ (breaker'.state # "closed" <=> breaker'.failures >= failureThreshold)
    <2>1. CASE breaker' = Guards!Succeeded(b)
      <3>1. breaker' \in B /\ breaker'.state = "closed" /\ breaker'.failures = 0
        BY <1>2, <2>1 DEF Guards!Succeeded
      <3> QED
        BY <3>1 DEF GuardAssumption
    <2>2. CASE breaker' = Guards!Failed(b)
      <3>1. /\ breaker' \in B /\ breaker'.failures = b.failures + 1
            /\ breaker'.state = IF b.failures + 1 >= failureThreshold THEN "open" ELSE b.state
        BY <1>2, <2>2 DEF Guards!Failed, GuardInv
      <3> QED
        BY <1>2, <1>3, <3>1 DEF GuardAssumption
    <2> QED
      BY <1>1, <1>2, <1>3, <2>1, <2>2
  <1>5. Guards!NoFalseNegative'
    BY <1>1 DEF GuardInv, Guards!NoFalseNegative, Guards!MayContain
  <1> QED
    BY <1>1, <1>4, <1>5 DEF GuardInv, Guards!BreakerCounts

\* The guards and the filter keep their types: the bits of a key lie in the filter.
LEMMA GuardTypes ==
    ASSUME GuardAssumption, HashAssumption, Guards!TypeOK, [Guards!Next]_(Guards!vars)
    PROVE  Guards!TypeOK'
  <1> USE DEF Guards!TypeOK, GuardAssumption
  <1>1. CASE Guards!Tick
    BY <1>1 DEF Guards!Tick
  <1>2. CASE Guards!IsAvalanche
    <2>1. /\ missCount' \in Nat /\ missCount' <= threshold + 1
          /\ UNCHANGED <<now, blockedKeys, erasing, breaker, bitset, added>>
      BY <1>2 DEF Guards!IsAvalanche
    <2> QED
      BY <2>1
  <1>3. CASE Guards!Call
    <2> DEFINE b == [breaker EXCEPT !.state = IF breaker.state = "open" THEN "half-open"
                                              ELSE breaker.state]
               B == [state : {"closed", "open", "half-open"}, failures : 0 .. MaxFailures,
                     lastFailure : 0 .. MaxTime]
    <2>1. /\ UNCHANGED <<now, blockedKeys, erasing, missCount, bitset, added>>
          /\ \/ breaker' = Guards!Succeeded(b)
             \/ b.failures < MaxFailures /\ breaker' = Guards!Failed(b)
             \/ breaker' = b
      BY <1>3 DEF Guards!Call
    <2>2. b \in B
      OBVIOUS
    <2> HIDE DEF b
    <2>3. breaker' \in B
      <3>1. CASE breaker' = Guards!Succeeded(b)
        <4>1. breaker' = [b EXCEPT !.state = IF b.state = "half-open" THEN "closed" ELSE b.state,
                                   !.failures = 0]
          BY <3>1 DEF Guards!Succeeded
        <4>2. 0 \in 0 .. MaxFailures
          OBVIOUS
        <4>3. (IF b.state = "half-open" THEN "closed" ELSE b.state)
                 \in {"closed", "open", "half-open"}
          BY <2>2
        <4> QED
          BY <2>2, <4>1, <4>2, <4>3
      <3>2. CASE b.failures < MaxFailures /\ breaker' = Guards!Failed(b)
        BY <2>2, <3>2 DEF Guards!Failed
      <3> QED
        BY <2>1, <2>2, <3>1, <3>2
    <2> QED
      BY <2>1, <2>3
  <1>4. ASSUME NEW k \in Key, Guards!BlockKey(k) \/ Guards!RecordSet(k)
        PROVE  Guards!TypeOK'
    <2>1. /\ \/ blockedKeys' = [blockedKeys EXCEPT ![k] = now]
             \/ blockedKeys' = [blockedKeys EXCEPT ![k] = 0]
          /\ UNCHANGED <<now, erasing, missCount, breaker, bitset, added>>
      BY <1>4 DEF Guards!BlockKey, Guards!RecordSet
    <2>2. blockedKeys' \in [Key -> 0 .. MaxTime]
      BY <2>1
    <2> QED
      BY <2>1, <2>2
  <1>5. ASSUME NEW k \in Key, Guards!Add(k)
        PROVE  Guards!TypeOK'
    <2>1. \A n \in Nat : n % size \in 0 .. size - 1
      OBVIOUS
    <2>2. Guards!Bits(k) \subseteq 0 .. size - 1
      BY <2>1, Zenon DEF Guards!Bits, HashAssumption
    <2> QED
      BY <1>5, <2>2 DEF Guards!Add
  <1>6. ASSUME NEW c \in Caller, Guards!IsBlocked(c) \/ Guards!Erase(c)
        PROVE  Guards!TypeOK'
    <2>1. /\ \/ blockedKeys' = blockedKeys
             \/ blockedKeys' = [blockedKeys EXCEPT ![keyOf[c]] = 0]
          /\ erasing' \in {erasing \cup {c}, erasing \ {c}}
          /\ UNCHANGED <<now, missCount, breaker, bitset, added>>
      BY <1>6 DEF Guards!IsBlocked, Guards!Erase
    <2>2. blockedKeys' \in [Key -> 0 .. MaxTime]
      BY <2>1
    <2> QED
      BY <2>1, <2>2
  <1>7. CASE UNCHANGED Guards!vars
    BY <1>7 DEF Guards!vars
  <1> QED
    BY <1>1, <1>2, <1>3, <1>4, <1>5, <1>6, <1>7 DEF Guards!Next

\* The cache breaker is closed below failureThreshold failures in a row and not closed from
\* there on, whatever trial calls fail or panic, and the filter denies no key that was
\* added: for any callers, keys, hash functions and settings.
THEOREM CacheGuardSafety ==
    ASSUME GuardAssumption, HashAssumption
    PROVE  Guards!Spec => [](Guards!TypeOK /\ Guards!BreakerCounts /\ Guards!NoFalseNegative)
  <1>1. Guards!Init => GuardInv
    <2> SUFFICES ASSUME Guards!Init PROVE GuardInv
      OBVIOUS
    <2>1. breaker.state = "closed" /\ breaker.failures = 0
      BY DEF Guards!Init
    <2> QED
      BY <2>1 DEF Guards!Init, GuardInv, Guards!BreakerCounts, Guards!NoFalseNegative,
         GuardAssumption
  <1>2. ASSUME GuardInv, [Guards!Next]_(Guards!vars) PROVE GuardInv'
    <2>1. CASE \E k \in Key : Guards!Add(k)
      <3>1. UNCHANGED <<now, breaker>> /\ Guards!NoFalseNegative'
        BY <1>2, <2>1 DEF Guards!Add, GuardInv, Guards!NoFalseNegative, Guards!MayContain
      <3> QED
        BY <1>2, <3>1 DEF GuardInv, Guards!BreakerCounts
    <2>2. CASE \/ Guards!Tick \/ Guards!IsAvalanche
               \/ \E k \in Key : Guards!BlockKey(k) \/ Guards!RecordSet(k)
               \/ \E c \in Caller : Guards!IsBlocked(c) \/ Guards!Erase(c)
               \/ UNCHANGED Guards!vars
      <3>1. UNCHANGED <<breaker, bitset, added>> /\ now' \in {now, now + 1}
        BY <2>2 DEF Guards!Tick, Guards!IsAvalanche, Guards!BlockKey, Guards!RecordSet,
           Guards!IsBlocked, Guards!Erase, Guards!vars
      <3> QED
        BY <1>2, <3>1 DEF GuardInv, Guards!BreakerCounts, Guards!NoFalseNegative,
           Guards!MayContain
    <2> QED
      BY <1>2, <2>1, <2>2, GuardCallKeeps DEF Guards!Next
  <1>3. GuardInv => Guards!BreakerCounts /\ Guards!NoFalseNegative
    BY DEF GuardInv
  <1>4. Guards!Init => Guards!TypeOK
    BY DEF Guards!Init, Guards!TypeOK, GuardAssumption
  <1> QED
    BY <1>1, <1>2, <1>3, <1>4, GuardTypes, PTL DEF Guards!Spec

-----------------------------------------------------------------------------
(***************************************************************************)
(* Scheduler, for any jobs, callers and strategies.                        *)
(***************************************************************************)
CONSTANTS JobId, NoCaller, Strategy, Priority

VARIABLES jobs, alive, enabled, holder, victims

Sched == INSTANCE Scheduler

\* A caller and a point of a call are never taken for "no caller" or for a job.
SchedAssumption ==
    /\ NoCaller \notin Caller /\ "idle" \notin JobId /\ "stop" \notin JobId

\* A call that is under way has the lock, so there is one; it has jobs of the map to stop,
\* and one that schedules a job has at most that job to stop.
LockInv ==
    /\ jobs \subseteq JobId /\ alive \in [JobId -> {"none", "waits", "runs"}]
    /\ at \in [Caller -> JobId \cup {"idle", "stop"}] /\ victims \in [Caller -> SUBSET JobId]
    /\ DOMAIN todo = JobId
    /\ \A c \in Caller :
          /\ at[c] # "idle" => holder = c
          /\ at[c] = "idle" => victims[c] = {}
          /\ victims[c] \subseteq jobs
          /\ at[c] \in JobId => victims[c] \subseteq {at[c]}
          /\ at[c] \in JobId /\ at[c] \in jobs \ victims[c] => alive[at[c]] = "none"

\* The goroutine of an id is there exactly while the id is in the map, except for the id
\* that a Schedule has stopped and not yet started.
GoroutineInv ==
    /\ \A i \in JobId : alive[i] # "none" => i \in jobs
    /\ Sched!StopHasReceiver /\ Sched!OneGoroutine

SchedInv == LockInv /\ GoroutineInv

\* A caller that takes the lock preserves the invariant.
LEMMA LockKeeps ==
    ASSUME SchedAssumption, SchedInv, NEW c \in Caller, NEW what \in JobId \cup {"stop"},
           NEW ids \in SUBSET JobId, what \in JobId => ids = {what}, Sched!Lock(c, what, ids)
    PROVE  SchedInv'
  <1>1. /\ holder = NoCaller /\ at[c] = "idle" /\ holder' = c
        /\ at' = [at EXCEPT ![c] = what] /\ victims' = [victims EXCEPT ![c] = ids \cap jobs]
        /\ UNCHANGED <<jobs, alive, todo, enabled>>
    BY DEF Sched!Lock
  <1>2. \A d \in Caller : at[d] = "idle" /\ victims[d] = {}
    BY <1>1 DEF SchedInv, LockInv, SchedAssumption
  <1>3. /\ at' \in [Caller -> JobId \cup {"idle", "stop"}]
        /\ victims' \in [Caller -> SUBSET JobId]
        /\ at'[c] = what /\ victims'[c] = ids \cap jobs
        /\ \A d \in Caller \ {c} : at'[d] = "idle" /\ victims'[d] = {}
    BY <1>1, <1>2 DEF SchedInv, LockInv
  <1>4. \A i \in jobs : alive[i] # "none"
    BY <1>2 DEF SchedInv, GoroutineInv, Sched!StopHasReceiver, LockInv, SchedAssumption
  <1>5. LockInv'
    BY <1>1, <1>3 DEF SchedInv, LockInv, SchedAssumption
  <1>6. GoroutineInv'
    BY <1>1, <1>3, <1>4
    DEF SchedInv, LockInv, GoroutineInv, Sched!StopHasReceiver, Sched!OneGoroutine,
        SchedAssumption
  <1> QED
    BY <1>5, <1>6 DEF SchedInv

\* So does a Stop that a waiting job receives.
LEMMA HandshakeKeeps ==
    ASSUME SchedAssumption, SchedInv, NEW c \in Caller, NEW i \in JobId, Sched!Handshake(c, i)
    PROVE  SchedInv'
  <1>1. /\ i \in victims[c] /\ alive[i] = "waits"
        /\ alive' = [alive EXCEPT ![i] = "none"]
        /\ victims' = [victims EXCEPT ![c] = victims[c] \ {i}]
        /\ jobs' = IF at[c] = "stop" THEN jobs \ {i} ELSE jobs
        /\ UNCHANGED <<todo, enabled, holder, at>>
    BY DEF Sched!Handshake, Sched!Dropped
  <1>2. /\ at[c] # "idle" /\ i \in jobs
        /\ \A d \in Caller \ {c} : at[d] = "idle" /\ victims[d] = {}
    BY <1>1 DEF SchedInv, LockInv
  <1>3. /\ victims' \in [Caller -> SUBSET JobId] /\ victims'[c] = victims[c] \ {i}
        /\ \A d \in Caller \ {c} : victims'[d] = {}
        /\ alive' \in [JobId -> {"none", "waits", "runs"}] /\ alive'[i] = "none"
        /\ \A j \in JobId \ {i} : alive'[j] = alive[j]
    BY <1>1, <1>2 DEF SchedInv, LockInv
  <1>4. LockInv'
    BY <1>1, <1>2, <1>3 DEF SchedInv, LockInv, SchedAssumption
  <1>5. GoroutineInv'
    <2>1. \A j \in JobId : alive'[j] # "none" => j \in jobs'
      BY <1>1, <1>3 DEF SchedInv, LockInv, GoroutineInv
    <2>2. Sched!OneGoroutine'
      BY <1>1, <1>2, <1>3
      DEF SchedInv, LockInv, GoroutineInv, Sched!OneGoroutine, SchedAssumption
    <2>3. \A j \in jobs' : alive'[j] # "none" \/ \E d \in Caller : at'[d] = j /\ j \notin victims'[d]
      BY <1>1, <1>2, <1>3
      DEF SchedInv, LockInv, GoroutineInv, Sched!StopHasReceiver, SchedAssumption
    <2>4. \A d \in Caller : \A j \in victims'[d] : alive'[j] # "none"
      BY <1>1, <1>2, <1>3 DEF SchedInv, LockInv, GoroutineInv, Sched!StopHasReceiver
    <2> QED
      BY <2>1, <2>2, <2>3, <2>4 DEF GoroutineInv, Sched!StopHasReceiver
  <1> QED
    BY <1>4, <1>5 DEF SchedInv

\* So does the end of a call, with the job that Schedule starts.
LEMMA UnlockKeeps ==
    ASSUME SchedAssumption, SchedInv, NEW c \in Caller, Sched!Start(c) \/ Sched!Stopped(c)
    PROVE  SchedInv'
  <1>1. /\ at[c] # "idle" /\ victims[c] = {} /\ at' = [at EXCEPT ![c] = "idle"]
        /\ holder' = NoCaller /\ victims' = victims
        /\ \/ at[c] = "stop" /\ UNCHANGED <<jobs, alive, todo>>
           \/ /\ at[c] \in JobId /\ jobs' = jobs \cup {at[c]}
              /\ alive' = [alive EXCEPT ![at[c]] = "waits"]
              /\ DOMAIN todo' = DOMAIN todo
    BY DEF Sched!Start, Sched!Stopped, Sched!Unlock, SchedAssumption, SchedInv, LockInv
  <1>2. \A d \in Caller : victims[d] = {} /\ at'[d] = "idle"
    BY <1>1 DEF SchedInv, LockInv
  <1>3. LockInv'
    BY <1>1, <1>2 DEF SchedInv, LockInv, SchedAssumption
  <1>4. \A d \in Caller : at[d] # "idle" => d = c
    BY <1>1 DEF SchedInv, LockInv
  <1>5. GoroutineInv'
    <2>1. CASE at[c] = "stop" /\ UNCHANGED <<jobs, alive, todo>>
      BY <1>1, <1>2, <1>4, <2>1
      DEF SchedInv, LockInv, GoroutineInv, Sched!StopHasReceiver, Sched!OneGoroutine,
          SchedAssumption
    <2>2. CASE /\ at[c] \in JobId /\ jobs' = jobs \cup {at[c]}
               /\ alive' = [alive EXCEPT ![at[c]] = "waits"]
      <3>1. /\ alive'[at[c]] = "waits" /\ \A j \in JobId \ {at[c]} : alive'[j] = alive[j]
        BY <2>2 DEF SchedInv, LockInv
      <3> QED
        BY <1>1, <1>2, <1>4, <2>2, <3>1
        DEF SchedInv, LockInv, GoroutineInv, Sched!StopHasReceiver, Sched!OneGoroutine,
            SchedAssumption
    <2> QED
      BY <1>1, <2>1, <2>2
  <1> QED
    BY <1>3, <1>5 DEF SchedInv

\* So do the runs of the jobs, which never end their goroutine, and the strategies.
LEMMA RunKeeps ==
    ASSUME SchedInv, \/ \E i \in JobId : Sched!Tick(i) \/ Sched!Warmup(i)
                     \/ \E s \in Strategy : Sched!Toggle(s)
                     \/ UNCHANGED Sched!vars
    PROVE  SchedInv'
  <1> DEFINE Rest == /\ UNCHANGED <<jobs, holder, at, victims>> /\ DOMAIN todo' = JobId
                     /\ alive' \in [JobId -> {"none", "waits", "runs"}]
                     /\ \A i \in JobId : alive'[i] = "none" <=> alive[i] = "none"
  <1>1. Rest
    <2>1. ASSUME NEW i \in JobId, Sched!Tick(i) \/ Sched!Warmup(i) PROVE Rest
      BY <2>1 DEF Sched!Tick, Sched!Warmup, SchedInv, LockInv
    <2>2. ASSUME (\E s \in Strategy : Sched!Toggle(s)) \/ UNCHANGED Sched!vars PROVE Rest
      BY <2>2 DEF Sched!Toggle, Sched!vars, SchedInv, LockInv
    <2> QED
      BY <2>1, <2>2
  <1>2. LockInv'
    BY <1>1 DEF SchedInv, LockInv
  <1> QED
    BY <1>1, <1>2 DEF SchedInv, LockInv, GoroutineInv, Sched!StopHasReceiver,
       Sched!OneGoroutine

\* A call that holds the lock and waits to send Stop waits for a goroutine that receives it,
\* and a job is started when its old goroutine is gone: for any jobs and callers.
THEOREM SchedulerSafety ==
    ASSUME SchedAssumption
    PROVE  Sched!Spec => [](Sched!StopHasReceiver /\ Sched!OneGoroutine)
  <1>1. Sched!Init => SchedInv
    BY DEF Sched!Init, SchedInv, LockInv, GoroutineInv, Sched!StopHasReceiver,
       Sched!OneGoroutine, SchedAssumption
  <1>2. SchedInv /\ [Sched!Next]_(Sched!vars) => SchedInv'
    <2>1. ASSUME SchedInv, NEW c \in Caller,
                 \/ Sched!StopAll(c)
                 \/ \E i \in JobId : Sched!Schedule(c, i) \/ Sched!StopJob(c, i)
          PROVE  SchedInv'
      <3>1. CASE Sched!StopAll(c)
        <4>1. Sched!Lock(c, "stop", jobs) /\ jobs \in SUBSET JobId
          BY <2>1, <3>1 DEF Sched!StopAll, SchedInv, LockInv
        <4> QED
          BY <2>1, <4>1, LockKeeps DEF SchedAssumption
      <3>2. ASSUME NEW i \in JobId, Sched!Schedule(c, i) PROVE SchedInv'
        BY <2>1, <3>2, LockKeeps DEF Sched!Schedule
      <3>3. ASSUME NEW i \in JobId, Sched!StopJob(c, i) PROVE SchedInv'
        BY <2>1, <3>3, LockKeeps DEF Sched!StopJob, SchedAssumption
      <3> QED
        BY <2>1, <3>1, <3>2, <3>3
    <2>2. ASSUME SchedInv, [Sched!Next]_(Sched!vars) PROVE SchedInv'
      BY <2>1, <2>2, HandshakeKeeps, UnlockKeeps, RunKeeps DEF Sched!Next
    <2> QED
      BY <2>2
  <1>3. SchedInv => Sched!StopHasReceiver /\ Sched!OneGoroutine
    BY DEF SchedInv, GoroutineInv
  <1> QED
    BY <1>1, <1>2, <1>3, PTL DEF Sched!Spec

-----------------------------------------------------------------------------
(***************************************************************************)
(* AdaptivePool, for any numbers of workers, any submitters and queues.    *)
(***************************************************************************)
CONSTANTS minWorkers, maxWorkers, queueSize, Submitter, MaxSpawned, MaxStarts

VARIABLES workers, currentWorkers, starts, balancer, lastIndex, chosen, crashed

Scaling == INSTANCE AdaptivePool

\* A set of numbers that is not empty has a least element.
LEMMA LeastNumber ==
    ASSUME NEW S, S \subseteq Nat, S # {}
    PROVE  \E m \in S : \A n \in S : m <= n
  <1> DEFINE R == {p \in Nat \X Nat : p[1] < p[2]}
  <1>1. IsWellFoundedOn(R, Nat)
    BY NatLessThanWellFounded DEF OpToRel
  <1>2. PICK m \in S : \A n \in S : ~(<<n, m>> \in R)
    <2> HIDE DEF R
    <2> QED
      BY <1>1, WFMin
  <1>3. ASSUME NEW n \in S PROVE m <= n
    <2>1. m \in Nat /\ n \in Nat /\ ~(<<n, m>> \in R)
      BY <1>2
    <2>2. n < m => <<n, m>> \in R
      BY <2>1
    <2> HIDE DEF R
    <2> QED
      BY <2>1, <2>2
  <1> QED
    BY <1>3

ScalingAssumption ==
    /\ minWorkers \in Nat /\ maxWorkers \in Nat /\ minWorkers <= maxWorkers
    /\ queueSize \in Nat

ScalingWorker ==
    [active : BOOLEAN, closed : BOOLEAN, queue : 0 .. queueSize, load : 0 .. 1]

\* The counter of the workers counts the active ones; before the first Start it is ahead by
\* those that Start will make.
CountInv ==
    /\ starts = 0 => Cardinality(Scaling!Active) = currentWorkers - minWorkers
    /\ starts = 1 => Cardinality(Scaling!Active) = currentWorkers

ScalingInv ==
    /\ Scaling!TypeOK /\ starts \in Nat /\ lastIndex \in Nat
    /\ CountInv /\ Scaling!CrashNeedsScaleDown

\* The module counts as this one does.
LEMMA SameCount ==
    ASSUME NEW S
    PROVE  Scaling!Cardinality(S) = Cardinality(S)
  BY DEF Scaling!Cardinality, Cardinality

\* The place of a number in a set: for every place there is a number with that many below it.
LEMMA NumberAtEveryPlace ==
    ASSUME NEW S, S \subseteq Nat, IsFiniteSet(S), NEW k \in Nat, k < Cardinality(S)
    PROVE  \E i \in S : Cardinality({j \in S : j < i}) = k
  <1> DEFINE Below(i) == {j \in S : j < i}
             T == 0 .. Cardinality(S) - 1
             f == [i \in S |-> Cardinality(Below(i))]
  <1>1. Cardinality(S) \in Nat
    BY FS_CardinalityType
  <1>2. ASSUME NEW i \in S
        PROVE  /\ IsFiniteSet(Below(i)) /\ Cardinality(Below(i)) \in Nat
               /\ Cardinality(Below(i)) < Cardinality(S)
    <2>1. Below(i) \in SUBSET S /\ i \notin Below(i)
      OBVIOUS
    <2>2. /\ IsFiniteSet(Below(i)) /\ Cardinality(Below(i)) <= Cardinality(S)
          /\ Cardinality(S) = Cardinality(Below(i)) => S = Below(i)
      BY <2>1, FS_Subset
    <2>3. Cardinality(Below(i)) \in Nat
      BY <2>2, FS_CardinalityType
    <2> QED
      BY <1>1, <2>1, <2>2, <2>3
  <1>3. ASSUME NEW i \in S, NEW l \in S, i < l
        PROVE  Cardinality(Below(i)) < Cardinality(Below(l))
    <2>1. Below(i) \in SUBSET Below(l) /\ i \in Below(l) /\ i \notin Below(i)
      <3>1. i \in Nat /\ l \in Nat /\ \A j \in S : j \in Nat /\ (j < i => j < l)
        BY <1>3
      <3>2. Below(i) \in SUBSET Below(l)
        BY <3>1
      <3>3. i \in Below(l)
        BY <1>3
      <3>4. i \notin Below(i)
        BY <3>1
      <3> QED
        BY <3>2, <3>3, <3>4
    <2>2. /\ Cardinality(Below(i)) <= Cardinality(Below(l))
          /\ Cardinality(Below(l)) = Cardinality(Below(i)) => Below(l) = Below(i)
      BY <1>2, <2>1, FS_Subset
    <2>3. Cardinality(Below(i)) \in Nat /\ Cardinality(Below(l)) \in Nat
      BY <1>2
    <2> QED
      BY <2>1, <2>2, <2>3
  <1> HIDE DEF Below
  <1>4. f \in Injection(S, T)
    <2>1. f \in [S -> T]
      BY <1>1, <1>2
    <2>2. ASSUME NEW a \in S, NEW b \in S, f[a] = f[b] PROVE a = b
      <3>1. a \in Nat /\ b \in Nat /\ Cardinality(Below(a)) = Cardinality(Below(b))
        BY <2>2
      <3>2. Cardinality(Below(a)) \in Nat
        BY <1>2
      <3> QED
        BY <1>3, <3>1, <3>2
    <2> HIDE DEF f
    <2> QED
      BY <2>1, <2>2 DEF Injection, IsInjective
  <1>5. IsFiniteSet(T) /\ Cardinality(T) = Cardinality(S)
    <2> DEFINE c == Cardinality(S) - 1
    <2>1. 0 \in Int /\ c \in Int /\ c + 1 = Cardinality(S) /\ T = 0 .. c /\ c >= -1
      BY <1>1
    <2> HIDE DEF c
    <2>2. IsFiniteSet(0 .. c) /\ Cardinality(0 .. c) = IF 0 > c THEN 0 ELSE c - 0 + 1
      BY <2>1, FS_Interval
    <2> QED
      BY <2>1, <2>2
  <1> HIDE DEF f
  <1>6. f \in Surjection(S, T)
    BY <1>4, <1>5, FS_Injection
  <1>7. k \in T
    BY <1>1
  <1>8. \E i \in S : f[i] = k
    BY <1>6, <1>7 DEF Surjection
  <1> QED
    BY <1>8 DEF f, Below

\* The active workers are some of those that were made.
LEMMA ActiveIsFinite ==
    ASSUME Scaling!TypeOK
    PROVE  /\ Len(workers) \in Nat /\ DOMAIN workers = 1 .. Len(workers)
           /\ Scaling!Active \subseteq 1 .. Len(workers) /\ Scaling!Active \subseteq Nat
           /\ IsFiniteSet(Scaling!Active) /\ Cardinality(Scaling!Active) \in Nat
           /\ \A i \in DOMAIN workers : workers[i] \in ScalingWorker
  <1>1. workers \in Seq(ScalingWorker)
    BY DEF Scaling!TypeOK, ScalingWorker
  <1>2. Scaling!Active \in SUBSET (1 .. Len(workers)) /\ Len(workers) \in Nat
    BY <1>1 DEF Scaling!Active
  <1>3. IsFiniteSet(Scaling!Active)
    <2>1. IsFiniteSet(1 .. Len(workers))
      BY <1>2, FS_Interval
    <2> QED
      BY <1>2, <2>1, FS_Subset
  <1> QED
    BY <1>1, <1>2, <1>3, FS_CardinalityType

\* LeastConnectionsLoadBalancer finds a worker when there is an active one.
LEMMA LowestLoadIsActive ==
    ASSUME Scaling!TypeOK, Scaling!Active # {}
    PROVE  Scaling!LowestLoad \in Scaling!Active
  <1> DEFINE Least(i) == \A j \in Scaling!Active : \/ workers[i].load < workers[j].load
                                                   \/ workers[i].load = workers[j].load /\ i <= j
             Free == {i \in Scaling!Active : workers[i].load = 0}
  <1>1. /\ Scaling!Active \subseteq Nat
        /\ \A i \in Scaling!Active : workers[i].load \in 0 .. 1
    BY ActiveIsFinite DEF ScalingWorker
  <1>2. \E i \in Scaling!Active : Least(i)
    <2>1. CASE Free # {}
      <3>1. PICK i \in Free : \A j \in Free : i <= j
        BY <1>1, <2>1, LeastNumber
      <3> QED
        BY <1>1, <3>1
    <2>2. CASE Free = {}
      <3>1. PICK i \in Scaling!Active : \A j \in Scaling!Active : i <= j
        BY <1>1, LeastNumber
      <3>2. \A j \in Scaling!Active : workers[j].load = 1
        BY <1>1, <2>2
      <3> QED
        BY <3>1, <3>2
    <2> QED
      BY <2>1, <2>2
  <1> QED
    BY <1>2 DEF Scaling!LowestLoad

\* RoundRobinLoadBalancer too, whatever the workers that were retired since its last choice.
LEMMA RoundRobinIsActive ==
    ASSUME Scaling!TypeOK, lastIndex \in Nat, Scaling!Active # {}
    PROVE  /\ Scaling!RoundRobin \in Scaling!Active
           /\ (lastIndex % Cardinality(Scaling!Active)) + 1 \in Nat
  <1> DEFINE n == Cardinality(Scaling!Active)
             k == lastIndex % n
  <1>1. Scaling!Active \subseteq Nat /\ IsFiniteSet(Scaling!Active) /\ n \in Nat
    BY ActiveIsFinite
  <1>2. n # 0
    BY <1>1, FS_EmptySet
  <1> HIDE DEF n
  <1>3. k \in Nat /\ k < n
    BY <1>1, <1>2
  <1> HIDE DEF k
  <1>4. \E i \in Scaling!Active : Cardinality({j \in Scaling!Active : j < i}) = k
    BY <1>1, <1>3, NumberAtEveryPlace DEF n
  <1>5. Scaling!RoundRobin = CHOOSE i \in Scaling!Active :
                                 Cardinality({j \in Scaling!Active : j < i}) = k
    BY SameCount DEF Scaling!RoundRobin, k, n
  <1>6. Scaling!RoundRobin \in Scaling!Active
    BY <1>4, <1>5
  <1>7. k + 1 \in Nat
    BY <1>3
  <1> QED
    BY <1>6, <1>7 DEF k, n

\* One worker changes, and it stays active if it was and closed if it was.
LEMMA WorkerKeeps ==
    ASSUME ScalingInv, NEW i \in DOMAIN workers, NEW w \in ScalingWorker,
           workers' = [workers EXCEPT ![i] = w],
           w.active = workers[i].active, w.closed = workers[i].closed,
           chosen' \in [Submitter -> 0 .. Len(workers)], crashed' \in BOOLEAN,
           crashed' => crashed, UNCHANGED <<currentWorkers, starts, lastIndex>>
    PROVE  ScalingInv'
  <1>1. workers \in Seq(ScalingWorker) /\ Scaling!TypeOK
    BY DEF ScalingInv, Scaling!TypeOK, ScalingWorker
  <1>2. /\ workers' \in Seq(ScalingWorker) /\ Len(workers') = Len(workers)
        /\ DOMAIN workers' = DOMAIN workers
        /\ \A j \in DOMAIN workers : /\ workers'[j].active = workers[j].active
                                     /\ workers'[j].closed = workers[j].closed
    <2>1. workers' \in Seq(ScalingWorker) /\ Len(workers') = Len(workers)
      BY <1>1, ExceptSeq
    <2> QED
      BY <1>1, <2>1
  <1>3. Scaling!Active' = Scaling!Active
    BY <1>2 DEF Scaling!Active
  <1>4. Scaling!TypeOK'
    BY <1>1, <1>2 DEF Scaling!TypeOK, ScalingWorker
  <1>5. Scaling!CrashNeedsScaleDown'
    BY <1>2 DEF ScalingInv, Scaling!CrashNeedsScaleDown
  <1> QED
    BY <1>3, <1>4, <1>5 DEF ScalingInv, CountInv

LEMMA SubmitTaskKeeps ==
    ASSUME ScalingInv, NEW s \in Submitter, Scaling!SubmitTask(s)
    PROVE  ScalingInv'
  <1>1. /\ Scaling!TypeOK /\ lastIndex \in Nat /\ Scaling!Active # {}
        /\ UNCHANGED <<workers, currentWorkers, starts, crashed>>
    BY DEF ScalingInv, Scaling!SubmitTask
  <1>2. /\ Scaling!Active \subseteq 0 .. Len(workers)
        /\ Scaling!RoundRobin \in Scaling!Active /\ Scaling!LowestLoad \in Scaling!Active
        /\ (lastIndex % Cardinality(Scaling!Active)) + 1 \in Nat
    BY <1>1, ActiveIsFinite, RoundRobinIsActive, LowestLoadIsActive
  <1>3. chosen' \in [Submitter -> 0 .. Len(workers)] /\ lastIndex' \in Nat
    <2>1. chosen \in [Submitter -> 0 .. Len(workers)]
      BY <1>1 DEF Scaling!TypeOK
    <2>2. CASE balancer = "roundRobin"
      <3>1. /\ chosen' = [chosen EXCEPT ![s] = Scaling!RoundRobin]
            /\ lastIndex' = (lastIndex % Cardinality(Scaling!Active)) + 1
        BY <2>2, SameCount DEF Scaling!SubmitTask
      <3> QED
        BY <1>2, <2>1, <3>1
    <2>3. CASE balancer # "roundRobin"
      <3>1. chosen' = [chosen EXCEPT ![s] = Scaling!LowestLoad] /\ lastIndex' = lastIndex
        BY <2>3 DEF Scaling!SubmitTask
      <3> QED
        BY <1>1, <1>2, <2>1, <3>1
    <2> QED
      BY <2>2, <2>3
  <1>4. Scaling!TypeOK'
    BY <1>1, <1>3 DEF Scaling!TypeOK
  <1>5. CountInv' /\ Scaling!CrashNeedsScaleDown'
    BY <1>1 DEF ScalingInv, CountInv, Scaling!Active, Scaling!CrashNeedsScaleDown
  <1> QED
    BY <1>1, <1>3, <1>4, <1>5 DEF ScalingInv

\* Send, and a worker that takes a task or finishes one.
LEMMA TaskKeeps ==
    ASSUME ScalingAssumption, ScalingInv,
           \/ \E s \in Submitter : Scaling!Send(s)
           \/ \E i \in DOMAIN workers : Scaling!Take(i) \/ Scaling!Execute(i)
    PROVE  ScalingInv'
  <1>0. /\ Len(workers) \in Nat /\ DOMAIN workers = 1 .. Len(workers)
        /\ \A i \in DOMAIN workers : workers[i] \in ScalingWorker
        /\ workers \in Seq(ScalingWorker) /\ queueSize \in Nat
        /\ chosen \in [Submitter -> 0 .. Len(workers)] /\ crashed \in BOOLEAN
    BY ActiveIsFinite DEF ScalingInv, ScalingAssumption, Scaling!TypeOK, ScalingWorker
  <1>1. ASSUME UNCHANGED <<workers, currentWorkers, starts, lastIndex>>, crashed' \in BOOLEAN,
               chosen' \in [Submitter -> 0 .. Len(workers)],
               crashed' => \E i \in DOMAIN workers : workers[i].closed
        PROVE  ScalingInv'
    BY <1>1 DEF ScalingInv, Scaling!TypeOK, CountInv, Scaling!Active,
                Scaling!CrashNeedsScaleDown
  <1>2. ASSUME NEW s \in Submitter, Scaling!Send(s) PROVE ScalingInv'
    <2> DEFINE i == chosen[s]
               w == [workers[i] EXCEPT !.queue = workers[i].queue + 1]
    <2>1. /\ i \in DOMAIN workers /\ crashed' = workers[i].closed /\ ~crashed
          /\ chosen' = [chosen EXCEPT ![s] = 0]
          /\ UNCHANGED <<currentWorkers, starts, lastIndex>>
          /\ workers' = IF workers[i].closed \/ workers[i].queue = queueSize THEN workers
                        ELSE [workers EXCEPT ![i].queue = @ + 1]
      BY <1>0, <1>2 DEF Scaling!Send
    <2>2. chosen' \in [Submitter -> 0 .. Len(workers)] /\ crashed' \in BOOLEAN
      BY <1>0, <2>1 DEF ScalingWorker
    <2>3. CASE workers[i].closed \/ workers[i].queue = queueSize
      BY <1>1, <2>1, <2>2, <2>3
    <2>4. CASE ~(workers[i].closed \/ workers[i].queue = queueSize)
      <3>1. workers' = [workers EXCEPT ![i] = w]
        BY <2>1, <2>4
      <3>2. w \in ScalingWorker /\ w.active = workers[i].active /\ w.closed = workers[i].closed
        <4>1. workers[i].queue + 1 \in 0 .. queueSize
          BY <1>0, <2>1, <2>4 DEF ScalingWorker
        <4> QED
          BY <1>0, <2>1, <4>1 DEF ScalingWorker
      <3> HIDE DEF w
      <3> QED
        BY <2>1, <2>2, <2>4, <3>1, <3>2, WorkerKeeps
    <2> QED
      BY <2>3, <2>4
  <1>3. ASSUME NEW i \in DOMAIN workers, Scaling!Take(i) PROVE ScalingInv'
    <2> DEFINE w == [workers[i] EXCEPT !.queue = workers[i].queue - 1, !.load = 1]
    <2>1. UNCHANGED <<currentWorkers, starts, lastIndex, chosen>>
      BY <1>3 DEF Scaling!Take
    <2>2. CASE crashed' = TRUE /\ UNCHANGED workers /\ workers[i].closed
      BY <1>0, <1>1, <2>1, <2>2
    <2>3. CASE /\ workers[i].queue > 0 /\ UNCHANGED crashed
               /\ workers' = [workers EXCEPT ![i].queue = @ - 1, ![i].load = 1]
      <3>1. workers' = [workers EXCEPT ![i] = w]
        BY <1>0, <2>3
      <3>2. w \in ScalingWorker /\ w.active = workers[i].active /\ w.closed = workers[i].closed
        <4>1. workers[i].queue - 1 \in 0 .. queueSize /\ 1 \in 0 .. 1
          BY <1>0, <2>3 DEF ScalingWorker
        <4> QED
          BY <1>0, <4>1 DEF ScalingWorker
      <3> HIDE DEF w
      <3> QED
        BY <1>0, <2>1, <2>3, <3>1, <3>2, WorkerKeeps
    <2> QED
      BY <1>3, <2>2, <2>3 DEF Scaling!Take
  <1>4. ASSUME NEW i \in DOMAIN workers, Scaling!Execute(i) PROVE ScalingInv'
    <2> DEFINE w == [workers[i] EXCEPT !.load = 0]
    <2>1. /\ workers' = [workers EXCEPT ![i] = w]
          /\ UNCHANGED <<currentWorkers, starts, lastIndex, chosen, crashed>>
      BY <1>4 DEF Scaling!Execute
    <2>2. w \in ScalingWorker /\ w.active = workers[i].active /\ w.closed = workers[i].closed
      <3>1. workers[i] \in ScalingWorker /\ 0 \in 0 .. 1
        BY <1>0
      <3> QED
        BY <3>1 DEF ScalingWorker
    <2> HIDE DEF w
    <2> QED
      BY <1>0, <2>1, <2>2, WorkerKeeps
  <1> QED
    BY <1>2, <1>3, <1>4

\* New workers are active and their queues are open.
LEMMA NewWorkersKeep ==
    ASSUME ScalingInv, NEW n \in Nat, NEW more, more = [i \in 1 .. n |-> Scaling!NewWorker],
           workers' = workers \o more, ScalingAssumption, currentWorkers' \in minWorkers .. maxWorkers,
           UNCHANGED <<chosen, crashed>>
    PROVE  /\ Scaling!TypeOK' /\ Scaling!CrashNeedsScaleDown'
           /\ Cardinality(Scaling!Active)' = Cardinality(Scaling!Active) + n
  <1>1. /\ Scaling!TypeOK /\ workers \in Seq(ScalingWorker) /\ Len(workers) \in Nat
        /\ Scaling!Active \subseteq 1 .. Len(workers) /\ IsFiniteSet(Scaling!Active)
        /\ Cardinality(Scaling!Active) \in Nat /\ DOMAIN workers = 1 .. Len(workers)
    BY ActiveIsFinite DEF ScalingInv, Scaling!TypeOK, ScalingWorker
  <1>2. Scaling!NewWorker \in ScalingWorker /\ Scaling!NewWorker.active
    BY DEF Scaling!NewWorker, ScalingWorker, ScalingAssumption
  <1>3. more \in Seq(ScalingWorker) /\ Len(more) = n /\ \A i \in 1 .. n : more[i].active
    BY <1>2
  <1>4. /\ workers' \in Seq(ScalingWorker) /\ Len(workers') = Len(workers) + n
        /\ \A i \in 1 .. Len(workers) : workers'[i] = workers[i]
        /\ \A i \in Len(workers) + 1 .. Len(workers) + n : workers'[i].active
    <2>1. /\ workers' \in Seq(ScalingWorker) /\ Len(workers') = Len(workers) + n
          /\ \A i \in 1 .. Len(workers) + n :
                workers'[i] = IF i <= Len(workers) THEN workers[i] ELSE more[i - Len(workers)]
      BY <1>1, <1>3, ConcatProperties, SMTT(30)
    <2>2. \A i \in Len(workers) + 1 .. Len(workers) + n : workers'[i].active
      BY <1>1, <1>3, <2>1, SMTT(30)
    <2> QED
      BY <1>1, <2>1, <2>2
  <1> DEFINE new == Len(workers) + 1 .. Len(workers) + n
  <1>5. Scaling!Active' = Scaling!Active \cup new /\ Scaling!Active \cap new = {}
    <2>1. DOMAIN workers' = 1 .. Len(workers) + n
      BY <1>1, <1>4
    <2>2. 1 .. Len(workers) + n = 1 .. Len(workers) \cup new
      BY <1>1
    <2>3. 1 .. Len(workers) \cap new = {}
      BY <1>1
    <2> HIDE DEF new
    <2>4. \A i \in new : workers'[i].active
      BY <1>4 DEF new
    <2> QED
      BY <1>1, <1>4, <2>1, <2>2, <2>3, <2>4 DEF Scaling!Active
  <1>6. IsFiniteSet(new) /\ Cardinality(new) = n
    BY <1>1, FS_Interval
  <1> HIDE DEF new
  <1>7. Cardinality(Scaling!Active)' = Cardinality(Scaling!Active) + n
    <2>1. Cardinality(Scaling!Active \cup new)
            = Cardinality(Scaling!Active) + Cardinality(new) - Cardinality(Scaling!Active \cap new)
      BY <1>1, <1>6, FS_Union
    <2>2. Cardinality(Scaling!Active \cap new) = 0
      BY <1>5, FS_EmptySet
    <2> QED
      BY <1>1, <1>5, <1>6, <2>1, <2>2
  <1>8. Scaling!TypeOK'
    <2>1. \A s \in Submitter : chosen[s] \in 0 .. Len(workers) + n
      BY <1>1 DEF Scaling!TypeOK
    <2>2. chosen' \in [Submitter -> 0 .. Len(workers')]
      BY <1>1, <1>4, <2>1 DEF Scaling!TypeOK
    <2> QED
      BY <1>1, <1>4, <2>2 DEF Scaling!TypeOK, ScalingWorker
  <1>9. Scaling!CrashNeedsScaleDown'
    <2>1. DOMAIN workers \subseteq DOMAIN workers'
      BY <1>1, <1>4
    <2> QED
      BY <1>1, <1>4, <2>1 DEF ScalingInv, Scaling!CrashNeedsScaleDown
  <1> QED
    BY <1>7, <1>8, <1>9

LEMMA StartWorkersKeeps ==
    ASSUME ScalingAssumption, ScalingInv, Scaling!Start
    PROVE  ScalingInv'
  <1>1. /\ workers' = workers \o [i \in 1 .. minWorkers |-> Scaling!NewWorker]
        /\ starts' = starts + 1 /\ starts \in Nat /\ minWorkers \in Nat /\ maxWorkers \in Nat
        /\ currentWorkers \in minWorkers .. maxWorkers
        /\ UNCHANGED <<currentWorkers, lastIndex, chosen, crashed>>
    BY DEF Scaling!Start, ScalingInv, ScalingAssumption, Scaling!TypeOK
  <1>2. /\ Scaling!TypeOK' /\ Scaling!CrashNeedsScaleDown'
        /\ Cardinality(Scaling!Active)' = Cardinality(Scaling!Active) + minWorkers
    BY <1>1, NewWorkersKeep
  <1>3. CountInv'
    <2>1. starts' # 0
      BY <1>1
    <2>2. starts' = 1 => starts = 0
      BY <1>1
    <2>3. starts' = 1 => Cardinality(Scaling!Active) = currentWorkers - minWorkers
      BY <2>2 DEF ScalingInv, CountInv
    <2> QED
      BY <1>1, <1>2, <2>1, <2>3 DEF CountInv
  <1> QED
    BY <1>1, <1>2, <1>3 DEF ScalingInv

LEMMA ScaleUpKeeps ==
    ASSUME ScalingAssumption, ScalingInv, Scaling!ScaleUp
    PROVE  ScalingInv'
  <1> DEFINE more == [i \in 1 .. 1 |-> Scaling!NewWorker]
  <1>1. /\ workers' = Append(workers, Scaling!NewWorker) /\ currentWorkers' = currentWorkers + 1
        /\ currentWorkers < maxWorkers /\ minWorkers \in Nat /\ maxWorkers \in Nat
        /\ currentWorkers \in minWorkers .. maxWorkers /\ Scaling!TypeOK
        /\ UNCHANGED <<starts, lastIndex, chosen, crashed>>
    BY DEF Scaling!ScaleUp, ScalingInv, ScalingAssumption, Scaling!TypeOK
  <1>2. workers' = workers \o more
    <2>1. workers \in Seq(ScalingWorker) /\ Scaling!NewWorker \in ScalingWorker
      BY <1>1 DEF Scaling!TypeOK, ScalingWorker, Scaling!NewWorker, ScalingAssumption
    <2>2. more = <<Scaling!NewWorker>>
      OBVIOUS
    <2> QED
      BY <1>1, <2>1, <2>2, AppendIsConcat
  <1>3. currentWorkers' \in minWorkers .. maxWorkers
    BY <1>1
  <1>4. /\ Scaling!TypeOK' /\ Scaling!CrashNeedsScaleDown'
        /\ Cardinality(Scaling!Active)' = Cardinality(Scaling!Active) + 1
    BY <1>1, <1>2, <1>3, NewWorkersKeep
  <1>5. Cardinality(Scaling!Active) \in Nat
    BY <1>1, ActiveIsFinite
  <1>6. CountInv'
    BY <1>1, <1>4, <1>5 DEF ScalingInv, CountInv
  <1> QED
    BY <1>1, <1>4, <1>6 DEF ScalingInv

LEMMA ScaleDownKeeps ==
    ASSUME ScalingAssumption, ScalingInv, Scaling!ScaleDown
    PROVE  ScalingInv'
  <1> DEFINE i == Scaling!LowestLoad
             w == [workers[i] EXCEPT !.active = FALSE, !.closed = TRUE]
  <1>1. /\ workers' = Scaling!Retired(i) /\ currentWorkers' = currentWorkers - 1
        /\ currentWorkers > minWorkers /\ minWorkers \in Nat /\ maxWorkers \in Nat
        /\ currentWorkers \in minWorkers .. maxWorkers /\ Scaling!TypeOK /\ Scaling!Active # {}
        /\ UNCHANGED <<starts, lastIndex, chosen, crashed>>
    BY DEF Scaling!ScaleDown, ScalingInv, ScalingAssumption, Scaling!TypeOK
  <1>2. /\ i \in Scaling!Active /\ i \in DOMAIN workers /\ workers[i] \in ScalingWorker
        /\ workers \in Seq(ScalingWorker) /\ IsFiniteSet(Scaling!Active)
        /\ Cardinality(Scaling!Active) \in Nat
    BY <1>1, LowestLoadIsActive, ActiveIsFinite DEF Scaling!TypeOK, ScalingWorker
  <1> HIDE DEF i
  <1>3. w \in ScalingWorker /\ ~w.active /\ w.closed
    BY <1>2 DEF ScalingWorker
  <1>4. workers' = [workers EXCEPT ![i] = w]
    BY <1>1, <1>2 DEF Scaling!Retired
  <1> HIDE DEF w
  <1>5. /\ workers' \in Seq(ScalingWorker) /\ Len(workers') = Len(workers)
        /\ DOMAIN workers' = DOMAIN workers /\ workers'[i] = w
        /\ \A j \in DOMAIN workers \ {i} : workers'[j] = workers[j]
    <2>1. workers' \in Seq(ScalingWorker) /\ Len(workers') = Len(workers)
      BY <1>2, <1>3, <1>4, ExceptSeq
    <2> QED
      BY <1>2, <1>4, <2>1
  <1>6. Scaling!Active' = Scaling!Active \ {i}
    BY <1>2, <1>3, <1>5 DEF Scaling!Active
  <1>7. Cardinality(Scaling!Active)' = Cardinality(Scaling!Active) - 1
    BY <1>2, <1>6, FS_RemoveElement
  <1>8. currentWorkers' \in minWorkers .. maxWorkers
    BY <1>1
  <1>9. Scaling!TypeOK'
    BY <1>1, <1>5, <1>8 DEF Scaling!TypeOK, ScalingWorker
  <1>10. CountInv'
    BY <1>1, <1>2, <1>7 DEF ScalingInv, CountInv
  <1>11. Scaling!CrashNeedsScaleDown'
    BY <1>2, <1>3, <1>5 DEF Scaling!CrashNeedsScaleDown
  <1> QED
    BY <1>1, <1>9, <1>10, <1>11 DEF ScalingInv

\* Submitters choose a worker and send to it later, the pool grows and shrinks meanwhile: in a
\* pool started once the counter that bounds the scaling is the number of active workers, and
\* only a queue that a ScaleDown closed can end the process, for any number of workers.
THEOREM ScalingSafety ==
    ASSUME ScalingAssumption
    PROVE  Scaling!Spec =>
               [](Scaling!TypeOK /\ Scaling!ActiveCounted /\ Scaling!CrashNeedsScaleDown)
  <1>1. Scaling!Init => ScalingInv
    <2> SUFFICES ASSUME Scaling!Init PROVE ScalingInv
      OBVIOUS
    <2> USE DEF Scaling!Init
    <2>1. /\ workers \in Seq(ScalingWorker) /\ Len(workers) = 0 /\ Scaling!Active = {}
      BY DEF Scaling!Active
    <2>2. currentWorkers \in minWorkers .. maxWorkers /\ currentWorkers - minWorkers = 0
      BY DEF ScalingAssumption
    <2>3. Scaling!TypeOK
      <3>1. 0 \in 0 .. Len(workers)
        BY <2>1
      <3> QED
        BY <2>1, <2>2, <3>1 DEF Scaling!TypeOK, ScalingWorker
    <2>4. CountInv
      BY <2>1, <2>2, FS_EmptySet DEF CountInv
    <2> QED
      BY <2>3, <2>4 DEF ScalingInv, Scaling!CrashNeedsScaleDown
  <1>2. ScalingInv /\ [Scaling!Next]_(Scaling!vars) => ScalingInv'
    <2> SUFFICES ASSUME ScalingInv, [Scaling!Next]_(Scaling!vars) PROVE ScalingInv'
      OBVIOUS
    <2>1. CASE Scaling!Start \/ Scaling!ScaleUp \/ Scaling!ScaleDown
      BY <2>1, StartWorkersKeeps, ScaleUpKeeps, ScaleDownKeeps
    <2>2. ASSUME NEW s \in Submitter, Scaling!SubmitTask(s) PROVE ScalingInv'
      BY <2>2, SubmitTaskKeeps
    <2>3. CASE \/ \E s \in Submitter : Scaling!Send(s)
               \/ \E i \in DOMAIN workers : Scaling!Take(i) \/ Scaling!Execute(i)
      BY <2>3, TaskKeeps
    <2>4. CASE UNCHANGED Scaling!vars
      BY <2>4 DEF Scaling!vars, ScalingInv, CountInv, Scaling!TypeOK, Scaling!Active,
                  Scaling!CrashNeedsScaleDown
    <2> QED
      BY <2>1, <2>2, <2>3, <2>4 DEF Scaling!Next
  <1>3. ScalingInv => Scaling!TypeOK /\ Scaling!ActiveCounted /\ Scaling!CrashNeedsScaleDown
    BY SameCount DEF ScalingInv, CountInv, Scaling!ActiveCounted
  <1> QED
    BY <1>1, <1>2, <1>3, PTL DEF Scaling!Spec

-----------------------------------------------------------------------------
(***************************************************************************)
(* PriorityPool: the queue that is sorted again after every push, for any  *)
(* number of submitters and any priorities.                                *)
(***************************************************************************)
VARIABLES popped, taken

Urgency == INSTANCE PriorityPool

\* What holds of 0 and of the successor of each number it holds of holds of all.
LEMMA NumbersFromZero ==
    ASSUME NEW T, 0 \in T, \A k \in Nat : k \in T => k + 1 \in T
    PROVE  Nat \subseteq T
  <1> SUFFICES ASSUME Nat \ T # {} PROVE FALSE
    OBVIOUS
  <1>1. PICK m \in Nat \ T : \A n \in Nat \ T : m <= n
    BY LeastNumber
  <1>2. m # 0 /\ m - 1 \in Nat /\ ~(m <= m - 1)
    BY <1>1
  <1>3. m - 1 \in T
    BY <1>1, <1>2
  <1> QED
    BY <1>1, <1>2, <1>3

\* FoldLeft takes the greatest index of a set of them off: the last one is applied last.
TopOf(A) == CHOOSE x \in A : \A y \in A : x >= y

LEMMA TopIsTaken ==
    ASSUME NEW k \in Nat
    PROVE  /\ \A A \in SUBSET (1 .. k + 1) :
                 A # {} => TopOf(A) \in A /\ A \ {TopOf(A)} \in SUBSET (1 .. k)
           /\ TopOf(1 .. k + 1) = k + 1 /\ (1 .. k + 1) \ {k + 1} = 1 .. k
  <1>1. ASSUME NEW A \in SUBSET (1 .. k + 1), A # {}
        PROVE  TopOf(A) \in A /\ \A y \in A : TopOf(A) >= y
    <2> DEFINE B == {b \in Nat : \E x \in A : b = k + 1 - x}
    <2>1. B \subseteq Nat /\ B # {}
      <3>1. PICK x \in A : TRUE
        BY <1>1
      <3>2. x \in 1 .. k + 1
        BY <3>1
      <3>3. k + 1 - x \in Nat
        BY <3>2
      <3> QED
        BY <3>3
    <2>2. PICK b \in B : \A c \in B : b <= c
      <3> HIDE DEF B
      <3> QED
        BY <2>1, LeastNumber
    <2>3. PICK x \in A : b = k + 1 - x
      BY <2>2
    <2>4. \A y \in A : x >= y
      <3> SUFFICES ASSUME NEW y \in A PROVE x >= y
        OBVIOUS
      <3>1. k + 1 - x <= k + 1 - y
        BY <2>2, <2>3
      <3> QED
        BY <3>1
    <2> QED
      BY <2>4 DEF TopOf
  <1>2. TopOf(1 .. k + 1) = k + 1
    <2>1. 1 .. k + 1 # {} /\ k + 1 \in 1 .. k + 1
      OBVIOUS
    <2>2. TopOf(1 .. k + 1) \in 1 .. k + 1 /\ TopOf(1 .. k + 1) >= k + 1
      BY <1>1, <2>1
    <2> QED
      BY <2>2
  <1>3. ASSUME NEW A \in SUBSET (1 .. k + 1), A # {} PROVE A \ {TopOf(A)} \in SUBSET (1 .. k)
    <2>1. TopOf(A) \in 1 .. k + 1 /\ \A y \in A : TopOf(A) >= y
      BY <1>1, <1>3
    <2>2. ASSUME NEW y \in A, y # TopOf(A) PROVE y \in 1 .. k
      <3>1. y \in 1 .. k + 1 /\ TopOf(A) >= y
        BY <2>1, <1>3
      <3> QED
        BY <2>1, <2>2, <3>1
    <2> QED
      BY <2>2
  <1> QED
    BY <1>1, <1>2, <1>3

\* What a FoldLeft over 1 .. n computes from its step, applied to the value so far and a
\* number, and from the value it begins with.
IsFold(g, n, base, st) ==
    \A A \in SUBSET (1 .. n) :
        g[A] = IF A = {} THEN base ELSE st[g[A \ {TopOf(A)}]][TopOf(A)]

LEMMA FoldExists ==
    ASSUME NEW n \in Nat, NEW D, NEW base \in D, NEW st,
           \A d \in D, k \in 1 .. n : st[d][k] \in D
    PROVE  \E g \in [SUBSET (1 .. n) -> D] : IsFold(g, n, base, st)
  <1> DEFINE Good(k) == k <= n => \E g \in [SUBSET (1 .. k) -> D] : IsFold(g, k, base, st)
             T == {k \in Nat : Good(k)}
  <1>1. Good(0)
    <2> DEFINE g == [A \in SUBSET (1 .. 0) |-> base]
    <2>1. \A A \in SUBSET (1 .. 0) : A = {}
      OBVIOUS
    <2>2. g \in [SUBSET (1 .. 0) -> D] /\ IsFold(g, 0, base, st)
      BY <2>1 DEF IsFold
    <2> QED
      BY <2>2
  <1>2. ASSUME NEW k \in Nat, Good(k), k + 1 <= n PROVE Good(k + 1)
    <2>1. PICK g \in [SUBSET (1 .. k) -> D] : IsFold(g, k, base, st)
      <3>1. k <= n
        BY <1>2
      <3> QED
        BY <1>2, <3>1
    <2> DEFINE S == SUBSET (1 .. k + 1)
               Step(f, A) == IF A = {} THEN base ELSE st[f[A \ {TopOf(A)}]][TopOf(A)]
               h == [A \in S |-> Step(g, A)]
    <2>2. \A A \in S : A # {} => /\ TopOf(A) \in 1 .. n /\ A \ {TopOf(A)} \in SUBSET (1 .. k)
      <3> SUFFICES ASSUME NEW A \in S, A # {}
                   PROVE  TopOf(A) \in 1 .. n /\ A \ {TopOf(A)} \in SUBSET (1 .. k)
        OBVIOUS
      <3>1. TopOf(A) \in A /\ A \ {TopOf(A)} \in SUBSET (1 .. k)
        BY TopIsTaken
      <3>2. TopOf(A) \in 1 .. k + 1
        BY <3>1
      <3> QED
        BY <1>2, <3>1, <3>2
    <2>3. \A A \in S : Step(g, A) \in D
      BY <2>2
    <2>4. h \in [S -> D]
      BY <2>3
    <2>5. \A A \in SUBSET (1 .. k) : A \in S /\ h[A] = g[A]
      <3>1. \A A \in SUBSET (1 .. k) : A \in S
        OBVIOUS
      <3> QED
        BY <2>1, <3>1 DEF IsFold
    <2>6. ASSUME NEW A \in S PROVE h[A] = Step(h, A)
      <3>1. h[A] = Step(g, A)
        OBVIOUS
      <3>2. A # {} => h[A \ {TopOf(A)}] = g[A \ {TopOf(A)}]
        BY <2>2, <2>5
      <3> HIDE DEF h
      <3> QED
        BY <3>1, <3>2
    <2>7. IsFold(h, k + 1, base, st)
      <3> HIDE DEF h
      <3> QED
        BY <2>6 DEF IsFold
    <2> QED
      BY <2>4, <2>7
  <1>3. n \in T
    <2>1. 0 \in T /\ \A k \in Nat : k \in T => k + 1 \in T
      <3>1. ASSUME NEW k \in Nat, Good(k) PROVE Good(k + 1)
        <4> HIDE DEF Good
        <4>1. k + 1 <= n => Good(k + 1)
          BY <1>2, <3>1
        <4> QED
          BY <4>1 DEF Good
      <3> HIDE DEF Good
      <3> QED
        BY <1>1, <3>1
    <2> HIDE DEF T
    <2> QED
      BY <2>1, NumbersFromZero
  <1>4. Good(n)
    BY <1>3
  <1>5. n <= n
    OBVIOUS
  <1> QED
    BY <1>4, <1>5

IsFoldInto(g, n, D, base, st) == g \in [SUBSET (1 .. n) -> D] /\ IsFold(g, n, base, st)

\* What obeys the equations of a fold along 1 .. n has its value there.
Obeys(c, n, D, base, st) ==
    /\ c[{}] = base
    /\ \A j \in 1 .. n : c[1 .. j - 1] \in D => c[1 .. j] = st[c[1 .. j - 1]][j]

LEMMA FoldIsUnique ==
    ASSUME NEW n \in Nat, NEW m \in Nat, n <= m, NEW D, NEW base, NEW st,
           NEW g, IsFoldInto(g, m, D, base, st), NEW c, Obeys(c, n, D, base, st)
    PROVE  c[1 .. n] = g[1 .. n]
  <1> DEFINE T == {k \in Nat : k <= n => c[1 .. k] = g[1 .. k]}
  <1>1. 0 \in T
    <2>1. 1 .. 0 = {} /\ {} \in SUBSET (1 .. m)
      OBVIOUS
    <2>2. g[{}] = base
      BY <2>1 DEF IsFoldInto, IsFold
    <2> QED
      BY <2>1, <2>2 DEF Obeys
  <1>2. ASSUME NEW k \in Nat, k \in T, k + 1 <= n PROVE c[1 .. k + 1] = g[1 .. k + 1]
    <2>1. c[1 .. k] = g[1 .. k]
      BY <1>2
    <2>2. 1 .. k \in SUBSET (1 .. m) /\ 1 .. k + 1 \in SUBSET (1 .. m) /\ 1 .. k + 1 # {}
      <3>1. k + 1 <= m /\ k + 1 \in 1 .. k + 1
        BY <1>2
      <3>2. \A i \in 1 .. k + 1 : i \in 1 .. m
        BY <3>1
      <3>3. \A i \in 1 .. k : i \in 1 .. k + 1
        OBVIOUS
      <3> QED
        BY <3>1, <3>2, <3>3
    <2>3. g[1 .. k + 1] = st[g[1 .. k]][k + 1]
      <3>1. TopOf(1 .. k + 1) = k + 1 /\ (1 .. k + 1) \ {k + 1} = 1 .. k
        BY TopIsTaken
      <3> QED
        BY <2>2, <3>1 DEF IsFoldInto, IsFold
    <2>4. k + 1 \in 1 .. n /\ (k + 1) - 1 = k
      BY <1>2
    <2>5. c[1 .. k] \in D => c[1 .. k + 1] = st[c[1 .. k]][k + 1]
      BY <2>4 DEF Obeys
    <2> QED
      BY <2>1, <2>2, <2>3, <2>5 DEF IsFoldInto
  <1>3. \A k \in Nat : k \in T => k + 1 \in T
    BY <1>2
  <1> HIDE DEF T
  <1>4. n \in T
    BY <1>1, <1>3, NumbersFromZero
  <1> QED
    BY <1>4 DEF T

-----------------------------------------------------------------------------
\* The two loops of sort as such folds.
Upto(n) == [k \in 1 .. n |-> k]

PassStep(acc, k) ==
    IF Urgency!OutOfOrder(acc[k], acc[k + 1]) THEN Urgency!Swap(acc, k) ELSE acc

IsPass(g, s, n) ==
    g = [A \in SUBSET DOMAIN Upto(n) |->
            IF A = {} THEN s ELSE PassStep(g[A \ {TopOf(A)}], Upto(n)[TopOf(A)])]

IsSort(g, s, n) ==
    g = [A \in SUBSET DOMAIN Upto(n) |->
            IF A = {} THEN s ELSE Urgency!Pass(g[A \ {TopOf(A)}], Len(s) - Upto(n)[TopOf(A)])]

LEMMA PassIsChosen ==
    ASSUME NEW s, NEW n
    PROVE  Urgency!Pass(s, n) = (CHOOSE g : IsPass(g, s, n))[DOMAIN Upto(n)]
  BY Zenon DEF Urgency!Pass, Urgency!FoldLeft, Urgency!MapThenFoldSet, Urgency!Max, IsPass,
     PassStep, TopOf, Upto

LEMMA SortIsChosen ==
    ASSUME NEW s
    PROVE  Urgency!Sort(s) = (CHOOSE g : IsSort(g, s, Len(s) - 1))[DOMAIN Upto(Len(s) - 1)]
  BY Zenon DEF Urgency!Sort, Urgency!FoldLeft, Urgency!MapThenFoldSet, Urgency!Max, IsSort,
     TopOf, Upto

SameLength(s) == {t \in Seq(Job) : Len(t) = Len(s)}

LEMMA StepKeepsLength ==
    ASSUME NEW s \in Seq(Job), NEW d \in SameLength(s), NEW k \in 1 .. Len(s) - 1
    PROVE  PassStep(d, k) \in SameLength(s)
  <1>1. d \in [1 .. Len(s) -> Job] /\ k \in 1 .. Len(s) /\ k + 1 \in 1 .. Len(s)
    BY DEF SameLength
  <1>2. Urgency!Swap(d, k) \in [1 .. Len(s) -> Job]
    BY <1>1 DEF Urgency!Swap
  <1>3. Urgency!Swap(d, k) \in Seq(Job) /\ Len(Urgency!Swap(d, k)) = Len(s)
    BY <1>2
  <1> QED
    BY <1>3 DEF PassStep, SameLength

LEMMA PassUnfold ==
    ASSUME NEW s \in Seq(Job), NEW n \in 0 .. Len(s) - 1
    PROVE  /\ Urgency!Pass(s, n) \in SameLength(s)
           /\ Urgency!Pass(s, n) = IF n = 0 THEN s ELSE PassStep(Urgency!Pass(s, n - 1), n)
  <1> DEFINE end == Len(s) - 1
             D == SameLength(s)
             st == [d \in D |-> [k \in 1 .. end |-> PassStep(d, k)]]
  <1>1. end \in Nat /\ s \in D /\ n <= end
    BY DEF SameLength
  <1>2. \A d \in D, k \in 1 .. end : st[d][k] = PassStep(d, k) /\ st[d][k] \in D
    BY StepKeepsLength
  <1> HIDE DEF D, end, st
  <1>3. PICK g \in [SUBSET (1 .. end) -> D] : IsFold(g, end, s, st)
    BY <1>1, <1>2, FoldExists
  <1>4. ASSUME NEW m \in 0 .. end PROVE Urgency!Pass(s, m) = g[1 .. m]
    <2> DEFINE h == [A \in SUBSET (1 .. m) |-> g[A]]
               c == CHOOSE f : IsPass(f, s, m)
    <2>0. /\ DOMAIN Upto(m) = 1 .. m /\ m \in Nat
          /\ \A k \in 1 .. m : Upto(m)[k] = k /\ k \in 1 .. end
          /\ \A A \in SUBSET (1 .. m) : A \in SUBSET (1 .. end)
      <3>1. \A k \in 1 .. m : k \in 1 .. end
        BY <1>1
      <3> QED
        BY <1>1, <3>1 DEF Upto
    <2>1. ASSUME NEW A \in SUBSET (1 .. m), A # {}
          PROVE  TopOf(A) \in 1 .. m /\ A \ {TopOf(A)} \in SUBSET (1 .. m)
      <3>0. PICK x \in A : x \in 1 .. m
        BY <2>1
      <3>1. m # 0 /\ m - 1 \in Nat /\ (m - 1) + 1 = m
        BY <2>0, <3>0
      <3>2. TopOf(A) \in A
        BY <2>1, <3>1, TopIsTaken
      <3> QED
        BY <2>1, <3>2
    <2>2. IsPass(h, s, m)
      <3>1. ASSUME NEW A \in SUBSET (1 .. m)
            PROVE  h[A] = IF A = {} THEN s
                          ELSE PassStep(h[A \ {TopOf(A)}], Upto(m)[TopOf(A)])
        <4>1. g[A] = IF A = {} THEN s ELSE st[g[A \ {TopOf(A)}]][TopOf(A)]
          BY <1>3, <2>0 DEF IsFold
        <4>2. CASE A # {}
          <5>1. /\ TopOf(A) \in 1 .. end /\ A \ {TopOf(A)} \in SUBSET (1 .. m)
                /\ Upto(m)[TopOf(A)] = TopOf(A)
            BY <2>0, <2>1, <4>2
          <5>2. g[A \ {TopOf(A)}] \in D
            BY <1>3, <2>0, <5>1
          <5> QED
            BY <1>2, <4>1, <4>2, <5>1, <5>2
        <4> QED
          BY <4>1, <4>2
      <3>2. h = [A \in SUBSET (1 .. m) |->
                    IF A = {} THEN s ELSE PassStep(h[A \ {TopOf(A)}], Upto(m)[TopOf(A)])]
        <4> SUFFICES \A A \in SUBSET (1 .. m) :
                        h[A] = IF A = {} THEN s
                               ELSE PassStep(h[A \ {TopOf(A)}], Upto(m)[TopOf(A)])
          OBVIOUS
        <4> QED
          BY <3>1
      <3> HIDE DEF h
      <3> QED
        BY <2>0, <3>2 DEF IsPass
    <2>3. IsPass(c, s, m)
      <3> HIDE DEF h
      <3> QED
        BY <2>2, Zenon
    <2> HIDE DEF c
    <2>4. c = [A \in SUBSET (1 .. m) |->
                  IF A = {} THEN s ELSE PassStep(c[A \ {TopOf(A)}], Upto(m)[TopOf(A)])]
      BY <2>0, <2>3 DEF IsPass
    <2>5. c[{}] = s
      BY <2>4
    <2>6. ASSUME NEW j \in 1 .. m, c[1 .. j - 1] \in D
          PROVE  c[1 .. j] = st[c[1 .. j - 1]][j]
      <3>1. j - 1 \in Nat /\ (j - 1) + 1 = j
        BY <2>0
      <3>2. TopOf(1 .. j) = j /\ (1 .. j) \ {j} = 1 .. j - 1
        BY <3>1, TopIsTaken
      <3>3. 1 .. j \in SUBSET (1 .. m) /\ j \in 1 .. j
        BY <2>0
      <3>4. c[1 .. j] = PassStep(c[1 .. j - 1], j)
        BY <2>0, <2>4, <3>2, <3>3, ZenonT(40)
      <3> QED
        BY <1>2, <2>0, <2>6, <3>4
    <2>7. c[1 .. m] = g[1 .. m]
      <3>1. m <= end
        BY <1>1
      <3>2. end \in Nat /\ m \in Nat
        BY <1>1
      <3>3. Obeys(c, m, D, s, st)
        BY <2>5, <2>6 DEF Obeys
      <3>4. IsFoldInto(g, end, D, s, st)
        BY <1>3 DEF IsFoldInto
      <3> QED
        BY <3>1, <3>2, <3>3, <3>4, FoldIsUnique
    <2> QED
      BY <2>0, <2>7, PassIsChosen DEF c
  <1>5. g[{}] = s
    BY <1>3 DEF IsFold
  <1>6. n > 0 => g[1 .. n] = PassStep(g[1 .. n - 1], n)
    <2> SUFFICES ASSUME n > 0 PROVE g[1 .. n] = PassStep(g[1 .. n - 1], n)
      OBVIOUS
    <2>1. n - 1 \in Nat /\ (n - 1) + 1 = n /\ n \in 1 .. end /\ n \in 1 .. n
      BY <1>1
    <2>2. TopOf(1 .. n) = n /\ (1 .. n) \ {n} = 1 .. n - 1
      BY <2>1, TopIsTaken
    <2>3. 1 .. n \in SUBSET (1 .. end) /\ 1 .. n - 1 \in SUBSET (1 .. end)
      BY <1>1
    <2>4. g[1 .. n] = st[g[1 .. n - 1]][n]
      BY <1>3, <2>1, <2>2, <2>3 DEF IsFold
    <2> QED
      BY <1>2, <1>3, <2>1, <2>3, <2>4
  <1>7. n \in 0 .. end /\ (n > 0 => n - 1 \in 0 .. end) /\ 1 .. n \in SUBSET (1 .. end)
    BY <1>1
  <1>8. 1 .. 0 = {}
    OBVIOUS
  <1> QED
    BY <1>3, <1>4, <1>5, <1>6, <1>7, <1>8 DEF D

\* The values the outer loop goes through.
LEMMA SortUnfold ==
    ASSUME NEW s \in Seq(Job), s # <<>>
    PROVE  \E v \in [0 .. Len(s) - 1 -> SameLength(s)] :
              /\ v[0] = s /\ v[Len(s) - 1] = Urgency!Sort(s)
              /\ \A k \in 1 .. Len(s) - 1 : v[k] = Urgency!Pass(v[k - 1], Len(s) - k)
  <1> DEFINE end == Len(s) - 1
             D == SameLength(s)
             st == [d \in D |-> [k \in 1 .. end |-> Urgency!Pass(d, Len(s) - k)]]
  <1>1. end \in Nat /\ s \in D /\ end <= end
    BY DEF SameLength
  <1>2. \A d \in D, k \in 1 .. end : st[d][k] = Urgency!Pass(d, Len(s) - k) /\ st[d][k] \in D
    <2> SUFFICES ASSUME NEW d \in D, NEW k \in 1 .. end PROVE Urgency!Pass(d, Len(s) - k) \in D
      OBVIOUS
    <2>1. d \in Seq(Job) /\ Len(d) = Len(s) /\ Len(s) - k \in 0 .. Len(d) - 1
      BY DEF SameLength
    <2> QED
      BY <2>1, PassUnfold DEF SameLength
  <1> HIDE DEF D, end, st
  <1>3. PICK g \in [SUBSET (1 .. end) -> D] : IsFold(g, end, s, st)
    BY <1>1, <1>2, FoldExists
  <1> DEFINE c == CHOOSE f : IsSort(f, s, end)
  <1>0. DOMAIN Upto(end) = 1 .. end /\ \A k \in 1 .. end : Upto(end)[k] = k
    BY DEF Upto
  <1>4. IsSort(g, s, end)
    <2>1. ASSUME NEW A \in SUBSET (1 .. end), A # {}
          PROVE  TopOf(A) \in 1 .. end /\ A \ {TopOf(A)} \in SUBSET (1 .. end)
      <3>0. PICK x \in A : x \in 1 .. end
        BY <2>1
      <3>1. end # 0 /\ end - 1 \in Nat /\ (end - 1) + 1 = end
        BY <1>1, <3>0
      <3>2. TopOf(A) \in A
        BY <2>1, <3>1, TopIsTaken
      <3> QED
        BY <2>1, <3>2
    <2>2. ASSUME NEW A \in SUBSET (1 .. end)
          PROVE  g[A] = IF A = {} THEN s
                        ELSE Urgency!Pass(g[A \ {TopOf(A)}], Len(s) - Upto(end)[TopOf(A)])
      <3>1. g[A] = IF A = {} THEN s ELSE st[g[A \ {TopOf(A)}]][TopOf(A)]
        BY <1>3 DEF IsFold
      <3>2. CASE A # {}
        <4>1. /\ TopOf(A) \in 1 .. end /\ A \ {TopOf(A)} \in SUBSET (1 .. end)
              /\ Upto(end)[TopOf(A)] = TopOf(A)
          BY <1>0, <2>1, <3>2
        <4>2. g[A \ {TopOf(A)}] \in D
          BY <1>3, <4>1
        <4> QED
          BY <1>2, <3>1, <3>2, <4>1, <4>2
      <3> QED
        BY <3>1, <3>2
    <2>3. g = [A \in SUBSET (1 .. end) |->
                  IF A = {} THEN s
                  ELSE Urgency!Pass(g[A \ {TopOf(A)}], Len(s) - Upto(end)[TopOf(A)])]
      <3> DEFINE G(A) == IF A = {} THEN s
                         ELSE Urgency!Pass(g[A \ {TopOf(A)}], Len(s) - Upto(end)[TopOf(A)])
      <3>1. \A A \in SUBSET (1 .. end) : g[A] = G(A)
        BY <2>2
      <3> HIDE DEF G
      <3>2. g = [A \in SUBSET (1 .. end) |-> G(A)]
        BY <1>3, <3>1
      <3> QED
        BY <3>2 DEF G
    <2> QED
      BY <1>0, <2>3 DEF IsSort
  <1>5. IsSort(c, s, end)
    BY <1>4, Zenon
  <1>6. Urgency!Sort(s) = c[1 .. end]
    BY <1>0, SortIsChosen DEF end
  <1> HIDE DEF c
  <1>7. c = [A \in SUBSET (1 .. end) |->
                IF A = {} THEN s
                ELSE Urgency!Pass(c[A \ {TopOf(A)}], Len(s) - Upto(end)[TopOf(A)])]
    BY <1>0, <1>5 DEF IsSort
  <1>8. Obeys(c, end, D, s, st)
    <2>1. c[{}] = s
      BY <1>7
    <2>2. ASSUME NEW j \in 1 .. end, c[1 .. j - 1] \in D PROVE c[1 .. j] = st[c[1 .. j - 1]][j]
      <3>1. j - 1 \in Nat /\ (j - 1) + 1 = j
        BY <1>1
      <3>2. TopOf(1 .. j) = j /\ (1 .. j) \ {j} = 1 .. j - 1
        BY <3>1, TopIsTaken
      <3>3. 1 .. j \in SUBSET (1 .. end) /\ j \in 1 .. j
        BY <1>1
      <3>4. c[1 .. j] = Urgency!Pass(c[1 .. j - 1], Len(s) - j)
        <4>1. c[1 .. j] = Urgency!Pass(c[(1 .. j) \ {TopOf(1 .. j)}],
                                       Len(s) - Upto(end)[TopOf(1 .. j)])
          BY <1>7, <3>3
        <4>2. Upto(end)[j] = j
          BY <1>0
        <4> QED
          BY <3>2, <4>1, <4>2
      <3> QED
        BY <1>2, <2>2, <3>4
    <2> QED
      BY <2>1, <2>2 DEF Obeys
  <1>9. c[1 .. end] = g[1 .. end]
    <2>1. IsFoldInto(g, end, D, s, st)
      BY <1>3 DEF IsFoldInto
    <2> QED
      BY <1>1, <1>8, <2>1, FoldIsUnique
  <1> DEFINE v == [k \in 0 .. end |-> g[1 .. k]]
  <1>10. \A k \in 0 .. end : 1 .. k \in SUBSET (1 .. end)
    BY <1>1
  <1>11. v \in [0 .. end -> D]
    BY <1>3, <1>10
  <1>12. v[0] = s
    <2>1. 0 \in 0 .. end /\ 1 .. 0 = {}
      BY <1>1
    <2>2. g[{}] = s
      BY <1>3 DEF IsFold
    <2> QED
      BY <2>1, <2>2
  <1>13. ASSUME NEW k \in 1 .. end PROVE v[k] = Urgency!Pass(v[k - 1], Len(s) - k)
    <2>1. k - 1 \in Nat /\ (k - 1) + 1 = k /\ k \in 0 .. end /\ k - 1 \in 0 .. end /\ k \in 1 .. k
      BY <1>1
    <2>2. TopOf(1 .. k) = k /\ (1 .. k) \ {k} = 1 .. k - 1
      BY <2>1, TopIsTaken
    <2>3. 1 .. k \in SUBSET (1 .. end) /\ 1 .. k - 1 \in SUBSET (1 .. end)
      BY <1>10, <2>1
    <2>4. g[1 .. k] = st[g[1 .. k - 1]][k]
      BY <1>3, <2>1, <2>2, <2>3 DEF IsFold
    <2>5. g[1 .. k - 1] \in D
      BY <1>3, <2>3
    <2> QED
      BY <1>2, <2>1, <2>4, <2>5
  <1>14. v[end] = Urgency!Sort(s)
    BY <1>1, <1>6, <1>9
  <1> HIDE DEF v
  <1> QED
    BY <1>11, <1>12, <1>13, <1>14 DEF D, end

-----------------------------------------------------------------------------
\* The queue is in order of urgency, the most urgent job first.
InOrder(s) == \A i, k \in 1 .. Len(s) : i <= k => Priority[s[k]] <= Priority[s[i]]

\* The place of j in s: behind all jobs that are as urgent.
Behind(s, j, p) ==
    /\ p \in 1 .. Len(s) + 1
    /\ \A i \in 1 .. Len(s) : i < p => Priority[j] <= Priority[s[i]]
    /\ \A i \in 1 .. Len(s) : p <= i => Priority[s[i]] < Priority[j]

\* s with j at place q.
Inserted(s, j, q) ==
    [i \in 1 .. Len(s) + 1 |-> IF i < q THEN s[i] ELSE IF i = q THEN j ELSE s[i - 1]]

LEMMA PlaceExists ==
    ASSUME Priority \in [Job -> Int], NEW s \in Seq(Job), InOrder(s), NEW j \in Job
    PROVE  \E p : Behind(s, j, p)
  <1> DEFINE P == {i \in 1 .. Len(s) + 1 : i = Len(s) + 1 \/ Priority[s[i]] < Priority[j]}
  <1>1. P \subseteq Nat /\ P # {}
    <2>1. Len(s) + 1 \in P
      OBVIOUS
    <2> QED
      BY <2>1
  <1>2. PICK p \in P : \A i \in P : p <= i
    <2> HIDE DEF P
    <2> QED
      BY <1>1, LeastNumber
  <1>3. ASSUME NEW i \in 1 .. Len(s), i < p PROVE Priority[j] <= Priority[s[i]]
    <2>1. i \notin P /\ i \in 1 .. Len(s) + 1 /\ s[i] \in Job
      BY <1>2, <1>3
    <2> QED
      BY <2>1
  <1>4. ASSUME NEW i \in 1 .. Len(s), p <= i PROVE Priority[s[i]] < Priority[j]
    <2>1. p \in 1 .. Len(s) /\ p # Len(s) + 1
      BY <1>4
    <2>2. Priority[s[p]] < Priority[j] /\ Priority[s[i]] <= Priority[s[p]]
      BY <1>2, <1>4, <2>1 DEF InOrder
    <2>3. s[p] \in Job /\ s[i] \in Job
      BY <2>1
    <2>4. Priority[s[p]] \in Int /\ Priority[s[i]] \in Int /\ Priority[j] \in Int
      BY <2>3
    <2> HIDE DEF P
    <2> QED
      BY <2>2, <2>4
  <1> QED
    BY <1>2, <1>3, <1>4 DEF Behind

LEMMA InsertedIsASequence ==
    ASSUME NEW s \in Seq(Job), NEW j \in Job, NEW q \in 1 .. Len(s) + 1
    PROVE  /\ Inserted(s, j, q) \in Seq(Job) /\ Len(Inserted(s, j, q)) = Len(s) + 1
           /\ Append(s, j) = Inserted(s, j, Len(s) + 1)
  <1>1. Inserted(s, j, q) \in [1 .. Len(s) + 1 -> Job]
    <2>1. \A i \in 1 .. Len(s) + 1 : /\ i < q => i \in 1 .. Len(s)
                                     /\ ~(i < q) /\ i # q => i - 1 \in 1 .. Len(s)
      OBVIOUS
    <2> QED
      BY <2>1 DEF Inserted
  <1>2. Inserted(s, j, q) \in Seq(Job) /\ Len(Inserted(s, j, q)) = Len(s) + 1
    BY <1>1
  <1>3. Append(s, j) = Inserted(s, j, Len(s) + 1)
    <2>1. Append(s, j) = [i \in 1 .. Len(s) + 1 |-> IF i <= Len(s) THEN s[i] ELSE j]
      <3> DEFINE a == Append(s, j)
      <3> HIDE DEF a
      <3>1. /\ a \in Seq(Job) /\ Len(a) = Len(s) + 1
            /\ \A i \in 1 .. Len(s) : a[i] = s[i]
            /\ a[Len(s) + 1] = j
        BY AppendProperties DEF a
      <3>2. a \in [1 .. Len(s) + 1 -> Job]
        BY <3>1
      <3>3. \A i \in 1 .. Len(s) + 1 : a[i] = IF i <= Len(s) THEN s[i] ELSE j
        BY <3>1
      <3> QED
        BY <3>2, <3>3 DEF a
    <2>2. \A i \in 1 .. Len(s) + 1 : /\ i < Len(s) + 1 <=> i <= Len(s)
                                     /\ ~(i <= Len(s)) => i = Len(s) + 1
      OBVIOUS
    <2> QED
      BY <2>1, <2>2 DEF Inserted
  <1> QED
    BY <1>2, <1>3

\* A pass moves the new job one place forward when it comes to it, and nothing else.
LEMMA PassMovesOne ==
    ASSUME Priority \in [Job -> Int], NEW s \in Seq(Job), InOrder(s), NEW j \in Job,
           NEW p, Behind(s, j, p), NEW q \in p .. Len(s) + 1, NEW n \in Nat, n <= q - 1
    PROVE  Urgency!Pass(Inserted(s, j, q), n) =
              Inserted(s, j, IF n = q - 1 /\ p < q THEN q - 1 ELSE q)
  <1> DEFINE t == Inserted(s, j, q)
             Good(k) == Urgency!Pass(t, k) =
                           Inserted(s, j, IF k = q - 1 /\ p < q THEN q - 1 ELSE q)
             T == {k \in Nat : k <= q - 1 => Good(k)}
  <1>1. p \in Nat /\ 1 <= p /\ p <= q /\ q \in 1 .. Len(s) + 1 /\ q \in Nat
    BY DEF Behind
  <1>2. t \in Seq(Job) /\ Len(t) = Len(s) + 1
    BY <1>1, InsertedIsASequence
  <1>3. \A i \in 1 .. Len(s) + 1 : t[i] = IF i < q THEN s[i] ELSE IF i = q THEN j ELSE s[i - 1]
    BY DEF Inserted
  <1>4. \A k \in Nat : k <= q - 1 => k \in 0 .. Len(t) - 1
    BY <1>1, <1>2
  <1> HIDE DEF t
  <1>5. Good(0)
    <2>1. 0 <= q - 1
      BY <1>1
    <2>2. Urgency!Pass(t, 0) = t
      BY <1>2, <1>4, <2>1, PassUnfold
    <2>3. ~(0 = q - 1 /\ p < q)
      BY <1>1
    <2> QED
      BY <2>2, <2>3 DEF t
  <1>6. ASSUME NEW k \in Nat, k + 1 <= q - 1, Good(k) PROVE Good(k + 1)
    <2>1. Urgency!Pass(t, k + 1) = PassStep(Urgency!Pass(t, k), k + 1)
      <3>1. k + 1 \in Nat /\ k + 1 # 0 /\ (k + 1) - 1 = k
        OBVIOUS
      <3> QED
        BY <1>2, <1>4, <1>6, <3>1, PassUnfold
    <2>2. Urgency!Pass(t, k) = t
      <3>1. ~(k = q - 1 /\ p < q)
        BY <1>1, <1>6
      <3> QED
        BY <1>6, <3>1 DEF t
    <2>3. k + 1 \in 1 .. Len(s) /\ k + 1 < q /\ t[k + 1] = s[k + 1]
      <3>1. k + 1 \in 1 .. Len(s) + 1 /\ k + 1 < q
        BY <1>1, <1>6
      <3> QED
        BY <1>1, <1>3, <3>1
    <2>4. s[k + 1] \in Job /\ Priority[s[k + 1]] \in Int /\ Priority[j] \in Int
      BY <2>3
    <2>5. CASE k + 1 = q - 1
      <3>1. t[k + 2] = j
        BY <1>1, <1>3, <2>5
      <3>2. CASE p = q
        <4>1. Priority[j] <= Priority[s[k + 1]]
          BY <2>3, <3>2 DEF Behind
        <4>2. PassStep(t, k + 1) = t
          BY <2>3, <2>4, <3>1, <4>1 DEF PassStep, Urgency!OutOfOrder
        <4> QED
          BY <1>1, <2>1, <2>2, <3>2, <4>2 DEF t
      <3>3. CASE p < q
        <4>1. Priority[s[k + 1]] < Priority[j]
          BY <1>1, <2>3, <2>5, <3>3 DEF Behind
        <4>2. PassStep(t, k + 1) = Urgency!Swap(t, k + 1)
          BY <2>3, <3>1, <4>1 DEF PassStep, Urgency!OutOfOrder
        <4>3. Urgency!Swap(t, k + 1) = Inserted(s, j, q - 1)
          <5> DEFINE u == Urgency!Swap(t, k + 1)
          <5>1. t \in [1 .. Len(s) + 1 -> Job]
            BY <1>2
          <5>2. \A i \in 1 .. Len(s) + 1 : u[i] = IF i = k + 2 THEN t[k + 1]
                                                  ELSE IF i = k + 1 THEN t[k + 2] ELSE t[i]
            BY <5>1, <2>3 DEF Urgency!Swap
          <5>3. DOMAIN u = 1 .. Len(s) + 1
            BY <5>1 DEF Urgency!Swap
          <5>4. u = [i \in 1 .. Len(s) + 1 |-> u[i]]
            BY <5>1 DEF Urgency!Swap
          <5>5. \A i \in 1 .. Len(s) + 1 :
                   u[i] = IF i < q - 1 THEN s[i] ELSE IF i = q - 1 THEN j ELSE s[i - 1]
            <6> SUFFICES ASSUME NEW i \in 1 .. Len(s) + 1
                         PROVE  u[i] = IF i < q - 1 THEN s[i]
                                       ELSE IF i = q - 1 THEN j ELSE s[i - 1]
              OBVIOUS
            <6>1. u[i] = IF i = q THEN s[k + 1] ELSE IF i = q - 1 THEN j ELSE t[i]
              BY <1>1, <2>3, <2>5, <3>1, <5>2
            <6>2. t[i] = IF i < q THEN s[i] ELSE IF i = q THEN j ELSE s[i - 1]
              BY <1>3
            <6> HIDE DEF u
            <6> QED
              BY <1>1, <2>5, <6>1, <6>2
          <5> HIDE DEF u
          <5>6. u = Inserted(s, j, q - 1)
            BY <5>4, <5>5 DEF Inserted
          <5> QED
            BY <5>6 DEF u
        <4> QED
          BY <2>1, <2>2, <2>5, <3>3, <4>2, <4>3
      <3> QED
        BY <1>1, <3>2, <3>3
    <2>6. CASE k + 1 < q - 1
      <3>1. k + 2 \in 1 .. Len(s) /\ t[k + 2] = s[k + 2]
        <4>1. k + 2 \in 1 .. Len(s) /\ k + 2 \in 1 .. Len(s) + 1 /\ k + 2 < q
          BY <1>1, <2>6
        <4> QED
          BY <1>3, <4>1
      <3>2. Priority[s[k + 2]] <= Priority[s[k + 1]]
        BY <2>3, <3>1 DEF InOrder
      <3>3. s[k + 2] \in Job
        BY <3>1
      <3>4. PassStep(t, k + 1) = t
        BY <2>3, <2>4, <3>1, <3>2, <3>3 DEF PassStep, Urgency!OutOfOrder
      <3>5. ~(k + 1 = q - 1 /\ p < q)
        BY <1>1, <2>6
      <3> QED
        BY <2>1, <2>2, <3>4, <3>5 DEF t
    <2> QED
      BY <1>1, <1>6, <2>5, <2>6
  <1>7. n \in T
    <2>1. 0 \in T
      BY <1>5
    <2>2. \A k \in Nat : k \in T => k + 1 \in T
      <3> SUFFICES ASSUME NEW k \in T, k + 1 <= q - 1 PROVE Good(k + 1)
        OBVIOUS
      <3>1. k \in Nat /\ k <= q - 1
        BY <1>1
      <3> HIDE DEF Good
      <3>2. Good(k)
        BY <3>1
      <3> QED
        BY <1>6, <3>1, <3>2
    <2> HIDE DEF T
    <2> QED
      BY <2>1, <2>2, NumbersFromZero
  <1> QED
    BY <1>7 DEF t

\* Sorting again after a push puts the new job at its place.
LEMMA SortInserts ==
    ASSUME Priority \in [Job -> Int], NEW s \in Seq(Job), InOrder(s), NEW j \in Job,
           NEW p, Behind(s, j, p)
    PROVE  Urgency!Sort(Append(s, j)) = Inserted(s, j, p)
  <1> DEFINE t == Append(s, j)
             L == Len(s) + 1
             At(k) == IF p < L - k THEN L - k ELSE p
  <1>1. p \in 1 .. L /\ p \in Nat /\ Len(s) \in Nat
    BY DEF Behind
  <1>2. t \in Seq(Job) /\ Len(t) = L /\ t # <<>> /\ t = Inserted(s, j, L)
    <2>1. L \in 1 .. Len(s) + 1
      BY <1>1
    <2>2. t = Inserted(s, j, L) /\ t \in Seq(Job) /\ Len(t) = L
      BY <2>1, InsertedIsASequence
    <2> HIDE DEF t
    <2> QED
      BY <1>1, <2>2
  <1> HIDE DEF t
  <1>3. PICK v \in [0 .. Len(t) - 1 -> SameLength(t)] :
              /\ v[0] = t /\ v[Len(t) - 1] = Urgency!Sort(t)
              /\ \A k \in 1 .. Len(t) - 1 : v[k] = Urgency!Pass(v[k - 1], Len(t) - k)
    BY <1>2, SortUnfold
  <1> DEFINE T == {k \in Nat : k <= L - 1 => v[k] = Inserted(s, j, At(k))}
  <1>4. 0 \in T
    <2>1. At(0) = L
      BY <1>1
    <2> HIDE DEF At
    <2> QED
      BY <1>2, <1>3, <2>1
  <1>5. ASSUME NEW k \in Nat, k \in T, k + 1 <= L - 1 PROVE v[k + 1] = Inserted(s, j, At(k + 1))
    <2>1. k <= L - 1 /\ k + 1 \in 1 .. Len(t) - 1 /\ (k + 1) - 1 = k
      BY <1>1, <1>2, <1>5
    <2>2. v[k + 1] = Urgency!Pass(v[k], L - (k + 1)) /\ v[k] = Inserted(s, j, At(k))
      BY <1>2, <1>3, <1>5, <2>1
    <2> DEFINE q == At(k)
               n == L - (k + 1)
    <2>3. q \in p .. Len(s) + 1 /\ n \in Nat /\ n <= q - 1
      <3>1. k \in Nat /\ k + 1 <= Len(s)
        BY <1>1, <1>5
      <3> HIDE DEF T
      <3> QED
        BY <1>1, <3>1
    <2>4. (IF n = q - 1 /\ p < q THEN q - 1 ELSE q) = At(k + 1)
      <3>1. k \in Nat /\ k + 1 <= Len(s)
        BY <1>1, <1>5
      <3>2. CASE p < L - k
        <4>1. q = L - k
          BY <3>2
        <4>2. n = q - 1 /\ p < q
          <5> HIDE DEF q, At
          <5> QED
            BY <1>1, <3>1, <3>2, <4>1
        <4>3. At(k + 1) = n
          <5>1. p <= L - (k + 1) /\ L - (k + 1) \in Int
            BY <1>1, <3>1, <3>2
          <5> DEFINE e == L - (k + 1)
          <5>2. At(k + 1) = IF p < e THEN e ELSE p
            OBVIOUS
          <5>3. p \in Int /\ e \in Int /\ p <= e
            BY <1>1, <5>1
          <5> HIDE DEF e, At
          <5>4. p < e \/ p = e
            BY <5>3
          <5>5. At(k + 1) = e
            BY <5>2, <5>4
          <5> QED
            BY <5>5 DEF e
        <4> HIDE DEF q, n, At
        <4> QED
          BY <4>2, <4>3
      <3>3. CASE ~(p < L - k)
        <4>1. q = p /\ At(k + 1) = p /\ ~(p < q)
          BY <1>1, <3>1, <3>3
        <4> HIDE DEF q, n, At
        <4> QED
          BY <4>1
      <3> QED
        BY <3>2, <3>3
    <2> HIDE DEF q, n
    <2>5. Urgency!Pass(Inserted(s, j, q), n) = Inserted(s, j, IF n = q - 1 /\ p < q THEN q - 1 ELSE q)
      BY <2>3, PassMovesOne
    <2> QED
      BY <2>2, <2>4, <2>5 DEF q, n
  <1>6. L - 1 \in T
    <2>1. \A k \in Nat : k \in T => k + 1 \in T
      BY <1>5
    <2>2. L - 1 \in Nat
      BY <1>1
    <2> HIDE DEF T
    <2> QED
      BY <1>4, <2>1, <2>2, NumbersFromZero
  <1>7. At(L - 1) = p
    BY <1>1
  <1> QED
    BY <1>1, <1>2, <1>3, <1>6, <1>7 DEF t

LEMMA InsertedIsInOrder ==
    ASSUME Priority \in [Job -> Int], NEW s \in Seq(Job), InOrder(s), NEW j \in Job,
           NEW p, Behind(s, j, p)
    PROVE  InOrder(Inserted(s, j, p))
  <1>1. p \in 1 .. Len(s) + 1 /\ Len(Inserted(s, j, p)) = Len(s) + 1
    BY InsertedIsASequence DEF Behind
  <1> SUFFICES ASSUME NEW i \in 1 .. Len(s) + 1, NEW k \in 1 .. Len(s) + 1, i < k
               PROVE  Priority[Inserted(s, j, p)[k]] <= Priority[Inserted(s, j, p)[i]]
    <2>0. Inserted(s, j, p) \in [1 .. Len(s) + 1 -> Job]
      BY <1>1, InsertedIsASequence
    <2>1. \A i \in 1 .. Len(s) + 1 : Priority[Inserted(s, j, p)[i]] \in Int
      BY <2>0
    <2> QED
      BY <1>1, <2>1 DEF InOrder
  <1>2. /\ Inserted(s, j, p)[i] = IF i < p THEN s[i] ELSE IF i = p THEN j ELSE s[i - 1]
        /\ Inserted(s, j, p)[k] = IF k < p THEN s[k] ELSE IF k = p THEN j ELSE s[k - 1]
    BY DEF Inserted
  <1>3. /\ i < p => i \in 1 .. Len(s)
        /\ p < i => i - 1 \in 1 .. Len(s) /\ p <= i - 1
        /\ k < p => k \in 1 .. Len(s)
        /\ p < k => k - 1 \in 1 .. Len(s) /\ p <= k - 1
    BY <1>1
  <1>4. Priority[j] \in Int /\ \A m \in 1 .. Len(s) : s[m] \in Job /\ Priority[s[m]] \in Int
    OBVIOUS
  <1>5. CASE k < p
    BY <1>1, <1>2, <1>3, <1>5 DEF InOrder
  <1>6. CASE k = p
    BY <1>1, <1>2, <1>3, <1>6 DEF Behind
  <1>7. CASE p < k /\ i < p
    <2>1. i \in 1 .. Len(s) /\ k - 1 \in 1 .. Len(s) /\ i <= k - 1
      BY <1>1, <1>3, <1>7
    <2>2. Inserted(s, j, p)[i] = s[i] /\ Inserted(s, j, p)[k] = s[k - 1]
      BY <1>1, <1>2, <1>7
    <2> QED
      BY <2>1, <2>2 DEF InOrder
  <1>8. CASE p < k /\ i = p
    <2>1. Priority[s[k - 1]] < Priority[j]
      BY <1>3, <1>8 DEF Behind
    <2> QED
      BY <1>2, <1>3, <1>4, <1>8, <2>1
  <1>9. CASE p < k /\ p < i
    <2>1. i - 1 \in 1 .. Len(s) /\ k - 1 \in 1 .. Len(s) /\ i - 1 <= k - 1
      BY <1>3, <1>9
    <2>2. Inserted(s, j, p)[i] = s[i - 1] /\ Inserted(s, j, p)[k] = s[k - 1]
      BY <1>1, <1>2, <1>9
    <2> QED
      BY <2>1, <2>2 DEF InOrder
  <1> QED
    BY <1>1, <1>5, <1>6, <1>7, <1>8, <1>9

-----------------------------------------------------------------------------
Popping == {j \in Job : pc[j] = "pop"}
ToldNil == {j \in Job : answer[j] = "nil"}

QueueInv ==
    /\ jobs \in Seq(Job) /\ jobQueue \in Seq(Job) /\ taken \in Seq(Job)
    /\ pc \in [Job -> {"idle", "pop", "submit", "done"}]
    /\ popped \in [Job -> Job \cup {Urgency!NoJob}]
    /\ answer \in [Job -> {"none", "nil", "full"}]
    /\ InOrder(jobs)
    /\ \A i \in 1 .. Len(jobs) : pc[jobs[i]] # "idle"
    /\ \A j \in Job : pc[j] = "submit" => popped[j] \in Job
    /\ Len(jobs) = Cardinality(Popping)
    /\ Len(jobQueue) <= Cap
    /\ \A j \in Job : answer[j] = "nil" => pc[j] = "done"
    /\ Cardinality(ToldNil) = Len(taken) + Len(jobQueue)

QueueAssumption == IsFiniteSet(Job) /\ Priority \in [Job -> Int] /\ Cap \in Nat

LEMMA SubmittersAreFinite ==
    ASSUME IsFiniteSet(Job)
    PROVE  /\ IsFiniteSet(Popping) /\ Cardinality(Popping) \in Nat
           /\ IsFiniteSet(ToldNil) /\ Cardinality(ToldNil) \in Nat
           /\ Cardinality(Popping) <= Cardinality(Job) /\ Cardinality(ToldNil) <= Cardinality(Job)
           /\ Cardinality(Job) \in Nat
  <1>1. Popping \subseteq Job /\ ToldNil \subseteq Job
    BY DEF Popping, ToldNil
  <1> QED
    BY <1>1, FS_Subset, FS_CardinalityType

\* Push: the job stands behind those that are as urgent.
LEMMA PushInserts ==
    ASSUME QueueAssumption, QueueInv, NEW j \in Job, Urgency!Push(j)
    PROVE  \E p : Behind(jobs, j, p) /\ jobs' = Inserted(jobs, j, p)
  <1>1. jobs \in Seq(Job) /\ InOrder(jobs) /\ Priority \in [Job -> Int]
    BY DEF QueueInv, QueueAssumption
  <1>2. PICK p : Behind(jobs, j, p)
    BY <1>1, PlaceExists
  <1>3. jobs' = Inserted(jobs, j, p)
    BY <1>1, <1>2, SortInserts DEF Urgency!Push
  <1> QED
    BY <1>2, <1>3

LEMMA PushKeeps ==
    ASSUME QueueAssumption, QueueInv, NEW j \in Job, Urgency!Push(j)
    PROVE  QueueInv'
  <1>1. PICK p : Behind(jobs, j, p) /\ jobs' = Inserted(jobs, j, p)
    BY PushInserts
  <1>2. jobs \in Seq(Job) /\ InOrder(jobs) /\ Priority \in [Job -> Int] /\ p \in 1 .. Len(jobs) + 1
    BY <1>1 DEF QueueInv, QueueAssumption, Behind
  <1>3. jobs' \in Seq(Job) /\ Len(jobs') = Len(jobs) + 1 /\ InOrder(jobs')
    BY <1>1, <1>2, InsertedIsASequence, InsertedIsInOrder
  <1>4. /\ pc' = [pc EXCEPT ![j] = "pop"] /\ pc[j] = "idle"
        /\ UNCHANGED <<jobQueue, popped, answer, taken>>
    BY DEF Urgency!Push
  <1>5. Popping' = Popping \cup {j} /\ j \notin Popping
    BY <1>4 DEF Popping, QueueInv
  <1>6. Cardinality(Popping') = Cardinality(Popping) + 1
    BY <1>5, SubmittersAreFinite, FS_AddElement DEF QueueAssumption
  <1>7. ASSUME NEW i \in 1 .. Len(jobs') PROVE pc'[jobs'[i]] # "idle"
    <2>1. jobs'[i] = IF i < p THEN jobs[i] ELSE IF i = p THEN j ELSE jobs[i - 1]
      BY <1>1, <1>3, <1>7 DEF Inserted
    <2>2. /\ i < p => i \in 1 .. Len(jobs)
          /\ p < i => i - 1 \in 1 .. Len(jobs)
      BY <1>2, <1>3, <1>7
    <2>3. jobs'[i] \in Job
      BY <1>3, <1>7
    <2>4. jobs'[i] = j \/ pc[jobs'[i]] # "idle"
      BY <1>2, <1>3, <2>1, <2>2 DEF QueueInv
    <2> QED
      BY <1>4, <2>3, <2>4 DEF QueueInv
  <1>8. /\ pc' \in [Job -> {"idle", "pop", "submit", "done"}]
        /\ \A i \in Job : i # j => pc'[i] = pc[i]
        /\ pc'[j] = "pop"
    BY <1>4 DEF QueueInv
  <1>9. ToldNil' = ToldNil
    BY <1>4 DEF ToldNil
  <1> QED
    BY <1>3, <1>4, <1>6, <1>7, <1>8, <1>9 DEF QueueInv

LEMMA PopKeeps ==
    ASSUME QueueAssumption, QueueInv, NEW j \in Job, Urgency!Pop(j)
    PROVE  QueueInv'
  <1>1. pc[j] = "pop" /\ UNCHANGED <<jobQueue, taken>> /\ j \in Popping
    BY DEF Urgency!Pop, Popping
  <1>2. Cardinality(Popping \ {j}) = Cardinality(Popping) - 1
    BY <1>1, SubmittersAreFinite, FS_RemoveElement DEF QueueAssumption
  <1>3. jobs # <<>>
    <2>1. Cardinality(Popping) # 0
      BY <1>1, SubmittersAreFinite, FS_EmptySet DEF QueueAssumption
    <2> QED
      BY <2>1 DEF QueueInv
  <1>4. /\ popped' = [popped EXCEPT ![j] = Head(jobs)] /\ jobs' = Tail(jobs)
        /\ pc' = [pc EXCEPT ![j] = "submit"] /\ UNCHANGED answer
    BY <1>3 DEF Urgency!Pop, Urgency!RestOfJobs
  <1>5. /\ jobs \in Seq(Job) /\ Head(jobs) \in Job /\ jobs' \in Seq(Job) /\ Len(jobs') = Len(jobs) - 1
        /\ \A i \in 1 .. Len(jobs') : jobs'[i] = jobs[i + 1] /\ i + 1 \in 1 .. Len(jobs)
    BY <1>3, <1>4 DEF QueueInv
  <1>6. InOrder(jobs')
    <2> SUFFICES ASSUME NEW i \in 1 .. Len(jobs'), NEW k \in 1 .. Len(jobs'), i <= k
                 PROVE  Priority[jobs'[k]] <= Priority[jobs'[i]]
      BY DEF InOrder
    <2>1. i + 1 <= k + 1
      OBVIOUS
    <2> QED
      BY <1>5, <2>1 DEF QueueInv, InOrder
  <1>7. /\ pc' \in [Job -> {"idle", "pop", "submit", "done"}]
        /\ \A i \in Job : i # j => pc'[i] = pc[i]
        /\ pc'[j] = "submit"
        /\ popped' \in [Job -> Job \cup {Urgency!NoJob}]
        /\ popped'[j] \in Job /\ \A i \in Job : i # j => popped'[i] = popped[i]
    BY <1>4, <1>5 DEF QueueInv
  <1>8. ASSUME NEW i \in 1 .. Len(jobs') PROVE pc'[jobs'[i]] # "idle"
    <2>1. jobs'[i] \in Job /\ pc[jobs'[i]] # "idle"
      BY <1>5, <1>8 DEF QueueInv
    <2> QED
      BY <1>7, <2>1
  <1>9. Popping' = Popping \ {j} /\ ToldNil' = ToldNil
    BY <1>4, <1>7 DEF Popping, ToldNil
  <1>10. Len(jobs') = Cardinality(Popping')
    BY <1>2, <1>5, <1>9, SubmittersAreFinite DEF QueueInv, QueueAssumption
  <1>11. \A i \in Job : answer'[i] = "nil" => pc'[i] = "done"
    BY <1>1, <1>4, <1>7 DEF QueueInv
  <1> QED
    BY <1>1, <1>4, <1>5, <1>6, <1>7, <1>8, <1>9, <1>10, <1>11 DEF QueueInv

LEMMA SubmitOfPoppedKeeps ==
    ASSUME QueueAssumption, QueueInv, NEW j \in Job, Urgency!Submit(j)
    PROVE  QueueInv'
  <1>1. /\ pc[j] = "submit" /\ pc' = [pc EXCEPT ![j] = "done"]
        /\ UNCHANGED <<jobs, popped, taken>>
    BY DEF Urgency!Submit
  <1>2. popped[j] \in Job /\ answer[j] # "nil"
    BY <1>1 DEF QueueInv
  <1>3. /\ pc' \in [Job -> {"idle", "pop", "submit", "done"}]
        /\ \A i \in Job : i # j => pc'[i] = pc[i]
        /\ pc'[j] = "done"
    BY <1>1 DEF QueueInv
  <1>4. Popping' = Popping
    BY <1>1, <1>3 DEF Popping
  <1>5. \A i \in 1 .. Len(jobs) : jobs[i] \in Job /\ pc'[jobs[i]] # "idle"
    BY <1>3 DEF QueueInv
  <1>6. CASE Urgency!HasRoom
    <2>1. jobQueue' = Append(jobQueue, popped[j]) /\ answer' = [answer EXCEPT ![j] = "nil"]
      BY <1>6 DEF Urgency!Submit
    <2>2. jobQueue' \in Seq(Job) /\ Len(jobQueue') = Len(jobQueue) + 1 /\ Len(jobQueue') <= Cap
      BY <1>2, <1>6, <2>1 DEF QueueInv, QueueAssumption, Urgency!HasRoom
    <2>3. ToldNil' = ToldNil \cup {j} /\ j \notin ToldNil
      BY <1>2, <2>1 DEF QueueInv, ToldNil
    <2>4. Cardinality(ToldNil') = Cardinality(ToldNil) + 1
      BY <2>3, SubmittersAreFinite, FS_AddElement DEF QueueAssumption
    <2>5. Cardinality(ToldNil') = Len(taken') + Len(jobQueue')
      BY <1>1, <2>2, <2>4 DEF QueueInv
    <2>6. /\ answer' \in [Job -> {"none", "nil", "full"}]
          /\ \A i \in Job : answer'[i] = "nil" => pc'[i] = "done"
      BY <1>3, <2>1 DEF QueueInv
    <2> QED
      BY <1>1, <1>3, <1>4, <1>5, <2>2, <2>5, <2>6 DEF QueueInv
  <1>7. CASE ~Urgency!HasRoom
    <2>1. answer' = [answer EXCEPT ![j] = "full"] /\ UNCHANGED jobQueue
      BY <1>7 DEF Urgency!Submit, Urgency!PoolFull
    <2>2. ToldNil' = ToldNil
      BY <1>2, <2>1 DEF QueueInv, ToldNil
    <2>3. /\ answer' \in [Job -> {"none", "nil", "full"}]
          /\ \A i \in Job : answer'[i] = "nil" => pc'[i] = "done"
      BY <1>3, <2>1 DEF QueueInv
    <2> QED
      BY <1>1, <1>3, <1>4, <1>5, <2>1, <2>2, <2>3 DEF QueueInv
  <1> QED
    BY <1>6, <1>7

LEMMA QueueInductive == ASSUME QueueAssumption PROVE Urgency!Spec => []QueueInv
  <1>1. Urgency!Init => QueueInv
    <2> SUFFICES ASSUME Urgency!Init PROVE QueueInv
      OBVIOUS
    <2>1. Popping = {} /\ ToldNil = {} /\ Cardinality({}) = 0
      BY FS_EmptySet DEF Urgency!Init, Popping, ToldNil
    <2> QED
      BY <2>1 DEF Urgency!Init, QueueInv, QueueAssumption, InOrder
  <1>2. QueueInv /\ [Urgency!Next]_(Urgency!vars) => QueueInv'
    <2>1. ASSUME QueueInv, Urgency!Take PROVE QueueInv'
      <3>1. /\ jobQueue' \in Seq(Job) /\ taken' \in Seq(Job)
            /\ Len(taken') = Len(taken) + 1 /\ Len(jobQueue') = Len(jobQueue) - 1
        BY <2>1 DEF QueueInv, Urgency!Take
      <3>2. Len(jobQueue') <= Cap /\ Len(taken') + Len(jobQueue') = Len(taken) + Len(jobQueue)
        BY <2>1, <3>1 DEF QueueInv, QueueAssumption
      <3>3. UNCHANGED <<Popping, ToldNil, jobs, pc, popped, answer>>
        BY <2>1 DEF Urgency!Take, Popping, ToldNil
      <3> QED
        BY <2>1, <3>1, <3>2, <3>3 DEF QueueInv, InOrder
    <2>2. ASSUME QueueInv, UNCHANGED Urgency!vars PROVE QueueInv'
      BY <2>2 DEF Urgency!vars, QueueInv, InOrder, Popping, ToldNil
    <2> QED
      BY <2>1, <2>2, PushKeeps, PopKeeps, SubmitOfPoppedKeeps DEF Urgency!Next
  <1> QED
    BY <1>1, <1>2, PTL DEF Urgency!Spec

\* PriorityQueue and PriorityWorkerPool.Submit: the queue has as many jobs as there are
\* submitters that have pushed and not popped, so none of them pops an empty queue, and once
\* all calls are back the pool has or had as many jobs as submitters were told nil.
THEOREM UrgencySafety ==
    ASSUME QueueAssumption
    PROVE  Urgency!Spec => [](/\ Urgency!TypeOK /\ Urgency!PopsMatchPushes
                              /\ Urgency!DropsAreReported)
  <1>1. QueueInv => Urgency!TypeOK
    <2> SUFFICES ASSUME QueueInv PROVE Urgency!TypeOK
      OBVIOUS
    <2>1. ASSUME NEW s \in Seq(Job), NEW n \in Nat, Len(s) <= n PROVE s \in Urgency!BoundedSeq(Job, n)
      <3>1. s \in [1 .. Len(s) -> Job] /\ Len(s) \in 0 .. n
        BY <2>1
      <3> QED
        BY <3>1 DEF Urgency!BoundedSeq, Urgency!SeqOf
    <2>2. /\ Len(jobs) <= Cardinality(Job) /\ Len(taken) <= Cardinality(Job)
          /\ Cardinality(Job) \in Nat
      BY SubmittersAreFinite DEF QueueInv, QueueAssumption
    <2>3. /\ jobs \in Urgency!BoundedSeq(Job, Cardinality(Job))
          /\ taken \in Urgency!BoundedSeq(Job, Cardinality(Job))
          /\ jobQueue \in Urgency!BoundedSeq(Job, Cap)
      BY <2>1, <2>2 DEF QueueInv, QueueAssumption
    <2> QED
      BY <2>3 DEF Urgency!TypeOK, QueueInv, Urgency!Cardinality, Cardinality
  <1>2. QueueInv => Urgency!PopsMatchPushes /\ Urgency!DropsAreReported
    BY DEF QueueInv, Urgency!PopsMatchPushes, Urgency!DropsAreReported, Popping, ToldNil,
       Urgency!Cardinality, Cardinality
  <1> QED
    BY <1>1, <1>2, QueueInductive, PTL

\* PriorityQueue.Pop and sort: in whatever order pushes and pops come, what is popped is as
\* urgent as anything in the queue, and a pushed job stands behind those that are as urgent.
THEOREM MostUrgentFirst ==
    ASSUME QueueAssumption
    PROVE  Urgency!Spec => [][Urgency!FrontIsMostUrgent /\ Urgency!SortIsStable]_(Urgency!vars)
  <1>1. ASSUME QueueInv, Urgency!Next PROVE Urgency!FrontIsMostUrgent
    <2> SUFFICES ASSUME NEW j \in Job, pc[j] = "pop", pc'[j] = "submit", NEW k \in DOMAIN jobs
                 PROVE  Priority[jobs[k]] <= Priority[popped'[j]]
      BY DEF Urgency!FrontIsMostUrgent
    <2>1. Urgency!Pop(j) /\ jobs # <<>>
      BY <1>1 DEF QueueInv, Urgency!Next, Urgency!Push, Urgency!Pop, Urgency!Submit,
         Urgency!Take
    <2>2. popped'[j] = jobs[1]
      BY <1>1, <2>1 DEF QueueInv, Urgency!Pop
    <2>3. 1 \in 1 .. Len(jobs) /\ k \in 1 .. Len(jobs) /\ 1 <= k
      BY <1>1 DEF QueueInv
    <2> QED
      BY <1>1, <2>2, <2>3 DEF QueueInv, InOrder
  <1>2. ASSUME QueueInv, Urgency!Next PROVE Urgency!SortIsStable
    <2> SUFFICES ASSUME NEW j \in Job, pc[j] = "idle", pc'[j] = "pop",
                        NEW i \in DOMAIN jobs', NEW k \in DOMAIN jobs', i < k,
                        Priority[jobs'[i]] = Priority[jobs'[k]], jobs'[i] = j
                 PROVE  FALSE
      BY DEF Urgency!SortIsStable
    <2>1. Urgency!Push(j)
      BY <1>2 DEF QueueInv, Urgency!Next, Urgency!Push, Urgency!Pop, Urgency!Submit,
         Urgency!Take
    <2>2. PICK p : Behind(jobs, j, p) /\ jobs' = Inserted(jobs, j, p)
      BY <1>2, <2>1, PushInserts
    <2>3. /\ jobs \in Seq(Job) /\ p \in 1 .. Len(jobs) + 1 /\ i \in 1 .. Len(jobs) + 1
          /\ k \in 1 .. Len(jobs) + 1
      BY <1>2, <2>2 DEF QueueInv, Behind, Inserted
    <2>4. /\ jobs'[i] = IF i < p THEN jobs[i] ELSE IF i = p THEN j ELSE jobs[i - 1]
          /\ jobs'[k] = IF k < p THEN jobs[k] ELSE IF k = p THEN j ELSE jobs[k - 1]
      BY <2>2, <2>3 DEF Inserted
    <2>5. \A n \in 1 .. Len(jobs) : jobs[n] # j
      BY <1>2 DEF QueueInv
    <2>6. i = p
      <3>1. (i < p => i \in 1 .. Len(jobs)) /\ (p < i => i - 1 \in 1 .. Len(jobs))
        BY <2>3
      <3> QED
        BY <2>3, <2>4, <2>5, <3>1
    <2>7. k - 1 \in 1 .. Len(jobs) /\ p <= k - 1 /\ jobs'[k] = jobs[k - 1]
      BY <2>3, <2>4, <2>6
    <2>8. Priority[jobs[k - 1]] < Priority[j] /\ jobs[k - 1] \in Job
      BY <2>2, <2>3, <2>7 DEF Behind
    <2>9. Priority[jobs[k - 1]] \in Int /\ Priority[j] \in Int
      BY <2>8 DEF QueueAssumption
    <2> QED
      BY <2>7, <2>8, <2>9
  <1>3. QueueInv /\ [Urgency!Next]_(Urgency!vars) =>
           [Urgency!FrontIsMostUrgent /\ Urgency!SortIsStable]_(Urgency!vars)
    BY <1>1, <1>2
  <1> QED
    BY <1>3, QueueInductive, PTL DEF Urgency!Spec

-----------------------------------------------------------------------------
(***************************************************************************)
(* ServiceRegistry, for finitely many instances and any number of callers, *)
(* leases and faults.                                                      *)
(***************************************************************************)
CONSTANTS Instance, Watcher, NoInstance, NoKey, MaxLeases, MaxRemote, MaxFaults

VARIABLES key, live, granted, lease, keepers, cache, watch, call, stopped, raced, remote,
          faults

Registry == INSTANCE ServiceRegistry

\* What stands for no key is not the number of a lease.
RegistryAssumption ==
    /\ IsFiniteSet(Instance) /\ NoKey \notin Nat
    /\ MaxLeases \in Nat /\ MaxRemote \in Nat /\ MaxFaults \in Nat

\* An injection of as many numbers as a finite set has elements takes each of them.
LEMMA InjectionTakesAll ==
    ASSUME NEW S, IsFiniteSet(S), NEW f \in [1 .. Cardinality(S) -> S],
           \A a, b \in DOMAIN f : f[a] = f[b] => a = b
    PROVE  f \in Seq(S) /\ \A x \in S : \E i \in DOMAIN f : f[i] = x
  <1>1. Cardinality(S) \in Nat
    BY FS_CardinalityType
  <1>2. f \in Injection(1 .. Cardinality(S), S)
    BY DEF Injection, IsInjective
  <1>3. /\ IsFiniteSet(1 .. Cardinality(S))
        /\ Cardinality(1 .. Cardinality(S)) = Cardinality(S)
    BY <1>1, FS_Interval
  <1>4. f \in Surjection(1 .. Cardinality(S), S)
    BY <1>2, <1>3, FS_Injection
  <1>5. \A x \in S : \E i \in DOMAIN f : f[i] = x
    BY <1>4 DEF Surjection
  <1>6. f \in Seq(S)
    BY <1>1
  <1> QED
    BY <1>5, <1>6

\* A finite set as a sequence, which SetToSeq chooses.
ListingOf(S) ==
    CHOOSE g \in [1 .. Cardinality(S) -> S] : \A a, b \in DOMAIN g : g[a] = g[b] => a = b

LEMMA ListOfSet ==
    ASSUME NEW S, IsFiniteSet(S)
    PROVE  /\ ListingOf(S) \in Seq(S)
           /\ \A x \in S : \E i \in DOMAIN ListingOf(S) : ListingOf(S)[i] = x
           /\ \A i, j \in DOMAIN ListingOf(S) : ListingOf(S)[i] = ListingOf(S)[j] => i = j
  <1> DEFINE f == ListingOf(S)
  <1>1. PICK g \in Bijection(1 .. Cardinality(S), S) : TRUE
    BY FS_NatBijection, FS_CardinalityType DEF ExistsBijection
  <1>2. g \in [1 .. Cardinality(S) -> S] /\ \A a, b \in DOMAIN g : g[a] = g[b] => a = b
    BY <1>1 DEF Bijection, Injection, IsInjective
  <1>3. f \in [1 .. Cardinality(S) -> S] /\ \A a, b \in DOMAIN f : f[a] = f[b] => a = b
    BY <1>2 DEF ListingOf
  <1> HIDE DEF f
  <1>4. f \in Seq(S) /\ \A x \in S : \E i \in DOMAIN f : f[i] = x
    BY <1>3, InjectionTakesAll
  <1> QED
    BY <1>3, <1>4 DEF f

\* The first of the places that a set names.
LEMMA FirstPlace ==
    ASSUME NEW n \in Nat, NEW P, P \subseteq 1 .. n, P # {}
    PROVE  \E p \in P : \A k \in 1 .. p - 1 : k \notin P
  <1>1. P \subseteq Nat
    OBVIOUS
  <1>2. PICK p \in P : \A k \in P : p <= k
    BY <1>1, LeastNumber
  <1>3. ASSUME NEW k \in 1 .. p - 1 PROVE k \notin P
    BY <1>1, <1>2
  <1> QED
    BY <1>3

\* A sequence without the element at p.
Shortened(s, p) == SubSeq(s, 1, p - 1) \o SubSeq(s, p + 1, Len(s))

LEMMA OneRemoved ==
    ASSUME NEW S, NEW s \in Seq(S), NEW p \in 1 .. Len(s)
    PROVE  /\ Shortened(s, p) \in Seq(S) /\ Len(Shortened(s, p)) = Len(s) - 1
           /\ \A i \in 1 .. Len(s) - 1 :
                 Shortened(s, p)[i] = IF i < p THEN s[i] ELSE s[i + 1]
  <1> DEFINE t == Shortened(s, p)
             before == SubSeq(s, 1, p - 1)
             after == SubSeq(s, p + 1, Len(s))
  <1>1. Len(s) \in Nat /\ p \in Nat
    OBVIOUS
  <1>2. /\ before \in Seq(S) /\ Len(before) = p - 1
        /\ \A i \in 1 .. p - 1 : before[i] = s[i]
    <2>1. \A i \in 1 .. p - 1 : s[i] \in S
      BY <1>1
    <2>2. /\ before \in Seq(S)
          /\ Len(before) = IF 1 <= p - 1 THEN (p - 1) - 1 + 1 ELSE 0
          /\ \A i \in 1 .. (p - 1) - 1 + 1 : before[i] = s[1 + i - 1]
      BY <1>1, <2>1, SubSeqProperties
    <2> HIDE DEF before
    <2> QED
      BY <1>1, <2>2
  <1>3. /\ after \in Seq(S) /\ Len(after) = Len(s) - p
        /\ \A i \in 1 .. Len(s) - p : after[i] = s[p + i]
    <2>1. \A i \in p + 1 .. Len(s) : s[i] \in S
      BY <1>1
    <2>2. /\ after \in Seq(S)
          /\ Len(after) = IF p + 1 <= Len(s) THEN Len(s) - (p + 1) + 1 ELSE 0
          /\ \A i \in 1 .. Len(s) - (p + 1) + 1 : after[i] = s[(p + 1) + i - 1]
      BY <1>1, <2>1, SubSeqProperties
    <2> HIDE DEF after
    <2> QED
      BY <1>1, <2>2
  <1>4. t = before \o after
    BY DEF Shortened
  <1> HIDE DEF before, after, t
  <1>5. /\ t \in Seq(S) /\ Len(t) = Len(before) + Len(after)
        /\ \A i \in 1 .. Len(before) + Len(after) :
              t[i] = IF i <= Len(before) THEN before[i] ELSE after[i - Len(before)]
    BY <1>2, <1>3, <1>4, ConcatProperties
  <1>6. Len(t) = Len(s) - 1
    BY <1>1, <1>2, <1>3, <1>5
  <1>7. ASSUME NEW i \in 1 .. Len(s) - 1
        PROVE  t[i] = IF i < p THEN s[i] ELSE s[i + 1]
    <2>1. t[i] = IF i <= p - 1 THEN before[i] ELSE after[i - (p - 1)]
      BY <1>1, <1>2, <1>3, <1>5
    <2>2. CASE i < p
      BY <1>1, <1>2, <2>1, <2>2
    <2>3. CASE i >= p
      <3>1. i - (p - 1) \in 1 .. Len(s) - p /\ p + (i - (p - 1)) = i + 1
        BY <1>1, <2>3
      <3>2. after[i - (p - 1)] = s[i + 1]
        BY <1>3, <3>1
      <3> QED
        BY <1>1, <2>1, <2>3, <3>2
    <2> QED
      BY <1>1, <2>2, <2>3
  <1> QED
    BY <1>5, <1>6, <1>7 DEF t

RegistryPoint == {"idle", "set", "put", "append", "forget", "store"}
RegistryEvent == [type : {"put", "delete"}, of : Instance]
RegistryWatch == [on : BOOLEAN, queue : Seq(RegistryEvent), seen : SUBSET Instance]
RegistryCall == [pc : RegistryPoint, of : Instance \cup {NoInstance}, lease : Nat,
                 got : Seq(Instance)]

RegistryTypes ==
    /\ key \in [Instance -> {NoKey} \cup Nat] /\ granted \in Nat /\ lease \in Nat
    /\ cache \in [known : BOOLEAN, list : Seq(Instance)]
    /\ watch \in [Watcher -> RegistryWatch]
    /\ call \in [Caller -> RegistryCall] /\ stopped \in BOOLEAN
    /\ \A c \in Caller : call[c].pc \notin {"idle", "store"} => call[c].of \in Instance

\* No key hangs on the lease of a Put to come, nor on one that is still to be granted, and no
\* two calls have the same.
Holding == {"set", "put"}

LeaseInv ==
    /\ \A i \in Instance : key[i] # NoKey => key[i] <= granted
    /\ \A c \in Caller : call[c].pc \in Holding =>
          /\ call[c].lease \in 1 .. granted
          /\ \A i \in Instance : key[i] # call[c].lease
          /\ \A d \in Caller \ {c} : call[d].pc \in Holding => call[d].lease # call[c].lease

\* The event of i is still to be handled by v; i is in the cache, and no call is about to write
\* it away.
Announced(v, i) ==
    \E n \in DOMAIN watch[v].queue : watch[v].queue[n] = [type |-> "put", of |-> i]
Kept(i) == i \in Registry!Range(cache.list) /\ ~Registry!Overtaken(i)

SeenInv ==
    /\ ~cache.known => cache.list = <<>>
    /\ \A v \in Watcher :
          /\ ~watch[v].on /\ ~stopped => watch[v].seen = {}
          /\ stopped => ~watch[v].on
          /\ watch[v].on => \A i \in watch[v].seen \ raced :
                                key[i] # NoKey => Announced(v, i) \/ Kept(i)

RegistryInv == RegistryTypes /\ LeaseInv /\ SeenInv

\* A queue with one more event has the events it had, and the new one.
LEMMA EventComes ==
    ASSUME RegistryInv, NEW i \in Instance, NEW k \in {NoKey} \cup Nat, Registry!Change(i, k)
    PROVE  /\ watch' \in [Watcher -> RegistryWatch]
           /\ key' = [key EXCEPT ![i] = k] /\ key' \in [Instance -> {NoKey} \cup Nat]
           /\ \A v \in Watcher :
                 /\ watch'[v].on = watch[v].on
                 /\ \A x \in Instance : Announced(v, x) => Announced(v, x)'
                 /\ watch[v].on /\ k # key[i] /\ k # NoKey => Announced(v, i)'
                 /\ watch'[v].seen = IF watch[v].on /\ k # key[i] /\ k # NoKey
                                     THEN watch[v].seen \cup {i} ELSE watch[v].seen
  <1> DEFINE event == [type |-> IF k = NoKey THEN "delete" ELSE "put", of |-> i]
             queue2(v) == Append(watch[v].queue, event)
             seen2(v) == IF k = NoKey THEN watch[v].seen ELSE watch[v].seen \cup {i}
             heard(v) == watch[v].on /\ k # key[i]
  <1>1. /\ key \in [Instance -> {NoKey} \cup Nat]
        /\ watch \in [Watcher -> RegistryWatch]
    BY DEF RegistryInv, RegistryTypes
  <1>2. event \in RegistryEvent /\ (k # NoKey => event = [type |-> "put", of |-> i])
    BY DEF RegistryEvent
  <1>3. key' = [key EXCEPT ![i] = k] /\ key' \in [Instance -> {NoKey} \cup Nat]
    BY <1>1 DEF Registry!Change
  <1>4. watch' = [v \in Watcher |-> IF heard(v)
                                   THEN [watch[v] EXCEPT !.queue = queue2(v), !.seen = seen2(v)]
                                   ELSE watch[v]]
    BY DEF Registry!Change
  <1> HIDE DEF event
  <1>5. ASSUME NEW v \in Watcher
        PROVE  /\ watch'[v] \in RegistryWatch /\ watch'[v].on = watch[v].on
               /\ \A x \in Instance : Announced(v, x) => Announced(v, x)'
               /\ watch[v].on /\ k # key[i] /\ k # NoKey => Announced(v, i)'
               /\ watch'[v].seen = IF watch[v].on /\ k # key[i] /\ k # NoKey
                                   THEN watch[v].seen \cup {i} ELSE watch[v].seen
    <2> DEFINE q == watch[v].queue
    <2>1. watch[v] \in RegistryWatch /\ q \in Seq(RegistryEvent)
      BY <1>1 DEF RegistryWatch
    <2>2. /\ queue2(v) \in Seq(RegistryEvent) /\ Len(queue2(v)) = Len(q) + 1
          /\ \A n \in 1 .. Len(q) : queue2(v)[n] = q[n]
          /\ queue2(v)[Len(q) + 1] = event
      BY <1>2, <2>1, AppendProperties
    <2>3. Len(q) \in Nat /\ DOMAIN q = 1 .. Len(q) /\ DOMAIN queue2(v) = 1 .. Len(q) + 1
      BY <2>1, <2>2
    <2>4. seen2(v) \in SUBSET Instance
      BY <2>1 DEF RegistryWatch
    <2>5. CASE heard(v)
      <3> HIDE DEF queue2, seen2
      <3>1. /\ watch'[v].queue = queue2(v) /\ watch'[v].on = watch[v].on
            /\ watch'[v].seen = seen2(v) /\ watch'[v] \in RegistryWatch
        BY <1>4, <2>1, <2>2, <2>4, <2>5 DEF RegistryWatch
      <3>2. ASSUME NEW x \in Instance, Announced(v, x) PROVE Announced(v, x)'
        <4>1. PICK n \in 1 .. Len(q) : q[n] = [type |-> "put", of |-> x]
          BY <2>3, <3>2 DEF Announced
        <4>2. n \in DOMAIN queue2(v) /\ queue2(v)[n] = [type |-> "put", of |-> x]
          BY <2>2, <2>3, <4>1
        <4> QED
          BY <3>1, <4>2 DEF Announced
      <3>3. k # NoKey => Announced(v, i)'
        <4>1. Len(q) + 1 \in DOMAIN queue2(v)
          BY <2>3
        <4> QED
          BY <1>2, <2>2, <3>1, <4>1 DEF Announced
      <3> QED
        BY <2>5, <3>1, <3>2, <3>3 DEF seen2
    <2>6. CASE ~heard(v)
      <3>1. watch'[v] = watch[v]
        BY <1>4, <2>6
      <3> QED
        BY <2>1, <2>6, <3>1 DEF Announced
    <2> QED
      BY <2>5, <2>6
  <1>6. watch' \in [Watcher -> RegistryWatch]
    BY <1>4, <1>5
  <1> QED
    BY <1>3, <1>5, <1>6

\* What is kept stays so when the list loses nothing but what a call was about to forget, and
\* the calls under way become no more.
LEMMA KeptStays ==
    ASSUME NEW i, Kept(i), i \in Registry!Range(cache'.list),
           \A c \in Caller :
              \/ call'[c].pc \notin {"store", "forget"} \/ call'[c] = call[c]
              \/ call'[c].pc = "store" /\ i \in Registry!Range(call'[c].got)
              \/ call'[c].pc = "forget" /\ call'[c].of # i
    PROVE  Kept(i)'
  <1>1. ASSUME NEW c \in Caller,
               \/ call'[c].pc = "store" /\ i \notin Registry!Range(call'[c].got)
               \/ call'[c].pc = "forget" /\ call'[c].of = i
        PROVE  FALSE
    BY <1>1 DEF Kept, Registry!Overtaken
  <1> QED
    BY <1>1 DEF Kept, Registry!Overtaken, Registry!Range

\* A step of one caller.
LEMMA RegistryCallMoves ==
    ASSUME RegistryTypes, NEW c \in Caller, NEW entry \in RegistryCall,
           entry.pc \notin {"idle", "store"} => entry.of \in Instance,
           call' = [call EXCEPT ![c] = entry]
    PROVE  /\ call' \in [Caller -> RegistryCall] /\ call'[c] = entry
           /\ \A d \in Caller \ {c} : call'[d] = call[d]
           /\ \A d \in Caller : call'[d].pc \notin {"idle", "store"} => call'[d].of \in Instance
  BY DEF RegistryTypes

\* The steps of a call that change no key and write nothing to the cache.
LEMMA GrantKeeps ==
    ASSUME RegistryAssumption, RegistryInv, NEW c \in Caller, Registry!Grant(c)
    PROVE  RegistryInv'
  <1>1. PICK i \in Instance :
           call' = [call EXCEPT ![c] = [Registry!Idle EXCEPT !.pc = "set", !.of = i,
                                                             !.lease = granted + 1]]
    BY DEF Registry!Grant
  <1> DEFINE entry == [Registry!Idle EXCEPT !.pc = "set", !.of = i, !.lease = granted + 1]
  <1>2. /\ entry \in RegistryCall /\ call' = [call EXCEPT ![c] = entry]
        /\ entry.pc = "set" /\ entry.of = i /\ entry.lease = granted + 1
    <2>1. <<>> \in Seq(Instance) /\ granted + 1 \in Nat
      BY DEF RegistryInv, RegistryTypes
    <2> QED
      BY <1>1, <2>1 DEF RegistryCall, RegistryPoint, Registry!Idle
  <1>3. /\ granted' = granted + 1 /\ granted \in Nat
        /\ UNCHANGED <<key, lease, cache, watch, stopped, raced>>
    BY DEF Registry!Grant, RegistryInv, RegistryTypes
  <1>4. entry.pc = "set" /\ entry.of = i /\ entry.lease = granted + 1
    BY <1>2
  <1> HIDE DEF entry
  <1>5. /\ call' \in [Caller -> RegistryCall] /\ call'[c] = entry
        /\ \A d \in Caller \ {c} : call'[d] = call[d]
        /\ \A d \in Caller : call'[d].pc \notin {"idle", "store"} => call'[d].of \in Instance
    BY <1>2, <1>4, RegistryCallMoves DEF RegistryInv
  <1>6. RegistryTypes'
    BY <1>3, <1>5 DEF RegistryInv, RegistryTypes
  <1>7. LeaseInv'
    <2>1. \A x \in Instance : key[x] # NoKey => key[x] <= granted /\ key[x] \in Nat
      BY DEF RegistryInv, RegistryTypes, LeaseInv
    <2>2. \A x \in Instance : key'[x] # NoKey => key'[x] <= granted'
      BY <1>3, <2>1
    <2>3. ASSUME NEW d \in Caller, call'[d].pc \in Holding
          PROVE  /\ call'[d].lease \in 1 .. granted'
                 /\ \A x \in Instance : key'[x] # call'[d].lease
                 /\ d # c => call'[d].lease <= granted
      <3>1. CASE d = c
        BY <1>3, <1>4, <1>5, <2>1, <3>1 DEF RegistryAssumption, Holding
      <3>2. CASE d # c
        BY <1>3, <1>5, <2>3, <3>2 DEF RegistryInv, LeaseInv
      <3> QED
        BY <3>1, <3>2
    <2>4. ASSUME NEW d \in Caller, call'[d].pc \in Holding, NEW e \in Caller \ {d}, call'[e].pc \in Holding
          PROVE  call'[e].lease # call'[d].lease
      <3>1. CASE d # c /\ e # c
        BY <1>5, <2>4, <3>1 DEF RegistryInv, LeaseInv
      <3>2. CASE d = c
        <4>1. call'[e].lease <= granted /\ call'[e].lease \in Nat
          BY <1>3, <2>3, <2>4, <3>2
        <4> QED
          BY <1>3, <1>4, <1>5, <3>2, <4>1
      <3>3. CASE e = c
        <4>1. call'[d].lease <= granted /\ call'[d].lease \in Nat
          BY <1>3, <2>3, <2>4, <3>3
        <4> QED
          BY <1>3, <1>4, <1>5, <3>3, <4>1
      <3> QED
        BY <3>1, <3>2, <3>3
    <2> QED
      BY <2>2, <2>3, <2>4 DEF LeaseInv
  <1>8. ASSUME NEW x, Kept(x) PROVE Kept(x)'
    BY <1>3, <1>4, <1>5, <1>8, KeptStays DEF Kept
  <1>9. SeenInv'
    BY <1>3, <1>8 DEF RegistryInv, SeenInv, Announced
  <1> QED
    BY <1>6, <1>7, <1>9 DEF RegistryInv

LEMMA SetLeaseKeeps ==
    ASSUME RegistryInv, NEW c \in Caller, Registry!SetLease(c)
    PROVE  RegistryInv'
  <1> DEFINE entry == [call[c] EXCEPT !.pc = "put"]
  <1>1. /\ call[c] \in RegistryCall /\ call[c].pc = "set" /\ call[c].of \in Instance
        /\ lease' = call[c].lease /\ call' = [call EXCEPT ![c] = entry]
        /\ UNCHANGED <<key, granted, cache, watch, stopped, raced>>
    BY DEF Registry!SetLease, RegistryInv, RegistryTypes
  <1>2. /\ entry \in RegistryCall /\ entry.pc = "put" /\ entry.of \in Instance
        /\ entry.lease = call[c].lease /\ lease' \in Nat
    BY <1>1 DEF RegistryCall, RegistryPoint
  <1> HIDE DEF entry
  <1>3. /\ call' \in [Caller -> RegistryCall] /\ call'[c] = entry
        /\ \A d \in Caller \ {c} : call'[d] = call[d]
        /\ \A d \in Caller : call'[d].pc \notin {"idle", "store"} => call'[d].of \in Instance
    BY <1>1, <1>2, RegistryCallMoves DEF RegistryInv
  <1>4. RegistryTypes'
    BY <1>1, <1>2, <1>3 DEF RegistryInv, RegistryTypes
  <1>5. \A d \in Caller : /\ call'[d].lease = call[d].lease
                          /\ call'[d].pc \in Holding <=> call[d].pc \in Holding
    BY <1>1, <1>2, <1>3 DEF Holding
  <1>6. LeaseInv'
    BY <1>1, <1>5 DEF RegistryInv, LeaseInv
  <1>7. ASSUME NEW x, Kept(x) PROVE Kept(x)'
    BY <1>1, <1>2, <1>3, <1>7, KeptStays DEF Kept
  <1>8. SeenInv'
    BY <1>1, <1>7 DEF RegistryInv, SeenInv, Announced
  <1> QED
    BY <1>4, <1>6, <1>8 DEF RegistryInv

\* A call that ends, or comes to a point behind Put: the leases are those of fewer calls.
LEMMA LeasesStay ==
    ASSUME RegistryInv, NEW c \in Caller, granted' = granted, key' = key,
           call'[c].pc \notin Holding, \A d \in Caller \ {c} : call'[d] = call[d]
    PROVE  LeaseInv'
  BY DEF RegistryInv, LeaseInv

\* The call of Put: after Stop, or when its lease has ended, it fails.
LEMMA PutKeeps ==
    ASSUME RegistryAssumption, RegistryInv, NEW c \in Caller, Registry!Put(c)
    PROVE  RegistryInv'
  <1>1. /\ call[c] \in RegistryCall /\ call[c].pc = "put" /\ call[c].of \in Instance
        /\ call[c].lease \in Nat /\ call[c].lease \in 1 .. granted /\ granted \in Nat
        /\ \A x \in Instance : key[x] # call[c].lease
    BY DEF Registry!Put, RegistryInv, RegistryTypes, LeaseInv, RegistryCall, Holding
  <1>2. UNCHANGED <<granted, lease, cache, stopped, raced>>
    BY DEF Registry!Put
  <1>3. CASE stopped \/ call[c].lease \notin live
    <2>1. call' = [call EXCEPT ![c] = Registry!Idle] /\ UNCHANGED <<key, watch>>
      BY <1>3 DEF Registry!Put
    <2>2. Registry!Idle \in RegistryCall /\ Registry!Idle.pc = "idle"
      <3>1. <<>> \in Seq(Instance)
        OBVIOUS
      <3> QED
        BY <3>1 DEF Registry!Idle, RegistryCall, RegistryPoint
    <2>3. /\ call' \in [Caller -> RegistryCall] /\ call'[c] = Registry!Idle
          /\ \A d \in Caller \ {c} : call'[d] = call[d]
          /\ \A d \in Caller : call'[d].pc \notin {"idle", "store"} => call'[d].of \in Instance
      BY <2>1, <2>2, RegistryCallMoves DEF RegistryInv
    <2>4. RegistryTypes'
      BY <1>2, <2>1, <2>3 DEF RegistryInv, RegistryTypes
    <2>5. LeaseInv'
      BY <1>2, <2>1, <2>2, <2>3, LeasesStay DEF Holding
    <2>6. ASSUME NEW x, Kept(x) PROVE Kept(x)'
      BY <1>2, <2>2, <2>3, <2>6, KeptStays DEF Kept
    <2>7. SeenInv'
      BY <1>2, <2>1, <2>6 DEF RegistryInv, SeenInv, Announced
    <2> QED
      BY <2>4, <2>5, <2>7 DEF RegistryInv
  <1>4. CASE ~(stopped \/ call[c].lease \notin live)
    <2>0. PICK i \in Instance, k \in Nat : i = call[c].of /\ k = call[c].lease
      BY <1>1
    <2> DEFINE entry == [call[c] EXCEPT !.pc = "append"]
    <2>1. /\ Registry!Change(i, k)
          /\ call' = [call EXCEPT ![c] = entry]
      BY <1>1, <1>4, <2>0 DEF Registry!Put, RegistryInv, RegistryTypes
    <2>2. entry \in RegistryCall /\ entry.pc = "append" /\ entry.of \in Instance
      BY <1>1 DEF RegistryCall, RegistryPoint
    <2> HIDE DEF entry
    <2>3. /\ call' \in [Caller -> RegistryCall] /\ call'[c] = entry
          /\ \A d \in Caller \ {c} : call'[d] = call[d]
          /\ \A d \in Caller : call'[d].pc \notin {"idle", "store"} => call'[d].of \in Instance
      BY <2>1, <2>2, RegistryCallMoves DEF RegistryInv
    <2>4. /\ i \in Instance /\ k \in {NoKey} \cup Nat /\ k # key[i] /\ k # NoKey
      BY <1>1, <2>0 DEF RegistryAssumption
    <2>5. /\ watch' \in [Watcher -> RegistryWatch]
          /\ key' = [key EXCEPT ![i] = k] /\ key' \in [Instance -> {NoKey} \cup Nat]
          /\ \A v \in Watcher :
                /\ watch'[v].on = watch[v].on
                /\ \A x \in Instance : Announced(v, x) => Announced(v, x)'
                /\ watch[v].on => Announced(v, i)'
                /\ watch'[v].seen = IF watch[v].on THEN watch[v].seen \cup {i} ELSE watch[v].seen
      BY <2>1, <2>4, EventComes
    <2>6. RegistryTypes'
      BY <1>2, <2>3, <2>4, <2>5 DEF RegistryInv, RegistryTypes
    <2>7. \A x \in Instance : key'[x] = IF x = i THEN k ELSE key[x]
      BY <2>4, <2>5 DEF RegistryInv, RegistryTypes
    <2>8. LeaseInv'
      <3>1. \A x \in Instance : key'[x] # NoKey => key'[x] <= granted'
        BY <1>1, <1>2, <2>0, <2>7 DEF RegistryInv, LeaseInv
      <3>2. ASSUME NEW d \in Caller, call'[d].pc \in Holding
            PROVE  /\ call'[d].lease \in 1 .. granted'
                   /\ \A x \in Instance : key'[x] # call'[d].lease
                   /\ \A e \in Caller \ {d} :
                         call'[e].pc \in Holding => call'[e].lease # call'[d].lease
        <4>1. d # c /\ call'[d] = call[d]
          BY <2>2, <2>3, <3>2 DEF Holding
        <4>2. /\ call[d].lease \in 1 .. granted /\ call[d].lease # k
              /\ \A x \in Instance : key[x] # call[d].lease
          BY <1>1, <2>0, <3>2, <4>1 DEF RegistryInv, LeaseInv, Holding
        <4>3. \A e \in Caller \ {d} :
                 call'[e].pc \in Holding => call'[e].lease # call'[d].lease
          BY <2>2, <2>3, <3>2, <4>1 DEF RegistryInv, LeaseInv, Holding
        <4> QED
          BY <1>2, <2>7, <4>1, <4>2, <4>3
      <3> QED
        BY <3>1, <3>2 DEF LeaseInv
    <2>9. ASSUME NEW x, Kept(x) PROVE Kept(x)'
      BY <1>2, <2>2, <2>3, <2>9, KeptStays DEF Kept
    <2>10. ASSUME NEW v \in Watcher, watch'[v].on, NEW x \in watch'[v].seen \ raced',
                  key'[x] # NoKey
           PROVE  Announced(v, x)' \/ Kept(x)'
      <3>1. CASE x = i
        BY <2>5, <2>10, <3>1
      <3>2. CASE x # i /\ x \in Instance
        BY <1>2, <2>5, <2>7, <2>9, <2>10, <3>2, ZenonT(60) DEF RegistryInv, SeenInv
      <3> QED
        BY <2>6, <2>10, <3>1, <3>2 DEF RegistryTypes, RegistryWatch
    <2>11. SeenInv'
      BY <1>2, <2>5, <2>10 DEF RegistryInv, SeenInv
    <2> QED
      BY <2>6, <2>8, <2>11 DEF RegistryInv
  <1> QED
    BY <1>3, <1>4

\* The last step of a call, which writes to the cache and loses nothing that is kept.
LEMMA CallEnds ==
    ASSUME RegistryInv, NEW c \in Caller, call' = [call EXCEPT ![c] = Registry!Idle],
           UNCHANGED <<key, granted, lease, watch, stopped, raced>>,
           cache' \in [known : BOOLEAN, list : Seq(Instance)],
           ~cache'.known => cache'.list = <<>>,
           \A x \in Instance : Kept(x) => x \in Registry!Range(cache'.list)
    PROVE  RegistryInv'
  <1>1. Registry!Idle \in RegistryCall /\ Registry!Idle.pc = "idle"
    <2>1. <<>> \in Seq(Instance)
      OBVIOUS
    <2> QED
      BY <2>1 DEF Registry!Idle, RegistryCall, RegistryPoint
  <1>2. /\ call' \in [Caller -> RegistryCall] /\ call'[c] = Registry!Idle
        /\ \A d \in Caller \ {c} : call'[d] = call[d]
        /\ \A d \in Caller : call'[d].pc \notin {"idle", "store"} => call'[d].of \in Instance
    BY <1>1, RegistryCallMoves DEF RegistryInv
  <1>3. RegistryTypes'
    BY <1>2 DEF RegistryInv, RegistryTypes
  <1>4. LeaseInv'
    BY <1>1, <1>2, LeasesStay DEF Holding
  <1>5. ASSUME NEW x \in Instance, Kept(x) PROVE Kept(x)'
    BY <1>1, <1>2, <1>5, KeptStays
  <1>6. SeenInv'
    <2>1. ASSUME NEW v \in Watcher, watch[v].on, NEW x \in watch[v].seen \ raced, key[x] # NoKey
          PROVE  Announced(v, x)' \/ Kept(x)'
      <3>1. x \in Instance
        BY DEF RegistryInv, RegistryTypes, RegistryWatch
      <3>2. Announced(v, x) \/ Kept(x)
        BY <2>1 DEF RegistryInv, SeenInv
      <3> QED
        BY <1>5, <3>1, <3>2 DEF Announced
    <2> QED
      BY <2>1 DEF RegistryInv, SeenInv
  <1> QED
    BY <1>3, <1>4, <1>6 DEF RegistryInv

LEMMA CacheAppendKeeps ==
    ASSUME RegistryInv, NEW c \in Caller, Registry!CacheAppend(c)
    PROVE  RegistryInv'
  <1>1. /\ cache.list \in Seq(Instance) /\ call[c].of \in Instance
        /\ call[c].pc = "append"
    BY DEF Registry!CacheAppend, RegistryInv, RegistryTypes
  <1>2. /\ cache' = [known |-> TRUE, list |-> Append(cache.list, call[c].of)]
        /\ call' = [call EXCEPT ![c] = Registry!Idle]
        /\ UNCHANGED <<key, granted, lease, watch, stopped, raced>>
    BY DEF Registry!CacheAppend
  <1>3. /\ Append(cache.list, call[c].of) \in Seq(Instance)
        /\ Registry!Range(cache.list) \subseteq Registry!Range(Append(cache.list, call[c].of))
    <2>1. /\ Append(cache.list, call[c].of) \in Seq(Instance)
          /\ Len(Append(cache.list, call[c].of)) = Len(cache.list) + 1
          /\ \A n \in 1 .. Len(cache.list) : Append(cache.list, call[c].of)[n] = cache.list[n]
      BY <1>1, AppendProperties
    <2>2. Len(cache.list) \in Nat
      BY <1>1
    <2> QED
      BY <1>1, <2>1, <2>2 DEF Registry!Range
  <1>4. cache' \in [known : BOOLEAN, list : Seq(Instance)] /\ cache'.known
        /\ \A x \in Instance : Kept(x) => x \in Registry!Range(cache'.list)
    BY <1>2, <1>3 DEF Kept
  <1> QED
    BY <1>2, <1>4, CallEnds

LEMMA CacheForgetKeeps ==
    ASSUME RegistryInv, NEW c \in Caller, Registry!CacheForget(c)
    PROVE  RegistryInv'
  <1>1. /\ cache \in [known : BOOLEAN, list : Seq(Instance)] /\ call[c].of \in Instance
        /\ call[c].pc = "forget"
        /\ ~cache.known => cache.list = <<>>
    BY DEF Registry!CacheForget, RegistryInv, RegistryTypes, SeenInv
  <1>2. PICK entries \in Seq(Instance), i \in Instance : entries = cache.list /\ i = call[c].of
    BY <1>1
  <1>3. /\ cache' = [cache EXCEPT !.list = Registry!Without(entries, i)]
        /\ call' = [call EXCEPT ![c] = Registry!Idle]
        /\ UNCHANGED <<key, granted, lease, watch, stopped, raced>>
    BY <1>2 DEF Registry!CacheForget
  <1>4. ASSUME NEW x, Kept(x) PROVE x # i
    <2>1. Registry!Overtaken(i)
      BY <1>1, <1>2 DEF Registry!Overtaken
    <2> QED
      BY <1>4, <2>1 DEF Kept
  <1>5. /\ Registry!Without(entries, i) \in Seq(Instance)
        /\ entries = <<>> => Registry!Without(entries, i) = <<>>
        /\ \A x \in Registry!Range(entries) \ {i} :
              x \in Registry!Range(Registry!Without(entries, i))
    <2>1. entries \in Seq(Instance) /\ Len(entries) \in Nat /\ DOMAIN entries = 1 .. Len(entries)
      BY <1>1, <1>2
    <2>2. CASE i \notin Registry!Range(entries)
      BY <2>1, <2>2 DEF Registry!Without
    <2>3. CASE i \in Registry!Range(entries)
      <3>1. \E j \in DOMAIN entries : entries[j] = i /\ \A k \in 1 .. j - 1 : entries[k] # i
        <4> DEFINE places == {j \in DOMAIN entries : entries[j] = i}
        <4>1. places \subseteq 1 .. Len(entries) /\ places # {}
          BY <2>1, <2>3 DEF Registry!Range
        <4>2. PICK m \in places : \A k \in 1 .. m - 1 : k \notin places
          <5> HIDE DEF places
          <5> QED
            BY <2>1, <4>1, FirstPlace
        <4> QED
          BY <2>1, <4>2
      <3>2. PICK p \in 1 .. Len(entries) :
               /\ entries[p] = i
               /\ p = CHOOSE j \in DOMAIN entries :
                         entries[j] = i /\ \A k \in 1 .. j - 1 : entries[k] # i
        BY <2>1, <3>1, ZenonT(40)
      <3>3. Registry!Without(entries, i) = Shortened(entries, p)
        BY <2>3, <3>2, ZenonT(40) DEF Registry!Without, Registry!RemoveAt, Shortened
      <3>4. /\ Shortened(entries, p) \in Seq(Instance)
            /\ Len(Shortened(entries, p)) = Len(entries) - 1
            /\ \A j \in 1 .. Len(entries) - 1 :
                  Shortened(entries, p)[j] = IF j < p THEN entries[j] ELSE entries[j + 1]
        BY <2>1, OneRemoved
      <3>5. ASSUME NEW x \in Registry!Range(entries) \ {i}
            PROVE  x \in Registry!Range(Shortened(entries, p))
        <4>1. PICK j \in 1 .. Len(entries) : entries[j] = x /\ j # p
          BY <2>1, <3>2, <3>5 DEF Registry!Range
        <4>2. CASE j < p
          <5>1. j \in 1 .. Len(entries) - 1 /\ Shortened(entries, p)[j] = x
            BY <2>1, <3>4, <4>1, <4>2
          <5>2. DOMAIN Shortened(entries, p) = 1 .. Len(entries) - 1
            BY <3>4
          <5> QED
            BY <5>1, <5>2 DEF Registry!Range
        <4>3. CASE j > p
          <5>1. j - 1 \in 1 .. Len(entries) - 1 /\ ~(j - 1 < p) /\ (j - 1) + 1 = j
            BY <2>1, <4>1, <4>3
          <5>2. Shortened(entries, p)[j - 1] = x
            BY <3>4, <4>1, <5>1
          <5>3. DOMAIN Shortened(entries, p) = 1 .. Len(entries) - 1
            BY <3>4
          <5> QED
            BY <5>1, <5>2, <5>3 DEF Registry!Range
        <4> QED
          BY <2>1, <4>1, <4>2, <4>3
      <3>6. entries # <<>>
        BY <2>3 DEF Registry!Range
      <3> QED
        BY <3>3, <3>4, <3>5, <3>6
    <2> QED
      BY <2>2, <2>3
  <1> DEFINE rest == Registry!Without(entries, i)
  <1>6. cache' = [cache EXCEPT !.list = rest] /\ rest \in Seq(Instance)
    BY <1>3, <1>5
  <1>7. /\ entries = <<>> => rest = <<>>
        /\ \A x \in Registry!Range(entries) \ {i} : x \in Registry!Range(rest)
    BY <1>5
  <1> HIDE DEF rest
  <1>8. /\ cache' \in [known : BOOLEAN, list : Seq(Instance)]
        /\ cache'.known = cache.known /\ cache'.list = rest
    BY <1>1, <1>6
  <1>9. \A x \in Instance : Kept(x) => x \in Registry!Range(cache'.list)
    BY <1>2, <1>4, <1>7, <1>8 DEF Kept
  <1> QED
    <2>1. ~cache'.known => cache'.list = <<>>
      BY <1>1, <1>2, <1>7, <1>8
    <2>2. /\ call' = [call EXCEPT ![c] = Registry!Idle]
          /\ UNCHANGED <<key, granted, lease, watch, stopped, raced>>
      BY <1>3
    <2> QED
      BY <1>8, <1>9, <2>1, <2>2, CallEnds

LEMMA FetchKeeps ==
    ASSUME RegistryInv, NEW c \in Caller, Registry!fetchFromEtcd(c)
    PROVE  RegistryInv'
  <1>1. call[c].got \in Seq(Instance) /\ call[c].pc = "store"
    BY DEF Registry!fetchFromEtcd, RegistryInv, RegistryTypes, RegistryCall
  <1>2. /\ cache' = [known |-> TRUE, list |-> call[c].got]
        /\ call' = [call EXCEPT ![c] = Registry!Idle]
        /\ UNCHANGED <<key, granted, lease, watch, stopped, raced>>
    BY DEF Registry!fetchFromEtcd
  <1>3. \A x \in Instance : Kept(x) => x \in Registry!Range(call[c].got)
    BY <1>1 DEF Kept, Registry!Overtaken, Registry!Range
  <1>4. cache' \in [known : BOOLEAN, list : Seq(Instance)] /\ cache'.known
        /\ \A x \in Instance : Kept(x) => x \in Registry!Range(cache'.list)
    BY <1>1, <1>2, <1>3
  <1> QED
    BY <1>2, <1>4, CallEnds

\* A key that goes, or that another process puts, with what the calls do at the same time.
LEMMA ChangeKeeps ==
    ASSUME RegistryAssumption, RegistryInv, NEW i \in Instance, NEW k \in {NoKey, 0},
           Registry!Change(i, k), k # NoKey => k # key[i],
           UNCHANGED <<granted, lease, cache, stopped, raced>>,
           call' \in [Caller -> RegistryCall],
           \A c \in Caller : call'[c].pc \notin {"idle", "store"} => call'[c].of \in Instance,
           \A c \in Caller : call'[c].pc \in Holding => call'[c] = call[c],
           \A x \in Instance \ {i} : Kept(x) => Kept(x)'
    PROVE  RegistryInv'
  <1>1. k \in {NoKey} \cup Nat
    OBVIOUS
  <1>2. /\ watch' \in [Watcher -> RegistryWatch]
        /\ key' = [key EXCEPT ![i] = k] /\ key' \in [Instance -> {NoKey} \cup Nat]
        /\ \A v \in Watcher :
              /\ watch'[v].on = watch[v].on
              /\ \A x \in Instance : Announced(v, x) => Announced(v, x)'
              /\ watch[v].on /\ k # key[i] /\ k # NoKey => Announced(v, i)'
              /\ watch'[v].seen = IF watch[v].on /\ k # key[i] /\ k # NoKey
                                  THEN watch[v].seen \cup {i} ELSE watch[v].seen
    BY <1>1, EventComes
  <1>3. RegistryTypes'
    BY <1>2 DEF RegistryInv, RegistryTypes
  <1>4. \A x \in Instance : key'[x] = IF x = i THEN k ELSE key[x]
    BY <1>2 DEF RegistryInv, RegistryTypes
  <1>5. LeaseInv'
    <2>1. granted \in Nat /\ NoKey \notin Nat
      BY DEF RegistryInv, RegistryTypes, RegistryAssumption
    <2>2. \A x \in Instance : key'[x] # NoKey => key'[x] <= granted'
      BY <1>4, <2>1 DEF RegistryInv, LeaseInv
    <2>3. ASSUME NEW d \in Caller, call'[d].pc \in Holding
          PROVE  /\ call'[d].lease \in 1 .. granted'
                 /\ \A x \in Instance : key'[x] # call'[d].lease
                 /\ \A e \in Caller \ {d} :
                       call'[e].pc \in Holding => call'[e].lease # call'[d].lease
      <3>1. call'[d] = call[d] /\ call[d].pc \in Holding
        BY <2>3
      <3>2. /\ call[d].lease \in 1 .. granted
            /\ \A x \in Instance : key[x] # call[d].lease
        BY <3>1 DEF RegistryInv, LeaseInv
      <3>3. \A x \in Instance : key'[x] # call[d].lease
        BY <1>4, <2>1, <3>2
      <3>4. \A e \in Caller \ {d} :
               call'[e].pc \in Holding => call'[e].lease # call'[d].lease
        BY <3>1 DEF RegistryInv, LeaseInv
      <3> QED
        BY <3>1, <3>2, <3>3, <3>4
    <2> QED
      BY <2>2, <2>3 DEF LeaseInv
  <1>6. ASSUME NEW v \in Watcher, watch'[v].on, NEW x \in watch'[v].seen \ raced',
               key'[x] # NoKey
        PROVE  Announced(v, x)' \/ Kept(x)'
    <2>1. x \in Instance
      BY <1>3, <1>6 DEF RegistryTypes, RegistryWatch
    <2>2. CASE x = i
      BY <1>2, <1>4, <1>6, <2>1, <2>2
    <2>3. CASE x # i
      <3>1. x \in watch[v].seen \ raced /\ key[x] # NoKey /\ watch[v].on
        <4>1. watch[v].on /\ key[x] # NoKey /\ x \notin raced
          BY <1>2, <1>4, <1>6, <2>1, <2>3
        <4>2. x \in watch[v].seen
          <5>1. watch'[v].seen \in {watch[v].seen, watch[v].seen \cup {i}}
            BY <1>2
          <5> QED
            BY <1>6, <2>3, <5>1
        <4> QED
          BY <4>1, <4>2
      <3>2. Announced(v, x) \/ Kept(x)
        BY <3>1 DEF RegistryInv, SeenInv
      <3> QED
        BY <1>2, <2>1, <2>3, <3>2
    <2> QED
      BY <2>2, <2>3
  <1>7. \A v \in Watcher : watch'[v].seen \subseteq watch[v].seen \/ watch'[v].on
    BY <1>2
  <1>8. SeenInv'
    BY <1>2, <1>6, <1>7 DEF RegistryInv, SeenInv
  <1> QED
    BY <1>3, <1>5, <1>8 DEF RegistryInv

LEMMA DeregisterKeeps ==
    ASSUME RegistryAssumption, RegistryInv, NEW c \in Caller, Registry!Deregister(c)
    PROVE  RegistryInv'
  <1>1. PICK i \in Instance :
           /\ Registry!Change(i, NoKey)
           /\ call' = [call EXCEPT ![c].pc = "forget", ![c].of = i]
    BY DEF Registry!Deregister
  <1> DEFINE entry == [call[c] EXCEPT !.pc = "forget", !.of = i]
  <1>2. call[c] \in RegistryCall /\ UNCHANGED <<granted, lease, cache, stopped, raced>>
    BY DEF RegistryInv, RegistryTypes, Registry!Deregister
  <1>3. call' = [call EXCEPT ![c] = entry]
    BY <1>1 DEF RegistryInv, RegistryTypes
  <1>4. entry \in RegistryCall /\ entry.pc = "forget" /\ entry.of = i
    BY <1>2 DEF RegistryCall, RegistryPoint
  <1> HIDE DEF entry
  <1>5. /\ call' \in [Caller -> RegistryCall] /\ call'[c] = entry
        /\ \A d \in Caller \ {c} : call'[d] = call[d]
        /\ \A d \in Caller : call'[d].pc \notin {"idle", "store"} => call'[d].of \in Instance
    BY <1>3, <1>4, RegistryCallMoves DEF RegistryInv
  <1>6. ASSUME NEW x \in Instance \ {i}, Kept(x) PROVE Kept(x)'
    BY <1>2, <1>4, <1>5, <1>6, KeptStays DEF Kept
  <1>7. \A d \in Caller : call'[d].pc \in Holding => call'[d] = call[d]
    BY <1>4, <1>5 DEF Holding
  <1> QED
    BY <1>1, <1>2, <1>5, <1>6, <1>7, ChangeKeeps

LEMMA RemoteKeeps ==
    ASSUME RegistryAssumption, RegistryInv, Registry!RemoteChange
    PROVE  RegistryInv'
  <1>1. PICK i \in Instance : Registry!Change(i, IF key[i] = NoKey THEN 0 ELSE NoKey)
    BY DEF Registry!RemoteChange
  <1>2. PICK k \in {NoKey, 0} : k = IF key[i] = NoKey THEN 0 ELSE NoKey
    OBVIOUS
  <1>3. Registry!Change(i, k) /\ (k # NoKey => k # key[i])
    BY <1>1, <1>2
  <1>4. UNCHANGED <<granted, lease, cache, stopped, raced, call>>
    BY DEF Registry!RemoteChange
  <1>5. /\ call' \in [Caller -> RegistryCall]
        /\ \A c \in Caller : call'[c].pc \notin {"idle", "store"} => call'[c].of \in Instance
    BY <1>4 DEF RegistryInv, RegistryTypes
  <1>6. ASSUME NEW x, Kept(x) PROVE Kept(x)'
    BY <1>4, <1>6 DEF Kept, Registry!Overtaken, Registry!Range
  <1> QED
    BY <1>3, <1>4, <1>5, <1>6, ChangeKeeps

\* Discover reads while nothing is in the cache, so nothing is kept yet.
LEMMA DiscoverKeeps ==
    ASSUME RegistryAssumption, RegistryInv, NEW c \in Caller, Registry!Discover(c)
    PROVE  RegistryInv'
  <1> DEFINE there == {i \in Instance : key[i] # NoKey}
             entries == Registry!SetToSeq(there)
             entry == [call[c] EXCEPT !.pc = "store", !.got = entries]
  <1>1. /\ call[c] \in RegistryCall /\ cache.list = <<>>
        /\ UNCHANGED <<key, granted, lease, cache, watch, stopped, raced>>
    BY DEF Registry!Discover, RegistryInv, RegistryTypes, SeenInv
  <1>2. entries \in Seq(Instance)
    <2>1. IsFiniteSet(there)
      BY FS_Subset DEF RegistryAssumption
    <2>2. entries = ListingOf(there)
      BY DEF ListingOf, Registry!SetToSeq, Registry!IsInjective, Registry!Cardinality,
         Cardinality,
             Registry!IsFiniteSet, IsFiniteSet
    <2> HIDE DEF entries
    <2>3. entries \in Seq(there)
      BY <2>1, <2>2, ListOfSet
    <2> QED
      BY <2>3
  <1>3. call' = [call EXCEPT ![c].pc = "store", ![c].got = entries]
    BY DEF Registry!Discover
  <1> HIDE DEF entries
  <1>4. call' = [call EXCEPT ![c] = entry]
    BY <1>3 DEF RegistryInv, RegistryTypes
  <1>5. entry \in RegistryCall /\ entry.pc = "store"
    BY <1>1, <1>2 DEF RegistryCall, RegistryPoint
  <1> HIDE DEF entry
  <1>6. /\ call' \in [Caller -> RegistryCall] /\ call'[c] = entry
        /\ \A d \in Caller \ {c} : call'[d] = call[d]
        /\ \A d \in Caller : call'[d].pc \notin {"idle", "store"} => call'[d].of \in Instance
    BY <1>4, <1>5, RegistryCallMoves DEF RegistryInv
  <1>7. RegistryTypes'
    BY <1>1, <1>6 DEF RegistryInv, RegistryTypes
  <1>8. LeaseInv'
    BY <1>1, <1>5, <1>6, LeasesStay DEF Holding
  <1>9. \A x : ~Kept(x)
    BY <1>1 DEF Kept, Registry!Range
  <1>10. SeenInv'
    BY <1>1, <1>9 DEF RegistryInv, SeenInv, Announced
  <1> QED
    BY <1>7, <1>8, <1>10 DEF RegistryInv

\* A watch handles the first event of its queue.
LEMMA WatchEventKeeps ==
    ASSUME RegistryInv, NEW v \in Watcher, Registry!watchService(v)
    PROVE  RegistryInv'
  <1> DEFINE e == Head(watch[v].queue)
             rest == Tail(watch[v].queue)
             longer == Append(cache.list, e.of)
  <1>1. /\ watch \in [Watcher -> RegistryWatch] /\ watch[v].queue \in Seq(RegistryEvent)
        /\ watch[v].queue # <<>>
        /\ cache \in [known : BOOLEAN, list : Seq(Instance)] /\ watch[v].on /\ ~stopped
        /\ UNCHANGED <<key, granted, lease, call, stopped>>
    BY DEF Registry!watchService, RegistryInv, RegistryTypes, RegistryWatch
  <1>2. /\ e \in RegistryEvent /\ e = watch[v].queue[1]
        /\ rest \in Seq(RegistryEvent) /\ Len(rest) = Len(watch[v].queue) - 1
        /\ \A n \in 1 .. Len(rest) : rest[n] = watch[v].queue[n + 1]
    <2>1. /\ Head(watch[v].queue) = watch[v].queue[1] /\ Tail(watch[v].queue) \in Seq(RegistryEvent)
          /\ Len(Tail(watch[v].queue)) = Len(watch[v].queue) - 1
          /\ \A n \in 1 .. Len(Tail(watch[v].queue)) : Tail(watch[v].queue)[n] = watch[v].queue[n + 1]
      BY <1>1, HeadTailProperties
    <2>2. watch[v].queue[1] \in RegistryEvent
      BY <1>1
    <2> QED
      BY <2>1, <2>2
  <1>3. e.of \in Instance /\ e.type \in {"put", "delete"}
    BY <1>2 DEF RegistryEvent
  <1>4. watch' = [watch EXCEPT ![v].queue = rest]
    BY DEF Registry!watchService
  <1>5. /\ e.type = "delete" => UNCHANGED <<cache, raced>>
        /\ e.type # "delete" =>
              /\ cache' = [known |-> TRUE,
                           list |-> Registry!updateServiceCache(cache.list, e.of)]
              /\ raced' = IF Registry!Overtaken(e.of) THEN raced \cup {e.of}
                          ELSE raced \ {e.of}
    BY DEF Registry!watchService
  <1> HIDE DEF e, rest
  <1>6. /\ watch' \in [Watcher -> RegistryWatch] /\ watch'[v].queue = rest
        /\ \A u \in Watcher : watch'[u].on = watch[u].on /\ watch'[u].seen = watch[u].seen
        /\ \A u \in Watcher \ {v} : watch'[u] = watch[u]
    BY <1>1, <1>2, <1>4 DEF RegistryWatch
  <1>7. /\ longer \in Seq(Instance) /\ e.of \in Registry!Range(longer)
        /\ Registry!Range(cache.list) \subseteq Registry!Range(longer)
    <2>1. /\ longer \in Seq(Instance) /\ Len(longer) = Len(cache.list) + 1
          /\ \A n \in 1 .. Len(cache.list) : longer[n] = cache.list[n]
          /\ longer[Len(cache.list) + 1] = e.of
      BY <1>1, <1>3, AppendProperties
    <2>2. Len(cache.list) \in Nat /\ DOMAIN cache.list = 1 .. Len(cache.list)
          /\ DOMAIN longer = 1 .. Len(cache.list) + 1
      BY <1>1, <2>1
    <2> HIDE DEF longer
    <2> QED
      BY <2>1, <2>2 DEF Registry!Range
  <1> HIDE DEF longer
  <1>8. /\ cache' \in [known : BOOLEAN, list : Seq(Instance)]
        /\ ~cache'.known => cache'.list = <<>>
        /\ Registry!Range(cache.list) \subseteq Registry!Range(cache'.list)
        /\ e.type = "put" => e.of \in Registry!Range(cache'.list)
    <2>1. CASE e.type = "delete"
      BY <1>1, <1>5, <2>1 DEF RegistryInv, SeenInv
    <2>2. CASE e.type # "delete"
      <3>1. \/ Registry!updateServiceCache(cache.list, e.of) = cache.list
               /\ e.of \in Registry!Range(cache.list)
            \/ Registry!updateServiceCache(cache.list, e.of) = longer
        BY DEF Registry!updateServiceCache, longer
      <3>2. \E t \in {cache.list, longer} :
               /\ cache' = [known |-> TRUE, list |-> t] /\ t \in Seq(Instance)
               /\ e.of \in Registry!Range(t)
               /\ Registry!Range(cache.list) \subseteq Registry!Range(t)
        BY <1>1, <1>5, <1>7, <2>2, <3>1
      <3> QED
        BY <3>2
    <2> QED
      BY <2>1, <2>2
  <1>9. RegistryTypes'
    BY <1>1, <1>6, <1>8 DEF RegistryInv, RegistryTypes
  <1>10. LeaseInv'
    BY <1>1 DEF RegistryInv, LeaseInv
  <1>11. ASSUME NEW x \in Instance, Kept(x) PROVE Kept(x)'
    BY <1>1, <1>8, <1>11, KeptStays DEF Kept
  <1>12. ASSUME NEW u \in Watcher, NEW x \in Instance, Announced(u, x),
                u # v \/ e.type # "put" \/ e.of # x
         PROVE  Announced(u, x)'
    <2>1. CASE u # v
      BY <1>6, <1>12, <2>1 DEF Announced
    <2>2. CASE u = v
      <3>1. PICK n \in 1 .. Len(watch[v].queue) : watch[v].queue[n] = [type |-> "put", of |-> x]
        BY <1>1, <1>12, <2>2 DEF Announced
      <3>2. n # 1
        BY <1>2, <1>12, <2>2, <3>1
      <3>3. n - 1 \in 1 .. Len(rest) /\ (n - 1) + 1 = n /\ DOMAIN rest = 1 .. Len(rest)
        BY <1>1, <1>2, <3>1, <3>2
      <3>4. n - 1 \in DOMAIN rest /\ rest[n - 1] = [type |-> "put", of |-> x]
        BY <1>2, <3>1, <3>3
      <3> QED
        BY <1>6, <2>2, <3>4 DEF Announced
    <2> QED
      BY <2>1, <2>2
  <1>13. ASSUME NEW u \in Watcher, watch'[u].on, NEW x \in watch'[u].seen \ raced',
                key'[x] # NoKey
         PROVE  Announced(u, x)' \/ Kept(x)'
    <2>1. x \in watch[u].seen /\ x \in Instance /\ key[x] # NoKey /\ watch[u].on
      BY <1>1, <1>6, <1>13 DEF RegistryWatch
    <2>2. CASE e.type = "put" /\ e.of = x
      <3>1. ~Registry!Overtaken(x)
        BY <1>5, <1>13, <2>2
      <3>2. ~Registry!Overtaken(x)'
        BY <1>1, <3>1 DEF Registry!Overtaken, Registry!Range
      <3> QED
        BY <1>8, <2>2, <3>2 DEF Kept
    <2>3. CASE ~(e.type = "put" /\ e.of = x)
      <3>1. x \notin raced
        BY <1>3, <1>5, <1>13, <2>3
      <3>2. Announced(u, x) \/ Kept(x)
        BY <1>1, <2>1, <3>1 DEF RegistryInv, SeenInv
      <3> QED
        BY <1>11, <1>12, <2>1, <2>3, <3>2
    <2> QED
      BY <2>2, <2>3
  <1>14. SeenInv'
    BY <1>1, <1>6, <1>8, <1>13 DEF RegistryInv, SeenInv
  <1> QED
    BY <1>9, <1>10, <1>14 DEF RegistryInv

\* A lease that ends takes its keys with it.
LEMMA ExpireKeeps ==
    ASSUME RegistryAssumption, RegistryInv, Registry!Expire
    PROVE  RegistryInv'
  <1>1. PICK n \in live :
           LET gone == {i \in Instance : key[i] = n}
               events == Registry!SetToSeq({[type |-> "delete", of |-> i] : i \in gone})
           IN /\ key' = [i \in Instance |-> IF i \in gone THEN NoKey ELSE key[i]]
              /\ watch' = [v \in Watcher |-> IF watch[v].on
                                            THEN [watch[v] EXCEPT !.queue = @ \o events]
                                            ELSE watch[v]]
    BY DEF Registry!Expire
  <1> DEFINE gone == {i \in Instance : key[i] = n}
             deletions == {[type |-> "delete", of |-> i] : i \in gone}
             events == Registry!SetToSeq(deletions)
             queue2(v) == watch[v].queue \o events
  <1>2. key' = [i \in Instance |-> IF i \in gone THEN NoKey ELSE key[i]]
    BY <1>1
  <1>3. watch' = [v \in Watcher |-> IF watch[v].on THEN [watch[v] EXCEPT !.queue = queue2(v)]
                                   ELSE watch[v]]
    BY <1>1
  <1>4. UNCHANGED <<granted, lease, cache, call, stopped, raced>>
    BY DEF Registry!Expire
  <1>5. deletions \subseteq RegistryEvent
    BY DEF RegistryEvent
  <1>6. IsFiniteSet(deletions)
    <2>1. IsFiniteSet(gone)
      BY FS_Subset DEF RegistryAssumption
    <2> HIDE DEF gone
    <2>2. [i \in gone |-> [type |-> "delete", of |-> i]] \in Surjection(gone, deletions)
      BY DEF Surjection
    <2> QED
      BY <2>1, <2>2, FS_Surjection
  <1> HIDE DEF gone, deletions
  <1>7. events \in Seq(RegistryEvent)
    <2>1. events = ListingOf(deletions)
      BY DEF ListingOf, Registry!SetToSeq, Registry!IsInjective, Registry!Cardinality,
         Cardinality,
             Registry!IsFiniteSet, IsFiniteSet
    <2> HIDE DEF events
    <2>2. events \in Seq(deletions)
      BY <1>6, <2>1, ListOfSet
    <2> QED
      BY <1>5, <2>2
  <1> HIDE DEF events
  <1>8. /\ key \in [Instance -> {NoKey} \cup Nat]
        /\ watch \in [Watcher -> RegistryWatch]
    BY DEF RegistryInv, RegistryTypes
  <1>9. ASSUME NEW v \in Watcher
        PROVE  /\ watch'[v] \in RegistryWatch
               /\ watch'[v].on = watch[v].on /\ watch'[v].seen = watch[v].seen
               /\ \A x \in Instance : Announced(v, x) => Announced(v, x)'
    <2> DEFINE q == watch[v].queue
    <2>1. watch[v] \in RegistryWatch /\ q \in Seq(RegistryEvent)
      BY <1>8 DEF RegistryWatch
    <2>2. /\ queue2(v) \in Seq(RegistryEvent) /\ Len(queue2(v)) = Len(q) + Len(events)
          /\ \A j \in 1 .. Len(q) + Len(events) :
                queue2(v)[j] = IF j <= Len(q) THEN q[j] ELSE events[j - Len(q)]
      BY <1>7, <2>1, ConcatProperties
    <2>3. Len(q) \in Nat /\ Len(events) \in Nat /\ DOMAIN q = 1 .. Len(q)
      BY <1>7, <2>1
    <2>4. CASE watch[v].on
      <3> HIDE DEF queue2
      <3>1. DOMAIN queue2(v) = 1 .. Len(q) + Len(events)
        BY <2>2
      <3>2. /\ watch'[v] = [watch[v] EXCEPT !.queue = queue2(v)] /\ watch'[v].queue = queue2(v)
            /\ watch'[v] \in RegistryWatch
            /\ watch'[v].on = watch[v].on /\ watch'[v].seen = watch[v].seen
        BY <1>3, <2>1, <2>2, <2>4 DEF RegistryWatch
      <3>3. ASSUME NEW x \in Instance, Announced(v, x) PROVE Announced(v, x)'
        <4>1. PICK j \in 1 .. Len(q) : q[j] = [type |-> "put", of |-> x]
          BY <2>3, <3>3 DEF Announced
        <4>2. j \in 1 .. Len(q) + Len(events) /\ j <= Len(q)
          BY <2>3
        <4>3. j \in DOMAIN queue2(v) /\ queue2(v)[j] = [type |-> "put", of |-> x]
          BY <2>2, <3>1, <4>1, <4>2
        <4> QED
          BY <3>2, <4>3 DEF Announced
      <3> QED
        BY <3>2, <3>3
    <2>5. CASE ~watch[v].on
      <3>1. watch'[v] = watch[v]
        BY <1>3, <2>5
      <3> QED
        BY <2>1, <3>1 DEF Announced
    <2> QED
      BY <2>4, <2>5
  <1>11. watch' \in [Watcher -> RegistryWatch]
    <2> HIDE DEF queue2
    <2> QED
      BY <1>3, <1>9
  <1>12. /\ key' \in [Instance -> {NoKey} \cup Nat]
         /\ \A x \in Instance : key'[x] \in {NoKey, key[x]}
    BY <1>2, <1>8
  <1>13. RegistryTypes'
    BY <1>4, <1>11, <1>12 DEF RegistryInv, RegistryTypes
  <1>14. LeaseInv'
    BY <1>4, <1>12 DEF RegistryInv, RegistryTypes, RegistryAssumption, LeaseInv
  <1>15. ASSUME NEW x, Kept(x) PROVE Kept(x)'
    BY <1>4, <1>15 DEF Kept, Registry!Overtaken, Registry!Range
  <1>16. SeenInv'
    BY <1>4, <1>8, <1>9, <1>12, <1>15 DEF RegistryInv, RegistryWatch, SeenInv
  <1> QED
    BY <1>13, <1>14, <1>16 DEF RegistryInv

\* The steps that leave keys, calls and cache alone.
LEMMA QuietRegistryKeeps ==
    ASSUME RegistryInv,
           \/ \E v \in Watcher : Registry!Watch(v)
           \/ Registry!Stop \/ Registry!KeepAliveFails \/ Registry!keepAlive
           \/ UNCHANGED Registry!vars
    PROVE  RegistryInv'
  <1>1. UNCHANGED <<key, granted, lease, cache, call, raced>>
    BY DEF Registry!Watch, Registry!Stop, Registry!KeepAliveFails, Registry!keepAlive,
           Registry!vars
  <1>2. \/ UNCHANGED <<watch, stopped>>
        \/ \E v \in Watcher : /\ ~watch[v].on /\ ~stopped /\ stopped' = stopped
                              /\ watch' = [watch EXCEPT ![v].on = TRUE]
        \/ /\ stopped' = TRUE
           /\ watch' = [v \in Watcher |-> [on |-> FALSE, queue |-> <<>>, seen |-> watch[v].seen]]
    BY DEF Registry!Watch, Registry!Stop, Registry!KeepAliveFails, Registry!keepAlive,
           Registry!vars
  <1>3. /\ watch' \in [Watcher -> RegistryWatch] /\ stopped' \in BOOLEAN
        /\ \A v \in Watcher :
              /\ watch'[v].seen = watch[v].seen
              /\ stopped' => ~watch'[v].on
              /\ ~watch'[v].on /\ ~stopped' => ~watch[v].on /\ ~stopped
              /\ watch'[v].on => \/ watch[v].on /\ watch'[v] = watch[v]
                                 \/ ~watch[v].on /\ ~stopped
    <2>1. /\ <<>> \in Seq(RegistryEvent) /\ stopped \in BOOLEAN
          /\ watch \in [Watcher -> RegistryWatch]
          /\ \A v \in Watcher : stopped => ~watch[v].on
      BY DEF RegistryInv, RegistryTypes, SeenInv
    <2>2. CASE UNCHANGED <<watch, stopped>>
      BY <2>1, <2>2
    <2>3. ASSUME NEW u \in Watcher, ~watch[u].on, ~stopped, stopped' = stopped,
                 watch' = [watch EXCEPT ![u].on = TRUE]
          PROVE  /\ watch' \in [Watcher -> RegistryWatch] /\ stopped' \in BOOLEAN
                 /\ \A v \in Watcher :
                       /\ watch'[v].seen = watch[v].seen
                       /\ stopped' => ~watch'[v].on
                       /\ ~watch'[v].on /\ ~stopped' => ~watch[v].on /\ ~stopped
                       /\ watch'[v].on => \/ watch[v].on /\ watch'[v] = watch[v]
                                          \/ ~watch[v].on /\ ~stopped
      BY <2>1, <2>3 DEF RegistryWatch
    <2>4. CASE /\ stopped' = TRUE
               /\ watch' = [v \in Watcher |->
                               [on |-> FALSE, queue |-> <<>>, seen |-> watch[v].seen]]
      BY <2>1, <2>4 DEF RegistryWatch
    <2> QED
      BY <1>2, <2>2, <2>3, <2>4
  <1>4. RegistryTypes'
    BY <1>1, <1>3 DEF RegistryInv, RegistryTypes
  <1>5. LeaseInv'
    BY <1>1 DEF RegistryInv, LeaseInv
  <1>6. SeenInv'
    BY <1>1, <1>3 DEF RegistryInv, SeenInv, Announced, Kept, Registry!Overtaken, Registry!Range
  <1> QED
    BY <1>4, <1>5, <1>6 DEF RegistryInv

\* Every goroutine that renews leases, and every call that will start one, has had a lease
\* granted to it; so has every lease that etcd still holds.
Putting == {c \in Caller : call[c].pc \in Holding}

BoundInv ==
    /\ granted <= MaxLeases /\ lease <= granted /\ live \subseteq 1 .. granted
    /\ IsFiniteSet(Putting) /\ keepers \in Nat /\ keepers + Cardinality(Putting) <= granted
    /\ \A c \in Caller : call[c].lease <= granted
    /\ raced \subseteq Instance /\ remote \in 0 .. MaxRemote /\ faults \in 0 .. MaxFaults

LEMMA BoundKeeps ==
    ASSUME RegistryAssumption, RegistryInv, RegistryInv', BoundInv,
           [Registry!Next]_(Registry!vars)
    PROVE  BoundInv'
  <1>0. /\ RegistryTypes /\ granted \in Nat /\ lease \in Nat /\ keepers \in Nat
        /\ call \in [Caller -> RegistryCall]
        /\ IsFiniteSet(Putting) /\ Cardinality(Putting) \in Nat
        /\ keepers + Cardinality(Putting) <= granted
        /\ \A c \in Caller : call[c].lease \in Nat /\ call[c].lease <= granted
        /\ raced \subseteq Instance /\ remote \in 0 .. MaxRemote /\ faults \in 0 .. MaxFaults
        /\ live \subseteq 1 .. granted /\ granted <= MaxLeases /\ lease <= granted
    BY FS_CardinalityType DEF RegistryInv, RegistryTypes, BoundInv, RegistryCall
  <1>1. ASSUME NEW c \in Caller, NEW entry, call' = [call EXCEPT ![c] = entry],
               entry.lease \in {0, call[c].lease}, granted' = granted
        PROVE  \A d \in Caller : call'[d].lease <= granted'
    BY <1>0, <1>1
  <1>2. ASSUME NEW c \in Caller, NEW entry, call' = [call EXCEPT ![c] = entry],
               entry.pc \notin Holding
        PROVE  /\ IsFiniteSet(Putting') /\ Cardinality(Putting') \in Nat
               /\ Cardinality(Putting') = IF call[c].pc \in Holding THEN Cardinality(Putting) - 1
                                          ELSE Cardinality(Putting)
    <2>1. Putting' = Putting \ {c} /\ (c \in Putting <=> call[c].pc \in Holding)
      BY <1>0, <1>2 DEF Putting
    <2>2. IsFiniteSet(Putting') /\ Cardinality(Putting') \in Nat
      BY <1>0, <2>1, FS_Subset, FS_CardinalityType
    <2> QED
      BY <1>0, <2>1, <2>2, FS_RemoveElement
  <1>3. ASSUME NEW c \in Caller, Registry!Grant(c) PROVE BoundInv'
    <2>1. PICK i \in Instance :
             call' = [call EXCEPT ![c] = [Registry!Idle EXCEPT !.pc = "set", !.of = i,
                                                               !.lease = granted + 1]]
      BY <1>3 DEF Registry!Grant
    <2>2. /\ call[c].pc = "idle" /\ granted < MaxLeases /\ granted' = granted + 1
          /\ live' = live \cup {granted + 1} /\ UNCHANGED <<lease, keepers, raced, remote, faults>>
      BY <1>3 DEF Registry!Grant
    <2>3. /\ call'[c].pc = "set" /\ call'[c].lease = granted + 1
          /\ \A d \in Caller \ {c} : call'[d] = call[d]
      BY <1>0, <2>1 DEF Registry!Idle
    <2>4. Putting' = Putting \cup {c} /\ c \notin Putting
      BY <2>2, <2>3 DEF Putting, Holding
    <2>5. IsFiniteSet(Putting') /\ Cardinality(Putting') = Cardinality(Putting) + 1
      BY <1>0, <2>4, FS_AddElement
    <2>6. \A d \in Caller : call'[d].lease <= granted'
      BY <1>0, <2>2, <2>3
    <2>7. live' \subseteq 1 .. granted' /\ granted' <= MaxLeases
      BY <1>0, <2>2 DEF RegistryAssumption
    <2>8. keepers' + Cardinality(Putting') <= granted' /\ keepers' \in Nat
      BY <1>0, <2>2, <2>5
    <2> QED
      BY <1>0, <2>2, <2>5, <2>6, <2>7, <2>8 DEF BoundInv, Cardinality
  <1>4. ASSUME NEW c \in Caller, Registry!Put(c) PROVE BoundInv'
    <2> DEFINE fails == call' = [call EXCEPT ![c] = Registry!Idle] /\ keepers' = keepers
               puts == call' = [call EXCEPT ![c] = [call[c] EXCEPT !.pc = "append"]]
                       /\ keepers' = keepers + 1
    <2>1. /\ call[c].pc = "put" /\ UNCHANGED <<live, granted, lease, raced, remote, faults>>
          /\ fails \/ puts
      BY <1>4 DEF Registry!Put
    <2>2. PICK entry : /\ call' = [call EXCEPT ![c] = entry] /\ entry.pc \notin Holding
                       /\ entry.lease \in {0, call[c].lease}
      <3>1. CASE fails
        <4>1. Registry!Idle.pc \notin Holding /\ Registry!Idle.lease = 0
          BY DEF Registry!Idle, Holding
        <4> QED
          BY <3>1, <4>1
      <3>2. CASE puts
        <4>1. /\ [call[c] EXCEPT !.pc = "append"].pc = "append"
              /\ [call[c] EXCEPT !.pc = "append"].lease = call[c].lease
          BY <1>0 DEF RegistryCall
        <4> QED
          BY <3>2, <4>1 DEF Holding
      <3> QED
        BY <2>1, <3>1, <3>2
    <2>3. /\ IsFiniteSet(Putting') /\ Cardinality(Putting') \in Nat
          /\ Cardinality(Putting') = Cardinality(Putting) - 1
      BY <1>2, <2>1, <2>2 DEF Holding
    <2>4. \A d \in Caller : call'[d].lease <= granted'
      BY <1>1, <2>1, <2>2
    <2>5. keepers' \in Nat /\ keepers' + Cardinality(Putting') <= granted'
      BY <1>0, <2>1, <2>3
    <2> QED
      BY <1>0, <2>1, <2>3, <2>4, <2>5 DEF BoundInv, Cardinality
  <1>5. ASSUME NEW c \in Caller,
               \/ Registry!CacheAppend(c) \/ Registry!CacheForget(c) \/ Registry!fetchFromEtcd(c)
               \/ Registry!Deregister(c) \/ Registry!Discover(c)
        PROVE  BoundInv'
    <2>1. /\ UNCHANGED <<live, granted, lease, keepers, raced, remote, faults>>
          /\ call[c].pc \notin Holding
          /\ \/ call' = [call EXCEPT ![c] = Registry!Idle]
             \/ \E i \in Instance : call' = [call EXCEPT ![c].pc = "forget", ![c].of = i]
             \/ \E g : call' = [call EXCEPT ![c].pc = "store", ![c].got = g]
      BY <1>5 DEF Registry!CacheAppend, Registry!CacheForget, Registry!fetchFromEtcd,
         Registry!Deregister, Registry!Discover, Holding
    <2>2. PICK entry : /\ call' = [call EXCEPT ![c] = entry] /\ entry.pc \notin Holding
                       /\ entry.lease \in {0, call[c].lease}
      <3>1. CASE call' = [call EXCEPT ![c] = Registry!Idle]
        <4>1. Registry!Idle.pc \notin Holding /\ Registry!Idle.lease = 0
          BY DEF Registry!Idle, Holding
        <4> QED
          BY <3>1, <4>1
      <3>2. ASSUME NEW i \in Instance, call' = [call EXCEPT ![c].pc = "forget", ![c].of = i]
            PROVE  \E e : /\ call' = [call EXCEPT ![c] = e] /\ e.pc \notin Holding
                          /\ e.lease \in {0, call[c].lease}
        <4> DEFINE e == [call[c] EXCEPT !.pc = "forget", !.of = i]
        <4>1. e.pc = "forget" /\ e.lease = call[c].lease
          BY <1>0 DEF RegistryCall
        <4>2. call' = [call EXCEPT ![c] = e]
          BY <1>0, <3>2
        <4> HIDE DEF e
        <4> QED
          BY <4>1, <4>2 DEF Holding
      <3>3. ASSUME NEW g, call' = [call EXCEPT ![c].pc = "store", ![c].got = g]
            PROVE  \E e : /\ call' = [call EXCEPT ![c] = e] /\ e.pc \notin Holding
                          /\ e.lease \in {0, call[c].lease}
        <4> DEFINE e == [call[c] EXCEPT !.pc = "store", !.got = g]
        <4>1. e.pc = "store" /\ e.lease = call[c].lease
          BY <1>0 DEF RegistryCall
        <4>2. call' = [call EXCEPT ![c] = e]
          BY <1>0, <3>3
        <4> HIDE DEF e
        <4> QED
          BY <4>1, <4>2 DEF Holding
      <3> QED
        BY <2>1, <3>1, <3>2, <3>3
    <2>3. IsFiniteSet(Putting') /\ Cardinality(Putting') = Cardinality(Putting)
      BY <1>2, <2>1, <2>2 DEF Holding
    <2>4. \A d \in Caller : call'[d].lease <= granted'
      BY <1>1, <2>1, <2>2
    <2> QED
      BY <1>0, <2>1, <2>3, <2>4 DEF BoundInv, Cardinality
  <1>11. ASSUME NEW c \in Caller, Registry!SetLease(c) PROVE BoundInv'
    <2>1. /\ call[c].pc = "set" /\ lease' = call[c].lease
          /\ call' = [call EXCEPT ![c] = [call[c] EXCEPT !.pc = "put"]]
          /\ UNCHANGED <<live, granted, keepers, raced, remote, faults>>
      BY <1>0, <1>11 DEF Registry!SetLease
    <2>2. \A d \in Caller : /\ call'[d].lease = call[d].lease
                            /\ call'[d].pc \in Holding <=> call[d].pc \in Holding
      BY <1>0, <2>1 DEF RegistryCall, Holding
    <2>3. Putting' = Putting
      BY <2>2 DEF Putting
    <2> QED
      BY <1>0, <2>1, <2>2, <2>3 DEF BoundInv
  <1>6. ASSUME NEW v \in Watcher, Registry!watchService(v) PROVE BoundInv'
    <2>1. /\ UNCHANGED <<live, granted, lease, keepers, call, remote, faults>>
          /\ raced' \subseteq raced \cup {Head(watch[v].queue).of} /\ watch[v].queue # <<>>
      BY <1>6 DEF Registry!watchService
    <2>2. Head(watch[v].queue).of \in Instance
      <3>1. watch[v].queue \in Seq(RegistryEvent)
        BY <1>0 DEF RegistryTypes, RegistryWatch
      <3>2. Head(watch[v].queue) \in RegistryEvent
        BY <2>1, <3>1
      <3> QED
        BY <3>2 DEF RegistryEvent
    <2> QED
      BY <1>0, <2>1, <2>2 DEF BoundInv, Putting
  <1>7. CASE Registry!KeepAliveFails \/ Registry!keepAlive
    <2>1. /\ UNCHANGED <<live, granted, lease, call, raced, remote>>
          /\ keepers > 0 /\ keepers' = keepers - 1
          /\ faults' = faults \/ (faults < MaxFaults /\ faults' = faults + 1)
      BY <1>7 DEF Registry!KeepAliveFails, Registry!keepAlive
    <2>2. faults' \in 0 .. MaxFaults /\ keepers' \in Nat
      BY <1>0, <2>1 DEF RegistryAssumption
    <2>3. Putting' = Putting
      BY <2>1 DEF Putting
    <2> QED
      BY <1>0, <2>1, <2>2, <2>3 DEF BoundInv
  <1>8. CASE Registry!Expire
    <2>1. live' \subseteq live /\ UNCHANGED <<granted, lease, keepers, call, raced, remote, faults>>
      BY <1>8 DEF Registry!Expire
    <2> QED
      BY <1>0, <2>1 DEF BoundInv, Putting
  <1>9. CASE Registry!RemoteChange
    <2>1. /\ UNCHANGED <<live, granted, lease, keepers, call, raced, faults>>
          /\ remote < MaxRemote /\ remote' = remote + 1
      BY <1>9 DEF Registry!RemoteChange
    <2>2. remote' \in 0 .. MaxRemote
      BY <1>0, <2>1 DEF RegistryAssumption
    <2> QED
      BY <1>0, <2>1, <2>2 DEF BoundInv, Putting
  <1>10. CASE (\E v \in Watcher : Registry!Watch(v)) \/ Registry!Stop \/ UNCHANGED Registry!vars
    <2>1. UNCHANGED <<live, granted, lease, keepers, call, raced, remote, faults>>
      BY <1>10 DEF Registry!Watch, Registry!Stop, Registry!vars
    <2> QED
      BY <1>0, <2>1 DEF BoundInv, Putting
  <1> QED
    BY <1>3, <1>4, <1>5, <1>6, <1>7, <1>8, <1>9, <1>10, <1>11 DEF Registry!Next,
       Registry!CallStep

\* Whatever is put in etcd while a watch is on is in the cache once that watch has handled its
\* event, however far behind the other watches are and for any number of callers, leases,
\* changes and faults, unless a call that had read or removed before wrote the cache after it
\* (updateServiceCache, fetchFromEtcd, Deregister).
THEOREM RegistrySafety ==
    ASSUME RegistryAssumption
    PROVE  Registry!Spec => [](Registry!TypeOK /\ Registry!WatchedIsCached)
  <1>1. Registry!Init => RegistryInv
    <2> SUFFICES ASSUME Registry!Init PROVE RegistryInv
      OBVIOUS
    <2>1. <<>> \in Seq(Instance) /\ <<>> \in Seq(RegistryEvent)
      OBVIOUS
    <2>2. Registry!Idle \in RegistryCall /\ Registry!Idle.pc = "idle"
      BY <2>1 DEF Registry!Idle, RegistryCall, RegistryPoint
    <2>3. call \in [Caller -> RegistryCall] /\ \A c \in Caller : call[c].pc = "idle"
      BY <2>2 DEF Registry!Init
    <2>7. watch \in [Watcher -> RegistryWatch]
      BY <2>1 DEF Registry!Init, RegistryWatch
    <2>4. RegistryTypes
      BY <2>1, <2>3, <2>7 DEF Registry!Init, RegistryTypes
    <2>5. LeaseInv
      BY <2>3 DEF Registry!Init, LeaseInv, Holding
    <2>6. SeenInv
      BY DEF Registry!Init, SeenInv
    <2> QED
      BY <2>4, <2>5, <2>6 DEF RegistryInv
  <1>2. RegistryInv /\ [Registry!Next]_Registry!vars => RegistryInv'
    <2> SUFFICES ASSUME RegistryInv, [Registry!Next]_Registry!vars PROVE RegistryInv'
      OBVIOUS
    <2>1. ASSUME NEW c \in Caller, Registry!Grant(c) \/ Registry!SetLease(c) \/ Registry!Put(c)
          PROVE  RegistryInv'
      BY <2>1, GrantKeeps, SetLeaseKeeps, PutKeeps
    <2>2. ASSUME NEW c \in Caller, Registry!Deregister(c) \/ Registry!Discover(c)
          PROVE  RegistryInv'
      BY <2>2, DeregisterKeeps, DiscoverKeeps
    <2>3. ASSUME NEW c \in Caller,
                 Registry!CacheAppend(c) \/ Registry!CacheForget(c) \/ Registry!fetchFromEtcd(c)
          PROVE  RegistryInv'
      BY <2>3, CacheAppendKeeps, CacheForgetKeeps, FetchKeeps
    <2>4. CASE \/ \E v \in Watcher : Registry!watchService(v)
               \/ Registry!Expire \/ Registry!RemoteChange
      BY <2>4, WatchEventKeeps, ExpireKeeps, RemoteKeeps
    <2>5. CASE \/ \E v \in Watcher : Registry!Watch(v)
               \/ Registry!Stop \/ Registry!KeepAliveFails
               \/ Registry!keepAlive \/ UNCHANGED Registry!vars
      BY <2>5, QuietRegistryKeeps
    <2> QED
      BY <2>1, <2>2, <2>3, <2>4, <2>5 DEF Registry!Next, Registry!CallStep
  <1>3. RegistryInv => Registry!WatchedIsCached
    <2> SUFFICES ASSUME RegistryInv, NEW v \in Watcher, watch[v].on, watch[v].queue = <<>>,
                        NEW i \in watch[v].seen \ raced, key[i] # NoKey
                 PROVE  i \in Registry!Range(cache.list)
      BY DEF Registry!WatchedIsCached, Registry!Caught
    <2>1. Announced(v, i) \/ Kept(i)
      BY DEF RegistryInv, SeenInv
    <2> QED
      BY <2>1 DEF Announced, Kept
  <1>4. Registry!Init => BoundInv
    <2> SUFFICES ASSUME Registry!Init PROVE BoundInv
      OBVIOUS
    <2>1. Putting = {} /\ \A c \in Caller : call[c].lease = 0
      BY DEF Registry!Init, Registry!Idle, Putting, Holding
    <2> QED
      BY <2>1, FS_EmptySet DEF Registry!Init, BoundInv, RegistryAssumption
  <1>5. RegistryInv /\ BoundInv => Registry!TypeOK
    <2> SUFFICES ASSUME RegistryInv, BoundInv PROVE Registry!TypeOK
      OBVIOUS
    <2>1. /\ granted \in 0 .. MaxLeases /\ lease \in 0 .. MaxLeases /\ keepers \in 0 .. MaxLeases
          /\ live \subseteq 1 .. MaxLeases
      <3>1. Cardinality(Putting) \in Nat
        BY FS_CardinalityType DEF BoundInv
      <3> QED
        BY <3>1 DEF RegistryInv, RegistryTypes, BoundInv, RegistryAssumption
    <2>2. key \in [Instance -> {NoKey} \cup 0 .. MaxLeases]
      BY <2>1 DEF RegistryInv, RegistryTypes, LeaseInv, RegistryAssumption
    <2>3. \A c \in Caller : /\ call[c] \in RegistryCall /\ call[c].lease \in 0 .. MaxLeases
      BY <2>1 DEF RegistryInv, RegistryTypes, BoundInv, RegistryCall, RegistryAssumption
    <2>4. \A c \in Caller : /\ call[c].pc \in {"idle", "set", "put", "append", "forget", "store"}
                            /\ call[c].of \in Instance \cup {NoInstance}
                            /\ call[c].lease \in 0 .. MaxLeases /\ call[c].got \in Seq(Instance)
      BY <2>3 DEF RegistryCall, RegistryPoint
    <2>5. /\ cache.known \in BOOLEAN /\ cache.list \in Seq(Instance)
          /\ \A v \in Watcher :
                /\ watch[v].on \in BOOLEAN /\ watch[v].seen \subseteq Instance
                /\ watch[v].queue \in Seq([type : {"put", "delete"}, of : Instance])
      BY DEF RegistryInv, RegistryTypes, RegistryWatch, RegistryEvent
    <2> QED
      BY <2>1, <2>2, <2>4, <2>5
      DEF Registry!TypeOK, RegistryInv, RegistryTypes, BoundInv
  <1> QED
    BY <1>1, <1>2, <1>3, <1>4, <1>5, BoundKeeps, PTL DEF Registry!Spec

-----------------------------------------------------------------------------
(***************************************************************************)
(* Discovery, for finitely many servers and any number of clients, leases  *)
(* and faults: the Register of each server, etcd and the resolver that all *)
(* clients share, together.                                                *)
(***************************************************************************)
CONSTANTS Server, Serves, NoClient

VARIABLES reg, cause, res, chan, told, calm, missed

Names == INSTANCE Discovery

\* The bounds are numbers, every server is of a service, and what stands for no key and for
\* no client is neither.
NamesAssumption ==
    /\ IsFiniteSet(Server) /\ MaxLeases \in Nat /\ MaxFaults \in Nat
    /\ Serves \in [Server -> Client]
    /\ NoKey \notin Names!Key /\ NoClient \notin Client

\* The events of a watch.
NameEvent == [type : {"put"}, of : Names!Address] \cup [type : {"delete"}, of : Server]

RegisterState ==
    [pc : {"idle", "grant", "keep", "put", "loop", "unregister", "revoke", "failed"},
     first : BOOLEAN, stop : BOOLEAN, weight : Names!Weight, data : Names!Weight,
     lease : 0 .. MaxLeases, ch : 0 .. MaxLeases, upd : BOOLEAN]

WatchState == [prefix : Client, open : BOOLEAN, queue : Seq(NameEvent)]

ProcState ==
    [pc : {"new", "get", "clear", "fill", "push", "start", "loop", "select", "write", "closed",
           "failed"},
     built : BOOLEAN, asks : Client \cup {NoClient}, on : Client \cup {NoClient},
     end : Client \cup {NoClient}, got : Seq(Names!Address), ev : NameEvent \cup {NoClient}]

NameTypes ==
    /\ key \in [Server -> Names!Key \cup {NoKey}]
    /\ live \in [Server -> SUBSET (1 .. MaxLeases)]
    /\ reg \in [Server -> RegisterState]
    /\ cause \in [Server -> {"none", "put", "revoke"}]
    /\ res \in [client : Client \cup {NoClient}, watch : Client \cup {NoClient},
                list : Seq(Names!Address)]
    /\ chan \in [Client -> WatchState] /\ proc \in [Client -> ProcState]
    /\ told \in [Client -> Seq(Names!Address)]
    /\ calm \in BOOLEAN /\ missed \subseteq Server /\ faults \in 0 .. MaxFaults

\* What a client finds when it comes to a step: the Resolver is of a client, a watch was
\* opened, an event was taken.
ComesTo(c) ==
    /\ proc[c].pc # "new" => res.client \in Client
    /\ proc[c].pc = "new" => ~proc[c].built
    /\ proc[c].built => res.watch \in Client
    /\ proc[c].pc \in {"loop", "select", "write"} => proc[c].built
    /\ proc[c].pc = "get" => proc[c].asks \in Client
    /\ proc[c].pc = "select" => proc[c].on \in Client
    /\ proc[c].pc = "write" => proc[c].ev \in NameEvent

\* The nth event of a queue is the last one about s.
LastAbout(q, s, n) ==
    /\ Names!EventAddr(q[n]) = s
    /\ \A m \in DOMAIN q : m > n => Names!EventAddr(q[m]) # s

\* The events of a watch are about servers of its service, and the last one about a server
\* is about the key it has.
Follows(q, p, k) ==
    /\ \A n \in DOMAIN q : Serves[Names!EventAddr(q[n])] = p
    /\ \A n \in DOMAIN q, s \in Server : LastAbout(q, s, n) => (q[n].type = "put" <=> k[s] # NoKey)

ServerQueueInv ==
    \A c \in Client :
        /\ chan[c].queue # <<>> => chan[c].open
        /\ Follows(chan[c].queue, chan[c].prefix, key)

\* A list has the addresses of the set there, but for those of the set out, each once.
Good(t, out, there) ==
    /\ Names!Distinct(t)
    /\ \A s \in Server \ out : s \in Names!Addrs(t) <=> s \in there

\* A list is good but for what the event e is about.
Nearly(t, e, out, there) ==
    /\ Names!Distinct(t)
    /\ \A s \in Server \ out : IF s = Names!EventAddr(e) THEN e.type = "put" <=> s \in there
                                ELSE s \in Names!Addrs(t) <=> s \in there

Out == Names!Untold
There == Names!Present(res.client)

\* What c, the only one that works, has in hand is good or will be.
Carries(c) ==
    /\ proc[c].pc = "clear" => Good(proc[c].got, Out, There)
    /\ proc[c].pc = "fill" => Good(proc[c].got, Out, There) /\ res.list = <<>>
    /\ proc[c].pc = "push" => Good(res.list, Out, There)
    /\ proc[c].pc = "write" =>
          /\ proc[c].got = res.list /\ told[res.client] = res.list
          /\ Nearly(res.list, proc[c].ev, Out, There)

Rests == Good(res.list, Out, There) /\ told[res.client] = res.list

CalmState ==
    /\ res.client \in Client
    /\ \A c, d \in Client : Names!Works(c) /\ Names!Works(d) => c = d
    /\ \A c \in Client : Carries(c)
    /\ (\A c \in Client : ~Names!Works(c)) => Rests

CalmInv == calm => CalmState

\* A client with a Resolver of its own finds what it left there.
Owns(c) ==
    /\ res.client = c
    /\ proc[c].pc = "get" => proc[c].asks = c
    /\ proc[c].built => res.watch = c /\ chan[c].prefix = c
    /\ proc[c].pc = "select" => proc[c].on = c
    /\ proc[c].pc # "failed" /\ (proc[c].pc = "get" => proc[c].built) => calm

SingleInv == \A c \in Client : Names!Single(c) /\ proc[c].pc # "new" => Owns(c)

NamesInv ==
    /\ NameTypes /\ (\A c \in Client : ComesTo(c))
    /\ ServerQueueInv /\ CalmInv /\ SingleInv

LEMMA EventsAreAbout ==
    ASSUME NEW e \in NameEvent
    PROVE  /\ Names!EventAddr(e) \in Server /\ e.type \in {"put", "delete"}
           /\ e.type = "put" => e.of \in Names!Address /\ Names!EventAddr(e) = e.of.addr
           /\ e.type = "delete" => e.of \in Server /\ Names!EventAddr(e) = e.of
  <1>1. CASE e \in [type : {"put"}, of : Names!Address]
    BY <1>1 DEF Names!EventAddr, Names!Address
  <1>2. CASE e \in [type : {"delete"}, of : Server]
    BY <1>2 DEF Names!EventAddr
  <1> QED
    BY <1>1, <1>2 DEF NameEvent

\* A list without the address of s: RemoveAddr overwrites its place with the last one.
LEMMA RemoveAddrRemoves ==
    ASSUME NEW t \in Seq(Names!Address), NEW s \in Server
    PROVE  LET u == Names!RemoveAddr(t, s)
           IN  /\ u \in Seq(Names!Address)
               /\ Names!Distinct(t) => /\ Names!Distinct(u)
                                       /\ Names!Addrs(u) = Names!Addrs(t) \ {s}
  <1> DEFINE u == Names!RemoveAddr(t, s)
  <1>1. Len(t) \in Nat /\ DOMAIN t = 1 .. Len(t) /\ \A i \in 1 .. Len(t) : t[i] \in Names!Address
    OBVIOUS
  <1>2. CASE \A i \in DOMAIN t : t[i].addr # s
    BY <1>2 DEF Names!RemoveAddr, Names!Addrs
  <1>3. CASE ~\A i \in DOMAIN t : t[i].addr # s
    <2>1. \E j \in DOMAIN t : t[j].addr = s /\ \A k \in 1 .. j - 1 : t[k].addr # s
      <3> DEFINE places == {j \in DOMAIN t : t[j].addr = s}
      <3>1. places \subseteq 1 .. Len(t) /\ places # {}
        BY <1>1, <1>3
      <3>2. PICK m \in places : \A k \in 1 .. m - 1 : k \notin places
        <4> HIDE DEF places
        <4> QED
          BY <1>1, <3>1, FirstPlace
      <3> QED
        BY <1>1, <3>2
    <2>2. PICK p \in DOMAIN t :
             t[p].addr = s /\ u = Names!Front([t EXCEPT ![p] = Names!Last(t)])
      BY <1>3, <2>1 DEF Names!RemoveAddr
    <2> DEFINE over == [t EXCEPT ![p] = t[Len(t)]]
    <2>3. over \in Seq(Names!Address) /\ Len(over) = Len(t)
      BY <1>1, <2>2
    <2>4. u = SubSeq(over, 1, Len(t) - 1)
      BY <2>2, <2>3 DEF Names!Front, Names!Last
    <2>5. \A i \in 1 .. Len(t) : over[i] = IF i = p THEN t[Len(t)] ELSE t[i]
      BY <1>1
    <2>0. p \in 1 .. Len(t) /\ t[p].addr = s
      BY <1>1, <2>2
    <2> HIDE DEF over, u
    <2>6. /\ u \in Seq(Names!Address) /\ Len(u) = Len(t) - 1
          /\ \A i \in 1 .. Len(t) - 1 : u[i] = over[i]
      <3>1. \A i \in 1 .. Len(t) - 1 : over[i] \in Names!Address
        BY <1>1, <2>5
      <3>2. PICK n \in Nat : n = Len(t) - 1
        <4>1. Len(t) - 1 \in Nat
          BY <1>1, <2>0
        <4> QED
          BY <4>1
      <3>3. /\ u \in Seq(Names!Address)
            /\ Len(u) = IF 1 <= n THEN n - 1 + 1 ELSE 0
            /\ \A i \in 1 .. n - 1 + 1 : u[i] = over[1 + i - 1]
        BY <1>1, <2>3, <2>4, <3>1, <3>2, SubSeqProperties
      <3>4. Len(u) = n /\ \A i \in 1 .. n : u[i] = over[i]
        BY <3>2, <3>3
      <3> QED
        BY <3>2, <3>3, <3>4
    <2>7. /\ DOMAIN u = 1 .. Len(t) - 1
          /\ \A i \in 1 .. Len(t) - 1 : u[i] = IF i = p THEN t[Len(t)] ELSE t[i]
      BY <1>1, <2>5, <2>6
    <2>8. Names!Distinct(t) => Names!Distinct(u)
      BY <1>1, <2>7 DEF Names!Distinct
    <2>9. ASSUME Names!Distinct(t), NEW i \in DOMAIN u
          PROVE  u[i].addr # s /\ \E j \in DOMAIN t : t[j].addr = u[i].addr
      <3>1. i \in 1 .. Len(t) - 1
        BY <2>7
      <3>2. PICK j \in DOMAIN t : u[i] = t[j] /\ j # p
        <4>1. CASE i = p
          <5>1. u[i] = t[Len(t)] /\ Len(t) \in DOMAIN t /\ Len(t) # p
            BY <1>1, <2>7, <3>1, <4>1
          <5> QED
            BY <5>1
        <4>2. CASE i # p
          <5>1. u[i] = t[i] /\ i \in DOMAIN t
            BY <1>1, <2>7, <3>1, <4>2
          <5> QED
            BY <4>2, <5>1
        <4> QED
          BY <4>1, <4>2
      <3>3. t[j].addr # s
        BY <2>0, <2>9, <3>2 DEF Names!Distinct
      <3> QED
        BY <3>2, <3>3
    <2>10. ASSUME NEW j \in DOMAIN t, t[j].addr # s
           PROVE  \E i \in DOMAIN u : u[i].addr = t[j].addr
      <3>1. j # p /\ j \in 1 .. Len(t)
        BY <1>1, <2>0, <2>10
      <3>2. CASE j = Len(t)
        <4>1. p \in 1 .. Len(t) - 1 /\ u[p] = t[j]
          BY <1>1, <2>0, <2>7, <3>1, <3>2
        <4> QED
          BY <2>7, <4>1
      <3>3. CASE j # Len(t)
        <4>1. j \in 1 .. Len(t) - 1 /\ u[j] = t[j]
          BY <1>1, <2>7, <3>1, <3>3
        <4> QED
          BY <2>7, <4>1
      <3> QED
        BY <3>2, <3>3
    <2>11. Names!Distinct(t) => Names!Addrs(u) = Names!Addrs(t) \ {s}
      BY <2>9, <2>10 DEF Names!Addrs
    <2> QED
      BY <2>6, <2>8, <2>11 DEF u
  <1> QED
    BY <1>2, <1>3

\* An event leaves a list.
LEMMA UpdatedIsTyped ==
    ASSUME NEW t \in Seq(Names!Address), NEW e \in NameEvent
    PROVE  Names!Updated(t, e) \in Seq(Names!Address)
  <1>1. CASE e.type = "put"
    BY <1>1, EventsAreAbout, AppendProperties DEF Names!Updated
  <1>2. CASE e.type # "put"
    BY <1>2, EventsAreAbout, RemoveAddrRemoves DEF Names!Updated
  <1> QED
    BY <1>1, <1>2

\* A list that is good but for an event is good once the event is handled.
LEMMA UpdatedIsGood ==
    ASSUME NEW t \in Seq(Names!Address), NEW e \in NameEvent, NEW out, NEW there,
           Nearly(t, e, out, there)
    PROVE  /\ e.type = "put" /\ Names!Exist(t, e.of) => Good(t, out, there)
           /\ ~(e.type = "put" /\ Names!Exist(t, e.of)) =>
                 /\ Names!Updated(t, e) \in Seq(Names!Address)
                 /\ Good(Names!Updated(t, e), out, there)
  <1>1. Len(t) \in Nat /\ DOMAIN t = 1 .. Len(t)
    OBVIOUS
  <1>2. CASE e.type = "put"
    <2>1. e.of \in Names!Address /\ Names!EventAddr(e) = e.of.addr
      BY <1>2, EventsAreAbout
    <2>2. CASE Names!Exist(t, e.of)
      <3>1. e.of.addr \in Names!Addrs(t)
        BY <2>2 DEF Names!Exist, Names!Addrs
      <3> QED
        BY <1>2, <2>1, <2>2, <3>1 DEF Good, Nearly
    <2>3. CASE ~Names!Exist(t, e.of)
      <3> DEFINE longer == Append(t, e.of)
      <3>1. Names!Updated(t, e) = longer
        BY <1>2 DEF Names!Updated
      <3>2. /\ longer \in Seq(Names!Address) /\ Len(longer) = Len(t) + 1
            /\ \A i \in 1 .. Len(t) : longer[i] = t[i]
            /\ longer[Len(t) + 1] = e.of
        BY <1>1, <2>1, AppendProperties
      <3>3. DOMAIN longer = 1 .. Len(t) + 1 /\ \A i \in 1 .. Len(t) : t[i].addr # e.of.addr
        BY <1>1, <2>3, <3>2 DEF Names!Exist
      <3> HIDE DEF longer
      <3>4. Names!Distinct(longer)
        BY <1>1, <3>2, <3>3 DEF Names!Distinct, Nearly
      <3>5. Names!Addrs(longer) = Names!Addrs(t) \cup {e.of.addr}
        <4>1. ASSUME NEW i \in DOMAIN longer
              PROVE  longer[i].addr = e.of.addr \/ \E j \in DOMAIN t : t[j].addr = longer[i].addr
          BY <1>1, <3>2, <3>3
        <4>2. ASSUME NEW j \in DOMAIN t
              PROVE  \E i \in DOMAIN longer : longer[i].addr = t[j].addr
          BY <1>1, <3>2, <3>3
        <4>3. \E i \in DOMAIN longer : longer[i].addr = e.of.addr
          BY <1>1, <3>2, <3>3
        <4> QED
          BY <4>1, <4>2, <4>3 DEF Names!Addrs
      <3>6. Good(longer, out, there)
        BY <1>2, <2>1, <3>4, <3>5 DEF Good, Nearly
      <3> QED
        BY <2>3, <3>1, <3>2, <3>6
    <2> QED
      BY <2>2, <2>3
  <1>3. CASE e.type = "delete"
    <2>1. /\ e.of \in Server /\ Names!EventAddr(e) = e.of /\ e.type # "put"
          /\ Names!Updated(t, e) = Names!RemoveAddr(t, e.of)
      BY <1>3, EventsAreAbout DEF Names!Updated
    <2> DEFINE u == Names!RemoveAddr(t, e.of)
    <2>2. /\ u \in Seq(Names!Address)
          /\ Names!Distinct(u)
          /\ Names!Addrs(u) = Names!Addrs(t) \ {e.of}
      BY <2>1, RemoveAddrRemoves DEF Nearly
    <2> HIDE DEF u
    <2>3. Good(u, out, there)
      BY <2>1, <2>2 DEF Good, Nearly
    <2>4. Names!Updated(t, e) = u /\ e.type # "put"
      BY <2>1 DEF u
    <2> QED
      BY <2>2, <2>3, <2>4
  <1> QED
    BY <1>2, <1>3, EventsAreAbout

\* All keys of a service, as sync lists them.
LEMMA KeysAreListed ==
    ASSUME NamesAssumption, NameTypes, NEW p
    PROVE  /\ Names!Kvs(p) \in Seq(Names!Address)
           /\ Names!Distinct(Names!Kvs(p))
           /\ Names!Addrs(Names!Kvs(p)) = Names!Present(p)
  <1> DEFINE there == Names!Present(p)
             addresses == {[addr |-> s, weight |-> key[s].weight] : s \in there}
             t == Names!Kvs(p)
  <1>1. addresses \subseteq Names!Address
    BY DEF NameTypes, Names!Key, Names!Address, Names!Present
  <1>2. IsFiniteSet(addresses)
    <2>1. IsFiniteSet(there)
      BY FS_Subset DEF NamesAssumption, Names!Present
    <2> HIDE DEF there
    <2>2. [s \in there |-> [addr |-> s, weight |-> key[s].weight]] \in Surjection(there, addresses)
      BY DEF Surjection
    <2> QED
      BY <2>1, <2>2, FS_Surjection
  <1>3. ASSUME NEW a \in addresses
        PROVE  a.addr \in there /\ a = [addr |-> a.addr, weight |-> key[a.addr].weight]
    <2> HIDE DEF there
    <2>1. PICK s \in there : a = [addr |-> s, weight |-> key[s].weight]
      OBVIOUS
    <2> QED
      BY <2>1
  <1>4. ASSUME NEW s \in there PROVE \E a \in addresses : a.addr = s
    <2> HIDE DEF there
    <2>1. [addr |-> s, weight |-> key[s].weight] \in addresses
      OBVIOUS
    <2> HIDE DEF addresses
    <2> QED
      BY <2>1
  <1>5. t = ListingOf(addresses)
    BY DEF ListingOf, Names!Kvs, Names!SetToSeq, Names!IsInjective, Names!Cardinality,
       Cardinality,
           Names!IsFiniteSet, IsFiniteSet
  <1> HIDE DEF t, addresses, there
  <1>6. /\ t \in Seq(addresses) /\ \A a \in addresses : \E i \in DOMAIN t : t[i] = a
        /\ \A i, j \in DOMAIN t : t[i] = t[j] => i = j
    BY <1>2, <1>5, ListOfSet
  <1>7. t \in Seq(Names!Address)
    BY <1>1, <1>6
  <1>8. Names!Distinct(t)
    <2>1. ASSUME NEW i \in DOMAIN t, NEW j \in DOMAIN t, t[i].addr = t[j].addr PROVE i = j
      <3>1. t[i] = [addr |-> t[i].addr, weight |-> key[t[i].addr].weight]
        BY <1>3, <1>6
      <3>2. t[j] = [addr |-> t[j].addr, weight |-> key[t[j].addr].weight]
        BY <1>3, <1>6
      <3> QED
        BY <1>6, <2>1, <3>1, <3>2
    <2> QED
      BY <2>1 DEF Names!Distinct
  <1>9. Names!Addrs(t) = there
    <2>1. ASSUME NEW i \in DOMAIN t PROVE t[i].addr \in there
      BY <1>3, <1>6
    <2>2. ASSUME NEW s \in there PROVE \E i \in DOMAIN t : t[i].addr = s
      BY <1>4, <1>6
    <2> QED
      BY <2>1, <2>2 DEF Names!Addrs
  <1> QED
    BY <1>7, <1>8, <1>9 DEF t, there

\* A watch that sees a change has one more event, which is the last one about its server.
LEMMA LongerFollows ==
    ASSUME NEW q \in Seq(NameEvent), NEW p, NEW k, NEW k2, NEW s \in Server,
           NEW e \in NameEvent, Names!EventAddr(e) = s, Serves[s] = p,
           Follows(q, p, k), \A x \in Server \ {s} : k2[x] = k[x],
           e.type = "put" <=> k2[s] # NoKey
    PROVE  Follows(Append(q, e), p, k2)
  <1> DEFINE r == Append(q, e)
  <1>1. /\ r \in Seq(NameEvent) /\ Len(r) = Len(q) + 1
        /\ \A n \in 1 .. Len(q) : r[n] = q[n]
        /\ r[Len(q) + 1] = e
    BY AppendProperties
  <1> HIDE DEF r
  <1>2. /\ Len(q) \in Nat /\ DOMAIN q = 1 .. Len(q)
        /\ DOMAIN r = 1 .. Len(q) + 1
    BY <1>1
  <1>3. ASSUME NEW n \in DOMAIN r PROVE Serves[Names!EventAddr(r[n])] = p
    BY <1>1, <1>2 DEF Follows
  <1>4. ASSUME NEW n \in DOMAIN r, NEW x \in Server, LastAbout(r, x, n)
        PROVE  r[n].type = "put" <=> k2[x] # NoKey
    <2>1. CASE n = Len(q) + 1
      BY <1>1, <1>4, <2>1 DEF LastAbout
    <2>2. CASE n # Len(q) + 1
      <3>1. n \in DOMAIN q /\ r[n] = q[n] /\ Len(q) + 1 \in DOMAIN r /\ Len(q) + 1 > n
        BY <1>1, <1>2, <2>2
      <3>2. x # s
        BY <1>1, <1>4, <3>1 DEF LastAbout
      <3>3. LastAbout(q, x, n)
        BY <1>1, <1>2, <1>4, <3>1 DEF LastAbout
      <3> QED
        BY <3>1, <3>2, <3>3 DEF Follows
    <2> QED
      BY <2>1, <2>2
  <1>5. Follows(r, p, k2)
    BY <1>3, <1>4 DEF Follows
  <1> QED
    BY <1>5 DEF r

\* A watch that does not see a change is not about its server.
LEMMA OtherFollows ==
    ASSUME NEW q, NEW p, NEW k, NEW k2, NEW s \in Server,
           Serves[s] # p \/ q = <<>>,
           Follows(q, p, k), \A x \in Server \ {s} : k2[x] = k[x]
    PROVE  Follows(q, p, k2)
  <1>1. ASSUME NEW n \in DOMAIN q, NEW x \in Server, LastAbout(q, x, n)
        PROVE  q[n].type = "put" <=> k2[x] # NoKey
    <2>1. x # s
      BY <1>1 DEF LastAbout, Follows
    <2> QED
      BY <1>1, <2>1 DEF Follows
  <1> QED
    BY <1>1 DEF Follows

\* A change of the key of s, with its event.
LEMMA EmitKeeps ==
    ASSUME NamesAssumption, NamesInv, NEW s \in Server, NEW e \in NameEvent,
           Names!EventAddr(e) = s, Names!Emit(s, e),
           \A x \in Server \ {s} : key'[x] = key[x],
           e.type = "put" <=> key'[s] # NoKey,
           UNCHANGED <<res, proc, told, calm>>
    PROVE  /\ chan' \in [Client -> WatchState] /\ missed' \subseteq Server
           /\ ServerQueueInv' /\ CalmInv' /\ SingleInv'
  <1>1. /\ chan \in [Client -> WatchState] /\ missed \subseteq Server
        /\ res.watch \in Client \cup {NoClient} /\ NoClient \notin Client
        /\ Serves \in [Server -> Client]
    BY DEF NamesInv, NameTypes, NamesAssumption
  <1>2. ASSUME NEW c \in Client
        PROVE  /\ chan[c].queue \in Seq(NameEvent) /\ chan[c] \in WatchState
               /\ Append(chan[c].queue, e) \in Seq(NameEvent)
               /\ chan'[c] = IF Names!Sees(c, Serves[s])
                             THEN [chan[c] EXCEPT !.queue = Append(@, e)] ELSE chan[c]
    BY <1>1 DEF Names!Emit, WatchState
  <1>3. chan' \in [Client -> WatchState]
    BY <1>1, <1>2 DEF Names!Emit, WatchState
  <1>4. missed' \subseteq Server
    BY <1>1 DEF Names!Emit
  <1>5. ASSUME NEW c \in Client
        PROVE  /\ chan'[c].prefix = chan[c].prefix
               /\ chan'[c].queue # <<>> => chan'[c].open
               /\ Follows(chan'[c].queue, chan'[c].prefix, key')
    <2>1. /\ chan[c].queue # <<>> => chan[c].open
          /\ Follows(chan[c].queue, chan[c].prefix, key)
      BY DEF NamesInv, ServerQueueInv
    <2>2. CASE Names!Sees(c, Serves[s])
      <3>1. /\ chan[c].open /\ Serves[s] = chan[c].prefix
            /\ chan'[c] = [chan[c] EXCEPT !.queue = Append(@, e)]
        BY <1>2, <2>2 DEF Names!Sees
      <3>2. /\ chan'[c].prefix = chan[c].prefix /\ chan'[c].open = chan[c].open
            /\ chan'[c].queue = Append(chan[c].queue, e)
        BY <1>2, <3>1 DEF WatchState
      <3>3. Follows(Append(chan[c].queue, e), chan[c].prefix, key')
        BY <1>2, <2>1, <3>1, LongerFollows
      <3> QED
        BY <3>1, <3>2, <3>3
    <2>3. CASE ~Names!Sees(c, Serves[s])
      <3>1. chan'[c] = chan[c] /\ (Serves[s] # chan[c].prefix \/ chan[c].queue = <<>>)
        BY <1>2, <2>1, <2>3 DEF Names!Sees
      <3>2. Follows(chan[c].queue, chan[c].prefix, key')
        BY <2>1, <3>1, OtherFollows
      <3> QED
        BY <2>1, <3>1, <3>2
    <2> QED
      BY <2>2, <2>3
  <1>6. ServerQueueInv'
    BY <1>5 DEF ServerQueueInv
  <1>7. SingleInv'
    BY <1>5 DEF NamesInv, SingleInv, Owns, Names!Single
  <1>8. Out \cup {s} \subseteq Out'
    <2>1. CASE Names!Sees(res.watch, Serves[s])
      <3> DEFINE w == res.watch
                 q == chan[w].queue
                 r == Append(q, e)
      <3>1. /\ w \in Client /\ missed' = missed /\ chan'[w] = [chan[w] EXCEPT !.queue = r]
            /\ q \in Seq(NameEvent)
        BY <1>2, <2>1 DEF Names!Sees, Names!Emit
      <3>2. chan'[w].queue = r
        BY <1>2, <3>1 DEF WatchState
      <3>3. /\ DOMAIN r = 1 .. Len(q) + 1 /\ r[Len(q) + 1] = e /\ DOMAIN q = 1 .. Len(q)
            /\ Len(q) \in Nat /\ \A n \in 1 .. Len(q) : r[n] = q[n]
        <4> HIDE DEF q
        <4>1. /\ r \in Seq(NameEvent) /\ Len(r) = Len(q) + 1 /\ Len(q) \in Nat
              /\ \A n \in 1 .. Len(q) : r[n] = q[n]
              /\ r[Len(q) + 1] = e
          BY <3>1, AppendProperties
        <4> HIDE DEF r
        <4> QED
          BY <3>1, <4>1
      <3> HIDE DEF r, q
      <3>4. /\ Out = missed \cup {Names!EventAddr(q[i]) : i \in DOMAIN q}
            /\ Out' = missed \cup {Names!EventAddr(r[i]) : i \in DOMAIN r}
        BY <1>1, <3>1, <3>2
           DEF Out, Names!Untold, Names!Waiting, Names!EventAddr, q
      <3>5. ASSUME NEW i \in DOMAIN q PROVE i \in DOMAIN r /\ r[i] = q[i]
        BY <3>3
      <3>6. Len(q) + 1 \in DOMAIN r /\ Names!EventAddr(r[Len(q) + 1]) = s
        BY <3>3
      <3> QED
        BY <3>4, <3>5, <3>6
    <2>2. CASE ~Names!Sees(res.watch, Serves[s])
      <3>1. missed' = missed \cup {s} /\ (res.watch \in Client => chan'[res.watch] = chan[res.watch])
        BY <1>2, <2>2 DEF Names!Emit
      <3> QED
        BY <1>1, <3>1 DEF Out, Names!Untold, Names!Waiting, Names!EventAddr
    <2> QED
      BY <2>1, <2>2
  <1>9. \A x \in Server \ {s} : x \in There' <=> x \in There
    BY DEF There, Names!Present
  <1>10. ASSUME NEW t, Good(t, Out, There) PROVE Good(t, Out', There')
    BY <1>8, <1>9, <1>10 DEF Good
  <1>11. ASSUME NEW t, NEW x, Nearly(t, x, Out, There) PROVE Nearly(t, x, Out', There')
    BY <1>8, <1>9, <1>11 DEF Nearly
  <1>12. CalmInv'
    <2> SUFFICES ASSUME calm' PROVE CalmState'
      BY DEF CalmInv
    <2>1. CalmState
      BY DEF NamesInv, CalmInv
    <2>2. \A c \in Client : Carries(c)'
      BY <1>10, <1>11, <2>1 DEF CalmState, Carries
    <2>3. Rests => Rests'
      BY <1>10 DEF Rests
    <2> QED
      BY <2>1, <2>2, <2>3 DEF CalmState, Names!Works
  <1> QED
    BY <1>3, <1>4, <1>6, <1>7, <1>12

\* The keys of etcd, seen from the resolver.
LEMMA KeyMoves ==
    ASSUME NamesAssumption, NamesInv, NEW s \in Server, UNCHANGED <<res, proc, told, calm>>,
           \/ \E w \in Names!Weight, n \in 1 .. MaxLeases : Names!PutKey(s, w, n)
           \/ Names!DeleteKey(s)
           \/ UNCHANGED <<key, chan, missed>>
    PROVE  /\ key' \in [Server -> Names!Key \cup {NoKey}]
           /\ chan' \in [Client -> WatchState] /\ missed' \subseteq Server
           /\ ServerQueueInv' /\ CalmInv' /\ SingleInv'
  <1>1. key \in [Server -> Names!Key \cup {NoKey}]
    BY DEF NamesInv, NameTypes
  <1>2. ASSUME NEW w \in Names!Weight, NEW n \in 1 .. MaxLeases, Names!PutKey(s, w, n)
        PROVE  /\ key' \in [Server -> Names!Key \cup {NoKey}]
               /\ chan' \in [Client -> WatchState] /\ missed' \subseteq Server
               /\ ServerQueueInv' /\ CalmInv' /\ SingleInv'
    <2> DEFINE e == [type |-> "put", of |-> [addr |-> s, weight |-> w]]
    <2>1. key' = [key EXCEPT ![s] = [weight |-> w, lease |-> n]] /\ Names!Emit(s, e)
      BY <1>2 DEF Names!PutKey
    <2>2. [weight |-> w, lease |-> n] \in Names!Key /\ [weight |-> w, lease |-> n] # NoKey
      BY DEF Names!Key, NamesAssumption
    <2>3. e \in NameEvent /\ Names!EventAddr(e) = s /\ e.type = "put"
      BY DEF NameEvent, Names!Address, Names!EventAddr
    <2> HIDE DEF e
    <2>4. /\ key' \in [Server -> Names!Key \cup {NoKey}] /\ key'[s] # NoKey
          /\ \A x \in Server \ {s} : key'[x] = key[x]
      BY <1>1, <2>1, <2>2
    <2> QED
      BY <2>1, <2>3, <2>4, EmitKeeps
  <1>3. CASE Names!DeleteKey(s) /\ key[s] # NoKey
    <2> DEFINE e == [type |-> "delete", of |-> s]
    <2>1. key' = [key EXCEPT ![s] = NoKey] /\ Names!Emit(s, e)
      BY <1>3 DEF Names!DeleteKey
    <2>2. e \in NameEvent /\ Names!EventAddr(e) = s /\ e.type # "put"
      BY DEF NameEvent, Names!EventAddr
    <2> HIDE DEF e
    <2>3. /\ key' \in [Server -> Names!Key \cup {NoKey}] /\ key'[s] = NoKey
          /\ \A x \in Server \ {s} : key'[x] = key[x]
      BY <1>1, <2>1
    <2> QED
      BY <2>1, <2>2, <2>3, EmitKeeps
  <1>4. CASE UNCHANGED <<key, chan, missed>>
    <2>1. ServerQueueInv'
      BY <1>4 DEF NamesInv, ServerQueueInv
    <2>2. SingleInv'
      BY <1>4 DEF NamesInv, SingleInv, Owns, Names!Single
    <2>3. Out' = Out /\ There' = There
      BY <1>4 DEF Out, There, Names!Untold, Names!Waiting, Names!EventAddr, Names!Present
    <2>4. CalmInv'
      BY <2>3 DEF NamesInv, CalmInv, CalmState, Carries, Rests, Names!Works
    <2> QED
      BY <1>1, <1>4, <2>1, <2>2, <2>4 DEF NamesInv, NameTypes
  <1> QED
    BY <1>2, <1>3, <1>4 DEF Names!DeleteKey

\* What a server and etcd do to the key of the server, and the types of the rest.
LEMMA RegisterMoves ==
    ASSUME NamesAssumption, NamesInv, NEW s \in Server,
           \/ Names!Register(s) \/ Names!RegisterStep(s) \/ Names!Stop(s)
           \/ Names!UpdateHandler(s) \/ Names!UpdatePut(s) \/ Names!Expire(s)
    PROVE  /\ \/ \E w \in Names!Weight, n \in 1 .. MaxLeases : Names!PutKey(s, w, n)
              \/ Names!DeleteKey(s)
              \/ UNCHANGED <<key, chan, missed>>
           /\ UNCHANGED <<res, proc, told, calm>>
           /\ live' \in [Server -> SUBSET (1 .. MaxLeases)]
           /\ reg' \in [Server -> RegisterState]
           /\ cause' \in [Server -> {"none", "put", "revoke"}]
           /\ faults' \in 0 .. MaxFaults
  <1>1. /\ live \in [Server -> SUBSET (1 .. MaxLeases)] /\ reg \in [Server -> RegisterState]
        /\ cause \in [Server -> {"none", "put", "revoke"}] /\ faults \in 0 .. MaxFaults
        /\ MaxLeases \in Nat /\ MaxFaults \in Nat
    BY DEF NamesInv, NameTypes, NamesAssumption
  <1>2. Names!Fault => faults' \in 0 .. MaxFaults
    BY <1>1 DEF Names!Fault
  <1>3. ASSUME NEW l \in {"idle", "grant", "keep", "put", "loop", "unregister", "revoke", "failed"},
               Names!Goto(s, l)
        PROVE  reg' \in [Server -> RegisterState]
    BY <1>1, <1>3 DEF Names!Goto, RegisterState
  <1>4. Names!ErrorGoto(s) \in {"failed", "loop"}
    BY DEF Names!ErrorGoto
  <1>5. ASSUME NEW n, Names!EndLease(s, n)
        PROVE  /\ live' \in [Server -> SUBSET (1 .. MaxLeases)]
               /\ Names!DeleteKey(s) \/ UNCHANGED <<key, chan, missed>>
    BY <1>1, <1>5 DEF Names!EndLease
  <1>6. CASE Names!Register(s) \/ Names!keepAlive(s)
    <2>1. Names!Goto(s, "grant") /\ Names!OnlyReg
      BY <1>6 DEF Names!Register, Names!keepAlive
    <2> QED
      BY <1>1, <1>3, <2>1 DEF Names!OnlyReg, Names!resolver
  <1>7. CASE Names!Stop(s) \/ Names!UpdateHandler(s)
    <2>1. /\ \/ reg' = [reg EXCEPT ![s].pc = "unregister", ![s].stop = TRUE]
             \/ reg' = [reg EXCEPT ![s].weight = 2, ![s].upd = TRUE]
          /\ Names!OnlyReg
      BY <1>7 DEF Names!Stop, Names!UpdateHandler
    <2>2. 2 \in Names!Weight
      BY DEF Names!Weight
    <2>3. reg' \in [Server -> RegisterState]
      BY <1>1, <2>1, <2>2 DEF RegisterState
    <2> QED
      BY <1>1, <2>1, <2>3 DEF Names!OnlyReg, Names!resolver
  <1>8. CASE Names!Grant(s)
    <2>1. UNCHANGED <<key, chan, missed, cause, res, proc, told, calm>>
      BY <1>8 DEF Names!Grant, Names!resolver
    <2>2. CASE /\ reg[s].lease < MaxLeases /\ UNCHANGED faults
               /\ live' = [live EXCEPT ![s] = @ \cup {reg[s].lease + 1}]
               /\ reg' = [reg EXCEPT ![s].pc = "keep", ![s].lease = reg[s].lease + 1]
      <3>1. reg[s] \in RegisterState /\ reg[s].lease \in 0 .. MaxLeases
        BY <1>1 DEF RegisterState
      <3>2. reg[s].lease + 1 \in 1 .. MaxLeases
        BY <1>1, <2>2, <3>1
      <3>3. reg' \in [Server -> RegisterState]
        BY <1>1, <2>2, <3>2 DEF RegisterState
      <3>4. live' \in [Server -> SUBSET (1 .. MaxLeases)]
        BY <1>1, <2>2, <3>2
      <3> QED
        BY <1>1, <2>1, <2>2, <3>3, <3>4
    <2>3. CASE Names!Fault /\ Names!Goto(s, Names!ErrorGoto(s)) /\ UNCHANGED live
      BY <1>1, <1>2, <1>3, <1>4, <2>1, <2>3
    <2> QED
      BY <1>8, <2>2, <2>3 DEF Names!Grant
  <1>9. CASE Names!KeepAlive(s)
    <2>1. UNCHANGED <<key, live, chan, missed, cause, res, proc, told, calm>>
      BY <1>9 DEF Names!KeepAlive, Names!resolver
    <2>2. /\ \/ UNCHANGED faults
             \/ Names!Fault
          /\ \/ reg' = [reg EXCEPT ![s].pc = "put", ![s].ch = reg[s].lease,
                                   ![s].data = reg[s].weight]
             \/ reg' = [reg EXCEPT ![s].pc = Names!ErrorGoto(s), ![s].ch = 0]
      BY <1>9 DEF Names!KeepAlive
    <2>3. reg[s] \in RegisterState /\ 0 \in 0 .. MaxLeases
      BY <1>1
    <2>4. reg' \in [Server -> RegisterState]
      <3>1. CASE reg' = [reg EXCEPT ![s].pc = "put", ![s].ch = reg[s].lease,
                                    ![s].data = reg[s].weight]
        BY <1>1, <2>3, <3>1 DEF RegisterState
      <3>2. CASE reg' = [reg EXCEPT ![s].pc = Names!ErrorGoto(s), ![s].ch = 0]
        BY <1>1, <1>4, <2>3, <3>2 DEF RegisterState
      <3> QED
        BY <2>2, <3>1, <3>2
    <2> QED
      BY <1>1, <1>2, <2>1, <2>2, <2>4
  <1>10. CASE Names!Put(s)
    <2>1. UNCHANGED <<live, res, proc, told, calm>>
      BY <1>10 DEF Names!Put, Names!ResolverIdle
    <2>2. CASE /\ reg[s].lease \in live[s] /\ Names!PutKey(s, reg[s].data, reg[s].lease)
               /\ reg' = [reg EXCEPT ![s].pc = "loop", ![s].first = FALSE]
               /\ cause' = [cause EXCEPT ![s] = "none"] /\ UNCHANGED faults
      <3>1. reg[s] \in RegisterState
        BY <1>1
      <3>2. reg[s].lease \in 1 .. MaxLeases /\ reg[s].data \in Names!Weight
        BY <1>1, <2>2, <3>1 DEF RegisterState
      <3>3. reg' \in [Server -> RegisterState]
        <4> DEFINE entry == [reg[s] EXCEPT !.pc = "loop", !.first = FALSE]
        <4>1. entry \in RegisterState /\ reg' = [reg EXCEPT ![s] = entry]
          BY <1>1, <2>2 DEF RegisterState
        <4> HIDE DEF entry
        <4> QED
          BY <1>1, <4>1
      <3> QED
        BY <1>1, <2>1, <2>2, <3>2, <3>3
    <2>3. CASE /\ Names!Fault \/ UNCHANGED faults
               /\ Names!Goto(s, Names!ErrorGoto(s))
               /\ cause' = [cause EXCEPT ![s] = "put"] /\ UNCHANGED <<key, chan, missed>>
      BY <1>1, <1>2, <1>3, <1>4, <2>1, <2>3
    <2> QED
      BY <1>10, <2>2, <2>3 DEF Names!Put
  <1>11. CASE Names!unregister(s)
    <2>1. /\ UNCHANGED <<live, cause, res, proc, told, calm>> /\ Names!Goto(s, "revoke")
          /\ \/ Names!DeleteKey(s) /\ UNCHANGED faults
             \/ Names!Fault /\ UNCHANGED <<key, chan, missed>>
      BY <1>11 DEF Names!unregister, Names!ResolverIdle
    <2> QED
      BY <1>1, <1>2, <1>3, <2>1
  <1>12. CASE Names!Revoke(s)
    <2>1. reg' \in [Server -> RegisterState] /\ UNCHANGED <<res, proc, told, calm>>
      BY <1>3, <1>12 DEF Names!Revoke, Names!ResolverIdle
    <2>2. CASE Names!EndLease(s, reg[s].lease) /\ UNCHANGED <<faults, cause>>
      BY <1>1, <1>5, <2>1, <2>2
    <2>3. CASE /\ Names!Fault /\ cause' = [cause EXCEPT ![s] = "revoke"]
               /\ UNCHANGED <<key, live, chan, missed>>
      BY <1>1, <1>2, <2>1, <2>3
    <2> QED
      BY <1>12, <2>2, <2>3 DEF Names!Revoke
  <1>13. CASE Names!UpdatePut(s)
    <2>1. /\ reg' = [reg EXCEPT ![s].upd = FALSE] /\ UNCHANGED <<live, cause, res, proc, told, calm>>
          /\ \/ /\ reg[s].lease \in live[s] /\ Names!PutKey(s, reg[s].weight, reg[s].lease)
                /\ UNCHANGED faults
             \/ /\ Names!Fault \/ UNCHANGED faults
                /\ UNCHANGED <<key, chan, missed>>
      BY <1>13 DEF Names!UpdatePut, Names!ResolverIdle
    <2>2. reg' \in [Server -> RegisterState] /\ reg[s].weight \in Names!Weight
      BY <1>1, <2>1 DEF RegisterState
    <2>3. reg[s].lease \in live[s] => reg[s].lease \in 1 .. MaxLeases
      BY <1>1
    <2> QED
      BY <1>1, <1>2, <2>1, <2>2, <2>3
  <1>14. CASE Names!Expire(s)
    <2>1. PICK n \in live[s] :
             Names!EndLease(s, n) /\ (Names!Fault \/ UNCHANGED faults)
      BY <1>14 DEF Names!Expire
    <2>2. UNCHANGED <<reg, cause, res, proc, told, calm>>
      BY <1>14 DEF Names!Expire, Names!ResolverIdle
    <2> QED
      BY <1>1, <1>2, <1>5, <2>1, <2>2
  <1> QED
    BY <1>6, <1>7, <1>8, <1>9, <1>10, <1>11, <1>12, <1>13, <1>14 DEF Names!RegisterStep

LocalState ==
    [asks : Client \cup {NoClient}, on : Client \cup {NoClient}, end : Client \cup {NoClient},
     got : Seq(Names!Address), ev : NameEvent \cup {NoClient}]

ProcPcs ==
    {"new", "get", "clear", "fill", "push", "start", "loop", "select", "write", "closed", "failed"}

\* What a step leaves in the locals.
LEMMA StateTyped ==
    ASSUME NEW l \in ProcPcs, NEW b \in BOOLEAN, NEW v \in LocalState
    PROVE  /\ Names!State(l, b, v) \in ProcState
           /\ Names!State(l, b, v).pc = l /\ Names!State(l, b, v).built = b
           /\ Names!State(l, b, v).asks = v.asks /\ Names!State(l, b, v).on = v.on
           /\ Names!State(l, b, v).got = v.got /\ Names!State(l, b, v).ev = v.ev
  BY DEF Names!State, ProcState, LocalState, ProcPcs

LEMMA GoesMoves ==
    ASSUME NameTypes, NEW c \in Client, NEW l \in ProcPcs, NEW v \in LocalState,
           Names!Goes(c, l, v)
    PROVE  /\ proc' \in [Client -> ProcState]
           /\ proc'[c].pc = l /\ proc'[c].built = proc[c].built /\ proc'[c].asks = v.asks
           /\ proc'[c].on = v.on /\ proc'[c].got = v.got /\ proc'[c].ev = v.ev
           /\ \A d \in Client \ {c} : proc'[d] = proc[d]
  <1> DEFINE b == proc[c].built
             q == Names!State(l, b, v)
  <1>1. proc \in [Client -> ProcState] /\ b \in BOOLEAN /\ proc' = [proc EXCEPT ![c] = q]
    BY DEF NameTypes, ProcState, Names!Goes
  <1> HIDE DEF b
  <1>2. /\ q \in ProcState
        /\ q.pc = l /\ q.built = b /\ q.asks = v.asks
        /\ q.on = v.on /\ q.got = v.got /\ q.ev = v.ev
    BY <1>1, StateTyped
  <1> HIDE DEF q
  <1>3. /\ proc' \in [Client -> ProcState] /\ proc'[c] = q
        /\ \A d \in Client \ {c} : proc'[d] = proc[d]
    BY <1>1, <1>2
  <1> QED
    BY <1>2, <1>3 DEF b

LEMMA LocalTyped ==
    ASSUME NamesAssumption
    PROVE  /\ Names!Local \in LocalState
           /\ \A x \in Client : [Names!Local EXCEPT !.asks = x] \in LocalState
           /\ \A x, y \in Client : [Names!Local EXCEPT !.on = x, !.end = y] \in LocalState
           /\ \A t \in Seq(Names!Address) :
                 /\ [Names!Local EXCEPT !.got = t] \in LocalState
                 /\ \A e \in NameEvent : [Names!Local EXCEPT !.got = t, !.ev = e] \in LocalState
  <1>1. <<>> \in Seq(Names!Address)
    OBVIOUS
  <1> QED
    BY <1>1 DEF Names!Local, LocalState

\* A step of c that changes nothing in etcd keeps the invariant, if it keeps what concerns c.
LEMMA ProcSteps ==
    ASSUME NamesAssumption, NamesInv, NEW c \in Client, Names!EtcdIdle,
           proc' \in [Client -> ProcState], \A d \in Client \ {c} : proc'[d] = proc[d],
           proc'[c].pc # "new",
           res' \in [client : Client \cup {NoClient}, watch : Client \cup {NoClient},
                     list : Seq(Names!Address)],
           res'.client \in Client, res.watch \in Client => res'.watch \in Client,
           chan' \in [Client -> WatchState], told' \in [Client -> Seq(Names!Address)],
           calm' \in BOOLEAN, missed' \subseteq Server, faults' \in 0 .. MaxFaults,
           ComesTo(c)', ServerQueueInv', CalmInv', Names!Single(c) => Owns(c)'
    PROVE  NamesInv'
  <1>1. NameTypes'
    BY DEF NamesInv, NameTypes, Names!EtcdIdle
  <1>2. \A d \in Client : ComesTo(d)'
    BY DEF NamesInv, ComesTo
  <1>3. SingleInv'
    BY DEF SingleInv, Names!Single
  <1> QED
    BY <1>1, <1>2, <1>3 DEF NamesInv

\* c does not work, and what is told and what is not stays.
LEMMA IdleStepKeepsCalm ==
    ASSUME NamesInv, NEW c \in Client, \A d \in Client \ {c} : proc'[d] = proc[d],
           ~Names!Works(c), ~Names!Works(c)',
           res'.client = res.client, res'.list = res.list, told' = told, calm' => calm,
           Out' = Out, There' = There
    PROVE  CalmInv'
  <1> SUFFICES ASSUME calm' PROVE CalmState'
    BY DEF CalmInv
  <1>1. CalmState
    BY DEF NamesInv, CalmInv
  <1>2. Carries(c)'
    BY DEF Carries, Names!Works
  <1>3. ASSUME NEW d \in Client \ {c} PROVE Carries(d)' /\ (Names!Works(d)' <=> Names!Works(d))
    BY <1>1, <1>3 DEF CalmState, Carries, Names!Works
  <1>4. Rests => Rests'
    BY DEF Rests
  <1> QED
    BY <1>1, <1>2, <1>3, <1>4 DEF CalmState

\* c is the only one that works.
LEMMA WorkStepKeepsCalm ==
    ASSUME NamesInv, NEW c \in Client, \A d \in Client \ {c} : proc'[d] = proc[d],
           calm' => /\ res'.client \in Client
                    /\ Names!Alone(c)
                    /\ Carries(c)'
                    /\ ~Names!Works(c)' => Rests'
    PROVE  CalmInv'
  <1> SUFFICES ASSUME calm' PROVE CalmState'
    BY DEF CalmInv
  <1>1. ASSUME NEW d \in Client \ {c} PROVE ~Names!Works(d)' /\ Carries(d)'
    BY <1>1 DEF Names!Alone, Names!Works, Carries
  <1> QED
    BY <1>1 DEF CalmState

\* What a step finds that changes neither the watches nor what they missed.
LEMMA SameOut ==
    ASSUME Names!EtcdIdle, chan' = chan, missed' = missed,
           res'.client = res.client, res'.watch = res.watch
    PROVE  Out' = Out /\ There' = There
  BY DEF Names!EtcdIdle, Out, There, Names!Untold, Names!Waiting, Names!EventAddr, Names!Present

LEMMA SameQueues ==
    ASSUME NamesInv, Names!EtcdIdle, chan' = chan
    PROVE  ServerQueueInv'
  BY DEF NamesInv, ServerQueueInv, Names!EtcdIdle

\* What is known where a client takes a step.
LEMMA ProcFacts ==
    ASSUME NamesAssumption, NamesInv, NEW c \in Client
    PROVE  /\ NameTypes /\ ComesTo(c) /\ proc[c] \in ProcState
           /\ res \in [client : Client \cup {NoClient}, watch : Client \cup {NoClient},
                       list : Seq(Names!Address)]
           /\ chan \in [Client -> WatchState] /\ told \in [Client -> Seq(Names!Address)]
           /\ calm \in BOOLEAN /\ missed \subseteq Server /\ faults \in 0 .. MaxFaults
           /\ MaxFaults \in Nat /\ NoClient \notin Client
           /\ Names!Single(c) /\ proc[c].pc # "new" => Owns(c)
           /\ CalmInv
  BY DEF NamesInv, NameTypes, SingleInv, NamesAssumption

\* Build makes the Resolver the one of c.
LEMMA BuildKeeps ==
    ASSUME NamesAssumption, NamesInv, NEW c \in Client, Names!Build(c)
    PROVE  NamesInv'
  <1> USE ProcFacts
  <1>1. /\ res' = [res EXCEPT !.client = c] /\ calm' = FALSE /\ Names!EtcdIdle
        /\ Names!Goes(c, "get", [Names!Local EXCEPT !.asks = c])
        /\ UNCHANGED <<chan, told, missed, faults>> /\ proc[c].pc = "new"
    BY DEF Names!Build, Names!At
  <1>2. /\ proc' \in [Client -> ProcState]
        /\ proc'[c].pc = "get" /\ proc'[c].built = proc[c].built /\ proc'[c].asks = c
        /\ \A d \in Client \ {c} : proc'[d] = proc[d]
    <2>1. [Names!Local EXCEPT !.asks = c] \in LocalState /\ "get" \in ProcPcs
          /\ [Names!Local EXCEPT !.asks = c].asks = c
      BY LocalTyped DEF Names!Local, ProcPcs
    <2> QED
      BY <1>1, <2>1, GoesMoves
  <1>3. /\ res' \in [client : Client \cup {NoClient}, watch : Client \cup {NoClient},
                     list : Seq(Names!Address)]
        /\ res'.client = c /\ res'.watch = res.watch
    BY <1>1
  <1>4. ComesTo(c)' /\ ~proc[c].built
    BY <1>1, <1>2, <1>3 DEF ComesTo
  <1>5. CalmInv' /\ ServerQueueInv'
    BY <1>1, SameQueues DEF CalmInv
  <1>6. Owns(c)'
    BY <1>2, <1>3, <1>4 DEF Owns
  <1> QED
    BY <1>1, <1>2, <1>3, <1>4, <1>5, <1>6, ProcSteps

\* The ticker, the select and Close change no list.
LEMMA QuietKeeps ==
    ASSUME NamesAssumption, NamesInv, NEW c \in Client,
           Names!Tick(c) \/ Names!Select(c) \/ Names!Close(c)
    PROVE  NamesInv'
  <1> USE ProcFacts
  <1>1. UNCHANGED <<res, chan, told, calm, missed, faults>> /\ Names!EtcdIdle
    BY DEF Names!Tick, Names!Select, Names!Close, Names!OnlyGoes
  <1>2. /\ proc[c].pc \in {"select", "loop"} /\ proc[c].built
        /\ res.client \in Client /\ res.watch \in Client
    BY DEF Names!Tick, Names!Select, Names!Close, Names!At, ComesTo
  <1>3. /\ proc' \in [Client -> ProcState] /\ proc'[c].built = proc[c].built
        /\ \A d \in Client \ {c} : proc'[d] = proc[d]
        /\ \/ proc'[c].pc = "get" /\ proc'[c].asks = res.client
           \/ proc'[c].pc = "select" /\ proc'[c].on = res.watch
           \/ proc'[c].pc = "closed"
    <2>1. CASE Names!Tick(c)
      <3> DEFINE v == [Names!Local EXCEPT !.asks = res.client]
      <3>1. v \in LocalState /\ v.asks = res.client /\ Names!Goes(c, "get", v)
        BY <1>2, <2>1, LocalTyped DEF Names!Local, Names!Tick, Names!OnlyGoes
      <3> HIDE DEF v
      <3> QED
        BY <3>1, GoesMoves DEF ProcPcs
    <2>2. CASE Names!Select(c)
      <3> DEFINE v == [Names!Local EXCEPT !.on = res.watch, !.end = res.client]
      <3>1. v \in LocalState /\ v.on = res.watch /\ Names!Goes(c, "select", v)
        BY <1>2, <2>2, LocalTyped DEF Names!Local, Names!Select, Names!OnlyGoes
      <3> HIDE DEF v
      <3> QED
        BY <3>1, GoesMoves DEF ProcPcs
    <2>3. CASE Names!Close(c)
      <3>1. Names!Local \in LocalState /\ Names!Goes(c, "closed", Names!Local)
        BY <2>3, LocalTyped DEF Names!Close, Names!OnlyGoes
      <3> QED
        BY <3>1, GoesMoves DEF ProcPcs
    <2> QED
      BY <2>1, <2>2, <2>3
  <1>4. CalmInv'
    <2>1. Out' = Out /\ There' = There
      BY <1>1, SameOut
    <2>2. ~Names!Works(c) /\ ~Names!Works(c)'
      BY <1>2, <1>3 DEF Names!Works
    <2> QED
      BY <1>1, <1>3, <2>1, <2>2, IdleStepKeepsCalm
  <1>5. ComesTo(c)' /\ proc'[c].pc # "new"
    BY <1>1, <1>2, <1>3 DEF ComesTo
  <1>6. Names!Single(c) => Owns(c)'
    BY <1>1, <1>2, <1>3 DEF Owns
  <1> QED
    BY <1>1, <1>2, <1>3, <1>4, <1>5, <1>6, SameQueues, ProcSteps

\* sync: the answer of etcd.
LEMMA GetKeeps ==
    ASSUME NamesAssumption, NamesInv, NEW c \in Client, Names!Get(c)
    PROVE  NamesInv'
  <1> USE ProcFacts
  <1>1. /\ UNCHANGED <<res, chan, told>> /\ Names!EtcdIdle
        /\ proc[c].pc = "get" /\ proc[c].asks \in Client /\ res.client \in Client
    BY DEF Names!Get, Names!At, ComesTo
  <1>2. ServerQueueInv'
    BY <1>1, SameQueues
  <1>3. CASE /\ Names!Goes(c, "clear", [Names!Local EXCEPT !.got = Names!Kvs(proc[c].asks)])
             /\ calm' = (Names!Alone(c) /\ proc[c].asks = res.client)
             /\ missed' = IF calm' THEN {} ELSE missed
             /\ UNCHANGED faults
    <2> DEFINE t == Names!Kvs(proc[c].asks)
               v == [Names!Local EXCEPT !.got = t]
    <2>1. /\ t \in Seq(Names!Address) /\ Names!Distinct(t)
          /\ Names!Addrs(t) = Names!Present(proc[c].asks)
      BY KeysAreListed
    <2> HIDE DEF t
    <2>2. v \in LocalState /\ v.got = t
      BY <2>1, LocalTyped DEF Names!Local
    <2>3. Names!Goes(c, "clear", v)
      BY <1>3 DEF t
    <2> HIDE DEF v
    <2>4. /\ proc' \in [Client -> ProcState]
          /\ proc'[c].pc = "clear" /\ proc'[c].built = proc[c].built /\ proc'[c].got = t
          /\ \A d \in Client \ {c} : proc'[d] = proc[d]
      BY <2>2, <2>3, GoesMoves DEF ProcPcs
    <2>5. There' = There
      BY <1>1 DEF There, Names!Present, Names!EtcdIdle
    <2>6. calm' => Carries(c)' /\ Names!Works(c)'
      BY <1>3, <2>1, <2>4, <2>5 DEF Carries, Good, There, Names!Works
    <2>7. CalmInv'
      BY <1>1, <1>3, <2>4, <2>6, WorkStepKeepsCalm
    <2>8. ComesTo(c)' /\ proc'[c].pc # "new"
      BY <1>1, <2>4 DEF ComesTo
    <2>9. Names!Single(c) => Owns(c)'
      BY <1>1, <1>3, <2>4 DEF Owns, Names!Single, Names!Alone, Names!Works
    <2>10. missed' \subseteq Server /\ calm' \in BOOLEAN /\ faults' = faults
      BY <1>3
    <2> QED
      BY <1>1, <1>2, <2>4, <2>7, <2>8, <2>9, <2>10, ProcSteps
  <1>4. CASE /\ Names!Fault
             /\ Names!Goes(c, IF proc[c].built THEN "loop" ELSE "failed", Names!Local)
             /\ UNCHANGED <<calm, missed>>
    <2> DEFINE l == IF proc[c].built THEN "loop" ELSE "failed"
    <2>1. l \in ProcPcs /\ (l = "loop" => proc[c].built) /\ (l = "failed" => ~proc[c].built)
          /\ l \in {"loop", "failed"}
      BY DEF ProcPcs
    <2>2. Names!Goes(c, l, Names!Local)
      BY <1>4
    <2> HIDE DEF l
    <2>3. /\ proc' \in [Client -> ProcState]
          /\ proc'[c].pc = l /\ proc'[c].built = proc[c].built
          /\ \A d \in Client \ {c} : proc'[d] = proc[d]
      BY <2>1, <2>2, LocalTyped, GoesMoves
    <2>4. CalmInv'
      <3>1. Out' = Out /\ There' = There
        BY <1>1, <1>4, SameOut
      <3>2. ~Names!Works(c) /\ ~Names!Works(c)'
        BY <1>1, <2>1, <2>3 DEF Names!Works
      <3> QED
        BY <1>1, <1>4, <2>3, <3>1, <3>2, IdleStepKeepsCalm
    <2>5. ComesTo(c)' /\ proc'[c].pc # "new"
      BY <1>1, <2>1, <2>3 DEF ComesTo
    <2>6. Names!Single(c) => Owns(c)'
      BY <1>1, <1>4, <2>1, <2>3 DEF Owns
    <2>7. faults' \in 0 .. MaxFaults
      BY <1>4 DEF Names!Fault
    <2> QED
      BY <1>1, <1>2, <1>4, <2>3, <2>4, <2>5, <2>6, <2>7, ProcSteps
  <1> QED
    BY <1>3, <1>4 DEF Names!Get

\* A step of the client that works, while no one else does.
LEMMA WorkerIsAlone ==
    ASSUME NamesInv, NEW c \in Client, Names!Works(c), calm
    PROVE  Names!Alone(c) /\ Carries(c)
  BY DEF NamesInv, CalmInv, CalmState, Names!Alone

\* sync: the list is emptied.
LEMMA ClearKeeps ==
    ASSUME NamesAssumption, NamesInv, NEW c \in Client, Names!Clear(c)
    PROVE  NamesInv'
  <1> USE ProcFacts
  <1>1. /\ UNCHANGED <<chan, told, calm, missed, faults>> /\ Names!EtcdIdle
        /\ res' = [res EXCEPT !.list = <<>>]
        /\ proc[c].pc = "clear" /\ res.client \in Client /\ proc[c].got \in Seq(Names!Address)
    BY DEF Names!Clear, Names!At, ComesTo, ProcState
  <1>2. /\ res' \in [client : Client \cup {NoClient}, watch : Client \cup {NoClient},
                     list : Seq(Names!Address)]
        /\ res'.client = res.client /\ res'.watch = res.watch /\ res'.list = <<>>
    <2>1. <<>> \in Seq(Names!Address)
      OBVIOUS
    <2> QED
      BY <1>1, <2>1
  <1> DEFINE v == [Names!Local EXCEPT !.got = proc[c].got]
  <1>3. v \in LocalState /\ v.got = proc[c].got /\ Names!Goes(c, "fill", v)
    BY <1>1, LocalTyped DEF Names!Clear, Names!Local
  <1> HIDE DEF v
  <1>4. /\ proc' \in [Client -> ProcState]
        /\ proc'[c].pc = "fill" /\ proc'[c].built = proc[c].built /\ proc'[c].got = proc[c].got
        /\ \A d \in Client \ {c} : proc'[d] = proc[d]
    BY <1>3, GoesMoves DEF ProcPcs
  <1>5. CalmInv'
    <2>1. Out' = Out /\ There' = There
      BY <1>1, <1>2, SameOut
    <2>2. Names!Works(c) /\ Names!Works(c)'
      BY <1>1, <1>4 DEF Names!Works
    <2>3. calm => Names!Alone(c) /\ Good(proc[c].got, Out, There)
      BY <1>1, <2>2, WorkerIsAlone DEF Carries
    <2>4. calm => Carries(c)'
      BY <1>2, <1>4, <2>1, <2>3 DEF Carries
    <2> QED
      BY <1>1, <1>2, <1>4, <2>2, <2>3, <2>4, WorkStepKeepsCalm
  <1>6. ComesTo(c)' /\ proc'[c].pc # "new"
    BY <1>1, <1>2, <1>4 DEF ComesTo
  <1>7. Names!Single(c) => Owns(c)'
    BY <1>1, <1>2, <1>4 DEF Owns
  <1> QED
    BY <1>1, <1>2, <1>4, <1>5, <1>6, <1>7, SameQueues, ProcSteps

\* sync: the addresses are appended.
LEMMA FillKeeps ==
    ASSUME NamesAssumption, NamesInv, NEW c \in Client, Names!Fill(c)
    PROVE  NamesInv'
  <1> USE ProcFacts
  <1> DEFINE t == res.list \o proc[c].got
  <1>1. /\ UNCHANGED <<chan, told, calm, missed, faults>> /\ Names!EtcdIdle
        /\ res' = [res EXCEPT !.list = t]
        /\ proc[c].pc = "fill" /\ res.client \in Client
        /\ proc[c].got \in Seq(Names!Address) /\ res.list \in Seq(Names!Address)
    BY DEF Names!Fill, Names!At, ComesTo, ProcState
  <1>2. t \in Seq(Names!Address) /\ (res.list = <<>> => t = proc[c].got)
    BY <1>1, ConcatProperties, ConcatEmptySeq
  <1> HIDE DEF t
  <1>3. /\ res' \in [client : Client \cup {NoClient}, watch : Client \cup {NoClient},
                     list : Seq(Names!Address)]
        /\ res'.client = res.client /\ res'.watch = res.watch /\ res'.list = t
    BY <1>1, <1>2
  <1>4. /\ proc' \in [Client -> ProcState]
        /\ proc'[c].pc = "push" /\ proc'[c].built = proc[c].built
        /\ \A d \in Client \ {c} : proc'[d] = proc[d]
    <2>1. Names!Goes(c, "push", Names!Local)
      BY DEF Names!Fill
    <2> QED
      BY <2>1, LocalTyped, GoesMoves DEF ProcPcs
  <1>5. CalmInv'
    <2>1. Out' = Out /\ There' = There
      BY <1>1, <1>3, SameOut
    <2>2. Names!Works(c) /\ Names!Works(c)'
      BY <1>1, <1>4 DEF Names!Works
    <2>3. calm => Names!Alone(c) /\ Good(t, Out, There)
      BY <1>1, <1>2, <2>2, WorkerIsAlone DEF Carries
    <2>4. calm => Carries(c)'
      BY <1>3, <1>4, <2>1, <2>3 DEF Carries
    <2> QED
      BY <1>1, <1>3, <1>4, <2>2, <2>3, <2>4, WorkStepKeepsCalm
  <1>6. ComesTo(c)' /\ proc'[c].pc # "new"
    BY <1>1, <1>3, <1>4 DEF ComesTo
  <1>7. Names!Single(c) => Owns(c)'
    BY <1>1, <1>3, <1>4 DEF Owns
  <1> QED
    BY <1>1, <1>3, <1>4, <1>5, <1>6, <1>7, SameQueues, ProcSteps

\* The client of the last Build is told the list.
LEMMA UpdateStateKeeps ==
    ASSUME NamesAssumption, NamesInv, NEW c \in Client, Names!UpdateState(c)
    PROVE  NamesInv'
  <1> USE ProcFacts
  <1>1. /\ UNCHANGED <<res, chan, calm, missed, faults>> /\ Names!EtcdIdle
        /\ told' = [told EXCEPT ![res.client] = res.list]
        /\ proc[c].pc = "push" /\ res.client \in Client /\ res.list \in Seq(Names!Address)
    BY DEF Names!UpdateState, Names!At, ComesTo
  <1>2. told' \in [Client -> Seq(Names!Address)] /\ told'[res.client] = res.list
    BY <1>1
  <1> DEFINE l == IF proc[c].built THEN "loop" ELSE "start"
  <1>3. /\ l \in ProcPcs /\ l \in {"loop", "start"} /\ (l = "loop" => proc[c].built)
        /\ Names!Goes(c, l, Names!Local)
    BY DEF ProcPcs, Names!UpdateState
  <1> HIDE DEF l
  <1>4. /\ proc' \in [Client -> ProcState]
        /\ proc'[c].pc = l /\ proc'[c].built = proc[c].built
        /\ \A d \in Client \ {c} : proc'[d] = proc[d]
    BY <1>3, LocalTyped, GoesMoves
  <1>5. CalmInv'
    <2>1. Out' = Out /\ There' = There
      BY <1>1, SameOut
    <2>2. Names!Works(c) /\ ~Names!Works(c)'
      BY <1>1, <1>3, <1>4 DEF Names!Works
    <2>3. calm => Names!Alone(c) /\ Good(res.list, Out, There)
      BY <1>1, <2>2, WorkerIsAlone DEF Carries
    <2>4. calm => Carries(c)' /\ Rests'
      BY <1>1, <1>2, <2>1, <2>2, <2>3 DEF Carries, Rests, Names!Works
    <2> QED
      BY <1>1, <1>4, <2>3, <2>4, WorkStepKeepsCalm
  <1>6. ComesTo(c)' /\ proc'[c].pc # "new"
    BY <1>1, <1>3, <1>4 DEF ComesTo
  <1>7. Names!Single(c) => Owns(c)'
    BY <1>1, <1>3, <1>4 DEF Owns
  <1> QED
    BY <1>1, <1>2, <1>4, <1>5, <1>6, <1>7, SameQueues, ProcSteps

\* What waits in a watch is about servers.
LEMMA WaitingIsOfServers ==
    ASSUME NamesAssumption, NamesInv, NEW w \in Client \cup {NoClient}
    PROVE  Names!Waiting(w) \subseteq Server
  <1>1. CASE w = NoClient
    BY <1>1 DEF Names!Waiting
  <1>2. CASE w # NoClient
    <2>1. chan[w].queue \in Seq(NameEvent)
      BY <1>2, ProcFacts DEF WatchState, NamesInv, NameTypes
    <2>2. \A i \in DOMAIN chan[w].queue : chan[w].queue[i] \in NameEvent
      BY <2>1
    <2> QED
      BY <1>2, <2>2, EventsAreAbout DEF Names!Waiting
  <1> QED
    BY <1>1, <1>2

\* The goroutine of c opens its watch.
LEMMA WatchKeeps ==
    ASSUME NamesAssumption, NamesInv, NEW c \in Client, Names!Watch(c)
    PROVE  NamesInv'
  <1> USE ProcFacts
  <1> DEFINE w == [prefix |-> res.client, open |-> TRUE, queue |-> <<>>]
             q == Names!State("loop", TRUE, Names!Local)
  <1>1. /\ Names!EtcdIdle /\ UNCHANGED <<told, calm, faults>>
        /\ chan' = [chan EXCEPT ![c] = w] /\ res' = [res EXCEPT !.watch = c]
        /\ proc' = [proc EXCEPT ![c] = q]
        /\ missed' = missed \cup Names!Waiting(res.watch)
        /\ proc[c].pc = "start" /\ res.client \in Client
    BY DEF Names!Watch, Names!At, ComesTo
  <1>2. q \in ProcState /\ q.pc = "loop" /\ q.built
    <2>1. Names!Local \in LocalState /\ "loop" \in ProcPcs /\ TRUE \in BOOLEAN
      BY LocalTyped DEF ProcPcs
    <2> QED
      BY <2>1, StateTyped
  <1> HIDE DEF q
  <1>3. /\ proc' \in [Client -> ProcState]
        /\ proc'[c].pc = "loop" /\ proc'[c].built
        /\ \A d \in Client \ {c} : proc'[d] = proc[d]
    BY <1>1, <1>2 DEF NameTypes
  <1>4. w \in WatchState /\ w.prefix = res.client /\ w.queue = <<>> /\ w.open
    <2>1. <<>> \in Seq(NameEvent)
      OBVIOUS
    <2> QED
      BY <1>1, <2>1 DEF WatchState
  <1> HIDE DEF w
  <1>5. /\ chan' \in [Client -> WatchState] /\ chan'[c] = w
        /\ \A d \in Client \ {c} : chan'[d] = chan[d]
    BY <1>1, <1>4
  <1>6. /\ res' \in [client : Client \cup {NoClient}, watch : Client \cup {NoClient},
                     list : Seq(Names!Address)]
        /\ res'.client = res.client /\ res'.watch = c /\ res'.list = res.list
    BY <1>1
  <1>7. Names!Waiting(res.watch) \subseteq Server
    BY WaitingIsOfServers
  <1>8. Out' = Out /\ There' = There
    <2>1. Out' = missed' \cup {}
      BY <1>4, <1>5, <1>6 DEF Out, Names!Untold, Names!Waiting
    <2> QED
      BY <1>1, <1>6, <2>1 DEF Out, There, Names!Untold, Names!Present, Names!EtcdIdle
  <1>9. ServerQueueInv'
    <2>1. ASSUME NEW d \in Client
          PROVE  /\ chan'[d].queue # <<>> => chan'[d].open
                 /\ Follows(chan'[d].queue, chan'[d].prefix, key')
      <3>1. CASE d = c
        BY <1>4, <1>5, <3>1 DEF Follows
      <3>2. CASE d # c
        BY <1>1, <1>5, <3>2 DEF NamesInv, ServerQueueInv, Names!EtcdIdle
      <3> QED
        BY <3>1, <3>2
    <2> QED
      BY <2>1 DEF ServerQueueInv
  <1>10. CalmInv'
    <2>1. ~Names!Works(c) /\ ~Names!Works(c)'
      BY <1>1, <1>3 DEF Names!Works
    <2> QED
      BY <1>1, <1>3, <1>6, <1>8, <2>1, IdleStepKeepsCalm
  <1>11. ComesTo(c)' /\ proc'[c].pc # "new"
    BY <1>1, <1>3, <1>6 DEF ComesTo
  <1>12. Names!Single(c) => Owns(c)'
    BY <1>1, <1>3, <1>4, <1>5, <1>6 DEF Owns
  <1>13. missed' \subseteq Server
    BY <1>1, <1>7
  <1> QED
    BY <1>1, <1>3, <1>5, <1>6, <1>9, <1>10, <1>11, <1>12, <1>13, ProcSteps

\* A watch whose first event was taken.
LEMMA ShorterFollows ==
    ASSUME NEW q \in Seq(NameEvent), q # <<>>, NEW p, NEW k, Follows(q, p, k)
    PROVE  /\ Head(q) \in NameEvent /\ Tail(q) \in Seq(NameEvent)
           /\ Follows(Tail(q), p, k)
           /\ Serves[Names!EventAddr(Head(q))] = p
           /\ LET s == Names!EventAddr(Head(q))
                  rest == {Names!EventAddr(Tail(q)[i]) : i \in DOMAIN Tail(q)}
              IN  /\ {Names!EventAddr(q[i]) : i \in DOMAIN q} = rest \cup {s}
                  /\ s \notin rest => (Head(q).type = "put" <=> k[s] # NoKey)
  <1> DEFINE r == Tail(q)
  <1>1. /\ Head(q) \in NameEvent /\ Head(q) = q[1] /\ r \in Seq(NameEvent)
        /\ Len(r) = Len(q) - 1 /\ \A i \in 1 .. Len(r) : r[i] = q[i + 1]
    BY HeadTailProperties
  <1>2. Len(q) \in Nat /\ Len(q) >= 1 /\ DOMAIN q = 1 .. Len(q)
    BY EmptySeq
  <1> HIDE DEF r
  <1>3. DOMAIN r = 1 .. Len(q) - 1 /\ \A i \in DOMAIN r : r[i] = q[i + 1] /\ i + 1 \in DOMAIN q
    BY <1>1, <1>2
  <1>4. ASSUME NEW i \in DOMAIN q PROVE i = 1 \/ (i - 1 \in DOMAIN r /\ r[i - 1] = q[i])
    BY <1>1, <1>2, <1>3
  <1>5. ASSUME NEW n \in DOMAIN r, NEW s \in Server, LastAbout(r, s, n)
        PROVE  r[n].type = "put" <=> k[s] # NoKey
    <2>1. ASSUME NEW m \in DOMAIN q, m > n + 1 PROVE Names!EventAddr(q[m]) # s
      <3>1. m - 1 \in DOMAIN r /\ m - 1 > n /\ r[m - 1] = q[m]
        BY <1>2, <1>3, <1>4, <2>1
      <3> QED
        BY <1>5, <3>1 DEF LastAbout
    <2>2. LastAbout(q, s, n + 1)
      BY <1>3, <1>5, <2>1 DEF LastAbout
    <2> QED
      BY <1>3, <2>2 DEF Follows
  <1>6. Follows(r, p, k)
    BY <1>3, <1>5 DEF Follows
  <1>7. 1 \in DOMAIN q /\ Serves[Names!EventAddr(q[1])] = p
    BY <1>2 DEF Follows
  <1> DEFINE s == Names!EventAddr(Head(q))
             rest == {Names!EventAddr(r[i]) : i \in DOMAIN r}
  <1>8. {Names!EventAddr(q[i]) : i \in DOMAIN q} = rest \cup {s}
    <2>1. ASSUME NEW i \in DOMAIN q PROVE Names!EventAddr(q[i]) \in rest \cup {s}
      BY <1>1, <1>4
    <2>2. ASSUME NEW x \in rest PROVE \E j \in DOMAIN q : Names!EventAddr(q[j]) = x
      BY <1>3
    <2>3. s = Names!EventAddr(q[1])
      BY <1>1
    <2> HIDE DEF rest, s
    <2> QED
      BY <1>7, <2>1, <2>2, <2>3
  <1>9. s \notin rest => (Head(q).type = "put" <=> k[s] # NoKey)
    <2> SUFFICES ASSUME s \notin rest PROVE Head(q).type = "put" <=> k[s] # NoKey
      OBVIOUS
    <2>1. ASSUME NEW m \in DOMAIN q, m > 1 PROVE Names!EventAddr(q[m]) # s
      BY <1>4, <2>1
    <2>2. s \in Server
      BY <1>1, EventsAreAbout
    <2>3. LastAbout(q, s, 1)
      BY <1>1, <2>1 DEF LastAbout
    <2> QED
      BY <1>1, <1>7, <2>2, <2>3 DEF Follows
  <1> QED
    BY <1>1, <1>6, <1>7, <1>8, <1>9 DEF r

\* An event is taken from a watch.
LEMMA TakeKeeps ==
    ASSUME NamesAssumption, NamesInv, NEW c \in Client, Names!Take(c)
    PROVE  NamesInv'
  <1> USE ProcFacts
  <1> DEFINE w == proc[c].on
             q == chan[w].queue
             e == Head(q)
             s == Names!EventAddr(e)
             ofNow == w = res.watch /\ chan[w].prefix = res.client
             v == [Names!Local EXCEPT !.got = res.list, !.ev = e]
             shorter == [chan[w] EXCEPT !.queue = Tail(q)]
             rest == {Names!EventAddr(Tail(q)[i]) : i \in DOMAIN Tail(q)}
  <1>1. /\ Names!EtcdIdle /\ UNCHANGED <<res, told, faults>>
        /\ Names!Goes(c, "write", v) /\ chan' = [chan EXCEPT ![w] = shorter]
        /\ calm' = (calm /\ ofNow /\ Names!Alone(c))
        /\ missed' = IF ofNow THEN missed \ {s} ELSE missed
        /\ proc[c].pc = "select" /\ q # <<>>
        /\ w \in Client /\ res.client \in Client /\ proc[c].built
    BY SMTT(60) DEF Names!Take, Names!At, ComesTo
  <1>2. q \in Seq(NameEvent) /\ Follows(q, chan[w].prefix, key) /\ chan[w].open
    BY <1>1, ZenonT(40) DEF WatchState, NamesInv, ServerQueueInv
  <1>3. /\ e \in NameEvent /\ Tail(q) \in Seq(NameEvent)
        /\ Follows(Tail(q), chan[w].prefix, key)
        /\ Serves[s] = chan[w].prefix
        /\ {Names!EventAddr(q[i]) : i \in DOMAIN q} = rest \cup {s}
        /\ s \notin rest => (e.type = "put" <=> key[s] # NoKey)
    <2> DEFINE p == chan[w].prefix
    <2>1. q \in Seq(NameEvent) /\ q # <<>> /\ Follows(q, p, key)
      BY <1>1, <1>2, ZenonT(40)
    <2> HIDE DEF q, p
    <2>2. /\ e \in NameEvent /\ Tail(q) \in Seq(NameEvent)
          /\ Follows(Tail(q), p, key) /\ Serves[s] = p
          /\ {Names!EventAddr(q[i]) : i \in DOMAIN q} = rest \cup {s}
          /\ s \notin rest => (e.type = "put" <=> key[s] # NoKey)
      BY <2>1, ShorterFollows, ZenonT(40)
    <2> QED
      BY <2>2, ZenonT(40) DEF p
  <1>4. /\ shorter \in WatchState /\ shorter.queue = Tail(q) /\ shorter.prefix = chan[w].prefix
        /\ shorter.open
    BY <1>1, <1>2, <1>3, ZenonT(60) DEF WatchState
  <1>5. v \in LocalState /\ v.got = res.list /\ v.ev = e
    BY <1>3, LocalTyped, ZenonT(60) DEF Names!Local
  <1>6. s \in Server
    BY <1>3, EventsAreAbout, ZenonT(40)
  <1>7. Out = IF w = res.watch THEN missed \cup rest \cup {s} ELSE Out
    <2>1. Names!Waiting(w) = {Names!EventAddr(q[i]) : i \in DOMAIN q}
      BY <1>1, ZenonT(60) DEF Names!Waiting
    <2>2. Names!Waiting(w) = rest \cup {s}
      BY <1>3, <2>1, ZenonT(40)
    <2> HIDE DEF rest, s, q
    <2> QED
      BY <2>2, SMTT(60) DEF Out, Names!Untold
  <1> HIDE DEF v, shorter, e, rest, s, q
  <1>8. /\ chan' \in [Client -> WatchState] /\ chan'[w] = shorter
        /\ \A d \in Client \ {w} : chan'[d] = chan[d]
    BY <1>1, <1>4
  <1>9. /\ proc' \in [Client -> ProcState]
        /\ proc'[c].pc = "write" /\ proc'[c].built = proc[c].built
        /\ proc'[c].got = res.list /\ proc'[c].ev = e
        /\ \A d \in Client \ {c} : proc'[d] = proc[d]
    <2>1. Names!Goes(c, "write", v) /\ "write" \in ProcPcs
      BY <1>1 DEF ProcPcs
    <2>2. /\ proc' \in [Client -> ProcState]
          /\ proc'[c].pc = "write" /\ proc'[c].built = proc[c].built
          /\ proc'[c].got = v.got /\ proc'[c].ev = v.ev
          /\ \A d \in Client \ {c} : proc'[d] = proc[d]
      BY <1>5, <2>1, GoesMoves
    <2> QED
      BY <1>5, <2>2
  <1>10. ServerQueueInv'
    <2>1. ASSUME NEW d \in Client
          PROVE  /\ chan'[d].queue # <<>> => chan'[d].open
                 /\ Follows(chan'[d].queue, chan'[d].prefix, key')
      <3>1. CASE d = w
        BY <1>1, <1>3, <1>4, <1>8, <3>1 DEF Names!EtcdIdle
      <3>2. CASE d # w
        BY <1>1, <1>8, <3>2 DEF NamesInv, ServerQueueInv, Names!EtcdIdle
      <3> QED
        BY <3>1, <3>2
    <2> QED
      BY <2>1 DEF ServerQueueInv
  <1>11. There' = There
    BY <1>1 DEF There, Names!Present, Names!EtcdIdle
  <1>12. ASSUME calm' PROVE Carries(c)' /\ Names!Alone(c)
    <2>1. calm /\ w = res.watch /\ chan[w].prefix = res.client /\ Names!Alone(c)
      BY <1>1, <1>12
    <2>2. \A d \in Client : ~Names!Works(d)
      BY <1>1, <2>1 DEF Names!Alone, Names!Works
    <2>3. Good(res.list, Out, There) /\ told[res.client] = res.list
      BY <2>1, <2>2 DEF CalmInv, CalmState, Rests
    <2>4. Out' = (missed \ {s}) \cup rest /\ Out = missed \cup rest \cup {s}
      <3>1. missed' = missed \ {s} /\ res'.watch = w
        BY <1>1, <2>1
      <3>2. PICK x \in Client : x = w
        BY <1>1
      <3>3. chan'[x].queue = Tail(q) /\ x # NoClient /\ res'.watch = x
        BY <1>1, <1>4, <1>8, <3>1, <3>2
      <3>4. Names!Waiting(res.watch)' = {Names!EventAddr(chan'[x].queue[i]) : i \in DOMAIN chan'[x].queue}
        BY <3>3 DEF Names!Waiting, Names!EventAddr
      <3>5. Names!Waiting(res.watch)' = rest
        BY <3>3, <3>4 DEF rest
      <3>6. Out' = missed' \cup Names!Waiting(res.watch)'
        BY DEF Out, Names!Untold
      <3> QED
        BY <1>7, <2>1, <3>1, <3>5, <3>6
    <2>5. Serves[s] = res.client /\ (s \notin rest => (e.type = "put" <=> key[s] # NoKey))
      BY <1>3, <2>1
    <2>6. s \in There <=> key[s] # NoKey
      BY <1>6, <2>5 DEF There, Names!Present
    <2>7. Nearly(res.list, e, Out', There)
      BY <2>3, <2>4, <2>5, <2>6 DEF Nearly, Good, s
    <2>8. Carries(c)'
      BY <1>1, <1>9, <1>11, <2>3, <2>7 DEF Carries
    <2> QED
      BY <2>1, <2>8
  <1>13. CalmInv'
    <2>1. Names!Works(c)'
      BY <1>9 DEF Names!Works
    <2> QED
      BY <1>1, <1>9, <1>12, <2>1, WorkStepKeepsCalm
  <1>14. ComesTo(c)' /\ proc'[c].pc # "new"
    BY <1>1, <1>3, <1>9 DEF ComesTo
  <1>15. Names!Single(c) => Owns(c)'
    <2> SUFFICES ASSUME Names!Single(c) PROVE Owns(c)'
      OBVIOUS
    <2>1. Owns(c)
      BY <1>1
    <2>2. w = c /\ res.watch = c /\ chan[c].prefix = c /\ res.client = c /\ calm
      BY <1>1, <2>1 DEF Owns
    <2>3. Names!Alone(c)
      BY DEF Names!Single, Names!Alone, Names!Works
    <2>4. calm' /\ chan'[c].prefix = c
      BY <1>1, <1>4, <1>8, <2>2, <2>3
    <2> QED
      BY <1>1, <1>9, <2>2, <2>4 DEF Owns
  <1>16. missed' \subseteq Server /\ calm' \in BOOLEAN
    BY <1>1
  <1> QED
    BY <1>1, <1>8, <1>9, <1>10, <1>13, <1>14, <1>15, <1>16, ProcSteps

\* An event changes the list that was read, or the one of now.
LEMMA WriteKeeps ==
    ASSUME NamesAssumption, NamesInv, NEW c \in Client, Names!Write(c)
    PROVE  NamesInv'
  <1> USE ProcFacts
  <1> DEFINE e == proc[c].ev
             known == e.type = "put" /\ Names!Exist(proc[c].got, e.of)
  <1>1. /\ UNCHANGED <<chan, told, calm, missed, faults>> /\ Names!EtcdIdle
        /\ proc[c].pc = "write" /\ proc[c].built /\ res.client \in Client
        /\ proc[c].got \in Seq(Names!Address) /\ res.list \in Seq(Names!Address)
        /\ e \in NameEvent
    BY DEF Names!Write, Names!At, ComesTo, ProcState
  <1>2. PICK t \in {proc[c].got, res.list} :
           LET new == Names!Updated(t, e)
               changed == ~known /\ new # t
           IN /\ res' = IF changed THEN [res EXCEPT !.list = new] ELSE res
              /\ Names!Goes(c, IF changed THEN "push" ELSE "loop", Names!Local)
    BY DEF Names!Write
  <1> DEFINE new == Names!Updated(t, e)
             changed == ~known /\ new # t
             l == IF changed THEN "push" ELSE "loop"
  <1>3. new \in Seq(Names!Address)
    BY <1>1, UpdatedIsTyped
  <1>4. /\ l \in ProcPcs /\ l \in {"push", "loop"} /\ (l = "push" <=> changed)
        /\ Names!Goes(c, l, Names!Local)
    BY <1>2 DEF ProcPcs
  <1>5. /\ res' \in [client : Client \cup {NoClient}, watch : Client \cup {NoClient},
                     list : Seq(Names!Address)]
        /\ res'.client = res.client /\ res'.watch = res.watch
        /\ res'.list = IF changed THEN new ELSE res.list
    <2>1. res' = IF changed THEN [res EXCEPT !.list = new] ELSE res
      BY <1>2
    <2> HIDE DEF new, changed
    <2> QED
      BY <1>3, <2>1
  <1> HIDE DEF l
  <1>6. /\ proc' \in [Client -> ProcState]
        /\ proc'[c].pc = l /\ proc'[c].built = proc[c].built
        /\ \A d \in Client \ {c} : proc'[d] = proc[d]
    BY <1>4, LocalTyped, GoesMoves
  <1>7. CalmInv'
    <2>1. Out' = Out /\ There' = There
      BY <1>1, <1>5, SameOut
    <2>2. Names!Works(c)
      BY <1>1 DEF Names!Works
    <2>3. ASSUME calm' PROVE Names!Alone(c) /\ Carries(c)' /\ (~Names!Works(c)' => Rests')
      <3>1. /\ Names!Alone(c) /\ proc[c].got = res.list /\ told[res.client] = res.list
            /\ Nearly(res.list, e, Out, There)
        BY <1>1, <2>2, <2>3, WorkerIsAlone DEF Carries
      <3>2. t = res.list
        BY <1>2, <3>1
      <3>3. /\ known => Good(res.list, Out, There)
            /\ ~known => Good(new, Out, There)
        BY <1>1, <3>1, <3>2, UpdatedIsGood
      <3> HIDE DEF new, known, e
      <3>4. Good(res'.list, Out, There)
        BY <1>5, <3>2, <3>3
      <3>5. ~changed => res'.list = res.list
        BY <1>5
      <3>6. Carries(c)'
        BY <1>4, <1>6, <2>1, <3>4 DEF Carries
      <3>7. Names!Works(c)' \/ ~changed
        BY <1>4, <1>6 DEF Names!Works
      <3>8. ~changed => Rests'
        BY <1>1, <1>5, <2>1, <3>1, <3>4, <3>5 DEF Rests
      <3> QED
        BY <3>1, <3>6, <3>7, <3>8
    <2> QED
      BY <1>1, <1>5, <1>6, <2>3, WorkStepKeepsCalm
  <1>8. ComesTo(c)' /\ proc'[c].pc # "new"
    BY <1>1, <1>4, <1>5, <1>6 DEF ComesTo
  <1>9. Names!Single(c) => Owns(c)'
    BY <1>1, <1>4, <1>5, <1>6 DEF Owns
  <1> QED
    BY <1>1, <1>5, <1>6, <1>7, <1>8, <1>9, SameQueues, ProcSteps

\* A watch that ends: its events are no longer seen.
LEMMA WatchLostKeeps ==
    ASSUME NamesAssumption, NamesInv, NEW c \in Client, Names!WatchLost(c)
    PROVE  NamesInv'
  <1> USE ProcFacts
  <1> DEFINE w == [chan[c] EXCEPT !.open = FALSE, !.queue = <<>>]
  <1>1. /\ Names!EtcdIdle /\ UNCHANGED <<res, proc, told, calm>>
        /\ chan' = [chan EXCEPT ![c] = w]
        /\ missed' = IF c = res.watch THEN missed \cup Names!Waiting(c) ELSE missed
        /\ faults' \in 0 .. MaxFaults
    <2>1. /\ Names!EtcdIdle /\ UNCHANGED <<res, proc, told, calm>> /\ Names!Fault
          /\ chan' = [chan EXCEPT ![c].open = FALSE, ![c].queue = <<>>]
          /\ missed' = IF c = res.watch THEN missed \cup Names!Waiting(c) ELSE missed
      BY DEF Names!WatchLost
    <2>2. chan' = [chan EXCEPT ![c] = w]
      BY <2>1
    <2>3. faults' \in 0 .. MaxFaults
      BY <2>1 DEF Names!Fault
    <2> QED
      BY <2>1, <2>2, <2>3
  <1>2. w \in WatchState /\ w.prefix = chan[c].prefix /\ w.queue = <<>>
    <2>1. <<>> \in Seq(NameEvent) /\ chan[c] \in WatchState
      OBVIOUS
    <2> QED
      BY <2>1 DEF WatchState
  <1> HIDE DEF w
  <1>3. /\ chan' \in [Client -> WatchState] /\ chan'[c] = w
        /\ \A d \in Client \ {c} : chan'[d] = chan[d]
    BY <1>1, <1>2
  <1>4. Names!Waiting(c) \subseteq Server
    BY WaitingIsOfServers
  <1>5. NameTypes'
    BY <1>1, <1>3, <1>4 DEF NamesInv, NameTypes, Names!EtcdIdle
  <1>6. \A d \in Client : ComesTo(d)'
    BY <1>1 DEF NamesInv, ComesTo
  <1>7. ServerQueueInv'
    <2>1. ASSUME NEW d \in Client
          PROVE  /\ chan'[d].queue # <<>> => chan'[d].open
                 /\ Follows(chan'[d].queue, chan'[d].prefix, key')
      <3>1. CASE d = c
        BY <1>2, <1>3, <3>1 DEF Follows
      <3>2. CASE d # c
        BY <1>1, <1>3, <3>2 DEF NamesInv, ServerQueueInv, Names!EtcdIdle
      <3> QED
        BY <3>1, <3>2
    <2> QED
      BY <2>1 DEF ServerQueueInv
  <1>8. Out' = Out /\ There' = There
    <2>1. There' = There
      BY <1>1 DEF There, Names!Present, Names!EtcdIdle
    <2>2. Out' = missed' \cup Names!Waiting(res.watch)'
      BY DEF Out, Names!Untold
    <2>3. CASE res.watch = c
      <3>1. Names!Waiting(res.watch)' = {}
        BY <1>1, <1>2, <1>3, <2>3 DEF Names!Waiting
      <3> QED
        BY <1>1, <2>1, <2>2, <2>3, <3>1 DEF Out, Names!Untold
    <2>4. CASE res.watch # c
      <3>1. Names!Waiting(res.watch)' = Names!Waiting(res.watch)
        BY <1>1, <1>3, <2>4 DEF Names!Waiting, Names!EventAddr
      <3> QED
        BY <1>1, <2>1, <2>2, <2>4, <3>1 DEF Out, Names!Untold
    <2> QED
      BY <2>3, <2>4
  <1>9. CalmInv'
    BY <1>1, <1>8 DEF CalmInv, CalmState, Carries, Rests, Names!Works
  <1>10. SingleInv'
    BY <1>1, <1>2, <1>3 DEF NamesInv, SingleInv, Owns, Names!Single
  <1> QED
    BY <1>5, <1>6, <1>7, <1>9, <1>10 DEF NamesInv

LEMMA NamesInit ==
    ASSUME NamesAssumption, Names!Init
    PROVE  NamesInv
  <1>1. <<>> \in Seq(Names!Address) /\ <<>> \in Seq(NameEvent)
    OBVIOUS
  <1> DEFINE q == Names!State("new", FALSE, Names!Local)
             entry == [pc |-> "idle", first |-> TRUE, stop |-> FALSE, weight |-> 1,
                       data |-> 1, lease |-> 0, ch |-> 0, upd |-> FALSE]
  <1>2. q \in ProcState /\ q.pc = "new" /\ ~q.built
    <2>1. Names!Local \in LocalState /\ "new" \in ProcPcs /\ FALSE \in BOOLEAN
      BY LocalTyped DEF ProcPcs
    <2> QED
      BY <2>1, StateTyped
  <1>3. entry \in RegisterState
    BY DEF RegisterState, Names!Weight, NamesAssumption
  <1>4. /\ key = [s \in Server |-> NoKey] /\ live = [s \in Server |-> {}]
        /\ reg = [s \in Server |-> entry] /\ cause = [s \in Server |-> "none"]
        /\ res = [client |-> NoClient, watch |-> NoClient, list |-> <<>>]
        /\ chan = [c \in Client |-> [prefix |-> c, open |-> FALSE, queue |-> <<>>]]
        /\ proc = [c \in Client |-> q] /\ told = [c \in Client |-> <<>>]
        /\ calm = FALSE /\ missed = {} /\ faults = 0
    BY DEF Names!Init
  <1> HIDE DEF q, entry
  <1>5. chan \in [Client -> WatchState]
    BY <1>1, <1>4 DEF WatchState
  <1>6. NameTypes
    <2>1. /\ key \in [Server -> Names!Key \cup {NoKey}]
          /\ live \in [Server -> SUBSET (1 .. MaxLeases)]
          /\ reg \in [Server -> RegisterState]
          /\ cause \in [Server -> {"none", "put", "revoke"}]
      BY <1>3, <1>4
    <2>2. /\ proc \in [Client -> ProcState] /\ told \in [Client -> Seq(Names!Address)]
          /\ res \in [client : Client \cup {NoClient}, watch : Client \cup {NoClient},
                      list : Seq(Names!Address)]
      BY <1>1, <1>2, <1>4
    <2>3. calm \in BOOLEAN /\ missed \subseteq Server /\ faults \in 0 .. MaxFaults
      <3>1. calm = FALSE /\ missed = {} /\ faults = 0 /\ MaxFaults \in Nat
        BY DEF Names!Init, NamesAssumption
      <3>2. faults \in 0 .. MaxFaults
        BY <3>1
      <3>3. calm \in BOOLEAN
        BY <3>1
      <3>4. missed \subseteq Server
        BY <3>1
      <3> QED
        BY <3>2, <3>3, <3>4
    <2> QED
      BY <1>5, <2>1, <2>2, <2>3 DEF NameTypes
  <1>7. \A c \in Client : ComesTo(c)
    BY <1>2, <1>4 DEF ComesTo
  <1>8. ServerQueueInv
    BY <1>4 DEF ServerQueueInv, Follows
  <1>9. CalmInv /\ SingleInv
    BY <1>2, <1>4 DEF CalmInv, SingleInv
  <1> QED
    BY <1>6, <1>7, <1>8, <1>9 DEF NamesInv

LEMMA NamesStep ==
    ASSUME NamesAssumption, NamesInv, [Names!Next]_Names!vars
    PROVE  NamesInv'
  <1>1. CASE UNCHANGED Names!vars
    <2>1. UNCHANGED <<key, live, reg, cause, res, chan, proc, told, calm, missed, faults>>
      BY <1>1 DEF Names!vars, Names!resolver
    <2>2. NameTypes' /\ (\A c \in Client : ComesTo(c)') /\ ServerQueueInv'
      BY <2>1 DEF NamesInv, NameTypes, ComesTo, ServerQueueInv
    <2>3. Out' = Out /\ There' = There
      BY <2>1 DEF Out, There, Names!Untold, Names!Waiting, Names!EventAddr, Names!Present
    <2>4. CalmInv'
      BY <2>1, <2>3 DEF NamesInv, CalmInv, CalmState, Carries, Rests, Names!Works
    <2>5. SingleInv'
      BY <2>1 DEF NamesInv, SingleInv, Owns, Names!Single
    <2> QED
      BY <2>2, <2>4, <2>5 DEF NamesInv
  <1>2. ASSUME NEW s \in Server,
               \/ Names!Register(s) \/ Names!RegisterStep(s) \/ Names!Stop(s)
               \/ Names!UpdateHandler(s) \/ Names!UpdatePut(s) \/ Names!Expire(s)
        PROVE  NamesInv'
    <2>1. /\ \/ \E w \in Names!Weight, n \in 1 .. MaxLeases : Names!PutKey(s, w, n)
             \/ Names!DeleteKey(s)
             \/ UNCHANGED <<key, chan, missed>>
          /\ UNCHANGED <<res, proc, told, calm>>
          /\ live' \in [Server -> SUBSET (1 .. MaxLeases)]
          /\ reg' \in [Server -> RegisterState]
          /\ cause' \in [Server -> {"none", "put", "revoke"}]
          /\ faults' \in 0 .. MaxFaults
      BY <1>2, RegisterMoves
    <2>2. /\ key' \in [Server -> Names!Key \cup {NoKey}]
          /\ chan' \in [Client -> WatchState] /\ missed' \subseteq Server
          /\ ServerQueueInv' /\ CalmInv' /\ SingleInv'
      BY <2>1, KeyMoves
    <2>3. NameTypes'
      BY <2>1, <2>2 DEF NamesInv, NameTypes
    <2>4. \A c \in Client : ComesTo(c)'
      BY <2>1 DEF NamesInv, ComesTo
    <2> QED
      BY <2>2, <2>3, <2>4 DEF NamesInv
  <1>3. ASSUME NEW c \in Client,
               \/ Names!Build(c) \/ Names!ResolverStep(c) \/ Names!Take(c) \/ Names!Tick(c)
               \/ Names!WatchLost(c) \/ Names!Close(c)
        PROVE  NamesInv'
    BY <1>3, BuildKeeps, GetKeeps, ClearKeeps, FillKeeps, UpdateStateKeeps, WatchKeeps,
       QuietKeeps, TakeKeeps, WriteKeeps, WatchLostKeeps DEF Names!ResolverStep
  <1> QED
    BY <1>1, <1>2, <1>3 DEF Names!Next

\* Once a sync of the shared Resolver has run alone, and as long as nothing of an older client
\* comes in, the client of the last Build is told the addresses etcd has for its service, each
\* once, but for those whose event waits in the watch or came where no watch saw it; and only
\* another client disturbs the sync of a client.
THEOREM NamesSafety ==
    ASSUME NamesAssumption
    PROVE  Names!Spec => [](/\ Names!TypeOK /\ Names!CaughtUp /\ Names!ListedOnce
                            /\ Names!OnlySharingDisturbs)
  <1>1. Names!Init => NamesInv
    BY NamesInit
  <1>2. NamesInv /\ [Names!Next]_Names!vars => NamesInv'
    BY NamesStep
  <1>3. NamesInv => /\ Names!TypeOK /\ Names!CaughtUp /\ Names!ListedOnce
                    /\ Names!OnlySharingDisturbs
    <2> SUFFICES ASSUME NamesInv
                 PROVE  /\ Names!TypeOK /\ Names!CaughtUp /\ Names!ListedOnce
                        /\ Names!OnlySharingDisturbs
      OBVIOUS
    <2>1. Names!TypeOK
      <3>1. NameTypes /\ (\A c \in Client : ComesTo(c))
        BY DEF NamesInv
      <3>2. ASSUME NEW c \in Client, NEW i \in DOMAIN chan[c].queue
            PROVE  chan[c].queue[i].of \in IF chan[c].queue[i].type = "put" THEN Names!Address
                                           ELSE Server
        <4>1. chan[c].queue \in Seq(NameEvent)
          BY <3>1 DEF NameTypes, WatchState
        <4>2. chan[c].queue[i] \in NameEvent
          BY <4>1
        <4> QED
          BY <4>2, EventsAreAbout
      <3>3. \A c \in Client :
               /\ chan[c].prefix \in Client /\ chan[c].open \in BOOLEAN
               /\ proc[c].pc \in ProcPcs /\ proc[c].got \in Seq(Names!Address)
               /\ proc[c].pc = "select" => proc[c].on \in Client
        BY <3>1 DEF NameTypes, WatchState, ProcState, ProcPcs, ComesTo
      <3> QED
        BY <3>1, <3>2, <3>3 DEF NameTypes, RegisterState, ProcPcs, Names!TypeOK
    <2>2. Names!AtRest => Rests
      BY DEF NamesInv, CalmInv, CalmState, Names!AtRest
    <2>3. Names!CaughtUp /\ Names!ListedOnce
      BY <2>2 DEF Rests, Good, Out, There, Names!CaughtUp, Names!ListedOnce
    <2>4. Names!OnlySharingDisturbs
      BY DEF NamesInv, SingleInv, Owns, Names!OnlySharingDisturbs
    <2> QED
      BY <2>1, <2>3, <2>4
  <1> QED
    BY <1>1, <1>2, <1>3, PTL DEF Names!Spec

=============================================================================
