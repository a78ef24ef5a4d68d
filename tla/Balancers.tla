------------------------------ MODULE Balancers ------------------------------
(***************************************************************************)
(* common/discovery/load_balancer.go: the five balancers, asked to select  *)
(* among the same instances, whose health changes between the selections.  *)
(* Every Select filters the healthy instances again, so the counters of    *)
(* the round robins count over lists of different lengths.                 *)
(***************************************************************************)
EXTENDS Integers, Sequences, FiniteSets, SequencesExt, FiniteSetsExt

CONSTANTS Instance,     \* a sequence: the instances in the order of the list
          Weight,       \* [instance -> its weight]
          Point,        \* [instance -> the hashes of its virtual nodes, a sequence]
          KeyHash,      \* the hashes of the keys that are looked up
          Client,       \* users of the least-connections balancer
          NoInstance,   \* nothing selected
          MaxPicks      \* bound: selections of each balancer

VARIABLES strategy, \* the balancer the factory has created
          healthy,  \* the instances whose Health is "healthy"
          rr,       \* the round robin: [current, picks]
          wrr,      \* the weighted round robin: [current, picks]
          conn,     \* the counters of the least-connections balancer
          using,    \* [Client -> [pc, of]]
          chosen    \* [key -> the last lookup: [of, among the healthy instances]]

vars == <<strategy, healthy, rr, wrr, conn, using, chosen>>

All == Range(Instance)

\* The strategies the factory knows ("random" keeps no state: it may give any healthy instance).
Strategy == {"round_robin", "weighted_round_robin", "least_connections", "consistent_hash"}

CreateLoadBalancer == strategy \in Strategy

(* The type of every variable. *)
TypeOK ==
    /\ strategy \in Strategy
    /\ healthy \subseteq All
    /\ \A b \in {rr, wrr} : b.current \in 0 .. MaxPicks /\ b.picks \in Seq(All)
    /\ conn \in [All -> 0 .. Cardinality(Client)]
    /\ using \in [Client -> [pc : {"idle", "selected", "connected"}, of : All \cup {NoInstance}]]
    /\ chosen \in [KeyHash -> [of : All \cup {NoInstance}, among : SUBSET All]]

Init ==
    /\ CreateLoadBalancer
    /\ healthy = All
    /\ rr = [current |-> 0, picks |-> <<>>] /\ wrr = [current |-> 0, picks |-> <<>>]
    /\ conn = [i \in All |-> 0]
    /\ using = [c \in Client |-> [pc |-> "idle", of |-> NoInstance]]
    /\ chosen = [k \in KeyHash |-> [of |-> NoInstance, among |-> {}]]

\* The healthy instances, in the order of the list.
healthyInstances == SelectSeq(Instance, LAMBDA i : i \in healthy)

Picked(b, i) == [current |-> b.current + 1, picks |-> Append(b.picks, i)]

RoundRobinSelect ==
    /\ strategy = "round_robin" /\ healthy /= {} /\ rr.current < MaxPicks
    /\ rr' = Picked(rr, healthyInstances[(rr.current % Len(healthyInstances)) + 1])
    /\ UNCHANGED <<strategy, healthy, wrr, conn, using, chosen>>

TotalWeight(list) == FoldSeq(LAMBDA i, n : Weight[i] + n, 0, list)

\* The instance in whose share of the weights the counter falls.
\* Mutant: a counter that is equal to the sum of the weights so far counts as within.
WeightedPickOff(list, n) ==
    list[Min({j \in DOMAIN list : n <= TotalWeight(SubSeq(list, 1, j))})]

WeightedPick(list, n) ==
    list[Min({j \in DOMAIN list : n < TotalWeight(SubSeq(list, 1, j))})]

WeightedRoundRobinSelect ==
    /\ strategy = "weighted_round_robin" /\ healthy /= {} /\ wrr.current < MaxPicks
    /\ LET list == healthyInstances
           total == TotalWeight(list)
       IN wrr' = Picked(wrr, IF total = 0 THEN list[(wrr.current % Len(list)) + 1]
                             ELSE WeightedPick(list, wrr.current % total))
    /\ UNCHANGED <<strategy, healthy, rr, conn, using, chosen>>

\* The first healthy instance with the fewest connections.  Selecting and
\* IncrementConnections are two calls.
LeastConnectionsSelect(c) ==
    /\ strategy = "least_connections" /\ healthy /= {} /\ using[c].pc = "idle"
    /\ LET list == healthyInstances
           j == Min({k \in DOMAIN list : \A l \in DOMAIN list : conn[list[k]] <= conn[list[l]]})
       IN using' = [using EXCEPT ![c] = [pc |-> "selected", of |-> list[j]]]
    /\ UNCHANGED <<strategy, healthy, rr, wrr, conn, chosen>>

IncrementConnections(c) ==
    /\ using[c].pc = "selected"
    /\ conn' = [conn EXCEPT ![using[c].of] = @ + 1]
    /\ using' = [using EXCEPT ![c].pc = "connected"]
    /\ UNCHANGED <<strategy, healthy, rr, wrr, chosen>>

\* Mutant: the guard of the counter is an off-by-one.
DecrementedAboveOne(n) == IF n > 1 THEN n - 1 ELSE n

Decremented(n) == IF n > 0 THEN n - 1 ELSE n

DecrementConnections(c) ==
    /\ using[c].pc = "connected"
    /\ conn' = [conn EXCEPT ![using[c].of] = Decremented(@)]
    /\ using' = [using EXCEPT ![c] = [pc |-> "idle", of |-> NoInstance]]
    /\ UNCHANGED <<strategy, healthy, rr, wrr, chosen>>

\* buildRing: the virtual nodes of every instance; the last one that has a hash keeps it.
\* Mutant: the ring of the earlier calls is kept.
buildRingKept(list) == Instance

buildRing(list) == list

Ring(list) ==
    [h \in UNION {Range(Point[list[j]]) : j \in DOMAIN list} |->
        list[Max({j \in DOMAIN list : h \in Range(Point[list[j]])})]]

\* The first node at or after the hash, or the first of all.
ConsistentHashSelect(k) ==
    /\ strategy = "consistent_hash" /\ healthy /= {}
    /\ LET ring == Ring(buildRing(healthyInstances))
           after == {h \in DOMAIN ring : h >= k}
       IN chosen' = [chosen EXCEPT ![k] =
            [of |-> ring[Min(IF after = {} THEN DOMAIN ring ELSE after)], among |-> healthy]]
    /\ UNCHANGED <<strategy, healthy, rr, wrr, conn, using>>

\* The health of an instance changes.  The windows of the properties start again.
SetHealth(i) ==
    /\ healthy' = IF i \in healthy THEN healthy \ {i} ELSE healthy \cup {i}
    /\ rr' = [rr EXCEPT !.picks = <<>>] /\ wrr' = [wrr EXCEPT !.picks = <<>>]
    /\ UNCHANGED <<strategy, conn, using, chosen>>

Next ==
    \/ RoundRobinSelect \/ WeightedRoundRobinSelect
    \/ \E c \in Client :
        LeastConnectionsSelect(c) \/ IncrementConnections(c) \/ DecrementConnections(c)
    \/ \E k \in KeyHash : ConsistentHashSelect(k)
    \/ \E i \in All : SetHealth(i)

Spec == Init /\ [][Next]_vars

(***************************************************************************)
(* Properties                                                              *)
(***************************************************************************)
Count(picks, i) == Cardinality({j \in DOMAIN picks : picks[j] = i})

\* The last n selections.
Window(picks, n) == SubSeq(picks, Len(picks) - n + 1, Len(picks))

(* While the health of the instances stays, any run of as many selections *)
(* as the weights add up to gives each instance its weight of them, from  *)
(* whatever value the counter has; the plain round robin gives each one   *)
(* (RoundRobinLoadBalancer.Select, WeightedRoundRobinLoadBalancer.Select). *)
SharesAreWeights ==
    LET list == healthyInstances
        total == TotalWeight(list)
    IN /\ total > 0 /\ Len(wrr.picks) >= total =>
            \A i \in healthy : Count(Window(wrr.picks, total), i) = Weight[i]
       /\ Len(list) > 0 /\ Len(rr.picks) >= Len(list) =>
            \A i \in healthy : Count(Window(rr.picks, Len(list)), i) = 1

(* The counters of the least-connections balancer are the connections that *)
(* are in use (IncrementConnections, DecrementConnections).                *)
ConnectionsCounted ==
    \A i \in All : conn[i] = Cardinality({c \in Client : using[c] = [pc |-> "connected", of |-> i]})

(* A lookup of a key moves only away from an instance that is no longer   *)
(* healthy, or to one that was not healthy at the last lookup, and never  *)
(* to one that is not healthy (ConsistentHashLoadBalancer.Select).        *)
LookupsAreStable ==
    \A k \in KeyHash :
        LET was == chosen[k]
            now == chosen'[k]
        IN now.of /= was.of => /\ now.of \in healthy
                               /\ \/ was.of \notin healthy
                                  \/ now.of \notin was.among

(* Claim of load_balancer.go:197 ("找到连接数最少的实例"): a client connects *)
(* to an instance that no healthy one undercuts.  Between Select and      *)
(* IncrementConnections another client may take the same instance.        *)
LeastIsTaken ==
    \A c \in Client : using[c].pc = "selected" /\ using'[c].pc = "connected" =>
        \A i \in healthy : conn[using[c].of] <= conn[i]

=============================================================================
