--------------------------- MODULE ApiObject_proofs ---------------------------
(* What a write, a watch event and a relist do to the versions in flight,     *)
(* whatever a version is made of.                                            *)
EXTENDS ApiObject, TLAPS

\* The cache's copy and the server's are in flight, and every version is one of T's.
LEMMA InFlightTyped ==
    ASSUME NEW T, objs \in Seq(T), Len(objs) \in 1 .. MaxLag + 1
    PROVE  /\ InFlight \subseteq T
           /\ Cached \in InFlight /\ Server \in InFlight
           /\ Cached \in T /\ Server \in T
           /\ Len(objs) \in Nat /\ Len(objs) >= 1
  <1>1. Len(objs) \in Nat /\ Len(objs) >= 1
    BY MaxLagAssumption
  <1>2. 1 \in 1 .. Len(objs) /\ Len(objs) \in 1 .. Len(objs)
    BY <1>1
  <1>3. \A i \in 1 .. Len(objs) : objs[i] \in T
    BY <1>1
  <1>4. InFlight \subseteq T
    BY <1>3, Zenon DEF InFlight
  <1>5. Cached \in InFlight
    BY <1>2, Zenon DEF InFlight, Cached
  <1>6. Server \in InFlight
    BY <1>2, Zenon DEF InFlight, Server
  <1>. QED BY <1>1, <1>4, <1>5, <1>6, Zenon

\* A current cache leaves nobody with another version than the server's.
LEMMA CurrentCache ==
    ASSUME NEW T, objs \in Seq(T), CacheIsCurrent
    PROVE  /\ Cached = Server
           /\ InFlight = {Server}
  <1>1. 1 .. Len(objs) = {1}
    BY DEF CacheIsCurrent
  <1>2. Cached = Server
    BY DEF CacheIsCurrent, Cached, Server
  <1>3. InFlight = {objs[1]}
    BY <1>1, Zenon DEF InFlight
  <1>. QED BY <1>2, <1>3 DEF Cached

\* A write: the new version is the server's, all others stay in flight.
LEMMA WriteInFlight ==
    ASSUME NEW T, objs \in Seq(T), Len(objs) \in 1 .. MaxLag + 1, NEW v \in T,
           objs' = Append(objs, v), CacheIsCurrent \/ Len(objs) <= MaxLag
    PROVE  /\ Server' = v
           /\ Cached' = Cached
           /\ InFlight' = InFlight \cup {v}
           /\ objs' \in Seq(T) /\ Len(objs') \in 1 .. MaxLag + 1
  <1>1. MaxLag \in Nat /\ MaxLag >= 1 /\ Len(objs) \in Nat /\ Len(objs) >= 1
    BY MaxLagAssumption
  <1>2. /\ objs' \in Seq(T) /\ Len(objs') = Len(objs) + 1
        /\ objs'[Len(objs) + 1] = v
        /\ \A i \in 1 .. Len(objs) : objs'[i] = objs[i]
    BY <1>1
  <1>3. Server' = v
    BY <1>2 DEF Server
  <1>4. Len(objs') \in 1 .. MaxLag + 1
    BY <1>1, <1>2 DEF CacheIsCurrent
  <1>5. Cached' = Cached
    BY <1>1, <1>2 DEF Cached
  <1>6. /\ \A i \in 1 .. Len(objs') : i \in 1 .. Len(objs) \/ i = Len(objs) + 1
        /\ Len(objs) + 1 \in 1 .. Len(objs')
        /\ \A i \in 1 .. Len(objs) : i \in 1 .. Len(objs')
    BY <1>1, <1>2
  <1>7. InFlight' = InFlight \cup {v}
    <2>1. InFlight' \subseteq InFlight \cup {v}
      BY <1>2, <1>6, Zenon DEF InFlight
    <2>2. InFlight \subseteq InFlight'
      BY <1>2, <1>6, Zenon DEF InFlight
    <2>3. v \in InFlight'
      BY <1>2, <1>6, Zenon DEF InFlight
    <2>. QED BY <2>1, <2>2, <2>3
  <1>. QED BY <1>2, <1>3, <1>4, <1>5, <1>7

\* A watch event: no version is new, and the server's stays.
LEMMA DeliverInFlight ==
    ASSUME NEW T, objs \in Seq(T), Len(objs) \in 1 .. MaxLag + 1,
           Len(objs) > 1, objs' = Tail(objs)
    PROVE  /\ Server' = Server
           /\ InFlight' \subseteq InFlight
           /\ objs' \in Seq(T) /\ Len(objs') \in 1 .. MaxLag + 1
  <1>1. MaxLag \in Nat /\ MaxLag >= 1 /\ Len(objs) \in Nat /\ Len(objs) >= 1
    BY MaxLagAssumption
  <1>2. /\ objs' \in Seq(T) /\ Len(objs') = Len(objs) - 1
        /\ \A i \in 1 .. Len(objs') : i + 1 \in 1 .. Len(objs) /\ objs'[i] = objs[i + 1]
    BY <1>1
  <1>3. Server' = Server
    BY <1>1, <1>2 DEF Server
  <1>4. Len(objs') \in 1 .. MaxLag + 1
    BY <1>1, <1>2
  <1>5. InFlight' \subseteq InFlight
    BY <1>2, Zenon DEF InFlight
  <1>. QED BY <1>2, <1>3, <1>4, <1>5

\* A relist, after a restart: one version is left.
LEMMA RelistInFlight ==
    ASSUME NEW T, NEW v \in T, objs' = <<v>>
    PROVE  /\ Server' = v
           /\ InFlight' = {v}
           /\ objs' \in Seq(T) /\ Len(objs') \in 1 .. MaxLag + 1
  <1>1. objs' \in Seq(T) /\ Len(objs') = 1 /\ objs'[1] = v
    OBVIOUS
  <1>2. Len(objs') \in 1 .. MaxLag + 1
    BY <1>1, MaxLagAssumption
  <1>3. 1 .. Len(objs') = {1}
    BY <1>1
  <1>4. InFlight' = {v}
    BY <1>1, <1>3, Zenon DEF InFlight
  <1>5. Server' = v
    BY <1>1 DEF Server
  <1>. QED BY <1>1, <1>2, <1>4, <1>5

\* No write: nothing changes.
LEMMA NoWriteInFlight ==
    ASSUME UNCHANGED objs
    PROVE  Server' = Server /\ Cached' = Cached /\ InFlight' = InFlight
  BY DEF Server, Cached, InFlight

\* A new object: the cache and the server have the same one version.
LEMMA FirstVersion ==
    ASSUME NEW T, NEW v \in T, objs = <<v>>
    PROVE  /\ Server = v
           /\ InFlight = {v}
           /\ objs \in Seq(T) /\ Len(objs) \in 1 .. MaxLag + 1
  <1>1. objs \in Seq(T) /\ Len(objs) = 1 /\ objs[1] = v
    OBVIOUS
  <1>2. Len(objs) \in 1 .. MaxLag + 1
    BY <1>1, MaxLagAssumption
  <1>3. CacheIsCurrent /\ Cached = v
    BY <1>1 DEF CacheIsCurrent, Cached
  <1>4. InFlight = {v} /\ Server = v
    BY <1>1, <1>3, CurrentCache
  <1>. QED BY <1>1, <1>2, <1>4
=============================================================================
