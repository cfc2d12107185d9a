------------------------- MODULE DomainLookupProofs -------------------------
(***************************************************************************)
(* The arena of domain_lookup.c is used correctly by every sequence of     *)
(* lookups, collections, failures and server updates, for every arena size,*)
(* every set of names and every content of the server.                     *)
(***************************************************************************)
EXTENDS DomainLookup, FiniteSetTheorems, SequenceTheorems, TLAPS

N == DOMAIN_INFO_ARENA_SIZE

(* U is the set of slots in use; the others lie in ptr from x on.           *)
ArenaOK(ptr, x, U) ==
  /\ ptr \in [Slots -> Slots] /\ x \in 0 .. N /\ U \subseteq Slots
  /\ {ptr[i] : i \in x .. N - 1} = Slots \ U
  /\ \A i, j \in x .. N - 1 : ptr[i] = ptr[j] => i = j
  /\ x = Cardinality(U)

(* Every set of slots is finite.                                            *)
LEMMA SlotsFinite == \A U \in SUBSET Slots : IsFiniteSet(U)
<1>1. IsFiniteSet(Slots)
  BY FS_Interval, BoundAssumption DEF Slots
<1> QED BY <1>1, FS_Subset

(* Allocation takes a slot that is not in use.                              *)
LEMMA AllocateOK ==
  ASSUME NEW p, NEW x, NEW U, ArenaOK(p, x, U), x < N
  PROVE  p[x] \in Slots \ U /\ ArenaOK(p, x + 1, U \cup {p[x]})
<1> USE BoundAssumption DEF N
<1>1. x \in Nat /\ x \in x .. N - 1 /\ x \in Slots /\ p[x] \in Slots
  BY DEF ArenaOK, Slots
<1>2. p[x] \in Slots \ U
  BY <1>1 DEF ArenaOK
<1>3. {p[i] : i \in x + 1 .. N - 1} = Slots \ (U \cup {p[x]})
  <2>1. \A i \in x + 1 .. N - 1 : i \in x .. N - 1 /\ p[i] # p[x]
    BY <1>1 DEF ArenaOK
  <2>2. \A i \in x .. N - 1 : i = x \/ i \in x + 1 .. N - 1
    BY <1>1
  <2> QED BY <2>1, <2>2 DEF ArenaOK
<1>4. \A i, j \in x + 1 .. N - 1 : p[i] = p[j] => i = j
  BY <1>1 DEF ArenaOK
<1>5. Cardinality(U \cup {p[x]}) = x + 1
  BY <1>2, SlotsFinite, FS_AddElement DEF ArenaOK
<1>6. p \in [Slots -> Slots] /\ x \in 0 .. N /\ U \subseteq Slots
  BY DEF ArenaOK
<1>7. x + 1 \in 0 .. N
  BY <1>6
<1>8. U \cup {p[x]} \subseteq Slots
  BY <1>1, <1>6
<1> QED BY <1>2, <1>3, <1>4, <1>5, <1>6, <1>7, <1>8 DEF ArenaOK

(* Deallocating a slot in use finds arena_index positive and puts it back.  *)
LEMMA DeallocateOK ==
  ASSUME NEW p, NEW x, NEW U, ArenaOK(p, x, U), NEW s \in U
  PROVE  x > 0 /\ ArenaOK([p EXCEPT ![x - 1] = s], x - 1, U \ {s})
<1> DEFINE q == [p EXCEPT ![x - 1] = s]
<1> USE BoundAssumption DEF N
<1>1. s \in Slots /\ x \in 0 .. N /\ p \in [Slots -> Slots] /\ IsFiniteSet(U) /\ U \subseteq Slots
  BY SlotsFinite DEF ArenaOK
<1>2. x # 0
  BY <1>1, FS_EmptySet DEF ArenaOK
<1>3. x - 1 \in Slots /\ x - 1 \in 0 .. N /\ x > 0
  BY <1>1, <1>2 DEF Slots
<1>4. q \in [Slots -> Slots] /\ q[x - 1] = s /\ \A i \in x .. N - 1 : q[i] = p[i]
  BY <1>1, <1>3 DEF Slots
<1>5. \A i \in x - 1 .. N - 1 : i = x - 1 \/ i \in x .. N - 1
  BY <1>1
<1>6. \A i \in x .. N - 1 : i \in x - 1 .. N - 1 /\ p[i] # s
  BY <1>1 DEF ArenaOK
<1>7. x - 1 \in x - 1 .. N - 1
  BY <1>1, <1>3
<1> HIDE DEF q
<1>8. {q[i] : i \in x - 1 .. N - 1} = Slots \ (U \ {s})
  <2>1. {p[i] : i \in x .. N - 1} = Slots \ U
    BY DEF ArenaOK
  <2> QED BY <1>1, <1>4, <1>5, <1>6, <1>7, <2>1
<1>9. \A i, j \in x - 1 .. N - 1 : q[i] = q[j] => i = j
  <2>1. \A i, j \in x .. N - 1 : p[i] = p[j] => i = j
    BY DEF ArenaOK
  <2> QED BY <1>4, <1>5, <1>6, <2>1
<1>10. Cardinality(U \ {s}) = x - 1
  BY <1>1, FS_RemoveElement DEF ArenaOK
<1> QED BY <1>1, <1>3, <1>4, <1>8, <1>9, <1>10 DEF ArenaOK, q

-----------------------------------------------------------------------------
(* The inductive invariant. *)

(* The slot being filled is no entry yet, and the collector's list holds     *)
(* entries only: nothing is freed twice.                                     *)
Steps ==
  /\ pc \in {"gc", "add"} <=> fresh # NoSlot
  /\ pc \in {"gc", "add"} => fill # <<>>
  /\ fresh \notin cache /\ todo \subseteq cache
  /\ pc # "gc" => todo = {}

(* An expiry counts from a time before the server answered.                  *)
Ages ==
  /\ reqtime <= now
  /\ pc \in {"fill", "gc", "add"} => reqtime <= answer.since
  /\ \A s \in Slots : info[s].expire <= info[s].since + info[s].ttl

(* What the collector has visited and left in the cache has not expired.     *)
Swept == pc = "gc" => \A s \in cache \ todo : info[s].expire >= now

Arena == ArenaOK(arena_ptr, arena_index, Used)
IInv == TypeOK /\ Steps /\ Arena /\ Ages /\ Swept

(* The daemon starts with an empty cache and all slots free.                 *)
LEMMA InitInv == Init => IInv
<1> SUFFICES ASSUME Init PROVE IInv
  OBVIOUS
<1> USE BoundAssumption, LookupAssumption DEF Init
<1>1. AnyDomain \in Domains
  BY DEF AnyDomain
<1>2. Blank \in Info /\ NoAnswer \in Answer
  BY <1>1 DEF Blank, NoAnswer, Info, Answer
<1>3. TypeOK
  BY <1>1, <1>2 DEF TypeOK, Response, Slots, NoSlot
<1>4. NoSlot \notin Slots
  BY DEF NoSlot, Slots
<1>5. Steps
  BY DEF Steps
<1>6. Used = {}
  BY DEF Used
<1>7. Arena
  <2>1. {arena_ptr[i] : i \in 0 .. N - 1} = Slots
    BY DEF N, Slots
  <2>2. \A i, j \in 0 .. N - 1 : arena_ptr[i] = arena_ptr[j] => i = j
    BY DEF N, Slots
  <2>3. Cardinality({}) = 0
    BY FS_EmptySet
  <2> QED BY <1>6, <1>3, <2>1, <2>2, <2>3 DEF Arena, ArenaOK, TypeOK, N
<1>8. Ages /\ Swept
  BY <1>1 DEF Ages, Swept, Blank
<1> QED BY <1>3, <1>5, <1>7, <1>8 DEF IInv

(* A hit changes the response only; time and the server's data are not used  *)
(* by the arena.                                                             *)
LEMMA QuietSteps ==
  ASSUME IInv,
         \/ \E d \in Domains : \E s \in domain_info_cache_lookup(d) : Hit(d, s)
         \/ Tick
         \/ \E d \in Domains : ServerUpdate(d)
         \/ UNCHANGED vars
  PROVE  IInv'
<1> USE BoundAssumption, LookupAssumption DEF vars, arena, job, env
<1>1. CASE \E d \in Domains : \E s \in domain_info_cache_lookup(d) : Hit(d, s)
  <2>1. PICK d \in Domains : \E s \in domain_info_cache_lookup(d) : Hit(d, s)
    BY <1>1
  <2>2. PICK s \in domain_info_cache_lookup(d) : Hit(d, s)
    BY <2>1
  <2>3. s \in Slots
    BY DEF domain_info_cache_lookup, EntriesOf, IInv, TypeOK
  <2>4. response' \in Response
    BY <2>2, <2>3 DEF Hit, Respond, Response, IInv, TypeOK, Info
  <2>5. UNCHANGED <<arena, cache, lastgc, pc, job, env>>
    BY <2>2 DEF Hit
  <2> QED BY <2>4, <2>5 DEF IInv, TypeOK, Steps, Arena, Used, Ages, Swept
<1>2. CASE Tick
  <2>1. now' = now + 1 /\ pc # "gc" /\ UNCHANGED <<arena, cache, lastgc, pc, job, response, server, updates>>
    BY <1>2 DEF Tick
  <2>2. now \in Nat /\ reqtime \in Nat
    BY DEF IInv, TypeOK
  <2>3. now' \in Nat /\ reqtime' <= now'
    BY <2>1, <2>2 DEF IInv, Ages
  <2> QED BY <2>1, <2>3 DEF IInv, TypeOK, Steps, Arena, Used, Ages, Swept
<1>3. CASE \E d \in Domains : ServerUpdate(d)
  <2>1. PICK d \in Domains : ServerUpdate(d)
    BY <1>3
  <2>2. server' \in [Domains -> Entries] /\ updates' \in Nat
    BY <2>1 DEF ServerUpdate, IInv, TypeOK
  <2>3. UNCHANGED <<arena, cache, lastgc, pc, job, response, now>>
    BY <2>1 DEF ServerUpdate
  <2> QED BY <2>2, <2>3 DEF IInv, TypeOK, Steps, Arena, Used, Ages, Swept
<1>4. CASE UNCHANGED vars
  BY <1>4 DEF IInv, TypeOK, Steps, Arena, Used, Ages, Swept
<1> QED BY <1>1, <1>2, <1>3, <1>4

(* Starting a lookup may free the expired entry that was found.              *)
LEMMA AskInv ==
  ASSUME IInv, NEW d \in Domains, pc = "idle",
         Miss(d) \/ \E s \in domain_info_cache_lookup(d) : Expire(d, s)
  PROVE  IInv'
<1> USE BoundAssumption, LookupAssumption DEF vars, arena, job, env
<1>1. AskServer(d)
  BY DEF Miss, Expire
<1>2. fresh = NoSlot /\ todo' = todo /\ fresh' = fresh /\ pc' = "curl"
  BY <1>1 DEF AskServer, IInv, Steps
<1>3. CASE Miss(d)
  BY <1>1, <1>2, <1>3 DEF AskServer, Miss, IInv, TypeOK, Steps, Arena, Used, Ages, Swept
<1>4. CASE \E s \in domain_info_cache_lookup(d) : Expire(d, s)
  <2>1. PICK s \in domain_info_cache_lookup(d) : Expire(d, s)
    BY <1>4
  <2>2. s \in cache
    BY DEF domain_info_cache_lookup, EntriesOf
  <2>3. s \in Used /\ cache' = cache \ {s} /\ Used' = Used \ {s}
    BY <1>2, <2>1, <2>2 DEF Used, Expire
  <2>4. Arena'
    BY <2>1, <2>3, DeallocateOK DEF Expire, domain_info_deallocate, IInv, Arena
  <2>5. arena_ptr' \in [Slots -> Slots] /\ arena_index' \in 0 .. DOMAIN_INFO_ARENA_SIZE
    BY <2>4 DEF Arena, ArenaOK, N
  <2>6. TypeOK'
    BY <1>1, <2>3, <2>5 DEF AskServer, IInv, TypeOK
  <2>7. todo = {}
    BY DEF IInv, Steps
  <2>8. Steps'
    BY <1>2, <2>3, <2>7 DEF IInv, Steps
  <2>9. reqtime' = now /\ UNCHANGED <<now, info>> /\ now \in Nat
    BY <1>1 DEF AskServer, IInv, TypeOK
  <2>10. Ages'
    BY <1>2, <2>9 DEF IInv, Ages
  <2> QED BY <1>2, <2>4, <2>6, <2>8, <2>10 DEF IInv, Swept
<1> QED BY <1>3, <1>4

(* The server's answer, or its failure, leaves the arena alone.              *)
LEMMA CurlInv ==
  ASSUME IInv, Answered \/ CurlFails
  PROVE  IInv'
<1> USE BoundAssumption, LookupAssumption DEF arena, job, env
<1>1. req \in Domains /\ reqtime <= now /\ now \in Nat
  BY DEF IInv, TypeOK, Ages
<1>2. answer' \in Answer /\ answer'.since = now
  <2>1. CASE Answered
    <3>1. server[req] \in Entries
      BY <1>1 DEF IInv, TypeOK
    <3>2. Ttl(server[req]) \in Nat
      BY <3>1 DEF Ttl
    <3> QED BY <1>1, <2>1, <3>1, <3>2 DEF Answered, Answer
  <2>2. CASE CurlFails
    BY <1>1, <2>2 DEF CurlFails, Answer
  <2> QED BY <2>1, <2>2
<1>3. fill' \in Seq(Domains)
  <2>1. CASE Answered
    <3>1. server[req] \in Entries
      BY <1>1 DEF IInv, TypeOK
    <3> QED BY <1>1, <2>1, <3>1 DEF Answered
  <2>2. CASE CurlFails
    BY <1>1, <2>2 DEF CurlFails
  <2> QED BY <2>1, <2>2
<1>4. /\ pc = "curl" /\ pc' = "fill"
      /\ UNCHANGED <<arena, cache, lastgc, req, reqtime, fresh, todo, response, env>>
  BY DEF Answered, CurlFails
<1> QED BY <1>1, <1>2, <1>3, <1>4 DEF IInv, TypeOK, Steps, Arena, Used, Ages, Swept

(* A new entry takes a free slot; the collector starts with every entry on   *)
(* its list.                                                                 *)
LEMMA CreateInv ==
  ASSUME IInv, domain_info_create
  PROVE  IInv'
<1> USE BoundAssumption, LookupAssumption
<1>1. /\ pc = "fill" /\ fill # <<>> /\ arena_index < N
      /\ fresh' = arena_ptr[arena_index] /\ arena_index' = arena_index + 1
      /\ UNCHANGED <<arena_ptr, cache, lastgc, req, reqtime, answer, fill, response, now, server, updates>>
  BY DEF domain_info_create, domain_info_allocate, N, env
<1>2. fresh = NoSlot /\ Used = cache
  BY <1>1 DEF IInv, Steps, Used
<1>3. fresh' \in Slots \ cache /\ ArenaOK(arena_ptr, arena_index + 1, cache \cup {fresh'})
  BY <1>1, <1>2, AllocateOK DEF IInv, Arena
<1>4. NoSlot \notin Slots
  BY DEF NoSlot, Slots
<1>5. Used' = cache \cup {fresh'}
  BY <1>1, <1>3, <1>4 DEF Used
<1>6. Arena'
  BY <1>1, <1>3, <1>5 DEF Arena
<1> DEFINE new == [domain |-> Head(fill), class |-> answer.class,
                   expire |-> reqtime + answer.ttl,
                   since |-> answer.since, ttl |-> answer.ttl]
<1>7. Head(fill) \in Domains
  BY <1>1 DEF IInv, TypeOK
<1>8. answer.ttl \in Nat /\ answer.since \in Nat /\ reqtime \in Nat /\ reqtime <= answer.since
  BY <1>1 DEF IInv, TypeOK, Ages, Answer
<1>9. new \in Info
  BY <1>7, <1>8 DEF Info, IInv, TypeOK, Answer
<1>10. new.expire <= new.since + new.ttl
  BY <1>8
<1>11. info' = [info EXCEPT ![fresh'] = new]
  BY DEF domain_info_create
<1> HIDE DEF new
<1>12. info \in [Slots -> Info]
  BY DEF IInv, TypeOK
<1>13. info' \in [Slots -> Info] /\ \A s \in Slots : info'[s] = IF s = fresh' THEN new ELSE info[s]
  BY <1>3, <1>9, <1>11, <1>12
<1>14. \A s \in Slots : info'[s].expire <= info'[s].since + info'[s].ttl
  BY <1>10, <1>13 DEF IInv, Ages
<1>15. (pc' = "gc" /\ todo' = cache) \/ (pc' = "add" /\ todo' = {})
  BY DEF domain_info_create
<1>16. arena_index' \in 0 .. DOMAIN_INFO_ARENA_SIZE
  BY <1>6 DEF Arena, ArenaOK, N
<1>17. TypeOK'
  <2>1. cache \subseteq Slots
    BY DEF IInv, TypeOK
  <2>2. pc' \in {"idle", "curl", "fill", "gc", "add"} /\ todo' \subseteq Slots
    BY <1>15, <2>1
  <2>3. fresh' \in Slots \cup {NoSlot}
    BY <1>3
  <2> QED BY <1>1, <1>13, <1>16, <2>2, <2>3 DEF IInv, TypeOK
<1>18. Steps'
  BY <1>1, <1>3, <1>4, <1>15 DEF Steps
<1>19. Ages'
  BY <1>1, <1>14, <1>15 DEF IInv, Ages
<1>20. Swept'
  BY <1>1, <1>15 DEF Swept
<1> QED BY <1>6, <1>17, <1>18, <1>19, <1>20 DEF IInv

(* A collector step frees an entry in use, once, or leaves it.               *)
LEMMA CollectInv ==
  ASSUME IInv, Collect
  PROVE  IInv'
<1> USE BoundAssumption, LookupAssumption DEF arena, job, env
<1>1. CASE \E s \in todo : CollectFree(s)
  <2>1. PICK s \in todo : CollectFree(s)
    BY <1>1
  <2>2. s \in cache /\ s # fresh /\ pc = "gc"
    BY <2>1 DEF CollectFree, IInv, Steps
  <2>3. s \in Used /\ Used' = Used \ {s}
    BY <2>1, <2>2 DEF Used, CollectFree
  <2>4. Arena'
    BY <2>1, <2>3, DeallocateOK DEF CollectFree, domain_info_deallocate, IInv, Arena
  <2>5. arena_ptr' \in [Slots -> Slots] /\ arena_index' \in 0 .. DOMAIN_INFO_ARENA_SIZE
    BY <2>4 DEF Arena, ArenaOK, N
  <2>6. /\ todo' = todo \ {s} /\ cache' = cache \ {s}
        /\ UNCHANGED <<info, lastgc, pc, req, reqtime, answer, fill, fresh, response, env>>
    BY <2>1 DEF CollectFree
  <2>7. TypeOK'
    BY <2>5, <2>6 DEF IInv, TypeOK
  <2> QED BY <2>2, <2>4, <2>6, <2>7 DEF IInv, Steps, Ages, Swept
<1>2. CASE \E s \in todo : CollectKeep(s)
  <2>1. PICK s \in todo : CollectKeep(s)
    BY <1>2
  <2>2. /\ pc = "gc" /\ info[s].expire >= now /\ todo' = todo \ {s}
        /\ UNCHANGED <<arena, cache, lastgc, pc, req, reqtime, answer, fill, fresh, response, env>>
    BY <2>1 DEF CollectKeep
  <2> QED BY <2>2 DEF IInv, TypeOK, Steps, Arena, Used, Ages, Swept
<1>3. CASE CollectEnd
  <2>1. /\ pc = "gc" /\ todo = {} /\ lastgc' = now /\ pc' = "add"
        /\ UNCHANGED <<arena, cache, job, response, env>>
    BY <1>3 DEF CollectEnd
  <2> QED BY <2>1 DEF IInv, TypeOK, Steps, Arena, Used, Ages, Swept
<1> QED BY <1>1, <1>2, <1>3 DEF Collect

(* Linking the new entry, skipping a name or returning uses the same slots.  *)
LEMMA FillInv ==
  ASSUME IInv, NoRoom \/ domain_info_cache_insert \/ Return
  PROVE  IInv'
<1> USE BoundAssumption, LookupAssumption DEF arena, job, env
<1>1. fill # <<>> => Tail(fill) \in Seq(Domains)
  BY DEF IInv, TypeOK
<1>2. CASE NoRoom
  BY <1>1, <1>2 DEF NoRoom, IInv, TypeOK, Steps, Arena, Used, Ages, Swept
<1>3. CASE domain_info_cache_insert
  <2>1. /\ pc = "add" /\ cache' = cache \cup {fresh} /\ fresh' = NoSlot /\ fill' = Tail(fill)
        /\ pc' = "fill" /\ UNCHANGED <<arena, lastgc, req, reqtime, answer, todo, response, env>>
    BY <1>3 DEF domain_info_cache_insert
  <2>2. fresh # NoSlot /\ fresh \in Slots /\ fill # <<>> /\ todo = {}
    BY <2>1 DEF IInv, Steps, TypeOK
  <2>3. Used' = Used
    BY <2>1, <2>2 DEF Used
  <2>4. NoSlot \notin Slots
    BY DEF NoSlot, Slots
  <2>5. TypeOK'
    BY <1>1, <2>1, <2>2 DEF IInv, TypeOK
  <2>6. Steps'
    BY <2>1, <2>2, <2>4 DEF IInv, TypeOK, Steps
  <2> QED BY <2>1, <2>3, <2>5, <2>6 DEF IInv, Arena, Ages, Swept
<1>4. CASE Return
  <2>1. AnyDomain \in Domains
    BY DEF AnyDomain
  <2>2. NoAnswer \in Answer /\ response' \in Response
    BY <1>4 DEF NoAnswer, Answer, Return, Respond, Response, IInv, TypeOK
  <2>3. /\ pc = "fill" /\ pc' = "idle" /\ req' = AnyDomain /\ reqtime' = 0 /\ answer' = NoAnswer
        /\ UNCHANGED <<arena, cache, lastgc, fill, fresh, todo, env>>
    BY <1>4 DEF Return
  <2>4. reqtime' <= now'
    BY <2>3 DEF IInv, TypeOK
  <2> QED BY <2>1, <2>2, <2>3, <2>4 DEF IInv, TypeOK, Steps, Arena, Used, Ages, Swept
<1> QED BY <1>2, <1>3, <1>4

(* Every step keeps the inductive invariant.                                 *)
LEMMA NextInv == IInv /\ [Next]_vars => IInv'
<1> SUFFICES ASSUME IInv, [Next]_vars PROVE IInv'
  OBVIOUS
<1>1. CASE \E d \in Domains : domain_lookup(d)
  <2>1. PICK d \in Domains : domain_lookup(d)
    BY <1>1
  <2> QED BY <2>1, AskInv, QuietSteps DEF domain_lookup
<1>2. CASE \E d \in Domains : ServerUpdate(d)
  BY <1>2, QuietSteps
<1>3. CASE Continue
  BY <1>3, CurlInv, CreateInv, CollectInv, FillInv DEF Continue
<1>4. CASE Tick
  BY <1>4, QuietSteps
<1>5. CASE UNCHANGED vars
  BY <1>5, QuietSteps
<1> QED BY <1>1, <1>2, <1>3, <1>4, <1>5 DEF Next

(* The inductive invariant holds in every reachable state.                   *)
THEOREM Invariance == Spec => []IInv
BY InitInv, NextInv, PTL DEF Spec

(* Every variable of the lookup keeps its type; in particular arena_index    *)
(* stays within 0 .. DOMAIN_INFO_ARENA_SIZE, as the asserts of               *)
(* domain_info_allocate and domain_info_deallocate demand.                   *)
THEOREM TypeCorrect == Spec => []TypeOK
<1>1. IInv => TypeOK
  BY DEF IInv
<1> QED BY <1>1, Invariance, PTL

(* No slot of _domain_info_arena is handed out while an entry uses it, freed *)
(* twice or lost, for an arena of any size.                                  *)
THEOREM ArenaIsPartitioned == Spec => []ArenaPartition
<1>1. IInv => ArenaPartition
  BY DEF IInv, Arena, ArenaOK, ArenaPartition, Free, N
<1> QED BY <1>1, Invariance, PTL

(* What domain_lookup answers from the cache is younger than its ttl,        *)
(* although the server call may take up to CURL_TIMEOUT.                     *)
THEOREM CacheAnswersAreYoung == Spec => AnswersAreYoung
<1>1. IInv /\ [Next]_vars
        => [response'.from = "cache" =>
              now < response'.since + response'.ttl \/ response' = response]_vars
  <2> SUFFICES ASSUME IInv, Next, response'.from = "cache", response' # response
               PROVE  now < response'.since + response'.ttl
    OBVIOUS
  <2>1. PICK d \in Domains : \E s \in domain_info_cache_lookup(d) : Hit(d, s)
    BY DEF Next, domain_lookup, Expire, Miss, AskServer, Continue, Answered, CurlFails,
           NoRoom, domain_info_create, Collect, CollectFree, CollectKeep, CollectEnd,
           domain_info_cache_insert, Return, Respond, Tick, ServerUpdate
  <2>2. PICK s \in domain_info_cache_lookup(d) : Hit(d, s)
    BY <2>1
  <2>3. s \in Slots
    BY DEF domain_info_cache_lookup, EntriesOf, IInv, TypeOK
  <2>4. /\ info[s].expire > now /\ response'.since = info[s].since
        /\ response'.ttl = info[s].ttl
    BY <2>2 DEF Hit, Respond
  <2>5. info[s].expire <= info[s].since + info[s].ttl
    BY <2>3 DEF IInv, Ages
  <2>6. info[s].expire \in Nat /\ info[s].since \in Nat /\ info[s].ttl \in Nat /\ now \in Nat
    BY <2>3 DEF IInv, TypeOK, Info
  <2> QED BY <2>4, <2>5, <2>6
<1> QED BY <1>1, Invariance, PTL DEF Spec, AnswersAreYoung

(* When domain_info_cache_insert sets lastgc, no expired entry is left.      *)
THEOREM CollectionIsThorough == Spec => CollectorIsThorough
<1>1. IInv /\ [Next]_vars
        => [lastgc' # lastgc => \A s \in cache' : info'[s].expire >= now]_vars
  <2> SUFFICES ASSUME IInv, Next, lastgc' # lastgc
               PROVE  \A s \in cache' : info'[s].expire >= now
    OBVIOUS
  <2>1. CollectEnd
    BY DEF Next, domain_lookup, Hit, Expire, Miss, AskServer, Continue, Answered, CurlFails,
           NoRoom, domain_info_create, Collect, CollectFree, CollectKeep,
           domain_info_cache_insert, Return, Tick, ServerUpdate
  <2> QED BY <2>1 DEF CollectEnd, IInv, Swept, arena
<1> QED BY <1>1, Invariance, PTL DEF Spec, CollectorIsThorough
=============================================================================
