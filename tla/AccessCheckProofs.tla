-------------------------- MODULE AccessCheckProofs --------------------------
(***************************************************************************)
(* What check_access promises, proved for every policy, every set of names *)
(* and every behaviour of the lookup server.                               *)
(***************************************************************************)
EXTENDS AccessCheck, DomainLookupProofs

(* The server gave the class of e to the name of e, or e is unknown.         *)
Told(e) == e.class = UNKNOWN \/ <<e.domain, e.class>> \in told

(* Every entry in use and every entry about to be written is backed by an    *)
(* answer of the server.                                                     *)
Evidence ==
  /\ \A s \in Used : Told(info[s])
  /\ pc \in {"fill", "gc", "add"} =>
       \/ answer.class = UNKNOWN
       \/ \A k \in DOMAIN fill : <<fill[k], answer.class>> \in told

CheckInv == IInv /\ Evidence /\ ListsDecide /\ BlockedOnEvidence

(* A check is, for the lookup, a lookup.                                     *)
LEMMA CheckIsLookup == [CheckNext]_checkvars => [Next]_vars
BY DEF CheckNext, checkvars, CheckBegin, CheckContinue, Learn,
          LookupStep, EnvStep, CheckEnd, Next, Continue

(* The walk of config_domain_lookup visits the name and its parents.         *)
LEMMA LookupIsListed ==
  \A list, d : config_domain_lookup(list, d) <=> Listed(list, d)
BY DEF config_domain_lookup, Listed

(* Whatever class the lookup returned, the lists have the last word.         *)
LEMMA DecisionFollowsLists ==
  \A d, class : Decision(d, class).verdict \in Access(config, d)
<1> TAKE d, class
<1>1. config_is_domain_whitelisted(d) <=> Listed(config.whitelist, d)
  BY LookupIsListed DEF config_is_domain_whitelisted
<1>2. config_is_domain_blacklisted(d) <=> Listed(config.blacklist, d)
  BY LookupIsListed DEF config_is_domain_blacklisted
<1> QED
  BY <1>1, <1>2 DEF Decision, Reason, Access, config_is_application_blocked,
     config_is_category_blocked, BLOCKTYPE_NONE, BLOCKTYPE_APPLICATION,
     BLOCKTYPE_CATEGORY, BLOCKTYPE_USER_BLACKLIST

(* The log line of a decision obeys the lists.                               *)
LEMMA DecideFollowsLists ==
  ASSUME NEW d, Decide(d), config' = config
  PROVE  ListsDecide'
<1>1. log' = <<Decision(d, response'.class)>>
  BY DEF Decide
<1>2. Decision(d, response'.class).domain = d
  BY DEF Decision
<1>3. Decision(d, response'.class).verdict \in Access(config', d)
  BY DecisionFollowsLists
<1> QED BY <1>1, <1>2, <1>3 DEF ListsDecide

(* A hit answers with a backed entry stored under the name or a parent.      *)
LEMMA HitHasEvidence ==
  ASSUME IInv, Evidence, NEW d \in Domains,
         NEW s \in domain_info_cache_lookup(d), Hit(d, s), Decide(d), told' = told
  PROVE  BlockedOnEvidence'
<1>1. PICK n \in DOMAIN Walk[d] : s \in EntriesOf(Walk[d][n])
  BY DEF domain_info_cache_lookup
<1>2. s \in cache /\ info[s].domain = Walk[d][n]
  BY <1>1 DEF EntriesOf
<1>3. s \in Used
  BY <1>2 DEF Used
<1>4. info[s].class = UNKNOWN \/ <<Walk[d][n], info[s].class>> \in told
  BY <1>2, <1>3 DEF Evidence, Told
<1>5. log' = <<Decision(d, info[s].class)>>
  BY DEF Hit, Respond, Decide
<1>6. /\ Decision(d, info[s].class).domain = d
      /\ Decision(d, info[s].class).class = info[s].class
  BY DEF Decision
<1> QED BY <1>1, <1>4, <1>5, <1>6 DEF BlockedOnEvidence

(* A lookup that asked the server returns with an unknown class.             *)
LEMMA ReturnHasEvidence ==
  ASSUME Return, Decide(req)
  PROVE  BlockedOnEvidence'
<1>1. log' = <<Decision(req, UNKNOWN)>>
  BY DEF Return, Respond, Decide
<1>2. Decision(req, UNKNOWN).class = UNKNOWN
  BY DEF Decision
<1> QED BY <1>1, <1>2 DEF BlockedOnEvidence

(* Steps of the lookup keep every entry backed.                              *)
LEMMA EvidenceKept ==
  ASSUME IInv, IInv', Evidence, CheckNext
  PROVE  Evidence'
<1> USE DEF arena, job, env
<1>1. CASE \E d \in Domains : CheckBegin(d)
  <2>1. PICK d \in Domains : domain_lookup(d) /\ told' = told
    BY <1>1 DEF CheckBegin
  <2>2. cache' \subseteq cache /\ fresh' = fresh /\ info' = info /\ pc' \in {"idle", "curl"}
    BY <2>1 DEF domain_lookup, Hit, Expire, Miss, AskServer
  <2> QED BY <2>1, <2>2 DEF Evidence, Used, Told
<1>2. CASE Learn
  <2>1. /\ UNCHANGED <<arena, cache, fresh>> /\ pc' = "fill"
        /\ told' = told \cup {<<fill'[k], answer'.class>> : k \in DOMAIN fill'}
    BY <1>2 DEF Learn, Answered
  <2>2. \A s \in Used : Told(info[s])'
    BY <2>1 DEF Evidence, Told
  <2> QED BY <2>1, <2>2 DEF Evidence, Used, Told
<1>3. CASE CheckEnd
  BY <1>3 DEF CheckEnd, Return, Evidence, Used, Told
<1>4. CASE LookupStep \/ EnvStep
  <2>1. told' = told
    BY <1>4 DEF LookupStep, EnvStep
  <2>2. CASE CurlFails
    BY <2>1, <2>2 DEF CurlFails, Evidence, Used, Told
  <2>3. CASE NoRoom \/ domain_info_cache_insert
    <3>1. fill \in Seq(Domains) /\ fill # <<>> /\ fill' = Tail(fill)
      BY <2>3 DEF NoRoom, domain_info_cache_insert, IInv, TypeOK, Steps
    <3>2. \A k \in DOMAIN fill' : k + 1 \in DOMAIN fill /\ fill'[k] = fill[k + 1]
      BY <3>1
    <3>3. Used' \subseteq Used /\ UNCHANGED <<info, answer>> /\ pc \in {"fill", "add"}
      BY <2>3 DEF NoRoom, domain_info_cache_insert, Used, IInv, Steps
    <3> QED BY <2>1, <3>2, <3>3 DEF Evidence, Told
  <2>4. CASE domain_info_create
    <3>1. /\ pc = "fill" /\ fill # <<>> /\ fill' = fill /\ answer' = answer /\ cache' = cache
          /\ info' = [info EXCEPT ![fresh'] =
                        [domain |-> Head(fill), class |-> answer.class,
                         expire |-> reqtime + answer.ttl,
                         since |-> answer.since, ttl |-> answer.ttl]]
      BY <2>4 DEF domain_info_create
    <3>2. 1 \in DOMAIN fill /\ Head(fill) = fill[1]
      BY <3>1 DEF IInv, TypeOK
    <3>3. fresh' \notin cache /\ Used' \subseteq cache \cup {fresh'} /\ Used' \subseteq Slots
          /\ cache \subseteq Used
      BY <3>1 DEF IInv, Steps, Used, Arena, ArenaOK
    <3>4. info \in [Slots -> Info]
      BY DEF IInv, TypeOK
    <3>5. \A s \in Used' :
            \/ s \in Used /\ info'[s] = info[s]
            \/ info'[s].domain = fill[1] /\ info'[s].class = answer.class
      BY <3>1, <3>2, <3>3, <3>4
    <3>6. answer.class = UNKNOWN \/ \A k \in DOMAIN fill : <<fill[k], answer.class>> \in told
      BY <3>1 DEF Evidence
    <3>7. \A s \in Used' : Told(info[s])'
      BY <2>1, <3>2, <3>5, <3>6 DEF Evidence, Told
    <3> QED BY <2>1, <3>1, <3>6, <3>7 DEF Evidence
  <2>5. CASE Collect
    <3>1. /\ cache' \subseteq cache /\ pc = "gc"
          /\ UNCHANGED <<fresh, info, fill, answer>>
      BY <2>5 DEF Collect, CollectFree, CollectKeep, CollectEnd
    <3> QED BY <2>1, <3>1 DEF Evidence, Used, Told
  <2>6. CASE Tick
    BY <2>1, <2>6 DEF Tick, Evidence, Used, Told
  <2>7. CASE \E d \in Domains : ServerUpdate(d)
    BY <2>1, <2>7 DEF ServerUpdate, Evidence, Used, Told
  <2> QED BY <1>4, <2>2, <2>3, <2>4, <2>5, <2>6, <2>7 DEF LookupStep, EnvStep
<1> QED BY <1>1, <1>2, <1>3, <1>4 DEF CheckNext, CheckContinue

(* A step that writes no log line leaves what the last one said true: the    *)
(* policy is fixed and the server's answers are not forgotten.               *)
LEMMA LogKept ==
  ASSUME ListsDecide, BlockedOnEvidence, log' = log, config' = config,
         told \subseteq told'
  PROVE  ListsDecide' /\ BlockedOnEvidence'
BY DEF ListsDecide, BlockedOnEvidence

(* Every step of a check keeps the invariant.                                *)
LEMMA CheckNextInv == CheckInv /\ [CheckNext]_checkvars => CheckInv'
<1> SUFFICES ASSUME CheckInv, [CheckNext]_checkvars PROVE CheckInv'
  OBVIOUS
<1>1. IInv /\ Evidence /\ ListsDecide /\ BlockedOnEvidence
  BY DEF CheckInv
<1>2. IInv'
  BY <1>1, CheckIsLookup, NextInv
<1>3. CASE CheckNext
  <2>1. Evidence'
    BY <1>1, <1>2, <1>3, EvidenceKept
  <2>2. CASE \E d \in Domains : CheckBegin(d)
    <3>1. PICK d \in Domains : CheckBegin(d)
      BY <2>2
    <3>2. CASE pc' = "idle" /\ Decide(d)
      <4>1. PICK s \in domain_info_cache_lookup(d) : Hit(d, s)
        BY <3>1, <3>2 DEF CheckBegin, domain_lookup, Expire, Miss, AskServer
      <4>2. told' = told /\ config' = config
        BY <3>1 DEF CheckBegin
      <4> QED BY <1>1, <1>2, <2>1, <3>2, <4>1, <4>2, HitHasEvidence, DecideFollowsLists
              DEF CheckInv
    <3>3. CASE pc' = "curl" /\ UNCHANGED log
      <4>1. told' = told /\ config' = config
        BY <3>1 DEF CheckBegin
      <4> QED BY <1>1, <1>2, <2>1, <3>3, <4>1, LogKept DEF CheckInv
    <3> QED BY <3>1, <3>2, <3>3 DEF CheckBegin
  <2>3. CASE CheckEnd
    BY <1>2, <2>1, <2>3, ReturnHasEvidence, DecideFollowsLists DEF CheckEnd, CheckInv
  <2>4. CASE Learn \/ LookupStep \/ EnvStep
    <3>1. log' = log /\ config' = config /\ told \subseteq told'
      BY <2>4 DEF Learn, LookupStep, EnvStep
    <3> QED BY <1>1, <1>2, <2>1, <3>1, LogKept DEF CheckInv
  <2> QED BY <1>3, <2>2, <2>3, <2>4 DEF CheckNext, CheckContinue
<1>4. CASE UNCHANGED checkvars
  <2>1. UNCHANGED <<vars, config, told, log>>
    BY <1>4 DEF checkvars
  <2>2. Evidence'
    BY <1>1, <2>1 DEF Evidence, Used, Told, vars, arena, job
  <2> QED BY <1>1, <1>2, <2>1, <2>2, LogKept DEF CheckInv
<1> QED BY <1>3, <1>4

(* The invariant holds whenever checks run.                                  *)
THEOREM CheckInvariance == CheckSpec => []CheckInv
<1>1. CheckInit => CheckInv
  BY InitInv DEF CheckInit, CheckInv, Init, Evidence, Used, ListsDecide, BlockedOnEvidence
<1> QED BY <1>1, CheckNextInv, PTL DEF CheckSpec

(* What check_access promises to the packet loop about names on the user's   *)
(* lists holds for every policy and whatever the lookup server does.         *)
THEOREM ListsAlwaysDecide == CheckSpec => []ListsDecide
<1>1. CheckInv => ListsDecide
  BY DEF CheckInv
<1> QED BY <1>1, CheckInvariance, PTL

(* No name is refused for a class the server never gave to it or a parent.   *)
THEOREM NoRefusalWithoutEvidence == CheckSpec => []BlockedOnEvidence
<1>1. CheckInv => BlockedOnEvidence
  BY DEF CheckInv
<1> QED BY <1>1, CheckInvariance, PTL
=============================================================================
