---------------------------- MODULE DomainLookup ----------------------------
(***************************************************************************)
(* domain_lookup.c: the classes (application and category) of domain names,*)
(* asked of the lookup server over HTTP and kept in a cache whose entries  *)
(* live in a fixed arena of slots.                                         *)
(*                                                                         *)
(* The daemon has one thread, so one lookup runs at a time; but the server *)
(* call takes up to ten seconds, in which the clock moves and the server's *)
(* data change.  A lookup is therefore a sequence of steps, pc says which  *)
(* comes next.  Names are opaque; Walk[d] lists the suffixes of d that the *)
(* loop over '.' visits, from d itself to its last label.                  *)
(***************************************************************************)
EXTENDS Integers, Sequences, FiniteSets

CONSTANTS
  Domains,
  Walk,              \* [Domains -> Seq(Domains)]
  Classes,           \* what the server can say of a name
  UNKNOWN,           \* category 0, application 0
  DOMAIN_INFO_ARENA_SIZE,
  GCINTERVAL,        \* DOMAIN_INFO_CACHE_GCINTERVAL, 300 s
  DEFAULT_TTL,       \* DOMAIN_INFO_CACHE_DEFAULT_TTL, 60 s
  CURL_TIMEOUT,      \* CURLOPT_TIMEOUT_MS, 10 s
  Entries,           \* what the server can hold for a name
  NULL,              \* a field the server left out
  StartTime, MaxTime, MaxUpdates   \* bounds of the model

Slots == 0 .. DOMAIN_INFO_ARENA_SIZE - 1      \* _domain_info_arena
NoSlot == DOMAIN_INFO_ARENA_SIZE

ASSUME LookupAssumption ==
  /\ UNKNOWN \in Classes
  /\ Walk \in [Domains -> Seq(Domains)] /\ Domains # {}
  /\ NULL \notin Seq(Domains)
  /\ \A e \in Entries : /\ e.class \in Classes /\ e.ttl \in Nat \cup {NULL}
                        /\ e.cache_domains \in Seq(Domains) \cup {NULL}

ASSUME BoundAssumption ==
  /\ DOMAIN_INFO_ARENA_SIZE \in Nat /\ GCINTERVAL \in Nat /\ DEFAULT_TTL \in Nat
  /\ CURL_TIMEOUT \in Nat /\ StartTime \in Nat /\ MaxTime \in Nat /\ MaxUpdates \in Nat

VARIABLES
  arena_ptr,    \* domain_info_arena_ptr, free slots from arena_index on
  arena_index,  \* domain_info_arena_index
  info,         \* info[s]: contents of slot s
  cache,        \* slots linked into the hash table
  lastgc,       \* domain_info_cache.lastgc
  pc,           \* next step of the running lookup
  req,          \* its domain
  reqtime,      \* its variable now, read before the server call
  answer,       \* the class, ttl and arrival time of the server's answer
  fill,         \* names still to be inserted
  fresh,        \* slot allocated and not linked yet
  todo,         \* entries the collector has not visited yet
  response,     \* what the last lookup told its caller
  now,          \* time(NULL)
  server,       \* server[d]: the entry the server would answer for d
  updates       \* how often the server's data changed

arena == <<arena_ptr, arena_index, info>>
job == <<req, reqtime, answer, fill, fresh, todo>>
env == <<now, server, updates>>
vars == <<arena, cache, lastgc, pc, job, response, env>>

Info == [domain : Domains, class : Classes, expire : Nat, since : Nat, ttl : Nat]
Answer == [class : Classes, ttl : Nat, since : Nat]
Response == [domain : Domains, class : Classes, from : {"cache", "server"},
             since : Nat, ttl : Nat]

AnyDomain == CHOOSE d \in Domains : TRUE
NoAnswer == [class |-> UNKNOWN, ttl |-> 0, since |-> 0]
Blank == [domain |-> AnyDomain, class |-> UNKNOWN, expire |-> 0, since |-> 0, ttl |-> 0]

Init ==
  /\ arena_ptr = [i \in Slots |-> i] /\ arena_index = 0
  /\ info = [s \in Slots |-> Blank]
  /\ cache = {} /\ lastgc = 0
  /\ pc = "idle" /\ req = AnyDomain /\ reqtime = 0
  /\ answer = NoAnswer
  /\ fill = <<>> /\ fresh = NoSlot /\ todo = {}
  /\ response = [domain |-> AnyDomain, class |-> UNKNOWN, from |-> "server",
                 since |-> 0, ttl |-> 0]
  /\ now = StartTime
  /\ server \in [Domains -> Entries]
  /\ updates = 0

-----------------------------------------------------------------------------
(* The arena and the hash table. *)

domain_info_allocate ==
  /\ fresh' = arena_ptr[arena_index]
  /\ arena_index' = arena_index + 1
  /\ UNCHANGED arena_ptr

domain_info_deallocate(s) ==
  /\ arena_index' = arena_index - 1
  /\ arena_ptr' = [arena_ptr EXCEPT ![arena_index - 1] = s]

(* Entries stored under name d; nothing keeps a name from being there twice. *)
EntriesOf(d) == {s \in cache : info[s].domain = d}

(* Mutant: the walk ends at whatever entry there is.                         *)
domain_info_cache_lookup_AnyName(d) == cache

(* The entries the walk over the suffixes of d may return.                  *)
domain_info_cache_lookup(d) ==
  UNION {EntriesOf(Walk[d][k]) :
           k \in {n \in DOMAIN Walk[d] :
                    \A m \in 1 .. n - 1 : EntriesOf(Walk[d][m]) = {}}}

-----------------------------------------------------------------------------
(* One lookup. *)

Respond(d, class, from, since, ttl) ==
  response' = [domain |-> d, class |-> class, from |-> from,
               since |-> since, ttl |-> ttl]

(* Mutant: an entry that expires in this second is still used.               *)
Hit_AtExpiry(d, s) ==
  /\ info[s].expire >= now
  /\ Respond(d, info[s].class, "cache", info[s].since, info[s].ttl)
  /\ UNCHANGED <<arena, cache, lastgc, pc, job, env>>

Hit(d, s) ==
  /\ info[s].expire > now
  /\ Respond(d, info[s].class, "cache", info[s].since, info[s].ttl)
  /\ UNCHANGED <<arena, cache, lastgc, pc, job, env>>

AskServer(d) ==
  /\ pc' = "curl" /\ req' = d /\ reqtime' = now
  /\ UNCHANGED <<answer, fill, fresh, todo, info, lastgc, response, env>>

(* Mutant: the expired entry is freed and stays linked.                      *)
Expire_KeepsEntry(d, s) ==
  /\ info[s].expire <= now
  /\ UNCHANGED cache
  /\ domain_info_deallocate(s)
  /\ AskServer(d)

Expire(d, s) ==
  /\ info[s].expire <= now
  /\ cache' = cache \ {s}
  /\ domain_info_deallocate(s)
  /\ AskServer(d)

Miss(d) ==
  /\ domain_info_cache_lookup(d) = {}
  /\ UNCHANGED <<arena_ptr, arena_index, cache>>
  /\ AskServer(d)

domain_lookup(d) ==
  /\ pc = "idle"
  /\ \/ \E s \in domain_info_cache_lookup(d) : Hit(d, s) \/ Expire(d, s)
     \/ Miss(d)

(* Mutant: the server's ttl is used as it comes.                             *)
Ttl_Raw(e) == e.ttl

(* A ttl of 0 means the default, a ttl left out means 0.                     *)
Ttl(e) == IF e.ttl = NULL THEN 0 ELSE IF e.ttl = 0 THEN DEFAULT_TTL ELSE e.ttl

(* The server answers, within the timeout.                                   *)
Answered ==
  /\ pc = "curl"
  /\ LET e == server[req]
     IN  /\ answer' = [class |-> e.class, ttl |-> Ttl(e), since |-> now]
         /\ fill' = IF e.cache_domains = NULL THEN <<req>> ELSE e.cache_domains
  /\ pc' = "fill"
  /\ UNCHANGED <<arena, cache, lastgc, req, reqtime, fresh, todo, response, env>>

(* It does not, or sends no JSON: the name is cached as unknown.             *)
CurlFails ==
  /\ pc = "curl"
  /\ answer' = [class |-> UNKNOWN, ttl |-> DEFAULT_TTL, since |-> now]
  /\ fill' = <<req>>
  /\ pc' = "fill"
  /\ UNCHANGED <<arena, cache, lastgc, req, reqtime, fresh, todo, response, env>>

(* Mutant: a full arena makes the lookup try again.                          *)
NoRoom_Retries ==
  /\ pc = "fill" /\ fill # <<>>
  /\ arena_index >= DOMAIN_INFO_ARENA_SIZE
  /\ UNCHANGED vars

(* domain_info_create: a full arena skips the name.                          *)
NoRoom ==
  /\ pc = "fill" /\ fill # <<>>
  /\ arena_index >= DOMAIN_INFO_ARENA_SIZE
  /\ fill' = Tail(fill)
  /\ UNCHANGED <<arena, cache, lastgc, pc, req, reqtime, answer, fresh, todo,
                 response, env>>

domain_info_create ==
  /\ pc = "fill" /\ fill # <<>>
  /\ arena_index < DOMAIN_INFO_ARENA_SIZE
  /\ domain_info_allocate
  /\ info' = [info EXCEPT ![fresh'] =
                [domain |-> Head(fill), class |-> answer.class,
                 expire |-> reqtime + answer.ttl,
                 since |-> answer.since, ttl |-> answer.ttl]]
  /\ IF lastgc < now - GCINTERVAL
     THEN pc' = "gc" /\ todo' = cache
     ELSE pc' = "add" /\ todo' = {}
  /\ UNCHANGED <<cache, lastgc, req, reqtime, answer, fill, response, env>>

(* The collector frees an expired entry; rand() < 0.2 holds when rand() is 0, *)
(* so that it may free any other one as well.                                *)
CollectFree(s) ==
  /\ pc = "gc" /\ s \in todo
  /\ todo' = todo \ {s}
  /\ cache' = cache \ {s}
  /\ domain_info_deallocate(s)
  /\ UNCHANGED <<info, lastgc, pc, req, reqtime, answer, fill, fresh, response, env>>

(* Mutant: the collector keeps what expired a second ago.                    *)
CollectKeep_Late(s) ==
  /\ pc = "gc" /\ s \in todo
  /\ info[s].expire >= now - 1
  /\ todo' = todo \ {s}
  /\ UNCHANGED <<arena, cache, lastgc, pc, req, reqtime, answer, fill, fresh,
                 response, env>>

CollectKeep(s) ==
  /\ pc = "gc" /\ s \in todo
  /\ info[s].expire >= now
  /\ todo' = todo \ {s}
  /\ UNCHANGED <<arena, cache, lastgc, pc, req, reqtime, answer, fill, fresh,
                 response, env>>

CollectEnd ==
  /\ pc = "gc" /\ todo = {}
  /\ lastgc' = now
  /\ pc' = "add"
  /\ UNCHANGED <<arena, cache, job, response, env>>

domain_info_cache_insert ==
  /\ pc = "add"
  /\ cache' = cache \cup {fresh}
  /\ fresh' = NoSlot
  /\ fill' = Tail(fill)
  /\ pc' = "fill"
  /\ UNCHANGED <<arena, lastgc, req, reqtime, answer, todo, response, env>>

(* All names are inserted.  The caller's response still is what the caller   *)
(* set it to before: unknown.                                                *)
Return ==
  /\ pc = "fill" /\ fill = <<>>
  /\ pc' = "idle"
  /\ Respond(req, UNKNOWN, "server", 0, 0)
  /\ req' = AnyDomain /\ reqtime' = 0 /\ answer' = NoAnswer
  /\ UNCHANGED <<arena, cache, lastgc, fill, fresh, todo, env>>

-----------------------------------------------------------------------------
(* Time passes between lookups and while the server is asked.                *)
Tick ==
  /\ now < MaxTime
  /\ pc = "idle" \/ (pc = "curl" /\ now < reqtime + CURL_TIMEOUT)
  /\ now' = now + 1
  /\ UNCHANGED <<arena, cache, lastgc, pc, job, response, server, updates>>

(* The operators or the scraper change the server's data.                    *)
ServerUpdate(d) ==
  /\ updates < MaxUpdates
  /\ \E e \in Entries : server' = [server EXCEPT ![d] = e]
  /\ updates' = updates + 1
  /\ UNCHANGED <<arena, cache, lastgc, pc, job, response, now>>

Collect == (\E s \in todo : CollectFree(s) \/ CollectKeep(s)) \/ CollectEnd

Continue ==
  \/ Answered \/ CurlFails
  \/ NoRoom \/ domain_info_create
  \/ Collect \/ domain_info_cache_insert
  \/ Return

Next ==
  \/ \E d \in Domains : domain_lookup(d) \/ ServerUpdate(d)
  \/ Continue
  \/ Tick

Spec == Init /\ [][Next]_vars

-----------------------------------------------------------------------------
(* Properties. *)

TypeOK ==
  /\ arena_ptr \in [Slots -> Slots] /\ arena_index \in 0 .. DOMAIN_INFO_ARENA_SIZE
  /\ info \in [Slots -> Info] /\ cache \subseteq Slots /\ lastgc \in Nat
  /\ pc \in {"idle", "curl", "fill", "gc", "add"}
  /\ req \in Domains /\ reqtime \in Nat /\ answer \in Answer /\ fill \in Seq(Domains)
  /\ fresh \in Slots \cup {NoSlot} /\ todo \subseteq Slots
  /\ response \in Response /\ now \in Nat
  /\ server \in [Domains -> Entries] /\ updates \in Nat

Free == {arena_ptr[i] : i \in arena_index .. DOMAIN_INFO_ARENA_SIZE - 1}
Used == cache \cup ({fresh} \ {NoSlot})

(* The slots from arena_index on are exactly those no entry uses, each once: *)
(* no slot is handed out while it is in use, freed twice, or lost, and       *)
(* arena_index, which the asserts of the arena bound, counts the entries.    *)
ArenaPartition ==
  /\ Free = Slots \ Used
  /\ \A i, j \in arena_index .. DOMAIN_INFO_ARENA_SIZE - 1 :
       arena_ptr[i] = arena_ptr[j] => i = j
  /\ arena_index = Cardinality(Used)

(* An answer from the cache is younger than the ttl it came with, although   *)
(* its expiry counts from a time read before the server was asked.           *)
AnswersAreYoung ==
  [][response'.from = "cache" =>
       now < response'.since + response'.ttl \/ response' = response]_vars

(* When the collector is done, no entry that has expired is left.            *)
CollectorIsThorough ==
  [][lastgc' # lastgc => \A s \in cache' : info'[s].expire >= now]_vars

(* A lookup returns to the packet handler, which waits for it.               *)
LookupReturns == pc # "idle" ~> pc = "idle"

(* A lookup that asked the server tells its caller what the server said.     *)
ServerAnswerUsed ==
  [][(pc = "fill" /\ pc' = "idle") => response'.class = answer.class]_vars
=============================================================================
