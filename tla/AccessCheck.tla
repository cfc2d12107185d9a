---------------------------- MODULE AccessCheck -----------------------------
(***************************************************************************)
(* check.c and the user's policy in config.c, on top of DomainLookup: a    *)
(* check looks the name up and decides when the lookup has returned.  A    *)
(* class is a record of an application and a category.                     *)
(***************************************************************************)
EXTENDS DomainLookup

CONSTANTS
  ConfigFiles        \* contents of config.json; a key left out is NULL

ASSUME ConfigAssumption ==
  /\ NULL \notin Domains
  /\ \A f \in ConfigFiles :
       /\ f.domains_blacklist # NULL => f.domains_blacklist \in Seq(Domains)
       /\ f.domains_whitelist # NULL => f.domains_whitelist \in Seq(Domains \cup {NULL})

VARIABLES
  config,   \* the loaded policy
  told,     \* history: the names and classes that answers of the server held
  log       \* the last uwebfilterlog line, if any

checkvars == <<vars, config, told, log>>

BLOCKTYPE_NONE           == 0
BLOCKTYPE_APPLICATION    == 1
BLOCKTYPE_CATEGORY       == 2
BLOCKTYPE_USER_BLACKLIST == 3
BLOCKTYPE_USER_WHITELIST == 4

ACCEPT == "accept"
DROP   == "drop"

(* An absent list is empty, and so is a null in a list. *)
LoadList(l) == IF l = NULL THEN {} ELSE {l[k] : k \in DOMAIN l} \ {NULL}

config_load(f) ==
  [applications |-> LoadList(f.applications), categories |-> LoadList(f.categories),
   blacklist |-> LoadList(f.domains_blacklist),
   whitelist |-> LoadList(f.domains_whitelist)]

config_is_application_blocked(a) == a \in config.applications
config_is_category_blocked(c) == c \in config.categories

(* Mutant: only the name itself is looked for. *)
config_domain_lookup_NoSuffixes(list, d) == d \in list

config_domain_lookup(list, d) == \E k \in DOMAIN Walk[d] : Walk[d][k] \in list

config_is_domain_blacklisted(d) == config_domain_lookup(config.blacklist, d)
config_is_domain_whitelisted(d) == config_domain_lookup(config.whitelist, d)

-----------------------------------------------------------------------------
(* The first rule that refuses the name. *)
Reason(d, class) ==
  IF config_is_application_blocked(class.application) THEN BLOCKTYPE_APPLICATION
  ELSE IF config_is_category_blocked(class.category) THEN BLOCKTYPE_CATEGORY
  ELSE IF config_is_domain_blacklisted(d) THEN BLOCKTYPE_USER_BLACKLIST
  ELSE BLOCKTYPE_NONE

Decision(d, class) ==
  LET blocked == Reason(d, class) # BLOCKTYPE_NONE
      saved == blocked /\ config_is_domain_whitelisted(d)
  IN  [domain |-> d, class |-> class,
       blocktype |-> IF saved THEN BLOCKTYPE_USER_WHITELIST ELSE Reason(d, class),
       verdict |-> IF blocked /\ ~saved THEN DROP ELSE ACCEPT]

Decide(d) == log' = <<Decision(d, response'.class)>>

(* check_access(d) up to the decision, or up to the question to the server.  *)
CheckBegin(d) ==
  /\ domain_lookup(d)
  /\ \/ pc' = "idle" /\ Decide(d)
     \/ pc' = "curl" /\ UNCHANGED log
  /\ UNCHANGED <<config, told>>

CheckEnd == Return /\ Decide(req) /\ UNCHANGED <<config, told>>

Learn ==
  /\ Answered
  /\ told' = told \cup {<<fill'[k], answer'.class>> : k \in DOMAIN fill'}
  /\ UNCHANGED <<config, log>>

LookupStep ==
  /\ CurlFails \/ NoRoom \/ domain_info_create \/ Collect \/ domain_info_cache_insert
  /\ UNCHANGED <<config, told, log>>

EnvStep ==
  /\ Tick \/ \E d \in Domains : ServerUpdate(d)
  /\ UNCHANGED <<config, told, log>>

CheckInit ==
  /\ Init
  /\ \E f \in ConfigFiles : config = config_load(f)
  /\ told = {} /\ log = <<>>

(* What the thread does next once a check has begun. *)
CheckContinue == Learn \/ LookupStep \/ CheckEnd

CheckNext ==
  \/ \E d \in Domains : CheckBegin(d)
  \/ CheckContinue
  \/ EnvStep

CheckSpec == CheckInit /\ [][CheckNext]_checkvars

(* A check goes on by itself: curl returns at its timeout at the latest, and *)
(* nothing else blocks.                                                      *)
FairCheckSpec == CheckSpec /\ WF_checkvars(CheckContinue)

-----------------------------------------------------------------------------
(* Properties. *)

Listed(list, d) == list \cap {Walk[d][k] : k \in DOMAIN Walk[d]} # {}

(* The verdicts check_access may give for d whatever the server says, fails  *)
(* to say or said before: what the packet loop takes for granted.            *)
Access(policy, d) ==
  IF Listed(policy.whitelist, d) THEN {ACCEPT}
  ELSE IF Listed(policy.blacklist, d) THEN {DROP}
  ELSE IF policy.applications = {} /\ policy.categories = {} THEN {ACCEPT}
  ELSE {ACCEPT, DROP}

(* The user's lists settle a name and its subdomains in every state of the   *)
(* cache and of the server; only other names may change their verdict.       *)
ListsDecide == \A k \in DOMAIN log : log[k].verdict \in Access(config, log[k].domain)

(* A name is refused for its class only when the server once gave that class *)
(* to the name or to a parent of it: neither an entry whose slot was reused, *)
(* nor one freed, expired or written twice, lends its class to another name. *)
BlockedOnEvidence ==
  \A k \in DOMAIN log :
    (/\ log[k].blocktype \in {BLOCKTYPE_APPLICATION, BLOCKTYPE_CATEGORY}
     /\ log[k].class # UNKNOWN)
      => \E n \in DOMAIN Walk[log[k].domain] :
           <<Walk[log[k].domain][n], log[k].class>> \in told
=============================================================================
