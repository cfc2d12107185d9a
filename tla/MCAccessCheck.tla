--------------------------- MODULE MCAccessCheck ----------------------------
(* Small instances of AccessCheck for TLC.                                   *)
EXTENDS AccessCheck, TLC

CONSTANTS site, www

MCWalk == [d \in Domains |-> IF d = www THEN <<www, site>> ELSE <<d>>]

Class(a, c) == [application |-> a, category |-> c]
Unknown == Class(0, 0)
MCClasses == {Unknown, Class(0, 7), Class(3, 0)}

\* answers that name no, two and no particular names, with a ttl left out, of
\* 0 and of 1; categories and applications differ, so that a mixed-up class shows
MCEntries == {[class |-> Unknown, ttl |-> NULL, cache_domains |-> <<>>],
              [class |-> Class(0, 7), ttl |-> 0, cache_domains |-> <<site, www>>],
              [class |-> Class(3, 0), ttl |-> 1, cache_domains |-> NULL]}

File(a, c, b, w) == [applications |-> a, categories |-> c,
                     domains_blacklist |-> b, domains_whitelist |-> w]
MCFiles == {File(NULL, NULL, <<site>>, NULL),
            File(<<3>>, <<7, NULL>>, NULL, <<NULL, www>>),
            File(<<3>>, <<7>>, <<site>>, <<www>>)}
=============================================================================
