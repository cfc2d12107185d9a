------------------------------ MODULE CloudLog ------------------------------
(***************************************************************************)
(* uwebfilterlog_cloud.c: log lines are collected in a buffer and sent to  *)
(* the log collector, which stores them in its table; a transfer carries a *)
(* token that the collector issued earlier.                                *)
(*                                                                         *)
(* The daemon has one thread; pc says where in uwebfilterlog_sendto_cloud  *)
(* it waits for the collector: "auth" for a token, "send" for the request  *)
(* to get there, "wait" for the answer.  Neither call has a timeout, and a *)
(* call that fails may have reached the collector all the same, which      *)
(* works on a request line by line and on several at a time.  Lines are    *)
(* numbered in the order check_access writes them.                         *)
(***************************************************************************)
EXTENDS Integers, Sequences, Functions

CONSTANTS
  LOGBUFFER_MAXSIZE,   \* lines in the buffer that make it be sent (4096)
  LOGBUFFER_INTERVAL,  \* age of the last transfer that does (30 s)
  AUTHHEADER_TTL,      \* age at which a token is renewed (6 h)
  TOKEN_LIFETIME,      \* age at which the collector refuses it (24 h)
  StartTime, MaxTime, MaxLines, MaxRotations, MaxExits   \* bounds of the model

ASSUME LogAssumption ==
  /\ LOGBUFFER_MAXSIZE \in Nat \ {0} /\ LOGBUFFER_INTERVAL \in Nat
  /\ AUTHHEADER_TTL \in Nat /\ TOKEN_LIFETIME \in Nat
  /\ StartTime \in Nat /\ MaxTime \in Nat /\ MaxLines \in Nat
  /\ MaxRotations \in Nat /\ MaxExits \in Nat
  /\ AUTHHEADER_TTL < StartTime   \* timestamp 0 is old: the clock has been set

VARIABLES
  lines,       \* lines[i]: logtime of line i
  array,       \* logbuffer.array
  last_send,   \* logbuffer.last_send
  authheader,  \* the token in authheader, or NoToken
  authheader_timestamp,
  pc,
  called,      \* time(NULL) as authheader_get read it
  asked,       \* authheader_get asks for a token in this transfer
  reply,       \* token in the answer that is on its way
  wire,        \* requests that reached the collector
  open,        \* requests it accepted: the lines still to be inserted
  stored,      \* lines in its table
  secret,      \* its signing secret
  rotated,     \* when that was last changed
  now, exits

buffer == <<lines, array, last_send>>
header == <<authheader, authheader_timestamp, called, asked, reply>>
collector == <<wire, open, stored, secret, rotated>>
vars == <<buffer, header, pc, collector, now, exits>>

Token == [secret : Nat, issued : Nat]
NoToken == [secret |-> 0, issued |-> 0]

(* called and asked are history. *)
Request == [lines : Seq(Nat), token : Token, called : Nat, asked : BOOLEAN]

Init ==
  /\ lines = <<>> /\ array = <<>> /\ last_send = 0
  /\ authheader = NoToken /\ authheader_timestamp = 0
  /\ pc = "idle" /\ called = 0 /\ asked = FALSE /\ reply = NoToken
  /\ wire = {} /\ open = {} /\ stored = <<>>
  /\ secret = 1 /\ rotated = 0
  /\ now = StartTime /\ exits = 0

-----------------------------------------------------------------------------
(* The daemon. *)

(* Mutant: the age of the token does not matter as long as there is one.     *)
authheader_get_KeepsToken ==
  /\ called' = now
  /\ IF authheader = NoToken
     THEN pc' = "auth" /\ asked' = TRUE
     ELSE pc' = "send" /\ asked' = FALSE
  /\ UNCHANGED <<authheader, authheader_timestamp, reply>>

(* An old token is thrown away and a new one asked for.                      *)
authheader_get ==
  /\ called' = now
  /\ IF authheader_timestamp + AUTHHEADER_TTL < now
     THEN authheader' = NoToken /\ pc' = "auth" /\ asked' = TRUE
     ELSE UNCHANGED authheader /\ pc' = "send" /\ asked' = FALSE
  /\ UNCHANGED <<authheader_timestamp, reply>>

(* Mutant: the buffer has to be full and old.                                *)
Due_Both(n) ==
  /\ last_send + LOGBUFFER_INTERVAL < now
  /\ n >= LOGBUFFER_MAXSIZE

Due(n) ==
  \/ last_send + LOGBUFFER_INTERVAL < now
  \/ n >= LOGBUFFER_MAXSIZE

(* A line is written: it joins the buffer, and the buffer is sent if due.    *)
uwebfilterlog_sendto_cloud ==
  /\ pc = "idle" /\ Len(lines) < MaxLines
  /\ lines' = Append(lines, now)
  /\ array' = Append(array, Len(lines) + 1)
  /\ IF Due(Len(array) + 1) THEN authheader_get ELSE UNCHANGED <<header, pc>>
  /\ UNCHANGED <<last_send, collector, now, exits>>

(* The collector's answer arrives with a token in it.                        *)
jwttoken_get ==
  /\ pc = "auth" /\ reply # NoToken
  /\ authheader' = reply
  /\ authheader_timestamp' = called
  /\ reply' = NoToken
  /\ pc' = "send"
  /\ UNCHANGED <<buffer, called, asked, collector, now, exits>>

(* Mutant: a failure counts as a renewal.                                    *)
jwttoken_get_fails_Stamps ==
  /\ pc = "auth"
  /\ authheader_timestamp' = called
  /\ reply' = NoToken
  /\ pc' = "send"
  /\ UNCHANGED <<buffer, authheader, called, asked, collector, now, exits>>

(* It does not arrive or is no JSON: the transfer goes on without a token.   *)
jwttoken_get_fails ==
  /\ pc = "auth"
  /\ reply' = NoToken
  /\ pc' = "send"
  /\ UNCHANGED <<buffer, authheader, authheader_timestamp, called, asked, collector,
                 now, exits>>

logs_send_to_cloud_server ==
  /\ pc = "send"
  /\ wire' = wire \cup {[lines |-> array, token |-> authheader,
                         called |-> called, asked |-> asked]}
  /\ pc' = "wait"
  /\ UNCHANGED <<buffer, header, open, stored, secret, rotated, now, exits>>

(* Mutant: the buffer is kept for another try when the call fails.           *)
SendEnds_Retries ==
  /\ pc \in {"send", "wait"}
  /\ array' \in {<<>>, array}
  /\ last_send' = lines[Len(lines)]
  /\ pc' = "idle"
  /\ UNCHANGED <<lines, header, collector, now, exits>>

(* Mutant: the time is set to -1 so that the next line is sent at once.      *)
SendEnds_NextAtOnce ==
  /\ pc \in {"send", "wait"}
  /\ array' = <<>>
  /\ last_send' = -1
  /\ pc' = "idle"
  /\ UNCHANGED <<lines, header, collector, now, exits>>

(* The call ends, with an answer of whatever kind or with an error: the      *)
(* buffer is emptied in any case.                                            *)
SendEnds ==
  /\ pc \in {"send", "wait"}
  /\ array' = <<>>
  /\ last_send' = lines[Len(lines)]
  /\ pc' = "idle"
  /\ UNCHANGED <<lines, header, collector, now, exits>>

(* The process ends, at any point, and is started again.                     *)
Exit ==
  /\ exits < MaxExits /\ exits' = exits + 1
  /\ array' = <<>> /\ last_send' = 0
  /\ authheader' = NoToken /\ authheader_timestamp' = 0
  /\ pc' = "idle" /\ called' = 0 /\ asked' = FALSE /\ reply' = NoToken
  /\ UNCHANGED <<lines, collector, now>>

-----------------------------------------------------------------------------
(* The collector. *)

(* It may also refuse: wrong credentials, too many requests.  That is        *)
(* jwttoken_get_fails.                                                       *)
Auth ==
  /\ pc = "auth" /\ reply = NoToken
  /\ reply' = [secret |-> secret, issued |-> now]
  /\ UNCHANGED <<buffer, authheader, authheader_timestamp, called, asked, pc,
                 collector, now, exits>>

JWTAuth(t) == t.secret = secret /\ now < t.issued + TOKEN_LIFETIME

(* A request with a good token is taken up, or refused as too large.         *)
IngestPOST(r) ==
  /\ r \in wire
  /\ wire' = wire \ {r}
  /\ \/ JWTAuth(r.token) /\ open' = open \cup {r.lines}
     \/ UNCHANGED open
  /\ UNCHANGED <<buffer, header, pc, stored, secret, rotated, now, exits>>

(* The next line of a request is inserted, or the insertion fails.           *)
PostgresInsertLogsV1(s) ==
  /\ s \in open
  /\ \/ s = <<>> /\ open' = open \ {s} /\ UNCHANGED stored
     \/ /\ s # <<>>
        /\ open' = (open \ {s}) \cup {Tail(s)}
        /\ stored' \in {Append(stored, Head(s)), stored}
  /\ UNCHANGED <<buffer, header, pc, wire, secret, rotated, now, exits>>

(* The collector is started anew with another secret.                        *)
Rotate ==
  /\ secret <= MaxRotations
  /\ secret' = secret + 1 /\ rotated' = now
  /\ wire' = {} /\ open' = {}
  /\ UNCHANGED <<buffer, header, pc, stored, now, exits>>

Tick ==
  /\ now < MaxTime
  /\ now' = now + 1
  /\ UNCHANGED <<buffer, header, pc, collector, exits>>

-----------------------------------------------------------------------------
Daemon ==
  \/ uwebfilterlog_sendto_cloud
  \/ jwttoken_get \/ jwttoken_get_fails
  \/ logs_send_to_cloud_server \/ SendEnds
  \/ Exit

Collector ==
  \/ Auth
  \/ \E r \in wire : IngestPOST(r)
  \/ \E s \in open : PostgresInsertLogsV1(s)
  \/ Rotate

Next == Daemon \/ Collector \/ Tick

Spec == Init /\ [][Next]_vars

-----------------------------------------------------------------------------
(* Properties. *)

TypeOK ==
  /\ lines \in Seq(Nat) /\ array \in Seq(Nat) /\ last_send \in Nat
  /\ authheader \in Token /\ authheader_timestamp \in Nat
  /\ pc \in {"idle", "auth", "send", "wait"}
  /\ called \in Nat /\ asked \in BOOLEAN /\ reply \in Token
  /\ wire \subseteq Request /\ open \subseteq Seq(Nat) /\ stored \in Seq(Nat)
  /\ secret \in Nat /\ rotated \in Nat /\ now \in Nat /\ exits \in Nat

(* No line is stored twice, although a transfer that the daemon saw fail may *)
(* still be at work in the collector, next to later ones.                    *)
StoredOnce == IsInjective(stored)

(* Between two lines the buffer is not full, and as long as lines keep       *)
(* coming none of them waits in it for longer than LOGBUFFER_INTERVAL,       *)
(* whatever became of the transfers before.                                  *)
BufferIsDrained ==
  (pc = "idle" /\ array # <<>>) =>
    /\ Len(array) < LOGBUFFER_MAXSIZE
    /\ \A k \in DOMAIN array :
         lines[Len(lines)] - lines[array[k]] <= LOGBUFFER_INTERVAL

(* A request carries a token the collector refuses only if the secret was    *)
(* changed less than AUTHHEADER_TTL before the daemon looked at the token,   *)
(* or the request took longer than the rest of the token's life.             *)
RefusalsEnd ==
  \A r \in wire :
    r.token = NoToken \/ JWTAuth(r.token)
      \/ r.called <= rotated + AUTHHEADER_TTL
      \/ now >= r.called + (TOKEN_LIFETIME - AUTHHEADER_TTL)

(* A request goes out without a token only if asking for one has just        *)
(* failed: a failure is not remembered for the next six hours.               *)
TokenAsked == \A r \in wire : r.token = NoToken => r.asked

(* Lines that are still on their way: in the buffer until it is sent, then   *)
(* in a request.                                                             *)
Pending == (IF pc = "wait" THEN {} ELSE Range(array))
             \cup (UNION {Range(r.lines) : r \in wire})
             \cup (UNION {Range(s) : s \in open})

(* Logging implements the at-most-once channel.                              *)
Channel == INSTANCE LogChannel WITH written <- Len(lines), pending <- Pending
ImplementsChannel == Channel!Spec
=============================================================================
