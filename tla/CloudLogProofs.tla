--------------------------- MODULE CloudLogProofs ---------------------------
(***************************************************************************)
(* Proofs about CloudLog, for any limits, lifetimes and number of lines.   *)
(*                                                                         *)
(* Four inductive invariants, each resting on the ones before it: types;   *)
(* what the header and the tokens on their way say about each other        *)
(* (HeaderInv); that the buffer only holds lines written since the last    *)
(* transfer (DrainInv); and that a line is in one place only (LineInv),    *)
(* from which the refinement follows.                                      *)
(***************************************************************************)
EXTENDS CloudLog, SequenceTheorems, TLAPS

-----------------------------------------------------------------------------
(* Sequences and their ranges. *)

LEMMA RangeEmpty == Range(<<>>) = {} /\ IsInjective(<<>>)
BY DEF Range, IsInjective

LEMMA RangeAppend ==
  ASSUME NEW s \in Seq(Nat), NEW x \in Nat
  PROVE  /\ Range(Append(s, x)) = Range(s) \cup {x}
         /\ (IsInjective(s) /\ x \notin Range(s)) => IsInjective(Append(s, x))
<1> DEFINE t == Append(s, x)
<1>1. Len(s) \in Nat /\ DOMAIN s = 1..Len(s)
  OBVIOUS
<1>2. /\ t \in Seq(Nat) /\ Len(t) = Len(s) + 1
      /\ \A k \in 1..Len(s) : t[k] = s[k]
      /\ t[Len(s) + 1] = x
  BY AppendProperties
<1> HIDE DEF t
<1>3. DOMAIN t = 1..Len(s) + 1
  BY <1>1, <1>2
<1>4. Range(t) = Range(s) \cup {x}
  <2>1. 1..Len(s) + 1 = 1..Len(s) \cup {Len(s) + 1}
    BY <1>1
  <2>2. ASSUME NEW y \in Range(t) PROVE y \in Range(s) \cup {x}
    <3>1. PICK k \in 1..Len(s) \cup {Len(s) + 1} : y = t[k]
      BY <1>3, <2>1 DEF Range
    <3>2. CASE k \in 1..Len(s)
      BY <1>1, <1>2, <3>1, <3>2 DEF Range
    <3>3. CASE k = Len(s) + 1
      BY <1>2, <3>1, <3>3
    <3> QED
      BY <3>1, <3>2, <3>3
  <2>3. ASSUME NEW y \in Range(s) PROVE y \in Range(t)
    <3>1. PICK k \in 1..Len(s) : y = s[k]
      BY <1>1 DEF Range
    <3>2. y = t[k] /\ k \in DOMAIN t
      BY <1>2, <1>3, <2>1, <3>1
    <3> QED
      BY <3>2 DEF Range
  <2>4. x \in Range(t)
    <3>1. Len(s) + 1 \in DOMAIN t /\ t[Len(s) + 1] = x
      BY <1>2, <1>3, <2>1
    <3> QED
      BY <3>1 DEF Range
  <2> QED
    BY <2>2, <2>3, <2>4
<1>5. ASSUME IsInjective(s), x \notin Range(s)
      PROVE  IsInjective(t)
  <2>1. \A k \in 1..Len(s) : s[k] # x
    BY <1>1, <1>5 DEF Range
  <2>2. \A a, b \in 1..Len(s) : s[a] = s[b] => a = b
    BY <1>1, <1>5 DEF IsInjective
  <2> SUFFICES ASSUME NEW a \in 1..Len(s) + 1, NEW b \in 1..Len(s) + 1, t[a] = t[b]
               PROVE  a = b
    BY <1>3 DEF IsInjective
  <2>3. (a \in 1..Len(s) \/ a = Len(s) + 1) /\ (b \in 1..Len(s) \/ b = Len(s) + 1)
    BY <1>1
  <2>4. CASE a \in 1..Len(s) /\ b \in 1..Len(s)
    BY <1>2, <2>2, <2>4
  <2>5. CASE a \in 1..Len(s) /\ b = Len(s) + 1
    BY <1>2, <2>1, <2>5
  <2>6. CASE a = Len(s) + 1 /\ b \in 1..Len(s)
    BY <1>2, <2>1, <2>6
  <2> QED
    BY <2>3, <2>4, <2>5, <2>6
<1> QED
  BY <1>4, <1>5 DEF t

LEMMA RangeTail ==
  ASSUME NEW s \in Seq(Nat), s # <<>>, IsInjective(s)
  PROVE  /\ Tail(s) \in Seq(Nat) /\ Head(s) \in Nat
         /\ Head(s) \in Range(s)
         /\ Range(Tail(s)) = Range(s) \ {Head(s)}
         /\ IsInjective(Tail(s))
<1> DEFINE t == Tail(s)
<1>1. Len(s) \in Nat /\ Len(s) > 0 /\ DOMAIN s = 1..Len(s) /\ Head(s) = s[1]
  BY EmptySeq
<1>2. /\ t \in Seq(Nat) /\ Head(s) \in Nat /\ Len(t) = Len(s) - 1
      /\ \A k \in 1..Len(t) : t[k] = s[k + 1]
  BY HeadTailProperties
<1> HIDE DEF t
<1>3. DOMAIN t = 1..Len(s) - 1
  BY <1>1, <1>2
<1>4. \A a, b \in 1..Len(s) : s[a] = s[b] => a = b
  BY <1>1 DEF IsInjective
<1>5. \A k \in 1..Len(s) - 1 : t[k] = s[k + 1] /\ k + 1 \in 1..Len(s)
  BY <1>1, <1>2
<1>6. IsInjective(t)
  <2> SUFFICES ASSUME NEW a \in 1..Len(s) - 1, NEW b \in 1..Len(s) - 1, t[a] = t[b]
               PROVE  a = b
    BY <1>3 DEF IsInjective
  <2>1. s[a + 1] = s[b + 1] /\ a + 1 \in 1..Len(s) /\ b + 1 \in 1..Len(s)
    BY <1>5
  <2>2. a + 1 = b + 1
    BY <1>4, <2>1
  <2> QED
    BY <2>2
<1>7. Head(s) \in Range(s)
  BY <1>1 DEF Range
<1>8. Range(t) = Range(s) \ {Head(s)}
  <2>1. ASSUME NEW y \in Range(t) PROVE y \in Range(s) \ {Head(s)}
    <3>1. PICK k \in 1..Len(s) - 1 : y = t[k]
      BY <1>3 DEF Range
    <3>2. y = s[k + 1] /\ k + 1 \in 1..Len(s) /\ k + 1 # 1
      BY <1>1, <1>5, <3>1
    <3> QED
      BY <1>1, <1>4, <3>2 DEF Range
  <2>2. ASSUME NEW y \in Range(s), y # Head(s) PROVE y \in Range(t)
    <3>1. PICK k \in 1..Len(s) : y = s[k]
      BY <1>1 DEF Range
    <3>2. k # 1
      BY <1>1, <2>2, <3>1
    <3>3. k - 1 \in 1..Len(s) - 1 /\ t[k - 1] = s[(k - 1) + 1] /\ (k - 1) + 1 = k
      BY <1>1, <1>5, <3>1, <3>2
    <3> QED
      BY <1>3, <3>1, <3>3 DEF Range
  <2> QED
    BY <2>1, <2>2
<1> QED
  BY <1>2, <1>6, <1>7, <1>8 DEF t

-----------------------------------------------------------------------------
(* Types. *)

(* A transfer is under way only after a line was written. *)
TypeInv == TypeOK /\ (pc # "idle" => Len(lines) > 0)

LEMMA TypeInit == Init => TypeInv
<1> SUFFICES ASSUME Init PROVE TypeInv
  OBVIOUS
<1>1. NoToken \in Token
  BY DEF NoToken, Token
<1>2. /\ lines \in Seq(Nat) /\ array \in Seq(Nat) /\ stored \in Seq(Nat)
      /\ wire \subseteq Request /\ open \subseteq Seq(Nat)
  BY DEF Init
<1>3. last_send \in Nat /\ authheader_timestamp \in Nat /\ called \in Nat
      /\ secret \in Nat /\ rotated \in Nat /\ exits \in Nat /\ now \in Nat
  BY LogAssumption DEF Init
<1>4. pc = "idle" /\ asked \in BOOLEAN
  BY DEF Init
<1>5. authheader \in Token /\ reply \in Token
  BY <1>1 DEF Init
<1> QED
  BY <1>2, <1>3, <1>4, <1>5 DEF TypeInv, TypeOK

LEMMA TypeStep == TypeInv /\ [Next]_vars => TypeInv'
<1> SUFFICES ASSUME TypeInv, [Next]_vars PROVE TypeInv'
  OBVIOUS
<1> USE LogAssumption
<1>0. NoToken \in Token /\ <<>> \in Seq(Nat)
  BY DEF NoToken, Token
<1>1. CASE uwebfilterlog_sendto_cloud
  <2>1. /\ lines' = Append(lines, now) /\ array' = Append(array, Len(lines) + 1)
        /\ UNCHANGED <<last_send, wire, open, stored, secret, rotated, now, exits>>
    BY <1>1 DEF uwebfilterlog_sendto_cloud, collector
  <2>2. lines \in Seq(Nat) /\ array \in Seq(Nat) /\ now \in Nat /\ Len(lines) + 1 \in Nat
    BY DEF TypeInv, TypeOK
  <2>3. lines' \in Seq(Nat) /\ array' \in Seq(Nat) /\ Len(lines') = Len(lines) + 1
    BY <2>1, <2>2, AppendProperties
  <2>4. authheader' \in Token /\ UNCHANGED <<authheader_timestamp, reply>>
        /\ called' \in Nat /\ asked' \in BOOLEAN /\ pc' \in {"idle", "auth", "send"}
    <3>1. CASE Due(Len(array) + 1)
      BY <1>0, <1>1, <3>1 DEF uwebfilterlog_sendto_cloud, authheader_get, TypeInv, TypeOK
    <3>2. CASE ~Due(Len(array) + 1)
      BY <1>1, <3>2 DEF uwebfilterlog_sendto_cloud, header, TypeInv, TypeOK
    <3> QED
      BY <3>1, <3>2
  <2>5. Len(lines') > 0
    BY <2>2, <2>3
  <2> QED
    BY <2>1, <2>3, <2>4, <2>5 DEF TypeInv, TypeOK
<1>2. CASE jwttoken_get
  BY <1>0, <1>2 DEF jwttoken_get, TypeInv, TypeOK, buffer, collector
<1>3. CASE jwttoken_get_fails
  BY <1>0, <1>3 DEF jwttoken_get_fails, TypeInv, TypeOK, buffer, collector
<1>4. CASE logs_send_to_cloud_server
  <2>1. [lines |-> array, token |-> authheader, called |-> called, asked |-> asked]
          \in Request
    BY DEF TypeInv, TypeOK, Request
  <2> QED
    BY <1>4, <2>1 DEF logs_send_to_cloud_server, TypeInv, TypeOK, buffer, header
<1>5. CASE SendEnds
  <2>1. lines \in Seq(Nat) /\ Len(lines) > 0
    BY <1>5 DEF TypeInv, TypeOK, SendEnds
  <2>2. lines[Len(lines)] \in Nat
    BY <2>1
  <2> QED
    BY <1>0, <1>5, <2>2 DEF SendEnds, TypeInv, TypeOK, header, collector
<1>6. CASE Exit
  <2>1. exits' \in Nat /\ last_send' \in Nat /\ authheader_timestamp' \in Nat /\ called' \in Nat
    BY <1>6 DEF Exit, TypeInv, TypeOK
  <2>2. array' = <<>> /\ authheader' = NoToken /\ reply' = NoToken /\ pc' = "idle"
        /\ asked' \in BOOLEAN
        /\ UNCHANGED <<lines, wire, open, stored, secret, rotated, now>>
    BY <1>6 DEF Exit, collector
  <2>3. array' \in Seq(Nat) /\ authheader' \in Token /\ reply' \in Token
    BY <1>0, <2>2
  <2> QED
    BY <2>1, <2>2, <2>3 DEF TypeInv, TypeOK
<1>7. CASE Auth
  <2>1. [secret |-> secret, issued |-> now] \in Token
    BY DEF TypeInv, TypeOK, Token
  <2> QED
    BY <1>7, <2>1 DEF Auth, TypeInv, TypeOK, buffer, collector
<1>8. CASE \E r \in wire : IngestPOST(r)
  <2>1. PICK r \in wire : IngestPOST(r)
    BY <1>8
  <2>2. r.lines \in Seq(Nat)
    BY DEF TypeInv, TypeOK, Request
  <2> QED
    BY <2>1, <2>2 DEF IngestPOST, TypeInv, TypeOK, buffer, header
<1>9. CASE \E s \in open : PostgresInsertLogsV1(s)
  <2>1. PICK s \in open : PostgresInsertLogsV1(s)
    BY <1>9
  <2>2. s \in Seq(Nat) /\ stored \in Seq(Nat) /\ open \subseteq Seq(Nat)
    BY DEF TypeInv, TypeOK
  <2>3. open' \subseteq Seq(Nat) /\ stored' \in Seq(Nat)
    <3>1. CASE s = <<>>
      BY <2>1, <2>2, <3>1 DEF PostgresInsertLogsV1
    <3>2. CASE s # <<>>
      <4>1. Tail(s) \in Seq(Nat) /\ Head(s) \in Nat
        BY <2>2, <3>2, HeadTailProperties
      <4>2. Append(stored, Head(s)) \in Seq(Nat)
        BY <2>2, <4>1, AppendProperties
      <4> QED
        BY <2>1, <2>2, <3>2, <4>1, <4>2 DEF PostgresInsertLogsV1
    <3> QED
      BY <3>1, <3>2
  <2> QED
    BY <2>1, <2>3 DEF PostgresInsertLogsV1, TypeInv, TypeOK, buffer, header
<1>10. CASE Rotate
  BY <1>10 DEF Rotate, TypeInv, TypeOK, buffer, header
<1>11. CASE Tick
  BY <1>11 DEF Tick, TypeInv, TypeOK, buffer, header, collector
<1>12. CASE UNCHANGED vars
  BY <1>12 DEF vars, TypeInv, TypeOK, buffer, header, collector
<1> QED
  BY <1>1, <1>2, <1>3, <1>4, <1>5, <1>6, <1>7, <1>8, <1>9, <1>10, <1>11, <1>12
     DEF Next, Daemon, Collector

(* Every variable keeps its type, the buffer and the requests included. *)
THEOREM TypeCorrect == Spec => []TypeOK
<1>1. TypeInv => TypeOK
  BY DEF TypeInv
<1> QED
  BY <1>1, TypeInit, TypeStep, PTL DEF Spec

-----------------------------------------------------------------------------
(* Tokens. *)

(* A token was issued in the past, and before the last change of the secret  *)
(* if it was signed with an older one.                                       *)
Dated(t) == t # NoToken => /\ t.issued <= now
                           /\ t.secret # secret => t.issued <= rotated

(* The header while nothing, an authentication or a transfer is under way.   *)
HeaderInv ==
  /\ secret > 0 /\ StartTime <= now
  /\ Dated(authheader) /\ Dated(reply)
  /\ authheader # NoToken => authheader_timestamp <= authheader.issued
  /\ authheader = NoToken => authheader_timestamp + AUTHHEADER_TTL < now
  /\ reply # NoToken => pc = "auth" /\ called <= reply.issued
  /\ called <= now
  /\ pc = "auth" => asked = TRUE /\ authheader = NoToken
  /\ pc = "send" => IF authheader = NoToken THEN asked = TRUE
                    ELSE called <= authheader_timestamp + AUTHHEADER_TTL

(* A request was made with a header that was then young enough.              *)
WireInv ==
  \A r \in wire :
    IF r.token = NoToken THEN r.asked = TRUE
    ELSE /\ r.called <= r.token.issued + AUTHHEADER_TTL
         /\ r.token.secret # secret => r.token.issued <= rotated

TokenInv == HeaderInv /\ WireInv

LEMMA TokenInit == Init => TokenInv
BY LogAssumption DEF Init, TokenInv, HeaderInv, WireInv, Dated, NoToken

LEMMA TokenStep == TypeInv /\ TypeInv' /\ TokenInv /\ [Next]_vars => TokenInv'
<1> SUFFICES ASSUME TypeInv, TypeInv', TokenInv, [Next]_vars PROVE TokenInv'
  OBVIOUS
<1>0. /\ AUTHHEADER_TTL \in Nat /\ StartTime \in Nat /\ AUTHHEADER_TTL < StartTime
      /\ authheader \in Token /\ reply \in Token
      /\ now \in Nat /\ called \in Nat /\ authheader_timestamp \in Nat
      /\ secret \in Nat /\ rotated \in Nat
      /\ \A r \in wire : r.token \in Token /\ r.called \in Nat
  BY LogAssumption DEF TypeInv, TypeOK, Request
<1>1. \A t \in Token : t.issued \in Nat /\ t.secret \in Nat
  BY DEF Token
<1>2. CASE uwebfilterlog_sendto_cloud
  <2>1. UNCHANGED <<authheader_timestamp, reply, wire, secret, rotated, now>>
    BY <1>2 DEF uwebfilterlog_sendto_cloud, authheader_get, header, collector
  <2>2. WireInv'
    BY <2>1 DEF TokenInv, WireInv
  <2>3. CASE ~Due(Len(array) + 1)
    <3>1. UNCHANGED <<authheader, called, asked, pc>>
      BY <1>2, <2>3 DEF uwebfilterlog_sendto_cloud, header
    <3> QED
      BY <2>1, <2>2, <3>1 DEF TokenInv, HeaderInv, Dated
  <2>4. CASE Due(Len(array) + 1)
    <3>1. called' = now /\ authheader_get /\ pc = "idle"
      BY <1>2, <2>4 DEF uwebfilterlog_sendto_cloud, authheader_get
    <3>2. reply = NoToken /\ reply' = NoToken
      BY <2>1, <3>1 DEF TokenInv, HeaderInv
    <3> QED
      BY <1>0, <1>1, <2>1, <2>2, <3>1, <3>2 DEF authheader_get, TokenInv, HeaderInv, Dated
  <2> QED
    BY <2>3, <2>4
<1>3. CASE jwttoken_get
  BY <1>0, <1>1, <1>3 DEF jwttoken_get, TokenInv, HeaderInv, WireInv, Dated, collector
<1>4. CASE jwttoken_get_fails
  BY <1>0, <1>1, <1>4 DEF jwttoken_get_fails, TokenInv, HeaderInv, WireInv, Dated, collector
<1>5. CASE logs_send_to_cloud_server
  BY <1>0, <1>1, <1>5 DEF logs_send_to_cloud_server, TokenInv, HeaderInv, WireInv, Dated, header
<1>6. CASE SendEnds
  BY <1>0, <1>1, <1>6 DEF SendEnds, TokenInv, HeaderInv, WireInv, Dated, header, collector
<1>7. CASE Exit
  BY <1>0, <1>1, <1>7 DEF Exit, TokenInv, HeaderInv, WireInv, Dated, collector
<1>8. CASE Auth
  BY <1>0, <1>1, <1>8 DEF Auth, TokenInv, HeaderInv, WireInv, Dated, collector, NoToken
<1>9. CASE \E r \in wire : IngestPOST(r)
  BY <1>9 DEF IngestPOST, TokenInv, HeaderInv, WireInv, Dated, header
<1>10. CASE \E s \in open : PostgresInsertLogsV1(s)
  BY <1>10 DEF PostgresInsertLogsV1, TokenInv, HeaderInv, WireInv, Dated, header
<1>11. CASE Rotate
  BY <1>0, <1>1, <1>11 DEF Rotate, TokenInv, HeaderInv, WireInv, Dated, header
<1>12. CASE Tick
  BY <1>0, <1>1, <1>12 DEF Tick, TokenInv, HeaderInv, WireInv, Dated, header, collector
<1>13. CASE UNCHANGED vars
  BY <1>13 DEF vars, TokenInv, HeaderInv, WireInv, Dated, header, collector
<1> QED
  BY <1>2, <1>3, <1>4, <1>5, <1>6, <1>7, <1>8, <1>9, <1>10, <1>11, <1>12, <1>13
     DEF Next, Daemon, Collector

(* A token the collector refuses is used for AUTHHEADER_TTL after a change   *)
(* of the secret at most, unless a transfer outlasts the token: although the *)
(* daemon takes an HTTP 401 for success, renewal alone ends the refusals.    *)
THEOREM RefusalsEndAlways == Spec => []RefusalsEnd
<1>1. TypeInv /\ TokenInv => RefusalsEnd
  <2> SUFFICES ASSUME TypeInv, TokenInv, NEW r \in wire, r.token # NoToken,
                      ~JWTAuth(r.token), ~(r.called <= rotated + AUTHHEADER_TTL)
               PROVE  now >= r.called + (TOKEN_LIFETIME - AUTHHEADER_TTL)
    BY DEF RefusalsEnd
  <2>1. /\ r.called \in Nat /\ r.token.issued \in Nat /\ now \in Nat /\ rotated \in Nat
        /\ AUTHHEADER_TTL \in Nat /\ TOKEN_LIFETIME \in Nat
    BY LogAssumption DEF TypeInv, TypeOK, Request, Token
  <2>2. /\ r.called <= r.token.issued + AUTHHEADER_TTL
        /\ r.token.secret # secret => r.token.issued <= rotated
    BY DEF TokenInv, WireInv
  <2>3. r.token.secret # secret \/ now >= r.token.issued + TOKEN_LIFETIME
    BY <2>1 DEF JWTAuth
  <2> QED
    BY <2>1, <2>2, <2>3
<1> QED
  BY <1>1, TypeInit, TypeStep, TokenInit, TokenStep, PTL DEF Spec

(* A transfer without a token follows an attempt to get one that failed.     *)
THEOREM TokenAskedAlways == Spec => []TokenAsked
<1>1. TokenInv => TokenAsked
  BY DEF TokenInv, WireInv, TokenAsked
<1> QED
  BY <1>1, TypeInit, TypeStep, TokenInit, TokenStep, PTL DEF Spec

-----------------------------------------------------------------------------
(* The buffer. *)

(* The buffer holds lines that are no older than the last transfer.          *)
DrainInv ==
  /\ \A i \in 1..Len(lines) : lines[i] <= now
  /\ last_send <= now
  /\ \A k \in 1..Len(array) : /\ array[k] \in 1..Len(lines)
                              /\ last_send <= lines[array[k]]
  /\ BufferIsDrained

LEMMA DrainInit == Init => DrainInv
<1> SUFFICES ASSUME Init PROVE DrainInv
  OBVIOUS
<1>1. Len(lines) = 0 /\ Len(array) = 0 /\ array = <<>> /\ last_send = 0
  BY DEF Init
<1>2. now \in Nat
  BY LogAssumption DEF Init
<1> QED
  BY <1>1, <1>2 DEF DrainInv, BufferIsDrained

(* A step that leaves the lines and the buffer alone, or empties the buffer. *)
LEMMA DrainFrame ==
  ASSUME TypeInv, TypeInv', DrainInv, UNCHANGED lines, now <= now',
         \/ UNCHANGED <<array, last_send>> /\ (pc' = "idle" => pc = "idle")
         \/ array' = <<>> /\ last_send' <= now'
  PROVE  DrainInv'
<1>1. /\ now \in Nat /\ now' \in Nat /\ lines \in Seq(Nat) /\ last_send \in Nat
      /\ Len(lines) \in Nat
  BY DEF TypeInv, TypeOK
<1>2. \A i \in 1..Len(lines') : lines'[i] <= now'
  <2>1. \A i \in 1..Len(lines) : lines[i] \in Nat /\ lines[i] <= now
    BY <1>1 DEF DrainInv
  <2> QED
    BY <1>1, <2>1
<1>3. CASE UNCHANGED <<array, last_send>> /\ (pc' = "idle" => pc = "idle")
  BY <1>1, <1>2, <1>3 DEF DrainInv, BufferIsDrained
<1>4. CASE array' = <<>> /\ last_send' <= now'
  <2>1. Len(array') = 0
    BY <1>4
  <2> QED
    BY <1>2, <1>4, <2>1 DEF DrainInv, BufferIsDrained
<1> QED
  BY <1>3, <1>4

LEMMA DrainWrite ==
  ASSUME TypeInv, TypeInv', DrainInv, uwebfilterlog_sendto_cloud
  PROVE  DrainInv'
<1> DEFINE n == Len(lines)
           m == Len(array)
<1>1. /\ lines \in Seq(Nat) /\ array \in Seq(Nat) /\ now \in Nat /\ last_send \in Nat
      /\ n \in Nat /\ m \in Nat
      /\ LOGBUFFER_MAXSIZE \in Nat /\ LOGBUFFER_INTERVAL \in Nat
  BY LogAssumption DEF TypeInv, TypeOK
<1>2. lines' = Append(lines, now) /\ array' = Append(array, n + 1)
      /\ UNCHANGED <<last_send, now>>
  BY DEF uwebfilterlog_sendto_cloud
<1>3. /\ Len(lines') = n + 1 /\ lines'[n + 1] = now
      /\ \A i \in 1..n : lines'[i] = lines[i]
  BY <1>1, <1>2, AppendProperties
<1>4. /\ Len(array') = m + 1 /\ array'[m + 1] = n + 1 /\ DOMAIN array' = 1..m + 1
      /\ \A k \in 1..m : array'[k] = array[k]
  <2>1. n + 1 \in Nat
    BY <1>1
  <2> HIDE DEF n
  <2>2. Append(array, n + 1) \in Seq(Nat)
    BY <1>1, <2>1, AppendProperties
  <2> QED
    BY <1>1, <1>2, <2>1, <2>2, AppendProperties
<1>5. /\ \A i \in 1..n : lines[i] \in Nat /\ lines[i] <= now
      /\ last_send <= now
      /\ \A k \in 1..m : array[k] \in 1..n /\ last_send <= lines[array[k]]
  BY <1>1 DEF DrainInv
<1>6. pc' = "idle" => last_send + LOGBUFFER_INTERVAL >= now /\ m + 1 < LOGBUFFER_MAXSIZE
  BY <1>1 DEF uwebfilterlog_sendto_cloud, authheader_get, Due
<1> HIDE DEF n, m
<1>7. \A i \in 1..n + 1 : lines'[i] \in Nat /\ lines'[i] <= now
  <2> SUFFICES ASSUME NEW i \in 1..n + 1
               PROVE  lines'[i] \in Nat /\ lines'[i] <= now
    OBVIOUS
  <2>1. i \in 1..n \/ i = n + 1
    BY <1>1
  <2>2. CASE i \in 1..n
    BY <1>3, <1>5, <2>2
  <2>3. CASE i = n + 1
    <3>1. now \in Nat /\ now <= now
      BY <1>1
    <3> QED
      BY <1>3, <2>3, <3>1
  <2> QED
    BY <2>1, <2>2, <2>3
<1>8. \A k \in 1..m + 1 : array'[k] \in 1..n + 1 /\ last_send <= lines'[array'[k]]
  <2> SUFFICES ASSUME NEW k \in 1..m + 1
               PROVE  array'[k] \in 1..n + 1 /\ last_send <= lines'[array'[k]]
    OBVIOUS
  <2>1. CASE k \in 1..m
    <3>1. array'[k] = array[k] /\ array[k] \in 1..n /\ last_send <= lines[array[k]]
      BY <1>4, <1>5, <2>1
    <3>2. lines'[array[k]] = lines[array[k]]
      BY <1>3, <3>1
    <3> QED
      BY <1>1, <3>1, <3>2
  <2>2. CASE k = m + 1
    <3>1. array'[k] = n + 1
      BY <1>4, <2>2
    <3> QED
      BY <1>1, <1>3, <1>5, <3>1
  <2> QED
    BY <1>1, <2>1, <2>2
<1>9. ASSUME pc' = "idle"
      PROVE  /\ Len(array') < LOGBUFFER_MAXSIZE
             /\ \A k \in 1..m + 1 :
                  lines'[Len(lines')] - lines'[array'[k]] <= LOGBUFFER_INTERVAL
  <2>1. \A k \in 1..m + 1 : lines'[array'[k]] \in Nat
    BY <1>7, <1>8
  <2> QED
    BY <1>1, <1>3, <1>4, <1>6, <1>8, <1>9, <2>1
<1>10. BufferIsDrained'
  BY <1>4, <1>9 DEF BufferIsDrained
<1> QED
  BY <1>2, <1>3, <1>4, <1>5, <1>7, <1>8, <1>10 DEF DrainInv

LEMMA DrainStep == TypeInv /\ TypeInv' /\ DrainInv /\ [Next]_vars => DrainInv'
<1> SUFFICES ASSUME TypeInv, TypeInv', DrainInv, [Next]_vars PROVE DrainInv'
  OBVIOUS
<1>0. now \in Nat /\ lines \in Seq(Nat) /\ Len(lines) \in Nat
  BY DEF TypeInv, TypeOK
<1>1. CASE uwebfilterlog_sendto_cloud
  BY <1>1, DrainWrite
<1>2. CASE jwttoken_get \/ jwttoken_get_fails \/ logs_send_to_cloud_server
           \/ Auth \/ (\E r \in wire : IngestPOST(r))
           \/ (\E s \in open : PostgresInsertLogsV1(s)) \/ Rotate \/ Tick
           \/ UNCHANGED vars
  <2>1. UNCHANGED <<lines, array, last_send>> /\ (pc' = "idle" => pc = "idle")
    BY <1>2 DEF jwttoken_get, jwttoken_get_fails, logs_send_to_cloud_server, Auth,
                IngestPOST, PostgresInsertLogsV1, Rotate, Tick, vars, buffer
  <2>2. now' = now \/ now' = now + 1
    BY <1>2 DEF jwttoken_get, jwttoken_get_fails, logs_send_to_cloud_server, Auth,
                IngestPOST, PostgresInsertLogsV1, Rotate, Tick, vars
  <2>3. now <= now'
    BY <1>0, <2>2
  <2> QED
    BY <2>1, <2>3, DrainFrame
<1>3. CASE SendEnds
  <2>1. UNCHANGED <<lines, now>> /\ array' = <<>> /\ last_send' = lines[Len(lines)]
    BY <1>3 DEF SendEnds
  <2>2. Len(lines) > 0
    BY <1>3 DEF SendEnds, TypeInv
  <2>3. lines[Len(lines)] <= now
    BY <1>0, <2>2 DEF DrainInv
  <2>4. now <= now' /\ last_send' <= now'
    BY <1>0, <2>1, <2>3
  <2> QED
    BY <2>1, <2>4, DrainFrame
<1>4. CASE Exit
  <2>1. UNCHANGED <<lines, now>> /\ array' = <<>> /\ last_send' = 0
    BY <1>4 DEF Exit
  <2>2. now <= now' /\ last_send' <= now'
    BY <1>0, <2>1
  <2> QED
    BY <2>1, <2>2, DrainFrame
<1> QED
  BY <1>1, <1>2, <1>3, <1>4 DEF Next, Daemon, Collector

(* The buffer neither fills up nor keeps a line for longer than the interval *)
(* while lines come in, also when every transfer fails.                      *)
THEOREM BufferIsDrainedAlways == Spec => []BufferIsDrained
<1>1. DrainInv => BufferIsDrained
  BY DEF DrainInv
<1> QED
  BY <1>1, TypeInit, TypeStep, DrainInit, DrainStep, PTL DEF Spec

-----------------------------------------------------------------------------
(* The lines. *)

(* The lines of the buffer that have not been sent. *)
Live == IF pc = "wait" THEN {} ELSE Range(array)

(* Everything holds lines that were written, each of them once. *)
OnceInv ==
  /\ IsInjective(array) /\ Range(array) \subseteq 1..Len(lines)
  /\ IsInjective(stored) /\ Range(stored) \subseteq 1..Len(lines)
  /\ \A r \in wire : IsInjective(r.lines) /\ Range(r.lines) \subseteq 1..Len(lines)
  /\ \A s \in open : IsInjective(s) /\ Range(s) \subseteq 1..Len(lines)

(* The buffer, the requests on their way, those at work and the table have   *)
(* no line in common.                                                        *)
ApartInv ==
  /\ Live \cap Range(stored) = {}
  /\ \A r \in wire : Range(r.lines) \cap (Live \cup Range(stored)) = {}
  /\ \A s \in open : Range(s) \cap (Live \cup Range(stored)) = {}
  /\ \A r, q \in wire : r # q => Range(r.lines) \cap Range(q.lines) = {}
  /\ \A s, t \in open : s # t => Range(s) \cap Range(t) = {}
  /\ \A r \in wire, s \in open : Range(r.lines) \cap Range(s) = {}

LineInv == OnceInv /\ ApartInv

LEMMA LineInit == Init => LineInv
<1> SUFFICES ASSUME Init PROVE LineInv
  OBVIOUS
<1>1. array = <<>> /\ stored = <<>> /\ wire = {} /\ open = {}
  BY DEF Init
<1>2. Range(array) = {} /\ Range(stored) = {} /\ IsInjective(array) /\ IsInjective(stored)
  BY <1>1, RangeEmpty
<1> QED
  BY <1>1, <1>2 DEF LineInv, OnceInv, ApartInv, Live

(* What writing a line does to the buffer. *)
LEMMA WriteFacts ==
  ASSUME TypeInv, OnceInv, uwebfilterlog_sendto_cloud
  PROVE  /\ Len(lines) \in Nat /\ Len(lines') = Len(lines) + 1
         /\ Range(array') = Range(array) \cup {Len(lines) + 1}
         /\ IsInjective(array')
         /\ pc = "idle" /\ pc' \in {"idle", "auth", "send"}
         /\ UNCHANGED <<wire, open, stored>>
<1>1. /\ lines \in Seq(Nat) /\ array \in Seq(Nat) /\ now \in Nat
      /\ Len(lines) \in Nat /\ Len(lines) + 1 \in Nat
  BY DEF TypeInv, TypeOK
<1>2. lines' = Append(lines, now) /\ array' = Append(array, Len(lines) + 1)
      /\ pc = "idle" /\ UNCHANGED <<wire, open, stored>>
  BY DEF uwebfilterlog_sendto_cloud, collector
<1>3. Len(lines') = Len(lines) + 1
  BY <1>1, <1>2, AppendProperties
<1>4. Len(lines) + 1 \notin Range(array) /\ IsInjective(array)
  BY <1>1 DEF OnceInv
<1>5. Range(array') = Range(array) \cup {Len(lines) + 1} /\ IsInjective(array')
  BY <1>1, <1>2, <1>4, RangeAppend
<1>6. pc' \in {"idle", "auth", "send"}
  BY <1>2 DEF uwebfilterlog_sendto_cloud, authheader_get
<1> QED
  BY <1>1, <1>2, <1>3, <1>5, <1>6

(* A step that only takes lines out of the buffer, the requests and the      *)
(* work of the collector.                                                    *)
LEMMA LineLess ==
  ASSUME LineInv, UNCHANGED <<lines, stored>>,
         wire' \subseteq wire, open' \subseteq open,
         Live' \subseteq Live, array' = array \/ array' = <<>>
  PROVE  LineInv'
<1>1. IsInjective(array') /\ Range(array') \subseteq Range(array)
  BY RangeEmpty DEF LineInv, OnceInv
<1>2. OnceInv'
  BY <1>1 DEF LineInv, OnceInv
<1>3. ApartInv'
  BY DEF LineInv, ApartInv
<1> QED
  BY <1>2, <1>3 DEF LineInv

(* What an insertion does to the request at work and to the table. *)
LEMMA InsertFacts ==
  ASSUME TypeInv, OnceInv, NEW s \in open, s # <<>>
  PROVE  /\ Head(s) \in Range(s) /\ Range(Tail(s)) = Range(s) \ {Head(s)}
         /\ IsInjective(Tail(s))
         /\ Range(Append(stored, Head(s))) = Range(stored) \cup {Head(s)}
         /\ Head(s) \notin Range(stored) => IsInjective(Append(stored, Head(s)))
<1>1. s \in Seq(Nat) /\ stored \in Seq(Nat) /\ IsInjective(s) /\ IsInjective(stored)
  BY DEF TypeInv, TypeOK, OnceInv
<1>2. /\ Head(s) \in Nat /\ Head(s) \in Range(s) /\ Range(Tail(s)) = Range(s) \ {Head(s)}
      /\ IsInjective(Tail(s))
  BY <1>1, RangeTail
<1> QED
  BY <1>1, <1>2, RangeAppend

LEMMA LineStep == TypeInv /\ LineInv /\ [Next]_vars => LineInv'
<1> SUFFICES ASSUME TypeInv, LineInv, [Next]_vars PROVE LineInv'
  OBVIOUS
<1>0. OnceInv /\ ApartInv
  BY DEF LineInv
<1>1. CASE uwebfilterlog_sendto_cloud
  <2>1. /\ Len(lines) \in Nat /\ Len(lines') = Len(lines) + 1
        /\ Range(array') = Range(array) \cup {Len(lines) + 1}
        /\ IsInjective(array')
        /\ pc = "idle" /\ pc' \in {"idle", "auth", "send"}
        /\ UNCHANGED <<wire, open, stored>>
    BY <1>0, <1>1, WriteFacts
  <2>2. Live = Range(array) /\ Live' = Range(array) \cup {Len(lines) + 1}
    BY <2>1 DEF Live
  <2>3. 1..Len(lines) \subseteq 1..Len(lines') /\ Len(lines) + 1 \in 1..Len(lines')
        /\ Len(lines) + 1 \notin 1..Len(lines)
    BY <2>1
  <2>4. OnceInv'
    BY <1>0, <2>1, <2>3 DEF OnceInv
  <2>5. /\ Len(lines) + 1 \notin Range(stored)
        /\ \A r \in wire : Len(lines) + 1 \notin Range(r.lines)
        /\ \A s \in open : Len(lines) + 1 \notin Range(s)
    BY <1>0, <2>3 DEF OnceInv
  <2>6. ApartInv'
    <3> DEFINE x == Len(lines) + 1
    <3> HIDE DEF x
    <3>1. /\ x \notin Range(stored) /\ Live' = Live \cup {x}
          /\ \A r \in wire : x \notin Range(r.lines)
          /\ \A s \in open : x \notin Range(s)
          /\ UNCHANGED <<wire, open, stored>>
      BY <2>1, <2>2, <2>5 DEF x
    <3>2. Live' \cap Range(stored') = {}
      BY <1>0, <3>1 DEF ApartInv
    <3>3. /\ \A r \in wire' : Range(r.lines) \cap (Live' \cup Range(stored')) = {}
          /\ \A s \in open' : Range(s) \cap (Live' \cup Range(stored')) = {}
      BY <1>0, <3>1 DEF ApartInv
    <3> QED
      BY <1>0, <3>1, <3>2, <3>3 DEF ApartInv
  <2> QED
    BY <2>4, <2>6 DEF LineInv
<1>2. CASE jwttoken_get \/ jwttoken_get_fails \/ Auth \/ Tick \/ UNCHANGED vars
  <2>1. UNCHANGED <<lines, array, stored, wire, open>>
        /\ (pc' = pc \/ (pc = "auth" /\ pc' = "send"))
    BY <1>2 DEF jwttoken_get, jwttoken_get_fails, Auth, Tick, vars, buffer, collector
  <2>2. Live' = Live
    BY <2>1 DEF Live
  <2> QED
    BY <2>1, <2>2, LineLess
<1>3. CASE logs_send_to_cloud_server
  <2> DEFINE n == [lines |-> array, token |-> authheader, called |-> called, asked |-> asked]
  <2>1. /\ wire' = wire \cup {n} /\ pc = "send" /\ pc' = "wait"
        /\ UNCHANGED <<lines, array, open, stored>>
    BY <1>3 DEF logs_send_to_cloud_server, buffer
  <2>2. n.lines = array
    OBVIOUS
  <2> HIDE DEF n
  <2>3. Live = Range(array) /\ Live' = {}
    BY <2>1 DEF Live
  <2>4. OnceInv'
    BY <1>0, <2>1, <2>2 DEF OnceInv
  <2>5. ApartInv'
    BY <1>0, <2>1, <2>2, <2>3 DEF ApartInv
  <2> QED
    BY <2>4, <2>5 DEF LineInv
<1>4. CASE SendEnds \/ Exit
  <2>1. UNCHANGED <<lines, stored, wire, open>> /\ array' = <<>> /\ pc' = "idle"
    BY <1>4 DEF SendEnds, Exit, collector
  <2>2. Live' = {}
    BY <2>1, RangeEmpty DEF Live
  <2> QED
    BY <2>1, <2>2, LineLess
<1>5. CASE \E r \in wire : IngestPOST(r)
  <2>1. PICK r \in wire : IngestPOST(r)
    BY <1>5
  <2>2. /\ wire' = wire \ {r} /\ (open' = open \cup {r.lines} \/ open' = open)
        /\ UNCHANGED <<lines, array, stored, pc>>
    BY <2>1 DEF IngestPOST, buffer
  <2>3. Live' = Live
    BY <2>2 DEF Live
  <2>4. OnceInv'
    BY <1>0, <2>2 DEF OnceInv
  <2>5. ApartInv'
    BY <1>0, <2>2, <2>3 DEF ApartInv
  <2> QED
    BY <2>4, <2>5 DEF LineInv
<1>6. CASE \E s \in open : PostgresInsertLogsV1(s)
  <2>1. PICK s \in open : PostgresInsertLogsV1(s)
    BY <1>6
  <2>2. UNCHANGED <<lines, array, wire, pc>>
    BY <2>1 DEF PostgresInsertLogsV1, buffer
  <2>3. Live' = Live
    BY <2>2 DEF Live
  <2>4. CASE s = <<>>
    <3>1. open' \subseteq open /\ UNCHANGED stored
      BY <2>1, <2>4 DEF PostgresInsertLogsV1
    <3> QED
      BY <2>2, <2>3, <3>1, LineLess
  <2>5. CASE s # <<>>
    <3>1. /\ open' = (open \ {s}) \cup {Tail(s)}
          /\ stored' = Append(stored, Head(s)) \/ stored' = stored
      BY <2>1, <2>5 DEF PostgresInsertLogsV1
    <3>2. /\ Head(s) \in Range(s) /\ Range(Tail(s)) = Range(s) \ {Head(s)}
          /\ IsInjective(Tail(s))
          /\ Range(Append(stored, Head(s))) = Range(stored) \cup {Head(s)}
          /\ Head(s) \notin Range(stored) => IsInjective(Append(stored, Head(s)))
      BY <1>0, <2>5, InsertFacts
    <3>3. Head(s) \notin Range(stored)
      BY <1>0, <3>2 DEF ApartInv
    <3>4. Range(stored') \subseteq Range(stored) \cup {Head(s)} /\ IsInjective(stored')
      BY <1>0, <3>1, <3>2, <3>3 DEF OnceInv
    <3>5. OnceInv'
      BY <1>0, <2>2, <3>1, <3>2, <3>4 DEF OnceInv
    <3>6. ApartInv'
      <4>1. Live' \cap Range(stored') = {}
        BY <1>0, <2>3, <3>2, <3>4 DEF ApartInv
      <4>2. \A r \in wire' : Range(r.lines) \cap (Live' \cup Range(stored')) = {}
        BY <1>0, <2>2, <2>3, <3>2, <3>4 DEF ApartInv
      <4>3. \A t \in open' : Range(t) \cap (Live' \cup Range(stored')) = {}
        <5> SUFFICES ASSUME NEW t \in open', NEW x \in Range(t)
                     PROVE  x \notin Live' /\ x \notin Range(stored')
          OBVIOUS
        <5>1. CASE t = Tail(s)
          BY <1>0, <2>3, <3>2, <3>4, <5>1 DEF ApartInv
        <5>2. CASE t \in open \ {s}
          <6>1. x \notin Live /\ x \notin Range(stored) /\ x \notin Range(s)
            BY <1>0, <5>2 DEF ApartInv
          <6> QED
            BY <2>3, <3>2, <3>4, <6>1
        <5> QED
          BY <3>1, <5>1, <5>2
      <4>4. \A t, u \in open' : t # u => Range(t) \cap Range(u) = {}
        BY <1>0, <3>1, <3>2 DEF ApartInv
      <4>5. \A r \in wire', t \in open' : Range(r.lines) \cap Range(t) = {}
        BY <1>0, <2>2, <3>1, <3>2 DEF ApartInv
      <4>6. \A r, q \in wire' : r # q => Range(r.lines) \cap Range(q.lines) = {}
        BY <1>0, <2>2 DEF ApartInv
      <4> QED
        BY <4>1, <4>2, <4>3, <4>4, <4>5, <4>6 DEF ApartInv
    <3> QED
      BY <3>5, <3>6 DEF LineInv
  <2> QED
    BY <2>4, <2>5
<1>7. CASE Rotate
  <2>1. UNCHANGED <<lines, array, stored, pc>> /\ wire' = {} /\ open' = {}
    BY <1>7 DEF Rotate, buffer
  <2>2. Live' = Live
    BY <2>1 DEF Live
  <2> QED
    BY <2>1, <2>2, LineLess
<1> QED
  BY <1>1, <1>2, <1>3, <1>4, <1>5, <1>6, <1>7 DEF Next, Daemon, Collector

(* No line is stored twice, however many transfers the collector still works *)
(* on when the daemon has given them up.                                     *)
THEOREM StoredOnceAlways == Spec => []StoredOnce
<1>1. LineInv => StoredOnce
  BY DEF LineInv, OnceInv, StoredOnce
<1> QED
  BY <1>1, TypeInit, TypeStep, LineInit, LineStep, PTL DEF Spec

-----------------------------------------------------------------------------
(* The refinement. *)

(* Membership in the lines on their way, by the place a line is in. *)
LEMMA UnionMembers ==
  ASSUME NEW L, NEW W, NEW O
  PROVE  \A x : x \in L \cup (UNION {Range(r.lines) : r \in W}) \cup (UNION {Range(s) : s \in O})
              <=> \/ x \in L
                  \/ \E r \in W : x \in Range(r.lines)
                  \/ \E s \in O : x \in Range(s)
<1> DEFINE A == UNION {Range(r.lines) : r \in W}
           B == UNION {Range(s) : s \in O}
<1> SUFFICES ASSUME NEW x
             PROVE  x \in L \cup A \cup B <=> \/ x \in L
                                              \/ \E r \in W : x \in Range(r.lines)
                                              \/ \E s \in O : x \in Range(s)
  OBVIOUS
<1>1. x \in A <=> \E r \in W : x \in Range(r.lines)
  OBVIOUS
<1>2. x \in B <=> \E s \in O : x \in Range(s)
  OBVIOUS
<1> HIDE DEF A, B
<1> QED
  BY <1>1, <1>2

LEMMA StepRefines ==
  ASSUME TypeInv, LineInv, [Next]_vars
  PROVE  [Channel!Next]_(Channel!vars)
<1> USE DEF Channel!Next, Channel!Write, Channel!Store, Channel!Lose, Channel!vars
<1>0. OnceInv /\ ApartInv
  BY DEF LineInv
<1>1. \A x : x \in Pending <=> \/ x \in Live
                               \/ \E r \in wire : x \in Range(r.lines)
                               \/ \E s \in open : x \in Range(s)
  <2>1. Pending = Live \cup (UNION {Range(r.lines) : r \in wire})
                       \cup (UNION {Range(s) : s \in open})
    BY Zenon DEF Pending, Live
  <2> QED
    BY <2>1, UnionMembers
<1>2. \A x : x \in Pending' <=> \/ x \in Live'
                                \/ \E r \in wire' : x \in Range(r.lines)
                                \/ \E s \in open' : x \in Range(s)
  <2>1. Pending' = Live' \cup (UNION {Range(r.lines) : r \in wire'})
                         \cup (UNION {Range(s) : s \in open'})
    BY Zenon DEF Pending, Live
  <2> QED
    BY <2>1, UnionMembers
<1>3. ASSUME UNCHANGED <<lines, stored>>, Live' \subseteq Live,
             wire' \subseteq wire, open' \subseteq open
      PROVE  Channel!Lose
  BY <1>1, <1>2, <1>3
<1>4. CASE uwebfilterlog_sendto_cloud
  <2>1. /\ Len(lines') = Len(lines) + 1
        /\ Range(array') = Range(array) \cup {Len(lines) + 1}
        /\ pc = "idle" /\ pc' \in {"idle", "auth", "send"}
        /\ UNCHANGED <<wire, open, stored>>
    BY <1>0, <1>4, WriteFacts
  <2>2. Live' = Live \cup {Len(lines')}
    BY <2>1 DEF Live
  <2>3. Pending' = Pending \cup {Len(lines')}
    BY <1>1, <1>2, <2>1, <2>2
  <2>4. Channel!Write
    BY <2>1, <2>3
  <2> QED
    BY <2>4
<1>5. CASE jwttoken_get \/ jwttoken_get_fails \/ Auth \/ Tick \/ UNCHANGED vars
  <2>1. UNCHANGED <<lines, array, stored, wire, open>>
        /\ (pc' = pc \/ (pc = "auth" /\ pc' = "send"))
    BY <1>5 DEF jwttoken_get, jwttoken_get_fails, Auth, Tick, vars, buffer, collector
  <2>2. Live' = Live
    BY <2>1 DEF Live
  <2> QED
    BY <1>3, <2>1, <2>2
<1>6. CASE logs_send_to_cloud_server
  <2> DEFINE n == [lines |-> array, token |-> authheader, called |-> called, asked |-> asked]
  <2>1. /\ wire' = wire \cup {n} /\ pc = "send" /\ pc' = "wait"
        /\ UNCHANGED <<lines, array, open, stored>>
    BY <1>6 DEF logs_send_to_cloud_server, buffer
  <2>2. n.lines = array
    OBVIOUS
  <2> HIDE DEF n
  <2>3. Live = Range(n.lines) /\ Live' = {}
    BY <2>1, <2>2 DEF Live
  <2>4. Pending' = Pending
    <3>1. ASSUME NEW x \in Pending' PROVE x \in Pending
      BY <1>1, <1>2, <2>1, <2>3, <3>1
    <3>2. ASSUME NEW x \in Pending PROVE x \in Pending'
      BY <1>1, <1>2, <2>1, <2>3, <3>2
    <3> QED
      BY <3>1, <3>2
  <2> QED
    BY <2>1, <2>4
<1>7. CASE SendEnds \/ Exit
  <2>1. UNCHANGED <<lines, stored, wire, open>> /\ array' = <<>> /\ pc' = "idle"
    BY <1>7 DEF SendEnds, Exit, collector
  <2>2. Live' = {}
    BY <2>1, RangeEmpty DEF Live
  <2> QED
    BY <1>3, <2>1, <2>2
<1>8. CASE \E r \in wire : IngestPOST(r)
  <2>1. PICK r \in wire : IngestPOST(r)
    BY <1>8
  <2>2. /\ wire' = wire \ {r} /\ (open' = open \cup {r.lines} \/ open' = open)
        /\ UNCHANGED <<lines, array, stored, pc>>
    BY <2>1 DEF IngestPOST, buffer
  <2>3. Live' = Live
    BY <2>2 DEF Live
  <2>4. Pending' \subseteq Pending
    BY <1>1, <1>2, <2>2, <2>3
  <2> QED
    BY <2>2, <2>4
<1>9. CASE \E s \in open : PostgresInsertLogsV1(s)
  <2>1. PICK s \in open : PostgresInsertLogsV1(s)
    BY <1>9
  <2>2. UNCHANGED <<lines, array, wire, pc>>
    BY <2>1 DEF PostgresInsertLogsV1, buffer
  <2>3. Live' = Live
    BY <2>2 DEF Live
  <2>4. CASE s = <<>>
    <3>1. open' \subseteq open /\ UNCHANGED stored
      BY <2>1, <2>4 DEF PostgresInsertLogsV1
    <3> QED
      BY <1>3, <2>2, <2>3, <3>1
  <2>5. CASE s # <<>>
    <3> DEFINE h == Head(s)
    <3>1. /\ open' = (open \ {s}) \cup {Tail(s)}
          /\ stored' = Append(stored, h) \/ stored' = stored
      BY <2>1, <2>5 DEF PostgresInsertLogsV1
    <3>2. h \in Range(s) /\ Range(Tail(s)) = Range(s) \ {h}
      BY <1>0, <2>5, InsertFacts
    <3> HIDE DEF h
    <3>3. /\ h \notin Live /\ h \in Pending
          /\ \A r \in wire : h \notin Range(r.lines)
          /\ \A t \in open : t # s => h \notin Range(t)
      <4>1. h \in Pending
        BY <1>1, <3>2
      <4>2. h \notin Live /\ \A t \in open : t # s => h \notin Range(t)
        BY <1>0, <3>2 DEF ApartInv
      <4>3. \A r \in wire : h \notin Range(r.lines)
        BY <1>0, <3>2 DEF ApartInv
      <4> QED
        BY <4>1, <4>2, <4>3
    <3>4. Pending' = Pending \ {h}
      <4>1. ASSUME NEW x \in Pending' PROVE x \in Pending \ {h}
        BY <1>1, <1>2, <2>2, <2>3, <3>1, <3>2, <3>3, <4>1
      <4>2. ASSUME NEW x \in Pending, x # h PROVE x \in Pending'
        BY <1>1, <1>2, <2>2, <2>3, <3>1, <3>2, <4>2
      <4> QED
        BY <4>1, <4>2
    <3>5. CASE stored' = Append(stored, h)
      BY <2>2, <3>3, <3>4, <3>5
    <3>6. CASE stored' = stored
      BY <2>2, <3>4, <3>6
    <3> QED
      BY <3>1, <3>5, <3>6
  <2> QED
    BY <2>4, <2>5
<1>10. CASE Rotate
  <2>1. UNCHANGED <<lines, array, stored, pc>> /\ wire' = {} /\ open' = {}
    BY <1>10 DEF Rotate, buffer
  <2>2. Live' = Live
    BY <2>1 DEF Live
  <2> QED
    BY <1>3, <2>1, <2>2
<1> QED
  BY <1>4, <1>5, <1>6, <1>7, <1>8, <1>9, <1>10 DEF Next, Daemon, Collector

(* Logging is an at-most-once channel: every line that was written is stored *)
(* once or lost for good, whatever fails between the daemon and the table.   *)
THEOREM Refinement == Spec => ImplementsChannel
<1>1. Init => Channel!Init
  <2> SUFFICES ASSUME Init PROVE Channel!Init
    OBVIOUS
  <2>1. lines = <<>> /\ stored = <<>> /\ array = <<>> /\ wire = {} /\ open = {}
    BY DEF Init
  <2>2. Range(array) = {}
    BY <2>1, RangeEmpty
  <2>3. Pending = {}
    BY <2>1, <2>2 DEF Pending
  <2> QED
    BY <2>1, <2>3 DEF Channel!Init
<1>2. TypeInv /\ LineInv /\ [Next]_vars => [Channel!Next]_(Channel!vars)
  BY StepRefines
<1> QED
  BY <1>1, <1>2, TypeInit, TypeStep, LineInit, LineStep, PTL
     DEF Spec, ImplementsChannel, Channel!Spec
=============================================================================
