---------------------------- MODULE PartsProofs -----------------------------
(***************************************************************************)
(* The safety properties of Protocol, for lines of every length, foreign   *)
(* tokens of every kind and integers of every width that holds what our    *)
(* programs write, and of MqttBridge, for every PublishLimit.              *)
(*                                                                         *)
(* A line is parsed token by token and a number digit by digit, by a       *)
(* recursive function each.  What holds at every step of such a function   *)
(* is proved by contradiction, at the least step where it would not.       *)
(***************************************************************************)
EXTENDS Protocol, MqttBridge, SequenceTheorems, WellFoundedInduction, TLAPS

\* A set of natural numbers has a least one.
LEMMA LeastNatural ==
  ASSUME NEW T, T \subseteq Nat, T # {}
  PROVE  \E m \in T : \A n \in T : m <= n
<1>1. \E m \in T : \A n \in T : ~(<<n, m>> \in OpToRel(<, Nat))
  BY NatLessThanWellFounded, WFMin, Zenon
<1>2. PICK m \in T : \A n \in T : ~(<<n, m>> \in OpToRel(<, Nat))
  BY <1>1
<1>3. ASSUME NEW n \in T PROVE m <= n
  <2>1. m \in Nat /\ n \in Nat
    OBVIOUS
  <2>2. ~(n < m)
    <3>1. <<n, m>> \notin OpToRel(<, Nat)
      BY <1>2
    <3> QED BY <2>1, <3>1 DEF OpToRel
  <2> QED BY <2>1, <2>2
<1> QED BY <1>3

-----------------------------------------------------------------------------
(* Protocol: the tokens of a line, one after the other.                    *)

\* p[n] is what the first n tokens make of the default.
Parse(fields, default, tokens, p) ==
  /\ DOMAIN p = 0 .. Len(tokens) /\ p[0] = default
  /\ \A n \in 1 .. Len(tokens) : p[n] = ParseToken(fields, p[n - 1], tokens[n])
  /\ ParseTokens(fields, default, tokens) = p[Len(tokens)]

\* The recursion of ParseTokens has a solution.
LEMMA ParseTokensIs ==
  ASSUME NEW fields, NEW default, NEW tokens, Len(tokens) \in Nat
  PROVE  \E p : Parse(fields, default, tokens, p)
<1> DEFINE Body(p, n) == IF n = 0 THEN default ELSE ParseToken(fields, p[n - 1], tokens[n])
           Solves(p, k) == p = [n \in 0 .. k |-> Body(p, n)]
           Unsolved == {k \in Nat : ~\E p : Solves(p, k)}
<1>1. Unsolved = {}
  <2> SUFFICES ASSUME Unsolved # {} PROVE FALSE
    OBVIOUS
  <2>1. PICK k \in Unsolved : \A j \in Unsolved : k <= j
    <3> HIDE DEF Solves
    <3>1. Unsolved \subseteq Nat
      OBVIOUS
    <3> HIDE DEF Unsolved
    <3> QED BY <3>1, LeastNatural
  <2>2. k \in Nat /\ ~\E p : Solves(p, k)
    <3> HIDE DEF Solves
    <3> QED OBVIOUS
  <2>3. CASE k = 0
    <3>1. Solves([n \in 0 .. 0 |-> default], 0)
      OBVIOUS
    <3> QED BY <2>2, <2>3, <3>1
  <2>4. CASE k # 0
    <3>1. \E p : Solves(p, k - 1)
      <4> HIDE DEF Solves
      <4>1. k - 1 \in Nat /\ ~(k <= k - 1)
        BY <2>2, <2>4
      <4> QED BY <2>1, <4>1
    <3>2. PICK p : Solves(p, k - 1)
      BY <3>1
    <3> DEFINE q == [n \in 0 .. k |-> IF n = k THEN Body(p, k) ELSE p[n]]
    <3>3. \A n \in 0 .. k : q[n] = Body(q, n)
      <4> TAKE n \in 0 .. k
      <4>1. CASE n = k
        <5>1. k - 1 \in 0 .. k /\ k - 1 # k
          BY <2>2, <2>4
        <5>2. q[k - 1] = p[k - 1]
          BY <5>1
        <5> QED BY <4>1, <2>2, <2>4, <5>2
      <4>2. CASE n # k
        <5>1. n \in 0 .. k - 1 /\ q[n] = p[n]
          BY <2>2, <4>2
        <5>2. p[n] = Body(p, n)
          BY <3>2, <5>1
        <5>3. CASE n = 0
          BY <5>1, <5>2, <5>3
        <5>4. CASE n # 0
          <6>1. n - 1 \in 0 .. k /\ n - 1 # k
            BY <2>2, <5>1, <5>4
          <6>2. q[n - 1] = p[n - 1]
            BY <6>1
          <6> QED BY <5>1, <5>2, <5>4, <6>2
        <5> QED BY <5>3, <5>4
      <4> QED BY <4>1, <4>2
    <3>4. q = [n \in 0 .. k |-> q[n]]
      OBVIOUS
    <3>5. Solves(q, k)
      <4> HIDE DEF q, Body
      <4> QED BY <3>3, <3>4
    <3> QED BY <2>2, <3>5
  <2> QED BY <2>3, <2>4
<1>2. PICK g : Solves(g, Len(tokens))
  <2> HIDE DEF Solves
  <2> QED BY <1>1
<1>3. \E p : Solves(p, Len(tokens)) /\ ParseTokens(fields, default, tokens) = p[Len(tokens)]
  BY <1>2 DEF ParseTokens
<1>4. PICK p : Solves(p, Len(tokens)) /\ ParseTokens(fields, default, tokens) = p[Len(tokens)]
  BY <1>3
<1>5. DOMAIN p = 0 .. Len(tokens) /\ \A n \in 0 .. Len(tokens) : p[n] = Body(p, n)
  BY <1>4
<1>6. p[0] = default /\ \A n \in 1 .. Len(tokens) : p[n] = ParseToken(fields, p[n - 1], tokens[n])
  BY <1>5
<1> QED BY <1>4, <1>5, <1>6 DEF Parse

\* Every key has a field of its own, and the default has all fields.
Distinct(fields, default) ==
  /\ \A f, g \in fields : f.key = g.key \/ f.field = g.field => f = g
  /\ \A f \in fields : f.field \in DOMAIN default
  /\ "rejected" \notin DOMAIN default

\* A token that is no reason to reject its line.
Fits(fields, token) ==
  WellFormed(token) /\ \A f \in fields : f.key = token.key => Reads(f.reads, token.value)

\* What a field holds after the first n tokens: what the last of them that has its
\* key says, or the default if none has.
Holds(fields, default, tokens, n, result) ==
  \A f \in fields :
    \/ /\ \A i \in 1 .. n : tokens[i].key # f.key
       /\ result[f.field] = default[f.field]
    \/ \E i \in 1 .. n : /\ tokens[i].key = f.key
                         /\ \A j \in 1 .. n : tokens[j].key = f.key => j <= i
                         /\ result[f.field] = Stored(f.reads, tokens[i].value)

\* A result of parsing the first n tokens.
Result(fields, default, tokens, n, result) ==
  IF \A i \in 1 .. n : Fits(fields, tokens[i])
  THEN /\ result # Rejected
       /\ result = [name \in DOMAIN default |-> result[name]]
       /\ Holds(fields, default, tokens, n, result)
  ELSE result = Rejected

\* assign_field() changes the field of the key and no other.
LEMMA AssignFieldIs ==
  ASSUME NEW fields, NEW default, Distinct(fields, default),
         NEW result, result = [name \in DOMAIN default |-> result[name]],
         NEW token, Fits(fields, token)
  PROVE  LET new == assign_field(fields, result, token)
         IN /\ new = [name \in DOMAIN default |-> new[name]]
            /\ \A f \in fields :
                 new[f.field] = IF f.key = token.key THEN Stored(f.reads, token.value)
                                ELSE result[f.field]
<1> DEFINE known == {f \in fields : f.key = token.key}
           new == [name \in DOMAIN result |->
                     IF \E f \in known : f.field = name
                     THEN LET f == CHOOSE g \in known : g.field = name
                          IN  Stored(f.reads, token.value)
                     ELSE result[name]]
<1>1. assign_field(fields, result, token) = new
  BY DEF assign_field, Fits
<1>2. DOMAIN result = DOMAIN default
  OBVIOUS
<1>3. ASSUME NEW f \in fields
      PROVE  new[f.field] = IF f.key = token.key THEN Stored(f.reads, token.value)
                            ELSE result[f.field]
  <2>1. f.field \in DOMAIN result
    BY <1>2 DEF Distinct
  <2>2. CASE f.key = token.key
    <3>1. f \in known
      BY <2>2
    <3>2. (CHOOSE g \in known : g.field = f.field) = f
      BY <3>1 DEF Distinct
    <3> QED BY <2>1, <2>2, <3>1, <3>2
  <2>3. CASE f.key # token.key
    <3>1. ~\E g \in known : g.field = f.field
      BY <2>3 DEF Distinct
    <3> QED BY <2>1, <2>3, <3>1
  <2> QED BY <2>2, <2>3
<1>4. new = [name \in DOMAIN default |-> new[name]]
  BY <1>2
<1> HIDE DEF new
<1> QED BY <1>1, <1>3, <1>4

\* One token more.
LEMMA OneTokenMore ==
  ASSUME NEW fields, NEW default, Distinct(fields, default), NEW tokens,
         NEW n \in Nat, NEW before, Result(fields, default, tokens, n, before)
  PROVE  Result(fields, default, tokens, n + 1, ParseToken(fields, before, tokens[n + 1]))
<1> DEFINE token == tokens[n + 1]
           after == ParseToken(fields, before, token)
<1>1. \A i : i \in 1 .. n + 1 <=> i \in 1 .. n \/ i = n + 1
  OBVIOUS
<1>2. CASE ~\A i \in 1 .. n : Fits(fields, tokens[i])
  <2>1. before = Rejected
    BY <1>2 DEF Result
  <2>2. after = Rejected
    BY <2>1 DEF ParseToken
  <2>3. ~\A i \in 1 .. n + 1 : Fits(fields, tokens[i])
    BY <1>1, <1>2
  <2> QED BY <2>2, <2>3 DEF Result
<1>3. CASE (\A i \in 1 .. n : Fits(fields, tokens[i])) /\ ~Fits(fields, token)
  <2>1. before # Rejected
    BY <1>3 DEF Result
  <2>2. after = Rejected
    BY <1>3, <2>1 DEF ParseToken, assign_field, Fits
  <2>3. ~\A i \in 1 .. n + 1 : Fits(fields, tokens[i])
    BY <1>1, <1>3
  <2> QED BY <2>2, <2>3 DEF Result
<1>4. CASE (\A i \in 1 .. n : Fits(fields, tokens[i])) /\ Fits(fields, token)
  <2>1. /\ before # Rejected
        /\ before = [name \in DOMAIN default |-> before[name]]
        /\ Holds(fields, default, tokens, n, before)
    BY <1>4 DEF Result
  <2>2. after = assign_field(fields, before, token)
    BY <1>4, <2>1 DEF ParseToken, Fits
  <2>3. /\ after = [name \in DOMAIN default |-> after[name]]
        /\ \A f \in fields :
             after[f.field] = IF f.key = token.key THEN Stored(f.reads, token.value)
                              ELSE before[f.field]
    BY <1>4, <2>1, <2>2, AssignFieldIs
  <2> HIDE DEF after
  <2>4. after # Rejected
    <3>1. DOMAIN after = DOMAIN default
      BY <2>3
    <3>2. "rejected" \in DOMAIN Rejected
      BY DEF Rejected
    <3> QED BY <3>1, <3>2 DEF Distinct
  <2>5. \A i \in 1 .. n + 1 : Fits(fields, tokens[i])
    BY <1>1, <1>4
  <2>6. Holds(fields, default, tokens, n + 1, after)
    <3> SUFFICES ASSUME NEW f \in fields
                 PROVE  \/ /\ \A i \in 1 .. n + 1 : tokens[i].key # f.key
                           /\ after[f.field] = default[f.field]
                        \/ \E i \in 1 .. n + 1 :
                             /\ tokens[i].key = f.key
                             /\ \A j \in 1 .. n + 1 : tokens[j].key = f.key => j <= i
                             /\ after[f.field] = Stored(f.reads, tokens[i].value)
      BY DEF Holds
    <3>1. CASE f.key = token.key
      <4>1. n + 1 \in 1 .. n + 1 /\ \A j \in 1 .. n + 1 : j <= n + 1
        OBVIOUS
      <4> QED BY <2>3, <3>1, <4>1
    <3>2. CASE f.key # token.key
      <4>1. after[f.field] = before[f.field]
        BY <2>3, <3>2
      <4>2. CASE /\ \A i \in 1 .. n : tokens[i].key # f.key
                 /\ before[f.field] = default[f.field]
        BY <1>1, <3>2, <4>1, <4>2
      <4>3. CASE \E i \in 1 .. n : /\ tokens[i].key = f.key
                                   /\ \A j \in 1 .. n : tokens[j].key = f.key => j <= i
                                   /\ before[f.field] = Stored(f.reads, tokens[i].value)
        BY <1>1, <3>2, <4>1, <4>3
      <4> QED BY <2>1, <4>2, <4>3 DEF Holds
    <3> QED BY <3>1, <3>2
  <2> QED BY <2>3, <2>4, <2>5, <2>6 DEF Result, after
<1> QED BY <1>2, <1>3, <1>4

\* What parsing makes of all tokens of a line, however many there are.
LEMMA ParsedLine ==
  ASSUME NEW fields, NEW default, Distinct(fields, default),
         default = [name \in DOMAIN default |-> default[name]],
         NEW tokens, Len(tokens) \in Nat
  PROVE  Result(fields, default, tokens, Len(tokens), ParseTokens(fields, default, tokens))
<1>1. PICK p : Parse(fields, default, tokens, p)
  BY ParseTokensIs
<1> DEFINE Wrong == {n \in Nat : n <= Len(tokens) /\ ~Result(fields, default, tokens, n, p[n])}
<1>2. Wrong = {}
  <2> SUFFICES ASSUME Wrong # {} PROVE FALSE
    OBVIOUS
  <2>1. Wrong \subseteq Nat
    OBVIOUS
  <2> HIDE DEF Wrong
  <2>2. PICK n \in Wrong : \A k \in Wrong : n <= k
    BY <2>1, LeastNatural
  <2> USE DEF Wrong
  <2>3. n \in Nat /\ n <= Len(tokens) /\ ~Result(fields, default, tokens, n, p[n])
    OBVIOUS
  <2>4. Result(fields, default, tokens, 0, default)
    <3>1. default # Rejected
      BY DEF Distinct, Rejected
    <3>2. \A i : i \notin 1 .. 0
      OBVIOUS
    <3> QED BY <3>1, <3>2 DEF Result, Holds
  <2>5. n # 0
    BY <1>1, <2>3, <2>4 DEF Parse
  <2>6. PICK k \in Nat : k = n - 1
    BY <2>3, <2>5
  <2>7. k <= Len(tokens) /\ ~(n <= k) /\ n = k + 1 /\ n \in 1 .. Len(tokens)
    BY <2>3, <2>6
  <2>8. Result(fields, default, tokens, k, p[k])
    BY <2>2, <2>7
  <2>9. p[n] = ParseToken(fields, p[k], tokens[k + 1])
    BY <1>1, <2>6, <2>7 DEF Parse
  <2>10. Result(fields, default, tokens, k + 1, p[n])
    BY <2>8, <2>9, OneTokenMore
  <2> QED BY <2>3, <2>7, <2>10
<1>3. Len(tokens) \in Nat /\ Len(tokens) <= Len(tokens) /\ Len(tokens) \notin Wrong
  BY <1>2
<1>4. Result(fields, default, tokens, Len(tokens), p[Len(tokens)])
  BY <1>3
<1> QED BY <1>1, <1>4 DEF Parse

\* The fields of a status.
LEMMA StatusDistinct ==
  /\ Distinct(StatusFields, NoStatus)
  /\ NoStatus = [name \in DOMAIN NoStatus |-> NoStatus[name]]
BY DEF Distinct, StatusFields, NoStatus

\* And of the metrics.
LEMMA MetricsDistinct ==
  /\ Distinct(MetricsFields, NoMetrics)
  /\ NoMetrics = [name \in DOMAIN NoMetrics |-> NoMetrics[name]]
<1>1. "rejected" \notin Metrics
  BY DEF Metrics
<1> QED BY <1>1 DEF Distinct, MetricsFields, NoMetrics

\* A line and what its writer meant.
FirstWords == {"STATUS", "METRICS", "STATUSES"}
IsLine == /\ line = [first |-> line.first, tokens |-> line.tokens]
          /\ line.first \in FirstWords /\ Len(line.tokens) \in Nat
          /\ DOMAIN line.tokens = 1 .. Len(line.tokens)

\* parse_status_line() reads a line as its last tokens say.
LEMMA StatusIsRead == IsLine => ParserReadsTheLine
<1> SUFFICES ASSUME IsLine PROVE ParserReadsTheLine
  OBVIOUS
<1> DEFINE tokens == line.tokens
           n == Len(tokens)
           status == ParseTokens(StatusFields, NoStatus, tokens)
           wanted == /\ line.first = "STATUS"
                     /\ \A i \in DOMAIN tokens : InOrder(tokens[i])
                     /\ LastOf("device_id") # {} /\ LastOf("state") # {}
<1>1. Result(StatusFields, NoStatus, tokens, n, status)
  BY ParsedLine, StatusDistinct DEF IsLine
<1>2. DOMAIN tokens = 1 .. n
  BY DEF IsLine
<1>3. \A i \in 1 .. n : InOrder(tokens[i]) <=> Fits(StatusFields, tokens[i])
  BY DEF InOrder, Fits, WellFormed
<1>4. CASE ~\A i \in 1 .. n : Fits(StatusFields, tokens[i])
  <2>1. status = Rejected
    BY <1>1, <1>4 DEF Result
  <2>2. parse_status_line(line) = Rejected /\ ~wanted
    BY <1>2, <1>3, <1>4, <2>1 DEF parse_status_line
  <2> QED BY <2>2 DEF ParserReadsTheLine
<1>5. CASE \A i \in 1 .. n : Fits(StatusFields, tokens[i])
  <2>1. status # Rejected /\ Holds(StatusFields, NoStatus, tokens, n, status)
    BY <1>1, <1>5 DEF Result
  <2> HIDE DEF status
  <2>2. ASSUME NEW f \in StatusFields, NEW i \in LastOf(f.key)
        PROVE  status[f.field] = Stored(f.reads, tokens[i].value)
    <3>1. /\ i \in 1 .. n /\ tokens[i].key = f.key
          /\ \A j \in 1 .. n : tokens[j].key = f.key => j <= i
      BY <1>2 DEF LastOf
    <3>2. PICK k \in 1 .. n : /\ tokens[k].key = f.key
                              /\ \A j \in 1 .. n : tokens[j].key = f.key => j <= k
                              /\ status[f.field] = Stored(f.reads, tokens[k].value)
      BY <2>1, <3>1 DEF Holds
    <3>3. i = k
      BY <3>1, <3>2
    <3> QED BY <3>2, <3>3
  <2>3. ASSUME NEW f \in StatusFields, f.reads = "text", NoStatus[f.field] = Empty
        PROVE  status[f.field] = Empty <=> LastOf(f.key) = {}
    <3>1. CASE /\ \A i \in 1 .. n : tokens[i].key # f.key
               /\ status[f.field] = NoStatus[f.field]
      BY <1>2, <2>3, <3>1 DEF LastOf
    <3>2. CASE \E i \in 1 .. n : /\ tokens[i].key = f.key
                                 /\ \A j \in 1 .. n : tokens[j].key = f.key => j <= i
                                 /\ status[f.field] = Stored(f.reads, tokens[i].value)
      <4>1. PICK i \in 1 .. n : /\ tokens[i].key = f.key
                                /\ \A j \in 1 .. n : tokens[j].key = f.key => j <= i
                                /\ status[f.field] = Stored(f.reads, tokens[i].value)
        BY <3>2
      <4>2. i \in LastOf(f.key)
        BY <1>2, <4>1 DEF LastOf
      <4>3. tokens[i].value # Empty
        BY <1>5 DEF Fits, WellFormed
      <4>4. status[f.field] = tokens[i].value
        BY <2>3, <4>1 DEF Stored
      <4> QED BY <4>2, <4>3, <4>4
    <3> QED BY <2>1, <3>1, <3>2 DEF Holds
  <2>4. /\ status.device_id = Empty <=> LastOf("device_id") = {}
        /\ status.state = Empty <=> LastOf("state") = {}
    <3>1. /\ [key |-> "device_id", field |-> "device_id", reads |-> "text"] \in StatusFields
          /\ [key |-> "state", field |-> "state", reads |-> "text"] \in StatusFields
          /\ NoStatus["device_id"] = Empty /\ NoStatus["state"] = Empty
      BY DEF StatusFields, NoStatus
    <3>2. status["device_id"] = Empty <=> LastOf("device_id") = {}
      BY <2>3, <3>1
    <3>3. status["state"] = Empty <=> LastOf("state") = {}
      BY <2>3, <3>1
    <3> QED BY <3>2, <3>3
  <2>5. parse_status_line(line) =
          IF line.first # "STATUS" \/ status.device_id = Empty \/ status.state = Empty
          THEN Rejected ELSE status
    BY <2>1 DEF parse_status_line, status
  <2>6. \A i \in DOMAIN tokens : InOrder(tokens[i])
    BY <1>2, <1>3, <1>5
  <2>7. wanted <=> line.first = "STATUS" /\ status.device_id # Empty /\ status.state # Empty
    BY <2>4, <2>6
  <2>8. (parse_status_line(line) # Rejected) <=> wanted
    BY <2>1, <2>5, <2>7
  <2>9. wanted => parse_status_line(line) = status
    BY <2>5, <2>7
  <2> HIDE DEF wanted
  <2>10. wanted => \A f \in StatusFields : \A i \in LastOf(f.key) :
           parse_status_line(line)[f.field] = Stored(f.reads, tokens[i].value)
    BY <2>2, <2>9
  <2> QED BY <2>8, <2>10 DEF ParserReadsTheLine, wanted
<1> QED BY <1>4, <1>5

\* parse_metrics_line() takes numbers only.
LEMMA MetricsAreNumbers ==
  IsLine => parse_metrics_line(line) \in {Rejected} \cup [Metrics -> U64]
<1> SUFFICES ASSUME IsLine, line.first = "METRICS",
                    ParseTokens(MetricsFields, NoMetrics, line.tokens) # Rejected
             PROVE  ParseTokens(MetricsFields, NoMetrics, line.tokens) \in [Metrics -> U64]
  BY DEF parse_metrics_line
<1> DEFINE tokens == line.tokens
           n == Len(tokens)
           metrics == ParseTokens(MetricsFields, NoMetrics, tokens)
<1>1. /\ \A i \in 1 .. n : Fits(MetricsFields, tokens[i])
      /\ metrics = [name \in DOMAIN NoMetrics |-> metrics[name]]
      /\ Holds(MetricsFields, NoMetrics, tokens, n, metrics)
  <2>1. Result(MetricsFields, NoMetrics, tokens, n, metrics)
    BY ParsedLine, MetricsDistinct DEF IsLine
  <2> QED BY <2>1 DEF Result
<1> HIDE DEF metrics
<1>2. ASSUME NEW m \in Metrics PROVE metrics[m] \in U64
  <2>1. PICK f \in MetricsFields : f.key = m /\ f.field = m /\ f.reads = "u64"
    <3>1. [key |-> m, field |-> m, reads |-> "u64"] \in MetricsFields
      BY DEF MetricsFields
    <3> QED BY <3>1
  <2>2. CASE metrics[m] = NoMetrics[m]
    <3>1. 0 \in U64
      BY ProtocolAssumption DEF U64
    <3> QED BY <2>2, <3>1 DEF NoMetrics
  <2>3. CASE \E i \in 1 .. n : tokens[i].key = m /\ metrics[m] = Stored("u64", tokens[i].value)
    <3>1. PICK i \in 1 .. n : tokens[i].key = m /\ metrics[m] = Stored("u64", tokens[i].value)
      BY <2>3
    <3>2. Reads("u64", tokens[i].value)
      BY <1>1, <2>1, <3>1 DEF Fits
    <3>3. ParsesAsU64(tokens[i].value)
      BY <3>2 DEF Reads
    <3>4. metrics[m] = Signed(tokens[i].value)
      BY <3>1 DEF Stored
    <3> QED BY <3>3, <3>4 DEF ParsesAsU64, Signed
  <2> QED BY <1>1, <2>1, <2>2, <2>3 DEF Holds
<1>3. DOMAIN NoMetrics = Metrics
  BY DEF NoMetrics
<1>4. metrics \in [Metrics -> U64]
  BY <1>1, <1>2, <1>3
<1> QED BY <1>4 DEF metrics

-----------------------------------------------------------------------------
(* Numbers, written and read.                                              *)

\* What std::to_string makes of a number, from what it makes of smaller ones.
NumeralBody(g, n) == IF n < 10 THEN <<n>> ELSE Append(g[n \div 10], n % 10)
NumeralsTo(g, k) == DOMAIN g = 0 .. k /\ \A n \in 0 .. k : g[n] = NumeralBody(g, n)

\* The numeral of a number is built from that of a smaller one.
LEMMA Shorter ==
  ASSUME NEW n \in Nat, n >= 10
  PROVE  n \div 10 \in 0 .. n - 1 /\ n % 10 \in 0 .. 9
OBVIOUS

\* Two tables of numerals agree.
LEMMA NumeralsAgree ==
  ASSUME NEW g, NEW k \in Nat, NumeralsTo(g, k), NEW h, NEW l \in Nat, NumeralsTo(h, l),
         NEW n \in Nat, n <= k, n <= l
  PROVE  g[n] = h[n]
<1> DEFINE Differ == {m \in Nat : m <= k /\ m <= l /\ g[m] # h[m]}
<1>1. Differ = {}
  <2> SUFFICES ASSUME Differ # {} PROVE FALSE
    OBVIOUS
  <2>1. Differ \subseteq Nat
    OBVIOUS
  <2> HIDE DEF Differ
  <2>2. PICK m \in Differ : \A j \in Differ : m <= j
    BY <2>1, LeastNatural
  <2> USE DEF Differ
  <2>3. m \in Nat /\ m <= k /\ m <= l /\ g[m] # h[m]
    OBVIOUS
  <2>4. g[m] = NumeralBody(g, m) /\ h[m] = NumeralBody(h, m)
    BY <2>3 DEF NumeralsTo
  <2>5. m >= 10
    BY <2>3, <2>4 DEF NumeralBody
  <2>6. PICK j \in Nat : j = m \div 10 /\ j < m
    BY <2>3, <2>5, Shorter
  <2>7. j \notin Differ /\ j <= k /\ j <= l
    BY <2>2, <2>3, <2>6
  <2>8. g[j] = h[j]
    BY <2>7
  <2>9. PICK d : d = m % 10
    OBVIOUS
  <2>10. g[m] = Append(g[j], d) /\ h[m] = Append(h[j], d)
    <3>1. ~(m < 10)
      BY <2>3, <2>5
    <3> QED BY <2>4, <2>6, <2>9, <3>1 DEF NumeralBody
  <2> QED BY <2>3, <2>8, <2>10
<1> QED BY <1>1

\* There is one of every size.
LEMMA NumeralsExist == \A k \in Nat : \E g : NumeralsTo(g, k)
<1> DEFINE Missing == {k \in Nat : ~\E g : NumeralsTo(g, k)}
<1> SUFFICES ASSUME Missing # {} PROVE FALSE
  OBVIOUS
<1>1. Missing \subseteq Nat
  OBVIOUS
<1> HIDE DEF Missing
<1>2. PICK k \in Missing : \A j \in Missing : k <= j
  BY <1>1, LeastNatural
<1> USE DEF Missing
<1>3. k \in Nat /\ ~\E g : NumeralsTo(g, k)
  OBVIOUS
<1>4. k # 0
  <2>1. NumeralsTo([n \in 0 .. 0 |-> <<n>>], 0)
    BY DEF NumeralsTo, NumeralBody
  <2> QED BY <1>3, <2>1
<1>5. k - 1 \in Nat /\ ~(k <= k - 1)
  BY <1>3, <1>4
<1>6. PICK g : NumeralsTo(g, k - 1)
  BY <1>2, <1>5
<1> DEFINE h == [n \in 0 .. k |-> IF n = k THEN NumeralBody(g, k) ELSE g[n]]
<1>7. \A n \in 0 .. k - 1 : n \in 0 .. k /\ h[n] = g[n]
  BY <1>3
<1>8. ASSUME NEW n \in 0 .. k PROVE h[n] = NumeralBody(h, n)
  <2>1. h[n] = NumeralBody(g, n)
    BY <1>3, <1>6 DEF NumeralsTo
  <2>2. CASE n < 10
    BY <2>1, <2>2 DEF NumeralBody
  <2>3. CASE n >= 10
    <3>1. PICK j : j = n \div 10
      OBVIOUS
    <3>2. j \in 0 .. k - 1
      BY <1>3, <2>3, <3>1, Shorter
    <3>3. h[j] = g[j]
      BY <1>7, <3>2
    <3>4. ~(n < 10)
      BY <1>3, <2>3
    <3> HIDE DEF h
    <3> QED BY <2>1, <3>1, <3>3, <3>4 DEF NumeralBody
  <2> QED BY <1>3, <2>2, <2>3
<1>9. NumeralsTo(h, k)
  <2>1. DOMAIN h = 0 .. k
    OBVIOUS
  <2> HIDE DEF h
  <2> QED BY <1>8, <2>1 DEF NumeralsTo
<1> QED BY <1>3, <1>9

\* The recursion of Numeral has a solution.
LEMMA NumeralIs ==
  \A n \in Nat : Numeral[n] = IF n < 10 THEN <<n>> ELSE Append(Numeral[n \div 10], n % 10)
<1> DEFINE table(n) == CHOOSE g : NumeralsTo(g, n)
           all == [n \in Nat |-> table(n)[n]]
<1>1. \A n \in Nat : NumeralsTo(table(n), n)
  BY NumeralsExist
<1> HIDE DEF table
<1>2. ASSUME NEW n \in Nat PROVE all[n] = NumeralBody(all, n)
  <2>1. all[n] = NumeralBody(table(n), n)
    BY <1>1 DEF NumeralsTo
  <2>2. CASE n < 10
    BY <2>1, <2>2 DEF NumeralBody
  <2>3. CASE n >= 10
    <3>1. PICK j : j = n \div 10
      OBVIOUS
    <3>2. j \in Nat /\ j <= n /\ j <= j
      BY <2>3, <3>1, Shorter
    <3>3. table(n)[j] = table(j)[j]
      BY <1>1, <3>2, NumeralsAgree
    <3>4. all[j] = table(n)[j]
      BY <3>2, <3>3
    <3>5. ~(n < 10)
      BY <2>3
    <3> HIDE DEF all
    <3> QED BY <2>1, <3>1, <3>4, <3>5 DEF NumeralBody
  <2> QED BY <2>2, <2>3
<1>3. all = [n \in Nat |-> IF n < 10 THEN <<n>> ELSE Append(all[n \div 10], n % 10)]
  <2>1. all = [n \in Nat |-> all[n]]
    OBVIOUS
  <2> HIDE DEF all
  <2> QED BY <1>2, <2>1 DEF NumeralBody
<1> HIDE DEF all
<1>4. Numeral = [n \in Nat |-> IF n < 10 THEN <<n>> ELSE Append(Numeral[n \div 10], n % 10)]
  BY <1>3 DEF Numeral
<1> QED BY <1>4

\* v[n] is the value of the first n digits.
Value(text, v) ==
  /\ DOMAIN v = 0 .. Len(text.digits) /\ v[0] = 0
  /\ \A n \in 1 .. Len(text.digits) : v[n] = 10 * v[n - 1] + text.digits[n]
  /\ Magnitude(text) = v[Len(text.digits)]

\* The recursion of Magnitude has a solution.
LEMMA MagnitudeIs ==
  ASSUME NEW text, Len(text.digits) \in Nat
  PROVE  \E v : Value(text, v)
<1> DEFINE Body(v, n) == IF n = 0 THEN 0 ELSE 10 * v[n - 1] + text.digits[n]
           Solves(v, k) == v = [n \in 0 .. k |-> Body(v, n)]
           Unsolved == {k \in Nat : ~\E v : Solves(v, k)}
<1>1. Unsolved = {}
  <2> SUFFICES ASSUME Unsolved # {} PROVE FALSE
    OBVIOUS
  <2>1. PICK k \in Unsolved : \A j \in Unsolved : k <= j
    <3> HIDE DEF Solves
    <3>1. Unsolved \subseteq Nat
      OBVIOUS
    <3> HIDE DEF Unsolved
    <3> QED BY <3>1, LeastNatural
  <2>2. k \in Nat /\ ~\E v : Solves(v, k)
    <3> HIDE DEF Solves
    <3> QED OBVIOUS
  <2>3. CASE k = 0
    <3>1. Solves([n \in 0 .. 0 |-> 0], 0)
      OBVIOUS
    <3> QED BY <2>2, <2>3, <3>1
  <2>4. CASE k # 0
    <3>1. \E v : Solves(v, k - 1)
      <4> HIDE DEF Solves
      <4>1. k - 1 \in Nat /\ ~(k <= k - 1)
        BY <2>2, <2>4
      <4> QED BY <2>1, <4>1
    <3>2. PICK v : Solves(v, k - 1)
      BY <3>1
    <3> DEFINE w == [n \in 0 .. k |-> IF n = k THEN Body(v, k) ELSE v[n]]
    <3>3. \A n \in 0 .. k : w[n] = Body(w, n)
      <4> TAKE n \in 0 .. k
      <4>1. CASE n = k
        <5>1. k - 1 \in 0 .. k /\ k - 1 # k
          BY <2>2, <2>4
        <5>2. w[k - 1] = v[k - 1]
          BY <5>1
        <5> QED BY <4>1, <2>2, <2>4, <5>2
      <4>2. CASE n # k
        <5>1. n \in 0 .. k - 1 /\ w[n] = v[n]
          BY <2>2, <4>2
        <5>2. v[n] = Body(v, n)
          BY <3>2, <5>1
        <5>3. CASE n = 0
          BY <5>1, <5>2, <5>3
        <5>4. CASE n # 0
          <6>1. n - 1 \in 0 .. k /\ n - 1 # k
            BY <2>2, <5>1, <5>4
          <6>2. w[n - 1] = v[n - 1]
            BY <6>1
          <6> QED BY <5>1, <5>2, <5>4, <6>2
        <5> QED BY <5>3, <5>4
      <4> QED BY <4>1, <4>2
    <3>4. w = [n \in 0 .. k |-> w[n]]
      OBVIOUS
    <3>5. Solves(w, k)
      <4> HIDE DEF w, Body
      <4> QED BY <3>3, <3>4
    <3> QED BY <2>2, <3>5
  <2> QED BY <2>3, <2>4
<1>2. PICK g : Solves(g, Len(text.digits))
  <2> HIDE DEF Solves
  <2> QED BY <1>1
<1>3. \E v : Solves(v, Len(text.digits)) /\ Magnitude(text) = v[Len(text.digits)]
  BY <1>2 DEF Magnitude
<1>4. PICK v : Solves(v, Len(text.digits)) /\ Magnitude(text) = v[Len(text.digits)]
  BY <1>3
<1>5. DOMAIN v = 0 .. Len(text.digits) /\ \A n \in 0 .. Len(text.digits) : v[n] = Body(v, n)
  BY <1>4
<1>6. v[0] = 0 /\ \A n \in 1 .. Len(text.digits) : v[n] = 10 * v[n - 1] + text.digits[n]
  BY <1>5
<1> QED BY <1>4, <1>5, <1>6 DEF Value

\* One digit more.
LEMMA MagnitudeAppend ==
  ASSUME NEW text, text.digits \in Seq(0 .. 9), NEW d \in 0 .. 9,
         NEW longer, longer.digits = Append(text.digits, d)
  PROVE  Magnitude(text) \in Nat /\ Magnitude(longer) = 10 * Magnitude(text) + d
<1> DEFINE k == Len(text.digits)
<1>1. /\ k \in Nat /\ Len(longer.digits) = k + 1 /\ longer.digits[k + 1] = d
      /\ \A n \in 1 .. k : longer.digits[n] = text.digits[n] /\ text.digits[n] \in Nat
  OBVIOUS
<1>2. PICK v : Value(text, v)
  BY <1>1, MagnitudeIs
<1>3. Len(longer.digits) \in Nat
  BY <1>1
<1>4. PICK w : Value(longer, w)
  BY <1>3, MagnitudeIs
<1> HIDE DEF k
<1>5. /\ v[0] = 0 /\ w[0] = 0 /\ Magnitude(text) = v[k]
      /\ \A n \in 1 .. k : v[n] = 10 * v[n - 1] + text.digits[n]
      /\ \A n \in 1 .. k + 1 : w[n] = 10 * w[n - 1] + longer.digits[n]
      /\ Magnitude(longer) = w[k + 1]
  BY <1>1, <1>2, <1>4 DEF Value, k
<1> DEFINE Differ == {n \in Nat : n <= k /\ ~(v[n] = w[n] /\ v[n] \in Nat)}
<1>6. Differ = {}
  <2> SUFFICES ASSUME Differ # {} PROVE FALSE
    OBVIOUS
  <2>1. Differ \subseteq Nat
    OBVIOUS
  <2> HIDE DEF Differ
  <2>2. PICK n \in Differ : \A j \in Differ : n <= j
    BY <2>1, LeastNatural
  <2> USE DEF Differ
  <2>3. n \in Nat /\ n <= k /\ ~(v[n] = w[n] /\ v[n] \in Nat)
    OBVIOUS
  <2>4. n # 0
    BY <1>5, <2>3
  <2>5. PICK j \in Nat : j = n - 1
    BY <2>3, <2>4
  <2>6. j \notin Differ /\ j <= k /\ n \in 1 .. k /\ n \in 1 .. k + 1
    BY <1>1, <2>2, <2>3, <2>4, <2>5
  <2>7. v[j] = w[j] /\ v[j] \in Nat
    BY <2>6
  <2>8. v[n] = 10 * v[j] + text.digits[n] /\ w[n] = 10 * v[j] + text.digits[n]
    BY <1>1, <1>5, <2>5, <2>6, <2>7
  <2> QED BY <1>1, <2>3, <2>6, <2>7, <2>8
<1>7. v[k] = w[k] /\ v[k] \in Nat
  <2>1. k \notin Differ /\ k <= k
    BY <1>1, <1>6
  <2> QED BY <1>1, <2>1
<1>8. w[k + 1] = 10 * w[k] + d
  <2>1. k + 1 \in 1 .. k + 1 /\ (k + 1) - 1 = k
    BY <1>1
  <2> QED BY <1>1, <1>5, <2>1
<1> QED BY <1>5, <1>7, <1>8

\* A number is read as what was written: std::to_string and std::from_chars.
Written(n) == /\ Numeral[n] \in Seq(0 .. 9) /\ Numeral[n] # <<>>
              /\ Magnitude(to_string(n)) = n

\* Every number is.
LEMMA NumbersRoundTrip == \A n \in Nat : Written(n)
<1> DEFINE Wrong == {n \in Nat : ~Written(n)}
<1> SUFFICES ASSUME Wrong # {} PROVE FALSE
  OBVIOUS
<1>1. Wrong \subseteq Nat
  OBVIOUS
<1> HIDE DEF Wrong
<1>2. PICK n \in Wrong : \A j \in Wrong : n <= j
  BY <1>1, LeastNatural
<1> USE DEF Wrong
<1>3. n \in Nat /\ ~Written(n)
  OBVIOUS
<1>4. CASE n < 10
  <2>1. Numeral[n] = <<n>>
    BY <1>3, <1>4, NumeralIs
  <2>2. n \in 0 .. 9
    BY <1>3, <1>4
  <2>3. PICK none : none = Empty
    OBVIOUS
  <2>4. none.digits = <<>>
    BY <2>3 DEF Empty, word
  <2>5. Len(none.digits) = 0 /\ none.digits \in Seq(0 .. 9)
    BY <2>4
  <2>6. Magnitude(none) = 0
    <3>1. Len(none.digits) \in Nat
      BY <2>5
    <3>2. PICK v : Value(none, v)
      BY <3>1, MagnitudeIs
    <3> QED BY <2>5, <3>2 DEF Value
  <2>7. PICK text : text = to_string(n)
    OBVIOUS
  <2>8. text.digits = Append(none.digits, n)
    <3>1. text.digits = Numeral[n]
      BY <2>7 DEF to_string
    <3> QED BY <2>1, <2>4, <3>1
  <2>9. Magnitude(text) = 10 * Magnitude(none) + n
    BY <2>2, <2>5, <2>8, MagnitudeAppend
  <2>10. Magnitude(text) = n
    BY <1>3, <2>6, <2>9
  <2>11. <<n>> \in Seq(0 .. 9) /\ <<n>> # <<>>
    BY <2>2
  <2>12. Numeral[n] \in Seq(0 .. 9) /\ Numeral[n] # <<>>
    BY <2>1, <2>11
  <2>13. Written(n)
    BY <2>7, <2>10, <2>12 DEF Written
  <2> QED BY <1>3, <2>13
<1>5. CASE n >= 10
  <2>1. PICK q, d : q = n \div 10 /\ d = n % 10
    OBVIOUS
  <2>2. q \in Nat /\ q < n /\ d \in 0 .. 9 /\ n = 10 * q + d
    BY <1>3, <1>5, <2>1
  <2>3. Written(q)
    BY <1>2, <1>3, <2>2
  <2>4. Numeral[n] = Append(Numeral[q], d)
    <3>1. ~(n < 10)
      BY <1>3, <1>5
    <3> QED BY <1>3, <2>1, <3>1, NumeralIs
  <2>5. to_string(n).digits = Append(to_string(q).digits, d) /\ to_string(q).digits = Numeral[q]
    BY <2>4 DEF to_string
  <2>6. Magnitude(to_string(n)) = 10 * Magnitude(to_string(q)) + d
    BY <2>2, <2>3, <2>5, MagnitudeAppend DEF Written
  <2>7. Append(Numeral[q], d) \in Seq(0 .. 9) /\ Append(Numeral[q], d) # <<>>
    BY <2>2, <2>3 DEF Written
  <2> QED BY <1>3, <2>2, <2>3, <2>4, <2>6, <2>7 DEF Written
<1> QED BY <1>3, <1>4, <1>5

\* So every number that fits is read back.
LEMMA NumbersAreRead ==
  /\ \A n \in U64 : /\ Reads("u64", to_string(n)) /\ Stored("u64", to_string(n)) = n
                    /\ to_string(n) # Empty
  /\ \A n \in Nat : /\ Reads("double", to_string(n)) /\ Stored("double", to_string(n)) = to_string(n)
                    /\ to_string(n) # Empty
  /\ Reads("int", to_string(87)) /\ Stored("int", to_string(87)) = 87
  /\ Reads("bool", to_string(1)) /\ Stored("bool", to_string(1)) = TRUE
<1>1. ASSUME NEW n \in Nat
      PROVE  /\ IsInteger(to_string(n)) /\ ~to_string(n).minus /\ Signed(to_string(n)) = n
             /\ Magnitude(to_string(n)) = n /\ to_string(n) # Empty
             /\ ParsesAsDouble(to_string(n))
  BY NumbersRoundTrip DEF Written, IsInteger, Signed, to_string, Empty, word, ParsesAsDouble
<1>2. ASSUME NEW n \in U64
      PROVE  Reads("u64", to_string(n)) /\ Stored("u64", to_string(n)) = n
  <2>1. n \in Nat
    BY ProtocolAssumption DEF U64
  <2>2. ParsesAsU64(to_string(n))
    BY <1>1, <2>1 DEF ParsesAsU64
  <2> QED BY <1>1, <2>1, <2>2 DEF Reads, Stored
<1>3. Reads("int", to_string(87)) /\ Stored("int", to_string(87)) = 87
  <2>1. ParsesAsInt(to_string(87))
    BY <1>1, ProtocolAssumption DEF ParsesAsInt
  <2> QED BY <1>1, <2>1 DEF Reads, Stored
<1>4. Reads("bool", to_string(1)) /\ Stored("bool", to_string(1)) = TRUE
  BY DEF Reads, Stored, ParsesAsBool, True
<1>5. U64 \subseteq Nat
  BY ProtocolAssumption DEF U64
<1>6. ASSUME NEW n \in Nat
      PROVE  Reads("double", to_string(n)) /\ Stored("double", to_string(n)) = to_string(n)
  BY <1>1 DEF Reads, Stored
<1> QED BY <1>1, <1>2, <1>3, <1>4, <1>5, <1>6

-----------------------------------------------------------------------------
(* Lines, written and read.                                                *)

\* The token sets this field, to what the writer wanted.
Says(f, token, wanted) ==
  /\ token.key = f.key /\ WellFormed(token) /\ Reads(f.reads, token.value)
  /\ wanted[f.field] = Stored(f.reads, token.value)

\* A line that has one token for each field that is not as in the default.
Spells(fields, default, tokens, n, row, wanted) ==
  /\ Distinct(fields, default)
  /\ default = [name \in DOMAIN default |-> default[name]]
  /\ \A name \in DOMAIN default : \E f \in fields : f.field = name
  /\ n \in Nat /\ Len(tokens) = n
  /\ wanted = [name \in DOMAIN default |-> wanted[name]]
  /\ \A i \in 1 .. n : row[i] \in fields /\ Says(row[i], tokens[i], wanted)
  /\ \A f \in fields : (\E i \in 1 .. n : row[i] = f) \/ wanted[f.field] = default[f.field]

\* Such a line is read as the writer wanted.
LEMMA ReadBack ==
  ASSUME NEW fields, NEW default, NEW tokens, NEW n, NEW row, NEW wanted,
         Spells(fields, default, tokens, n, row, wanted)
  PROVE  ParseTokens(fields, default, tokens) = wanted
<1> USE DEF Spells
<1> DEFINE result == ParseTokens(fields, default, tokens)
<1>1. Result(fields, default, tokens, n, result)
  BY ParsedLine
<1>2. ASSUME NEW i \in 1 .. n PROVE Fits(fields, tokens[i])
  <2>1. row[i] \in fields /\ Says(row[i], tokens[i], wanted)
    OBVIOUS
  <2>2. \A f \in fields : f.key = tokens[i].key => f = row[i]
    BY <2>1 DEF Says, Distinct
  <2> QED BY <2>1, <2>2 DEF Says, Fits
<1>3. /\ result = [name \in DOMAIN default |-> result[name]]
      /\ Holds(fields, default, tokens, n, result)
  BY <1>1, <1>2 DEF Result
<1> HIDE DEF result
<1>4. ASSUME NEW f \in fields PROVE result[f.field] = wanted[f.field]
  <2>1. CASE /\ \A i \in 1 .. n : tokens[i].key # f.key
             /\ result[f.field] = default[f.field]
    <3>1. \A i \in 1 .. n : row[i] # f
      BY <2>1 DEF Says
    <3> QED BY <2>1, <3>1
  <2>2. CASE \E i \in 1 .. n : /\ tokens[i].key = f.key
                               /\ \A j \in 1 .. n : tokens[j].key = f.key => j <= i
                               /\ result[f.field] = Stored(f.reads, tokens[i].value)
    <3>1. PICK i \in 1 .. n : tokens[i].key = f.key /\ result[f.field] = Stored(f.reads, tokens[i].value)
      BY <2>2
    <3>2. row[i] \in fields /\ Says(row[i], tokens[i], wanted)
      OBVIOUS
    <3>3. row[i] = f
      BY <3>1, <3>2 DEF Says, Distinct
    <3> QED BY <3>1, <3>2, <3>3 DEF Says
  <2> QED BY <1>3, <2>1, <2>2 DEF Holds
<1>5. \A name \in DOMAIN default : result[name] = wanted[name]
  BY <1>4
<1>6. result = wanted
  BY <1>3, <1>5
<1> QED BY <1>6 DEF result

\* The fields of a status, in the order in which the programs write them.
Row == << [key |-> "device_id", field |-> "device_id", reads |-> "text"],
          [key |-> "state", field |-> "state", reads |-> "text"],
          [key |-> "battery", field |-> "battery_percent", reads |-> "int"],
          [key |-> "x", field |-> "x", reads |-> "double"],
          [key |-> "y", field |-> "y", reads |-> "double"],
          [key |-> "z", field |-> "z", reads |-> "double"],
          [key |-> "seq", field |-> "sequence", reads |-> "u64"],
          [key |-> "sent_ms", field |-> "sent_ms", reads |-> "u64"],
          [key |-> "ack", field |-> "ack_requested", reads |-> "bool"] >>

\* They are all of them.
LEMMA Rows ==
  /\ \A i \in 1 .. 9 : Row[i] \in StatusFields
  /\ \A f \in StatusFields : \E i \in 1 .. 9 : Row[i] = f
  /\ \A name \in DOMAIN NoStatus : \E f \in StatusFields : f.field = name
<1>1. \A i \in 1 .. 9 : i \in {1, 2, 3, 4, 5, 6, 7, 8, 9}
  OBVIOUS
<1>2. \A i \in 1 .. 9 : Row[i] \in StatusFields
  BY <1>1 DEF Row, StatusFields
<1>3. \A f \in StatusFields : \E i \in 1 .. 9 : Row[i] = f
  BY DEF Row, StatusFields
<1>4. \A name \in DOMAIN NoStatus : \E f \in StatusFields : f.field = name
  BY DEF NoStatus, StatusFields
<1> QED BY <1>2, <1>3, <1>4

\* A status with its nine fields, or with the first six and no more.
StatusOf(device_id, x, y, z, sequence, sent_ms, ack) ==
  [device_id |-> device_id, state |-> word("OK"), battery_percent |-> 87,
   x |-> x, y |-> y, z |-> z, sequence |-> sequence, sent_ms |-> sent_ms, ack_requested |-> ack]
SixTokens(device_id, x, y, z) ==
  <<Token("device_id", device_id), Token("state", word("OK")), Token("battery", to_string(87)),
    Token("x", x), Token("y", y), Token("z", z)>>
NineTokens(device_id, x, y, z, sequence, sent_ms) ==
  <<Token("device_id", device_id), Token("state", word("OK")), Token("battery", to_string(87)),
    Token("x", x), Token("y", y), Token("z", z), Token("seq", to_string(sequence)),
    Token("sent_ms", to_string(sent_ms)), Token("ack", to_string(1))>>

\* A text from_chars reads as a double.
IsDouble(text) == ParsesAsDouble(text) /\ text # Empty

\* A status without sequence, time and ack is read, whatever its texts.
LEMMA SixAreRead ==
  ASSUME NEW device_id, device_id # Empty, NEW x, NEW y, NEW z, IsDouble(x), IsDouble(y), IsDouble(z)
  PROVE  parse_status_line(Line("STATUS", SixTokens(device_id, x, y, z)))
           = StatusOf(device_id, x, y, z, 0, 0, FALSE)
<1> DEFINE tokens == SixTokens(device_id, x, y, z)
           wanted == StatusOf(device_id, x, y, z, 0, 0, FALSE)
<1>1. word("OK") # Empty
  BY DEF word, Empty
<1>2. /\ Says(Row[1], tokens[1], wanted) /\ Says(Row[2], tokens[2], wanted)
      /\ Says(Row[3], tokens[3], wanted)
  <2>1. to_string(87) # Empty
    BY NumbersAreRead
  <2> QED BY <1>1, <2>1, NumbersAreRead DEF SixTokens, StatusOf, Says, Row, Token, WellFormed, Reads, Stored
<1>3. /\ Says(Row[4], tokens[4], wanted) /\ Says(Row[5], tokens[5], wanted)
      /\ Says(Row[6], tokens[6], wanted)
  BY DEF SixTokens, StatusOf, Says, Row, Token, WellFormed, Reads, Stored, IsDouble
<1>4. Len(tokens) = 6 /\ 6 \in Nat
  BY DEF SixTokens
<1>5. wanted = [name \in DOMAIN NoStatus |-> wanted[name]]
  BY DEF StatusOf, NoStatus
<1>6. \A f \in StatusFields : (\E i \in 1 .. 6 : Row[i] = f) \/ wanted[f.field] = NoStatus[f.field]
  <2>1. /\ wanted["sequence"] = NoStatus["sequence"] /\ wanted["sent_ms"] = NoStatus["sent_ms"]
        /\ wanted["ack_requested"] = NoStatus["ack_requested"]
    BY DEF StatusOf, NoStatus
  <2>2. Row[7].field = "sequence" /\ Row[8].field = "sent_ms" /\ Row[9].field = "ack_requested"
    BY DEF Row
  <2>3. \A i \in 1 .. 9 : i \in 1 .. 6 \/ i = 7 \/ i = 8 \/ i = 9
    OBVIOUS
  <2> HIDE DEF wanted
  <2> QED BY <2>1, <2>2, <2>3, Rows
<1>7. \A i \in 1 .. 6 : Row[i] \in StatusFields /\ Says(Row[i], tokens[i], wanted)
  <2>1. \A i \in 1 .. 6 : i \in 1 .. 9 /\ (i = 1 \/ i = 2 \/ i = 3 \/ i = 4 \/ i = 5 \/ i = 6)
    OBVIOUS
  <2> HIDE DEF tokens, wanted
  <2> QED BY <1>2, <1>3, <2>1, Rows
<1>8. ParseTokens(StatusFields, NoStatus, tokens) = wanted
  <2> HIDE DEF tokens, wanted
  <2>1. Spells(StatusFields, NoStatus, tokens, 6, Row, wanted)
    BY <1>4, <1>5, <1>6, <1>7, StatusDistinct, Rows DEF Spells
  <2> QED BY <2>1, ReadBack
<1>9. wanted # Rejected /\ wanted.device_id # Empty /\ wanted.state # Empty
  BY <1>1 DEF StatusOf, Rejected
<1>10. Line("STATUS", tokens).first = "STATUS" /\ Line("STATUS", tokens).tokens = tokens
  BY DEF Line
<1> HIDE DEF tokens, wanted
<1>11. parse_status_line(Line("STATUS", tokens)) = wanted
  BY <1>8, <1>9, <1>10 DEF parse_status_line
<1> QED BY <1>11 DEF tokens, wanted

\* A full status is read, whatever its texts and numbers.
LEMMA NineAreRead ==
  ASSUME NEW device_id, device_id # Empty, NEW x, NEW y, NEW z, IsDouble(x), IsDouble(y), IsDouble(z),
         NEW sequence \in U64, NEW sent_ms \in U64
  PROVE  parse_status_line(Line("STATUS", NineTokens(device_id, x, y, z, sequence, sent_ms)))
           = StatusOf(device_id, x, y, z, sequence, sent_ms, TRUE)
<1> DEFINE tokens == NineTokens(device_id, x, y, z, sequence, sent_ms)
           wanted == StatusOf(device_id, x, y, z, sequence, sent_ms, TRUE)
<1>1. word("OK") # Empty
  BY DEF word, Empty
<1>2. /\ Says(Row[1], tokens[1], wanted) /\ Says(Row[2], tokens[2], wanted)
      /\ Says(Row[3], tokens[3], wanted)
  <2>1. to_string(87) # Empty
    BY NumbersAreRead
  <2> QED BY <1>1, <2>1, NumbersAreRead DEF NineTokens, StatusOf, Says, Row, Token, WellFormed, Reads, Stored
<1>3. /\ Says(Row[4], tokens[4], wanted) /\ Says(Row[5], tokens[5], wanted)
      /\ Says(Row[6], tokens[6], wanted)
  BY DEF NineTokens, StatusOf, Says, Row, Token, WellFormed, Reads, Stored, IsDouble
<1>4. /\ Says(Row[7], tokens[7], wanted) /\ Says(Row[8], tokens[8], wanted)
      /\ Says(Row[9], tokens[9], wanted)
  <2>1. to_string(1) # Empty
    BY NumbersAreRead
  <2> QED BY <2>1, NumbersAreRead DEF NineTokens, StatusOf, Says, Row, Token, WellFormed
<1>5. Len(tokens) = 9 /\ 9 \in Nat
  BY DEF NineTokens
<1>6. wanted = [name \in DOMAIN NoStatus |-> wanted[name]]
  BY DEF StatusOf, NoStatus
<1>7. \A i \in 1 .. 9 : Row[i] \in StatusFields /\ Says(Row[i], tokens[i], wanted)
  <2>1. \A i \in 1 .. 9 : i = 1 \/ i = 2 \/ i = 3 \/ i = 4 \/ i = 5 \/ i = 6 \/ i = 7 \/ i = 8 \/ i = 9
    OBVIOUS
  <2> HIDE DEF tokens, wanted
  <2> QED BY <1>2, <1>3, <1>4, <2>1, Rows
<1>8. ParseTokens(StatusFields, NoStatus, tokens) = wanted
  <2> HIDE DEF tokens, wanted
  <2>1. Spells(StatusFields, NoStatus, tokens, 9, Row, wanted)
    BY <1>5, <1>6, <1>7, StatusDistinct, Rows DEF Spells
  <2> QED BY <2>1, ReadBack
<1>9. wanted # Rejected /\ wanted.device_id # Empty /\ wanted.state # Empty
  BY <1>1 DEF StatusOf, Rejected
<1>10. Line("STATUS", tokens).first = "STATUS" /\ Line("STATUS", tokens).tokens = tokens
  BY DEF Line
<1> HIDE DEF tokens, wanted
<1>11. parse_status_line(Line("STATUS", tokens)) = wanted
  BY <1>8, <1>9, <1>10 DEF parse_status_line
<1> QED BY <1>11 DEF tokens, wanted

\* parse_metrics_line() reads what format_metrics_line() wrote.
LEMMA MetricsAreRead ==
  ASSUME NEW metrics \in [Metrics -> U64]
  PROVE  parse_metrics_line(format_metrics_line(metrics)) = metrics
<1> DEFINE tokens == [i \in 1 .. 10 |-> Token(MetricsOrder[i], to_string(metrics[MetricsOrder[i]]))]
           row == [i \in 1 .. 10 |-> [key |-> MetricsOrder[i], field |-> MetricsOrder[i], reads |-> "u64"]]
<1>1. \A i \in 1 .. 10 : MetricsOrder[i] \in Metrics /\ MetricsOrder[i] # ""
  <2>1. \A i \in 1 .. 10 : i \in {1, 2, 3, 4, 5, 6, 7, 8, 9, 10}
    OBVIOUS
  <2>2. /\ MetricsOrder[1] = "uptime_sec" /\ MetricsOrder[2] = "active"
        /\ MetricsOrder[3] = "accepted" /\ MetricsOrder[4] = "disconnected"
        /\ MetricsOrder[5] = "devices" /\ MetricsOrder[6] = "received"
        /\ MetricsOrder[7] = "ack_sent" /\ MetricsOrder[8] = "parse_errors"
        /\ MetricsOrder[9] = "broadcast_errors" /\ MetricsOrder[10] = "msg_per_sec"
    BY DEF MetricsOrder
  <2>3. "" \notin Metrics
    BY DEF Metrics
  <2>4. \A i \in 1 .. 10 : MetricsOrder[i] \in Metrics
    BY <2>1, <2>2 DEF Metrics
  <2> QED BY <2>3, <2>4
<1>2. \A m \in Metrics : \E i \in 1 .. 10 : MetricsOrder[i] = m
  BY DEF MetricsOrder, Metrics
<1>3. ASSUME NEW i \in 1 .. 10
      PROVE  row[i] \in MetricsFields /\ Says(row[i], tokens[i], metrics)
  <2>1. PICK m \in Metrics : m = MetricsOrder[i] /\ m # ""
    BY <1>1
  <2>2. metrics[m] \in U64
    OBVIOUS
  <2>3. row[i] = [key |-> m, field |-> m, reads |-> "u64"] /\ tokens[i] = Token(m, to_string(metrics[m]))
    BY <2>1
  <2>4. row[i] \in MetricsFields
    BY <2>3 DEF MetricsFields
  <2> HIDE DEF row, tokens
  <2>5. /\ row[i].key = m /\ row[i].field = m /\ row[i].reads = "u64"
        /\ tokens[i].key = m /\ tokens[i].value = to_string(metrics[m])
    BY <2>3 DEF Token
  <2>6. /\ to_string(metrics[m]) # Empty /\ Reads("u64", to_string(metrics[m]))
        /\ Stored("u64", to_string(metrics[m])) = metrics[m]
    BY <2>2, NumbersAreRead
  <2>7. Says(row[i], tokens[i], metrics)
    BY <2>1, <2>5, <2>6 DEF Says, WellFormed
  <2> QED BY <2>4, <2>7
<1>4. ASSUME NEW f \in MetricsFields PROVE \E i \in 1 .. 10 : row[i] = f
  <2>1. PICK m \in Metrics : f = [key |-> m, field |-> m, reads |-> "u64"]
    BY DEF MetricsFields
  <2>2. PICK i \in 1 .. 10 : MetricsOrder[i] = m
    BY <1>2
  <2> QED BY <2>1, <2>2
<1>5. \A name \in DOMAIN NoMetrics : \E f \in MetricsFields : f.field = name
  <2>1. \A m \in Metrics : [key |-> m, field |-> m, reads |-> "u64"] \in MetricsFields
    BY DEF MetricsFields
  <2>2. DOMAIN NoMetrics = Metrics
    BY DEF NoMetrics
  <2> QED BY <2>1, <2>2
<1>6. Len(tokens) = 10 /\ 10 \in Nat
  OBVIOUS
<1>7. metrics = [name \in DOMAIN NoMetrics |-> metrics[name]]
  BY DEF NoMetrics
<1> HIDE DEF tokens, row
<1>8. ParseTokens(MetricsFields, NoMetrics, tokens) = metrics
  <2>1. Spells(MetricsFields, NoMetrics, tokens, 10, row, metrics)
    BY <1>3, <1>4, <1>5, <1>6, <1>7, MetricsDistinct DEF Spells
  <2> QED BY <2>1, ReadBack
<1>9. format_metrics_line(metrics).first = "METRICS" /\ format_metrics_line(metrics).tokens = tokens
  BY DEF format_metrics_line, Line, tokens
<1> QED BY <1>8, <1>9 DEF parse_metrics_line

\* A sequence of six and one of three are the nine.
LEMMA SixThenThree ==
  ASSUME NEW S, NEW s \in Seq(S), NEW r \in Seq(S), NEW t \in Seq(S),
         Len(s) = 6, Len(r) = 3, Len(t) = 9,
         r[1] = t[7], r[2] = t[8], r[3] = t[9], s[1] = t[1], s[2] = t[2], s[3] = t[3],
         s[4] = t[4], s[5] = t[5], s[6] = t[6]
  PROVE  s \o r = t
<1>1. /\ s \o r \in Seq(S) /\ Len(s \o r) = 9
      /\ \A n \in 1 .. 9 : (s \o r)[n] = IF n <= 6 THEN s[n] ELSE r[n - 6]
  <2>1. /\ s \o r \in Seq(S) /\ Len(s \o r) = Len(s) + Len(r)
        /\ \A n \in 1 .. Len(s) + Len(r) :
             (s \o r)[n] = IF n <= Len(s) THEN s[n] ELSE r[n - Len(s)]
    BY ConcatProperties
  <2>2. Len(s) + Len(r) = 9
    OBVIOUS
  <2> QED BY <2>1, <2>2
<1>2. ASSUME NEW n \in 1 .. 9 PROVE (s \o r)[n] = t[n]
  <2>1. CASE n <= 6
    <3>1. n \in {1, 2, 3, 4, 5, 6}
      BY <2>1
    <3> QED BY <1>1, <2>1, <3>1
  <2>2. CASE ~(n <= 6)
    <3>1. n = 7 \/ n = 8 \/ n = 9
      BY <2>2
    <3> QED BY <1>1, <2>2, <3>1
  <2> QED BY <2>1, <2>2
<1> QED BY <1>1, <1>2, SeqEqual

\* What make_status_line() of the simulator adds to its six tokens.
LEMMA SixAndThree ==
  ASSUME NEW a, NEW b, NEW c, NEW d, NEW e, NEW f, NEW g, NEW h, NEW i
  PROVE  /\ <<a, b, c, d, e, f>> \o <<>> = <<a, b, c, d, e, f>>
         /\ <<a, b, c, d, e, f>> \o <<g, h, i>> = <<a, b, c, d, e, f, g, h, i>>
<1> DEFINE S == {a, b, c, d, e, f, g, h, i}
<1>1. /\ <<a, b, c, d, e, f>> \in Seq(S) /\ <<g, h, i>> \in Seq(S)
      /\ <<a, b, c, d, e, f, g, h, i>> \in Seq(S)
  OBVIOUS
<1>2. <<a, b, c, d, e, f>> \o <<>> = <<a, b, c, d, e, f>>
  BY <1>1, ConcatEmptySeq
<1>3. PICK s, r, t : /\ s = <<a, b, c, d, e, f>> /\ r = <<g, h, i>>
                     /\ t = <<a, b, c, d, e, f, g, h, i>>
  OBVIOUS
<1>4. /\ s \in Seq(S) /\ r \in Seq(S) /\ t \in Seq(S)
      /\ Len(s) = 6 /\ Len(r) = 3 /\ Len(t) = 9
      /\ r[1] = t[7] /\ r[2] = t[8] /\ r[3] = t[9]
      /\ s[1] = t[1] /\ s[2] = t[2] /\ s[3] = t[3] /\ s[4] = t[4] /\ s[5] = t[5] /\ s[6] = t[6]
  BY <1>1, <1>3
<1> HIDE DEF S
<1>5. s \o r = t
  BY <1>4, SixThenThree
<1> QED BY <1>2, <1>3, <1>5

\* Either strangers are writing, or one of the programs has, and is understood.
ByStrangers ==
  /\ meant = Unknown /\ line = Line(line.first, line.tokens) /\ line.first \in FirstWords
  /\ line.tokens \in Seq(Foreign) /\ Len(line.tokens) <= LineLimit
ByPrograms ==
  /\ meant # Unknown /\ IsLine /\ Len(line.tokens) \in {6, 9, 10} /\ WritersAreUnderstood
LineInv == ByStrangers \/ ByPrograms

\* A line of the simulator without an id, or with a text for a number, is refused.
LEMMA UnreadableIsRejected ==
  ASSUME NEW l, Len(l.tokens) \in Nat, Len(l.tokens) >= 6,
         NEW device_id, NEW x, NEW y, NEW z, ~Readable(device_id, x, y, z),
         l.tokens[1] = Token("device_id", device_id), l.tokens[4] = Token("x", x),
         l.tokens[5] = Token("y", y), l.tokens[6] = Token("z", z)
  PROVE  parse_status_line(l) = Rejected
<1>1. \E i \in {1, 4, 5, 6} : ~Fits(StatusFields, l.tokens[i])
  <2>1. CASE device_id = Empty
    <3>1. ~Fits(StatusFields, l.tokens[1])
      BY <2>1 DEF Fits, WellFormed, Token
    <3> QED BY <3>1
  <2>2. ASSUME NEW axis \in {"x", "y", "z"}, NEW text, ~ParsesAsDouble(text),
               NEW i \in {4, 5, 6}, l.tokens[i] = Token(axis, text)
        PROVE  ~Fits(StatusFields, l.tokens[i])
    <3>1. PICK f \in StatusFields : f.key = axis /\ f.reads = "double"
      BY DEF StatusFields
    <3>2. ~Reads(f.reads, text)
      BY <3>1, <2>2 DEF Reads
    <3> QED BY <3>1, <3>2, <2>2 DEF Fits, Token
  <2>3. CASE device_id # Empty
    <3>1. ~ParsesAsDouble(x) \/ ~ParsesAsDouble(y) \/ ~ParsesAsDouble(z)
      BY <2>3 DEF Readable
    <3> QED BY <3>1, <2>2
  <2> QED BY <2>1, <2>3
<1>2. ~\A i \in 1 .. Len(l.tokens) : Fits(StatusFields, l.tokens[i])
  <2>1. {1, 4, 5, 6} \subseteq 1 .. Len(l.tokens)
    OBVIOUS
  <2> QED BY <1>1, <2>1
<1>3. Result(StatusFields, NoStatus, l.tokens, Len(l.tokens),
             ParseTokens(StatusFields, NoStatus, l.tokens))
  BY ParsedLine, StatusDistinct
<1>4. ParseTokens(StatusFields, NoStatus, l.tokens) = Rejected
  BY <1>2, <1>3 DEF Result
<1> QED BY <1>4 DEF parse_status_line

\* make_status_line() of the simulator, with and without ack=1, whatever the user
\* typed.
LEMMA SimulatorUnderstood == SimulatorWrites => ByPrograms'
<1> SUFFICES ASSUME SimulatorWrites PROVE ByPrograms'
  OBVIOUS
<1>1. PICK device_id \in Ids, x \in Coordinates, y \in Coordinates, z \in Coordinates,
           ack \in BOOLEAN, now \in Numbers :
         /\ line' = SimulatorLine(device_id, x, y, z, ack, now)
         /\ meant' = IF ~Readable(device_id, x, y, z) THEN Rejected
                     ELSE StatusOf(device_id, x, y, z, IF ack THEN 1 ELSE 0,
                                   IF ack THEN now ELSE 0, ack)
  BY DEF SimulatorWrites, StatusOf
<1>2. PICK l : l = SimulatorLine(device_id, x, y, z, ack, now)
  OBVIOUS
<1>3. /\ l = [first |-> l.first, tokens |-> l.tokens] /\ l.first = "STATUS"
      /\ Len(l.tokens) \in {6, 9} /\ DOMAIN l.tokens = 1 .. Len(l.tokens)
      /\ l.tokens[1] = Token("device_id", device_id) /\ l.tokens[4] = Token("x", x)
      /\ l.tokens[5] = Token("y", y) /\ l.tokens[6] = Token("z", z)
      /\ ack => l = Line("STATUS", NineTokens(device_id, x, y, z, 1, now))
      /\ ~ack => l = Line("STATUS", SixTokens(device_id, x, y, z))
  <2>1. CASE ack
    <3>1. SixTokens(device_id, x, y, z)
            \o <<Token("seq", to_string(1)), Token("sent_ms", to_string(now)), Token("ack", to_string(1))>>
          = NineTokens(device_id, x, y, z, 1, now)
      BY SixAndThree DEF SixTokens, NineTokens
    <3>2. l = Line("STATUS", NineTokens(device_id, x, y, z, 1, now))
      BY <1>2, <2>1, <3>1 DEF SimulatorLine, SixTokens
    <3>3. /\ l = [first |-> l.first, tokens |-> l.tokens] /\ l.first = "STATUS"
          /\ l.tokens = NineTokens(device_id, x, y, z, 1, now)
      BY <3>2 DEF Line
    <3>4. /\ Len(l.tokens) = 9 /\ DOMAIN l.tokens = 1 .. 9
          /\ l.tokens[1] = Token("device_id", device_id) /\ l.tokens[4] = Token("x", x)
          /\ l.tokens[5] = Token("y", y) /\ l.tokens[6] = Token("z", z)
      BY <3>3 DEF NineTokens
    <3> QED BY <2>1, <3>2, <3>3, <3>4
  <2>2. CASE ~ack
    <3>1. l = Line("STATUS", SixTokens(device_id, x, y, z))
      BY <1>2, <2>2, SixAndThree DEF SimulatorLine, SixTokens
    <3>2. /\ l = [first |-> l.first, tokens |-> l.tokens] /\ l.first = "STATUS"
          /\ l.tokens = SixTokens(device_id, x, y, z)
      BY <3>1 DEF Line
    <3>3. /\ Len(l.tokens) = 6 /\ DOMAIN l.tokens = 1 .. 6
          /\ l.tokens[1] = Token("device_id", device_id) /\ l.tokens[4] = Token("x", x)
          /\ l.tokens[5] = Token("y", y) /\ l.tokens[6] = Token("z", z)
      BY <3>2 DEF SixTokens
    <3> QED BY <2>2, <3>1, <3>2, <3>3
  <2> QED BY <2>1, <2>2
<1>4. parse_status_line(l) = meant' /\ meant' # Unknown
  <2>1. CASE Readable(device_id, x, y, z)
    <3>1. device_id # Empty /\ IsDouble(x) /\ IsDouble(y) /\ IsDouble(z)
      <4>1. ~ParsesAsDouble(Empty)
        BY DEF ParsesAsDouble, Empty, word
      <4>2. /\ device_id # Empty
            /\ ParsesAsDouble(x) /\ ParsesAsDouble(y) /\ ParsesAsDouble(z)
        BY <2>1 DEF Readable
      <4> QED BY <4>1, <4>2 DEF IsDouble
    <3>2. 1 \in U64 /\ now \in U64
      BY ProtocolAssumption, WritersAssumption DEF U64
    <3>3. meant' # Unknown
      BY <1>1, <2>1 DEF StatusOf, Unknown
    <3>4. CASE ack
      <4>1. meant' = StatusOf(device_id, x, y, z, 1, now, TRUE)
        BY <1>1, <2>1, <3>4
      <4> QED BY <1>3, <3>1, <3>2, <3>3, <3>4, <4>1, NineAreRead
    <3>5. CASE ~ack
      <4>1. meant' = StatusOf(device_id, x, y, z, 0, 0, FALSE)
        BY <1>1, <2>1, <3>5
      <4> QED BY <1>3, <3>1, <3>3, <3>5, <4>1, SixAreRead
    <3> QED BY <3>4, <3>5
  <2>2. CASE ~Readable(device_id, x, y, z)
    <3>1. meant' = Rejected /\ Rejected # Unknown
      BY <1>1, <2>2 DEF Rejected, Unknown
    <3>2. Len(l.tokens) \in Nat /\ Len(l.tokens) >= 6
      BY <1>3
    <3>3. parse_status_line(l) = Rejected
      BY <1>3, <2>2, <3>2, UnreadableIsRejected
    <3> QED BY <3>1, <3>3
  <2> QED BY <2>1, <2>2
<1>5. line' = l
  BY <1>1, <1>2
<1>6. parse_status_line(line)' = meant'
  BY <1>4, <1>5 DEF parse_status_line
<1> QED BY <1>3, <1>4, <1>5, <1>6 DEF ByPrograms, IsLine, FirstWords, WritersAreUnderstood

\* make_status_line() of the load generator.
LEMMA LoadgenUnderstood == LoadgenWrites => ByPrograms'
<1> SUFFICES ASSUME LoadgenWrites PROVE ByPrograms'
  OBVIOUS
<1>1. PICK index \in Indices, sequence \in U64, sent_ms \in Numbers :
         /\ line' = LoadgenLine(index, sequence, sent_ms)
         /\ meant' = [device_id |-> [word("load-") EXCEPT !.digits = Numeral[index]],
                      state |-> word("OK"), battery_percent |-> 87,
                      x |-> to_string(index % 50), y |-> to_string((index \div 50) % 50),
                      z |-> to_string(index % 10), sequence |-> sequence,
                      sent_ms |-> sent_ms, ack_requested |-> TRUE]
  BY DEF LoadgenWrites
<1>2. PICK device_id : device_id = [word("load-") EXCEPT !.digits = Numeral[index]]
  OBVIOUS
<1>3. device_id # Empty
  BY <1>2 DEF word, Empty
<1>4. index % 50 \in Nat /\ (index \div 50) % 50 \in Nat /\ index % 10 \in Nat
  <2>1. index \in Nat
    BY WritersAssumption
  <2>2. index \div 50 \in Nat
    BY <2>1
  <2> QED BY <2>1, <2>2
<1>5. PICK x, y, z : /\ x = to_string(index % 50) /\ y = to_string((index \div 50) % 50)
                     /\ z = to_string(index % 10)
  OBVIOUS
<1>6. IsDouble(x) /\ IsDouble(y) /\ IsDouble(z)
  <2>1. \A n \in Nat : IsDouble(to_string(n))
    BY NumbersRoundTrip DEF Written, to_string, Empty, word, ParsesAsDouble, IsDouble
  <2> QED BY <1>4, <1>5, <2>1
<1>7. sent_ms \in U64
  BY WritersAssumption
<1>8. line' = Line("STATUS", NineTokens(device_id, x, y, z, sequence, sent_ms))
  BY <1>1, <1>2, <1>5 DEF LoadgenLine, NineTokens
<1>9. meant' = StatusOf(device_id, x, y, z, sequence, sent_ms, TRUE)
  BY <1>1, <1>2, <1>5 DEF StatusOf
<1>10. parse_status_line(line)' = meant'
  <2>1. PICK l : l = Line("STATUS", NineTokens(device_id, x, y, z, sequence, sent_ms))
    OBVIOUS
  <2>2. parse_status_line(l) = meant'
    BY <1>3, <1>6, <1>7, <1>9, <2>1, NineAreRead
  <2> QED BY <1>8, <2>1, <2>2 DEF parse_status_line
<1>11. /\ line'.first = "STATUS" /\ line' = [first |-> line'.first, tokens |-> line'.tokens]
       /\ Len(line'.tokens) = 9 /\ DOMAIN line'.tokens = 1 .. 9
  BY <1>8 DEF Line, NineTokens
<1>12. meant' # Unknown
  BY <1>9 DEF StatusOf, Unknown
<1> QED BY <1>10, <1>11, <1>12 DEF ByPrograms, IsLine, FirstWords, WritersAreUnderstood

\* format_metrics_line() of the server.
LEMMA ServerUnderstood == ServerWrites => ByPrograms'
<1> SUFFICES ASSUME ServerWrites PROVE ByPrograms'
  OBVIOUS
<1>1. PICK metrics \in [Metrics -> Numbers] :
         line' = format_metrics_line(metrics) /\ meant' = metrics
  BY DEF ServerWrites
<1>3. metrics \in [Metrics -> U64]
  BY WritersAssumption
<1>4. parse_metrics_line(line)' = meant'
  BY <1>1, <1>3, MetricsAreRead DEF parse_metrics_line
<1>5. /\ line'.first = "METRICS" /\ line' = [first |-> line'.first, tokens |-> line'.tokens]
      /\ Len(line'.tokens) = 10 /\ DOMAIN line'.tokens = 1 .. 10
  BY <1>1 DEF format_metrics_line, Line
<1>6. meant' # Unknown
  <2>1. DOMAIN metrics = Metrics /\ "unknown" \notin Metrics /\ "unknown" \in DOMAIN Unknown
    BY <1>3 DEF Metrics, Unknown
  <2> QED BY <1>1, <2>1
<1> QED BY <1>4, <1>5, <1>6 DEF ByPrograms, IsLine, FirstWords, WritersAreUnderstood

\* Every line is a stranger's or one of ours, and what is ours is read as it was
\* meant (parse_status_line, parse_metrics_line).
THEOREM LineInvariant == Spec => []LineInv
<1>1. Init => LineInv
  <2> SUFFICES ASSUME Init PROVE ByStrangers
    BY DEF LineInv
  <2>1. PICK first \in FirstWords : line = Line(first, <<>>)
    BY DEF Init, FirstWords
  <2>2. line.first = first /\ line.tokens = <<>>
    BY <2>1 DEF Line
  <2>3. line.tokens \in Seq(Foreign) /\ Len(line.tokens) <= LineLimit
    BY <2>2, ProtocolAssumption
  <2> QED BY <2>1, <2>2, <2>3 DEF Init, ByStrangers
<1>2. LineInv /\ [Next]_vars => LineInv'
  <2> SUFFICES ASSUME LineInv, [Next]_vars PROVE LineInv'
    OBVIOUS
  <2>1. CASE WriteToken
    <3>1. meant = Unknown /\ meant' = meant /\ Len(line.tokens) < LineLimit
      BY <2>1 DEF WriteToken
    <3>2. PICK token \in Foreign : line' = [line EXCEPT !.tokens = Append(@, token)]
      BY <2>1 DEF WriteToken
    <3>3. ByStrangers
      BY <3>1 DEF LineInv, ByPrograms
    <3>4. PICK first, tokens : /\ line = Line(first, tokens) /\ first \in FirstWords
                               /\ tokens \in Seq(Foreign) /\ Len(tokens) < LineLimit
      BY <3>1, <3>3 DEF ByStrangers
    <3>5. line' = Line(first, Append(tokens, token))
      BY <3>2, <3>4 DEF Line
    <3>6. line'.first = first /\ line'.tokens = Append(tokens, token)
      BY <3>5 DEF Line
    <3>7. Append(tokens, token) \in Seq(Foreign) /\ Len(Append(tokens, token)) <= LineLimit
      BY <3>4, ProtocolAssumption
    <3> QED BY <3>1, <3>4, <3>5, <3>6, <3>7 DEF LineInv, ByStrangers
  <2>2. CASE SimulatorWrites
    BY <2>2, SimulatorUnderstood DEF LineInv
  <2>3. CASE LoadgenWrites
    BY <2>3, LoadgenUnderstood DEF LineInv
  <2>4. CASE ServerWrites
    BY <2>4, ServerUnderstood DEF LineInv
  <2>5. CASE UNCHANGED vars
    BY <2>5 DEF vars, LineInv, ByStrangers, ByPrograms, IsLine, WritersAreUnderstood,
                parse_status_line, parse_metrics_line
  <2> QED BY <2>1, <2>2, <2>3, <2>4, <2>5 DEF Next
<1> QED BY <1>1, <1>2, PTL DEF Spec

\* Whoever wrote it, it is a line.
LEMMA ItIsALine == LineInv => IsLine
<1> SUFFICES ASSUME ByStrangers PROVE IsLine
  BY DEF LineInv, ByPrograms
<1> QED BY DEF ByStrangers, Line, IsLine

\* Lines stay within their bound, and parse_metrics_line() gives numbers or nothing.
THEOREM LinesAreTyped == Spec => []TypeOK
<1>1. LineInv => TypeOK
  <2> SUFFICES ASSUME LineInv PROVE TypeOK
    OBVIOUS
  <2>1. IsLine
    BY ItIsALine
  <2>2. Len(line.tokens) <= LineLimit \/ Len(line.tokens) \in {6, 9, 10}
    BY DEF LineInv, ByStrangers, ByPrograms
  <2> QED BY <2>1, <2>2, MetricsAreNumbers DEF TypeOK, IsLine, FirstWords
<1> QED BY <1>1, LineInvariant, PTL

\* Whatever a stranger writes, parse_status_line() takes it if and only if every token
\* is in order and a device and a state are named, and then each field is what its last
\* token says: for lines of every length and tokens of every kind.
THEOREM LastTokenWins == Spec => []ParserReadsTheLine
<1>1. LineInv => ParserReadsTheLine
  BY ItIsALine, StatusIsRead
<1> QED BY <1>1, LineInvariant, PTL

\* What the simulator, the load generator and the server write is read as it was meant:
\* whatever a user types, for every client index, sequence number and time, and for
\* all ten counters together, at integers of every width that holds the constants in
\* the lines.
THEOREM WrittenIsRead == Spec => []WritersAreUnderstood
<1>1. LineInv => WritersAreUnderstood
  BY DEF LineInv, ByStrangers, ByPrograms, WritersAreUnderstood
<1> QED BY <1>1, LineInvariant, PTL

-----------------------------------------------------------------------------
(* MqttBridge: where it stands, and the order of the statuses.             *)

\* Where main is in the life of the bridge says what there is: the client from
\* mosquitto_new() to mosquitto_destroy(), the thread at most from start() to
\* mosquitto_loop_stop().
Stages ==
  /\ bridge = "start" => client_ = "null" /\ ~enabled_ /\ ~thread
  /\ bridge \in {"connect", "loop"} => client_ = "live" /\ ~enabled_ /\ ~thread
  /\ bridge \in {"stop", "disconnect", "destroy"} => client_ = "live"
  /\ bridge \in {"start", "connect"} => sock = "closed"
  /\ client_ = "live" => lib
  /\ client_ = "destroyed" => bridge = "ended"
  /\ thread => client_ = "live" /\ enabled_ /\ bridge \in {"serving", "stop"}

\* What the broker got, and behind it what waits, is in the order of the calls.
Increasing(s) == \A i, j \in DOMAIN s : i < j => s[i] < s[j]
Behind(s, t) == \A i \in DOMAIN s, j \in DOMAIN t : s[i] < t[j]
UpTo(s, n) == \A i \in DOMAIN s : s[i] <= n
SentInOrder ==
  /\ Increasing(broker) /\ Increasing(out) /\ Behind(broker, out)
  /\ UpTo(broker, handled) /\ UpTo(out, handled)

BridgeInv == BridgeTypeOK /\ Stages /\ DisabledIsQuiet /\ SentInOrder

-----------------------------------------------------------------------------
(* Sequences of statuses in order.                                         *)

\* An empty sequence is in order.
LEMMA EmptyInOrder ==
  ASSUME NEW n \in Nat, NEW s \in Seq(Status)
  PROVE  <<>> \in Seq(Status) /\ Increasing(<<>>) /\ Behind(s, <<>>) /\ UpTo(<<>>, n)
  BY DEF Increasing, Behind, UpTo

\* The next number goes to the end of both sequences' order.
LEMMA AppendInOrder ==
  ASSUME NEW n \in Nat, n + 1 \in Status, NEW s \in Seq(Status), NEW t \in Seq(Status),
         Increasing(s), UpTo(s, n), UpTo(t, n), Behind(t, s)
  PROVE  /\ Append(s, n + 1) \in Seq(Status)
         /\ Increasing(Append(s, n + 1)) /\ UpTo(Append(s, n + 1), n + 1)
         /\ Behind(t, Append(s, n + 1))
<1>1. Append(s, n + 1) \in Seq(Status) /\ Len(s) \in Nat
  OBVIOUS
<1>2. /\ DOMAIN s = 1 .. Len(s) /\ DOMAIN Append(s, n + 1) = 1 .. Len(s) + 1
      /\ \A i \in DOMAIN Append(s, n + 1) :
           Append(s, n + 1)[i] = IF i <= Len(s) THEN s[i] ELSE n + 1
  OBVIOUS
<1>3. \A i \in DOMAIN s : s[i] \in Int
  BY BridgeAssumption DEF Status
<1>4. \A i \in DOMAIN t : t[i] \in Int
  BY BridgeAssumption DEF Status
<1>5. Increasing(Append(s, n + 1))
  BY <1>1, <1>2, <1>3 DEF Increasing, UpTo
<1>6. UpTo(Append(s, n + 1), n + 1)
  BY <1>1, <1>2, <1>3 DEF UpTo
<1>7. Behind(t, Append(s, n + 1))
  BY <1>1, <1>2, <1>3, <1>4 DEF Behind, UpTo
<1> QED BY <1>1, <1>5, <1>6, <1>7

\* The first k of what waits may go behind what was sent.
LEMMA PrefixMoves ==
  ASSUME NEW n \in Nat, NEW s \in Seq(Status), NEW t \in Seq(Status),
         NEW k \in 0 .. Len(t), Increasing(s), Increasing(t), Behind(s, t),
         UpTo(s, n), UpTo(t, n)
  PROVE  /\ s \o SubSeq(t, 1, k) \in Seq(Status)
         /\ Increasing(s \o SubSeq(t, 1, k)) /\ UpTo(s \o SubSeq(t, 1, k), n)
<1> DEFINE p == SubSeq(t, 1, k)
<1>1. p \in Seq(Status) /\ Len(p) = k /\ k \in Nat /\ Len(s) \in Nat /\ k <= Len(t)
  OBVIOUS
<1>2. \A j \in 1 .. k : j \in DOMAIN t /\ p[j] = t[j]
  OBVIOUS
<1> HIDE DEF p
<1>3. s \o p \in Seq(Status) /\ DOMAIN (s \o p) = 1 .. Len(s) + k
  BY <1>1
<1>4. \A i \in 1 .. Len(s) + k :
        (s \o p)[i] = IF i <= Len(s) THEN s[i] ELSE p[i - Len(s)]
  BY <1>1
<1>5. Increasing(s \o p)
  <2> SUFFICES ASSUME NEW i \in 1 .. Len(s) + k, NEW j \in 1 .. Len(s) + k, i < j
               PROVE  (s \o p)[i] < (s \o p)[j]
    BY <1>3 DEF Increasing
  <2>1. CASE j <= Len(s)
    <3>1. i \in DOMAIN s /\ j \in DOMAIN s /\ i <= Len(s)
      BY <1>1, <2>1
    <3> QED BY <1>4, <2>1, <3>1 DEF Increasing
  <2>2. CASE i <= Len(s) /\ j > Len(s)
    <3>1. j - Len(s) \in 1 .. k /\ i \in DOMAIN s /\ ~(j <= Len(s))
      BY <1>1, <2>2
    <3>2. (s \o p)[i] = s[i] /\ (s \o p)[j] = t[j - Len(s)]
      BY <1>2, <1>4, <2>2, <3>1
    <3> QED BY <1>2, <3>1, <3>2 DEF Behind
  <2>3. CASE i > Len(s)
    <3>1. i - Len(s) \in 1 .. k /\ j - Len(s) \in 1 .. k /\ i - Len(s) < j - Len(s)
          /\ ~(i <= Len(s)) /\ ~(j <= Len(s))
      BY <1>1, <2>3
    <3>2. (s \o p)[i] = t[i - Len(s)] /\ (s \o p)[j] = t[j - Len(s)]
      BY <1>2, <1>4, <3>1
    <3> QED BY <1>2, <3>1, <3>2 DEF Increasing
  <2> QED BY <1>1, <2>1, <2>2, <2>3
<1>6. UpTo(s \o p, n)
  <2> SUFFICES ASSUME NEW i \in 1 .. Len(s) + k
               PROVE  (s \o p)[i] <= n
    BY <1>3 DEF UpTo
  <2>1. CASE i <= Len(s)
    BY <1>1, <1>4, <2>1 DEF UpTo
  <2>2. CASE i > Len(s)
    <3>1. i - Len(s) \in 1 .. k /\ ~(i <= Len(s))
      BY <1>1, <2>2
    <3> QED BY <1>2, <1>4, <3>1 DEF UpTo
  <2> QED BY <1>1, <2>1, <2>2
<1> QED BY <1>3, <1>5, <1>6 DEF p

\* One that is sent leaves the head of what waits.
LEMMA HeadMoves ==
  ASSUME NEW n \in Nat, NEW s \in Seq(Status), NEW t \in Seq(Status), t # <<>>,
         Increasing(s), Increasing(t), Behind(s, t), UpTo(s, n), UpTo(t, n)
  PROVE  /\ Append(s, Head(t)) \in Seq(Status) /\ Tail(t) \in Seq(Status)
         /\ Increasing(Append(s, Head(t))) /\ Increasing(Tail(t))
         /\ Behind(Append(s, Head(t)), Tail(t))
         /\ UpTo(Append(s, Head(t)), n) /\ UpTo(Tail(t), n)
<1>1. Head(t) \in Status /\ Head(t) = t[1] /\ 1 \in DOMAIN t /\ Len(s) \in Nat
  OBVIOUS
<1>2. Tail(t) \in Seq(Status)
  OBVIOUS
<1>3. \A j \in DOMAIN Tail(t) : j \in Nat /\ j >= 1 /\ j + 1 \in DOMAIN t /\ Tail(t)[j] = t[j + 1]
  OBVIOUS
<1>4. /\ Append(s, Head(t)) \in Seq(Status)
      /\ DOMAIN s = 1 .. Len(s) /\ DOMAIN Append(s, Head(t)) = 1 .. Len(s) + 1
      /\ \A i \in DOMAIN Append(s, Head(t)) :
           Append(s, Head(t))[i] = IF i <= Len(s) THEN s[i] ELSE t[1]
  BY <1>1
<1>5. Increasing(Append(s, Head(t)))
  BY <1>1, <1>4 DEF Increasing, Behind
<1>6. UpTo(Append(s, Head(t)), n)
  BY <1>1, <1>4 DEF UpTo
<1>7. Increasing(Tail(t)) /\ UpTo(Tail(t), n)
  BY <1>3 DEF Increasing, UpTo
<1>8. Behind(Append(s, Head(t)), Tail(t))
  <2>1. \A j \in DOMAIN Tail(t) : t[1] < Tail(t)[j]
    BY <1>1, <1>3 DEF Increasing
  <2>2. Behind(s, Tail(t))
    BY <1>3 DEF Behind
  <2> QED BY <1>1, <1>4, <2>1, <2>2 DEF Behind
<1> QED BY <1>2, <1>4, <1>5, <1>6, <1>7, <1>8

-----------------------------------------------------------------------------
\* The bridge begins in order.
LEMMA BridgeInvInit == BridgeInit => BridgeInv
<1> SUFFICES ASSUME BridgeInit PROVE BridgeInv
  OBVIOUS
<1> USE BridgeAssumption DEF BridgeInit
<1>1. BridgeTypeOK
  <2>1. enabled_ = FALSE /\ lib = FALSE /\ thread = FALSE
    OBVIOUS
  <2>2. <<>> \in Seq(Status) /\ 0 \in 0 .. PublishLimit
    OBVIOUS
  <2> QED BY <2>1, <2>2 DEF BridgeTypeOK
<1>2. Stages /\ DisabledIsQuiet
  BY DEF Stages, DisabledIsQuiet
<1>3. SentInOrder
  BY DEF SentInOrder, Increasing, Behind, UpTo
<1> QED BY <1>1, <1>2, <1>3 DEF BridgeInv

\* A step that moves no status keeps their order.
LEMMA QueuesUntouched ==
  ASSUME SentInOrder, UNCHANGED <<out, broker, handled>>
  PROVE  SentInOrder'
BY DEF SentInOrder

\* Nor does one that forgets what waits.
LEMMA QueueForgotten ==
  ASSUME BridgeTypeOK, SentInOrder, out' \in {<<>>, out}, UNCHANGED <<broker, handled>>
  PROVE  out' \in Seq(Status) /\ SentInOrder'
<1>1. CASE out' = out
  BY <1>1 DEF BridgeTypeOK, SentInOrder
<1>2. CASE out' = <<>>
  BY <1>2, EmptyInOrder DEF BridgeTypeOK, SentInOrder
<1> QED BY <1>1, <1>2

\* Every step keeps the order, and the bridge with its client.
LEMMA BridgeInvStep == BridgeInv /\ [BridgeNext]_bridgeVars => BridgeInv'
<1> SUFFICES ASSUME BridgeInv, [BridgeNext]_bridgeVars
             PROVE  BridgeInv'
  OBVIOUS
<1> USE DEF BridgeInv
<1> DEFINE Rest == Stages /\ DisabledIsQuiet
<1>1. CASE StartWithoutMqtt
  <2>1. BridgeTypeOK' /\ Rest'
    BY <1>1 DEF StartWithoutMqtt, libVars, BridgeTypeOK, Stages, DisabledIsQuiet
  <2>2. SentInOrder'
    BY <1>1, QueuesUntouched DEF StartWithoutMqtt, libVars
  <2> QED BY <2>1, <2>2
<1>2. CASE StartNew
  <2>1. BridgeTypeOK' /\ Rest'
    BY <1>2 DEF StartNew, libVars, BridgeTypeOK, Stages, DisabledIsQuiet
  <2>2. SentInOrder'
    BY <1>2, QueuesUntouched DEF StartNew, libVars
  <2> QED BY <2>1, <2>2
<1>3. CASE StartConnects
  <2>1. BridgeTypeOK' /\ Rest'
    BY <1>3 DEF StartConnects, BridgeTypeOK, Stages, DisabledIsQuiet
  <2>2. SentInOrder'
    BY <1>3, QueuesUntouched DEF StartConnects
  <2> QED BY <2>1, <2>2
<1>4. CASE StartLoop
  <2>1. BridgeTypeOK' /\ Rest'
    <3>1. CASE UNCHANGED <<thread, enabled_>>
      BY <1>4, <3>1 DEF StartLoop, BridgeTypeOK, Stages, DisabledIsQuiet
    <3>2. CASE thread' = TRUE /\ enabled_' = TRUE
      BY <1>4, <3>2 DEF StartLoop, BridgeTypeOK, Stages, DisabledIsQuiet
    <3> QED BY <1>4, <3>1, <3>2 DEF StartLoop
  <2>2. SentInOrder'
    BY <1>4, QueuesUntouched DEF StartLoop
  <2> QED BY <2>1, <2>2
<1>5. CASE PublishStatus
  <2>1. handled \in Nat /\ handled' = handled + 1 /\ handled' \in 0 .. PublishLimit
        /\ handled + 1 \in Status
    BY <1>5, BridgeAssumption DEF PublishStatus, BridgeTypeOK, Status
  <2>2. UpTo(broker, handled') /\ UpTo(out, handled')
    <3>1. \A i \in DOMAIN broker : broker[i] \in Int
      BY BridgeAssumption DEF BridgeTypeOK, Status
    <3>2. \A i \in DOMAIN out : out[i] \in Int
      BY BridgeAssumption DEF BridgeTypeOK, Status
    <3> QED BY <2>1, <3>1, <3>2 DEF SentInOrder, UpTo
  <2>3. out' \in Seq(Status) /\ SentInOrder'
    <3>1. CASE out' = out
      BY <1>5, <2>2, <3>1 DEF PublishStatus, SentInOrder, BridgeTypeOK
    <3>2. CASE out' = Append(out, handled')
      <4>1. /\ Append(out, handled + 1) \in Seq(Status)
            /\ Increasing(Append(out, handled + 1))
            /\ UpTo(Append(out, handled + 1), handled + 1)
            /\ Behind(broker, Append(out, handled + 1))
        BY <2>1, AppendInOrder DEF SentInOrder, BridgeTypeOK
      <4> QED BY <1>5, <2>1, <2>2, <3>2, <4>1 DEF PublishStatus, SentInOrder
    <3> QED BY <1>5, <3>1, <3>2 DEF PublishStatus
  <2>4. BridgeTypeOK' /\ Rest'
    BY <1>5, <2>1, <2>3 DEF PublishStatus, BridgeTypeOK, Stages, DisabledIsQuiet
  <2> QED BY <2>3, <2>4
<1>6. CASE ServingEnds
  <2>1. BridgeTypeOK' /\ Rest'
    BY <1>6 DEF ServingEnds, libVars, BridgeTypeOK, Stages, DisabledIsQuiet
  <2>2. SentInOrder'
    BY <1>6, QueuesUntouched DEF ServingEnds, libVars
  <2> QED BY <2>1, <2>2
<1>7. CASE LoopStop
  <2>1. BridgeTypeOK' /\ Rest'
    BY <1>7 DEF LoopStop, BridgeTypeOK, Stages, DisabledIsQuiet
  <2>2. SentInOrder'
    BY <1>7, QueuesUntouched DEF LoopStop
  <2> QED BY <2>1, <2>2
<1>8. CASE Disconnects
  <2>1. PICK n \in 0 .. Len(out) : broker' = broker \o SubSeq(out, 1, n)
    BY <1>8 DEF Disconnects
  <2>2. out \in Seq(Status) /\ broker \in Seq(Status) /\ handled \in Nat
    BY BridgeAssumption DEF BridgeTypeOK
  <2>3. broker' \in Seq(Status) /\ Increasing(broker') /\ UpTo(broker', handled)
    BY <2>1, <2>2, PrefixMoves DEF SentInOrder
  <2>4. out' = <<>> /\ handled' = handled
    BY <1>8 DEF Disconnects
  <2>5. out' \in Seq(Status) /\ SentInOrder'
    BY <2>2, <2>3, <2>4, EmptyInOrder DEF SentInOrder
  <2>6. ~enabled_ => broker' = broker
    BY <2>1, <2>2 DEF DisabledIsQuiet
  <2>7. BridgeTypeOK' /\ Rest'
    BY <1>8, <2>3, <2>4, <2>5, <2>6 DEF Disconnects, BridgeTypeOK, Stages,
       DisabledIsQuiet
  <2> QED BY <2>5, <2>7
<1>9. CASE Destroy
  <2>1. BridgeTypeOK' /\ Rest'
    BY <1>9 DEF Destroy, libVars, BridgeTypeOK, Stages, DisabledIsQuiet
  <2>2. SentInOrder'
    BY <1>9, QueuesUntouched DEF Destroy, libVars
  <2> QED BY <2>1, <2>2
<1>10. CASE Connack
  <2>1. out' \in Seq(Status) /\ SentInOrder'
    BY <1>10, QueueForgotten DEF Connack
  <2>2. BridgeTypeOK' /\ Rest'
    BY <1>10, <2>1 DEF Connack, BridgeTypeOK, Stages, DisabledIsQuiet
  <2> QED BY <2>1, <2>2
<1>11. CASE Sends
  <2>1. out' = Tail(out) /\ broker' = Append(broker, Head(out)) /\ out # <<>>
        /\ handled' = handled
    BY <1>11 DEF Sends, Qos
  <2>2. broker' \in Seq(Status) /\ out' \in Seq(Status) /\ SentInOrder'
    <3>1. out \in Seq(Status) /\ broker \in Seq(Status) /\ handled \in Nat
      BY BridgeAssumption DEF BridgeTypeOK
    <3> QED BY <2>1, <3>1, HeadMoves DEF SentInOrder
  <2>3. BridgeTypeOK' /\ Rest'
    BY <1>11, <2>2 DEF Sends, BridgeTypeOK, Stages, DisabledIsQuiet
  <2> QED BY <2>2, <2>3
<1>12. CASE Loses
  <2>1. out' \in Seq(Status) /\ SentInOrder'
    BY <1>12, QueueForgotten DEF Loses
  <2>2. BridgeTypeOK' /\ Rest'
    BY <1>12, <2>1 DEF Loses, BridgeTypeOK, Stages, DisabledIsQuiet
  <2> QED BY <2>1, <2>2
<1>13. CASE Reconnects
  <2>1. BridgeTypeOK' /\ Rest'
    BY <1>13 DEF Reconnects, BridgeTypeOK, Stages, DisabledIsQuiet
  <2>2. SentInOrder'
    BY <1>13, QueuesUntouched DEF Reconnects
  <2> QED BY <2>1, <2>2
<1>14. CASE UNCHANGED bridgeVars
  <2>1. BridgeTypeOK' /\ Rest'
    BY <1>14 DEF bridgeVars, libVars, BridgeTypeOK, Stages, DisabledIsQuiet
  <2>2. SentInOrder'
    BY <1>14, QueuesUntouched DEF bridgeVars, libVars
  <2> QED BY <2>1, <2>2
<1> QED
  BY <1>1, <1>2, <1>3, <1>4, <1>5, <1>6, <1>7, <1>8, <1>9, <1>10, <1>11, <1>12, <1>13,
     <1>14 DEF BridgeNext, Start, Destructor, Library

\* The bridge is in order at all times.
LEMMA BridgeInvariant == BridgeSpec => []BridgeInv
BY BridgeInvInit, BridgeInvStep, PTL DEF BridgeSpec

-----------------------------------------------------------------------------
(* The theorems.                                                           *)

\* Every variable of the bridge has its type, at every moment.
THEOREM BridgeTypeCorrect == BridgeSpec => []BridgeTypeOK
<1>1. BridgeInv => BridgeTypeOK
  BY DEF BridgeInv
<1> QED BY <1>1, BridgeInvariant, PTL

\* publish_status and the library's thread, over every loss of the connection and
\* the destructor: the broker gets the statuses in order and none twice.
THEOREM PublishedInOrderOnce == BridgeSpec => []AtMostOnceInOrder
<1>1. BridgeInv => AtMostOnceInOrder
  BY DEF BridgeInv, SentInOrder, Increasing, AtMostOnceInOrder
<1> QED BY <1>1, BridgeInvariant, PTL

\* The library's thread runs no callback on a client that is not there.
THEOREM CallbacksHaveClient == BridgeSpec => []ThreadHasClient
<1>1. BridgeInv => ThreadHasClient
  BY DEF BridgeInv, Stages, ThreadHasClient
<1> QED BY <1>1, BridgeInvariant, PTL

\* A start() that failed behind mosquitto_new() leaves a bridge that queues
\* nothing.
THEOREM FailedStartIsQuiet == BridgeSpec => []DisabledIsQuiet
<1>1. BridgeInv => DisabledIsQuiet
  BY DEF BridgeInv
<1> QED BY <1>1, BridgeInvariant, PTL
=============================================================================
