---------------------------- MODULE LoadgenProofs ---------------------------
(***************************************************************************)
(* What the load generator promises for every number of connections, every *)
(* rate and duration, every batch size and every choice of faults.         *)
(***************************************************************************)
EXTENDS Loadgen, FiniteSetTheorems, FunctionTheorems, SequenceTheorems, TLAPS

USE DEF loopVars, countVars, netVars

Client == [phase : Phases, sequence : Nat, receive_buffer : Seq(Chunk)]
N == Cardinality(Clients)

\* The iteration order lists every client once.
OrderOK ==
  /\ order \in [1 .. N -> Clients]
  /\ \A i, j \in 1 .. N : order[i] = order[j] => i = j

\* The types, with the maps as functions, and the rate.
Typed ==
  /\ pc \in {"connect", "handshakes", "hevents", "loop", "send", "sent", "poll",
             "acks", "done", "aborted"}
  /\ Open \subseteq Clients /\ clients \in [Open -> Client]
  /\ sent \in Nat /\ acked \in Nat /\ errors \in Nat
  /\ next_client_index = sent
  /\ send_credit \in Nat /\ granted \in 0 .. Quota /\ sent + send_credit = granted
  /\ pc = "sent" => send_credit > 0
  /\ in_time \in BOOLEAN /\ over \in BOOLEAN
  /\ DOMAIN events \subseteq Open /\ events \in [DOMAIN events -> SUBSET {"in", "out", "err"}]
  /\ link \in [Clients -> {"none", "syn", "up", "eof", "reset"}]
  /\ reply \in [Clients -> Seq(Chunk)] /\ inbox \in [Clients -> Seq(Chunk)]

\* Nothing is sent before the handshakes are over, nothing is left at the end,
\* and a client counts its own share of the reports.
Books ==
  /\ \A c \in Open : clients[c].sequence <= Issued
  /\ pc \in {"connect", "handshakes", "hevents"} => sent = 0 /\ acked = 0 /\ Waiting = {}
  /\ pc \notin {"hevents", "acks"} => DOMAIN events = {}
  /\ pc = "done" => Open = {} /\ sent = acked

\* A connection has been up once before its client is ready or waits.
WasUp == {"up", "eof", "reset"}
Wire ==
  /\ \A c \in Open : link[c] # "none"
  /\ \A c \in Open : clients[c].phase # "Connecting" => link[c] \in WasUp
  /\ \A c \in DOMAIN events : "out" \in events[c] => link[c] \in WasUp
  /\ \A c \in Clients \ Open : reply[c] = <<>> /\ inbox[c] = <<>>

\* While no connection was lost: all clients are in the map once the loop is
\* reached, and those before the turn have sent once more than the others.
Connected == {"handshakes", "hevents", "loop", "send", "sent", "poll", "acks"}
Lead(i, j) == IF i <= Issued % N /\ Issued % N < j THEN 1 ELSE 0
Turns ==
  errors = 0 =>
    /\ pc \in Connected => Open = Clients
    /\ \A i, j \in 1 .. N : i < j /\ order[i] \in Open /\ order[j] \in Open =>
         clients[order[i]].sequence = clients[order[j]].sequence + Lead(i, j)

\* The invariant that the theorems of this module follow from.
Inv ==
  /\ OrderOK /\ Typed /\ Books /\ ReportsAccounted
  /\ Wire /\ AckMatchesReport
  /\ Turns

-----------------------------------------------------------------------------
(* Division: next_client_index % clients.size().                           *)

\* Quotient and remainder, as the rotation uses them.
LEMMA DivMod ==
  ASSUME NEW n \in Nat, NEW k \in Nat \ {0}
  PROVE  /\ n % k \in 0 .. k - 1 /\ n \div k \in Nat
         /\ n = k * (n \div k) + (n % k)
  OBVIOUS

\* A multiple of k that is closer to zero than k is zero.
LEMMA SmallMultiple ==
  ASSUME NEW k \in Nat \ {0}, NEW d \in Int, -k < k * d, k * d < k
  PROVE  d = 0
  <1>1. CASE d >= 1
    <2>1. k * d >= k
      BY <1>1
    <2> QED BY <2>1
  <1>2. CASE d <= -1
    <2>1. k * d <= -k
      BY <1>2
    <2> QED BY <2>1
  <1> QED BY <1>1, <1>2

\* A number has one quotient and one remainder.
LEMMA RemainderUnique ==
  ASSUME NEW k \in Nat \ {0}, NEW q \in Nat, NEW r \in 0 .. k - 1
  PROVE  (k * q + r) % k = r
  <1> DEFINE n == k * q + r
             d == q - (n \div k)
  <1>1. n \in Nat
    OBVIOUS
  <1>2. n % k \in 0 .. k - 1 /\ n \div k \in Nat /\ n = k * (n \div k) + (n % k)
    BY <1>1, DivMod
  <1> HIDE DEF n
  <1>3. k * d = (n % k) - r /\ d \in Int
    BY <1>2 DEF n
  <1>4. d = 0
    <2> HIDE DEF d
    <2>1. -k < (n % k) - r /\ (n % k) - r < k
      BY <1>2
    <2>2. -k < k * d /\ k * d < k
      BY <2>1, <1>3, Zenon
    <2> QED BY <1>3, <2>2, SmallMultiple
  <1> QED BY <1>2, <1>3, <1>4 DEF n

\* The next index leads one place further, or back to the first.
LEMMA NextRemainder ==
  ASSUME NEW n \in Nat, NEW k \in Nat \ {0}
  PROVE  (n + 1) % k = IF (n % k) + 1 = k THEN 0 ELSE (n % k) + 1
  <1> DEFINE q == n \div k
             r == n % k
  <1>1. r \in 0 .. k - 1 /\ q \in Nat /\ n = k * q + r
    BY DivMod
  <1> HIDE DEF q, r
  <1>2. CASE r + 1 = k
    <2>1. n + 1 = k * (q + 1) + 0
      BY <1>1, <1>2
    <2>2. (k * (q + 1) + 0) % k = 0
      BY <1>1, RemainderUnique
    <2> QED BY <2>1, <2>2, <1>2 DEF r
  <1>3. CASE r + 1 # k
    <2>1. n + 1 = k * q + (r + 1) /\ r + 1 \in 0 .. k - 1
      BY <1>1, <1>3
    <2>2. (k * q + (r + 1)) % k = r + 1
      BY <1>1, <2>1, RemainderUnique
    <2> QED BY <2>1, <2>2, <1>3 DEF r
  <1> QED BY <1>2, <1>3

-----------------------------------------------------------------------------
(* The turn.                                                               *)

\* There is a client, and they can be counted.
LEMMA ClientsCount == IsFiniteSet(Clients) /\ N \in Nat \ {0}
  BY LoadgenAssumption, FS_CardinalityType, FS_EmptySet DEF N

\* Every client has a place in the iteration order.
LEMMA EveryClientPlaced ==
  ASSUME OrderOK, NEW c \in Clients
  PROVE  \E i \in 1 .. N : order[i] = c
  <1>1. order \in Injection(1 .. N, Clients)
    BY Fun_IsInj DEF OrderOK
  <1>2. Cardinality(1 .. N) = Cardinality(Clients)
    BY ClientsCount, FS_Interval DEF N
  <1>3. order \in Surjection(1 .. N, Clients)
    BY <1>1, <1>2, ClientsCount, FS_Injection
  <1>4. \A d \in Clients : \E i \in 1 .. N : order[i] = d
    <2> DEFINE S == 1 .. N
    <2> HIDE DEF S
    <2>1. order \in Surjection(S, Clients)
      BY <1>3 DEF S
    <2>2. \A d \in Clients : \E i \in S : order[i] = d
      BY <2>1, Fun_SurjectionProperties, Zenon
    <2> QED BY <2>2 DEF S
  <1> QED BY <1>4

\* std::advance reaches a client of the map, whatever the index.
LEMMA TurnReached ==
  ASSUME OrderOK, Open \subseteq Clients, Open # {}, next_client_index \in Nat
  PROVE  \E i \in 1 .. N : /\ Turn = order[i] /\ order[i] \in Open
                           /\ Ahead(i) = next_client_index % Cardinality(Open)
  <1> DEFINE Places == {i \in 1 .. N : order[i] \in Open}
             Before(i) == {j \in 1 .. i - 1 : order[j] \in Open}
             m == Cardinality(Open)
             f == [i \in Places |-> Ahead(i)]
  <1>1. IsFiniteSet(Open) /\ m \in Nat \ {0} /\ N \in Nat
    BY ClientsCount, FS_Subset, FS_CardinalityType, FS_EmptySet
  <1>2. IsFiniteSet(Places)
    <2>1. Places \in SUBSET (1 .. N) /\ IsFiniteSet(1 .. N)
      BY <1>1, FS_Interval
    <2> QED BY <2>1, FS_Subset, Zenon
  <1>3. Cardinality(Places) = m
    <2> DEFINE place == [i \in Places |-> order[i]]
    <2>1. place \in [Places -> Open]
      OBVIOUS
    <2>2. \A i, j \in Places : place[i] = place[j] => i = j
      BY DEF OrderOK
    <2>3. \A c \in Open : \E i \in Places : place[i] = c
      BY EveryClientPlaced
    <2>4. place \in Injection(Places, Open) /\ place \in Surjection(Places, Open)
      BY <2>1, <2>2, <2>3, Fun_IsInj, Fun_IsSurj
    <2> QED BY <2>4, <1>1, FS_Injection
  <1>4. \A i \in Places : f[i] \in 0 .. m - 1
    <2> SUFFICES ASSUME NEW i \in Places
                 PROVE  Ahead(i) \in 0 .. m - 1
      OBVIOUS
    <2>1. Before(i) \in SUBSET (Places \ {i})
      BY <1>1
    <2>2. IsFiniteSet(Places \ {i}) /\ Cardinality(Places \ {i}) = m - 1
      BY <1>2, <1>3, FS_RemoveElement
    <2>3. IsFiniteSet(Before(i)) /\ Cardinality(Before(i)) <= m - 1
      BY <2>1, <2>2, FS_Subset
    <2> QED BY <2>3, FS_CardinalityType, <1>1 DEF Ahead
  <1>5. \A i, k \in Places : i < k => f[i] < f[k]
    <2> SUFFICES ASSUME NEW i \in Places, NEW k \in Places, i < k
                 PROVE  Ahead(i) < Ahead(k)
      OBVIOUS
    <2>1. Before(k) \in SUBSET Places
      BY <1>1
    <2>2. IsFiniteSet(Before(k)) /\ i \in Before(k)
      BY <2>1, <1>1, <1>2, FS_Subset
    <2>3. IsFiniteSet(Before(k) \ {i}) /\ Cardinality(Before(k) \ {i}) = Cardinality(Before(k)) - 1
      BY <2>2, FS_RemoveElement
    <2>4. Before(i) \in SUBSET (Before(k) \ {i})
      BY <1>1
    <2>5. IsFiniteSet(Before(i)) /\ Cardinality(Before(i)) <= Cardinality(Before(k)) - 1
      BY <2>3, <2>4, FS_Subset
    <2> QED BY <2>2, <2>5, FS_CardinalityType DEF Ahead
  <1>6. f \in Surjection(Places, 0 .. m - 1)
    <2> HIDE DEF f
    <2>1. f \in [Places -> 0 .. m - 1]
      BY <1>4 DEF f
    <2>2. \A i, k \in Places : f[i] = f[k] => i = k
      <3> SUFFICES ASSUME NEW i \in Places, NEW k \in Places, f[i] = f[k], i # k
                   PROVE  FALSE
        OBVIOUS
      <3>1. f[i] \in Int /\ (i < k \/ k < i)
        BY <1>1, <2>1
      <3> QED BY <3>1, <1>5
    <2>3. f \in Injection(Places, 0 .. m - 1)
      BY <2>1, <2>2, Fun_IsInj
    <2>4. IsFiniteSet(0 .. m - 1) /\ Cardinality(0 .. m - 1) = m
      BY <1>1, FS_Interval
    <2> QED BY <2>3, <2>4, <1>3, FS_Injection
  <1>7. next_client_index % m \in 0 .. m - 1
    BY <1>1, DivMod
  <1>8. PICK i \in Places : f[i] = next_client_index % m
    <2> HIDE DEF f, Places, m
    <2>1. \A r \in 0 .. m - 1 : \E i \in Places : f[i] = r
      BY <1>6, Fun_SurjectionProperties, Zenon
    <2> QED BY <1>7, <2>1
  <1>9. \E k \in DOMAIN order : /\ order[k] \in Open
                                /\ Ahead(k) = next_client_index % Cardinality(Open)
    BY <1>8 DEF OrderOK
  <1> QED
    <2> DEFINE P(k) == order[k] \in Open /\ Ahead(k) = next_client_index % Cardinality(Open)
               t == CHOOSE k \in DOMAIN order : P(k)
    <2>1. t \in DOMAIN order /\ P(t)
      <3> HIDE DEF P
      <3>1. \E k \in DOMAIN order : P(k)
        BY <1>9 DEF P
      <3> QED BY <3>1
    <2>2. Turn = order[t]
      BY DEF Turn
    <2> QED BY <2>1, <2>2 DEF OrderOK

-----------------------------------------------------------------------------
(* The two halves of an ACK line and what may be left of them.             *)

\* An answer is two chunks, the newline in the second.
LEMMA AckLineType ==
  ASSUME NEW seq \in Nat
  PROVE  /\ AckLine(seq) \in Seq(Chunk) /\ Len(AckLine(seq)) = 2
         /\ AckLine(seq)[1].nl = FALSE /\ AckLine(seq)[2].nl = TRUE
         /\ AckLine(seq) = SubSeq(AckLine(seq), 1, 2)
         /\ <<>> = SubSeq(AckLine(seq), 1, 0)
  <1>1. AckLine(seq) \in Seq(Chunk) /\ Len(AckLine(seq)) = 2
    BY DEF AckLine, Chunk
  <1>2. AckLine(seq)[1].nl = FALSE /\ AckLine(seq)[2].nl = TRUE
    BY DEF AckLine
  <1>3. AckLine(seq) = SubSeq(AckLine(seq), 1, 2)
    BY <1>1, SubSeqFull
  <1>4. <<>> = SubSeq(AckLine(seq), 1, 0)
    BY SubSeqEmpty
  <1> QED BY <1>1, <1>2, <1>3, <1>4

\* The first n bytes of the answer, n <= 2.
LEMMA FirstBytes ==
  ASSUME NEW seq \in Nat, NEW n \in 0 .. 2
  PROVE  /\ SubSeq(AckLine(seq), 1, n) \in Seq(Chunk)
         /\ Len(SubSeq(AckLine(seq), 1, n)) = n
         /\ \A i \in 1 .. n : SubSeq(AckLine(seq), 1, n)[i] = AckLine(seq)[i]
  <1> DEFINE due == AckLine(seq)
  <1>1. due \in Seq(Chunk) /\ Len(due) = 2
    BY AckLineType
  <1> HIDE DEF due
  <1>2. \A i \in 1 .. n : due[i] \in Chunk
    <2>1. due \in [1 .. 2 -> Chunk]
      BY <1>1, LenProperties
    <2> QED BY <2>1
  <1>3. /\ SubSeq(due, 1, n) \in Seq(Chunk)
        /\ Len(SubSeq(due, 1, n)) = IF 1 <= n THEN n - 1 + 1 ELSE 0
        /\ \A i \in 1 .. n - 1 + 1 : SubSeq(due, 1, n)[i] = due[1 + i - 1]
    BY <1>2, SubSeqProperties
  <1> QED BY <1>3 DEF due

\* What was received first is the first part of it.
LEMMA PartOfAnswer ==
  ASSUME NEW seq \in Nat, NEW n \in 0 .. 2, NEW s \in Seq(Chunk), NEW t \in Seq(Chunk),
         s \o t = SubSeq(AckLine(seq), 1, n)
  PROVE  /\ Len(s) \in 0 .. 2 /\ Len(s) + Len(t) = n
         /\ \A i \in 1 .. Len(s) : s[i] = AckLine(seq)[i]
         /\ s = SubSeq(AckLine(seq), 1, Len(s))
  <1> DEFINE due == AckLine(seq)
             first(k) == SubSeq(due, 1, k)
  <1>1. \A k \in 0 .. 2 : /\ first(k) \in Seq(Chunk) /\ Len(first(k)) = k
                          /\ \A i \in 1 .. k : first(k)[i] = due[i]
    BY FirstBytes
  <1>2. s \o t = first(n)
    OBVIOUS
  <1> HIDE DEF due, first
  <1>3. Len(s) \in Nat /\ Len(t) \in Nat
    BY LenProperties
  <1>4. /\ Len(s \o t) = Len(s) + Len(t)
        /\ \A i \in 1 .. Len(s) + Len(t) : (s \o t)[i] = IF i <= Len(s) THEN s[i] ELSE t[i - Len(s)]
    BY ConcatProperties
  <1>5. Len(s) + Len(t) = n
    BY <1>1, <1>2, <1>4
  <1>6. Len(s) \in 0 .. 2 /\ Len(s) <= n
    <2>1. \A x, y \in Nat : x + y = n => x \in 0 .. 2 /\ x <= n
      OBVIOUS
    <2> QED BY <1>3, <1>5, <2>1, Zenon
  <1>7. ASSUME NEW i \in 1 .. Len(s)
        PROVE  s[i] = due[i]
    <2>1. i \in 1 .. n /\ i \in 1 .. Len(s) + Len(t) /\ i <= Len(s)
      BY <1>3, <1>5, <1>6
    <2>2. (s \o t)[i] = s[i]
      BY <1>4, <2>1
    <2> QED BY <2>1, <2>2, <1>1, <1>2
  <1>8. \A i \in 1 .. Len(s) : s[i] = first(Len(s))[i]
    BY <1>1, <1>6, <1>7
  <1>9. s = first(Len(s))
    <2>1. first(Len(s)) \in Seq(Chunk) /\ Len(first(Len(s))) = Len(s)
      BY <1>1, <1>6
    <2> QED BY <2>1, <1>8, SeqEqual
  <1> QED BY <1>5, <1>6, <1>7, <1>9 DEF due, first

\* A line in it is the whole answer, and nothing is still to come.
LEMMA WholeAnswer ==
  ASSUME NEW seq \in Nat, NEW n \in 0 .. 2, NEW s \in Seq(Chunk), NEW t \in Seq(Chunk),
         s \o t = SubSeq(AckLine(seq), 1, n), HasLine(s)
  PROVE  s = AckLine(seq) /\ t = <<>>
  <1>1. /\ Len(s) \in 0 .. 2 /\ Len(s) + Len(t) = n
        /\ \A i \in 1 .. Len(s) : s[i] = AckLine(seq)[i]
        /\ s = SubSeq(AckLine(seq), 1, Len(s))
    BY PartOfAnswer
  <1>2. PICK i \in 1 .. Len(s) : s[i].nl
    BY LenProperties DEF HasLine
  <1>3. AckLine(seq)[1].nl = FALSE
    BY AckLineType
  <1>4. i # 1
    BY <1>1, <1>2, <1>3
  <1>5. Len(s) = 2
    BY <1>1, <1>4
  <1>6. Len(t) = 0
    BY <1>1, <1>5, LenProperties
  <1> QED BY <1>1, <1>5, <1>6, EmptySeq, AckLineType

\* Erasing the line leaves nothing in the buffer.
LEMMA AnsweredValue ==
  ASSUME NEW client \in Client, NEW seq \in Nat, client.receive_buffer = AckLine(seq)
  PROVE  Answered(client) = [client EXCEPT !.receive_buffer = <<>>, !.phase = "Ready"]
  <1> DEFINE buffer == client.receive_buffer
             newline == CHOOSE i \in DOMAIN buffer : buffer[i].nl /\ \A j \in 1 .. i - 1 : ~buffer[j].nl
  <1>1. DOMAIN buffer = 1 .. 2 /\ buffer[1].nl = FALSE /\ buffer[2].nl = TRUE /\ Len(buffer) = 2
    BY AckLineType, LenProperties
  <1> HIDE DEF buffer
  <1>2. newline = 2
    <2>1. 2 \in DOMAIN buffer /\ buffer[2].nl /\ \A j \in 1 .. 2 - 1 : ~buffer[j].nl
      BY <1>1
    <2>2. newline \in DOMAIN buffer /\ buffer[newline].nl
      BY <2>1
    <2> QED BY <1>1, <2>2
  <1>3. SubSeq(buffer, newline + 1, Len(buffer)) = <<>>
    BY <1>1, <1>2, SubSeqEmpty
  <1> QED BY <1>3 DEF Answered, buffer

-----------------------------------------------------------------------------
(* What the handlers do to a client.                                       *)

\* A connection epoll reports is one of the map's, and writable only when its
\* handshake is through.
LEMMA BatchKnown ==
  ASSUME Typed, Wire, NEW batch \in Batches
  PROVE  /\ batch \subseteq Open
         /\ \A c \in batch : /\ Flags(c) \in SUBSET {"in", "out", "err"}
                             /\ "out" \in Flags(c) => link[c] \in WasUp
  <1>1. batch \subseteq Open
    BY DEF Batches, ReadyConns
  <1>2. ASSUME NEW c \in batch
        PROVE  /\ Flags(c) \in SUBSET {"in", "out", "err"}
               /\ "out" \in Flags(c) => link[c] \in WasUp
    <2>1. c \in Clients /\ link[c] \in {"none", "syn", "up", "eof", "reset"} /\ link[c] # "none"
      BY <1>1 DEF Typed, Wire
    <2> QED BY <2>1 DEF Flags, WasUp
  <1> QED BY <1>1, <1>2

\* The bytes of a connection: what receive_ack read, what it would read now,
\* and what the server still owes.
LEMMA BytesTyped ==
  ASSUME Typed, NEW c \in Open
  PROVE  /\ c \in Clients /\ clients[c] \in Client /\ clients[c].sequence \in Nat
         /\ clients[c].receive_buffer \in Seq(Chunk) /\ clients[c].receive_buffer \o inbox[c] \in Seq(Chunk)
         /\ inbox[c] \in Seq(Chunk) /\ reply[c] \in Seq(Chunk)
         /\ Appended(clients[c], inbox[c]) \in Client
         /\ Appended(clients[c], inbox[c]).receive_buffer = clients[c].receive_buffer \o inbox[c]
         /\ Appended(clients[c], inbox[c]).sequence = clients[c].sequence
         /\ Appended(clients[c], inbox[c]).phase = clients[c].phase
  <1>1. c \in Clients /\ clients[c] \in Client /\ inbox[c] \in Seq(Chunk) /\ reply[c] \in Seq(Chunk)
    BY DEF Typed
  <1>2. clients[c].receive_buffer \in Seq(Chunk)
    BY <1>1 DEF Client
  <1>3. clients[c].receive_buffer \o inbox[c] \in Seq(Chunk)
    BY <1>1, <1>2, ConcatProperties
  <1> QED BY <1>1, <1>2, <1>3 DEF Appended, Client

\* While a client waits, the bytes are the first part of the answer to its report.
LEMMA WaitingBytes ==
  ASSUME Typed, AckMatchesReport, NEW c \in Waiting
  PROVE  /\ c \in Open /\ c \in Clients
         /\ \E n \in 0 .. 2 : clients[c].receive_buffer \o inbox[c] \o reply[c]
                                = SubSeq(AckLine(clients[c].sequence), 1, n)
         /\ link[c] = "up" => clients[c].receive_buffer \o inbox[c] \o reply[c] = AckLine(clients[c].sequence)
  <1>1. c \in Open /\ c \in Clients /\ clients[c].sequence \in Nat
    BY BytesTyped DEF Waiting
  <1>2. AckLine(clients[c].sequence) = SubSeq(AckLine(clients[c].sequence), 1, 2)
    BY <1>1, AckLineType
  <1>3. IF link[c] = "up"
          THEN clients[c].receive_buffer \o inbox[c] \o reply[c] = AckLine(clients[c].sequence)
          ELSE \E n \in 0 .. 2 : clients[c].receive_buffer \o inbox[c] \o reply[c]
                                   = SubSeq(AckLine(clients[c].sequence), 1, n)
    BY <1>1, Zenon DEF AckMatchesReport
  <1>4. 2 \in 0 .. 2
    OBVIOUS
  <1> QED BY <1>1, <1>2, <1>3, <1>4, Zenon

\* How much of an answer the client's end has.
Received(c) == Len(clients[c].receive_buffer) + Len(inbox[c])

\* A line that receive_ack finds is the answer to the report in flight; it
\* leaves the client ready and nothing of the answer anywhere.
LEMMA AnswerArrives ==
  ASSUME Typed, AckMatchesReport, NEW c \in Waiting,
         HasLine(Appended(clients[c], inbox[c]).receive_buffer)
  PROVE  /\ reply[c] = <<>> /\ Received(c) = 2
         /\ Answered(Appended(clients[c], inbox[c]))
              = [clients[c] EXCEPT !.receive_buffer = <<>>, !.phase = "Ready"]
  <1> DEFINE s == clients[c].receive_buffer \o inbox[c]
             seq == clients[c].sequence
             client == Appended(clients[c], inbox[c])
  <1>1. c \in Open
    BY DEF Waiting
  <1>2. /\ clients[c] \in Client /\ client \in Client /\ client.receive_buffer = s
        /\ s \in Seq(Chunk) /\ reply[c] \in Seq(Chunk) /\ seq \in Nat
    BY <1>1, BytesTyped
  <1>3. PICK n \in 0 .. 2 : s \o reply[c] = SubSeq(AckLine(seq), 1, n)
    BY WaitingBytes
  <1>4. s = AckLine(seq) /\ reply[c] = <<>>
    <2> HIDE DEF s, seq, client
    <2>1. HasLine(s)
      BY <1>2 DEF client
    <2> QED BY <1>2, <1>3, <2>1, WholeAnswer
  <1>5. Answered(client) = [client EXCEPT !.receive_buffer = <<>>, !.phase = "Ready"]
    <2> HIDE DEF client, s, seq
    <2> QED BY <1>2, <1>4, AnsweredValue
  <1>6. [client EXCEPT !.receive_buffer = <<>>, !.phase = "Ready"]
          = [clients[c] EXCEPT !.receive_buffer = <<>>, !.phase = "Ready"]
    BY <1>2 DEF Client, Appended
  <1>7. Received(c) = 2
    <2>1. clients[c].receive_buffer \in Seq(Chunk) /\ inbox[c] \in Seq(Chunk)
      BY <1>1, BytesTyped
    <2>2. Len(s) = Len(clients[c].receive_buffer) + Len(inbox[c])
      BY <2>1, ConcatProperties
    <2>3. Len(s) = 2
      BY <1>2, <1>4, AckLineType
    <2> QED BY <2>2, <2>3 DEF Received
  <1> QED BY <1>4, <1>5, <1>6, <1>7

\* send_status numbers the report and waits.
LEMMA ReportedValue ==
  ASSUME NEW client \in Client
  PROVE  /\ Reported(client) \in Client
         /\ Reported(client).sequence = client.sequence + 1
         /\ Reported(client).phase = "WaitingAck"
         /\ Reported(client).receive_buffer = client.receive_buffer
  <1> DEFINE seq == client.sequence + 1
  <1>1. seq \in Nat
    BY DEF Client
  <1>2. Reported(client) = [client EXCEPT !.sequence = seq, !.phase = "WaitingAck"]
    BY DEF Reported
  <1> HIDE DEF seq
  <1>3. Reported(client) \in Client
    BY <1>1, <1>2 DEF Client, Phases
  <1>4. /\ Reported(client).sequence = seq /\ Reported(client).phase = "WaitingAck"
        /\ Reported(client).receive_buffer = client.receive_buffer
    BY <1>1, <1>2 DEF Client
  <1> QED BY <1>3, <1>4 DEF seq

\* The turn falls on a client of the map.
LEMMA TurnKnown ==
  ASSUME OrderOK, Typed, MaySend
  PROVE  Turn \in Open /\ Turn \in Clients
  BY TurnReached DEF Typed, MaySend

-----------------------------------------------------------------------------
(* Types.                                                                  *)

\* The load generator begins typed.
LEMMA TypedInit == Init => OrderOK /\ Typed
  <1> SUFFICES ASSUME Init
               PROVE  OrderOK /\ Typed
    OBVIOUS
  <1>1. OrderOK
    BY DEF Init, OrderOK, N
  <1>2. <<>> \in Seq(Chunk)
    OBVIOUS
  <1>3. clients \in [Open -> Client] /\ Open = {} /\ DOMAIN events = {}
    BY DEF Init, Open
  <1>4. events \in [DOMAIN events -> SUBSET {"in", "out", "err"}]
    BY DEF Init
  <1>5. /\ link \in [Clients -> {"none", "syn", "up", "eof", "reset"}]
        /\ reply \in [Clients -> Seq(Chunk)] /\ inbox \in [Clients -> Seq(Chunk)]
    BY <1>2 DEF Init
  <1>6. 0 \in 0 .. Quota
    BY LoadgenAssumption
  <1>7. in_time \in BOOLEAN /\ over \in BOOLEAN
    BY DEF Init
  <1>8. Typed
    BY <1>3, <1>4, <1>5, <1>6, <1>7 DEF Init, Typed
  <1> QED BY <1>1, <1>8

\* No step leaves the types.
LEMMA TypedStep ==
  ASSUME Inv, [Next]_vars
  PROVE  OrderOK' /\ Typed'
  <1> USE DEF Client, Phases
  <1>1. OrderOK /\ Typed /\ Books /\ Wire /\ AckMatchesReport
    BY DEF Inv
  <1>2. <<>> \in Seq(Chunk)
    OBVIOUS
  <1>3. ASSUME UNCHANGED order
        PROVE  OrderOK'
    BY <1>1, <1>3 DEF OrderOK, N
  <1>4. ASSUME UNCHANGED vars
        PROVE  OrderOK' /\ Typed'
    BY <1>1, <1>3, <1>4 DEF vars, Typed, Open
  <1>5. CASE TimeUp
    BY <1>1, <1>3, <1>5 DEF TimeUp, Typed, Open
  <1>6. ASSUME NEW c \in Clients, Establish(c)
        PROVE  OrderOK' /\ Typed'
    BY <1>1, <1>3, <1>6 DEF Establish, Typed, Open
  <1>7. ASSUME NEW c \in Clients, Refuse(c)
        PROVE  OrderOK' /\ Typed'
    BY <1>1, <1>3, <1>7 DEF Refuse, Typed, Open
  <1>8. ASSUME NEW c \in Clients, Deliver(c)
        PROVE  OrderOK' /\ Typed'
    <2>1. reply[c] \in Seq(Chunk) /\ inbox[c] \in Seq(Chunk) /\ reply[c] # <<>>
      BY <1>1, <1>8 DEF Typed, Deliver
    <2>2. Head(reply[c]) \in Chunk /\ Tail(reply[c]) \in Seq(Chunk)
      BY <2>1, HeadTailProperties
    <2>3. Append(inbox[c], Head(reply[c])) \in Seq(Chunk)
      BY <2>1, <2>2, AppendProperties
    <2> QED BY <1>1, <1>3, <1>8, <2>2, <2>3 DEF Deliver, Typed, Open
  <1>9. ASSUME NEW c \in Clients, ServerCloses(c)
        PROVE  OrderOK' /\ Typed'
    BY <1>1, <1>2, <1>3, <1>9 DEF ServerCloses, Typed, Open
  <1>10. CASE ConnectThrows
    BY <1>1, <1>3, <1>10 DEF ConnectThrows, Typed, Open
  <1>11. ASSUME NEW c \in Clients, StartConnect(c)
         PROVE  OrderOK' /\ Typed'
    BY <1>1, <1>2, <1>3, <1>11 DEF StartConnect, Typed, Open
  <1>12. CASE HandshakesDone
    BY <1>1, <1>3, <1>12 DEF HandshakesDone, Typed, Open
  <1>13. CASE HandshakeWait
    <2>1. PICK batch \in Batches : events' = [c \in batch |-> Flags(c)]
      BY <1>13 DEF HandshakeWait
    <2> QED BY <1>1, <1>3, <1>13, <2>1, BatchKnown DEF HandshakeWait, Typed, Open
  <1>14. CASE HandshakeGivesUp
    <2>1. Cardinality(Open) \in Nat
      BY <1>1, ClientsCount, FS_Subset, FS_CardinalityType DEF Typed
    <2> QED BY <1>1, <1>3, <1>14, <2>1 DEF HandshakeGivesUp, Typed, Open
  <1>15. ASSUME NEW c \in Clients, HandshakeEvent(c)
         PROVE  OrderOK' /\ Typed'
    <2>1. c \in Open /\ clients[c] \in Client
      BY <1>1, <1>15 DEF HandshakeEvent, Typed
    <2>2. CASE Drop(c)
      <3> HIDE DEF Client
      <3> QED BY <1>1, <1>2, <1>3, <1>15, <2>1, <2>2 DEF HandshakeEvent, Drop, close_client, EventTaken, Typed, Open
    <2>3. CASE /\ clients' = [clients EXCEPT ![c].phase = "Ready"]
               /\ UNCHANGED <<countVars, netVars>>
      <3>1. [clients[c] EXCEPT !.phase = "Ready"] \in Client
        BY <2>1
      <3> HIDE DEF Client
      <3> QED BY <1>1, <1>3, <1>15, <2>1, <2>3, <3>1 DEF HandshakeEvent, EventTaken, Typed, Open
    <2>4. CASE UNCHANGED <<clients, countVars, netVars>>
      <3> HIDE DEF Client
      <3> QED BY <1>1, <1>3, <1>15, <2>1, <2>4 DEF HandshakeEvent, EventTaken, Typed, Open
    <2> QED BY <1>15, <2>2, <2>3, <2>4 DEF HandshakeEvent
  <1>16. CASE HandshakeEventsDone
    BY <1>1, <1>3, <1>16 DEF HandshakeEventsDone, Typed, Open
  <1>17. CASE Tick
    <2>3. in_time' \in BOOLEAN /\ over' \in BOOLEAN
      BY <1>1, <1>17 DEF Tick, Typed
    <2>1. PICK credit \in 0 .. (IF over' THEN 0 ELSE Quota - granted) :
            send_credit' = send_credit + credit /\ granted' = granted + credit
      BY <1>17 DEF Tick
    <2>2. credit \in 0 .. Quota - granted
      <3>1. over' \/ ~over'
        BY <2>3
      <3> QED BY <1>1, <2>1, <3>1, LoadgenAssumption DEF Typed
    <2>4. /\ send_credit' \in Nat /\ granted' \in 0 .. Quota /\ sent' \in Nat
          /\ sent' = sent /\ sent' + send_credit' = granted'
      <3>1. sent' = sent
        BY <1>17 DEF Tick
      <3>2. /\ sent \in Nat /\ send_credit \in Nat /\ granted \in 0 .. Quota
            /\ sent + send_credit = granted /\ Quota \in Nat
        BY <1>1, LoadgenAssumption DEF Typed
      <3>3. send_credit + credit \in Nat /\ granted + credit \in 0 .. Quota
            /\ sent + (send_credit + credit) = granted + credit
        BY <2>2, <3>2
      <3> QED BY <2>1, <3>1, <3>2, <3>3
    <2>5. UNCHANGED <<clients, next_client_index, acked, errors, events, link, reply, inbox>> /\ pc' = "send"
      BY <1>17 DEF Tick
    <2>6. UNCHANGED order
      BY <1>17 DEF Tick
    <2> HIDE DEF Client
    <2> QED BY <1>1, <1>3, <2>3, <2>4, <2>5, <2>6 DEF Typed, Open
  <1>18. CASE LoopEnds
    <2>1. DOMAIN events = {} /\ Open' = {} /\ clients' \in [Open' -> Client]
      BY <1>1, <1>18 DEF LoopEnds, Books, Open
    <2> HIDE DEF Client
    <2> QED BY <1>1, <1>3, <1>18, <2>1 DEF LoopEnds, Typed
  <1>19. CASE NothingToSend \/ SendThrows
    <2>1. SendingDone("poll") \/ SendingDone("aborted")
      BY <1>19 DEF NothingToSend, SendThrows
    <2>2. UNCHANGED <<order, clients, loopVars, countVars, events, netVars, over>>
      BY <2>1 DEF SendingDone
    <2>3. pc' \in {"poll", "aborted"}
      BY <2>1 DEF SendingDone
    <2> HIDE DEF Client
    <2> QED BY <1>1, <1>3, <2>2, <2>3 DEF Typed, Open
  <1>20. CASE SendNext
    <2>1. Turn \in Open /\ Turn \in Clients
      BY <1>1, <1>20, TurnKnown DEF SendNext
    <2>2. AckLine(clients[Turn].sequence + 1) \in Seq(Chunk)
      <3>1. clients[Turn] \in Client
        BY <1>1, <2>1 DEF Typed
      <3>2. clients[Turn].sequence + 1 \in Nat
        BY <3>1
      <3> QED BY <3>2, AckLineType
    <2>3. reply[Turn] \o AckLine(clients[Turn].sequence + 1) \in Seq(Chunk)
      BY <1>1, <2>1, <2>2, BytesTyped, ConcatProperties
    <2>4. Reported(clients[Turn]) \in Client
      <3>1. clients[Turn] \in Client
        BY <1>1, <2>1 DEF Typed
      <3>2. \A r \in Client : Reported(r) \in Client
        BY ReportedValue
      <3> HIDE DEF Client
      <3> QED BY <3>1, <3>2
    <2> HIDE DEF Client
    <2> QED BY <1>1, <1>3, <1>20, <2>1, <2>3, <2>4 DEF SendNext, MaySend, Typed, Open
  <1>25. CASE CountSent
    <2>1. /\ sent' = sent + 1 /\ send_credit' = send_credit - 1
          /\ next_client_index' = next_client_index + 1 /\ pc = "sent" /\ pc' = "send"
          /\ UNCHANGED <<order, clients, granted, in_time, acked, errors, events, link, reply, inbox, over>>
      BY <1>25 DEF CountSent, netVars
    <2>2. /\ sent' \in Nat /\ send_credit' \in Nat /\ sent' + send_credit' = granted
          /\ next_client_index' = sent'
      BY <1>1, <2>1, LoadgenAssumption DEF Typed
    <2> HIDE DEF Client
    <2> QED BY <1>1, <1>3, <2>1, <2>2 DEF Typed, Open
  <1>21. CASE Poll
    <2>1. PICK batch \in Batches : events' = [c \in batch |-> Flags(c)]
      BY <1>21 DEF Poll
    <2> QED BY <1>1, <1>3, <1>21, <2>1, BatchKnown DEF Poll, Typed, Open
  <1>22. ASSUME NEW c \in Clients, AckEvent(c)
         PROVE  OrderOK' /\ Typed'
    <2>1. c \in Open
      BY <1>1, <1>22 DEF AckEvent, Typed
    <2>2. CASE Drop(c)
      BY <1>1, <1>2, <1>3, <1>22, <2>1, <2>2 DEF AckEvent, Drop, close_client, EventTaken, Typed, Open
    <2>3. CASE clients[c].phase = "WaitingAck" /\ receive_ack(c) /\ ~Drop(c)
      <3>1. c \in Waiting
        BY <2>1, <2>3 DEF Waiting
      <3> DEFINE client == Appended(clients[c], inbox[c])
      <3>2. client \in Client /\ clients[c] \in Client
        BY <1>1, <2>1, BytesTyped
      <3>3. CASE HasLine(client.receive_buffer)
        <4>1. clients' = [clients EXCEPT ![c] = Answered(client)] /\ acked' = acked + 1
              /\ inbox' = [inbox EXCEPT ![c] = <<>>] /\ UNCHANGED <<sent, errors, link, reply>>
          BY <2>3, <3>3 DEF receive_ack
        <4>2. Answered(client) \in Client
          <5>1. Answered(client) = [clients[c] EXCEPT !.receive_buffer = <<>>, !.phase = "Ready"]
            BY <1>1, <3>1, <3>3, AnswerArrives
          <5> QED BY <1>2, <3>2, <5>1
        <4> HIDE DEF Client, client
        <4> QED BY <1>1, <1>2, <1>3, <1>22, <2>1, <4>1, <4>2 DEF AckEvent, EventTaken, Typed, Open
      <3>4. CASE ~HasLine(client.receive_buffer)
        <4>1. clients' = [clients EXCEPT ![c] = client]
              /\ inbox' = [inbox EXCEPT ![c] = <<>>] /\ UNCHANGED <<countVars, link, reply>>
          BY <2>3, <3>4 DEF receive_ack
        <4> HIDE DEF Client, client
        <4> QED BY <1>1, <1>2, <1>3, <1>22, <2>1, <3>2, <4>1 DEF AckEvent, EventTaken, Typed, Open
      <3> QED BY <3>3, <3>4
    <2>4. CASE UNCHANGED <<clients, countVars, netVars>>
      BY <1>1, <1>3, <1>22, <2>1, <2>4 DEF AckEvent, EventTaken, Typed, Open
    <2> QED BY <1>22, <2>2, <2>3, <2>4 DEF AckEvent
  <1>23. CASE AckEventsDone
    BY <1>1, <1>3, <1>23 DEF AckEventsDone, Typed, Open
  <1>24. CASE Exited
    BY <1>4, <1>24 DEF Exited
  <1> QED
    BY <1>4, <1>5, <1>6, <1>7, <1>8, <1>9, <1>10, <1>11, <1>12, <1>13, <1>14, <1>15, <1>16, <1>17,
       <1>18, <1>19, <1>20, <1>21, <1>22, <1>23, <1>24, <1>25
       DEF Next, Program, LocalStep, Environment

-----------------------------------------------------------------------------
(* What a step does to the clients and to the counts.                      *)

Same == UNCHANGED <<clients, Issued, acked, errors>>

\* A connection leaves the map and is counted.
Dropped(c) ==
  /\ c \in Open /\ clients' = [d \in Open \ {c} |-> clients[d]]
  /\ errors' = errors + 1 /\ UNCHANGED <<Issued, acked>>

\* The report of a waiting client is answered.
AnswerTaken(c) ==
  /\ c \in Waiting
  /\ clients' = [clients EXCEPT ![c] = [@ EXCEPT !.receive_buffer = <<>>, !.phase = "Ready"]]
  /\ acked' = acked + 1 /\ UNCHANGED <<Issued, errors>>

\* What receive_ack read of an unfinished line stays in the client's buffer.
PartTaken(c) ==
  /\ c \in Waiting
  /\ clients' = [clients EXCEPT ![c] = Appended(clients[c], inbox[c])]
  /\ UNCHANGED <<Issued, acked, errors>>

\* An event during the handshakes fails the client, readies it or waits on.
LEMMA HandshakeEffect ==
  ASSUME Inv, NEW c \in Clients, HandshakeEvent(c)
  PROVE  /\ c \in Open /\ UNCHANGED <<pc, over>> /\ DOMAIN events' = DOMAIN events \ {c}
         /\ \A d \in DOMAIN events \ {c} : events'[d] = events[d]
         /\ \/ Dropped(c) /\ close_client(c) /\ UNCHANGED link
            \/ /\ clients' = [clients EXCEPT ![c].phase = "Ready"]
               /\ "out" \in events[c] /\ UNCHANGED <<Issued, acked, errors, link, reply, inbox>>
            \/ Same /\ UNCHANGED <<link, reply, inbox>>
  <1>1. c \in Open
    BY DEF HandshakeEvent, Inv, Typed
  <1>2. UNCHANGED <<pc, over>> /\ events' = [d \in DOMAIN events \ {c} |-> events[d]]
    BY DEF HandshakeEvent, EventTaken
  <1>3. CASE Drop(c)
    BY <1>1, <1>2, <1>3 DEF Drop, close_client, Dropped, Issued
  <1>4. CASE ~Drop(c)
    BY <1>1, <1>2, <1>4 DEF HandshakeEvent, Same, Issued
  <1> QED BY <1>3, <1>4

\* An event of the main loop fails the client, takes its answer or a part of it.
LEMMA AckEffect ==
  ASSUME Inv, NEW c \in Clients, AckEvent(c)
  PROVE  /\ c \in Open /\ UNCHANGED <<pc, over>> /\ DOMAIN events' = DOMAIN events \ {c}
         /\ \A d \in DOMAIN events \ {c} : events'[d] = events[d]
         /\ \/ Dropped(c) /\ close_client(c) /\ UNCHANGED link
            \/ /\ AnswerTaken(c) /\ reply[c] = <<>> /\ Received(c) = 2
               /\ inbox' = [inbox EXCEPT ![c] = <<>>] /\ UNCHANGED <<link, reply>>
            \/ PartTaken(c) /\ inbox' = [inbox EXCEPT ![c] = <<>>] /\ UNCHANGED <<link, reply>>
            \/ Same /\ UNCHANGED <<link, reply, inbox>>
  <1>1. c \in Open
    BY DEF AckEvent, Inv, Typed
  <1>2. UNCHANGED <<pc, over>> /\ events' = [d \in DOMAIN events \ {c} |-> events[d]]
    BY DEF AckEvent, EventTaken
  <1>3. CASE Drop(c)
    BY <1>1, <1>2, <1>3 DEF Drop, close_client, Dropped, Issued
  <1>4. CASE clients[c].phase = "WaitingAck" /\ receive_ack(c) /\ ~Drop(c)
    <2> DEFINE client == Appended(clients[c], inbox[c])
    <2>1. c \in Waiting
      BY <1>1, <1>4 DEF Waiting
    <2>2. CASE HasLine(client.receive_buffer)
      <3>1. clients' = [clients EXCEPT ![c] = Answered(client)] /\ acked' = acked + 1
            /\ inbox' = [inbox EXCEPT ![c] = <<>>] /\ UNCHANGED <<sent, errors, link, reply>>
        BY <1>4, <2>2 DEF receive_ack
      <3>2. /\ reply[c] = <<>> /\ Received(c) = 2
            /\ Answered(client) = [clients[c] EXCEPT !.receive_buffer = <<>>, !.phase = "Ready"]
        BY <2>1, <2>2, AnswerArrives DEF Inv
      <3>3. AnswerTaken(c)
        BY <1>2, <2>1, <3>1, <3>2 DEF AnswerTaken, Issued
      <3> QED BY <1>1, <1>2, <3>1, <3>2, <3>3
    <2>3. CASE ~HasLine(client.receive_buffer)
      <3>1. PartTaken(c) /\ inbox' = [inbox EXCEPT ![c] = <<>>] /\ UNCHANGED <<link, reply>>
        BY <1>2, <1>4, <2>1, <2>3 DEF receive_ack, PartTaken, Issued
      <3> QED BY <1>1, <1>2, <3>1
    <2> QED BY <2>2, <2>3
  <1>5. CASE UNCHANGED <<clients, countVars, netVars>>
    BY <1>1, <1>2, <1>5 DEF Same, Issued
  <1> QED BY <1>3, <1>4, <1>5 DEF AckEvent

\* A report is sent by the client whose turn it is, and it waits from then on.
LEMMA SendEffect ==
  ASSUME Inv, SendNext
  PROVE  /\ Turn \in Open /\ Turn \in Clients /\ Turn \notin Waiting
         /\ clients[Turn].phase = "Ready" /\ link[Turn] \in {"up", "eof"}
         /\ clients' = [clients EXCEPT ![Turn] = Reported(clients[Turn])]
         /\ Reported(clients[Turn]) \in Client
         /\ Reported(clients[Turn]).sequence = clients[Turn].sequence + 1
         /\ Reported(clients[Turn]).phase = "WaitingAck"
         /\ Reported(clients[Turn]).receive_buffer = clients[Turn].receive_buffer
         /\ Issued = sent /\ Issued' = Issued + 1 /\ pc = "send" /\ pc' = "sent"
         /\ UNCHANGED <<order, sent, acked, errors, events, link, inbox>>
  <1>1. Turn \in Open /\ Turn \in Clients
    BY TurnKnown DEF SendNext, Inv
  <1>2. clients[Turn] \in Client /\ link[Turn] \in {"none", "syn", "up", "eof", "reset"}
    BY <1>1 DEF Inv, Typed
  <1>3. clients[Turn].phase = "Ready" /\ link[Turn] # "reset" /\ pc = "send"
    BY DEF SendNext
  <1>4. link[Turn] \in {"up", "eof"}
    BY <1>1, <1>2, <1>3 DEF Inv, Wire, WasUp
  <1>5. Turn \notin Waiting
    BY <1>3 DEF Waiting
  <1>6. Issued = sent /\ Issued' = Issued + 1 /\ pc' = "sent" /\ UNCHANGED sent
    BY DEF SendNext, Issued, Inv, Typed
  <1> QED BY <1>1, <1>2, <1>3, <1>4, <1>5, <1>6, ReportedValue DEF SendNext

-----------------------------------------------------------------------------
(* The books.                                                              *)

\* The clients that wait can be counted.
LEMMA WaitingFinite ==
  ASSUME Typed
  PROVE  IsFiniteSet(Waiting) /\ Cardinality(Waiting) \in Nat
  <1>1. Waiting \in SUBSET Clients
    BY DEF Waiting, Typed
  <1> QED BY <1>1, ClientsCount, FS_Subset, FS_CardinalityType

\* A report that was sent is counted, or is about to be.
LEMMA IssuedType ==
  ASSUME Typed
  PROVE  Issued \in Nat /\ Issued <= Quota /\ (pc # "sent" => Issued = sent)
  <1>1. /\ sent \in Nat /\ send_credit \in Nat /\ granted \in 0 .. Quota
        /\ sent + send_credit = granted /\ (pc = "sent" => send_credit > 0)
    BY DEF Typed
  <1> QED BY <1>1, LoadgenAssumption DEF Issued

\* Who waits after a step.
LEMMA WaitingAfter ==
  ASSUME Inv
  PROVE  /\ UNCHANGED clients => Waiting' = Waiting
         /\ \A c \in Open : Dropped(c) => Waiting' = Waiting \ {c}
         /\ \A c \in Open : AnswerTaken(c) => Waiting' = Waiting \ {c}
         /\ \A c \in Open : PartTaken(c) => Waiting' = Waiting
         /\ SendNext => Waiting' = Waiting \cup {Turn}
  <1>1. clients \in [Open -> Client]
    BY DEF Inv, Typed
  <1>2. UNCHANGED clients => Waiting' = Waiting
    BY DEF Waiting, Open
  <1>3. ASSUME NEW c \in Open, Dropped(c)
        PROVE  Waiting' = Waiting \ {c}
    BY <1>3 DEF Dropped, Waiting, Open
  <1>4. ASSUME NEW c \in Open, AnswerTaken(c)
        PROVE  Waiting' = Waiting \ {c}
    <2>1. [clients[c] EXCEPT !.receive_buffer = <<>>, !.phase = "Ready"].phase = "Ready"
      BY <1>1 DEF Client
    <2> QED BY <1>1, <1>4, <2>1 DEF AnswerTaken, Waiting, Open
  <1>5. ASSUME NEW c \in Open, PartTaken(c)
        PROVE  Waiting' = Waiting
    <2>1. Appended(clients[c], inbox[c]).phase = clients[c].phase
      BY BytesTyped DEF Inv
    <2> QED BY <1>1, <1>5, <2>1 DEF PartTaken, Waiting, Open
  <1>6. ASSUME SendNext
        PROVE  Waiting' = Waiting \cup {Turn}
    BY <1>1, <1>6, SendEffect DEF Waiting, Open
  <1> QED BY <1>2, <1>3, <1>4, <1>5, <1>6

\* The rest of the program and the environment leave the counts alone.
Quiet ==
  \/ HandshakesDone \/ HandshakeWait \/ HandshakeEventsDone \/ ConnectThrows
  \/ Tick \/ NothingToSend \/ SendThrows \/ CountSent \/ Poll \/ AckEventsDone
  \/ Environment \/ UNCHANGED vars

\* Every step is of one of these kinds.
LEMMA StepKinds ==
  ASSUME [Next]_vars
  PROVE  \/ Quiet \/ HandshakeGivesUp \/ LoopEnds \/ SendNext
         \/ \E c \in Clients : StartConnect(c) \/ HandshakeEvent(c) \/ AckEvent(c)
  <1>1. CASE UNCHANGED vars
    BY <1>1 DEF Quiet
  <1>2. CASE Exited
    BY <1>2 DEF Quiet, Exited
  <1>3. CASE Environment
    BY <1>3 DEF Quiet
  <1>4. CASE Program
    BY <1>4 DEF Program, LocalStep, Quiet
  <1> QED BY <1>1, <1>2, <1>3, <1>4 DEF Next

\* A quiet step changes no client, count or connection.
LEMMA QuietEffect ==
  ASSUME Inv, Quiet
  PROVE  /\ Same /\ UNCHANGED order /\ (CountSent \/ UNCHANGED sent)
         /\ pc' \notin {"connect", "handshakes", "hevents"} \/ pc \in {"connect", "handshakes", "hevents"}
         /\ pc' = "done" => pc = "done"
         /\ pc' \in Connected => pc \in Connected
         /\ pc' \notin {"hevents", "acks"} => DOMAIN events' = DOMAIN events \/ DOMAIN events' = {}
         /\ pc' \notin {"hevents", "acks"} => pc \notin {"hevents", "acks"} \/ DOMAIN events' = {}
  <1> USE DEF Same, Connected, Issued
  <1>1. CASE HandshakesDone \/ HandshakeWait \/ HandshakeEventsDone \/ ConnectThrows
    BY <1>1 DEF HandshakesDone, HandshakeWait, HandshakeEventsDone, ConnectThrows
  <1>2. CASE Tick \/ Poll \/ AckEventsDone
    BY <1>2 DEF Tick, Poll, AckEventsDone
  <1>3. CASE NothingToSend \/ SendThrows
    BY <1>3 DEF NothingToSend, SendThrows, SendingDone
  <1>4. CASE Environment
    <2>1. CASE TimeUp
      BY <2>1 DEF TimeUp
    <2>2. ASSUME NEW c \in Clients, Establish(c) \/ Refuse(c) \/ Deliver(c) \/ ServerCloses(c)
          PROVE  UNCHANGED <<pc, order, clients, loopVars, countVars, events>>
      BY <2>2 DEF Establish, Refuse, Deliver, ServerCloses
    <2> QED BY <1>4, <2>1, <2>2 DEF Environment
  <1>5. CASE UNCHANGED vars
    BY <1>5 DEF vars
  <1>6. CASE CountSent
    BY <1>6 DEF CountSent, Inv, Typed
  <1> QED BY <1>1, <1>2, <1>3, <1>4, <1>5, <1>6 DEF Quiet

\* Every step keeps the books: what is sent was answered, is waited for, or lost.
LEMMA BooksStep ==
  ASSUME Inv, [Next]_vars
  PROVE  Books'
  <1>1. /\ Typed /\ Books /\ clients \in [Open -> Client] /\ sent \in Nat /\ acked \in Nat
        /\ Issued \in Nat
    BY IssuedType DEF Inv, Typed
  <1>2. CASE Quiet
    <2>1. UNCHANGED <<clients, Issued, acked>> /\ Waiting' = Waiting
      BY <1>2, QuietEffect, WaitingAfter DEF Same
    <2>2. CASE CountSent
      <3>1. pc = "sent" /\ pc' = "send" /\ UNCHANGED <<clients, events>>
        BY <2>2 DEF CountSent
      <3> QED BY <1>1, <2>1, <3>1 DEF Books, Open
    <2>3. CASE UNCHANGED sent
      BY <1>1, <1>2, <2>1, <2>3, QuietEffect DEF Books, Open
    <2> QED BY <1>2, <2>2, <2>3, QuietEffect
  <1>3. CASE HandshakeGivesUp
    <2>1. /\ UNCHANGED <<clients, Issued, acked, events>> /\ pc' = "loop" /\ pc = "handshakes"
          /\ Waiting' = Waiting
      BY <1>3, WaitingAfter DEF HandshakeGivesUp, Issued
    <2> QED BY <1>1, <2>1 DEF Books, Open
  <1>4. CASE LoopEnds
    <2>1. Open' = {} /\ UNCHANGED <<sent, acked, events>> /\ pc' = "done" /\ pc = "loop"
      BY <1>4 DEF LoopEnds, Open
    <2>2. sent = acked
      <3>1. acked >= sent
        BY <1>1, <1>4 DEF LoopEnds, LoopGoesOn
      <3>2. Issued - acked - Cardinality(Waiting) >= 0 /\ Cardinality(Waiting) \in Nat
        BY <1>1, WaitingFinite DEF Inv, ReportsAccounted, Typed
      <3>3. Issued = sent
        BY <1>1, <2>1, IssuedType
      <3> QED BY <1>1, <3>1, <3>2, <3>3
    <2> QED BY <1>1, <2>1, <2>2 DEF Books
  <1>5. CASE SendNext
    <2> DEFINE t == Turn
    <2>1. /\ t \in Open /\ clients' = [clients EXCEPT ![t] = Reported(clients[t])]
          /\ Reported(clients[t]).sequence = clients[t].sequence + 1
          /\ Issued' = Issued + 1 /\ pc = "send" /\ pc' = "sent" /\ UNCHANGED events
      BY <1>5, SendEffect
    <2> HIDE DEF t
    <2>2. \A c \in Open' : c \in Open /\ clients[c].sequence \in Nat /\ clients[c].sequence <= Issued
      BY <1>1, <2>1 DEF Books, Open, Client
    <2>3. \A c \in Open' : clients'[c].sequence <= Issued'
      <3> SUFFICES ASSUME NEW c \in Open'
                   PROVE  clients'[c].sequence <= Issued'
        OBVIOUS
      <3>1. clients'[c].sequence = clients[c].sequence + (IF c = t THEN 1 ELSE 0)
        BY <1>1, <2>1, <2>2
      <3> QED BY <1>1, <2>1, <2>2, <3>1
    <2> QED BY <1>1, <2>1, <2>3 DEF Books
  <1>6. ASSUME NEW c \in Clients, StartConnect(c)
        PROVE  Books'
    <2>1. /\ Open' = Open \cup {c} /\ pc = "connect" /\ pc' \in {"connect", "handshakes"}
          /\ clients'[c] = [phase |-> "Connecting", sequence |-> 0, receive_buffer |-> <<>>]
          /\ \A d \in Open : d # c /\ clients'[d] = clients[d]
          /\ UNCHANGED <<Issued, sent, acked, events>>
      BY <1>6 DEF StartConnect, Open, Issued
    <2>2. Waiting' = Waiting
      BY <2>1 DEF Waiting
    <2> QED BY <1>1, <2>1, <2>2 DEF Books
  <1>7. ASSUME NEW c \in Clients, HandshakeEvent(c)
        PROVE  Books'
    <2>1. pc = "hevents"
      BY <1>7 DEF HandshakeEvent
    <2>2. c \in Open /\ UNCHANGED <<pc, Issued, sent, acked>>
      BY <1>7, HandshakeEffect DEF Same, Dropped, HandshakeEvent, Drop
    <2>3. \A d \in Open' : /\ d \in Open /\ clients'[d].sequence = clients[d].sequence
                            /\ clients'[d].phase \in {clients[d].phase, "Ready"}
      <3>1. CASE Dropped(c)
        BY <3>1 DEF Dropped, Open
      <3>2. CASE UNCHANGED clients
        BY <3>2 DEF Open
      <3>3. CASE clients' = [clients EXCEPT ![c].phase = "Ready"]
        <4>1. Open' = Open
          BY <3>3 DEF Open
        <4>2. \A d \in Open : clients'[d] = IF d = c THEN [clients[d] EXCEPT !.phase = "Ready"] ELSE clients[d]
          BY <1>1, <2>2, <3>3
        <4>3. \A d \in Open : clients[d] \in Client
          BY <1>1
        <4> QED BY <4>1, <4>2, <4>3 DEF Client
      <3> QED BY <1>7, <3>1, <3>2, <3>3, HandshakeEffect DEF Same
    <2>4. Waiting' = {}
      <3>1. Waiting = {}
        BY <1>1, <2>1 DEF Books
      <3> QED BY <2>3, <3>1 DEF Waiting
    <2> QED BY <1>1, <2>1, <2>2, <2>3, <2>4 DEF Books
  <1>8. ASSUME NEW c \in Clients, AckEvent(c)
        PROVE  Books'
    <2>1. pc = "acks"
      BY <1>8 DEF AckEvent
    <2>2. c \in Open /\ UNCHANGED <<pc, Issued>>
      BY <1>8, AckEffect DEF Same, Dropped, AnswerTaken, PartTaken
    <2>3. \A d \in Open' : d \in Open /\ clients'[d].sequence = clients[d].sequence
      <3>1. CASE Dropped(c)
        BY <3>1 DEF Dropped, Open
      <3>2. CASE UNCHANGED clients
        BY <3>2 DEF Open
      <3>3. CASE PartTaken(c)
        <4>1. Appended(clients[c], inbox[c]).sequence = clients[c].sequence
          BY <1>1, <2>2, BytesTyped
        <4> QED BY <1>1, <2>2, <3>3, <4>1 DEF PartTaken, Open
      <3>4. CASE AnswerTaken(c)
        <4>1. clients[c] \in Client
          BY <1>1, <2>2
        <4>2. [clients[c] EXCEPT !.receive_buffer = <<>>, !.phase = "Ready"].sequence = clients[c].sequence
          BY <4>1 DEF Client
        <4> QED BY <1>1, <2>2, <3>4, <4>2 DEF AnswerTaken, Open
      <3> QED BY <1>8, <3>1, <3>2, <3>3, <3>4, AckEffect DEF Same
    <2> QED BY <1>1, <2>1, <2>2, <2>3 DEF Books
  <1> QED BY <1>2, <1>3, <1>4, <1>5, <1>6, <1>7, <1>8, StepKinds

\* What was sent is what was answered, what is waited for and what was lost.
LEMMA ReportsStep ==
  ASSUME Inv, [Next]_vars
  PROVE  ReportsAccounted'
  <1> DEFINE w == Cardinality(Waiting)
  <1>1. /\ Typed /\ Books /\ Issued \in Nat /\ acked \in Nat /\ errors \in Nat
        /\ Issued - acked - w \in 0 .. errors
    BY IssuedType DEF Inv, Typed, ReportsAccounted
  <1>2. IsFiniteSet(Waiting) /\ w \in Nat
    BY <1>1, WaitingFinite
  <1>3. ASSUME Waiting' = Waiting, Issued' = Issued, acked' = acked, errors' \in Nat, errors' >= errors
        PROVE  ReportsAccounted'
    BY <1>1, <1>2, <1>3 DEF ReportsAccounted
  <1>4. ASSUME NEW c \in Open, Dropped(c)
        PROVE  ReportsAccounted'
    <2>1. Waiting' = Waiting \ {c}
      BY <1>4, WaitingAfter
    <2>2. Cardinality(Waiting \ {c}) = IF c \in Waiting THEN w - 1 ELSE w
      BY <1>2, FS_RemoveElement
    <2>3. Cardinality(Waiting') \in {w, w - 1} /\ Cardinality(Waiting') = Cardinality(Waiting)'
      BY <2>1, <2>2
    <2>4. UNCHANGED <<Issued, acked>> /\ errors' = errors + 1
      BY <1>4 DEF Dropped
    <2> HIDE DEF w
    <2> QED BY <1>1, <1>2, <2>3, <2>4 DEF ReportsAccounted
  <1>5. CASE Quiet
    BY <1>1, <1>3, <1>5, QuietEffect, WaitingAfter DEF Same
  <1>6. CASE HandshakeGivesUp
    <2>1. Cardinality(Open) \in Nat
      BY <1>1, ClientsCount, FS_Subset, FS_CardinalityType DEF Typed
    <2>2. UNCHANGED <<clients, Issued, acked>> /\ errors' = errors + Cardinality(Open)
      BY <1>6 DEF HandshakeGivesUp, Issued
    <2> QED BY <1>1, <1>3, <2>1, <2>2, WaitingAfter
  <1>7. CASE LoopEnds
    <2>1. Waiting' = {}
      BY <1>7 DEF LoopEnds, Waiting, Open
    <2>2. UNCHANGED <<Issued, acked, errors>>
      BY <1>7 DEF LoopEnds, Issued
    <2>3. Issued' = acked'
      <3>1. sent' = acked' /\ pc' = "done"
        BY <1>7, BooksStep DEF Books, LoopEnds
      <3>2. Issued = sent /\ UNCHANGED <<sent, acked>>
        BY <1>1, <1>7, IssuedType DEF LoopEnds
      <3> QED BY <2>2, <3>1, <3>2
    <2>4. Cardinality(Waiting)' = 0
      BY <2>1, FS_EmptySet
    <2> QED BY <1>1, <2>2, <2>3, <2>4 DEF ReportsAccounted
  <1>8. CASE SendNext
    <2>1. Turn \notin Waiting /\ UNCHANGED <<acked, errors>> /\ Issued' = Issued + 1
      BY <1>8, SendEffect
    <2>2. Waiting' = Waiting \cup {Turn}
      BY <1>8, WaitingAfter
    <2>3. Cardinality(Waiting)' = w + 1
      BY <1>2, <2>1, <2>2, FS_AddElement
    <2> HIDE DEF w
    <2> QED BY <1>1, <1>2, <2>1, <2>3 DEF ReportsAccounted
  <1>9. ASSUME NEW c \in Clients, StartConnect(c)
        PROVE  ReportsAccounted'
    <2>1. Waiting' = Waiting
      BY <1>9 DEF StartConnect, Waiting, Open
    <2>2. UNCHANGED <<Issued, acked, errors>>
      BY <1>9 DEF StartConnect, Issued
    <2> QED BY <1>1, <1>3, <2>1, <2>2
  <1>10. ASSUME NEW c \in Clients, HandshakeEvent(c)
         PROVE  ReportsAccounted'
    <2>1. CASE Dropped(c)
      BY <1>4, <1>10, <2>1, HandshakeEffect
    <2>2. CASE ~Dropped(c)
      <3>1. UNCHANGED <<Issued, acked, errors>>
        BY <1>10, <2>2, HandshakeEffect DEF Same
      <3>2. Waiting = {} /\ Waiting' = {}
        BY <1>1, <1>10, BooksStep DEF Books, HandshakeEvent
      <3> QED BY <1>1, <1>3, <3>1, <3>2
    <2> QED BY <2>1, <2>2
  <1>11. ASSUME NEW c \in Clients, AckEvent(c)
         PROVE  ReportsAccounted'
    <2>1. CASE Dropped(c)
      BY <1>4, <1>11, <2>1, AckEffect
    <2>2. CASE Same
      BY <1>1, <1>3, <2>2, WaitingAfter DEF Same
    <2>3. CASE PartTaken(c)
      <3>1. c \in Open
        BY <1>11, AckEffect
      <3>2. Waiting' = Waiting
        BY <2>3, <3>1, WaitingAfter
      <3>3. UNCHANGED <<Issued, acked, errors>>
        BY <2>3 DEF PartTaken
      <3> QED BY <1>1, <1>3, <3>2, <3>3
    <2>4. CASE AnswerTaken(c)
      <3>1. c \in Waiting /\ c \in Open /\ acked' = acked + 1 /\ UNCHANGED <<Issued, errors>>
        BY <1>11, <2>4, AckEffect DEF AnswerTaken
      <3>2. Waiting' = Waiting \ {c}
        BY <2>4, <3>1, WaitingAfter
      <3>3. Cardinality(Waiting)' = w - 1
        BY <1>2, <3>1, <3>2, FS_RemoveElement
      <3> HIDE DEF w
      <3> QED BY <1>1, <1>2, <3>1, <3>3 DEF ReportsAccounted
    <2> QED BY <1>11, <2>1, <2>2, <2>3, <2>4, AckEffect
  <1> QED BY <1>5, <1>6, <1>7, <1>8, <1>9, <1>10, <1>11, StepKinds

-----------------------------------------------------------------------------
(* The answer in flight, for one connection.                               *)

\* AckMatchesReport for a client, what the kernel received, what the server
\* owes, and the state of the link.
Due(client, received, owed, l) ==
  LET bytes == client.receive_buffer \o received \o owed
      due == AckLine(client.sequence)
  IN  IF client.phase # "WaitingAck" THEN bytes = <<>>
      ELSE IF l = "up" THEN bytes = due
      ELSE \E n \in 0 .. 2 : bytes = SubSeq(due, 1, n)

\* The property about all answers is one about each connection.
LEMMA AckPerConnection ==
  /\ AckMatchesReport <=> \A c \in Open : Due(clients[c], inbox[c], reply[c], link[c])
  /\ AckMatchesReport' <=> \A c \in Open' : Due(clients'[c], inbox'[c], reply'[c], link'[c])
  BY DEF AckMatchesReport, Due, Waiting

\* The bytes are always the first part of the answer, or nothing.
LEMMA DuePrefix ==
  ASSUME NEW client \in Client, NEW received \in Seq(Chunk), NEW owed \in Seq(Chunk), NEW l,
         Due(client, received, owed, l), client.phase = "WaitingAck"
  PROVE  \E n \in 0 .. 2 : (client.receive_buffer \o received) \o owed = SubSeq(AckLine(client.sequence), 1, n)
  <1>1. client.sequence \in Nat
    BY DEF Client
  <1>2. AckLine(client.sequence) = SubSeq(AckLine(client.sequence), 1, 2)
    BY <1>1, AckLineType
  <1>3. IF l = "up" THEN (client.receive_buffer \o received) \o owed = AckLine(client.sequence)
        ELSE \E n \in 0 .. 2 : (client.receive_buffer \o received) \o owed = SubSeq(AckLine(client.sequence), 1, n)
    BY Zenon DEF Due
  <1>4. 2 \in 0 .. 2
    OBVIOUS
  <1> QED BY <1>2, <1>3, <1>4, Zenon

\* A client that does not wait has no byte of an answer on its way.
LEMMA DueNothing ==
  ASSUME NEW client \in Client, NEW received \in Seq(Chunk), NEW owed \in Seq(Chunk), NEW l,
         Due(client, received, owed, l), client.phase # "WaitingAck"
  PROVE  client.receive_buffer = <<>> /\ received = <<>> /\ owed = <<>>
  <1>1. client.receive_buffer \in Seq(Chunk)
    BY DEF Client
  <1>2. client.receive_buffer \o received \in Seq(Chunk)
    BY <1>1, ConcatProperties
  <1>3. (client.receive_buffer \o received) \o owed = <<>>
    BY Zenon DEF Due
  <1>4. client.receive_buffer \o received = <<>> /\ owed = <<>>
    BY <1>2, <1>3, ConcatEqualIffEmpty
  <1> QED BY <1>1, <1>4, ConcatEqualIffEmpty

\* Only a client that waits sees the state of its link.
LEMMA DueIdle ==
  ASSUME NEW client \in Client, client.phase # "WaitingAck", client.receive_buffer = <<>>, NEW l
  PROVE  Due(client, <<>>, <<>>, l)
  <1>1. <<>> \o <<>> = <<>>
    BY ConcatEmptySeq, EmptySeq
  <1> QED BY <1>1 DEF Due

\* A byte that arrives moves from the server to the kernel.
LEMMA DueDelivered ==
  ASSUME NEW client \in Client, NEW received \in Seq(Chunk), NEW owed \in Seq(Chunk), NEW l,
         Due(client, received, owed, l), owed # <<>>
  PROVE  Due(client, Append(received, Head(owed)), Tail(owed), l)
  <1> DEFINE buffer == client.receive_buffer
             h == Head(owed)
             rest == Tail(owed)
             one == <<h>>
  <1>1. buffer \in Seq(Chunk)
    BY DEF Client
  <1>2. h \in Chunk /\ rest \in Seq(Chunk) /\ <<h>> \in Seq(Chunk)
    BY HeadTailProperties
  <1>3. owed = <<h>> \o rest
    <2>1. Len(owed) \in Nat \ {0}
      BY EmptySeq
    <2>2. SubSeq(owed, 1, Len(owed)) = <<owed[1]>> \o SubSeq(owed, 2, Len(owed))
      <3>1. 1 \in 1 .. Len(owed) /\ Len(owed) \in 1 .. Len(owed) /\ 1 + 1 = 2
        BY <2>1
      <3> QED BY <3>1, SubSeqRecursiveFirst
    <2>3. owed[1] = h
      OBVIOUS
    <2> QED BY <2>2, <2>3, SubSeqFull, TailIsSubSeq
  <1>4. Append(received, h) = received \o one
    BY <1>2, AppendIsConcat
  <1> HIDE DEF buffer, h, rest, one
  <1>5. one \in Seq(Chunk) /\ owed = one \o rest /\ buffer \in Seq(Chunk) /\ rest \in Seq(Chunk)
    BY <1>1, <1>2, <1>3 DEF one
  <1>6. buffer \o (received \o one) \o rest = buffer \o received \o owed
    <2>1. PICK p, q, r, s \in Seq(Chunk) : p = buffer /\ q = received /\ r = one /\ s = rest
      BY <1>5
    <2> DEFINE left == p \o (q \o r) \o s
               right == p \o q \o (r \o s)
               n == Len(p) + Len(q) + Len(r) + Len(s)
    <2>2. /\ p \o q \in Seq(Chunk) /\ q \o r \in Seq(Chunk) /\ r \o s \in Seq(Chunk)
          /\ p \o (q \o r) \in Seq(Chunk)
      OBVIOUS
    <2>3. left \in Seq(Chunk) /\ right \in Seq(Chunk)
      BY <2>2
    <2>4. Len(left) = n /\ Len(right) = n
      BY <2>2
    <2>5. ASSUME NEW i \in 1 .. n PROVE left[i] = right[i]
      OBVIOUS
    <2>6. left = right
      BY <2>3, <2>4, <2>5, SeqEqual
    <2> QED BY <1>5, <2>1, <2>6, Zenon
  <1> QED BY <1>4, <1>6, Zenon DEF Due, buffer, h, rest

\* What a server that closes its end takes back is the last part.
LEMMA DueCut ==
  ASSUME NEW client \in Client, NEW received \in Seq(Chunk), NEW owed \in Seq(Chunk), NEW l,
         Due(client, received, owed, l), NEW m \in {"eof", "reset"}
  PROVE  Due(client, received, <<>>, m)
  <1> DEFINE s == client.receive_buffer \o received
  <1>1. client.receive_buffer \in Seq(Chunk) /\ client.sequence \in Nat
    BY DEF Client
  <1>2. s \in Seq(Chunk)
    BY <1>1, ConcatProperties
  <1>3. CASE client.phase # "WaitingAck"
    BY <1>3, DueNothing, DueIdle
  <1>4. CASE client.phase = "WaitingAck"
    <2>1. PICK n \in 0 .. 2 : s \o owed = SubSeq(AckLine(client.sequence), 1, n)
      BY <1>4, DuePrefix
    <2> HIDE DEF s
    <2>2. Len(s) \in 0 .. 2 /\ s = SubSeq(AckLine(client.sequence), 1, Len(s))
      BY <1>1, <1>2, <2>1, PartOfAnswer
    <2>3. s \o <<>> = s
      BY <1>2, ConcatEmptySeq
    <2>4. \E k \in 0 .. 2 : s \o <<>> = SubSeq(AckLine(client.sequence), 1, k)
      BY <2>2, <2>3
    <2>5. m # "up"
      OBVIOUS
    <2> QED BY <1>4, <2>4, <2>5, Zenon DEF Due, s
  <1> QED BY <1>3, <1>4

\* recv() moves bytes from the kernel to the buffer.
LEMMA DueRead ==
  ASSUME NEW client \in Client, NEW received \in Seq(Chunk), NEW owed \in Seq(Chunk), NEW l,
         Due(client, received, owed, l)
  PROVE  Due(Appended(client, received), <<>>, owed, l)
  <1> DEFINE s == client.receive_buffer \o received
  <1>1. s \in Seq(Chunk)
    BY ConcatProperties DEF Client
  <1>2. /\ Appended(client, received).receive_buffer = s
        /\ Appended(client, received).sequence = client.sequence
        /\ Appended(client, received).phase = client.phase
    BY DEF Appended, Client
  <1>3. s \o <<>> = s
    BY <1>1, ConcatEmptySeq
  <1> QED BY <1>2, <1>3 DEF Due

\* send_status: the server owes the answer to the new report.
LEMMA DueReported ==
  ASSUME NEW client \in Client, NEW received \in Seq(Chunk), NEW owed \in Seq(Chunk), NEW l,
         Due(client, received, owed, l), client.phase = "Ready"
  PROVE  /\ l = "up" => Due(Reported(client), received, owed \o AckLine(client.sequence + 1), l)
         /\ l # "up" => Due(Reported(client), received, owed, l)
  <1> DEFINE next == client.sequence + 1
  <1>1. client.receive_buffer = <<>> /\ received = <<>> /\ owed = <<>>
    BY DueNothing
  <1>2. next \in Nat
    BY DEF Client
  <1>3. /\ Reported(client).sequence = next /\ Reported(client).phase = "WaitingAck"
        /\ Reported(client).receive_buffer = <<>>
    BY <1>1, ReportedValue
  <1> HIDE DEF next
  <1>4. /\ <<>> \o AckLine(next) = AckLine(next) /\ <<>> \o <<>> = <<>>
        /\ <<>> = SubSeq(AckLine(next), 1, 0) /\ 0 \in 0 .. 2
    BY <1>2, AckLineType, ConcatEmptySeq, EmptySeq
  <1>5. l = "up" => Due(Reported(client), received, owed \o AckLine(next), l)
    BY <1>1, <1>3, <1>4 DEF Due
  <1>6. l # "up" => Due(Reported(client), received, owed, l)
    BY <1>1, <1>3, <1>4 DEF Due
  <1> QED BY <1>5, <1>6 DEF next

\* Every step keeps the answers where they belong.
LEMMA WireStep ==
  ASSUME Inv, [Next]_vars
  PROVE  Wire' /\ AckMatchesReport'
  <1> DEFINE Fits(c) == Due(clients[c], inbox[c], reply[c], link[c])
  <1>1. /\ Typed /\ Wire /\ clients \in [Open -> Client] /\ Open \subseteq Clients
        /\ \A c \in Open : Fits(c)
    BY AckPerConnection DEF Inv, Typed
  <1>2. /\ link \in [Clients -> {"none", "syn", "up", "eof", "reset"}]
        /\ reply \in [Clients -> Seq(Chunk)] /\ inbox \in [Clients -> Seq(Chunk)]
        /\ DOMAIN events \subseteq Open
    BY DEF Inv, Typed
  <1>3. \A c \in Open : clients[c] \in Client /\ inbox[c] \in Seq(Chunk) /\ reply[c] \in Seq(Chunk)
    BY <1>1, <1>2
  \* Nothing happens to a connection, but its event may be taken.
  <1>4. ASSUME UNCHANGED <<clients, link, reply, inbox>>,
               \A c \in DOMAIN events' : "out" \in events'[c] => link[c] \in WasUp
        PROVE  Wire' /\ AckMatchesReport'
    BY <1>1, <1>4, AckPerConnection DEF Wire, Open
  <1>5. ASSUME UNCHANGED <<clients, link, reply, inbox, events>>
        PROVE  Wire' /\ AckMatchesReport'
    BY <1>1, <1>4, <1>5 DEF Wire
  <1>6. CASE Quiet
    <2>1. CASE \/ HandshakesDone \/ HandshakeEventsDone \/ ConnectThrows \/ Tick \/ CountSent
               \/ AckEventsDone
      BY <1>5, <2>1 DEF HandshakesDone, HandshakeEventsDone, ConnectThrows, Tick, CountSent,
         AckEventsDone
    <2>2. CASE NothingToSend \/ SendThrows
      BY <1>5, <2>2 DEF NothingToSend, SendThrows, SendingDone
    <2>3. CASE HandshakeWait \/ Poll
      <3>1. UNCHANGED <<clients, link, reply, inbox>>
        BY <2>3 DEF HandshakeWait, Poll
      <3>2. PICK batch \in Batches : events' = [c \in batch |-> Flags(c)]
        BY <2>3 DEF HandshakeWait, Poll
      <3>3. \A c \in DOMAIN events' : "out" \in events'[c] => link[c] \in WasUp
        BY <1>1, <3>2, BatchKnown
      <3> QED BY <1>4, <3>1, <3>3
    <2>4. CASE Environment
      <3>1. CASE TimeUp
        BY <1>5, <3>1 DEF TimeUp
      <3>2. ASSUME NEW c \in Clients, Establish(c) \/ Refuse(c)
            PROVE  Wire' /\ AckMatchesReport'
        <4>1. /\ link[c] = "syn" /\ UNCHANGED <<clients, reply, inbox, events>>
              /\ link' = [link EXCEPT ![c] = link'[c]] /\ link'[c] \in {"up", "reset"}
          BY <1>2, <3>2 DEF Establish, Refuse
        <4>2. Wire'
          BY <1>1, <1>2, <4>1 DEF Wire, Open, WasUp
        <4>3. ASSUME NEW d \in Open
              PROVE  Due(clients[d], inbox[d], reply[d], link'[d])
          <5>1. CASE d # c
            BY <1>1, <1>2, <4>1, <5>1
          <5>2. CASE d = c
            <6>1. clients[d].phase # "WaitingAck"
              BY <1>1, <4>1, <5>2 DEF Wire, WasUp
            <6>2. Fits(d) /\ clients[d] \in Client /\ inbox[d] \in Seq(Chunk) /\ reply[d] \in Seq(Chunk)
              BY <1>1, <1>3
            <6>3. clients[d].receive_buffer = <<>> /\ inbox[d] = <<>> /\ reply[d] = <<>>
              BY <6>1, <6>2, DueNothing
            <6> QED BY <6>1, <6>2, <6>3, DueIdle
          <5> QED BY <5>1, <5>2
        <4>4. Open' = Open
          BY <4>1 DEF Open
        <4> QED BY <4>1, <4>2, <4>3, <4>4, AckPerConnection
      <3>3. ASSUME NEW c \in Clients, Deliver(c)
            PROVE  Wire' /\ AckMatchesReport'
        <4>1. /\ reply[c] # <<>> /\ UNCHANGED <<clients, link, events>>
              /\ inbox' = [inbox EXCEPT ![c] = Append(inbox[c], Head(reply[c]))]
              /\ reply' = [reply EXCEPT ![c] = Tail(reply[c])]
          BY <3>3 DEF Deliver
        <4>2. c \in Open
          BY <1>1, <4>1 DEF Wire
        <4>3. Wire'
          BY <1>1, <1>2, <4>1, <4>2 DEF Wire, Open
        <4>4. Due(clients[c], Append(inbox[c], Head(reply[c])), Tail(reply[c]), link[c])
          BY <1>1, <1>3, <4>1, <4>2, DueDelivered
        <4>5. \A d \in Open : Due(clients[d], inbox'[d], reply'[d], link[d])
          BY <1>1, <1>2, <4>1, <4>4
        <4>6. Open' = Open
          BY <4>1 DEF Open
        <4> QED BY <4>1, <4>3, <4>5, <4>6, AckPerConnection
      <3>4. ASSUME NEW c \in Clients, ServerCloses(c)
            PROVE  Wire' /\ AckMatchesReport'
        <4>1. /\ UNCHANGED <<clients, inbox, events>> /\ reply' = [reply EXCEPT ![c] = <<>>]
              /\ link' = [link EXCEPT ![c] = link'[c]] /\ link'[c] \in {"eof", "reset"}
          BY <1>2, <3>4 DEF ServerCloses
        <4>2. Wire'
          BY <1>1, <1>2, <4>1 DEF Wire, Open, WasUp
        <4>3. c \in Open => Due(clients[c], inbox[c], <<>>, link'[c])
          BY <1>1, <1>3, <4>1, DueCut
        <4>4. \A d \in Open : Due(clients[d], inbox[d], reply'[d], link'[d])
          BY <1>1, <1>2, <4>1, <4>3
        <4>5. Open' = Open
          BY <4>1 DEF Open
        <4> QED BY <4>1, <4>2, <4>4, <4>5, AckPerConnection
      <3> QED BY <2>4, <3>1, <3>2, <3>3, <3>4 DEF Environment
    <2>5. CASE UNCHANGED vars
      BY <1>5, <2>5 DEF vars
    <2> QED BY <1>6, <2>1, <2>2, <2>3, <2>4, <2>5 DEF Quiet
  <1>7. CASE HandshakeGivesUp
    BY <1>5, <1>7 DEF HandshakeGivesUp
  <1>8. CASE LoopEnds
    <2>1. Open' = {} /\ UNCHANGED <<events, link, reply, inbox>>
      BY <1>8 DEF LoopEnds, Open
    <2>2. DOMAIN events = {} /\ Waiting = {}
      <3>1. DOMAIN events = {} /\ Issued = acked
        <4>1. sent = acked /\ pc = "loop"
          BY <1>8, BooksStep DEF Books, LoopEnds
        <4>2. DOMAIN events = {}
          BY <4>1 DEF Inv, Books
        <4> QED BY <1>1, <4>1, <4>2, IssuedType
      <3>2. 0 - Cardinality(Waiting) >= 0 /\ Cardinality(Waiting) \in Nat
        BY <1>1, <3>1, WaitingFinite DEF Inv, ReportsAccounted, Typed
      <3> QED BY <1>1, <3>1, <3>2, WaitingFinite, FS_EmptySet
    <2>3. \A c \in Open : reply[c] = <<>> /\ inbox[c] = <<>>
      <3> SUFFICES ASSUME NEW c \in Open
                   PROVE  reply[c] = <<>> /\ inbox[c] = <<>>
        OBVIOUS
      <3>1. Fits(c) /\ clients[c].phase # "WaitingAck"
        BY <1>1, <2>2 DEF Waiting
      <3>2. clients[c] \in Client /\ inbox[c] \in Seq(Chunk) /\ reply[c] \in Seq(Chunk)
        BY <1>3
      <3> QED BY <3>1, <3>2, DueNothing
    <2>4. Wire'
      BY <1>1, <2>1, <2>2, <2>3 DEF Wire
    <2> QED BY <2>1, <2>4, AckPerConnection
  <1>9. CASE SendNext
    <2> DEFINE t == Turn
               r == Reported(clients[t])
    <2>1. /\ t \in Open /\ t \in Clients /\ clients[t].phase = "Ready" /\ link[t] \in {"up", "eof"}
          /\ clients' = [clients EXCEPT ![t] = r] /\ r.phase = "WaitingAck"
          /\ UNCHANGED <<events, link, inbox>>
      BY <1>9, SendEffect
    <2>2. /\ link[t] = "up" => reply' = [reply EXCEPT ![t] = reply[t] \o AckLine(clients[t].sequence + 1)]
          /\ link[t] # "up" => reply' = reply
      BY <1>9 DEF SendNext
    <2>3. /\ link[t] = "up" => Due(r, inbox[t], reply[t] \o AckLine(clients[t].sequence + 1), link[t])
          /\ link[t] # "up" => Due(r, inbox[t], reply[t], link[t])
      BY <1>1, <1>3, <2>1, DueReported
    <2> HIDE DEF t, r
    <2>4. Open' = Open
      BY <2>1 DEF Open
    <2>5. Wire'
      BY <1>1, <1>2, <2>1, <2>2, <2>4 DEF Wire, WasUp
    <2>6. \A d \in Open : Due(clients'[d], inbox[d], reply'[d], link[d])
      BY <1>1, <1>2, <2>1, <2>2, <2>3
    <2> QED BY <2>1, <2>4, <2>5, <2>6, AckPerConnection
  <1>10. ASSUME NEW c \in Clients, StartConnect(c)
         PROVE  Wire' /\ AckMatchesReport'
    <2> DEFINE new == [phase |-> "Connecting", sequence |-> 0, receive_buffer |-> <<>>]
    <2>1. /\ c \notin Open /\ Open' = Open \cup {c} /\ UNCHANGED <<events, reply, inbox>> /\ pc = "connect"
          /\ clients'[c] = new /\ \A d \in Open : d # c /\ clients'[d] = clients[d]
          /\ link' = [link EXCEPT ![c] = "syn"]
      BY <1>10 DEF StartConnect, Open
    <2>2. new.phase # "WaitingAck" /\ new.phase = "Connecting" /\ new.receive_buffer = <<>> /\ new \in Client
      BY DEF Client, Phases
    <2> HIDE DEF new
    <2>3. reply[c] = <<>> /\ inbox[c] = <<>> /\ DOMAIN events = {}
      BY <1>1, <2>1 DEF Wire, Inv, Books
    <2>4. Wire'
      BY <1>1, <1>2, <2>1, <2>2, <2>3 DEF Wire
    <2>5. Due(new, <<>>, <<>>, "syn")
      BY <2>2, DueIdle
    <2>6. \A d \in Open' : Due(clients'[d], inbox[d], reply[d], link'[d])
      BY <1>1, <1>2, <2>1, <2>3, <2>5
    <2> QED BY <2>1, <2>4, <2>6, AckPerConnection
  \* A connection that is dropped takes its bytes along.
  <1>11. ASSUME NEW c \in Open, Dropped(c), close_client(c), UNCHANGED link,
                \A d \in DOMAIN events' : d # c /\ d \in DOMAIN events /\ events'[d] = events[d]
         PROVE  Wire' /\ AckMatchesReport'
    <2>1. /\ Open' = Open \ {c} /\ \A d \in Open' : clients'[d] = clients[d]
          /\ reply' = [reply EXCEPT ![c] = <<>>] /\ inbox' = [inbox EXCEPT ![c] = <<>>]
      BY <1>11 DEF Dropped, close_client, Open
    <2>2. Wire'
      BY <1>1, <1>2, <1>11, <2>1 DEF Wire
    <2>3. \A d \in Open' : Due(clients'[d], inbox'[d], reply'[d], link[d])
      BY <1>1, <1>2, <2>1
    <2> QED BY <1>11, <2>2, <2>3, AckPerConnection
  <1>12. ASSUME NEW c \in Clients, HandshakeEvent(c)
         PROVE  Wire' /\ AckMatchesReport'
    <2>1. /\ c \in Open /\ DOMAIN events' = DOMAIN events \ {c}
          /\ \A d \in DOMAIN events \ {c} : events'[d] = events[d]
      BY <1>12, HandshakeEffect
    <2>2. CASE Dropped(c) /\ close_client(c) /\ UNCHANGED link
      BY <1>11, <2>1, <2>2
    <2>3. CASE Same /\ UNCHANGED <<link, reply, inbox>>
      BY <1>1, <1>4, <2>1, <2>3 DEF Same, Wire
    <2>4. CASE /\ clients' = [clients EXCEPT ![c].phase = "Ready"]
               /\ "out" \in events[c] /\ UNCHANGED <<Issued, acked, errors, link, reply, inbox>>
      <3> DEFINE r == [clients[c] EXCEPT !.phase = "Ready"]
      <3>1. clients' = [clients EXCEPT ![c] = r] /\ UNCHANGED <<link, reply, inbox>> /\ Open' = Open
        BY <2>4 DEF Open
      <3>2. clients[c] \in Client
        BY <1>3, <2>1
      <3>3. r \in Client /\ r.phase = "Ready" /\ r.phase # "WaitingAck" /\ r.receive_buffer = clients[c].receive_buffer
        BY <3>2 DEF Client, Phases
      <3>4. clients[c].phase # "WaitingAck"
        <4>1. Waiting = {}
          BY <1>12 DEF HandshakeEvent, Inv, Books
        <4> QED BY <2>1, <4>1 DEF Waiting
      <3>5. link[c] \in WasUp
        <4>1. c \in DOMAIN events
          BY <1>12 DEF HandshakeEvent
        <4> QED BY <1>1, <2>4, <4>1 DEF Wire
      <3> HIDE DEF r
      <3>6. Due(r, inbox[c], reply[c], link[c])
        <4>1. Fits(c) /\ inbox[c] \in Seq(Chunk) /\ reply[c] \in Seq(Chunk)
          BY <1>1, <1>3, <2>1
        <4>2. clients[c].receive_buffer = <<>> /\ inbox[c] = <<>> /\ reply[c] = <<>>
          BY <3>2, <3>4, <4>1, DueNothing
        <4> QED BY <3>3, <4>2, DueIdle
      <3>7. Wire'
        BY <1>1, <2>1, <3>1, <3>3, <3>5 DEF Wire
      <3>8. \A d \in Open : Due(clients'[d], inbox[d], reply[d], link[d])
        BY <1>1, <3>1, <3>6
      <3> QED BY <3>1, <3>7, <3>8, AckPerConnection
    <2> QED BY <1>12, <2>2, <2>3, <2>4, HandshakeEffect
  <1>13. ASSUME NEW c \in Clients, AckEvent(c)
         PROVE  Wire' /\ AckMatchesReport'
    <2>1. /\ c \in Open /\ DOMAIN events' = DOMAIN events \ {c}
          /\ \A d \in DOMAIN events \ {c} : events'[d] = events[d]
      BY <1>13, AckEffect
    <2>2. CASE Dropped(c) /\ close_client(c) /\ UNCHANGED link
      BY <1>11, <2>1, <2>2
    <2>3. CASE Same /\ UNCHANGED <<link, reply, inbox>>
      BY <1>1, <1>4, <2>1, <2>3 DEF Same, Wire
    \* Either the buffer or the line changes, and what was received is read.
    <2>4. ASSUME NEW r \in Client, clients' = [clients EXCEPT ![c] = r], clients[c].phase # "Connecting",
                 Due(r, <<>>, reply[c], link[c]),
                 inbox' = [inbox EXCEPT ![c] = <<>>], UNCHANGED <<link, reply>>
          PROVE  Wire' /\ AckMatchesReport'
      <3>1. Open' = Open
        BY <2>4 DEF Open
      <3>2. Wire'
        BY <1>1, <1>2, <2>1, <2>4, <3>1 DEF Wire
      <3>3. \A d \in Open : Due(clients'[d], inbox'[d], reply[d], link[d])
        BY <1>1, <1>2, <2>1, <2>4
      <3> QED BY <2>4, <3>1, <3>2, <3>3, AckPerConnection
    <2>5. clients[c] \in Client /\ Fits(c) /\ inbox[c] \in Seq(Chunk) /\ reply[c] \in Seq(Chunk)
      BY <1>1, <1>3, <2>1
    <2>6. CASE AnswerTaken(c) /\ reply[c] = <<>> /\ inbox' = [inbox EXCEPT ![c] = <<>>] /\ UNCHANGED <<link, reply>>
      <3> DEFINE r == [clients[c] EXCEPT !.receive_buffer = <<>>, !.phase = "Ready"]
      <3>1. <<>> \in Seq(Chunk)
        OBVIOUS
      <3>2. r \in Client /\ r.phase # "WaitingAck" /\ r.receive_buffer = <<>>
        BY <2>5, <3>1 DEF Client, Phases
      <3>3. clients' = [clients EXCEPT ![c] = r] /\ clients[c].phase # "Connecting"
        BY <2>6 DEF AnswerTaken, Waiting
      <3> HIDE DEF r
      <3>4. Due(r, <<>>, reply[c], link[c])
        BY <2>6, <3>2, DueIdle
      <3> QED BY <2>4, <2>6, <3>2, <3>3, <3>4
    <2>7. CASE PartTaken(c) /\ inbox' = [inbox EXCEPT ![c] = <<>>] /\ UNCHANGED <<link, reply>>
      <3> DEFINE r == Appended(clients[c], inbox[c])
      <3>1. r \in Client
        BY <1>1, <2>1, BytesTyped
      <3>2. clients' = [clients EXCEPT ![c] = r] /\ clients[c].phase # "Connecting"
        BY <2>7 DEF PartTaken, Waiting
      <3>3. Due(r, <<>>, reply[c], link[c])
        BY <2>5, DueRead
      <3> HIDE DEF r
      <3> QED BY <2>4, <2>7, <3>1, <3>2, <3>3
    <2> QED BY <1>13, <2>2, <2>3, <2>6, <2>7, AckEffect
  <1> QED BY <1>6, <1>7, <1>8, <1>9, <1>10, <1>12, <1>13, StepKinds

-----------------------------------------------------------------------------
(* The turns.                                                              *)

\* With every client in the map, the turn goes round the iteration order.
LEMMA TurnIsNext ==
  ASSUME Inv, SendNext, Open = Clients
  PROVE  (Issued % N) + 1 \in 1 .. N /\ Turn = order[(Issued % N) + 1]
  <1>1. OrderOK /\ next_client_index = Issued /\ Issued \in Nat /\ Open # {} /\ N \in Nat \ {0}
    BY ClientsCount, IssuedType DEF Inv, Typed, SendNext, MaySend
  <1>2. PICK i \in 1 .. N : Turn = order[i] /\ Ahead(i) = next_client_index % Cardinality(Open)
    BY <1>1, TurnReached
  <1>3. {j \in 1 .. i - 1 : order[j] \in Open} = 1 .. i - 1
    BY <1>1 DEF OrderOK
  <1>4. Cardinality(1 .. i - 1) = i - 1
    <2>1. 1 \in Int /\ i - 1 \in Int /\ i >= 1
      BY <1>1
    <2>2. Cardinality(1 .. i - 1) = IF 1 > i - 1 THEN 0 ELSE (i - 1) - 1 + 1
      BY <2>1, FS_Interval
    <2> QED BY <2>1, <2>2
  <1>5. i - 1 = Issued % N
    BY <1>1, <1>2, <1>3, <1>4 DEF Ahead, N
  <1> QED BY <1>1, <1>2, <1>5

\* Every step keeps the rotation.
LEMMA TurnsStep ==
  ASSUME Inv, [Next]_vars
  PROVE  Turns'
  <1>1. /\ Typed /\ OrderOK /\ Books /\ Turns /\ clients \in [Open -> Client] /\ Open \subseteq Clients
        /\ Issued \in Nat /\ errors \in Nat /\ N \in Nat \ {0}
    BY ClientsCount, IssuedType DEF Inv, Typed
  <1>2. ASSUME errors' = 0 => errors = 0,
               errors' = 0 => (pc' \in Connected => pc \in Connected),
               errors' = 0 => Open' = Open /\ \A c \in Open : clients'[c].sequence = clients[c].sequence,
               UNCHANGED <<order, Issued>>
        PROVE  Turns'
    BY <1>1, <1>2 DEF Turns, Lead
  <1>3. CASE Quiet
    <2>1. UNCHANGED <<clients, errors, Issued, order>> /\ (pc' \in Connected => pc \in Connected)
      BY <1>3, QuietEffect DEF Same
    <2> QED BY <1>2, <2>1 DEF Open
  <1>4. CASE HandshakeGivesUp
    <2>1. Cardinality(Open) \in Nat
      BY <1>1, ClientsCount, FS_Subset, FS_CardinalityType
    <2>2. /\ UNCHANGED <<clients, Issued, order>> /\ errors' = errors + Cardinality(Open)
          /\ pc = "handshakes" /\ Open' = Open
      BY <1>4 DEF HandshakeGivesUp, Open, Issued
    <2> QED BY <1>1, <1>2, <2>1, <2>2 DEF Connected
  <1>5. CASE LoopEnds
    <2>1. Open' = {} /\ pc' = "done"
      BY <1>5 DEF LoopEnds, Open
    <2> QED BY <2>1 DEF Turns, Connected
  <1>6. CASE SendNext
    <2> SUFFICES ASSUME errors' = 0
                 PROVE  /\ Open' = Clients
                        /\ \A i, j \in 1 .. N : i < j =>
                             clients'[order[i]].sequence = clients'[order[j]].sequence + Lead(i, j)'
      BY <1>6, SendEffect DEF Turns
    <2> DEFINE k == (Issued % N) + 1
               t == Turn
               r == Reported(clients[t])
    <2>1. /\ t \in Open /\ clients' = [clients EXCEPT ![t] = r] /\ r.sequence = clients[t].sequence + 1
          /\ Issued' = Issued + 1 /\ pc = "send" /\ UNCHANGED <<order, errors>>
      BY <1>6, SendEffect
    <2>2. Open = Clients /\ Open' = Open
      BY <1>1, <2>1 DEF Turns, Connected, Open
    <2>3. k \in 1 .. N /\ t = order[k]
      BY <1>6, <2>2, TurnIsNext
    <2>4. Issued' % N = IF k = N THEN 0 ELSE k
      BY <1>1, <2>1, NextRemainder
    <2>5. Issued % N = k - 1
      BY <1>1, DivMod
    <2> HIDE DEF k, t, r
    <2>6. \A i \in 1 .. N : order[i] \in Open /\ clients[order[i]].sequence \in Nat
      BY <1>1, <2>2 DEF OrderOK, Client
    <2>7. \A i \in 1 .. N : clients'[order[i]].sequence
                              = clients[order[i]].sequence + (IF i = k THEN 1 ELSE 0)
      <3> SUFFICES ASSUME NEW i \in 1 .. N
                   PROVE  clients'[order[i]].sequence
                            = clients[order[i]].sequence + (IF i = k THEN 1 ELSE 0)
        OBVIOUS
      <3>1. CASE i = k
        BY <1>1, <2>1, <2>3, <2>6, <3>1
      <3>2. CASE i # k
        <4>1. order[i] # t
          BY <1>1, <2>3, <3>2 DEF OrderOK
        <4> QED BY <1>1, <2>1, <2>6, <3>2, <4>1
      <3> QED BY <3>1, <3>2
    <2>8. ASSUME NEW i \in 1 .. N, NEW j \in 1 .. N, i < j
          PROVE  clients'[order[i]].sequence = clients'[order[j]].sequence + Lead(i, j)'
      <3>1. clients[order[i]].sequence = clients[order[j]].sequence + Lead(i, j)
        BY <1>1, <2>1, <2>6, <2>8 DEF Turns
      <3>2. Lead(i, j) = IF i <= k - 1 /\ k - 1 < j THEN 1 ELSE 0
        BY <2>5 DEF Lead
      <3>3. Lead(i, j)' = IF k # N /\ i <= k /\ k < j THEN 1 ELSE 0
        <4>1. Lead(i, j)' = IF i <= Issued' % N /\ Issued' % N < j THEN 1 ELSE 0
          BY DEF Lead, N
        <4> QED BY <1>1, <2>3, <2>4, <2>8, <4>1
      <3>4. Lead(i, j)' + (IF j = k THEN 1 ELSE 0) = Lead(i, j) + (IF i = k THEN 1 ELSE 0)
        BY <1>1, <2>3, <2>8, <3>2, <3>3
      <3>5. /\ clients'[order[i]].sequence = clients[order[i]].sequence + (IF i = k THEN 1 ELSE 0)
            /\ clients'[order[j]].sequence = clients[order[j]].sequence + (IF j = k THEN 1 ELSE 0)
            /\ clients[order[i]].sequence \in Nat /\ clients[order[j]].sequence \in Nat
        BY <2>6, <2>7
      <3>6. Lead(i, j) \in {0, 1} /\ Lead(i, j)' \in {0, 1}
        BY <3>2, <3>3
      <3> HIDE DEF Lead
      <3> QED BY <3>1, <3>4, <3>5, <3>6
    <2> QED BY <2>2, <2>8
  <1>7. ASSUME NEW c \in Clients, StartConnect(c)
        PROVE  Turns'
    <2>1. /\ Open' = Open \cup {c} /\ pc = "connect" /\ UNCHANGED <<order, Issued, errors>>
          /\ clients'[c].sequence = 0 /\ \A d \in Open : d # c /\ clients'[d] = clients[d]
          /\ pc' \in Connected => Open' = Clients
      BY <1>7 DEF StartConnect, Open, Connected, Issued
    <2>2. Issued = 0 /\ \A d \in Open : clients[d].sequence = 0
      BY <1>1, <2>1, IssuedType DEF Books, Client
    <2>3. \A d \in Open' : clients'[d].sequence = 0
      BY <2>1, <2>2
    <2>4. \A i, j \in 1 .. N : i < j => Lead(i, j)' = 0
      <3>1. Issued' % N = 0
        <4>1. (N * 0 + 0) % N = 0
          BY <1>1, RemainderUnique
        <4> QED BY <1>1, <2>1, <2>2, <4>1
      <3>2. \A i, j : Lead(i, j)' = IF i <= Issued' % N /\ Issued' % N < j THEN 1 ELSE 0
        BY DEF Lead, N
      <3> QED BY <1>1, <3>1, <3>2
    <2> QED BY <2>1, <2>3, <2>4 DEF Turns
  <1>8. ASSUME NEW c \in Clients, HandshakeEvent(c)
        PROVE  Turns'
    <2>1. CASE Dropped(c)
      <3>1. errors' # 0
        BY <1>1, <2>1 DEF Dropped
      <3> QED BY <3>1 DEF Turns
    <2>2. CASE ~Dropped(c)
      <3>1. UNCHANGED <<pc, order, Issued, errors>>
        BY <1>8, <2>2, HandshakeEffect DEF Same, HandshakeEvent
      <3>2. Open' = Open /\ \A d \in Open : clients'[d].sequence = clients[d].sequence
        <4>1. CASE UNCHANGED clients
          BY <4>1 DEF Open
        <4>2. CASE clients' = [clients EXCEPT ![c].phase = "Ready"]
          <5>1. \A d \in Open : clients[d] \in Client
            BY <1>1
          <5>2. Open' = Open
            BY <4>2 DEF Open
          <5>3. \A d \in Open : clients'[d] = IF d = c THEN [clients[d] EXCEPT !.phase = "Ready"] ELSE clients[d]
            BY <1>1, <4>2
          <5> QED BY <5>1, <5>2, <5>3 DEF Client
        <4> QED BY <1>8, <2>2, <4>1, <4>2, HandshakeEffect DEF Same
      <3> QED BY <1>2, <3>1, <3>2
    <2> QED BY <2>1, <2>2
  <1>9. ASSUME NEW c \in Clients, AckEvent(c)
        PROVE  Turns'
    <2>1. CASE Dropped(c)
      <3>1. errors' # 0
        BY <1>1, <2>1 DEF Dropped
      <3> QED BY <3>1 DEF Turns
    <2>2. CASE ~Dropped(c)
      <3>1. UNCHANGED <<pc, order, Issued, errors>> /\ c \in Open
        BY <1>9, <2>2, AckEffect DEF Same, AckEvent, PartTaken, AnswerTaken
      <3>2. Open' = Open /\ \A d \in Open : clients'[d].sequence = clients[d].sequence
        <4>1. CASE UNCHANGED clients
          BY <4>1 DEF Open
        <4>2. CASE PartTaken(c)
          <5>1. Appended(clients[c], inbox[c]).sequence = clients[c].sequence
            BY <1>1, <3>1, BytesTyped
          <5> QED BY <1>1, <4>2, <5>1 DEF PartTaken, Open
        <4>3. CASE AnswerTaken(c)
          <5>1. clients[c] \in Client
            BY <1>1, <3>1
          <5>2. [clients[c] EXCEPT !.receive_buffer = <<>>, !.phase = "Ready"].sequence = clients[c].sequence
            BY <5>1 DEF Client
          <5> QED BY <1>1, <4>3, <5>2 DEF AnswerTaken, Open
        <4> QED BY <1>9, <2>2, <4>1, <4>2, <4>3, AckEffect DEF Same
      <3> QED BY <1>2, <3>1, <3>2
    <2> QED BY <2>1, <2>2
  <1> QED BY <1>3, <1>4, <1>5, <1>6, <1>7, <1>8, <1>9, StepKinds

-----------------------------------------------------------------------------
(* The program without the server: what its own steps leave of a           *)
(* connection, whoever is at the other end.                                *)

Alone == LocalStep \/ ConnectThrows \/ TimeUp

\* The steps of the program that touch no connection.
Idling ==
  /\ UNCHANGED <<clients, link, reply, inbox, Issued, acked>>
  /\ pc' = "done" => pc = "done"

\* Its steps are of these kinds.
LEMMA AloneKinds ==
  ASSUME Inv, Alone
  PROVE  /\ [Next]_vars
         /\ \/ Idling \/ LoopEnds
            \/ \E c \in Clients : StartConnect(c) \/ HandshakeEvent(c) \/ AckEvent(c)
  <1>1. [Next]_vars
    BY DEF Alone, Next, Program, Environment
  <1>2. CASE HandshakesDone \/ HandshakeWait \/ HandshakeGivesUp \/ HandshakeEventsDone
    BY <1>1, <1>2 DEF HandshakesDone, HandshakeWait, HandshakeGivesUp, HandshakeEventsDone, Idling, Issued
  <1>3. CASE Tick \/ NothingToSend \/ SendThrows
    BY <1>1, <1>3 DEF Tick, NothingToSend, SendThrows, SendingDone, Idling, Issued
  <1>4. CASE Poll \/ AckEventsDone \/ ConnectThrows \/ TimeUp
    BY <1>1, <1>4 DEF Poll, AckEventsDone, ConnectThrows, TimeUp, Idling, Issued
  <1>5. CASE CountSent
    <2>1. UNCHANGED Issued
      BY <1>5 DEF CountSent, Inv, Typed, Issued
    <2> QED BY <1>1, <1>5, <2>1 DEF CountSent, Idling
  <1>6. Idling \/ LoopEnds \/ \E c \in Clients : StartConnect(c) \/ HandshakeEvent(c) \/ AckEvent(c)
    BY <1>2, <1>3, <1>4, <1>5 DEF Alone, LocalStep
  <1> QED BY <1>1, <1>6

\* A connection begins, keeps what it has, or has its answer read.
Begins(c) ==
  /\ c \notin Open /\ pc = "connect" /\ link'[c] = "syn"
  /\ clients'[c].sequence = 0 /\ Received(c)' = 0
Keeps(c) ==
  /\ c \in Open /\ clients'[c].sequence = clients[c].sequence
  /\ link'[c] = link[c] /\ reply'[c] = reply[c]
ReadsAnswer(c) == AnswerTaken(c) /\ Received(c) = 2 /\ Received(c)' = 0

\* What was received of an answer is counted in chunks.
LEMMA ReceivedType ==
  ASSUME Typed, NEW c \in Open
  PROVE  /\ Len(clients[c].receive_buffer) \in Nat /\ Len(inbox[c]) \in Nat
         /\ Received(c) \in Nat
         /\ Received(c) = 0 <=> clients[c].receive_buffer = <<>> /\ inbox[c] = <<>>
  <1>1. clients[c].receive_buffer \in Seq(Chunk) /\ inbox[c] \in Seq(Chunk)
    BY BytesTyped
  <1>2. PICK b \in Seq(Chunk) : b = clients[c].receive_buffer
    BY <1>1
  <1>3. PICK q \in Seq(Chunk) : q = inbox[c]
    BY <1>1
  <1>4. Len(b) \in Nat /\ Len(q) \in Nat /\ (b = <<>> <=> Len(b) = 0) /\ (q = <<>> <=> Len(q) = 0)
    BY EmptySeq, LenProperties
  <1>5. Received(c) = Len(b) + Len(q)
    BY <1>2, <1>3 DEF Received
  <1>6. Len(b) + Len(q) \in Nat /\ (Len(b) + Len(q) = 0 <=> Len(b) = 0 /\ Len(q) = 0)
    BY <1>4
  <1> QED BY <1>2, <1>3, <1>4, <1>5, <1>6

\* One of these happens to every connection that the map holds afterwards.
LEMMA AloneEffect ==
  ASSUME Inv, Alone, NEW c \in Clients, c \in Open'
  PROVE  \/ Begins(c)
         \/ Keeps(c) /\ Received(c)' = Received(c)
         \/ Keeps(c) /\ ReadsAnswer(c)
  <1>1. Typed /\ Wire /\ clients \in [Open -> Client] /\ inbox \in [Clients -> Seq(Chunk)]
    BY DEF Inv, Typed
  <1>2. CASE Idling
    BY <1>2 DEF Idling, Open, Keeps, Received
  <1>3. CASE LoopEnds
    BY <1>3 DEF LoopEnds, Open
  <1>4. ASSUME NEW d \in Clients, StartConnect(d)
        PROVE  Begins(c) \/ (Keeps(c) /\ Received(c)' = Received(c))
    <2>1. CASE c = d
      <3>1. /\ c \notin Open /\ pc = "connect" /\ clients'[c].sequence = 0
            /\ clients'[c].receive_buffer = <<>> /\ inbox' = inbox
        BY <1>4, <2>1 DEF StartConnect, Open
      <3>2. link'[c] = "syn"
        BY <1>1, <1>4, <2>1 DEF StartConnect, Typed
      <3>3. inbox[c] = <<>>
        BY <1>1, <3>1 DEF Wire
      <3> QED BY <3>1, <3>2, <3>3 DEF Begins, Received
    <2>2. CASE c # d
      <3>1. c \in Open /\ clients'[c] = clients[c] /\ UNCHANGED <<reply, inbox>>
        BY <1>4, <2>2 DEF StartConnect, Open
      <3>2. link'[c] = link[c]
        BY <1>1, <1>4, <2>2 DEF StartConnect, Typed
      <3> QED BY <3>1, <3>2 DEF Keeps, Received
    <2> QED BY <2>1, <2>2
  <1>5. ASSUME NEW d \in Clients, Dropped(d), close_client(d), UNCHANGED link
        PROVE  Keeps(c) /\ Received(c)' = Received(c)
    <2>1. c # d /\ c \in Open /\ clients'[c] = clients[c]
      BY <1>5 DEF Dropped, Open
    <2>2. reply'[c] = reply[c] /\ inbox'[c] = inbox[c]
      BY <1>1, <1>5, <2>1 DEF close_client, Typed
    <2> QED BY <1>5, <2>1, <2>2 DEF Keeps, Received
  <1>6. ASSUME NEW d \in Clients, HandshakeEvent(d)
        PROVE  Keeps(c) /\ Received(c)' = Received(c)
    <2>1. CASE clients' = [clients EXCEPT ![d].phase = "Ready"] /\ UNCHANGED <<link, reply, inbox>>
      <3>1. c \in Open
        BY <2>1 DEF Open
      <3>2. clients'[c] = IF c = d THEN [clients[c] EXCEPT !.phase = "Ready"] ELSE clients[c]
        BY <1>1, <2>1, <3>1
      <3>3. /\ clients'[c].sequence = clients[c].sequence
            /\ clients'[c].receive_buffer = clients[c].receive_buffer
        BY <1>1, <3>1, <3>2 DEF Client
      <3> QED BY <2>1, <3>1, <3>3 DEF Keeps, Received
    <2>2. CASE Same /\ UNCHANGED <<link, reply, inbox>>
      BY <2>2 DEF Same, Open, Keeps, Received
    <2> QED BY <1>5, <1>6, <2>1, <2>2, HandshakeEffect
  <1>7. ASSUME NEW d \in Clients, AckEvent(d)
        PROVE  Keeps(c) /\ (Received(c)' = Received(c) \/ ReadsAnswer(c))
    <2>1. CASE Same /\ UNCHANGED <<link, reply, inbox>>
      BY <2>1 DEF Same, Open, Keeps, Received
    <2>2. ASSUME d \in Open, NEW client \in Client, clients' = [clients EXCEPT ![d] = client],
                 client.sequence = clients[d].sequence,
                 inbox' = [inbox EXCEPT ![d] = <<>>], UNCHANGED <<link, reply>>
          PROVE  /\ Keeps(c)
                 /\ c # d => Received(c)' = Received(c)
                 /\ c = d => Received(c)' = Len(client.receive_buffer)
      <3>1. c \in Open
        BY <2>2 DEF Open
      <3>2. clients'[c] = (IF c = d THEN client ELSE clients[c])
            /\ inbox'[c] = (IF c = d THEN <<>> ELSE inbox[c])
        BY <1>1, <2>2, <3>1
      <3>3. Len(client.receive_buffer) \in Nat
        BY LenProperties DEF Client
      <3>4. Keeps(c)
        BY <2>2, <3>1, <3>2 DEF Keeps
      <3>5. CASE c = d
        <4>1. clients'[c].receive_buffer = client.receive_buffer /\ inbox'[c] = <<>>
          BY <3>2, <3>5
        <4>2. Received(c)' = Len(client.receive_buffer) + Len(<<>>)
          BY <4>1 DEF Received
        <4>3. Len(<<>>) = 0
          OBVIOUS
        <4> QED BY <3>3, <3>4, <3>5, <4>2, <4>3
      <3>6. CASE c # d
        <4>1. clients'[c] = clients[c] /\ inbox'[c] = inbox[c]
          BY <3>2, <3>6
        <4> QED BY <3>4, <3>6, <4>1 DEF Received
      <3> QED BY <3>5, <3>6
    <2>3. CASE AnswerTaken(d) /\ Received(d) = 2 /\ inbox' = [inbox EXCEPT ![d] = <<>>]
               /\ UNCHANGED <<link, reply>>
      <3>1. PICK client : client = [clients[d] EXCEPT !.receive_buffer = <<>>, !.phase = "Ready"]
        OBVIOUS
      <3>2. d \in Open /\ clients[d] \in Client /\ clients' = [clients EXCEPT ![d] = client]
        BY <1>1, <2>3, <3>1 DEF AnswerTaken, Waiting
      <3>3. client \in Client /\ client.sequence = clients[d].sequence /\ Len(client.receive_buffer) = 0
        <4>1. <<>> \in Seq(Chunk) /\ Len(<<>>) = 0
          OBVIOUS
        <4>2. client.receive_buffer = <<>>
          BY <3>1, <3>2 DEF Client
        <4> QED BY <3>1, <3>2, <4>1, <4>2 DEF Client, Phases
      <3>4. Keeps(c) /\ (c # d => Received(c)' = Received(c)) /\ (c = d => Received(c)' = 0)
        BY <2>2, <2>3, <3>2, <3>3
      <3> QED BY <2>3, <3>4 DEF ReadsAnswer
    <2>4. CASE PartTaken(d) /\ inbox' = [inbox EXCEPT ![d] = <<>>] /\ UNCHANGED <<link, reply>>
      <3>1. PICK client : client = Appended(clients[d], inbox[d])
        OBVIOUS
      <3>2. d \in Open /\ clients' = [clients EXCEPT ![d] = client]
        BY <2>4, <3>1 DEF PartTaken, Waiting
      <3>3. /\ client \in Client /\ client.sequence = clients[d].sequence
            /\ client.receive_buffer = clients[d].receive_buffer \o inbox[d]
            /\ clients[d].receive_buffer \in Seq(Chunk) /\ inbox[d] \in Seq(Chunk)
        BY <1>1, <3>1, <3>2, BytesTyped
      <3>4. Len(client.receive_buffer) = Received(d)
        BY <3>3, ConcatProperties DEF Received
      <3>5. Keeps(c) /\ (c # d => Received(c)' = Received(c))
            /\ (c = d => Received(c)' = Len(client.receive_buffer))
        BY <2>2, <2>4, <3>2, <3>3
      <3> QED BY <3>4, <3>5
    <2> QED BY <1>5, <1>7, <2>1, <2>3, <2>4, AckEffect
  <1> QED BY <1>2, <1>3, <1>4, <1>6, <1>7, AloneKinds

\* The client's end and the server together have no more than one answer.
LEMMA ReceivedAndOwed ==
  ASSUME Inv, NEW c \in Open
  PROVE  Len(reply[c]) \in Nat /\ Received(c) \in Nat /\ Received(c) + Len(reply[c]) <= 2
  <1>1. PICK client \in Client : client = clients[c]
    BY BytesTyped DEF Inv
  <1>2. PICK b \in Seq(Chunk) : b = client.receive_buffer
    BY DEF Client
  <1>3. PICK q \in Seq(Chunk) : q = inbox[c]
    BY BytesTyped DEF Inv
  <1>4. PICK r \in Seq(Chunk) : r = reply[c]
    BY BytesTyped DEF Inv
  <1>5. Due(client, q, r, link[c])
    BY <1>1, <1>3, <1>4, AckPerConnection DEF Inv
  <1>6. /\ b \o q \in Seq(Chunk) /\ Len(b \o q) = Len(b) + Len(q)
        /\ Len((b \o q) \o r) = Len(b) + Len(q) + Len(r)
        /\ Len(b) \in Nat /\ Len(q) \in Nat /\ Len(r) \in Nat
    BY ConcatProperties, LenProperties
  <1>7. Len((b \o q) \o r) <= 2
    <2>1. CASE client.phase = "WaitingAck"
      <3>1. PICK n \in 0 .. 2 : (b \o q) \o r = SubSeq(AckLine(client.sequence), 1, n)
        BY <1>2, <1>5, <2>1, DuePrefix
      <3>2. AckLine(client.sequence) \in Seq(Chunk) /\ Len(AckLine(client.sequence)) = 2
        BY AckLineType DEF Client
      <3>3. Len(SubSeq(AckLine(client.sequence), 1, n)) = n
        <4>1. PICK a \in Seq(Chunk) : a = AckLine(client.sequence) /\ Len(a) = 2
          BY <3>2
        <4>2. Len(SubSeq(a, 1, n)) = n
          BY <4>1, SubSeqProperties
        <4> QED BY <4>1, <4>2
      <3> QED BY <3>1, <3>3
    <2>2. CASE client.phase # "WaitingAck"
      <3>1. b = <<>> /\ q = <<>> /\ r = <<>>
        BY <1>2, <1>5, <2>2, DueNothing
      <3>2. Len(<<>>) = 0
        OBVIOUS
      <3> QED BY <1>6, <3>1, <3>2
    <2> QED BY <2>1, <2>2
  <1>8. Received(c) = Len(b) + Len(q) /\ Len(reply[c]) = Len(r)
    BY <1>1, <1>2, <1>3, <1>4 DEF Received
  <1>9. \A x, y, z \in Nat : x + y \in Nat /\ (x + y) + z = x + y + z
    OBVIOUS
  <1>10. Len(b) + Len(q) + Len(r) <= 2
    <2>1. PICK bytes : bytes = (b \o q) \o r
      OBVIOUS
    <2> QED BY <1>6, <1>7, <2>1
  <1> QED BY <1>6, <1>8, <1>9, <1>10

\* A connection changes its state only where it begins.
LEMMA AloneLinks ==
  ASSUME Inv, Alone
  PROVE  /\ pc \notin {"done", "aborted"}
         /\ \A c \in Clients : link'[c] # link[c] => c \in Open' \ Open /\ link'[c] = "syn" /\ pc = "connect"
         /\ pc' = "connect" => pc = "connect" /\ Open \subseteq Open'
  <1>1. link \in [Clients -> {"none", "syn", "up", "eof", "reset"}]
    BY DEF Inv, Typed
  <1>2. CASE \/ HandshakesDone \/ HandshakeWait \/ HandshakeGivesUp \/ HandshakeEventsDone
             \/ Tick \/ NothingToSend \/ SendThrows \/ CountSent \/ Poll \/ AckEventsDone
             \/ ConnectThrows \/ TimeUp \/ LoopEnds
    BY <1>2 DEF HandshakesDone, HandshakeWait, HandshakeGivesUp, HandshakeEventsDone, Tick,
       NothingToSend, SendThrows, SendingDone, CountSent, Poll, AckEventsDone, ConnectThrows, TimeUp, LoopEnds
  <1>3. ASSUME NEW c \in Clients, StartConnect(c)
        PROVE  /\ pc = "connect" /\ c \notin Open /\ Open' = Open \cup {c}
               /\ \A d \in Clients : link'[d] = IF d = c THEN "syn" ELSE link[d]
    BY <1>1, <1>3 DEF StartConnect, Open
  <1>4. ASSUME NEW c \in Clients, HandshakeEvent(c)
        PROVE  UNCHANGED <<pc, link>> /\ pc = "hevents"
    BY <1>4, HandshakeEffect DEF HandshakeEvent
  <1>5. ASSUME NEW c \in Clients, AckEvent(c)
        PROVE  UNCHANGED <<pc, link>> /\ pc = "acks"
    BY <1>5, AckEffect DEF AckEvent
  <1> QED BY <1>2, <1>3, <1>4, <1>5 DEF Alone, LocalStep

\* It sends nothing, and counts an answer only when it reads one.
LEMMA AloneCounts ==
  ASSUME Inv, Alone
  PROVE  /\ UNCHANGED Issued
         /\ \/ UNCHANGED acked
            \/ /\ acked' = acked + 1
               /\ \E c \in Clients : c \in Open' /\ ReadsAnswer(c)
  <1>1. CASE Idling
    BY <1>1 DEF Idling
  <1>2. CASE LoopEnds
    BY <1>2 DEF LoopEnds, Issued
  <1>3. ASSUME NEW c \in Clients, StartConnect(c)
        PROVE  UNCHANGED <<Issued, acked>>
    BY <1>3 DEF StartConnect, Issued
  <1>4. ASSUME NEW c \in Clients, HandshakeEvent(c)
        PROVE  UNCHANGED <<Issued, acked>>
    BY <1>4, HandshakeEffect DEF Dropped, Same
  <1>5. ASSUME NEW c \in Clients, AckEvent(c), UNCHANGED acked \/ ~AnswerTaken(c)
        PROVE  UNCHANGED <<Issued, acked>>
    BY <1>5, AckEffect DEF Dropped, PartTaken, AnswerTaken, Same
  <1>6. ASSUME NEW c \in Clients, AckEvent(c), acked' # acked, AnswerTaken(c)
        PROVE  UNCHANGED Issued /\ acked' = acked + 1 /\ c \in Open' /\ ReadsAnswer(c)
    <2>1. c \in Open /\ c \in Open' /\ UNCHANGED Issued /\ acked' = acked + 1
      BY <1>6 DEF AnswerTaken, Waiting, Open
    <2>2. Keeps(c) /\ (Received(c)' = Received(c) \/ ReadsAnswer(c))
      <3>1. Alone
        OBVIOUS
      <3> QED BY <2>1, AloneEffect DEF Begins
    <2>3. Received(c) = 2 /\ Received(c)' = 0
      <3>1. clients[c] \in Client /\ clients \in [Open -> Client] /\ inbox \in [Clients -> Seq(Chunk)]
        BY <2>1 DEF Inv, Typed
      <3>2. Received(c) = 2 /\ inbox' = [inbox EXCEPT ![c] = <<>>]
        BY <1>6, AckEffect DEF Dropped, PartTaken, Same
      <3>3. clients'[c].receive_buffer = <<>>
        BY <1>6, <2>1, <3>1 DEF AnswerTaken, Client
      <3>4. inbox'[c] = <<>>
        BY <3>1, <3>2
      <3>5. Received(c)' = Len(<<>>) + Len(<<>>)
        BY <3>3, <3>4 DEF Received
      <3>6. Len(<<>>) + Len(<<>>) = 0
        OBVIOUS
      <3> QED BY <3>2, <3>5, <3>6
    <2> QED BY <1>6, <2>1, <2>3 DEF ReadsAnswer
  <1> QED BY <1>1, <1>2, <1>3, <1>4, <1>5, <1>6, AloneKinds

\* When the loop ends, no answer is on its way.
LEMMA NothingLeft ==
  ASSUME Inv, LoopEnds, NEW c \in Clients
  PROVE  reply[c] = <<>> /\ inbox[c] = <<>>
  <1>1. Waiting = {}
    <2>1. IsFiniteSet(Waiting) /\ Cardinality(Waiting) \in Nat
      BY WaitingFinite DEF Inv
    <2>2. acked >= Issued /\ Issued \in Nat /\ acked \in Nat /\ errors \in Nat
      BY IssuedType DEF LoopEnds, LoopGoesOn, Inv, Typed
    <2>3. Issued - acked - Cardinality(Waiting) >= 0
      BY <2>2, <2>1 DEF Inv, ReportsAccounted
    <2>4. Cardinality(Waiting) = 0
      BY <2>1, <2>2, <2>3
    <2> QED BY <2>1, <2>4, FS_EmptySet
  <1>2. CASE c \notin Open
    BY <1>2 DEF Inv, Wire
  <1>3. CASE c \in Open
    <2>1. clients[c] \in Client /\ inbox[c] \in Seq(Chunk) /\ reply[c] \in Seq(Chunk)
      BY <1>3, BytesTyped DEF Inv
    <2>2. clients[c].phase # "WaitingAck"
      BY <1>1, <1>3 DEF Waiting
    <2>3. Due(clients[c], inbox[c], reply[c], link[c])
      BY <1>3, AckPerConnection DEF Inv
    <2> QED BY <2>1, <2>2, <2>3, DueNothing
  <1> QED BY <1>2, <1>3

\* As long as no connection is closed or reset from the other end, the program
\* drops none and comes to its end by itself.
LEMMA AloneCalm ==
  ASSUME Inv, LocalStep \/ TimeUp,
         \A c \in Clients : link[c] \notin {"eof", "reset"},
         \A c \in DOMAIN events : "err" \notin events[c],
         pc # "aborted", "cut" \notin Faults
  PROVE  /\ pc' # "aborted"
         /\ \A c \in DOMAIN events' : "err" \notin events'[c]
         /\ pc' # "done" => Open \subseteq Open'
         /\ \A c \in Clients : link'[c] # link[c] => c \in Open'
         /\ pc' = "done" => pc = "done" \/ LoopEnds
  <1>1. Typed /\ Wire
    BY DEF Inv
  <1>2. \A c \in Open : c \in Clients /\ "err" \notin Flags(c)
    BY <1>1 DEF Flags, Typed
  <1>3. CASE LoopEnds
    BY <1>3 DEF LoopEnds
  <1>4. CASE HandshakeWait \/ Poll
    <2>1. PICK batch \in Batches : events' = [c \in batch |-> Flags(c)]
      BY <1>4 DEF HandshakeWait, Poll
    <2>2. batch \subseteq Open
      BY DEF Batches, ReadyConns
    <2> QED BY <1>2, <1>4, <2>1, <2>2 DEF HandshakeWait, Poll, Open
  <1>5. CASE \/ HandshakesDone \/ HandshakeGivesUp \/ HandshakeEventsDone
             \/ Tick \/ NothingToSend \/ CountSent \/ AckEventsDone \/ TimeUp
    BY <1>5 DEF HandshakesDone, HandshakeGivesUp, HandshakeEventsDone, Tick, NothingToSend,
       SendingDone, CountSent, AckEventsDone, TimeUp, Open
  <1>6. ~SendThrows
    <2>1. MaySend => Turn \in Clients
      BY <1>1, TurnKnown DEF Inv
    <2> QED BY <2>1 DEF SendThrows
  <1>7. ASSUME NEW c \in Clients, StartConnect(c)
        PROVE  /\ pc' \in {"connect", "handshakes"} /\ UNCHANGED events /\ Open' = Open \cup {c}
               /\ \A d \in Clients : link'[d] # link[d] => d = c
    BY <1>1, <1>7 DEF StartConnect, Open, Typed
  <1>8. ASSUME NEW c \in Clients, HandshakeEvent(c)
        PROVE  /\ pc' = pc /\ pc = "hevents" /\ Open' = Open /\ UNCHANGED link
               /\ \A d \in DOMAIN events' : d \in DOMAIN events /\ events'[d] = events[d]
    <2>1. Open' = Open /\ UNCHANGED link
      <3>1. "err" \notin events[c] /\ link[c] # "reset"
        BY <1>8 DEF HandshakeEvent
      <3>2. CASE clients' = [clients EXCEPT ![c].phase = "Ready"] /\ UNCHANGED link
        <4>1. DOMAIN clients' = DOMAIN clients
          BY <3>2
        <4> QED BY <3>2, <4>1 DEF Open
      <3>3. CASE UNCHANGED <<clients, link>>
        BY <3>3 DEF Open
      <3> QED BY <1>8, <3>1, <3>2, <3>3 DEF HandshakeEvent
    <2> QED BY <1>8, <2>1 DEF HandshakeEvent, EventTaken
  <1>9. ASSUME NEW c \in Clients, AckEvent(c)
        PROVE  /\ pc' = pc /\ pc = "acks" /\ Open' = Open /\ UNCHANGED link
               /\ \A d \in DOMAIN events' : d \in DOMAIN events /\ events'[d] = events[d]
    <2>1. Open' = Open /\ UNCHANGED link
      <3>1. "err" \notin events[c]
        BY <1>9 DEF AckEvent
      <3>2. c \in Open
        BY <1>1, <1>9 DEF AckEvent, Typed
      <3>3. CASE UNCHANGED <<clients, countVars, netVars>>
        BY <3>3 DEF Open
      <3>4. CASE clients[c].phase = "WaitingAck" /\ receive_ack(c)
        <4>1. link[c] = "up"
          BY <1>1, <3>2, <3>4 DEF Wire, WasUp
        <4> QED BY <3>4, <4>1 DEF receive_ack, Open
      <3> QED BY <1>9, <3>1, <3>3, <3>4 DEF AckEvent
    <2> QED BY <1>9, <2>1 DEF AckEvent, EventTaken
  <1> QED BY <1>3, <1>4, <1>5, <1>6, <1>7, <1>8, <1>9 DEF LocalStep

-----------------------------------------------------------------------------
(* The theorems.                                                           *)

\* The invariant holds at the beginning.
LEMMA InvInit == Init => Inv
  <1> SUFFICES ASSUME Init
               PROVE  Inv
    OBVIOUS
  <1>1. OrderOK /\ Typed
    BY TypedInit
  <1>2. Open = {} /\ Waiting = {} /\ DOMAIN events = {}
    BY DEF Init, Open, Waiting
  <1>3. Books
    BY <1>2 DEF Init, Books
  <1>4. ReportsAccounted
    <2>1. Cardinality(Waiting) = 0
      BY <1>2, FS_EmptySet
    <2> QED BY <2>1 DEF Init, ReportsAccounted, Issued
  <1>5. Wire /\ AckMatchesReport
    BY <1>2 DEF Init, Wire, AckMatchesReport
  <1>6. Turns
    BY <1>2 DEF Init, Turns, Connected
  <1> QED BY <1>1, <1>3, <1>4, <1>5, <1>6 DEF Inv

\* Every reachable state of the load generator satisfies the inductive
\* invariant: the books of the run, the bytes on each connection, and the turns.
THEOREM Invariance == Spec => []Inv
  <1>1. Inv /\ [Next]_vars => Inv'
    BY TypedStep, BooksStep, ReportsStep, WireStep, TurnsStep DEF Inv
  <1> QED BY InvInit, <1>1, PTL DEF Spec

\* The types, and the rate: no more is sent than rate * duration grants,
\* whatever the number of connections (run_loadgen, main.cpp:390-416).
THEOREM TypesCorrect == Spec => []TypeOK
  <1>1. Inv => TypeOK
    <2> SUFFICES ASSUME Inv
                 PROVE  TypeOK
      OBVIOUS
    <2>1. Typed /\ Books
      BY DEF Inv
    <2>2. \A c \in Open : clients[c] \in [phase : Phases, sequence : 0 .. Quota, receive_buffer : Seq(Chunk)]
      <3> SUFFICES ASSUME NEW c \in Open
                   PROVE  clients[c] \in [phase : Phases, sequence : 0 .. Quota, receive_buffer : Seq(Chunk)]
        OBVIOUS
      <3>1. clients[c] \in Client
        BY <2>1 DEF Typed
      <3>2. clients[c].sequence <= Issued /\ clients[c].sequence \in Nat
        BY <2>1, <3>1 DEF Books, Client
      <3>3. Issued \in Nat /\ Issued <= Quota
        BY <2>1, IssuedType
      <3>4. clients[c].sequence \in 0 .. Quota
        BY <3>2, <3>3, LoadgenAssumption
      <3> QED BY <3>1, <3>4 DEF Client
    <2> QED BY <2>1, <2>2 DEF TypeOK, Typed
  <1> QED BY <1>1, Invariance, PTL

\* No report is forgotten: it was answered, is waited for, or its connection
\* was counted as an error.
THEOREM NoReportForgotten == Spec => []ReportsAccounted
  <1>1. Inv => ReportsAccounted
    BY DEF Inv
  <1> QED BY <1>1, Invariance, PTL

\* A latency is measured against the answer to the report it was started for:
\* receive_ack never reads an answer early, late or twice.
THEOREM AnswersMatch == Spec => []AckMatchesReport
  <1>1. Inv => AckMatchesReport
    BY DEF Inv
  <1> QED BY <1>1, Invariance, PTL

\* The clients send in turn while no connection was lost.
THEOREM TurnsAreFair == Spec => []ClientsTakeTurns
  <1>1. Inv => ClientsTakeTurns
    <2> SUFFICES ASSUME Inv, errors = 0, NEW i \in DOMAIN order, NEW j \in DOMAIN order,
                        i < j, order[i] \in Open, order[j] \in Open
                 PROVE  clients[order[i]].sequence - clients[order[j]].sequence \in {0, 1}
      BY DEF ClientsTakeTurns
    <2>1. i \in 1 .. N /\ j \in 1 .. N
      BY DEF Inv, OrderOK
    <2>2. clients[order[i]].sequence = clients[order[j]].sequence + Lead(i, j)
      BY <2>1 DEF Inv, Turns
    <2>3. clients[order[j]].sequence \in Nat
      BY DEF Inv, Typed, Client
    <2>4. Lead(i, j) \in {0, 1}
      BY DEF Lead
    <2> QED BY <2>2, <2>3, <2>4
  <1> QED BY <1>1, Invariance, PTL

\* A run that reaches print_summary has an answer for every report it sent,
\* and the server owes it none.
THEOREM SummaryComplete == Spec => []SummaryIsComplete
  <1>1. Inv => SummaryIsComplete
    BY DEF Inv, Books, Wire, SummaryIsComplete
  <1> QED BY <1>1, Invariance, PTL
=============================================================================
