------------------------------ MODULE Protocol ------------------------------
(***************************************************************************)
(* The text protocol: parse_status_line and the writers of STATUS lines in *)
(* the simulator and the load generator, and format_metrics_line with      *)
(* parse_metrics_line.                                                     *)
(*                                                                         *)
(* A line is a first word and key=value tokens.  A value is a text, taken  *)
(* apart as std::from_chars does it: a minus sign, decimal digits, and     *)
(* what follows them.  Integers have the width they have in the code, as   *)
(* a constant, so that their limits can be reached.                        *)
(***************************************************************************)
EXTENDS Integers, Sequences

CONSTANTS
  Bits,       \* the width of std::uint64_t
  IntBits,    \* the width of int
  Ids,        \* the simulator's argument device_id, and
  Coordinates,\* its arguments x, y and z: texts without a blank
  Indices,    \* the clients of the load generator
  Numbers,    \* times and counters
  Foreign,    \* tokens that others may write, or a user with a blank in a text
  LineLimit   \* bound: how many tokens they write on a line

ASSUME ProtocolAssumption ==
  /\ Bits \in Nat \ {0} /\ IntBits \in Nat \ {0}
  /\ LineLimit \in Nat
  /\ 2^Bits \in Nat /\ 2^Bits > 1                     \* seq=1 fits
  /\ 2^(IntBits - 1) \in Nat /\ 2^(IntBits - 1) > 87   \* battery=87 fits

U64 == 0..(2^Bits - 1)
Text == [minus : BOOLEAN, digits : Seq(0..9), tail : STRING]

ASSUME WritersAssumption ==
  /\ Ids \subseteq Text /\ Coordinates \subseteq Text
  /\ Indices \subseteq Nat /\ Numbers \subseteq U64

-----------------------------------------------------------------------------
(* Values.                                                                 *)

\* std::to_string of an unsigned number.
Numeral[n \in Nat] == IF n < 10 THEN <<n>> ELSE Append(Numeral[n \div 10], n % 10)
to_string(n) == [minus |-> FALSE, digits |-> Numeral[n], tail |-> ""]
word(w) == [minus |-> FALSE, digits |-> <<>>, tail |-> w]
Empty == word("")

Magnitude(text) ==
  LET value[n \in 0 .. Len(text.digits)] ==
        IF n = 0 THEN 0 ELSE 10 * value[n - 1] + text.digits[n]
  IN value[Len(text.digits)]
Signed(text) == IF text.minus THEN -Magnitude(text) ELSE Magnitude(text)
IsInteger(text) == text.digits # <<>> /\ text.tail = ""

\* A limit that is one too large.
ParsesAsU64Loosely(text) == IsInteger(text) /\ ~text.minus /\ Magnitude(text) <= 2^Bits

\* The whole text is a number, and it fits; an unsigned number has no sign.
ParsesAsU64(text) == IsInteger(text) /\ ~text.minus /\ Magnitude(text) \in U64
ParsesAsInt(text) ==
  IsInteger(text) /\ Signed(text) \in -(2^(IntBits - 1))..(2^(IntBits - 1) - 1)
\* from_chars reads infinities and NaN as doubles, too.
ParsesAsDouble(text) ==
  \/ text.digits # <<>> /\ text.tail \in {"", ".5"}
  \/ text.digits = <<>> /\ text.tail \in {".5", "inf", "nan"}
True == {to_string(1), word("true")}
False == {to_string(0), word("false")}
ParsesAsBool(text) == text \in True \cup False

-----------------------------------------------------------------------------
(* Parsing.                                                                *)

Rejected == [rejected |-> TRUE]

NoStatus == [device_id |-> Empty, state |-> Empty, battery_percent |-> 0,
             x |-> to_string(0), y |-> to_string(0), z |-> to_string(0),
             sequence |-> 0, sent_ms |-> 0, ack_requested |-> FALSE]

\* Every key of assign_field, with the field it sets, whether the value will do,
\* and what is stored of it.
StatusFields ==
  { [key |-> "device_id", field |-> "device_id", reads |-> "text"],
    [key |-> "state", field |-> "state", reads |-> "text"],
    [key |-> "battery", field |-> "battery_percent", reads |-> "int"],
    [key |-> "x", field |-> "x", reads |-> "double"],
    [key |-> "y", field |-> "y", reads |-> "double"],
    [key |-> "z", field |-> "z", reads |-> "double"],
    [key |-> "seq", field |-> "sequence", reads |-> "u64"],
    [key |-> "sent_ms", field |-> "sent_ms", reads |-> "u64"],
    [key |-> "ack", field |-> "ack_requested", reads |-> "bool"] }

Metrics == {"uptime_sec", "active", "accepted", "disconnected", "devices", "received",
            "ack_sent", "parse_errors", "broadcast_errors", "msg_per_sec"}
NoMetrics == [m \in Metrics |-> 0]
MetricsFields == {[key |-> m, field |-> m, reads |-> "u64"] : m \in Metrics}

Reads(type, text) ==
  CASE type = "text" -> TRUE
    [] type = "int" -> ParsesAsInt(text)
    [] type = "double" -> ParsesAsDouble(text)
    [] type = "u64" -> ParsesAsU64(text)
    [] type = "bool" -> ParsesAsBool(text)
Stored(type, text) ==
  CASE type \in {"text", "double"} -> text
    [] type \in {"int", "u64"} -> Signed(text)
    [] type = "bool" -> text \in True

\* A value that cannot be read leaves the field as it was.
AssignedIfReadable(fields, result, token) ==
  [name \in DOMAIN result |->
     LET known == {f \in fields : f.key = token.key /\ f.field = name
                                   /\ Reads(f.reads, token.value)}
     IN  IF known = {} THEN result[name]
         ELSE Stored((CHOOSE f \in known : TRUE).reads, token.value)]

\* assign_field: a key nobody knows is passed over.
assign_field(fields, result, token) ==
  LET known == {f \in fields : f.key = token.key}
  IN  IF \A f \in known : Reads(f.reads, token.value)
        THEN [name \in DOMAIN result |->
                IF \E f \in known : f.field = name
                THEN LET f == CHOOSE g \in known : g.field = name
                     IN  Stored(f.reads, token.value)
                ELSE result[name]]
        ELSE Rejected

\* A token is a key, an equals sign and a value.
WellFormed(token) == token.key # "" /\ token.value # Empty

\* The first token that is out of order rejects the line.
ParseToken(fields, result, token) ==
  IF result = Rejected \/ ~WellFormed(token) THEN Rejected
  ELSE assign_field(fields, result, token)

ParseTokens(fields, default, tokens) ==
  LET parsed[n \in 0 .. Len(tokens)] ==
        IF n = 0 THEN default ELSE ParseToken(fields, parsed[n - 1], tokens[n])
  IN parsed[Len(tokens)]

parse_status_line(line) ==
  LET status == ParseTokens(StatusFields, NoStatus, line.tokens)
  IN  IF line.first # "STATUS" \/ status = Rejected THEN Rejected
      ELSE IF status.device_id = Empty \/ status.state = Empty THEN Rejected
      ELSE status

parse_metrics_line(line) ==
  IF line.first # "METRICS" THEN Rejected
  ELSE ParseTokens(MetricsFields, NoMetrics, line.tokens)

-----------------------------------------------------------------------------
(* Writing.                                                                *)

Line(first, tokens) == [first |-> first, tokens |-> tokens]
Token(key, text) == [key |-> key, value |-> text]

\* make_status_line of the simulator; the coordinates are the user's text.
SimulatorLine(device_id, x, y, z, ack, now) ==
  Line("STATUS",
       <<Token("device_id", device_id), Token("state", word("OK")),
         Token("battery", to_string(87)), Token("x", x), Token("y", y), Token("z", z)>>
       \o IF ack THEN <<Token("seq", to_string(1)), Token("sent_ms", to_string(now)),
                        Token("ack", to_string(1))>>
                 ELSE <<>>)

\* make_status_line of the load generator.
LoadgenLine(index, sequence, sent_ms) ==
  Line("STATUS",
       <<Token("device_id", [word("load-") EXCEPT !.digits = Numeral[index]]),
         Token("state", word("OK")), Token("battery", to_string(87)),
         Token("x", to_string(index % 50)), Token("y", to_string((index \div 50) % 50)),
         Token("z", to_string(index % 10)), Token("seq", to_string(sequence)),
         Token("sent_ms", to_string(sent_ms)), Token("ack", to_string(1))>>)

MetricsOrder == <<"uptime_sec", "active", "accepted", "disconnected", "devices", "received",
                  "ack_sent", "parse_errors", "broadcast_errors", "msg_per_sec">>
\* A line that ends one field early.
MetricsLineCut(metrics) ==
  Line("METRICS", [i \in 1..9 |-> Token(MetricsOrder[i], to_string(metrics[MetricsOrder[i]]))])
format_metrics_line(metrics) ==
  Line("METRICS", [i \in 1..10 |-> Token(MetricsOrder[i], to_string(metrics[MetricsOrder[i]]))])

-----------------------------------------------------------------------------
(* A line on its way: written by one of the programs, or token by token by *)
(* a program we do not know.                                               *)

VARIABLES
  line,
  meant       \* what the reader must make of it; Unknown for a foreign one
vars == <<line, meant>>

Unknown == [unknown |-> TRUE]

Init == line \in {Line(first, <<>>) : first \in {"STATUS", "METRICS", "STATUSES"}}
        /\ meant = Unknown

WriteToken ==
  /\ meant = Unknown /\ Len(line.tokens) < LineLimit
  /\ \E token \in Foreign : line' = [line EXCEPT !.tokens = Append(@, token)]
  /\ UNCHANGED meant

\* The program sends what its user typed, readable or not.
Readable(device_id, x, y, z) ==
  device_id # Empty /\ \A text \in {x, y, z} : ParsesAsDouble(text)

SimulatorWrites ==
  /\ line.tokens = <<>>
  /\ \E device_id \in Ids, x, y, z \in Coordinates, ack \in BOOLEAN, now \in Numbers :
       /\ line' = SimulatorLine(device_id, x, y, z, ack, now)
       /\ meant' = IF ~Readable(device_id, x, y, z) THEN Rejected
                   ELSE [device_id |-> device_id, state |-> word("OK"),
                         battery_percent |-> 87, x |-> x, y |-> y, z |-> z,
                         sequence |-> IF ack THEN 1 ELSE 0,
                         sent_ms |-> IF ack THEN now ELSE 0, ack_requested |-> ack]

LoadgenWrites ==
  /\ line.tokens = <<>>
  /\ \E index \in Indices, sequence \in U64, sent_ms \in Numbers :
       /\ line' = LoadgenLine(index, sequence, sent_ms)
       /\ meant' = [device_id |-> [word("load-") EXCEPT !.digits = Numeral[index]],
                    state |-> word("OK"), battery_percent |-> 87,
                    x |-> to_string(index % 50), y |-> to_string((index \div 50) % 50),
                    z |-> to_string(index % 10), sequence |-> sequence,
                    sent_ms |-> sent_ms, ack_requested |-> TRUE]

ServerWrites ==
  /\ line.tokens = <<>>
  /\ \E metrics \in [Metrics -> Numbers] :
       line' = format_metrics_line(metrics) /\ meant' = metrics

Next == WriteToken \/ SimulatorWrites \/ LoadgenWrites \/ ServerWrites
Spec == Init /\ [][Next]_vars

-----------------------------------------------------------------------------
(* Properties.                                                             *)

TypeOK ==
  /\ line.first \in {"STATUS", "METRICS", "STATUSES"}
  /\ Len(line.tokens) <= LineLimit \/ Len(line.tokens) \in {6, 9, 10}
  /\ parse_metrics_line(line) \in {Rejected} \cup [Metrics -> U64]

\* What our programs write our programs read, and get back exactly what was
\* meant: an ack=1 that is lost would leave a load generator waiting, a counter
\* at its limit that is not read would freeze the dashboard.  A line of the
\* simulator is refused as a whole where its user typed what is no number.
WritersAreUnderstood ==
  meant # Unknown =>
    meant = IF line.first = "METRICS" THEN parse_metrics_line(line)
            ELSE parse_status_line(line)

\* What a field holds is what its last token says, whatever stands around it,
\* and a line is a status if and only if every token of it is in order and it
\* names a device and a state.
LastOf(key) == {i \in DOMAIN line.tokens :
                  /\ line.tokens[i].key = key
                  /\ \A j \in DOMAIN line.tokens : line.tokens[j].key = key => j <= i}
InOrder(token) ==
  /\ token.key # "" /\ token.value # Empty
  /\ \A f \in StatusFields : f.key = token.key => Reads(f.reads, token.value)
ParserReadsTheLine ==
  LET status == parse_status_line(line)
      wanted == /\ line.first = "STATUS"
                /\ \A i \in DOMAIN line.tokens : InOrder(line.tokens[i])
                /\ LastOf("device_id") # {} /\ LastOf("state") # {}
  IN  /\ (status # Rejected) <=> wanted
      /\ wanted => \A f \in StatusFields :
           \A i \in LastOf(f.key) : status[f.field] = Stored(f.reads, line.tokens[i].value)
=============================================================================
