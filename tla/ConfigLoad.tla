------------------------------ MODULE ConfigLoad ------------------------------
(***************************************************************************)
(* From the configuration of one collector to the first read of its         *)
(* metrics: metrics files and inline metrics are merged (config.rs), the    *)
(* result is validated (Config::load) or not (Config::load_for_pull), the   *)
(* factory makes a reader and a writer, the exporters start, and each       *)
(* metric is read and decoded as its protocol does it, with the unwraps,    *)
(* casts, slices and defaults that rely on the validation.                  *)
(*                                                                          *)
(* A value is abstracted to where it came from: the bytes it was made of,   *)
(* most significant first, counted from the first register or byte that was *)
(* asked for.  A command or a value to write is abstracted to its length.   *)
(* A path, a host or a certificate is there or not.  Left out are checks    *)
(* that nothing here relies on: names, scale, polling interval, delays.     *)
(***************************************************************************)
EXTENDS Integers, Sequences, FiniteSets

CONSTANTS
  Names,          \* of metrics
  Setups,         \* [protocol, mode, link, step, exporters]: collector and exporters
  Loaders,        \* some of "load", "load_for_pull"
  FileMetrics,    \* entries of metrics files
  Defaults,       \* defaults blocks of metrics files
  InlineMetrics,  \* entries of the collector's own list
  U8, U16,        \* the number of u8 and u16 values
  MaxEntries,     \* bound: entries
  None            \* a field that is absent

ASSUME ConfigAssumption ==
  /\ U8 \in Nat /\ U16 \in Nat /\ 8 < U8 /\ U8 <= U16
  /\ MaxEntries \in Nat

DataTypes == {"bool", "u8", "u16", "i16", "u32", "i32", "f32", "u64", "i64", "f64"}
ByteOrders == {"big", "little", "mid_big", "mid_little"}
MidEndian == {"mid_big", "mid_little"}
Bits == {"coil", "discrete"}
Modbus == {"modbus_tcp", "modbus_rtu"}
Protocols == Modbus \cup {"i2c", "spi", "i3c"}
Bytes == 0 .. 255
AddressModes == {"pid", "address", "device_class", "instance"}
Optional(S) == S \cup {None}

ASSUME NoneAssumption ==
  /\ None \notin ByteOrders \cup {"mqtt", "mqtts"}
  /\ None \notin [entry : FileMetrics \cup InlineMetrics, defaults : Defaults \cup {<<>>}]

\* RawMetricConfig, with lengths for byte strings: the values of each field.
MetricFields ==
  [type |-> Optional({"gauge", "counter"}),
   register_type |-> Optional({"holding", "input"} \cup Bits),
   address |-> Optional(0 .. U16 - 1),
   data_type |-> Optional(DataTypes), byte_order |-> Optional(ByteOrders),
   command |-> Nat, response_length |-> Optional(0 .. U16 - 1),
   response_offset |-> 0 .. U16 - 1]
HasValues(m) == \A f \in DOMAIN m : m[f] \in MetricFields[f]
IsMetric(m) == DOMAIN m = DOMAIN MetricFields /\ HasValues(m)
IsDefaults(d) == DOMAIN d \subseteq DOMAIN MetricFields /\ HasValues(d)

\* The parameters of Protocol, with slave_id.
IsLink(protocol, l) ==
  CASE protocol = "modbus_tcp" -> l \in [slave_id : Optional(Bytes)]
    [] protocol = "modbus_rtu" -> l \in [slave_id : Optional(Bytes), data_bits : Bytes, stop_bits : Bytes]
    [] protocol = "i2c" -> l \in [address : Bytes]
    [] protocol = "spi" -> l \in [speed_hz : Nat, mode : Bytes, bits_per_word : Bytes]
    [] protocol = "i3c" -> l \in [slave_id : Optional(Bytes), address : Optional(Bytes)]

\* ExportersConfig: the scheme of an endpoint, durations in milliseconds.
Exporters ==
  [otlp : [enabled : BOOLEAN, endpoint : Optional({"http"}), interval : Nat],
   prometheus : [enabled : BOOLEAN],
   mqtt : [enabled : BOOLEAN, endpoint : Optional({"mqtt", "mqtts", "tcp"}), timeout : Nat,
           qos : Bytes, cert : BOOLEAN, key : BOOLEAN]]

\* WriteStep, with lengths for byte strings.
WriteSteps == [address : Optional(Nat), value : Optional(Nat), command : Optional(Nat), delay : BOOLEAN]

ASSUME InputAssumption ==
  /\ \A m \in FileMetrics \cup InlineMetrics : IsMetric(m)
  /\ \A d \in Defaults : IsDefaults(d)
  /\ \A s \in Setups :
       /\ s.protocol \in Protocols /\ s.mode \subseteq AddressModes
       /\ IsLink(s.protocol, s.link)
       /\ s.protocol = "i3c" => ("address" \in s.mode <=> s.link.address # None)
       /\ s.step \in Optional(WriteSteps) /\ s.exporters \in Exporters

VARIABLES
  setup,    \* the collector's protocol, I3C address mode, link and one write step, the exporters
  loader,   \* the command: run loads, pull and watch load for pull
  stage,    \* how far loading has come
  entries,  \* metrics seen so far
  metrics,  \* the merged metrics
  last,     \* history: the last entry of each name, with the defaults of its file
  made,     \* the link the factory made the collector's reader with
  exports,  \* what each exporter that runs was started with
  outcome,  \* what each metric was decoded from
  written   \* how many bytes the write step put on the bus

vars == <<setup, loader, stage, entries, metrics, last, made, exports, outcome, written>>

Init ==
  /\ setup \in Setups /\ loader \in Loaders
  /\ stage = "files" /\ entries = 0
  /\ metrics = [n \in Names |-> None] /\ last = [n \in Names |-> None]
  /\ made = None /\ exports = None
  /\ outcome = [n \in Names |-> None]
  /\ written = None

-------------------------------------------------------------------------------
(***************************************************************************)
(* Merging (resolve_metrics_files).                                         *)
(***************************************************************************)
\* Defaults fill what an entry leaves open; the byte order has one of its own.
WithoutByteOrder(r, d) == [f \in DOMAIN r |-> IF r[f] = None /\ f \in DOMAIN d THEN d[f] ELSE r[f]]
into_metric(r, d) ==
  LET m == WithoutByteOrder(r, d)
  IN  IF m.byte_order = None THEN [m EXCEPT !.byte_order = "big"] ELSE m
\* An inline entry is a MetricConfig already, with the same default.
Inline(r) == into_metric(r, <<>>)
Complete(m) == m.type # None /\ m.data_type # None

InsertOnce(n, m) ==                         \* Mutant: the first entry is kept.
  metrics' = [metrics EXCEPT ![n] = IF @ = None THEN m ELSE @]
Insert(n, m) == metrics' = [metrics EXCEPT ![n] = m]
Remember(n, r, d) == last' = [last EXCEPT ![n] = [entry |-> r, defaults |-> d]]

\* One entry of a metrics file; the files come first.
FileEntry ==
  /\ stage = "files" /\ entries < MaxEntries
  /\ entries' = entries + 1
  /\ \E n \in Names, r \in FileMetrics, d \in Defaults :
       IF Complete(into_metric(r, d))
       THEN Insert(n, into_metric(r, d)) /\ Remember(n, r, d) /\ UNCHANGED stage
       ELSE stage' = "rejected" /\ UNCHANGED <<metrics, last>>
  /\ UNCHANGED <<setup, loader, made, exports, outcome, written>>

InlineEntry ==
  /\ stage \in {"files", "inline"} /\ entries < MaxEntries
  /\ entries' = entries + 1
  /\ \E n \in Names, r \in InlineMetrics :
       IF Complete(r)
       THEN Insert(n, Inline(r)) /\ Remember(n, r, <<>>) /\ stage' = "inline"
       ELSE stage' = "rejected" /\ UNCHANGED <<metrics, last>>
  /\ UNCHANGED <<setup, loader, made, exports, outcome, written>>

-------------------------------------------------------------------------------
(***************************************************************************)
(* Config::validate.                                                        *)
(***************************************************************************)
\* DataType::register_count and byte_size of config.rs.
register_count(t) ==
  CASE t \in {"bool", "u8", "u16", "i16"} -> 1
    [] t \in {"u32", "i32", "f32"} -> 2
    [] OTHER -> 4
byte_size(t) ==
  CASE t \in {"bool", "u8"} -> 1
    [] t \in {"u16", "i16"} -> 2
    [] t \in {"u32", "i32", "f32"} -> 4
    [] OTHER -> 8

ModbusOkAtStart(m) ==                       \* Mutant: only the first register counts.
  /\ m.address # None /\ m.register_type # None
  /\ m.register_type \in Bits <=> m.data_type = "bool"
  /\ ~(m.type = "counter" /\ m.register_type \in Bits)
  /\ m.data_type # "u8"
  /\ m.address < U16
ModbusOk(m) ==
  /\ m.address # None /\ m.register_type # None
  /\ m.register_type \in Bits <=> m.data_type = "bool"
  /\ ~(m.type = "counter" /\ m.register_type \in Bits)
  /\ m.data_type # "u8"
  /\ m.address + register_count(m.data_type) <= U16

\* I2C and I3C.
RegisterOk(m) == m.address # None /\ m.address < U8 /\ m.byte_order \notin MidEndian

\* The sum is taken in u16, and wraps in a release build.
SpiOk(m) ==
  LET resp_len == IF m.response_length = None THEN m.command % U16 ELSE m.response_length
  IN  /\ m.command > 0 /\ m.byte_order \notin MidEndian
      /\ (m.response_offset + byte_size(m.data_type)) % U16 <= resp_len

MetricOk(m) ==
  /\ CASE setup.protocol \in Modbus -> ModbusOk(m)
       [] setup.protocol = "spi" -> SpiOk(m)
       [] OTHER -> RegisterOk(m)
  /\ ~(m.type = "counter" /\ m.data_type = "bool")

\* A step of init_writes or pre_poll.
StepOkUnpaired(p, s) ==                     \* Mutant: a value may be left out.
  IF p = "spi"
  THEN s.address = None /\ s.value = None /\ (s.command # None \/ s.delay) /\ s.command # 0
  ELSE s.command = None /\ (s.address # None \/ s.delay) /\ s.value # 0
StepOk(p, s) ==
  IF p = "spi"
  THEN s.address = None /\ s.value = None /\ (s.command # None \/ s.delay) /\ s.command # 0
  ELSE /\ s.command = None /\ (s.address # None <=> s.value # None)
       /\ s.address # None \/ s.delay
       /\ s.value # 0

\* Exactly one I3C address mode, and a class with its instance.
ModeCount(mode) ==
  Cardinality(mode \cap {"pid", "address"}) + IF mode \cap {"device_class", "instance"} = {} THEN 0 ELSE 1
ModeOkHalf(mode) == ModeCount(mode) = 1     \* Mutant: half a device class is enough.
ModeOk(mode) == ModeCount(mode) = 1 /\ ("device_class" \in mode <=> "instance" \in mode)

\* The parameters of the bus.
SlaveOk(id) == id # None /\ id \in 1 .. 247
LinkOk(protocol, l) ==
  CASE protocol = "modbus_tcp" -> SlaveOk(l.slave_id)
    [] protocol = "modbus_rtu" -> SlaveOk(l.slave_id) /\ l.data_bits \in 5 .. 8 /\ l.stop_bits \in 1 .. 2
    [] protocol = "i2c" -> l.address \in 3 .. 119
    [] protocol = "spi" -> l.speed_hz > 0 /\ l.mode \in 0 .. 3 /\ l.bits_per_word \in 1 .. 32
    [] protocol = "i3c" -> l.slave_id = None /\ (l.address # None => l.address \in 8 .. 61)

\* MQTT's qos and certificates are checked also when it is disabled.
ExportersOk(e) ==
  /\ \E x \in DOMAIN e : e[x].enabled
  /\ e.otlp.enabled => e.otlp.endpoint # None
  /\ e.mqtt.enabled => e.mqtt.endpoint \in {"mqtt", "mqtts"}
  /\ e.mqtt.qos <= 2 /\ e.mqtt.cert = e.mqtt.key

Valid ==
  /\ ExportersOk(setup.exporters)
  /\ LinkOk(setup.protocol, setup.link)
  /\ setup.protocol = "i3c" => ModeOk(setup.mode)
  /\ setup.step # None => setup.protocol \notin Modbus /\ StepOk(setup.protocol, setup.step)
  /\ \E n \in Names : metrics[n] # None
  /\ \A n \in Names : metrics[n] # None => MetricOk(metrics[n])

\* load validates, load_for_pull does not.
Load ==
  /\ stage \in {"files", "inline"}
  /\ stage' = IF loader = "load_for_pull" \/ Valid THEN "loaded" ELSE "rejected"
  /\ UNCHANGED <<setup, loader, entries, metrics, last, made, exports, outcome, written>>

-------------------------------------------------------------------------------
(***************************************************************************)
(* The factory and the exporters.                                           *)
(***************************************************************************)
\* What a reader is made with: defaults for an absent slave id and for serial
\* parameters that are out of range.
Made(protocol, l) ==
  LET id == IF l.slave_id = None THEN 1 ELSE l.slave_id
  IN  CASE protocol = "modbus_tcp" -> [slave_id |-> id]
        [] protocol = "modbus_rtu" ->
             [slave_id |-> id,
              data_bits |-> IF l.data_bits \in 5 .. 7 THEN l.data_bits ELSE 8,
              stop_bits |-> IF l.stop_bits = 2 THEN 2 ELSE 1]
        [] OTHER -> l

\* Without a PID or an address, class and instance are unwrapped; an SPI mode
\* that does not exist is refused, and the collector skipped.
Create ==
  /\ stage = "loaded"
  /\ stage' = IF setup.protocol = "i3c" /\ setup.mode \cap {"pid", "address"} = {}
                 /\ ~({"device_class", "instance"} \subseteq setup.mode)
              THEN "panicked"
              ELSE IF setup.protocol = "spi" /\ setup.link.mode > 3 THEN "skipped" ELSE "ready"
  /\ made' = IF stage' = "ready" THEN Made(setup.protocol, setup.link) ELSE None
  /\ UNCHANGED <<setup, loader, entries, metrics, last, exports, outcome, written>>

\* qos_from_u8; TLS by scheme, and a client certificate if there is one with its key.
MqttClient(m) ==
  [qos |-> IF m.qos \in 0 .. 1 THEN m.qos ELSE 2,
   tls |-> m.endpoint = "mqtts",
   client_auth |-> m.endpoint = "mqtts" /\ m.cert /\ m.key]

\* What tokio's interval and rumqttc's set_keep_alive assert.
DurationOk(e, x) ==
  /\ x = "otlp" => e.otlp.interval > 0
  /\ x = "mqtt" => e.mqtt.timeout = 0 \/ e.mqtt.timeout >= 1000

\* The enabled exporters of run that have an endpoint and whose task does not
\* panic at its start.
Runs(e, x) ==
  /\ e[x].enabled /\ DurationOk(e, x)
  /\ x # "prometheus" => e[x].endpoint # None

StartExporters ==
  /\ stage = "ready" /\ loader = "load" /\ exports = None
  /\ LET e == setup.exporters
     IN  exports' = [x \in {y \in DOMAIN e : Runs(e, y)} |->
                       IF x = "mqtt" THEN MqttClient(e.mqtt) ELSE {}]
  /\ UNCHANGED <<setup, loader, stage, entries, metrics, last, made, outcome, written>>

\* execute_writes of the run command: register and value, or the command; a step
\* without them only waits.
ExecuteWrites ==
  /\ stage = "ready" /\ loader = "load" /\ setup.step # None /\ written = None
  /\ LET s == setup.step IN
     written' = IF setup.protocol = "spi"
                THEN IF s.command = None THEN 0 ELSE s.command
                ELSE IF s.address = None \/ s.value = None THEN 0 ELSE 1 + s.value
  /\ UNCHANGED <<setup, loader, stage, entries, metrics, last, made, exports, outcome>>

-------------------------------------------------------------------------------
(***************************************************************************)
(* Reading and decoding.                                                    *)
(***************************************************************************)
Panic == [from |-> "panic", first |-> 0, bytes |-> <<>>]
Err == [from |-> "err", first |-> 0, bytes |-> <<>>]

\* decoder.rs: its own count of bytes.
byte_count(t) ==
  CASE t \in {"bool", "u8"} -> 1
    [] t \in {"u16", "i16"} -> 2
    [] t \in {"u32", "i32", "f32"} -> 4
    [] OTHER -> 8

BigEndian(n) == [i \in 1 .. n |-> i - 1]

\* reorder_32 and reorder_64: bytes 2 i and 2 i + 1 are those of register i.
reorder_32(order) ==
  CASE order = "big" -> <<0, 1, 2, 3>>
    [] order = "little" -> <<3, 2, 1, 0>>
    [] order = "mid_big" -> <<2, 3, 0, 1>>
    [] order = "mid_little" -> <<1, 0, 3, 2>>
reorder_64(order) ==
  CASE order = "big" -> <<0, 1, 2, 3, 4, 5, 6, 7>>
    [] order = "little" -> <<7, 6, 5, 4, 3, 2, 1, 0>>
    [] order = "mid_big" -> <<4, 5, 6, 7, 0, 1, 2, 3>>
    [] order = "mid_little" -> <<1, 0, 3, 2, 5, 4, 7, 6>>

\* decode: one register is big-endian, and u8 is its lower byte.
decode(t, order) ==
  CASE register_count(t) = 2 -> reorder_32(order)
    [] register_count(t) = 4 -> reorder_64(order)
    [] t = "u8" -> <<1>>
    [] OTHER -> BigEndian(2)

\* decode_bytes: from_be_bytes or from_le_bytes.
decode_bytes(t, order) ==
  LET n == byte_count(t)
  IN  [i \in 1 .. n |-> IF order \in {"big", "mid_big"} THEN i - 1 ELSE n - i]

\* batch_read_coalesced, of one metric: the exclusive end of its range saturates, and
\* what it does not cover is out of bounds.  The range of a metric that is read alone
\* and saturates to nothing is refused, and the metric read individually.
ReadModbus(m, alone) ==
  LET kind == IF m.register_type = None THEN "holding" ELSE m.register_type
      behind == m.address + register_count(m.data_type)
      end == IF behind < U16 THEN behind ELSE U16 - 1
  IN  IF m.address # None /\ (kind \in Bits \/ behind <= end \/ (alone /\ end = m.address /\ behind <= U16))
      THEN [from |-> kind, first |-> m.address,
            bytes |-> IF kind \in Bits THEN <<0>> ELSE decode(m.data_type, m.byte_order)]
      ELSE Err

\* read_i2c_metric, read_i3c_metric: unwrap, cast, transfer.
ReadRegister(m) ==
  IF m.address = None THEN Panic
  ELSE [from |-> "register", first |-> m.address % U8, bytes |-> decode_bytes(m.data_type, m.byte_order)]

\* read_spi_metric: the command is padded, the response as long, and sliced.
ReadSpi(m) ==
  LET resp_len == IF m.response_length = None THEN m.command % U16 ELSE m.response_length
      tx_len == IF m.command < resp_len THEN resp_len ELSE m.command
  IN  IF m.response_offset + byte_count(m.data_type) > tx_len
      THEN Panic
      ELSE [from |-> "response", first |-> m.response_offset,
            bytes |-> decode_bytes(m.data_type, m.byte_order)]

\* Other metrics, not necessarily ones of Names, may be merged with a Modbus metric.
\* Every request that is legal is answered.
ReadMetric(n) ==
  /\ stage = "ready" /\ metrics[n] # None /\ outcome[n] = None
  /\ \E alone \in BOOLEAN :
       outcome' = [outcome EXCEPT ![n] =
         CASE setup.protocol \in Modbus -> ReadModbus(metrics[n], alone)
           [] setup.protocol = "spi" -> ReadSpi(metrics[n])
           [] OTHER -> ReadRegister(metrics[n])]
  /\ UNCHANGED <<setup, loader, stage, entries, metrics, last, made, exports, written>>

Next ==
  \/ FileEntry \/ InlineEntry \/ Load \/ Create \/ StartExporters \/ ExecuteWrites
  \/ \E n \in Names : ReadMetric(n)

Spec == Init /\ [][Next]_vars
-------------------------------------------------------------------------------
(***************************************************************************)
(* Properties.                                                              *)
(***************************************************************************)
TypeOK ==
  /\ setup \in Setups /\ loader \in Loaders /\ entries \in 0 .. MaxEntries
  /\ stage \in {"files", "inline", "loaded", "rejected", "ready", "skipped", "panicked"}
  /\ \A n \in Names : metrics[n] # None =>
       IsMetric(metrics[n]) /\ Complete(metrics[n]) /\ metrics[n].byte_order # None
  /\ \A n \in Names : outcome[n] # None => metrics[n] # None

\* What spec/decoder.md:33-40 says: where the byte of significance i is found.
Position(order, n, i) ==
  CASE order = "big" -> i
    [] order = "little" -> n - 1 - i
    [] order = "mid_big" -> (i + n \div 2) % n
    [] order = "mid_little" -> IF i % 2 = 0 THEN i + 1 ELSE i - 1
Layout(order, n) == [i \in 1 .. n |-> Position(order, n, i - 1)]

\* What the configuration of a metric asks for.
Intended(m) ==
  LET n == byte_size(m.data_type)
  IN  CASE setup.protocol \in Modbus ->
             [from |-> m.register_type, first |-> m.address,
              bytes |-> IF m.register_type \in Bits THEN <<0>>
                        ELSE Layout(IF n = 2 THEN "big" ELSE m.byte_order, n)]
        [] setup.protocol = "spi" ->
             [from |-> "response", first |-> m.response_offset, bytes |-> Layout(m.byte_order, n)]
        [] OTHER -> [from |-> "register", first |-> m.address, bytes |-> Layout(m.byte_order, n)]

\* The check of SPI metrics takes its sum in u16.  Where that wraps, a metric passes
\* that ends behind its response, unless its command is longer than a u16 tells.
Overruns(m) ==
  LET end == m.response_offset + byte_size(m.data_type)
  IN  setup.protocol = "spi" /\ end >= U16 /\ m.command < end

\* A range that ends with the topmost register is one short.
EndsAtTop(m) ==
  /\ setup.protocol \in Modbus /\ m.register_type \notin Bits
  /\ m.address + register_count(m.data_type) = U16

\* What reading a metric of a validated configuration may come to.
Readings(m) ==
  IF Overruns(m) THEN {Panic}
  ELSE IF ~EndsAtTop(m) THEN {Intended(m)}
  ELSE IF register_count(m.data_type) = 1 THEN {Intended(m), Err} ELSE {Err}

\* A metric of a configuration that was validated is read from exactly the bytes
\* it names, most significant first: no unwrap fails, no cast truncates, no byte
\* order is ignored that is not said to be.  There are two exceptions and no other:
\* a slice is out of bounds where the check wraps (config.rs:1237), and a metric
\* that ends with register 65535 is answered with an error, though one of a single
\* register only when it is merged with others (batch.rs:54).
AcceptedIsReadable ==
  loader = "load" => \A n \in Names : outcome[n] # None => outcome[n] \in Readings(metrics[n])

\* What a validated configuration says is what is started: the collector is
\* created, with the link that was configured and no default put in its place,
\* and every enabled exporter runs, over TLS and with a client certificate if and
\* only if that was asked for.  Its task panics for the durations that the libraries
\* do not take, at which the validation does not look, and for no other reason.
AcceptedIsCreated ==
  loader = "load" =>
    /\ stage \notin {"skipped", "panicked"}
    /\ stage = "ready" => made = setup.link
    /\ exports # None =>
         LET e == setup.exporters
         IN  /\ \A x \in DOMAIN e : e[x].enabled => (x \in DOMAIN exports <=> DurationOk(e, x))
             /\ "mqtt" \in DOMAIN exports =>
                  /\ exports["mqtt"].qos = e.mqtt.qos
                  /\ exports["mqtt"].tls <=> e.mqtt.endpoint = "mqtts"
                  /\ exports["mqtt"].client_auth <=> exports["mqtt"].tls /\ (e.mqtt.cert \/ e.mqtt.key)

\* A validated write step puts its bytes on the bus: a register and at least one
\* byte of value, or a command; only a step that is a delay alone writes nothing.
StepsTakeEffect ==
  written # None =>
    IF written = 0
    THEN setup.step.address = None /\ setup.step.value = None /\ setup.step.command = None
    ELSE written >= IF setup.protocol = "spi" THEN 1 ELSE 2

\* What an entry says of a field, or the defaults of its file do, or the schema does.
Given(l, f) ==
  IF l.entry[f] # None THEN l.entry[f]
  ELSE IF f \in DOMAIN l.defaults /\ l.defaults[f] # None THEN l.defaults[f]
  ELSE IF f = "byte_order" THEN "big" ELSE None

\* An entry replaces an earlier one of its name as a whole: whatever was loaded
\* before, from files with whatever defaults, every field of a metric is what its
\* last entry alone makes it (spec/config.md:333).
FullyReplaced ==
  \A n \in Names :
    metrics[n] = IF last[n] = None THEN None
                 ELSE [f \in DOMAIN last[n].entry |-> Given(last[n], f)]

\* What the I2C and I3C readers assume of every metric ("address validated as
\* present and in u8 range by config", src/reader/i2c/mod.rs:174): the register
\* read is the one configured.
AddressAsConfigured ==
  \A n \in Names : outcome[n] # None => outcome[n].first = metrics[n].address
===============================================================================
