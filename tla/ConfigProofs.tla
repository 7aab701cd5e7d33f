----------------------------- MODULE ConfigProofs -----------------------------
(***************************************************************************)
(* Proofs about ConfigLoad, for every configuration: any metrics, defaults, *)
(* links, write steps and exporters, and any width of bytes and words.      *)
(***************************************************************************)
EXTENDS ConfigLoad, FiniteSetTheorems, TLAPS

\* The fields of a metric have the values of their types.
LEMMA MetricTypes ==
  ASSUME NEW m, IsMetric(m)
  PROVE  /\ m.type \in Optional({"gauge", "counter"})
         /\ m.register_type \in Optional({"holding", "input"} \cup Bits)
         /\ m.address \in Optional(0 .. U16 - 1)
         /\ m.data_type \in Optional(DataTypes) /\ m.byte_order \in Optional(ByteOrders)
         /\ m.command \in Nat /\ m.response_length \in Optional(0 .. U16 - 1)
         /\ m.response_offset \in 0 .. U16 - 1
  <1> USE DEF IsMetric, HasValues, MetricFields
  <1>1. m.type \in Optional({"gauge", "counter"})
    OBVIOUS
  <1>2. m.register_type \in Optional({"holding", "input"} \cup Bits)
    <2>1. "register_type" \in DOMAIN MetricFields /\ MetricFields["register_type"] = Optional({"holding", "input"} \cup Bits)
      BY DEF MetricFields
    <2> QED BY <2>1
  <1>3. m.address \in Optional(0 .. U16 - 1)
    OBVIOUS
  <1>4. m.data_type \in Optional(DataTypes)
    OBVIOUS
  <1>5. m.byte_order \in Optional(ByteOrders)
    OBVIOUS
  <1>6. m.command \in Nat
    OBVIOUS
  <1>7. m.response_length \in Optional(0 .. U16 - 1)
    OBVIOUS
  <1>8. m.response_offset \in 0 .. U16 - 1
    <2>1. "response_offset" \in DOMAIN MetricFields /\ MetricFields["response_offset"] = 0 .. U16 - 1
      BY DEF MetricFields
    <2> QED BY <2>1
  <1> QED BY <1>1, <1>2, <1>3, <1>4, <1>5, <1>6, <1>7, <1>8

\* An entry, its gaps filled with defaults, is a metric with a byte order.
LEMMA IntoMetric ==
  ASSUME NEW r, IsMetric(r), NEW d, IsDefaults(d)
  PROVE  IsMetric(into_metric(r, d)) /\ into_metric(r, d).byte_order \in ByteOrders
  <1> DEFINE m == WithoutByteOrder(r, d)
  <1>1. DOMAIN m = DOMAIN MetricFields /\ \A f \in DOMAIN MetricFields : m[f] \in MetricFields[f]
    BY DEF WithoutByteOrder, IsMetric, IsDefaults, HasValues
  <1>2. "byte_order" \in DOMAIN MetricFields /\ MetricFields["byte_order"] = Optional(ByteOrders)
    BY DEF MetricFields
  <1> QED BY <1>1, <1>2 DEF into_metric, IsMetric, HasValues, Optional, ByteOrders

\* It has of each field what the entry says, or its defaults, or the schema.
LEMMA AsGiven ==
  ASSUME NEW r, IsMetric(r), NEW d, IsDefaults(d)
  PROVE  into_metric(r, d) = [f \in DOMAIN r |-> Given([entry |-> r, defaults |-> d], f)]
  <1> DEFINE m == WithoutByteOrder(r, d)
  <1>1. m = [f \in DOMAIN r |-> IF r[f] = None /\ f \in DOMAIN d THEN d[f] ELSE r[f]]
    BY DEF WithoutByteOrder
  <1>2. "byte_order" \in DOMAIN r
    BY DEF IsMetric, MetricFields
  <1>3. into_metric(r, d) = IF m.byte_order = None THEN [m EXCEPT !.byte_order = "big"] ELSE m
    BY DEF into_metric
  <1>4. into_metric(r, d) = [f \in DOMAIN r |-> IF f = "byte_order" /\ m[f] = None THEN "big" ELSE m[f]]
    <2> HIDE DEF m
    <2>1. m = [f \in DOMAIN r |-> m[f]]
      BY <1>1
    <2> QED BY <1>2, <1>3, <2>1
  <1>5. \A f \in DOMAIN r : Given([entry |-> r, defaults |-> d], f) =
          IF f = "byte_order" /\ m[f] = None THEN "big" ELSE m[f]
    BY <1>1 DEF Given
  <1> HIDE DEF m
  <1> QED BY <1>4, <1>5

\* The widths of bytes and words, as far as the proofs need them.
LEMMA Widths == U8 \in Nat /\ U16 \in Nat /\ U8 > 8 /\ U8 <= U16 /\ MaxEntries \in Nat
  BY ConfigAssumption

-------------------------------------------------------------------------------
\* The decoder's byte orders are those of the specification.
LEMMA Reorder ==
  ASSUME NEW order \in ByteOrders
  PROVE  reorder_32(order) = Layout(order, 4) /\ reorder_64(order) = Layout(order, 8)
  <1>1. CASE order = "big"
    BY <1>1 DEF reorder_32, reorder_64, Layout, Position
  <1>2. CASE order = "little"
    BY <1>2 DEF reorder_32, reorder_64, Layout, Position
  <1>3. CASE order = "mid_big"
    BY <1>3 DEF reorder_32, reorder_64, Layout, Position
  <1>4. CASE order = "mid_little"
    BY <1>4 DEF reorder_32, reorder_64, Layout, Position
  <1> QED BY <1>1, <1>2, <1>3, <1>4 DEF ByteOrders

\* The sizes of a type, as the configuration and as the decoder have them.
LEMMA Sizes ==
  ASSUME NEW t \in DataTypes
  PROVE  /\ byte_count(t) = byte_size(t) /\ byte_size(t) \in {1, 2, 4, 8}
         /\ register_count(t) \in {1, 2, 4}
         /\ byte_size(t) = 1 <=> t \in {"bool", "u8"}
         /\ byte_size(t) = 2 <=> t \in {"u16", "i16"}
         /\ byte_size(t) = 4 <=> register_count(t) = 2
         /\ byte_size(t) = 8 <=> register_count(t) = 4
         /\ 2 * register_count(t) >= byte_size(t)
  BY DEF byte_count, byte_size, register_count, DataTypes

\* decode_bytes of a byte order that validation lets pass.
LEMMA BytesInOrder ==
  ASSUME NEW t \in DataTypes, NEW order \in ByteOrders \ MidEndian
  PROVE  decode_bytes(t, order) = Layout(order, byte_size(t))
  <1>1. byte_count(t) = byte_size(t) /\ byte_size(t) \in Nat
    BY Sizes
  <1>2. CASE order = "big"
    BY <1>1, <1>2 DEF decode_bytes, Layout, Position
  <1>3. CASE order = "little"
    BY <1>1, <1>3 DEF decode_bytes, Layout, Position
  <1> QED BY <1>2, <1>3 DEF ByteOrders, MidEndian

\* decode of the registers of a type that a register may have.
LEMMA RegistersInOrder ==
  ASSUME NEW t \in DataTypes \ {"u8", "bool"}, NEW order \in ByteOrders
  PROVE  decode(t, order) = Layout(IF byte_size(t) = 2 THEN "big" ELSE order, byte_size(t))
  <1>1. CASE byte_size(t) = 2
    <2>1. register_count(t) = 1 /\ t # "u8"
      BY <1>1, Sizes DEF register_count
    <2>2. decode(t, order) = BigEndian(2)
      BY <2>1 DEF decode
    <2>3. BigEndian(2) = Layout("big", 2)
      BY DEF BigEndian, Layout, Position
    <2> QED BY <1>1, <2>2, <2>3
  <1>2. CASE byte_size(t) = 4
    <2>1. decode(t, order) = reorder_32(order)
      BY <1>2, Sizes DEF decode
    <2> QED BY <1>2, <2>1, Reorder
  <1>3. CASE byte_size(t) = 8
    <2>1. decode(t, order) = reorder_64(order)
      BY <1>3, Sizes DEF decode
    <2> QED BY <1>3, <2>1, Reorder
  <1> QED BY <1>1, <1>2, <1>3, Sizes

\* What ReadMetric yields for a metric, alone or merged with others.
ReadBy(m, alone) ==
  CASE setup.protocol \in Modbus -> ReadModbus(m, alone)
    [] setup.protocol = "spi" -> ReadSpi(m)
    [] OTHER -> ReadRegister(m)

\* A metric that validation accepts is read from the bytes it names, unless it
\* overruns its response or ends with the topmost register.
LEMMA ValidIsReadable ==
  ASSUME NEW m, IsMetric(m), Complete(m), m.byte_order \in ByteOrders, MetricOk(m),
         NEW alone \in BOOLEAN
  PROVE  ReadBy(m, alone) \in Readings(m)
  <1>1. /\ m.data_type \in DataTypes /\ byte_size(m.data_type) \in {1, 2, 4, 8}
        /\ byte_count(m.data_type) = byte_size(m.data_type)
    BY MetricTypes, Sizes DEF Complete, Optional
  <1>2. CASE setup.protocol \in Modbus
    <2>1. ModbusOk(m) /\ setup.protocol # "spi"
      BY <1>2 DEF MetricOk, Modbus
    <2>2. m.register_type # None /\ m.address # None
          /\ (m.register_type \in Bits \/ m.data_type \notin {"u8", "bool"})
          /\ m.address + register_count(m.data_type) <= U16
      BY <2>1 DEF ModbusOk
    <2>3. m.address \in Int /\ register_count(m.data_type) \in Int
      BY <1>1, <2>2, MetricTypes, Sizes DEF Optional
    <2> DEFINE value == [from |-> m.register_type, first |-> m.address,
                         bytes |-> IF m.register_type \in Bits THEN <<0>> ELSE decode(m.data_type, m.byte_order)]
               behind == m.address + register_count(m.data_type)
               end == IF behind < U16 THEN behind ELSE U16 - 1
    <2>4. ReadModbus(m, alone) = IF m.register_type \in Bits \/ behind <= end \/ (alone /\ end = m.address)
                                 THEN value ELSE Err
      BY <2>2 DEF ReadModbus
    <2>5. m.register_type \notin Bits =>
            decode(m.data_type, m.byte_order) =
              Layout(IF byte_size(m.data_type) = 2 THEN "big" ELSE m.byte_order, byte_size(m.data_type))
      BY <1>1, <2>2, RegistersInOrder
    <2>6. Intended(m) = [from |-> m.register_type, first |-> m.address,
                         bytes |-> IF m.register_type \in Bits THEN <<0>>
                                   ELSE Layout(IF byte_size(m.data_type) = 2 THEN "big" ELSE m.byte_order,
                                               byte_size(m.data_type))]
      BY <1>2, <2>1 DEF Intended
    <2>7. value = Intended(m)
      BY <2>5, <2>6
    <2>8. EndsAtTop(m) <=> m.register_type \notin Bits /\ behind = U16
      BY <1>2 DEF EndsAtTop
    <2>9. ~Overruns(m)
      BY <2>1 DEF Overruns
    <2>10. ReadBy(m, alone) = ReadModbus(m, alone)
      BY <1>2, <2>1 DEF ReadBy
    <2>11. behind <= end <=> behind # U16
      BY <2>2, <2>3, Widths
    <2>12. behind = U16 /\ end = m.address => register_count(m.data_type) = 1
      BY <2>3, Widths
    <2> HIDE DEF value, behind, end
    <2>13. CASE EndsAtTop(m)
      <3>1. ReadBy(m, alone) \in {Intended(m), Err}
        BY <2>4, <2>7, <2>10
      <3>2. register_count(m.data_type) # 1 => ReadBy(m, alone) = Err
        BY <2>4, <2>8, <2>10, <2>11, <2>12, <2>13
      <3> QED BY <2>9, <2>13, <3>1, <3>2 DEF Readings
    <2>14. CASE ~EndsAtTop(m)
      BY <2>4, <2>7, <2>8, <2>9, <2>10, <2>11, <2>14 DEF Readings
    <2> QED BY <2>13, <2>14
  <1>3. CASE setup.protocol = "spi"
    <2> DEFINE resp_len == IF m.response_length = None THEN m.command % U16 ELSE m.response_length
               tx_len == IF m.command < resp_len THEN resp_len ELSE m.command
               size == byte_size(m.data_type)
    <2>1. SpiOk(m) /\ setup.protocol \notin Modbus
      BY <1>3 DEF MetricOk, Modbus
    <2>2. m.byte_order \in ByteOrders \ MidEndian /\ (m.response_offset + size) % U16 <= resp_len
      BY <2>1 DEF SpiOk
    <2>3. m.response_offset \in Nat /\ m.command \in Nat /\ resp_len \in 0 .. U16 - 1
      BY MetricTypes, Widths DEF Optional
    <2>4. ReadBy(m, alone) = ReadSpi(m)
      BY <1>3, <2>1 DEF ReadBy
    <2>5. m.response_offset + size > tx_len <=> Overruns(m)
      <3>1. CASE m.response_offset + size < U16
        <4>1. (m.response_offset + size) % U16 = m.response_offset + size
          BY <1>1, <2>3, <3>1, Widths
        <4> QED BY <1>1, <2>2, <2>3, <3>1, <4>1, Widths DEF Overruns
      <3>2. CASE m.response_offset + size >= U16
        BY <1>1, <1>3, <2>3, <3>2, Widths DEF Overruns
      <3> QED BY <1>1, <2>3, <3>1, <3>2, Widths
    <2>6. ReadSpi(m) = IF m.response_offset + size > tx_len THEN Panic
                       ELSE [from |-> "response", first |-> m.response_offset,
                             bytes |-> decode_bytes(m.data_type, m.byte_order)]
      BY <1>1 DEF ReadSpi
    <2>7. decode_bytes(m.data_type, m.byte_order) = Layout(m.byte_order, size)
      BY <1>1, <2>2, BytesInOrder
    <2>8. Intended(m) = [from |-> "response", first |-> m.response_offset, bytes |-> Layout(m.byte_order, size)]
      BY <1>3, <2>1 DEF Intended
    <2> HIDE DEF resp_len, tx_len, size
    <2>9. ~EndsAtTop(m)
      BY <2>1 DEF EndsAtTop
    <2> QED BY <2>4, <2>5, <2>6, <2>7, <2>8, <2>9 DEF Readings
  <1>4. CASE setup.protocol \notin Modbus \cup {"spi"}
    <2>1. RegisterOk(m)
      BY <1>4 DEF MetricOk
    <2>2. m.address # None /\ m.address < U8 /\ m.byte_order \in ByteOrders \ MidEndian
      BY <2>1 DEF RegisterOk
    <2>3. m.address \in Nat /\ m.address % U8 = m.address
      <3>1. m.address \in Nat
        BY <2>2, MetricTypes, Widths DEF Optional
      <3> QED BY <2>2, <3>1, Widths
    <2>4. decode_bytes(m.data_type, m.byte_order) = Layout(m.byte_order, byte_size(m.data_type))
      BY <1>1, <2>2, BytesInOrder
    <2>5. ReadRegister(m) = [from |-> "register", first |-> m.address,
                             bytes |-> decode_bytes(m.data_type, m.byte_order)]
      BY <2>2, <2>3 DEF ReadRegister
    <2>6. ReadBy(m, alone) = Intended(m)
      BY <1>4, <2>4, <2>5 DEF ReadBy, Intended
    <2> QED BY <1>4, <2>6 DEF Readings, Overruns, EndsAtTop
  <1> QED BY <1>2, <1>3, <1>4

-------------------------------------------------------------------------------
\* The factory puts no default in the place of a parameter that validation accepts.
LEMMA ValidIsMade ==
  ASSUME NEW p \in Protocols, NEW l, IsLink(p, l), LinkOk(p, l)
  PROVE  Made(p, l) = l /\ (p = "spi" => l.mode <= 3)
  <1>1. CASE p = "modbus_tcp"
    <2>1. l \in [slave_id : Optional(Bytes)] /\ l.slave_id # None
      BY <1>1 DEF IsLink, LinkOk, SlaveOk
    <2>2. Made(p, l) = [slave_id |-> l.slave_id]
      BY <1>1, <2>1 DEF Made
    <2> QED BY <1>1, <2>1, <2>2
  <1>2. CASE p = "modbus_rtu"
    <2>1. /\ l \in [slave_id : Optional(Bytes), data_bits : Bytes, stop_bits : Bytes]
          /\ l.slave_id # None /\ l.data_bits \in 5 .. 8 /\ l.stop_bits \in 1 .. 2
      BY <1>2 DEF IsLink, LinkOk, SlaveOk
    <2>2. Made(p, l) = [slave_id |-> l.slave_id,
                        data_bits |-> IF l.data_bits \in 5 .. 7 THEN l.data_bits ELSE 8,
                        stop_bits |-> IF l.stop_bits = 2 THEN 2 ELSE 1]
      BY <1>2, <2>1 DEF Made
    <2>3. (IF l.data_bits \in 5 .. 7 THEN l.data_bits ELSE 8) = l.data_bits
          /\ (IF l.stop_bits = 2 THEN 2 ELSE 1) = l.stop_bits
      BY <2>1
    <2> QED BY <1>2, <2>1, <2>2, <2>3
  <1>3. CASE p \in {"i2c", "i3c"}
    BY <1>3 DEF Made
  <1>4. CASE p = "spi"
    BY <1>4 DEF Made, LinkOk
  <1> QED BY <1>1, <1>2, <1>3, <1>4 DEF Protocols, Modbus

\* Every enabled exporter that validation accepts runs, but for its durations.
LEMMA ValidRuns ==
  ASSUME NEW e \in Exporters, ExportersOk(e), NEW x \in DOMAIN e, e[x].enabled, DurationOk(e, x)
  PROVE  Runs(e, x)
  <1>1. x \in {"otlp", "prometheus", "mqtt"}
    BY DEF Exporters
  <1>2. CASE x = "otlp"
    BY <1>2 DEF Runs, ExportersOk
  <1>3. CASE x = "mqtt"
    BY <1>3, NoneAssumption DEF Runs, ExportersOk, ByteOrders
  <1> QED BY <1>1, <1>2, <1>3 DEF Runs

\* What StartExporters starts.
Started(e) ==
  [x \in {y \in DOMAIN e : Runs(e, y)} |-> IF x = "mqtt" THEN MqttClient(e.mqtt) ELSE {}]

\* Exporters that validate lets pass are started as configured.
LEMMA ValidIsStarted ==
  ASSUME NEW e \in Exporters, ExportersOk(e)
  PROVE  /\ \A x \in DOMAIN e : e[x].enabled => (x \in DOMAIN Started(e) <=> DurationOk(e, x))
         /\ "mqtt" \in DOMAIN Started(e) =>
              /\ Started(e)["mqtt"].qos = e.mqtt.qos
              /\ Started(e)["mqtt"].tls <=> e.mqtt.endpoint = "mqtts"
              /\ Started(e)["mqtt"].client_auth <=>
                   Started(e)["mqtt"].tls /\ (e.mqtt.cert \/ e.mqtt.key)
  <1>1. \A x \in DOMAIN e : e[x].enabled => (x \in DOMAIN Started(e) <=> DurationOk(e, x))
    <2>1. \A x \in DOMAIN Started(e) : DurationOk(e, x)
      BY DEF Started, Runs
    <2>2. \A x \in DOMAIN e : e[x].enabled /\ DurationOk(e, x) => x \in DOMAIN Started(e)
      BY ValidRuns DEF Started
    <2> QED BY <2>1, <2>2
  <1>2. e.mqtt.qos \in 0 .. 2 /\ e.mqtt.cert = e.mqtt.key /\ e.mqtt.cert \in BOOLEAN /\ e.mqtt.key \in BOOLEAN
    BY DEF Exporters, ExportersOk, Bytes
  <1>3. "mqtt" \in DOMAIN Started(e) => Started(e)["mqtt"] = MqttClient(e.mqtt)
    BY DEF Started
  <1>4. /\ MqttClient(e.mqtt).qos = e.mqtt.qos
        /\ MqttClient(e.mqtt).tls <=> e.mqtt.endpoint = "mqtts"
        /\ MqttClient(e.mqtt).client_auth <=>
             MqttClient(e.mqtt).tls /\ (e.mqtt.cert \/ e.mqtt.key)
    <2>1. MqttClient(e.mqtt).qos = e.mqtt.qos
      BY <1>2 DEF MqttClient
    <2>2. MqttClient(e.mqtt).tls <=> e.mqtt.endpoint = "mqtts"
      BY DEF MqttClient
    <2>3. MqttClient(e.mqtt).client_auth <=> e.mqtt.endpoint = "mqtts" /\ e.mqtt.cert /\ e.mqtt.key
      BY DEF MqttClient
    <2> QED BY <1>2, <2>1, <2>2, <2>3
  <1> QED BY <1>1, <1>3, <1>4

-------------------------------------------------------------------------------
\* Loading has ended.
Loaded == {"loaded", "ready", "skipped", "panicked"}

Functions ==
  /\ metrics = [n \in Names |-> metrics[n]] /\ last = [n \in Names |-> last[n]]
  /\ outcome = [n \in Names |-> outcome[n]]

\* A configuration gets past Load valid, and nothing is made before that.
LoadInv ==
  /\ stage \in Loaded /\ loader = "load" => Valid
  /\ stage \notin Loaded =>
       made = None /\ exports = None /\ written = None /\ \A n \in Names : outcome[n] = None

\* What the factory and the exporters made of it.
MadeInv ==
  /\ stage = "ready" => made = Made(setup.protocol, setup.link)
  /\ stage = "skipped" => setup.protocol = "spi" /\ setup.link.mode > 3
  /\ stage = "panicked" => /\ setup.protocol = "i3c" /\ setup.mode \cap {"pid", "address"} = {}
                           /\ ~({"device_class", "instance"} \subseteq setup.mode)
  /\ exports # None => exports = Started(setup.exporters)

\* What was read and written.
UsedInv ==
  /\ \A n \in Names : outcome[n] # None => metrics[n] # None /\ \E alone \in BOOLEAN : outcome[n] = ReadBy(metrics[n], alone)
  /\ written # None =>
       /\ loader = "load" /\ setup.step # None
       /\ written = IF setup.protocol = "spi"
                    THEN IF setup.step.command = None THEN 0 ELSE setup.step.command
                    ELSE IF setup.step.address = None \/ setup.step.value = None THEN 0
                         ELSE 1 + setup.step.value

IInv == TypeOK /\ Functions /\ LoadInv /\ MadeInv /\ UsedInv /\ FullyReplaced

\* Before the first entry the invariant holds.
LEMMA InitIInv == Init => IInv
  <1> SUFFICES ASSUME Init PROVE IInv
    OBVIOUS
  <1> USE DEF Init
  <1>1. TypeOK
    BY Widths DEF TypeOK
  <1> QED BY <1>1 DEF IInv, Functions, LoadInv, MadeInv, UsedInv, FullyReplaced, Loaded

\* The merge: an entry replaces an earlier one of its name.
LEMMA EntryStep ==
  ASSUME IInv, FileEntry \/ InlineEntry PROVE IInv'
  <1> USE DEF IInv
  <1>1. /\ stage \notin Loaded /\ stage' \notin Loaded /\ stage' \in {"files", "inline", "rejected"}
        /\ entries' = entries + 1 /\ entries < MaxEntries
        /\ UNCHANGED <<setup, loader, made, exports, outcome, written>>
    BY DEF FileEntry, InlineEntry, Loaded
  <1>2. \/ UNCHANGED <<metrics, last>>
        \/ \E n \in Names : \E r, d :
             /\ metrics' = [metrics EXCEPT ![n] = into_metric(r, d)]
             /\ last' = [last EXCEPT ![n] = [entry |-> r, defaults |-> d]]
             /\ IsMetric(r) /\ IsDefaults(d) /\ Complete(into_metric(r, d))
             /\ [entry |-> r, defaults |-> d] # None
    <2>1. CASE FileEntry
      <3>1. PICK n \in Names, r \in FileMetrics, d \in Defaults :
              \/ /\ Complete(into_metric(r, d)) /\ metrics' = [metrics EXCEPT ![n] = into_metric(r, d)]
                 /\ last' = [last EXCEPT ![n] = [entry |-> r, defaults |-> d]]
              \/ UNCHANGED <<metrics, last>>
        BY <2>1 DEF FileEntry, Insert, Remember
      <3>2. IsMetric(r) /\ IsDefaults(d) /\ [entry |-> r, defaults |-> d] # None
        BY InputAssumption, NoneAssumption
      <3> QED BY <3>1, <3>2
    <2>2. CASE InlineEntry
      <3>1. PICK n \in Names, r \in InlineMetrics :
              \/ /\ Complete(r) /\ metrics' = [metrics EXCEPT ![n] = into_metric(r, <<>>)]
                 /\ last' = [last EXCEPT ![n] = [entry |-> r, defaults |-> <<>>]]
              \/ UNCHANGED <<metrics, last>>
        BY <2>2 DEF InlineEntry, Insert, Inline, Remember
      <3>2. IsMetric(r) /\ IsDefaults(<<>>) /\ [entry |-> r, defaults |-> <<>>] # None
        BY InputAssumption, NoneAssumption DEF IsDefaults, HasValues
      <3>3. Complete(r) => Complete(into_metric(r, <<>>))
        <4>1. DOMAIN r = DOMAIN MetricFields /\ "type" \in DOMAIN MetricFields /\ "data_type" \in DOMAIN MetricFields
          BY InputAssumption DEF IsMetric, MetricFields
        <4>2. WithoutByteOrder(r, <<>>) = [f \in DOMAIN r |-> r[f]]
          BY DEF WithoutByteOrder
        <4>3. into_metric(r, <<>>).type = r.type /\ into_metric(r, <<>>).data_type = r.data_type
          BY <4>1, <4>2 DEF into_metric
        <4> QED BY <4>3 DEF Complete
      <3> QED BY <3>1, <3>2, <3>3
    <2> QED BY <2>1, <2>2
  <1>3. \A o \in ByteOrders : o # None
    BY NoneAssumption
  <1>4. TypeOK' /\ Functions' /\ FullyReplaced'
    <2>1. CASE UNCHANGED <<metrics, last>>
      BY <1>1, <2>1, Widths DEF TypeOK, Functions, FullyReplaced, Given
    <2>2. ASSUME NEW n \in Names, NEW r, NEW d,
                 metrics' = [metrics EXCEPT ![n] = into_metric(r, d)],
                 last' = [last EXCEPT ![n] = [entry |-> r, defaults |-> d]],
                 IsMetric(r), IsDefaults(d), Complete(into_metric(r, d)), [entry |-> r, defaults |-> d] # None
          PROVE  TypeOK' /\ Functions' /\ FullyReplaced'
      <3>1. /\ metrics' = [k \in Names |-> IF k = n THEN into_metric(r, d) ELSE metrics[k]]
            /\ last' = [k \in Names |-> IF k = n THEN [entry |-> r, defaults |-> d] ELSE last[k]]
        BY <2>2 DEF Functions
      <3>2. \A k \in Names : outcome'[k] = None
        BY <1>1 DEF LoadInv
      <3>3. IsMetric(into_metric(r, d)) /\ into_metric(r, d).byte_order # None
        BY <1>3, <2>2, IntoMetric
      <3>4. TypeOK'
        BY <1>1, <2>2, <3>1, <3>2, <3>3, Widths DEF TypeOK
      <3>5. Functions'
        BY <1>1, <3>1 DEF Functions
      <3>6. FullyReplaced'
        <4>1. ASSUME NEW k \in Names, k # n
              PROVE  metrics'[k] = IF last'[k] = None THEN None
                                   ELSE [f \in DOMAIN last'[k].entry |-> Given(last'[k], f)]
          BY <3>1, <4>1 DEF FullyReplaced
        <4>2. last'[n] = [entry |-> r, defaults |-> d] /\ last'[n].entry = r
          BY <3>1
        <4>3. metrics'[n] = [f \in DOMAIN last'[n].entry |-> Given(last'[n], f)]
          BY <2>2, <3>1, <4>2, AsGiven
        <4>4. last'[n] # None
          BY <2>2, <4>2
        <4> QED BY <4>1, <4>3, <4>4 DEF FullyReplaced, Given
      <3> QED BY <3>4, <3>5, <3>6
    <2> QED BY <1>2, <2>1, <2>2
  <1>5. LoadInv' /\ MadeInv' /\ UsedInv'
    BY <1>1 DEF LoadInv, MadeInv, UsedInv, Loaded
  <1> QED BY <1>4, <1>5

\* Validation, or loading for pull without it.
LEMMA LoadStep == ASSUME IInv, Load PROVE IInv'
  <1> USE DEF IInv, Load
  <1>1. TypeOK' /\ Functions' /\ FullyReplaced'
    BY DEF TypeOK, Functions, FullyReplaced
  <1>2. Valid' <=> Valid
    BY DEF Valid, MetricOk, ModbusOk, RegisterOk, SpiOk
  <1>3. LoadInv'
    BY <1>2 DEF LoadInv, Loaded
  <1>4. MadeInv' /\ UsedInv'
    BY DEF LoadInv, MadeInv, UsedInv, Loaded
  <1> QED BY <1>1, <1>3, <1>4

\* The steps of a loaded configuration leave what Valid looks at alone.
LEMMA UseStep ==
  ASSUME IInv, Create \/ StartExporters \/ ExecuteWrites \/ \E n \in Names : ReadMetric(n)
  PROVE  IInv'
  <1> USE DEF IInv
  <1>1. /\ stage \in Loaded /\ stage' \in Loaded
        /\ UNCHANGED <<setup, loader, entries, metrics, last>>
    BY DEF Create, StartExporters, ExecuteWrites, ReadMetric, Loaded
  <1>2. Valid' <=> Valid
    BY <1>1 DEF Valid, MetricOk, ModbusOk, RegisterOk, SpiOk
  <1>3. LoadInv'
    BY <1>1, <1>2 DEF LoadInv
  <1>4. FullyReplaced' /\ \A m, a : ReadBy(m, a)' = ReadBy(m, a)
    BY <1>1 DEF FullyReplaced, Given, ReadBy
  <1>5. CASE Create
    <2>1. TypeOK' /\ Functions'
      BY <1>1, <1>5 DEF TypeOK, Functions, Create, Loaded
    <2>2. MadeInv' /\ UsedInv'
      BY <1>4, <1>5 DEF MadeInv, UsedInv, Create
    <2> QED BY <1>3, <1>4, <2>1, <2>2
  <1>6. CASE StartExporters
    <2>1. TypeOK' /\ Functions'
      BY <1>1, <1>6 DEF TypeOK, Functions, StartExporters
    <2>2. MadeInv' /\ UsedInv'
      BY <1>4, <1>6 DEF MadeInv, UsedInv, StartExporters, Started
    <2> QED BY <1>3, <1>4, <2>1, <2>2
  <1>7. CASE ExecuteWrites
    <2>1. TypeOK' /\ Functions'
      BY <1>1, <1>7 DEF TypeOK, Functions, ExecuteWrites
    <2>2. MadeInv' /\ UsedInv'
      BY <1>4, <1>7 DEF MadeInv, UsedInv, ExecuteWrites
    <2> QED BY <1>3, <1>4, <2>1, <2>2
  <1>8. ASSUME NEW n \in Names, ReadMetric(n) PROVE IInv'
    <2>1. PICK alone \in BOOLEAN :
            /\ metrics[n] # None /\ outcome' = [outcome EXCEPT ![n] = ReadBy(metrics[n], alone)]
            /\ UNCHANGED <<setup, loader, stage, entries, metrics, last, made, exports, written>>
      BY <1>8 DEF ReadMetric, ReadBy
    <2>2. outcome' = [k \in Names |-> IF k = n THEN ReadBy(metrics[n], alone) ELSE outcome[k]]
      BY <2>1 DEF Functions
    <2>3. TypeOK' /\ Functions'
      BY <2>1, <2>2 DEF TypeOK, Functions
    <2>4. MadeInv'
      BY <2>1 DEF MadeInv
    <2>5. UsedInv'
      BY <1>4, <2>1, <2>2 DEF UsedInv
    <2> QED BY <1>3, <1>4, <2>3, <2>4, <2>5
  <1> QED BY <1>5, <1>6, <1>7, <1>8

-------------------------------------------------------------------------------
\* Every reachable state satisfies IInv: what is made, started, read and written
\* comes from a configuration that does not change any more, and that is valid
\* when load made it.
THEOREM InductiveInvariant == Spec => []IInv
  <1>1. IInv /\ [Next]_vars => IInv'
    <2> SUFFICES ASSUME IInv, [Next]_vars PROVE IInv'
      OBVIOUS
    <2>1. CASE UNCHANGED vars
      BY <2>1 DEF vars, IInv, TypeOK, Functions, LoadInv, MadeInv, UsedInv, FullyReplaced, ReadBy,
                  Valid, MetricOk, ModbusOk, RegisterOk, SpiOk
    <2> QED BY <2>1, EntryStep, LoadStep, UseStep DEF Next
  <1> QED BY <1>1, InitIInv, PTL DEF Spec

\* The variables keep their types; a merged metric has a type, a data type and a
\* byte order.
THEOREM TypeCorrect == Spec => []TypeOK
  <1>1. IInv => TypeOK
    BY DEF IInv
  <1> QED BY <1>1, InductiveInvariant, PTL

\* Whatever validate lets pass, every reader takes each metric from the bytes it
\* names, in their order; the slice of an SPI response fails exactly where the sum of
\* its check wraps, and a Modbus metric gets an error exactly where the end of its
\* range saturates.
THEOREM AcceptedReadable == Spec => []AcceptedIsReadable
  <1>1. IInv => AcceptedIsReadable
    <2> SUFFICES ASSUME IInv, loader = "load", NEW n \in Names, outcome[n] # None
                 PROVE  outcome[n] \in Readings(metrics[n])
      BY DEF AcceptedIsReadable
    <2>1. Valid /\ metrics[n] # None
      BY DEF IInv, LoadInv, TypeOK
    <2>2. /\ IsMetric(metrics[n]) /\ Complete(metrics[n]) /\ metrics[n].byte_order # None
          /\ MetricOk(metrics[n])
      BY <2>1 DEF IInv, TypeOK, Valid
    <2>3. metrics[n].byte_order \in ByteOrders
      BY <2>2, MetricTypes DEF Optional
    <2> QED BY <2>2, <2>3, ValidIsReadable DEF IInv, UsedInv
  <1> QED BY <1>1, InductiveInvariant, PTL

\* Whatever validate lets pass, the factory makes as it is configured, and
\* run_command starts every enabled exporter as it is configured.
THEOREM AcceptedCreated == Spec => []AcceptedIsCreated
  <1>1. IInv => AcceptedIsCreated
    <2> SUFFICES ASSUME IInv, loader = "load" PROVE AcceptedIsCreated
      BY DEF AcceptedIsCreated
    <2>1. stage \in Loaded => Valid
      BY DEF IInv, LoadInv
    <2>2. setup.protocol \in Protocols /\ IsLink(setup.protocol, setup.link)
          /\ setup.mode \subseteq AddressModes /\ setup.exporters \in Exporters
      BY InputAssumption DEF IInv, TypeOK
    <2>3. stage # "skipped"
      <3> SUFFICES ASSUME stage = "skipped" PROVE FALSE
        OBVIOUS
      <3>1. setup.protocol = "spi" /\ setup.link.mode > 3 /\ LinkOk(setup.protocol, setup.link)
        BY <2>1 DEF IInv, MadeInv, Loaded, Valid
      <3>2. setup.link.mode \in 0 .. 3
        BY <3>1 DEF LinkOk
      <3> QED BY <3>1, <3>2
    <2>4. stage # "panicked"
      <3> SUFFICES ASSUME stage = "panicked" PROVE FALSE
        OBVIOUS
      <3>1. /\ setup.mode \cap {"pid", "address"} = {} /\ ~({"device_class", "instance"} \subseteq setup.mode)
            /\ ModeOk(setup.mode)
        BY <2>1 DEF IInv, MadeInv, Loaded, Valid
      <3>2. setup.mode \cap {"device_class", "instance"} = {}
        BY <3>1 DEF ModeOk
      <3>3. ModeCount(setup.mode) = 0
        BY <3>1, <3>2, FS_EmptySet DEF ModeCount
      <3> QED BY <3>1, <3>3 DEF ModeOk
    <2>5. stage = "ready" => made = setup.link
      BY <2>1, <2>2, ValidIsMade DEF IInv, MadeInv, Loaded, Valid
    <2>6. exports # None => exports = Started(setup.exporters) /\ ExportersOk(setup.exporters)
      BY <2>1 DEF IInv, LoadInv, MadeInv, Valid
    <2> QED BY <2>2, <2>3, <2>4, <2>5, <2>6, ValidIsStarted DEF AcceptedIsCreated
  <1> QED BY <1>1, InductiveInvariant, PTL

\* A write step that validate lets pass puts at least one byte on the bus, unless
\* it is a delay.
THEOREM StepsEffective == Spec => []StepsTakeEffect
  <1>1. IInv => StepsTakeEffect
    <2> SUFFICES ASSUME IInv, written # None PROVE StepsTakeEffect
      BY DEF StepsTakeEffect
    <2> DEFINE s == setup.step
    <2>1. Valid /\ s # None
      BY DEF IInv, LoadInv, UsedInv
    <2>2. StepOk(setup.protocol, s)
      BY <2>1 DEF Valid
    <2>3. s \in WriteSteps
      BY <2>1, InputAssumption DEF IInv, TypeOK, Optional
    <2>4. CASE setup.protocol = "spi"
      BY <2>2, <2>3, <2>4 DEF StepOk, WriteSteps, Optional, StepsTakeEffect, IInv, UsedInv
    <2>5. CASE setup.protocol # "spi"
      BY <2>2, <2>3, <2>5 DEF StepOk, WriteSteps, Optional, StepsTakeEffect, IInv, UsedInv
    <2> QED BY <2>4, <2>5
  <1> QED BY <1>1, InductiveInvariant, PTL

\* resolve_metrics_files replaces a metric as a whole, however many entries have
\* its name.
THEOREM ReplacedAsAWhole == Spec => []FullyReplaced
  <1>1. IInv => FullyReplaced
    BY DEF IInv
  <1> QED BY <1>1, InductiveInvariant, PTL
===============================================================================
