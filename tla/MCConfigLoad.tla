----------------------------- MODULE MCConfigLoad -----------------------------
(* Words of 6 bits and bytes of 4.  The sets vary two or three fields at a time, *)
(* those that are checked or used together; the others are a legal choice.       *)
EXTENDS ConfigLoad

Plain == [type |-> "gauge", register_type |-> "holding", address |-> 0, data_type |-> "u16",
          byte_order |-> None, command |-> 1, response_length |-> 8, response_offset |-> 0]

Types == {"bool", "u8", "u16", "u32", "f64"}

Kinds == {[Plain EXCEPT !.type = t, !.register_type = r, !.data_type = d] :
            t \in {"gauge", "counter"}, r \in {None, "input", "coil"}, d \in Types}
\* Around the ends of a byte and of a word.
Places == {[Plain EXCEPT !.address = a, !.data_type = d] : a \in {None, 15, 16, 60, 62, 63}, d \in Types}
Orders == {[Plain EXCEPT !.byte_order = o, !.data_type = d] : o \in ByteOrders, d \in DataTypes \ {"bool"}}
Responses == {[Plain EXCEPT !.command = c, !.response_length = l, !.response_offset = o, !.data_type = d] :
                c \in {0, 1, 66}, l \in {None, 2, 9}, o \in {0, 1, 7, 62}, d \in {"u8", "u16", "f64"}}

MCInline == Kinds \cup Places \cup Orders \cup Responses
MCFile == {[Plain EXCEPT !.register_type = r, !.data_type = d, !.byte_order = o] :
             r \in {None, "coil"}, d \in {None, "bool", "i32"}, o \in {None, "mid_little"}}
MCDefaults == {<<>>, [data_type |-> "f32", byte_order |-> "little"], [register_type |-> "input", data_type |-> "u64"]}

Lengths == {None, 0, 2}
Steps == {[address |-> a, value |-> v, command |-> c, delay |-> d] :
            a \in {None, 1}, v \in Lengths, c \in {None, 0, 3}, d \in BOOLEAN}

\* A legal link and legal exporters, then each of them varied around its limits.
PlainLink(p) ==
  CASE p = "modbus_tcp" -> [slave_id |-> 1]
    [] p = "modbus_rtu" -> [slave_id |-> 247, data_bits |-> 8, stop_bits |-> 1]
    [] p = "i2c" -> [address |-> 64]
    [] p = "spi" -> [speed_hz |-> 1000, mode |-> 0, bits_per_word |-> 8]
    [] p = "i3c" -> [slave_id |-> None, address |-> None]
Links(p) ==
  CASE p = "modbus_tcp" -> [slave_id : {None, 0, 1, 247, 248}]
    [] p = "modbus_rtu" -> [slave_id : {17}, data_bits : {4, 5, 7, 9}, stop_bits : {2}]
                             \cup [slave_id : {None, 0}, data_bits : {8}, stop_bits : {0, 1, 3}]
    [] p = "i2c" -> [address : {2, 3, 119, 120}]
    [] p = "spi" -> [speed_hz : {0, 1}, mode : {3, 4}, bits_per_word : {32, 33}]
    [] p = "i3c" -> [slave_id : {None, 1}, address : {7, 8, 61, 62}]

Prometheus == [otlp |-> [enabled |-> FALSE, endpoint |-> None, interval |-> 10],
               prometheus |-> [enabled |-> TRUE],
               mqtt |-> [enabled |-> FALSE, endpoint |-> None, timeout |-> 5000, qos |-> 1, cert |-> FALSE, key |-> FALSE]]
SomeExporters ==
  {[Prometheus EXCEPT !.prometheus.enabled = FALSE, !.otlp.enabled = o, !.otlp.endpoint = h, !.otlp.interval = i] :
     o \in BOOLEAN, h \in {None, "http"}, i \in {0, 10}}
    \cup {[Prometheus EXCEPT !.mqtt.enabled = TRUE, !.mqtt.endpoint = h, !.mqtt.cert = c, !.mqtt.key = k] :
            h \in {None, "mqtts", "tcp"}, c \in BOOLEAN, k \in BOOLEAN}
    \cup {[Prometheus EXCEPT !.mqtt.enabled = TRUE, !.mqtt.endpoint = "mqtt", !.mqtt.timeout = t, !.mqtt.qos = q] :
            t \in {500, 1000}, q \in {0, 2, 3}}

Setup(p, m, s) == [protocol |-> p, mode |-> m, link |-> PlainLink(p), step |-> s, exporters |-> Prometheus]
WithAddress(s, a) == IF "address" \in s.mode THEN [s EXCEPT !.link.address = a] ELSE s
MCSetups ==
  {Setup(p, {}, None) : p \in Modbus \cup {"i2c", "spi"}}
    \cup {WithAddress(Setup("i3c", m, None), 8) : m \in SUBSET AddressModes}
    \cup {Setup(p, {}, s) : p \in {"i2c", "spi"}, s \in Steps}
    \cup {Setup("modbus_rtu", {}, [address |-> 1, value |-> 2, command |-> None, delay |-> FALSE])}
    \cup UNION {{[Setup(p, {}, None) EXCEPT !.link = l] : l \in Links(p)} : p \in Protocols \ {"i3c"}}
    \cup {[Setup("i3c", {"address"}, None) EXCEPT !.link = l] : l \in Links("i3c")}
    \cup {[Setup("modbus_tcp", {}, None) EXCEPT !.exporters = e] : e \in SomeExporters}
OneI2c == {Setup("i2c", {}, None)}
===============================================================================
