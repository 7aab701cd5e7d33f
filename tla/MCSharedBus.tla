----------------------------- MODULE MCSharedBus ------------------------------
(* Two collectors, which share a device or have one each; all other layouts are  *)
(* these under other names.                                                      *)
EXTENDS SharedBus

CONSTANTS c1, c2, d1, d2

MCCollectors == {c1, c2}
MCDevices == {d1, d2}
SharedOrOwn == {[c \in {c1, c2} |-> d1], [c \in {c1, c2} |-> IF c = c1 THEN d1 ELSE d2]}

Mode(x, y) == [d \in {d1, d2} |-> IF d = d1 THEN x ELSE y]
MixedModes == {Mode("static", "class"), Mode("class", "pid"), Mode("class", "class")}
BothStatic == {Mode("static", "static")}

InOrder == [d \in {d1, d2} |-> IF d = d1 THEN 0 ELSE 1]

AllBuses == {"i2c", "i3c", "spi"}
OnlyI3c == {"i3c"}
===============================================================================
