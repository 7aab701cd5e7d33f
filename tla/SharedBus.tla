------------------------------ MODULE SharedBus -------------------------------
(***************************************************************************)
(* Readers and writers of several collectors that share an I2C or I3C bus   *)
(* or an SPI device (src/reader/{i2c,i3c,spi}/mod.rs).                      *)
(*                                                                          *)
(* A collector's task runs one operation at a time: a metric read or a      *)
(* write step, each a blocking closure that takes a lock, talks to the      *)
(* device and drops the lock.  Its reader and its writer have a handle, and *)
(* with I3C a cached address, of their own.  An I2C read is two system      *)
(* calls, between which the device's register pointer may move; an I3C or   *)
(* SPI transfer is one.                                                     *)
(*                                                                          *)
(* I3C clients look an address up in sysfs, and without one they make no    *)
(* transfer; but LinuxI3cDevice does not pass it on: every transfer goes to *)
(* whatever the character device of the bus path stands for.  So only       *)
(* whether a client has an address is modelled.  An I3C bus may be reset,   *)
(* after which its devices are enumerated anew, one by one.                 *)
(*                                                                          *)
(* A register's contents are the device and the register.                   *)
(***************************************************************************)
EXTENDS Integers, FiniteSets

CONSTANTS
  Collectors,
  Devices,
  Layouts,     \* which collector may use which device, a set of assignments
  Addressing,  \* the address modes the I3C devices may have, likewise
  Registers,
  Buses,       \* the kinds of bus to look at, some of "i2c", "i3c", "spi"
  Instance,    \* of each device, among those of its class, when all are there
  MaxResets,   \* bound: resets of an I3C bus
  None         \* no holder

ASSUME BusAssumption ==
  /\ Devices # {} /\ IsFiniteSet(Devices)
  /\ Registers # {} /\ Addressing # {}
  /\ Layouts \subseteq [Collectors -> Devices]
  /\ Addressing \subseteq [Devices -> {"static", "pid", "class"}]
  /\ Buses \subseteq {"i2c", "i3c", "spi"} /\ MaxResets \in Nat
  /\ Instance \in [Devices -> Nat] /\ None \notin Collectors

VARIABLES
  bus,      \* the kind of bus
  device,   \* the device each collector is configured for; some may share one
  endpoint, \* the device that the path of an I3C bus stands for
  mode,     \* the address mode of each I3C device
  lock,     \* the holder of each lock
  pc,       \* where each collector's operation stands
  op,       \* the operation: client and register
  tries,    \* retries of an I3C read
  known,    \* whether resolved_address of each collector's clients is set
  result,   \* of the last operation: a register of a device, Done or Failed
  pointer,  \* the register pointer of each I2C device
  present,  \* the I3C devices that have an address and are in sysfs
  resets    \* of the I3C bus so far

config == <<bus, device, endpoint, mode>>
task == <<lock, pc, op, result, tries>>
wire == <<pointer, present, resets>>
vars == <<config, task, known, wire>>

Clients == {"reader", "writer"}
Pending == <<>>
Done == <<"done">>
Failed == <<"err">>
\* LOCKS: one lock per bus path, with SPI one per device path.
Keys == Devices \cup {"bus"}
Key(c) == IF bus = "spi" THEN device[c] ELSE "bus"

Init ==
  /\ bus \in Buses
  /\ device \in Layouts
  /\ endpoint \in IF bus = "i3c" THEN {device[c] : c \in Collectors} ELSE {CHOOSE d \in Devices : TRUE}
  /\ mode \in IF bus = "i3c" THEN Addressing ELSE {CHOOSE a \in Addressing : TRUE}
  /\ present = Devices
  /\ known = [c \in Collectors |-> [l \in Clients |-> mode[device[c]] = "static"]]
  /\ lock = [k \in Keys |-> None]
  /\ pc = [c \in Collectors |-> "rest"]
  /\ op \in [Collectors -> [client : {"reader"}, reg : {CHOOSE r \in Registers : TRUE}]]
  /\ tries = [c \in Collectors |-> 0]
  /\ result = [c \in Collectors |-> Pending]
  /\ pointer = [d \in Devices |-> CHOOSE r \in Registers : TRUE]
  /\ resets = 0

-------------------------------------------------------------------------------
(***************************************************************************)
(* What all buses have in common.                                           *)
(***************************************************************************)
\* A transfer of I3C or SPI carries its register, one stands for all of them.
RegistersInUse == IF bus = "i2c" THEN Registers ELSE {CHOOSE r \in Registers : TRUE}

\* The next metric or write step: a closure is handed to spawn_blocking.
Begin(c) ==
  /\ pc[c] = "rest"
  /\ pc' = [pc EXCEPT ![c] = "want"]
  /\ \E l \in Clients, r \in RegistersInUse : op' = [op EXCEPT ![c] = [client |-> l, reg |-> r]]
  /\ result' = [result EXCEPT ![c] = Pending]
  /\ UNCHANGED <<config, lock, tries, known, wire>>

AcquirePerCollector(c) ==                   \* Mutant: a lock of the client's own.
  /\ pc[c] = "want"
  /\ pc' = [pc EXCEPT ![c] = IF bus = "i3c" THEN "resolve" ELSE "transfer"]
  /\ UNCHANGED <<config, lock, op, result, tries, known, wire>>
Acquire(c) ==
  /\ pc[c] = "want" /\ lock[Key(c)] = None
  /\ lock' = [lock EXCEPT ![Key(c)] = c]
  /\ pc' = [pc EXCEPT ![c] = IF bus = "i3c" THEN "resolve" ELSE "transfer"]
  /\ UNCHANGED <<config, op, result, tries, known, wire>>

\* The closure returns, and its guard drops the lock.
Finish(c, r) ==
  /\ pc' = [pc EXCEPT ![c] = "rest"]
  /\ lock' = [lock EXCEPT ![Key(c)] = None]
  /\ result' = [result EXCEPT ![c] = r]
  /\ tries' = [tries EXCEPT ![c] = 0]
  /\ UNCHANGED op

Answer(c, d, reg) == IF op[c].client = "reader" THEN <<d, reg>> ELSE Done

-------------------------------------------------------------------------------
(***************************************************************************)
(* I2C and SPI.                                                             *)
(***************************************************************************)
\* write_all(&[register]) of a read: moves the pointer of the device.
I2cSelectUnlocks(c) ==                      \* Mutant: one lock for each system call.
  /\ bus = "i2c" /\ pc[c] = "transfer" /\ op[c].client = "reader"
  /\ pointer' = [pointer EXCEPT ![device[c]] = op[c].reg]
  /\ pc' = [pc EXCEPT ![c] = "data"]
  /\ lock' = [lock EXCEPT ![Key(c)] = None]
  /\ UNCHANGED <<config, op, result, tries, known, present, resets>>
I2cSelect(c) ==
  /\ bus = "i2c" /\ pc[c] = "transfer" /\ op[c].client = "reader"
  /\ pointer' = [pointer EXCEPT ![device[c]] = op[c].reg]
  /\ pc' = [pc EXCEPT ![c] = "data"]
  /\ UNCHANGED <<config, lock, op, result, tries, known, present, resets>>

\* read_exact: whatever the pointer points to.
I2cData(c) ==
  /\ pc[c] = "data"
  /\ Finish(c, <<device[c], pointer[device[c]]>>)
  /\ UNCHANGED <<config, known, wire>>

\* write_all of a write step: address and value in one message.
I2cWrite(c) ==
  /\ bus = "i2c" /\ pc[c] = "transfer" /\ op[c].client = "writer"
  /\ pointer' = [pointer EXCEPT ![device[c]] = op[c].reg]
  /\ Finish(c, Done)
  /\ UNCHANGED <<config, known, present, resets>>

\* Command out and response in, in one full-duplex transfer.
SpiTransfer(c) ==
  /\ bus = "spi" /\ pc[c] = "transfer"
  /\ Finish(c, Answer(c, device[c], op[c].reg))
  /\ UNCHANGED <<config, known, wire>>

Fail(c) ==
  /\ bus # "i3c" /\ pc[c] \in {"transfer", "data"}
  /\ Finish(c, Failed)
  /\ UNCHANGED <<config, known, wire>>

-------------------------------------------------------------------------------
(***************************************************************************)
(* I3C: read_register_sync and write_bytes.                                 *)
(***************************************************************************)
MaxTries == 3

\* resolve_address_from_sysfs: a PID is found when its device is there, a class
\* and instance when as many devices of the class are there.  All are of one class.
InSysfs(d) == IF mode[d] = "pid" THEN d \in present ELSE Instance[d] < Cardinality(present)

\* resolve_address: the cached address, or the one sysfs shows, or an error.
ResolveAtStart(c) ==                        \* Mutant: sysfs is asked in retries only.
  /\ pc[c] = "resolve"
  /\ IF known[c][op[c].client]
     THEN pc' = [pc EXCEPT ![c] = "transfer"] /\ UNCHANGED <<lock, op, result, tries>>
     ELSE Finish(c, Failed)
  /\ UNCHANGED <<config, known, wire>>
Resolve(c) ==
  /\ pc[c] = "resolve"
  /\ LET l == op[c].client
         found == known[c][l] \/ InSysfs(device[c])
     IN  /\ known' = [known EXCEPT ![c][l] = found]
         /\ IF found
            THEN pc' = [pc EXCEPT ![c] = "transfer"] /\ UNCHANGED <<lock, op, result, tries>>
            ELSE Finish(c, Failed)
  /\ UNCHANGED <<config, wire>>

\* One ioctl, whose structure has no field for the address: the device behind the
\* path answers, whatever address was resolved.
I3cOk(c) ==
  /\ bus = "i3c" /\ pc[c] = "transfer" /\ endpoint \in present
  /\ Finish(c, Answer(c, endpoint, op[c].reg))
  /\ UNCHANGED <<config, known, wire>>

\* It fails.  A read is retried unless the retries are used up (the context of the
\* error makes it a transfer error for classify_error); a write is not.
I3cErr(c) ==
  /\ bus = "i3c" /\ pc[c] = "transfer"
  /\ IF op[c].client = "reader" /\ tries[c] < MaxTries
     THEN pc' = [pc EXCEPT ![c] = "retry"] /\ UNCHANGED <<lock, op, result, tries>>
     ELSE Finish(c, Failed)
  /\ UNCHANGED <<config, known, wire>>

\* The backoff is over, with the lock held: invalidate the address unless it
\* is static, and resolve it again.
RetryForEver(c) ==                          \* Mutant: the retries are not counted.
  /\ pc[c] = "retry"
  /\ LET found == mode[device[c]] = "static" \/ InSysfs(device[c])
     IN  /\ known' = [known EXCEPT ![c]["reader"] = found]
         /\ pc' = IF found THEN [pc EXCEPT ![c] = "transfer"] ELSE pc
  /\ UNCHANGED <<config, lock, op, result, tries, wire>>
Retry(c) ==
  /\ pc[c] = "retry"
  /\ LET found == mode[device[c]] = "static" \/ InSysfs(device[c])
         n == tries[c] + 1
         Again(p) == /\ pc' = [pc EXCEPT ![c] = p] /\ tries' = [tries EXCEPT ![c] = n]
                     /\ UNCHANGED <<lock, op, result>>
     IN  /\ known' = [known EXCEPT ![c]["reader"] = found]
         /\ \/ found /\ Again("transfer")
            \/ ~found /\ n < MaxTries /\ Again("retry")
            \/ ~found /\ n = MaxTries /\ Finish(c, Failed)
  /\ UNCHANGED <<config, wire>>

-------------------------------------------------------------------------------
(***************************************************************************)
(* The I3C bus: a reset takes all dynamic addresses away, and the           *)
(* controller gives out new ones, to one device after the other.            *)
(***************************************************************************)
Reset ==
  /\ bus = "i3c" /\ resets < MaxResets
  /\ resets' = resets + 1
  /\ present' = {d \in Devices : mode[d] = "static"}
  /\ UNCHANGED <<config, task, known, pointer>>

Enumerate(d) ==
  /\ d \notin present /\ present' = present \cup {d}
  /\ UNCHANGED <<config, task, known, pointer, resets>>

\* What the closure of c does next, once it runs.
Ok(c) == I2cData(c) \/ I2cWrite(c) \/ SpiTransfer(c) \/ I3cOk(c)
Step(c) == Ok(c) \/ I2cSelect(c) \/ Fail(c) \/ Resolve(c) \/ I3cErr(c) \/ Retry(c)

Next ==
  \/ \E c \in Collectors : Begin(c) \/ Acquire(c) \/ Step(c)
  \/ Reset \/ \E d \in Devices : Enumerate(d)

Spec == Init /\ [][Next]_vars

(***************************************************************************)
(* Closures run and system calls return; a lock that is free again and      *)
(* again is taken at last by everyone who waits for it; reset devices are   *)
(* enumerated.                                                              *)
(***************************************************************************)
Fairness ==
  /\ \A c \in Collectors : WF_vars(Step(c)) /\ SF_vars(Acquire(c))
  /\ \A d \in Devices : WF_vars(Enumerate(d))
FairSpec == Spec /\ Fairness
-------------------------------------------------------------------------------
(***************************************************************************)
(* Properties.                                                              *)
(***************************************************************************)
Active == {"resolve", "transfer", "data", "retry"}

TypeOK ==
  /\ bus \in Buses /\ device \in Layouts /\ endpoint \in Devices /\ mode \in Addressing
  /\ lock \in [Keys -> Collectors \cup {None}]
  /\ pc \in [Collectors -> {"rest", "want"} \cup Active]
  /\ op \in [Collectors -> [client : Clients, reg : Registers]]
  /\ tries \in [Collectors -> 0 .. MaxTries]
  /\ known \in [Collectors -> [Clients -> BOOLEAN]]
  /\ \A c \in Collectors : result[c] \in {Pending, Done, Failed} \cup Devices \X Registers
  /\ pointer \in [Devices -> Registers]
  /\ present \subseteq Devices /\ resets \in 0 .. MaxResets

\* The device that a collector's operations reach.
Reached(c) == IF bus = "i3c" THEN endpoint ELSE device[c]

\* A read that succeeds returns the register it asked for, however many collectors
\* use the bus or the device meanwhile: on an I2C bus or an SPI device that of the
\* device its collector is configured for, on an I3C bus that of the one device
\* which the bus path stands for.
ReadsOwnRegister ==
  \A c \in Collectors : \A d \in Devices, r \in Registers :
    result[c] = <<d, r>> => r = op[c].reg /\ d = Reached(c)

\* However the closures of all collectors are interleaved, their operations are
\* answered as if they had been done one after the other.
Serial == INSTANCE SerialBus WITH
            key <- [c \in Collectors |-> Key(c)],
            target <- [c \in Collectors |-> Reached(c)],
            phase <- [c \in Collectors |-> IF pc[c] \in Active THEN "busy" ELSE pc[c]]
ImplementsSerialBus == Serial!SerialSpec

\* Whoever wants the bus gets it and is through in the end: a client that finds
\* its device gone gives the bus up after its retries.
NotStarved == \A c \in Collectors : pc[c] = "want" ~> pc[c] = "rest"

\* A client whose bus works, so that an operation it can get right is got right
\* again and again, does not fail for ever after a reset: an address that was not
\* found, at whatever moment of the enumeration, is looked up again.
Recovers(l) ==
  \A c \in Collectors :
    SF_vars(I2cSelect(c)) /\ SF_vars(op[c].client = l /\ Ok(c))
      => (<>[](op[c].client = l) /\ []<>(pc[c] = "want") => []<>(result[c] \notin {Pending, Failed}))

\* The reader does, which retries (spec/i3c.md:106-116: it re-enumerates and tries
\* again), and so does the writer, which does not.
ClientsRecover == Recovers("reader") /\ Recovers("writer")

\* An I3C read is answered by the device its collector is configured for
\* (spec/i3c.md:91-92: "Individual device access is routed through the controller
\* using the resolved dynamic address").
RoutedByAddress ==
  bus = "i3c" =>
    \A c \in Collectors : \A d \in Devices, r \in Registers :
      result[c] = <<d, r>> => d = device[c]
===============================================================================
