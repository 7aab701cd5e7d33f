---------------------------- MODULE SharedBusProofs ----------------------------
(***************************************************************************)
(* Proofs about SharedBus, for every set of collectors, devices and         *)
(* registers, every way to share a bus and every number of resets.          *)
(***************************************************************************)
EXTENDS SharedBus, TLAPS

Results == {Pending, Done, Failed} \cup Devices \X Registers
Types == TypeOK /\ result \in [Collectors -> Results]

\* What follows from the kind of the bus.
KindInv ==
  \A c \in Collectors :
    /\ pc[c] \in {"resolve", "retry"} => bus = "i3c"
    /\ pc[c] = "data" => bus = "i2c" /\ op[c].client = "reader"
    /\ pc[c] = "retry" => tries[c] < MaxTries

\* A lock is held by the one collector that is using what it protects.
LockInv == \A c \in Collectors : pc[c] \in Active <=> lock[Key(c)] = c

\* Between the two calls of a read the pointer stays where the first one put it.
PointerInv == \A c \in Collectors : pc[c] = "data" => pointer[device[c]] = op[c].reg

\* What a client may say of its read: its own register, of the device that the
\* operations of its collector reach.
Mine(c, r) == r \in Devices \X Registers => r = <<Reached(c), op[c].reg>>
ReadsInv == \A c \in Collectors : Mine(c, result[c])

IInv == Types /\ KindInv /\ LockInv /\ PointerInv /\ ReadsInv
-------------------------------------------------------------------------------
\* With all devices enumerated and nobody at work the invariant holds.
LEMMA InitIInv == Init => IInv
  <1> SUFFICES ASSUME Init PROVE IInv
    OBVIOUS
  <1> USE BusAssumption DEF Init
  <1>1. endpoint \in Devices /\ pointer \in [Devices -> Registers]
    OBVIOUS
  <1>2. mode \in Addressing /\ device \in [Collectors -> Devices]
    OBVIOUS
  <1>3. known \in [Collectors -> [Clients -> BOOLEAN]]
    OBVIOUS
  <1>4. op \in [Collectors -> [client : Clients, reg : Registers]]
    BY DEF Clients
  <1>5. Types
    <2>1. lock \in [Keys -> Collectors \cup {None}] /\ tries \in [Collectors -> 0 .. MaxTries]
      BY DEF MaxTries
    <2>2. result \in [Collectors -> Results]
      BY DEF Results
    <2>4. present \subseteq Devices /\ resets \in 0 .. MaxResets
      OBVIOUS
    <2>5. pc \in [Collectors -> {"rest", "want"} \cup Active]
      OBVIOUS
    <2> QED BY <1>1, <1>2, <1>3, <1>4, <2>1, <2>2, <2>4, <2>5 DEF Types, TypeOK, Results
  <1>6. KindInv /\ LockInv /\ PointerInv
    <2>1. \A c \in Collectors : Key(c) \in Keys
      BY <1>2 DEF Key, Keys
    <2> QED BY <2>1 DEF KindInv, LockInv, PointerInv, Active
  <1>7. ReadsInv
    BY DEF ReadsInv, Mine, Pending
  <1> QED BY <1>5, <1>6, <1>7 DEF IInv

\* Each collector has a device and a lock to take.
LEMMA KeyType == ASSUME TypeOK, NEW c \in Collectors PROVE device[c] \in Devices /\ Key(c) \in Keys
  BY BusAssumption DEF TypeOK, Key, Keys

\* What a closure that returns leaves behind.
LEMMA FinishTypes ==
  ASSUME Types, NEW c \in Collectors, NEW r \in Results, Finish(c, r)
  PROVE  /\ lock' \in [Keys -> Collectors \cup {None}]
         /\ pc' \in [Collectors -> {"rest", "want"} \cup Active]
         /\ op' = op /\ op \in [Collectors -> [client : Clients, reg : Registers]]
         /\ tries' \in [Collectors -> 0 .. MaxTries]
         /\ result' \in [Collectors -> Results]
         /\ pc'[c] = "rest" /\ lock'[Key(c)] = None /\ result'[c] = r
         /\ \A e \in Collectors \ {c} : pc'[e] = pc[e] /\ result'[e] = result[e] /\ tries'[e] = tries[e]
         /\ \A k \in Keys \ {Key(c)} : lock'[k] = lock[k]
  BY KeyType DEF Types, TypeOK, Finish, MaxTries

\* The outcomes of an operation that are no register's contents.
LEMMA NotAnAnswer == \A r \in {Pending, Done, Failed} : r \notin Devices \X Registers
  BY DEF Pending, Done, Failed

\* A closure that returns drops its lock and leaves those of the others alone.
LEMMA FinishStep ==
  ASSUME IInv, UNCHANGED config, UNCHANGED resets,
         NEW c \in Collectors, NEW r \in Results, pc[c] \in Active, Finish(c, r), Mine(c, r)
  PROVE  /\ KindInv' /\ LockInv' /\ ReadsInv'
         /\ UNCHANGED pointer => PointerInv'
  <1> USE DEF config, IInv
  <1>1. Types
    OBVIOUS
  <1>2. \A e \in Collectors : Key(e)' = Key(e) /\ Key(e) \in Keys
    BY <1>1, KeyType DEF Types, Key
  <1>3. KindInv'
    BY <1>1, FinishTypes DEF KindInv
  <1>4. LockInv'
    <2> SUFFICES ASSUME NEW e \in Collectors PROVE pc'[e] \in Active <=> lock'[Key(e)] = e
      BY <1>2 DEF LockInv
    <2>1. CASE e = c
      BY <1>1, <2>1, FinishTypes, BusAssumption DEF Active
    <2>2. CASE e # c /\ Key(e) = Key(c)
      BY <1>1, <2>2, FinishTypes, BusAssumption DEF LockInv
    <2>3. CASE e # c /\ Key(e) # Key(c)
      BY <1>1, <1>2, <2>3, FinishTypes DEF LockInv
    <2> QED BY <2>1, <2>2, <2>3
  <1>5. ReadsInv'
    BY <1>1, FinishTypes DEF ReadsInv, Mine, Reached
  <1>6. UNCHANGED pointer => PointerInv'
    BY <1>1, FinishTypes DEF PointerInv
  <1> QED BY <1>3, <1>4, <1>5, <1>6

-------------------------------------------------------------------------------
\* Except on SPI, two collectors never use the bus at the same time.
LEMMA MutualExclusion ==
  ASSUME LockInv, bus # "spi", NEW c \in Collectors, NEW e \in Collectors,
         pc[c] \in Active, pc[e] \in Active
  PROVE  c = e
  BY DEF LockInv, Key

\* Begin and Acquire.
LEMMA BeginStep ==
  ASSUME IInv, NEW c \in Collectors, Begin(c) PROVE IInv'
  <1> USE DEF IInv, config, wire
  <1>1. PICK l \in Clients, r \in Registers :
          /\ op' = [op EXCEPT ![c] = [client |-> l, reg |-> r]]
          /\ pc[c] = "rest" /\ pc' = [pc EXCEPT ![c] = "want"]
          /\ result' = [result EXCEPT ![c] = Pending]
          /\ UNCHANGED <<config, lock, tries, known, wire>>
    BY BusAssumption DEF Begin, RegistersInUse
  <1>2. Types'
    BY <1>1 DEF Types, TypeOK, Results
  <1>3. KindInv' /\ LockInv' /\ PointerInv'
    BY <1>1 DEF Types, TypeOK, KindInv, LockInv, PointerInv, Key, Active
  <1>4. ReadsInv'
    BY <1>1, NotAnAnswer DEF Types, TypeOK, ReadsInv, Mine, Reached
  <1> QED BY <1>2, <1>3, <1>4

\* A collector takes the lock it waits for.
LEMMA AcquireStep ==
  ASSUME IInv, NEW c \in Collectors, Acquire(c) PROVE IInv'
  <1> USE DEF IInv, config, wire, Acquire
  <1>1. Types'
    BY KeyType DEF Types, TypeOK, Active
  <1>2. KindInv' /\ PointerInv'
    BY DEF Types, TypeOK, KindInv, PointerInv
  <1>3. LockInv'
    <2> SUFFICES ASSUME NEW e \in Collectors PROVE pc'[e] \in Active <=> lock'[Key(e)] = e
      BY DEF LockInv, Key
    <2>1. CASE e = c
      BY <2>1, KeyType DEF Types, TypeOK, Active
    <2>2. CASE e # c
      BY <2>2, KeyType, BusAssumption DEF Types, TypeOK, LockInv
    <2> QED BY <2>1, <2>2
  <1>4. ReadsInv'
    BY DEF ReadsInv, Mine, Reached
  <1> QED BY <1>1, <1>2, <1>3, <1>4

\* The calls of an I2C or SPI transfer.
LEMMA TransferStep ==
  ASSUME IInv, NEW c \in Collectors,
         I2cSelect(c) \/ I2cData(c) \/ I2cWrite(c) \/ SpiTransfer(c) \/ Fail(c)
  PROVE  IInv'
  <1> USE DEF IInv, config, wire
  <1>1. Types /\ device[c] \in Devices /\ op[c] \in [client : Clients, reg : Registers]
    BY KeyType DEF Types, TypeOK
  <1>2. CASE I2cSelect(c)
    <2> USE <1>2 DEF I2cSelect
    <2>1. Types'
      BY <1>1 DEF Types, TypeOK, Active
    <2>2. PointerInv'
      BY <1>1, MutualExclusion DEF Types, TypeOK, PointerInv, Active
    <2>3. KindInv' /\ LockInv'
      BY DEF Types, TypeOK, KindInv, LockInv, Key, Active
    <2>4. ReadsInv'
      BY DEF ReadsInv, Mine, Reached
    <2> QED BY <2>1, <2>2, <2>3, <2>4
  <1>3. ASSUME NEW r \in Results, Finish(c, r), Mine(c, r), pc[c] \in Active,
               UNCHANGED <<config, known, wire>>
        PROVE  IInv'
    <2>1. Types'
      BY <1>3, FinishTypes DEF Types, TypeOK, Results
    <2> QED BY <1>3, <2>1, FinishStep
  <1>4. CASE I2cData(c)
    <2>1. <<device[c], pointer[device[c]]>> \in Results
      BY <1>1 DEF Types, TypeOK, Results
    <2>2. Mine(c, <<device[c], pointer[device[c]]>>)
      BY <1>4 DEF I2cData, Mine, PointerInv, KindInv, Reached
    <2> QED BY <1>3, <1>4, <2>1, <2>2 DEF I2cData, Active
  <1>5. CASE I2cWrite(c)
    <2>1. /\ Done \in Results /\ Mine(c, Done) /\ Finish(c, Done) /\ pc[c] \in Active
          /\ UNCHANGED <<config, known, present, resets>>
      BY <1>5, NotAnAnswer DEF I2cWrite, Results, Mine, Active
    <2>2. Types'
      BY <1>1, <1>5, <2>1, FinishTypes DEF I2cWrite, Types, TypeOK, Results
    <2>3. PointerInv'
      BY <1>1, <1>5, <2>1, FinishTypes, MutualExclusion DEF I2cWrite, Types, TypeOK, PointerInv, Active
    <2> QED BY <2>1, <2>2, <2>3, FinishStep
  <1>6. CASE SpiTransfer(c)
    <2>1. Answer(c, device[c], op[c].reg) \in Results
      BY <1>1 DEF Answer, Results
    <2>2. Mine(c, Answer(c, device[c], op[c].reg))
      BY <1>1, <1>6, NotAnAnswer DEF SpiTransfer, Mine, Answer, Reached
    <2> QED BY <1>3, <1>6, <2>1, <2>2 DEF SpiTransfer, Active
  <1>7. CASE Fail(c)
    BY <1>3, <1>7, NotAnAnswer DEF Fail, Results, Mine, Active
  <1> QED BY <1>2, <1>4, <1>5, <1>6, <1>7

\* The steps of an I3C transfer.
LEMMA I3cStep ==
  ASSUME IInv, NEW c \in Collectors, Resolve(c) \/ I3cOk(c) \/ I3cErr(c) \/ Retry(c)
  PROVE  IInv'
  <1> USE DEF IInv, config, wire
  <1>1. Types /\ TypeOK /\ device[c] \in Devices /\ op[c] \in [client : Clients, reg : Registers]
    BY KeyType DEF Types, TypeOK
  <1>2. op[c].client \in Clients
    BY <1>1
  \* The closure goes on: to the transfer or to a retry.
  <1>3. ASSUME NEW p \in Active \ {"data"}, pc' = [pc EXCEPT ![c] = p], pc[c] \in Active,
               p \in {"resolve", "retry"} => bus = "i3c",
               tries' \in [Collectors -> 0 .. MaxTries],
               \A e \in Collectors \ {c} : tries'[e] = tries[e],
               p = "retry" => tries'[c] < MaxTries,
               UNCHANGED <<lock, op, result, config, wire>>,
               known' \in [Collectors -> [Clients -> BOOLEAN]]
        PROVE  IInv'
    <2>1. Types'
      BY <1>1, <1>3 DEF Types, TypeOK, Active
    <2>2. KindInv' /\ LockInv' /\ PointerInv'
      BY <1>1, <1>3 DEF TypeOK, KindInv, LockInv, PointerInv, Key, Active
    <2>3. ReadsInv'
      BY <1>3 DEF ReadsInv, Mine, Reached
    <2> QED BY <1>3, <2>1, <2>2, <2>3
  \* The closure returns.
  <1>4. ASSUME NEW r \in Results, Finish(c, r), Mine(c, r), pc[c] \in Active,
               UNCHANGED <<config, wire>>,
               known' \in [Collectors -> [Clients -> BOOLEAN]]
        PROVE  IInv'
    <2>1. Types'
      BY <1>1, <1>4, FinishTypes DEF Types, TypeOK, Results
    <2> QED BY <1>4, <2>1, FinishStep
  <1>5. Failed \in Results /\ Mine(c, Failed)
    BY NotAnAnswer DEF Results, Mine
  <1>6. UNCHANGED <<known, config, wire>> => known' \in [Collectors -> [Clients -> BOOLEAN]]
    BY <1>1 DEF TypeOK
  <1>7. CASE Resolve(c)
    <2>0. \A l \in Clients : (known[c][l] \/ InSysfs(device[c])) \in BOOLEAN
      BY <1>1 DEF TypeOK
    <2>1. /\ pc[c] = "resolve" /\ UNCHANGED <<config, wire>>
          /\ known' = [known EXCEPT ![c][op[c].client] = known[c][op[c].client] \/ InSysfs(device[c])]
          /\ \/ Finish(c, Failed)
             \/ pc' = [pc EXCEPT ![c] = "transfer"] /\ UNCHANGED <<lock, op, result, tries>>
      BY <1>7 DEF Resolve
    <2>2. known' \in [Collectors -> [Clients -> BOOLEAN]]
      BY <1>1, <1>2, <2>0, <2>1, Zenon DEF TypeOK
    <2>3. CASE Finish(c, Failed)
      BY <1>4, <1>5, <2>1, <2>2, <2>3 DEF Active
    <2>4. CASE pc' = [pc EXCEPT ![c] = "transfer"] /\ UNCHANGED <<lock, op, result, tries>>
      BY <1>1, <1>3, <2>1, <2>2, <2>4 DEF Active, TypeOK
    <2> QED BY <2>1, <2>3, <2>4
  <1>8. CASE I3cOk(c)
    <2>1. Answer(c, endpoint, op[c].reg) \in Results
      BY <1>1 DEF Answer, Results, TypeOK
    <2>2. Mine(c, Answer(c, endpoint, op[c].reg))
      BY <1>1, <1>8, NotAnAnswer DEF I3cOk, Mine, Answer, Reached
    <2> QED BY <1>4, <1>6, <1>8, <2>1, <2>2 DEF I3cOk, Active
  <1>9. CASE I3cErr(c)
    <2>1. /\ bus = "i3c" /\ pc[c] = "transfer" /\ UNCHANGED <<config, known, wire>>
          /\ \/ Finish(c, Failed)
             \/ tries[c] < MaxTries /\ pc' = [pc EXCEPT ![c] = "retry"] /\ UNCHANGED <<lock, op, result, tries>>
      BY <1>9 DEF I3cErr
    <2>2. CASE Finish(c, Failed)
      BY <1>4, <1>5, <1>6, <2>1, <2>2 DEF Active
    <2>3. CASE tries[c] < MaxTries /\ pc' = [pc EXCEPT ![c] = "retry"] /\ UNCHANGED <<lock, op, result, tries>>
      BY <1>1, <1>3, <1>6, <2>1, <2>3 DEF Active, TypeOK
    <2> QED BY <2>1, <2>2, <2>3
  <1>10. CASE Retry(c)
    <2> DEFINE found == mode[device[c]] = "static" \/ InSysfs(device[c])
               n == tries[c] + 1
    <2>1. /\ known' = [known EXCEPT ![c]["reader"] = found] /\ pc[c] = "retry" /\ UNCHANGED <<config, wire>>
          /\ \/ Finish(c, Failed)
             \/ \E p \in {"transfer", "retry"} :
                  /\ p = "retry" => n < MaxTries
                  /\ pc' = [pc EXCEPT ![c] = p] /\ tries' = [tries EXCEPT ![c] = n]
                  /\ UNCHANGED <<lock, op, result>>
      BY <1>10 DEF Retry
    <2>2. known' \in [Collectors -> [Clients -> BOOLEAN]]
      <3>1. found \in BOOLEAN
        OBVIOUS
      <3> HIDE DEF found
      <3> QED BY <1>1, <2>1, <3>1 DEF TypeOK
    <2>3. CASE Finish(c, Failed)
      BY <1>4, <1>5, <2>1, <2>2, <2>3 DEF Active
    <2>4. ASSUME NEW p \in {"transfer", "retry"}, p = "retry" => n < MaxTries,
                 pc' = [pc EXCEPT ![c] = p], tries' = [tries EXCEPT ![c] = n],
                 UNCHANGED <<lock, op, result>>
          PROVE  IInv'
      <3>5. tries[c] \in 0 .. MaxTries
        BY <1>1 DEF TypeOK
      <3>6. tries[c] < MaxTries
        BY <2>1 DEF KindInv
      <3>4. n \in 0 .. MaxTries
        BY <3>5, <3>6 DEF MaxTries
      <3>1. tries' \in [Collectors -> 0 .. MaxTries] /\ tries'[c] = n
              /\ \A e \in Collectors \ {c} : tries'[e] = tries[e]
        BY <1>1, <2>4, <3>4 DEF TypeOK
      <3>2. bus = "i3c" /\ p \in Active \ {"data"} /\ pc[c] \in Active
        BY <2>1 DEF Active, KindInv
      <3>3. p = "retry" => tries'[c] < MaxTries
        BY <2>4, <3>1
      <3> QED BY <1>3, <2>1, <2>2, <2>4, <3>1, <3>2, <3>3
    <2> QED BY <2>1, <2>3, <2>4
  <1> QED BY <1>7, <1>8, <1>9, <1>10

\* Reset and Enumerate.
LEMMA BusStep ==
  ASSUME IInv, Reset \/ \E d \in Devices : Enumerate(d)
  PROVE  IInv'
  <1> USE DEF IInv, config, task
  <1>1. CASE Reset
    <2> USE <1>1 DEF Reset
    <2>1. Types'
      BY BusAssumption DEF Types, TypeOK
    <2>2. KindInv' /\ LockInv' /\ PointerInv'
      BY DEF KindInv, LockInv, PointerInv, Key
    <2>3. ReadsInv'
      BY DEF ReadsInv, Mine, Reached
    <2> QED BY <2>1, <2>2, <2>3
  <1>2. ASSUME NEW d \in Devices, Enumerate(d) PROVE IInv'
    <2> USE <1>2 DEF Enumerate
    <2>1. Types'
      BY DEF Types, TypeOK
    <2>2. KindInv' /\ LockInv' /\ PointerInv'
      BY DEF KindInv, LockInv, PointerInv, Key
    <2>3. ReadsInv'
      BY DEF ReadsInv, Mine, Reached
    <2> QED BY <2>1, <2>2, <2>3
  <1> QED BY <1>1, <1>2

-------------------------------------------------------------------------------
\* Every reachable state satisfies IInv: a lock is held by the collector whose
\* closure uses what it protects, and between the system calls of one closure no
\* other one moves the register pointer.
THEOREM InductiveInvariant == Spec => []IInv
  <1>1. IInv /\ [Next]_vars => IInv'
    <2> SUFFICES ASSUME IInv, [Next]_vars PROVE IInv'
      OBVIOUS
    <2>1. ASSUME NEW c \in Collectors, Begin(c) \/ Acquire(c) \/ Step(c) PROVE IInv'
      BY <2>1, BeginStep, AcquireStep, TransferStep, I3cStep DEF Step, Ok
    <2>2. CASE Reset \/ \E d \in Devices : Enumerate(d)
      BY <2>2, BusStep
    <2>3. CASE UNCHANGED vars
      BY <2>3 DEF vars, config, task, wire, IInv, Types, TypeOK, KindInv, LockInv, PointerInv,
                  ReadsInv, Mine, Reached, Key, Results
    <2> QED BY <2>1, <2>2, <2>3 DEF Next
  <1> QED BY <1>1, InitIInv, PTL DEF Spec

\* The variables keep their types; in particular no read is retried more than
\* MaxTries times.
THEOREM TypeCorrect == Spec => []TypeOK
  <1>1. IInv => TypeOK
    BY DEF IInv, Types
  <1> QED BY <1>1, InductiveInvariant, PTL

\* However many collectors share a bus or a device, a read (read_i2c_metric,
\* read_i3c_metric, read_spi_metric) returns the register it asked for: of its own
\* device with I2C and SPI, of the device behind the bus path with I3C.
THEOREM OwnRegisterRead == Spec => []ReadsOwnRegister
  <1>1. IInv => ReadsOwnRegister
    <2> SUFFICES ASSUME IInv, NEW c \in Collectors, NEW d \in Devices, NEW r \in Registers,
                        result[c] = <<d, r>>
                 PROVE  r = op[c].reg /\ d = Reached(c)
      BY DEF ReadsOwnRegister
    <2>1. Mine(c, <<d, r>>)
      BY DEF IInv, ReadsInv
    <2>2. <<d, r>> = <<Reached(c), op[c].reg>>
      BY <2>1 DEF Mine
    <2> QED BY <2>2
  <1> QED BY <1>1, InductiveInvariant, PTL

\* While one collector uses a bus or, with SPI, a device, no other one does.
THEOREM Exclusive ==
  Spec => [](\A c, e \in Collectors :
               pc[c] \in Active /\ pc[e] \in Active /\ Key(c) = Key(e) => c = e)
  <1>1. IInv => \A c, e \in Collectors : pc[c] \in Active /\ pc[e] \in Active /\ Key(c) = Key(e) => c = e
    BY DEF IInv, LockInv
  <1> QED BY <1>1, InductiveInvariant, PTL

-------------------------------------------------------------------------------
(***************************************************************************)
(* A shared bus implements SerialBus.                                       *)
(***************************************************************************)
phase == [c \in Collectors |-> IF pc[c] \in Active THEN "busy" ELSE pc[c]]
key == [c \in Collectors |-> Key(c)]
target == [c \in Collectors |-> Reached(c)]

\* A closure that returns is one step of the serial bus, if what it returns is what
\* the device it reaches would.
LEMMA FinishReplies ==
  ASSUME IInv, NEW c \in Collectors, pc[c] \in Active, UNCHANGED config,
         NEW r \in {Failed, Answer(c, Reached(c), op[c].reg)}, Finish(c, r)
  PROVE  Serial!Reply(c)
  <1>1. pc \in [Collectors -> {"rest", "want"} \cup Active] /\ pc' = [pc EXCEPT ![c] = "rest"]
    BY DEF IInv, Types, TypeOK, Finish
  <1>2. phase[c] = "busy" /\ phase' = [phase EXCEPT ![c] = "rest"]
    BY <1>1 DEF phase, Active
  <1>3. UNCHANGED <<target, key, op>>
    BY DEF config, key, Key, target, Reached, Finish
  <1>4. result' = [result EXCEPT ![c] = r]
    BY DEF Finish
  <1> QED BY <1>2, <1>3, <1>4 DEF Serial!Reply, Answer, phase, key, target

\* A closure that goes on cannot be seen.
LEMMA GoingOnIsStutter ==
  ASSUME IInv, NEW c \in Collectors, pc[c] \in Active, NEW p \in Active, pc' = [pc EXCEPT ![c] = p],
         UNCHANGED <<config, op, result>>
  PROVE  UNCHANGED Serial!serialVars
  <1>1. pc \in [Collectors -> {"rest", "want"} \cup Active]
    BY DEF IInv, Types, TypeOK
  <1>2. UNCHANGED phase
    BY <1>1 DEF phase
  <1>3. UNCHANGED <<key, target>>
    BY DEF config, key, Key, target, Reached
  <1> QED BY <1>2, <1>3 DEF Serial!serialVars, phase, key, target

\* Each step of a closure returns the answer of the device it reaches, or cannot
\* be seen.
LEMMA StepReplies ==
  ASSUME IInv, NEW c \in Collectors, Step(c)
  PROVE  Serial!Reply(c) \/ UNCHANGED Serial!serialVars
  <1> USE DEF wire
  <1>1. TypeOK /\ device[c] \in Devices /\ op[c] \in [client : Clients, reg : Registers]
    BY KeyType DEF IInv, Types, TypeOK
  <1>2. ASSUME pc[c] \in Active, UNCHANGED config, Finish(c, Failed)
        PROVE  Serial!Reply(c)
    BY <1>1, <1>2, FinishReplies
  <1>3. CASE I2cSelect(c)
    BY <1>3, GoingOnIsStutter DEF I2cSelect, Active
  <1>4. CASE I2cData(c)
    <2>1. op[c].client = "reader" /\ pointer[device[c]] = op[c].reg /\ bus = "i2c"
      BY <1>4 DEF I2cData, IInv, KindInv, PointerInv
    <2>2. <<device[c], pointer[device[c]]>> = Answer(c, Reached(c), op[c].reg)
      BY <2>1 DEF Answer, Reached
    <2> QED BY <1>1, <1>4, <2>2, FinishReplies DEF I2cData, Active
  <1>5. CASE I2cWrite(c)
    <2>1. Done = Answer(c, Reached(c), op[c].reg)
      BY <1>5 DEF I2cWrite, Answer
    <2> QED BY <1>1, <1>5, <2>1, FinishReplies DEF I2cWrite, Active
  <1>6. CASE SpiTransfer(c)
    <2>1. Reached(c) = device[c]
      BY <1>6 DEF SpiTransfer, Reached
    <2> QED BY <1>1, <1>6, <2>1, FinishReplies DEF SpiTransfer, Active
  <1>7. CASE Fail(c)
    BY <1>2, <1>7 DEF Fail, Active
  <1>8. CASE I3cOk(c)
    <2>1. Reached(c) = endpoint
      BY <1>8 DEF I3cOk, Reached
    <2> QED BY <1>8, <2>1, FinishReplies DEF I3cOk, Active
  <1>9. CASE Resolve(c)
    <2>1. /\ pc[c] = "resolve" /\ UNCHANGED config
          /\ \/ Finish(c, Failed)
             \/ pc' = [pc EXCEPT ![c] = "transfer"] /\ UNCHANGED <<op, result>>
      BY <1>9 DEF Resolve
    <2> QED BY <1>2, <2>1, GoingOnIsStutter DEF Active
  <1>10. CASE I3cErr(c)
    <2>1. /\ pc[c] = "transfer" /\ UNCHANGED config
          /\ \/ Finish(c, Failed)
             \/ pc' = [pc EXCEPT ![c] = "retry"] /\ UNCHANGED <<op, result>>
      BY <1>10 DEF I3cErr
    <2> QED BY <1>2, <2>1, GoingOnIsStutter DEF Active
  <1>11. CASE Retry(c)
    <2>1. /\ pc[c] = "retry" /\ UNCHANGED config
          /\ \/ Finish(c, Failed)
             \/ \E p \in {"transfer", "retry"} : pc' = [pc EXCEPT ![c] = p] /\ UNCHANGED <<op, result>>
      BY <1>11 DEF Retry
    <2> QED BY <1>2, <2>1, GoingOnIsStutter DEF Active
  <1> QED BY <1>3, <1>4, <1>5, <1>6, <1>7, <1>8, <1>9, <1>10, <1>11 DEF Step, Ok

\* An operation is asked for when its closure is handed over, and has the bus from
\* the moment it has the lock.
LEMMA BeginAsks ==
  ASSUME IInv, NEW c \in Collectors, Begin(c)
  PROVE  Serial!Ask(c)
  <1> USE DEF config, wire
  <1>1. PICK o \in Serial!Operations : op' = [op EXCEPT ![c] = o]
    BY BusAssumption DEF Begin, RegistersInUse, Clients, Serial!Operations
  <1>2. pc \in [Collectors -> {"rest", "want"} \cup Active] /\ pc[c] = "rest" /\ pc' = [pc EXCEPT ![c] = "want"]
    BY DEF IInv, Types, TypeOK, Begin
  <1>3. phase[c] = "rest" /\ phase' = [phase EXCEPT ![c] = "want"]
    BY <1>2 DEF phase, Active
  <1>4. UNCHANGED <<target, key>> /\ result' = [result EXCEPT ![c] = Pending]
    BY DEF Begin, key, Key, target, Reached
  <1> QED BY <1>1, <1>3, <1>4 DEF Serial!Ask, phase, key, target

LEMMA AcquireTakes ==
  ASSUME IInv, NEW c \in Collectors, Acquire(c)
  PROVE  Serial!Take(c)
  <1> USE DEF config, wire
  <1>1. PICK p \in Active : pc' = [pc EXCEPT ![c] = p]
    BY DEF Acquire, Active
  <1>2. pc \in [Collectors -> {"rest", "want"} \cup Active] /\ pc[c] = "want"
    BY DEF IInv, Types, TypeOK, Acquire
  <1>3. phase[c] = "want" /\ phase' = [phase EXCEPT ![c] = "busy"]
    BY <1>1, <1>2 DEF phase, Active
  <1>4. \A e \in Collectors : key[e] = key[c] => phase[e] # "busy"
    <2> SUFFICES ASSUME NEW e \in Collectors, Key(e) = Key(c) PROVE pc[e] \notin Active
      BY <1>2 DEF key, phase
    <2>1. lock[Key(e)] = None /\ None # e
      BY BusAssumption DEF Acquire
    <2> QED BY <2>1 DEF IInv, LockInv
  <1>5. UNCHANGED <<target, key, op, result>>
    BY DEF Acquire, key, Key, target, Reached
  <1> QED BY <1>3, <1>4, <1>5 DEF Serial!Take, phase, key, target

\* However many collectors share an I2C, I3C or SPI bus, and however their system
\* calls are interleaved, the operations are done one after the other and each
\* collector's are answered by one device: its own, or that of the I3C bus path.
THEOREM Refinement == Spec => ImplementsSerialBus
  <1>1. Init => Serial!SerialInit
    <2> SUFFICES ASSUME Init PROVE Serial!SerialInit
      OBVIOUS
    <2>1. op \in [Collectors -> Serial!Operations]
      BY BusAssumption DEF Init, Serial!Operations
    <2>2. phase = [c \in Collectors |-> "rest"]
      BY DEF Init, phase, Active
    <2>3. target \in [Collectors -> Devices]
      <3>1. IInv
        BY InitIInv
      <3>2. device \in [Collectors -> Devices] /\ endpoint \in Devices
        BY <3>1, BusAssumption DEF IInv, Types, TypeOK
      <3> QED BY <3>2 DEF target, Reached
    <2> QED BY <2>1, <2>2, <2>3 DEF Init, Serial!SerialInit, phase, key, target
  <1>2. IInv /\ [Next]_vars => [Serial!SerialNext]_(Serial!serialVars)
    <2> SUFFICES ASSUME IInv, [Next]_vars PROVE [Serial!SerialNext]_(Serial!serialVars)
      OBVIOUS
    <2>1. ASSUME NEW c \in Collectors, Begin(c) \/ Acquire(c) \/ Step(c)
          PROVE  [Serial!SerialNext]_(Serial!serialVars)
      BY <2>1, BeginAsks, AcquireTakes, StepReplies DEF Serial!SerialNext
    <2>2. CASE Reset \/ (\E d \in Devices : Enumerate(d)) \/ UNCHANGED vars
      <3>1. UNCHANGED <<config, task>>
        BY <2>2 DEF Reset, Enumerate, vars
      <3> QED BY <3>1 DEF Serial!serialVars, config, task, Key, Reached
    <2> QED BY <2>1, <2>2 DEF Next
  <1> QED BY <1>1, <1>2, InductiveInvariant, PTL DEF Spec, ImplementsSerialBus, Serial!SerialSpec

-------------------------------------------------------------------------------
(***************************************************************************)
(* Nobody holds a bus for ever: an operation that has the lock has a number *)
(* of steps left, which is bounded by the retries.                          *)
(***************************************************************************)
MostSteps == 2 * MaxTries + 3
Left(c) ==
  CASE pc[c] = "resolve"  -> MostSteps
    [] pc[c] = "transfer" -> 2 * (MaxTries - tries[c]) + 2
    [] pc[c] = "retry"    -> 2 * (MaxTries - tries[c]) + 1
    [] pc[c] = "data"     -> 1
    [] OTHER              -> 0

\* The number is one at least while the operation has the lock.
LEMMA LeftType ==
  ASSUME TypeOK, NEW c \in Collectors
  PROVE  /\ Left(c) \in 0 .. MostSteps
         /\ pc[c] \in Active <=> Left(c) > 0
  <1>1. pc[c] \in {"rest", "want"} \cup Active /\ tries[c] \in 0 .. MaxTries
    BY DEF TypeOK
  <1> QED BY <1>1 DEF Left, MostSteps, MaxTries, Active

\* It gets less when the closure returns,
LEMMA FinishEnds ==
  ASSUME TypeOK, NEW c \in Collectors, pc[c] \in Active, NEW r, Finish(c, r)
  PROVE  Left(c)' < Left(c)
  <1>1. pc'[c] = "rest"
    BY DEF TypeOK, Finish
  <1>2. Left(c)' = 0
    BY <1>1 DEF Left
  <1> QED BY <1>2, LeftType DEF MostSteps, MaxTries

\* and when it goes on, be it to a retry.
LEMMA StepEnds ==
  ASSUME IInv, NEW c \in Collectors, Step(c)
  PROVE  Left(c)' < Left(c)
  <1>1. /\ TypeOK /\ pc \in [Collectors -> {"rest", "want"} \cup Active]
        /\ tries \in [Collectors -> 0 .. MaxTries] /\ tries[c] \in 0 .. MaxTries
    BY DEF IInv, Types, TypeOK
  <1>2. CASE I2cSelect(c)
    <2>1. pc[c] = "transfer" /\ pc'[c] = "data"
      BY <1>1, <1>2 DEF I2cSelect
    <2> QED BY <1>1, <2>1 DEF Left, MaxTries
  <1>3. CASE I2cData(c) \/ I2cWrite(c) \/ SpiTransfer(c) \/ I3cOk(c) \/ Fail(c)
    BY <1>1, <1>3, FinishEnds DEF I2cData, I2cWrite, SpiTransfer, I3cOk, Fail, Active
  <1>4. CASE Resolve(c)
    <2>1. \/ Finish(c, Failed)
          \/ pc' = [pc EXCEPT ![c] = "transfer"] /\ UNCHANGED tries
      BY <1>4 DEF Resolve
    <2>2. pc[c] = "resolve"
      BY <1>4 DEF Resolve
    <2>3. ASSUME pc' = [pc EXCEPT ![c] = "transfer"], UNCHANGED tries PROVE Left(c)' < Left(c)
      <3>1. pc'[c] = "transfer" /\ tries'[c] = tries[c]
        BY <1>1, <2>3
      <3> QED BY <1>1, <2>2, <3>1 DEF Left, MostSteps, MaxTries
    <2> QED BY <1>1, <2>1, <2>2, <2>3, FinishEnds DEF Active
  <1>5. CASE I3cErr(c)
    <2>1. \/ Finish(c, Failed)
          \/ pc' = [pc EXCEPT ![c] = "retry"] /\ UNCHANGED tries
      BY <1>5 DEF I3cErr
    <2>2. pc[c] = "transfer"
      BY <1>5 DEF I3cErr
    <2>3. ASSUME pc' = [pc EXCEPT ![c] = "retry"], UNCHANGED tries PROVE Left(c)' < Left(c)
      <3>1. pc'[c] = "retry" /\ tries'[c] = tries[c]
        BY <1>1, <2>3
      <3> QED BY <1>1, <2>2, <3>1 DEF Left, MaxTries
    <2> QED BY <1>1, <2>1, <2>2, <2>3, FinishEnds DEF Active
  <1>6. CASE Retry(c)
    <2>1. \/ Finish(c, Failed)
          \/ \E p \in {"transfer", "retry"} :
               pc' = [pc EXCEPT ![c] = p] /\ tries' = [tries EXCEPT ![c] = tries[c] + 1]
      BY <1>6 DEF Retry
    <2>2. pc[c] = "retry"
      BY <1>6 DEF Retry
    <2>3. ASSUME NEW p \in {"transfer", "retry"},
                 pc' = [pc EXCEPT ![c] = p], tries' = [tries EXCEPT ![c] = tries[c] + 1]
          PROVE  Left(c)' < Left(c)
      <3>1. pc'[c] = p /\ tries'[c] = tries[c] + 1
        BY <1>1, <2>3
      <3> QED BY <1>1, <2>2, <3>1 DEF Left, MaxTries
    <2> QED BY <1>1, <2>1, <2>2, <2>3, FinishEnds DEF Active
  <1> QED BY <1>2, <1>3, <1>4, <1>5, <1>6 DEF Step, Ok

\* The steps of the others leave it alone.
LEMMA OthersKeepLeft ==
  ASSUME IInv, NEW c \in Collectors, NEW e \in Collectors, e # c, Begin(e) \/ Acquire(e) \/ Step(e)
  PROVE  pc'[c] = pc[c] /\ tries'[c] = tries[c]
  <1>1. DOMAIN pc = Collectors /\ DOMAIN tries = Collectors
    BY DEF IInv, Types, TypeOK
  <1>2. \/ UNCHANGED pc
        \/ \E p : pc' = [pc EXCEPT ![e] = p]
    BY DEF Begin, Acquire, Step, Ok, I2cSelect, I2cData, I2cWrite, SpiTransfer, Fail, Resolve,
           I3cOk, I3cErr, Retry, Finish
  <1>3. \/ UNCHANGED tries
        \/ \E n : tries' = [tries EXCEPT ![e] = n]
    BY DEF Begin, Acquire, Step, Ok, I2cSelect, I2cData, I2cWrite, SpiTransfer, Fail, Resolve,
           I3cOk, I3cErr, Retry, Finish
  <1> QED BY <1>1, <1>2, <1>3

\* An operation that has the bus gives it back after at most MostSteps steps of its
\* own, whatever the device and the other collectors do.
THEOREM HoldIsBounded ==
  Spec => /\ [](\A c \in Collectors : Left(c) \in 0 .. MostSteps /\ (lock[Key(c)] = c <=> Left(c) > 0))
          /\ [][\A c \in Collectors : pc[c] \in Active =>
                  Left(c)' < Left(c) \/ UNCHANGED <<pc[c], tries[c]>>]_vars
  <1>1. IInv => \A c \in Collectors : Left(c) \in 0 .. MostSteps /\ (lock[Key(c)] = c <=> Left(c) > 0)
    BY LeftType DEF IInv, Types, LockInv
  <1>2. IInv /\ [Next]_vars =>
          [\A c \in Collectors : pc[c] \in Active =>
             Left(c)' < Left(c) \/ UNCHANGED <<pc[c], tries[c]>>]_vars
    <2> SUFFICES ASSUME IInv, Next, NEW c \in Collectors, pc[c] \in Active
                 PROVE  Left(c)' < Left(c) \/ UNCHANGED <<pc[c], tries[c]>>
      OBVIOUS
    <2>1. CASE Reset \/ \E d \in Devices : Enumerate(d)
      BY <2>1 DEF Reset, Enumerate, task
    <2>2. ASSUME NEW e \in Collectors, Begin(e) \/ Acquire(e) \/ Step(e)
          PROVE  Left(c)' < Left(c) \/ UNCHANGED <<pc[c], tries[c]>>
      <3>1. CASE e # c
        BY <2>2, <3>1, OthersKeepLeft
      <3>2. CASE e = c
        <4>1. Step(c)
          BY <2>2, <3>2 DEF Begin, Acquire, Active
        <4> QED BY <4>1, StepEnds
      <3> QED BY <3>1, <3>2
    <2> QED BY <2>1, <2>2 DEF Next
  <1> QED BY <1>1, <1>2, InductiveInvariant, PTL DEF Spec
===============================================================================
