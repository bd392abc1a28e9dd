--------------------------- MODULE ImuSetupProofs ---------------------------
(***************************************************************************)
(* Proofs about module ImuSetup: for any number of failing transactions    *)
(* and any bytes in uninitialised locals, a setup that reports success has *)
(* left every register as its calls ask for, and what each call may change *)
(* besides.                                                                *)
(*                                                                         *)
(* The list of calls is looked at in the first part only, which shows that *)
(* each of them is Good: it reads a register before it writes part of it.  *)
(* The second part is about ConfiguredAt.  The rest follows for any list   *)
(* of good calls that begins with a reset of the chip.                     *)
(***************************************************************************)
EXTENDS ImuSetup, SequenceTheorems, TLAPS

Ops == {"read", "write", "compare", "other", "late", "ignored"}

Transactions == [op : Ops, reg : Registers, mask : Byte, bits : Byte]

Calls == [careful : BOOLEAN, steps : Seq(Transactions)]

(* What makes transaction i of a call one that leaves other fields alone,  *)
(* and does not reset the chip.                                            *)
GoodAt(s, i, careful) ==
  /\ s[i].op = "write" =>
       /\ s[i].bits \subseteq s[i].mask
       /\ s[i].mask = Bit
          \/ \E j \in 1 .. i - 1 : s[j].op = "read" /\ s[j].reg = s[i].reg
       /\ s[i].reg = PWR_MGMT_1 => 7 \notin s[i].bits
  /\ s[i].op = "read" /\ ~careful => s[i].reg # PWR_MGMT_1
  /\ s[i].op \in {"other", "late", "ignored"} =>
       s[i].mask = {} /\ s[i].bits = {}

Good(s, careful) ==
  /\ s \in Seq(Transactions) /\ Len(s) > 0
  /\ \A i \in 1 .. Len(s) : GoodAt(s, i, careful)

GoodCalls == {c \in Calls : Good(c.steps, c.careful)}

-----------------------------------------------------------------------------
LEMMA GoodConcat ==
  ASSUME NEW careful, NEW s, Good(s, careful), NEW t, Good(t, careful)
  PROVE  Good(s \o t, careful)
<1>1. /\ s \in Seq(Transactions) /\ Len(s) \in Nat /\ Len(s) > 0
      /\ t \in Seq(Transactions) /\ Len(t) \in Nat /\ Len(t) > 0
  BY LenProperties DEF Good
<1>2. /\ s \o t \in Seq(Transactions) /\ Len(s \o t) = Len(s) + Len(t)
      /\ \A i \in 1 .. Len(s) + Len(t) :
           (s \o t)[i] = IF i <= Len(s) THEN s[i] ELSE t[i - Len(s)]
  BY <1>1, ConcatProperties
<1>3. ASSUME NEW i \in 1 .. Len(s)
      PROVE  GoodAt(s \o t, i, careful)
  <2>1. \A j \in 1 .. i : (s \o t)[j] = s[j]
    BY <1>1, <1>2
  <2>2. GoodAt(s, i, careful)
    BY DEF Good
  <2> QED
    BY <1>1, <2>1, <2>2 DEF GoodAt
<1>4. ASSUME NEW i \in 1 .. Len(t)
      PROVE  GoodAt(s \o t, Len(s) + i, careful)
  <2>1. \A j \in 1 .. i : (s \o t)[Len(s) + j] = t[j]
    BY <1>1, <1>2
  <2>2. GoodAt(t, i, careful)
    BY DEF Good
  <2>3. \A j \in 1 .. i - 1 : Len(s) + j \in 1 .. Len(s) + i - 1
    BY <1>1
  <2>4. ASSUME NEW j \in 1 .. i - 1, t[j].op = "read", t[j].reg = t[i].reg
        PROVE  \E k \in 1 .. Len(s) + i - 1 :
                 (s \o t)[k].op = "read" /\ (s \o t)[k].reg = t[i].reg
    <3>1. (s \o t)[Len(s) + j] = t[j]
      BY <2>1
    <3> QED
      BY <2>3, <2>4, <3>1
  <2>5. (s \o t)[Len(s) + i] = t[i]
    BY <2>1
  <2>6. t[i].op = "write" =>
          \/ t[i].mask = Bit
          \/ \E k \in 1 .. Len(s) + i - 1 :
               (s \o t)[k].op = "read" /\ (s \o t)[k].reg = t[i].reg
    <3>1. t[i].op = "write" =>
            t[i].mask = Bit
            \/ \E j \in 1 .. i - 1 : t[j].op = "read" /\ t[j].reg = t[i].reg
      BY <2>2 DEF GoodAt
    <3> QED
      BY <2>4, <3>1
  <2>7. /\ t[i].op = "write" => t[i].bits \subseteq t[i].mask
        /\ t[i].op = "write" /\ t[i].reg = PWR_MGMT_1 => 7 \notin t[i].bits
        /\ t[i].op = "read" /\ ~careful => t[i].reg # PWR_MGMT_1
        /\ t[i].op \in {"other", "late", "ignored"} =>
             t[i].mask = {} /\ t[i].bits = {}
    BY <2>2 DEF GoodAt
  <2> QED
    BY <2>5, <2>6, <2>7 DEF GoodAt
<1>5. ASSUME NEW i \in 1 .. Len(s) + Len(t)
      PROVE  GoodAt(s \o t, i, careful)
  <2>1. CASE i <= Len(s)
    BY <1>1, <1>3, <2>1
  <2>2. CASE i > Len(s)
    <3>1. i - Len(s) \in 1 .. Len(t) /\ Len(s) + (i - Len(s)) = i
      BY <1>1, <2>2
    <3>2. GoodAt(s \o t, Len(s) + (i - Len(s)), careful)
      BY <1>4, <3>1
    <3> QED
      BY <3>1, <3>2
  <2> QED
    BY <1>1, <2>1, <2>2
<1> QED
  BY <1>1, <1>2, <1>5 DEF Good

LEMMA AllGood ==
  ASSUME NEW careful, NEW s \in Seq(Transactions), Len(s) > 0,
         \A i \in 1 .. Len(s) : GoodAt(s, i, careful)
  PROVE  Good(s, careful)
BY DEF Good

LEMMA GoodOne ==
  ASSUME NEW careful, NEW x \in Transactions, GoodAt(<<x>>, 1, careful)
  PROVE  Good(<<x>>, careful)
<1>1. /\ <<x>> \in Seq(Transactions) /\ Len(<<x>>) = 1
  OBVIOUS
<1> QED
  BY <1>1 DEF Good

(* Registers that calls write whole.                                       *)
LEMMA PutGood ==
  ASSUME NEW careful, NEW r \in Registers, r # PWR_MGMT_1, NEW n
  PROVE  Good(<<Put(r, n)>>, careful)
<1>1. Put(r, n) \in Transactions /\ Put(r, n).op = "write"
      /\ Put(r, n).reg = r /\ Put(r, n).mask = Bit /\ Put(r, n).bits \subseteq Bit
  BY DEF Put, Write, Transactions, Ops, Bits, Byte
<1>2. <<Put(r, n)>>[1] = Put(r, n)
  OBVIOUS
<1>3. GoodAt(<<Put(r, n)>>, 1, careful)
  BY <1>1, <1>2 DEF GoodAt
<1> QED
  BY <1>1, <1>3, GoodOne

(* Registers that they read, change and write back.                        *)
LEMMA ModifyGood ==
  ASSUME NEW careful, NEW r \in Registers, NEW m \in Byte, NEW b \in Byte,
         b \subseteq m, r = PWR_MGMT_1 => careful = TRUE /\ 7 \notin b
  PROVE  Good(Modify(r, m, b), careful)
<1> DEFINE s == Modify(r, m, b)
<1>1. s = <<Read(r), Write(r, m, b)>>
  BY DEF Modify
<1>2. /\ Read(r) \in Transactions /\ Read(r).op = "read" /\ Read(r).reg = r
      /\ Write(r, m, b) \in Transactions /\ Write(r, m, b).op = "write"
      /\ Write(r, m, b).reg = r /\ Write(r, m, b).bits = b
      /\ Write(r, m, b).mask = m
  BY DEF Read, Write, Transactions, Ops, Byte
<1>3. /\ s \in Seq(Transactions) /\ Len(s) = 2
      /\ s[1] = Read(r) /\ s[2] = Write(r, m, b)
  BY <1>1, <1>2
<1>4. GoodAt(s, 1, careful)
  BY <1>2, <1>3 DEF GoodAt
<1>5. GoodAt(s, 2, careful)
  <2>1. 1 \in 1 .. 2 - 1
    OBVIOUS
  <2>2. \E j \in 1 .. 2 - 1 : s[j].op = "read" /\ s[j].reg = s[2].reg
    BY <1>2, <1>3, <2>1
  <2> QED
    BY <1>2, <1>3, <2>2 DEF GoodAt
<1>6. \A i \in 1 .. Len(s) : i = 1 \/ i = 2
  BY <1>3
<1> QED
  BY <1>3, <1>4, <1>5, <1>6 DEF Good

LEMMA CarefulGood ==
  ASSUME NEW s, Good(s, TRUE)
  PROVE  Careful(s) \in GoodCalls
BY DEF Careful, GoodCalls, Calls, Good

LEMMA GoesOnGood ==
  ASSUME NEW s, Good(s, FALSE)
  PROVE  GoesOn(s) \in GoodCalls
BY DEF GoesOn, GoodCalls, Calls, Good

-----------------------------------------------------------------------------
Others ==
  {USER_CTRL, I2C_PERIPH0_REG, LP_CONFIG, I2C_PERIPH1_ADDR, I2C_PERIPH1_REG,
   I2C_PERIPH1_CTRL, I2C_PERIPH1_DO, GYRO_SMPLRT_DIV, INT_ENABLE,
   INT_ENABLE_1, INT_ENABLE_2, INT_ENABLE_3, GYRO_CONFIG_1, ACCEL_CONFIG,
   FIFO_PRIORITY_SEL, TIMEBASE_CORRECTION_PLL, PRGM_START_ADDRH,
   PRGM_START_ADDRL, FIFO_EN_1, FIFO_EN_2, FIFO_RST, PWR_MGMT_2, WHO_AM_I}

LEMMA OtherRegisters ==
  /\ PWR_MGMT_1 \in Registers
  /\ \A r \in Others : r \in Registers /\ r # PWR_MGMT_1
<1>1. \A r \in Others : r # PWR_MGMT_1
  BY DEF Others, Hex, USER_CTRL, I2C_PERIPH0_REG, LP_CONFIG, I2C_PERIPH1_ADDR,
         I2C_PERIPH1_REG, I2C_PERIPH1_CTRL, I2C_PERIPH1_DO, GYRO_SMPLRT_DIV,
         INT_ENABLE, INT_ENABLE_1, INT_ENABLE_2, INT_ENABLE_3, GYRO_CONFIG_1,
         ACCEL_CONFIG, FIFO_PRIORITY_SEL, TIMEBASE_CORRECTION_PLL,
         PRGM_START_ADDRH, PRGM_START_ADDRL, FIFO_EN_1, FIFO_EN_2, FIFO_RST, PWR_MGMT_1, PWR_MGMT_2, WHO_AM_I
<1>2. PWR_MGMT_1 \in Registers /\ Others \subseteq Registers
  BY DEF Others, Registers
<1> QED
  BY <1>1, <1>2

LEMMA OtherPut ==
  ASSUME NEW careful, NEW r \in Others, NEW n
  PROVE  Good(<<Put(r, n)>>, careful)
BY OtherRegisters, PutGood

LEMMA OtherModify ==
  ASSUME NEW careful, NEW r \in Others, NEW m \in Byte, NEW b \in Byte,
         b \subseteq m
  PROVE  Good(Modify(r, m, b), careful)
<1>1. r \in Registers /\ r # PWR_MGMT_1
  BY OtherRegisters
<1> QED
  BY <1>1, ModifyGood

LEMMA WriteByteGood ==
  ASSUME NEW r \in Others, NEW n
  PROVE  WriteByte(r, n) \in GoodCalls
BY OtherPut, CarefulGood DEF WriteByte

LEMMA OtherModifyGood ==
  ASSUME NEW r \in Others, NEW m \in Byte, NEW b \in Byte, b \subseteq m
  PROVE  Careful(Modify(r, m, b)) \in GoodCalls
BY OtherModify, CarefulGood

(* The accesses to PWR_MGMT_1. *)
LEMMA PowerGood ==
  /\ Good(WakeUp, TRUE) /\ Good(LowPower, TRUE)
  /\ SetClockSource \in GoodCalls
<1>1. /\ {6} \in Byte /\ {} \in Byte /\ {0, 1, 2} \in Byte /\ {0} \in Byte
      /\ {} \subseteq {6} /\ {} \subseteq {} /\ {0} \subseteq {0, 1, 2}
      /\ 7 \notin {} /\ 7 \notin {0}
  BY DEF Byte, Bit
<1>2. \A m, b \in Byte :
        b \subseteq m /\ 7 \notin b => Good(Modify(PWR_MGMT_1, m, b), TRUE)
  BY OtherRegisters, ModifyGood
<1>3. /\ Good(Modify(PWR_MGMT_1, {6}, {}), TRUE)
      /\ Good(Modify(PWR_MGMT_1, {}, {}), TRUE)
      /\ Good(Modify(PWR_MGMT_1, {0, 1, 2}, {0}), TRUE)
  BY <1>1, <1>2
<1> QED
  BY <1>3, CarefulGood DEF WakeUp, LowPower, SetClockSource

LEMMA AwakeGood ==
  ASSUME NEW s, Good(s, TRUE)
  PROVE  Awake(s) \in GoodCalls
<1>1. Good(WakeUp \o LowPower, TRUE)
  BY PowerGood, GoodConcat
<1>2. Good((WakeUp \o LowPower) \o s, TRUE)
  BY <1>1, GoodConcat
<1>3. Good(((WakeUp \o LowPower) \o s) \o LowPower, TRUE)
  BY <1>2, PowerGood, GoodConcat
<1> QED
  BY <1>3, CarefulGood DEF Awake

(* Calls that write registers whole. *)
WholeWrites ==
  {x \in Transactions : /\ x.op = "write" /\ x.mask = Bit
                        /\ x.reg # PWR_MGMT_1}

LEMMA WholeWritesGood ==
  ASSUME NEW careful, NEW s \in Seq(WholeWrites), Len(s) > 0
  PROVE  Good(s, careful)
<1>1. /\ Len(s) \in Nat
      /\ \A i \in 1 .. Len(s) : s[i] \in WholeWrites
  BY ElementOfSeq
<1>2. s \in Seq(Transactions)
  BY <1>1 DEF WholeWrites
<1>3. ASSUME NEW i \in 1 .. Len(s)
      PROVE  GoodAt(s, i, careful)
  <2>1. /\ s[i] \in Transactions /\ s[i].op = "write" /\ s[i].mask = Bit
        /\ s[i].reg # PWR_MGMT_1
    BY <1>1 DEF WholeWrites
  <2>2. s[i].bits \subseteq Bit
    BY <2>1 DEF Transactions, Byte
  <2> QED
    BY <2>1, <2>2 DEF GoodAt
<1> QED
  BY <1>2, <1>3 DEF Good

LEMMA PutWhole ==
  \A r \in Others : \A n : Put(r, n) \in WholeWrites
<1> SUFFICES ASSUME NEW r \in Others, NEW n
             PROVE  Put(r, n) \in WholeWrites
  OBVIOUS
<1>1. r \in Registers /\ r # PWR_MGMT_1
  BY OtherRegisters
<1> QED
  BY <1>1 DEF WholeWrites, Put, Write, Transactions, Ops, Bits, Byte

LEMMA ThreePutsGood ==
  ASSUME NEW careful, NEW a \in WholeWrites, NEW b \in WholeWrites,
         NEW c \in WholeWrites
  PROVE  Good(<<a, b, c>>, careful)
<1>1. <<a, b, c>> \in Seq(WholeWrites) /\ Len(<<a, b, c>>) > 0
  OBVIOUS
<1> QED
  BY <1>1, WholeWritesGood

LEMMA StartAddressGood == SetDMPstartAddress \in GoodCalls
<1> DEFINE a == Put(PRGM_START_ADDRH, Hex(1, 0))
           b == Put(PRGM_START_ADDRL, 0)
<1>1. a \in WholeWrites /\ b \in WholeWrites
  BY PutWhole DEF Others
<1>2. SetDMPstartAddress = Careful(<<a, b>>)
  BY DEF SetDMPstartAddress
<1> HIDE DEF a, b
<1>3. <<a, b>> \in Seq(WholeWrites) /\ Len(<<a, b>>) > 0
  BY <1>1
<1> QED
  BY <1>2, <1>3, WholeWritesGood, CarefulGood

LEMMA PeripheralsGood ==
  /\ ConfigurePeripheral0 \in GoodCalls
  /\ ConfigurePeripheral1 \in GoodCalls
  /\ SetSampleRate \in GoodCalls
<1>1. ConfigurePeripheral0 \in GoodCalls
  <2>1. /\ Put(USER_CTRL, Hex(8, 12)) \in WholeWrites
        /\ Put(I2C_PERIPH0_REG, Hex(0, 3)) \in WholeWrites
        /\ Put(LP_CONFIG, Hex(13, 10)) \in WholeWrites
    BY PutWhole DEF Others
  <2> QED
    BY <2>1, ThreePutsGood, CarefulGood DEF ConfigurePeripheral0
<1>2. ConfigurePeripheral1 \in GoodCalls
  <2> DEFINE a == Put(I2C_PERIPH1_ADDR, Hex(0, 12))
             b == Put(I2C_PERIPH1_DO, Hex(0, 1))
             c == Put(I2C_PERIPH1_REG, Hex(3, 1))
             d == Put(I2C_PERIPH1_CTRL, Hex(8, 1))
  <2>1. /\ a \in WholeWrites /\ b \in WholeWrites
        /\ c \in WholeWrites /\ d \in WholeWrites
    BY PutWhole DEF Others
  <2>2. ConfigurePeripheral1 = Careful(<<a, b, c, d>>)
    BY DEF ConfigurePeripheral1
  <2> HIDE DEF a, b, c, d
  <2>3. <<a, b, c, d>> \in Seq(WholeWrites) /\ Len(<<a, b, c, d>>) > 0
    BY <2>1
  <2> QED
    BY <2>2, <2>3, WholeWritesGood, CarefulGood
<1>3. SetSampleRate \in GoodCalls
  <2>1. /\ Put(INT_ENABLE, 0) \in WholeWrites
        /\ Put(INT_ENABLE_1, 19) \in WholeWrites
        /\ Put(GYRO_SMPLRT_DIV, 19) \in WholeWrites
    BY PutWhole DEF Others
  <2> QED
    BY <2>1, ThreePutsGood, GoesOnGood DEF SetSampleRate
<1> QED
  BY <1>1, <1>2, <1>3

(* A register is read, and then something that changes none is done.       *)
LEMMA ReadOtherGood ==
  ASSUME NEW careful, NEW r \in Others
  PROVE  Good(<<Read(r), Other>>, careful)
<1> DEFINE s == <<Read(r), Other>>
<1>0. WHO_AM_I \in Others
  BY DEF Others
<1>1. /\ r \in Registers /\ r # PWR_MGMT_1
      /\ WHO_AM_I \in Registers
  BY <1>0, OtherRegisters
<1>2. /\ Read(r) \in Transactions /\ Read(r).op = "read"
      /\ Read(r).reg = r
      /\ Other \in Transactions /\ Other.op = "other"
      /\ Other.mask = {} /\ Other.bits = {}
  BY <1>1 DEF Read, Other, Unregistered, Transactions, Ops, Byte
<1>3. s \in Seq(Transactions) /\ Len(s) = 2 /\ s[1] = Read(r) /\ s[2] = Other
  BY <1>2
<1> HIDE DEF s
<1>4. GoodAt(s, 1, careful) /\ GoodAt(s, 2, careful)
  BY <1>1, <1>2, <1>3 DEF GoodAt
<1>5. \A i \in 1 .. Len(s) : GoodAt(s, i, careful)
  <2>1. \A i \in 1 .. Len(s) : i = 1 \/ i = 2
    BY <1>3
  <2> QED
    BY <1>4, <2>1
<1>6. Good(s, careful)
  <2>1. s \in Seq(Transactions) /\ Len(s) > 0
    BY <1>3
  <2> QED
    BY <1>5, <2>1, AllGood
<1> QED
  BY <1>6 DEF s

LEMMA ResetFIFOGood ==
  ASSUME NEW careful
  PROVE  Good(<<Read(FIFO_RST), Write(FIFO_RST, 0 .. 4, 0 .. 4),
                Write(FIFO_RST, 0 .. 4, 1 .. 4)>>, careful)
<1> DEFINE w == Write(FIFO_RST, 0 .. 4, 0 .. 4)
           v == Write(FIFO_RST, 0 .. 4, 1 .. 4)
           s == <<Read(FIFO_RST), w, v>>
<1>1. FIFO_RST \in Registers /\ FIFO_RST # PWR_MGMT_1
  BY OtherRegisters DEF Others
<1>2. /\ Read(FIFO_RST) \in Transactions /\ Read(FIFO_RST).op = "read"
      /\ Read(FIFO_RST).reg = FIFO_RST
      /\ w \in Transactions /\ w.op = "write" /\ w.reg = FIFO_RST
      /\ w.bits \subseteq w.mask
      /\ v \in Transactions /\ v.op = "write" /\ v.reg = FIFO_RST
      /\ v.bits \subseteq v.mask
  BY <1>1 DEF Read, Write, Transactions, Ops, Byte, Bit
<1> HIDE DEF w, v
<1>3. /\ s \in Seq(Transactions) /\ Len(s) = 3
      /\ s[1] = Read(FIFO_RST) /\ s[2] = w /\ s[3] = v
  BY <1>2
<1> HIDE DEF s
<1>4. GoodAt(s, 1, careful)
  BY <1>1, <1>2, <1>3 DEF GoodAt
<1>5. ASSUME NEW i \in {2, 3}
      PROVE  GoodAt(s, i, careful)
  <2>1. 1 \in 1 .. i - 1 /\ s[1].op = "read" /\ s[1].reg = s[i].reg
    BY <1>2, <1>3
  <2>2. s[i].op = "write" /\ s[i].reg # PWR_MGMT_1 /\ s[i].bits \subseteq s[i].mask
    BY <1>1, <1>2, <1>3
  <2> QED
    BY <2>1, <2>2 DEF GoodAt
<1>6. \A i \in 1 .. Len(s) : GoodAt(s, i, careful)
  <2>1. \A i \in 1 .. Len(s) : i = 1 \/ i \in {2, 3}
    BY <1>3
  <2> QED
    BY <1>4, <1>5, <2>1
<1>7. Good(s, careful)
  <2>1. s \in Seq(Transactions) /\ Len(s) > 0
    BY <1>3
  <2> QED
    BY <1>6, <2>1, AllGood
<1> QED
  BY <1>7 DEF s, w, v

LEMMA ConcatParts ==
  ASSUME NEW S, NEW s \in Seq(S), NEW t \in Seq(S)
  PROVE  /\ s \o t \in Seq(S) /\ Len(s \o t) = Len(s) + Len(t)
         /\ \A i \in 1 .. Len(s) : (s \o t)[i] = s[i]
         /\ \A i \in 1 .. Len(t) : (s \o t)[Len(s) + i] = t[i]
<1>1. /\ s \o t \in Seq(S) /\ Len(s \o t) = Len(s) + Len(t)
      /\ \A i \in 1 .. Len(s) + Len(t) :
           (s \o t)[i] = IF i <= Len(s) THEN s[i] ELSE t[i - Len(s)]
  BY ConcatProperties
<1>2. Len(s) \in Nat /\ Len(t) \in Nat
  BY LenProperties
<1>3. \A i \in 1 .. Len(s) : (s \o t)[i] = s[i]
  BY <1>1, <1>2
<1>4. \A i \in 1 .. Len(t) : (s \o t)[Len(s) + i] = t[i]
  BY <1>1, <1>2
<1> QED
  BY <1>1, <1>3, <1>4

(* intEnableRawDataReady reads all four registers before it writes them.   *)
Parts(s, r, w, c) ==
  /\ Len(s) = 13 /\ s[13] = c[1]
  /\ \A i \in 1 .. 4 : s[i] = r[i] /\ s[4 + i] = w[i] /\ s[8 + i] = r[i]

LEMMA FourReadFirst ==
  ASSUME NEW S, NEW r \in Seq(S), Len(r) = 4, NEW w \in Seq(S), Len(w) = 4,
         NEW c \in Seq(S), Len(c) = 1
  PROVE  r \o w \o r \o c \in Seq(S) /\ Parts(r \o w \o r \o c, r, w, c)
<1> DEFINE rw == r \o w
           rwr == rw \o r
           s == rwr \o c
<1>0. \A x, y \in Seq(S) :
        /\ x \o y \in Seq(S) /\ Len(x \o y) = Len(x) + Len(y)
        /\ \A i \in 1 .. Len(x) : (x \o y)[i] = x[i]
        /\ \A i \in 1 .. Len(y) : (x \o y)[Len(x) + i] = y[i]
  BY ConcatParts
<1>1. /\ rw \in Seq(S) /\ Len(rw) = Len(r) + Len(w)
      /\ \A i \in 1 .. Len(r) : rw[i] = r[i]
      /\ \A i \in 1 .. Len(w) : rw[Len(r) + i] = w[i]
  BY <1>0
<1>2. /\ Len(rw) = 8
      /\ \A i \in 1 .. 4 : rw[i] = r[i] /\ rw[4 + i] = w[i]
  BY <1>1
<1> HIDE DEF rw
<1>3. /\ rwr \in Seq(S) /\ Len(rwr) = Len(rw) + Len(r)
      /\ \A i \in 1 .. Len(rw) : rwr[i] = rw[i]
      /\ \A i \in 1 .. Len(r) : rwr[Len(rw) + i] = r[i]
  <2>1. rw \in Seq(S)
    BY <1>1
  <2> QED
    BY <1>0, <2>1
<1>4. /\ Len(rwr) = 12
      /\ \A i \in 1 .. 8 : rwr[i] = rw[i]
      /\ \A i \in 1 .. 4 : rwr[8 + i] = r[i]
  <2>1. Len(rw) = 8 /\ Len(r) = 4
    BY <1>2
  <2>2. Len(rwr) = 12
    BY <1>3, <2>1
  <2>3. \A i \in 1 .. 8 : rwr[i] = rw[i]
    BY <1>3, <2>1
  <2>4. \A i \in 1 .. 4 : rwr[Len(rw) + i] = r[i]
    BY <1>3, <2>1
  <2> QED
    BY <2>1, <2>2, <2>3, <2>4
<1> HIDE DEF rwr
<1>6. /\ s \in Seq(S) /\ Len(s) = Len(rwr) + Len(c)
      /\ \A i \in 1 .. Len(rwr) : s[i] = rwr[i]
      /\ \A i \in 1 .. Len(c) : s[Len(rwr) + i] = c[i]
  <2>1. rwr \in Seq(S)
    BY <1>3
  <2> QED
    BY <1>0, <2>1
<1> HIDE DEF s
<1>7. /\ Len(s) = 13 /\ s[13] = c[1]
      /\ \A i \in 1 .. 12 : s[i] = rwr[i]
  <2>1. 1 \in 1 .. Len(c) /\ Len(rwr) + 1 = 13
    BY <1>4
  <2>2. s[Len(rwr) + 1] = c[1]
    BY <1>6, <2>1
  <2> QED
    BY <1>4, <1>6, <2>1, <2>2
<1>8. ASSUME NEW i \in 1 .. 4
      PROVE  s[i] = r[i] /\ s[4 + i] = w[i] /\ s[8 + i] = r[i]
  <2>1. /\ i \in 1 .. 8 /\ i \in 1 .. 12
        /\ 4 + i \in 1 .. 8 /\ 4 + i \in 1 .. 12 /\ 8 + i \in 1 .. 12
    OBVIOUS
  <2>2. s[i] = rwr[i] /\ s[4 + i] = rwr[4 + i] /\ s[8 + i] = rwr[8 + i]
    BY <1>7, <2>1
  <2>3. rwr[i] = rw[i] /\ rwr[4 + i] = rw[4 + i] /\ rwr[8 + i] = r[i]
    BY <1>4, <2>1
  <2> QED
    BY <1>2, <2>2, <2>3
<1> QED
  <2>1. s \in Seq(S)
    BY <1>6
  <2>2. Parts(s, r, w, c)
    BY <1>7, <1>8 DEF Parts
  <2>3. s = r \o w \o r \o c
    BY DEF s, rwr, rw
  <2> QED
    BY <2>1, <2>2, <2>3

LEMMA RawDataReadyOffGood == RawDataReadyOff \in GoodCalls
<1> DEFINE w == <<Write(INT_ENABLE, {4, 5, 6}, {}), Write(INT_ENABLE_1, Bit, {}),
                  Write(INT_ENABLE_2, {5, 6, 7}, {}),
                  Write(INT_ENABLE_3, {5, 6, 7}, {})>>
           c == <<Compare(INT_ENABLE_1, {0}, {})>>
           r == ReadInterrupts
           reg == <<INT_ENABLE, INT_ENABLE_1, INT_ENABLE_2, INT_ENABLE_3>>
           s == r \o w \o r \o c
<1>1. \A i \in 1 .. 4 : reg[i] \in Registers /\ reg[i] # PWR_MGMT_1
  <2>1. \A x \in {INT_ENABLE, INT_ENABLE_1, INT_ENABLE_2, INT_ENABLE_3} :
          x \in Registers /\ x # PWR_MGMT_1
    BY OtherRegisters DEF Others
  <2> QED
    BY <2>1
<1>2. /\ r \in Seq(Transactions) /\ Len(r) = 4
      /\ \A i \in 1 .. 4 : r[i].op = "read" /\ r[i].reg = reg[i]
  <2>1. \A x \in Registers : /\ Read(x) \in Transactions /\ Read(x).op = "read"
                            /\ Read(x).reg = x
    BY DEF Read, Transactions, Ops, Byte
  <2>2. r = <<Read(INT_ENABLE), Read(INT_ENABLE_1), Read(INT_ENABLE_2),
              Read(INT_ENABLE_3)>>
    BY DEF ReadInterrupts
  <2>3. /\ INT_ENABLE \in Registers /\ INT_ENABLE_1 \in Registers
        /\ INT_ENABLE_2 \in Registers /\ INT_ENABLE_3 \in Registers
    BY DEF Registers
  <2> QED
    BY <2>1, <2>2, <2>3
<1>3. /\ w \in Seq(Transactions) /\ Len(w) = 4
      /\ \A i \in 1 .. 4 : w[i].op = "write" /\ w[i].reg = reg[i] /\ w[i].bits = {}
  <2>1. \A x \in Registers, m \in Byte :
          /\ Write(x, m, {}) \in Transactions /\ Write(x, m, {}).op = "write"
          /\ Write(x, m, {}).reg = x /\ Write(x, m, {}).bits = {}
    BY DEF Write, Transactions, Ops, Byte
  <2>2. {4, 5, 6} \in Byte /\ Bit \in Byte /\ {5, 6, 7} \in Byte
    BY DEF Byte, Bit
  <2>3. /\ INT_ENABLE \in Registers /\ INT_ENABLE_1 \in Registers
        /\ INT_ENABLE_2 \in Registers /\ INT_ENABLE_3 \in Registers
    BY DEF Registers
  <2> QED
    BY <2>1, <2>2, <2>3
<1>4. /\ c \in Seq(Transactions) /\ Len(c) = 1 /\ c[1].op = "compare"
  <2>1. INT_ENABLE_1 \in Registers /\ {0} \in Byte
    BY DEF Registers, Byte, Bit
  <2>2. /\ Compare(INT_ENABLE_1, {0}, {}) \in Transactions
        /\ Compare(INT_ENABLE_1, {0}, {}).op = "compare"
    BY <2>1 DEF Compare, Transactions, Ops, Byte
  <2> QED
    BY <2>2
<1>0. s = r \o w \o r \o c
  OBVIOUS
<1> HIDE DEF w, c, r, reg, s
<1>5. /\ s \in Seq(Transactions) /\ Len(s) = 13
      /\ \A i \in 1 .. 4 : s[i] = r[i] /\ s[4 + i] = w[i] /\ s[8 + i] = r[i]
      /\ s[13] = c[1]
  <2>1. \A x, y, z \in Seq(Transactions) :
          Len(x) = 4 /\ Len(y) = 4 /\ Len(z) = 1 =>
            /\ x \o y \o x \o z \in Seq(Transactions)
            /\ Parts(x \o y \o x \o z, x, y, z)
    BY FourReadFirst
  <2>2. /\ r \in Seq(Transactions) /\ w \in Seq(Transactions)
        /\ c \in Seq(Transactions) /\ Len(r) = 4 /\ Len(w) = 4 /\ Len(c) = 1
    BY <1>2, <1>3, <1>4
  <2>3. s \in Seq(Transactions) /\ Parts(s, r, w, c)
    BY <1>0, <2>1, <2>2
  <2> QED
    BY <2>3 DEF Parts
<1>6. ASSUME NEW careful
      PROVE  Good(s, careful)
  <2>1. ASSUME NEW i \in 1 .. 4
        PROVE  /\ GoodAt(s, i, careful) /\ GoodAt(s, 4 + i, careful)
               /\ GoodAt(s, 8 + i, careful)
    <3>1. /\ s[i].op = "read" /\ s[i].reg = reg[i]
          /\ s[8 + i].op = "read" /\ s[8 + i].reg = reg[i]
          /\ s[4 + i].op = "write" /\ s[4 + i].reg = reg[i] /\ s[4 + i].bits = {}
          /\ reg[i] # PWR_MGMT_1
      BY <1>1, <1>2, <1>3, <1>5
    <3>2. GoodAt(s, i, careful) /\ GoodAt(s, 8 + i, careful)
      BY <3>1 DEF GoodAt
    <3>3. i \in 1 .. 4 + i - 1
      OBVIOUS
    <3>4. GoodAt(s, 4 + i, careful)
      BY <3>1, <3>3 DEF GoodAt
    <3> QED
      BY <3>2, <3>4
  <2>2. GoodAt(s, 13, careful)
    BY <1>4, <1>5 DEF GoodAt
  <2>3. ASSUME NEW i \in 1 .. 13
        PROVE  GoodAt(s, i, careful)
    <3>1. CASE i \in 1 .. 4
      BY <2>1, <3>1
    <3>2. CASE i \in 5 .. 8
      <4>1. i - 4 \in 1 .. 4 /\ 4 + (i - 4) = i
        BY <3>2
      <4>2. GoodAt(s, 4 + (i - 4), careful)
        BY <2>1, <4>1
      <4> QED
        BY <4>1, <4>2
    <3>3. CASE i \in 9 .. 12
      <4>1. i - 8 \in 1 .. 4 /\ 8 + (i - 8) = i
        BY <3>3
      <4>2. GoodAt(s, 8 + (i - 8), careful)
        BY <2>1, <4>1
      <4> QED
        BY <4>1, <4>2
    <3>4. CASE i = 13
      BY <2>2, <3>4
    <3> QED
      BY <3>1, <3>2, <3>3, <3>4
  <2>4. s \in Seq(Transactions) /\ Len(s) > 0
    BY <1>5
  <2>5. \A i \in 1 .. Len(s) : GoodAt(s, i, careful)
    BY <1>5, <2>3
  <2> QED
    BY <2>4, <2>5, AllGood
<1>7. RawDataReadyOff = Careful(s)
  BY DEF RawDataReadyOff, s, r, w, c
<1> QED
  BY <1>6, <1>7, CarefulGood

(* Transactions that change no register of the chip. *)
Silent ==
  {x \in Transactions : /\ x.op \in {"other", "late", "ignored"}
                        /\ x.mask = {} /\ x.bits = {}}

LEMMA SilentGood ==
  ASSUME NEW careful, NEW s \in Seq(Silent), Len(s) > 0
  PROVE  Good(s, careful)
<1>1. /\ Len(s) \in Nat
      /\ \A i \in 1 .. Len(s) : s[i] \in Silent
  BY ElementOfSeq
<1>2. s \in Seq(Transactions)
  BY <1>1 DEF Silent
<1>3. ASSUME NEW i \in 1 .. Len(s)
      PROVE  GoodAt(s, i, careful)
  <2>1. s[i].op \in {"other", "late", "ignored"} /\ s[i].mask = {} /\ s[i].bits = {}
    BY <1>1 DEF Silent
  <2>2. s[i].op # "write" /\ s[i].op # "read"
    BY <2>1
  <2> QED
    BY <2>1, <2>2 DEF GoodAt
<1> QED
  BY <1>2, <1>3 DEF Good

LEMMA MemoryCallsGood ==
  /\ LoadDMPFirmware \in GoodCalls /\ EnableDMPSensor \in GoodCalls
  /\ SetDMPODRrate \in GoodCalls /\ WriteDMPmems \in GoodCalls
<1>1. Other \in Silent /\ Late \in Silent /\ Ignored \in Silent
  BY OtherRegisters DEF Others, Other, Late, Ignored, Unregistered, Silent,
                        Transactions, Ops, Byte
<1>2. ASSUME NEW x \in Silent, NEW y \in Silent
      PROVE  Good(<<x>>, TRUE) /\ Good(<<x, y>>, TRUE)
  <2>1. /\ <<x>> \in Seq(Silent) /\ Len(<<x>>) > 0
        /\ <<x, y>> \in Seq(Silent) /\ Len(<<x, y>>) > 0
    OBVIOUS
  <2> QED
    BY <2>1, SilentGood
<1>3. /\ Good(<<Other, Ignored>>, TRUE) /\ Good(<<Other>>, TRUE)
      /\ Good(<<Ignored, Late>>, TRUE)
  BY <1>1, <1>2
<1> QED
  BY <1>3, AwakeGood, CarefulGood
     DEF LoadDMPFirmware, EnableDMPSensor, SetDMPODRrate, WriteDMPmems

LEMMA UserControlGood ==
  ASSUME NEW on \in BOOLEAN
  PROVE  EnableFIFO(on) \in GoodCalls /\ EnableDMP(on) \in GoodCalls
<1>1. USER_CTRL \in Others
  BY DEF Others
<1>2. {6} \in Byte /\ {7} \in Byte /\ {} \in Byte
  BY DEF Byte, Bit
<1>3. ASSUME NEW m \in Byte, NEW b \in Byte, b \subseteq m
      PROVE  Careful(Modify(USER_CTRL, m, b)) \in GoodCalls
  BY <1>1, <1>3, OtherModifyGood
<1>4. /\ Careful(Modify(USER_CTRL, {6}, {6})) \in GoodCalls
      /\ Careful(Modify(USER_CTRL, {6}, {})) \in GoodCalls
      /\ Careful(Modify(USER_CTRL, {7}, {7})) \in GoodCalls
      /\ Careful(Modify(USER_CTRL, {7}, {})) \in GoodCalls
  BY <1>2, <1>3
<1> QED
  BY <1>4 DEF EnableFIFO, EnableDMP

LEMMA FieldCallsGood ==
  /\ SetSampleMode \in GoodCalls /\ ResetDMP \in GoodCalls
  /\ EnableDLPF \in GoodCalls
  /\ SetFullScale({3, 4}, {3, 4}) \in GoodCalls
  /\ SetFullScale({3}, {3, 4}) \in GoodCalls
<1>1. /\ LP_CONFIG \in Others /\ USER_CTRL \in Others
      /\ ACCEL_CONFIG \in Others /\ GYRO_CONFIG_1 \in Others
  BY DEF Others
<1>2. /\ {6} \in Byte /\ {3} \in Byte /\ {3, 4} \in Byte
      /\ {0, 1} \in Byte /\ {0} \in Byte
      /\ {3} \subseteq {3, 4} /\ {0} \subseteq {0, 1}
  BY DEF Byte, Bit
<1>3. SetSampleMode \in GoodCalls /\ ResetDMP \in GoodCalls
  BY <1>1, <1>2, OtherModifyGood DEF SetSampleMode, ResetDMP
<1>4. ASSUME NEW r \in Others, NEW m \in Byte, NEW b \in Byte, b \subseteq m
      PROVE  Good(Modify(r, m, b), FALSE)
  BY <1>4, OtherModify
<1>5. EnableDLPF \in GoodCalls
  BY <1>1, <1>2, <1>4, GoesOnGood DEF EnableDLPF
<1>6. ASSUME NEW a \in Byte, a \subseteq {3, 4}
      PROVE  SetFullScale(a, {3, 4}) \in GoodCalls
  <2>1. /\ Good(Modify(ACCEL_CONFIG, {3, 4}, a), FALSE)
        /\ Good(Modify(GYRO_CONFIG_1, {3, 4}, {3, 4}), FALSE)
    BY <1>1, <1>2, <1>4, <1>6
  <2>2. Good(Modify(ACCEL_CONFIG, {3, 4}, a)
             \o Modify(GYRO_CONFIG_1, {3, 4}, {3, 4}), FALSE)
    BY <2>1, GoodConcat
  <2> QED
    BY <2>2, GoesOnGood DEF SetFullScale
<1>7. /\ SetFullScale({3, 4}, {3, 4}) \in GoodCalls
      /\ SetFullScale({3}, {3, 4}) \in GoodCalls
  BY <1>2, <1>6
<1> QED
  BY <1>3, <1>5, <1>7

-----------------------------------------------------------------------------
LEMMA SwResetFacts ==
  /\ SwReset \in Calls /\ SwReset.careful = TRUE
  /\ Len(SwReset.steps) = 2
  /\ SwReset.steps[1] = Read(PWR_MGMT_1)
  /\ SwReset.steps[2] = Write(PWR_MGMT_1, Bit, {0, 7})
<1>1. /\ Read(PWR_MGMT_1) \in Transactions
      /\ Write(PWR_MGMT_1, Bit, {0, 7}) \in Transactions
  BY OtherRegisters DEF Read, Write, Transactions, Ops, Byte, Bit
<1>2. /\ SwReset.careful = TRUE
      /\ SwReset.steps = <<Read(PWR_MGMT_1), Write(PWR_MGMT_1, Bit, {0, 7})>>
      /\ SwReset = [careful |-> TRUE, steps |-> SwReset.steps]
  BY DEF SwReset, Careful, Modify
<1>3. SwReset.steps \in Seq(Transactions)
  BY <1>1, <1>2
<1>4. SwReset \in Calls
  BY <1>2, <1>3 DEF Calls
<1> QED
  BY <1>2, <1>4

LEMMA GoodAreCalls == GoodCalls \subseteq Calls
BY DEF GoodCalls

LEMMA BeginFacts ==
  /\ Begin \in Seq(Calls) /\ Len(Begin) = 4 /\ Begin[1] = SwReset
  /\ \A c \in 2 .. 4 : Begin[c] \in GoodCalls
<1> DEFINE w == Careful(WakeUp)
           f == SetFullScale({3, 4}, {3, 4})
<1>1. CheckID \in GoodCalls
  BY ReadOtherGood, CarefulGood DEF CheckID, Others
<1>2. w \in GoodCalls /\ f \in GoodCalls
  BY PowerGood, CarefulGood, FieldCallsGood
<1>3. Begin = <<SwReset, CheckID, w, f>>
  BY DEF Begin
<1>4. SwReset \in Calls
  BY SwResetFacts
<1> HIDE DEF w, f
<1>5. Begin \in Seq(Calls)
  BY <1>1, <1>2, <1>3, <1>4, GoodAreCalls
<1>6. /\ Len(Begin) = 4 /\ Begin[1] = SwReset /\ Begin[2] = CheckID
      /\ Begin[3] = w /\ Begin[4] = f
  BY <1>3
<1> QED
  BY <1>1, <1>2, <1>5, <1>6

LEMMA InitializeDMPGood == InitializeDMP \in Seq(GoodCalls)
<1> DEFINE rate == WriteByte(GYRO_SMPLRT_DIV, Hex(0, 4))
           power == WriteByte(PWR_MGMT_2, Hex(4, 0))
           fifo1 == WriteByte(FIFO_EN_1, 0)
           fifo2 == WriteByte(FIFO_EN_2, 0)
           fix == WriteByte(WHO_AM_I, Hex(4, 8))
           prio == WriteByte(FIFO_PRIORITY_SEL, Hex(14, 4))
           fifoOff == EnableFIFO(FALSE)
           dmpOff == EnableDMP(FALSE)
           scale == SetFullScale({3}, {3, 4})
<1>1. /\ rate \in GoodCalls /\ power \in GoodCalls /\ fifo1 \in GoodCalls
      /\ fifo2 \in GoodCalls /\ fix \in GoodCalls /\ prio \in GoodCalls
  BY WriteByteGood DEF Others
<1>2. fifoOff \in GoodCalls /\ dmpOff \in GoodCalls
  BY UserControlGood
<1>3. scale \in GoodCalls
  BY FieldCallsGood
<1>4. ResetFIFO \in GoodCalls
  BY ResetFIFOGood, CarefulGood DEF ResetFIFO
<1>5. InitializeDMP =
        <<ConfigurePeripheral0, ConfigurePeripheral1, rate, SetClockSource, power,
          SetSampleMode, fifoOff, dmpOff, scale, EnableDLPF, fifo1, fifo2,
          RawDataReadyOff, ResetFIFO, SetSampleRate, SetDMPstartAddress,
          LoadDMPFirmware, SetDMPstartAddress, fix, prio, WriteDMPmems,
          SetGyroSF, WriteDMPmems>>
  BY DEF InitializeDMP
<1> HIDE DEF rate, power, fifo1, fifo2, fix, prio, fifoOff, dmpOff, scale
<1>6. /\ ConfigurePeripheral0 \in GoodCalls /\ ConfigurePeripheral1 \in GoodCalls
      /\ SetSampleRate \in GoodCalls /\ SetClockSource \in GoodCalls
      /\ SetSampleMode \in GoodCalls /\ EnableDLPF \in GoodCalls
      /\ RawDataReadyOff \in GoodCalls /\ LoadDMPFirmware \in GoodCalls
      /\ WriteDMPmems \in GoodCalls /\ SetDMPstartAddress \in GoodCalls
  BY PeripheralsGood, PowerGood, FieldCallsGood, RawDataReadyOffGood,
     MemoryCallsGood, StartAddressGood
<1>7. SetGyroSF \in GoodCalls
  BY ReadOtherGood, CarefulGood DEF SetGyroSF, Others
<1> QED
  BY <1>1, <1>2, <1>3, <1>4, <1>5, <1>6, <1>7

LEMMA ClientGood == Client \in Seq(GoodCalls)
<1> DEFINE fifoOn == EnableFIFO(TRUE)
           dmpOn == EnableDMP(TRUE)
<1>1. fifoOn \in GoodCalls /\ dmpOn \in GoodCalls
  BY UserControlGood
<1>2. ResetFIFO \in GoodCalls
  BY ResetFIFOGood, CarefulGood DEF ResetFIFO
<1>3. Client = <<EnableDMPSensor, SetDMPODRrate, fifoOn, dmpOn, ResetDMP, ResetFIFO>>
  BY DEF Client
<1> HIDE DEF fifoOn, dmpOn
<1>4. /\ EnableDMPSensor \in GoodCalls /\ SetDMPODRrate \in GoodCalls
      /\ ResetDMP \in GoodCalls
  BY FieldCallsGood, MemoryCallsGood
<1> QED
  BY <1>1, <1>2, <1>3, <1>4

LEMMA ProgramFacts ==
  /\ Program \in Seq(Calls)
  /\ Len(Program) \in Nat /\ Len(Program) > 3 /\ Len(Begin) = 4
  /\ Program[1] = SwReset
  /\ \A c \in 2 .. Len(Program) : Program[c] \in GoodCalls
<1> DEFINE bi == Begin \o InitializeDMP
<1>0. \A x, y \in Seq(Calls) :
        /\ x \o y \in Seq(Calls) /\ Len(x \o y) = Len(x) + Len(y)
        /\ \A i \in 1 .. Len(x) : (x \o y)[i] = x[i]
        /\ \A i \in 1 .. Len(y) : (x \o y)[Len(x) + i] = y[i]
        /\ Len(x) \in Nat /\ Len(y) \in Nat
  BY ConcatParts, LenProperties
<1>1. /\ Begin \in Seq(Calls) /\ InitializeDMP \in Seq(Calls)
      /\ Client \in Seq(Calls)
  BY BeginFacts, InitializeDMPGood, ClientGood, GoodAreCalls
<1>2. /\ bi \in Seq(Calls) /\ Len(bi) = 4 + Len(InitializeDMP)
      /\ \A i \in 1 .. 4 : bi[i] = Begin[i]
      /\ \A i \in 1 .. Len(InitializeDMP) : bi[4 + i] = InitializeDMP[i]
      /\ Len(InitializeDMP) \in Nat
  <2>1. Len(Begin) = 4
    BY BeginFacts
  <2>2. /\ bi \in Seq(Calls) /\ Len(bi) = Len(Begin) + Len(InitializeDMP)
        /\ \A i \in 1 .. Len(Begin) : bi[i] = Begin[i]
        /\ \A i \in 1 .. Len(InitializeDMP) : bi[Len(Begin) + i] = InitializeDMP[i]
        /\ Len(InitializeDMP) \in Nat
    BY <1>0, <1>1
  <2> QED
    BY <2>1, <2>2
<1>3. Program = bi \o Client
  BY DEF Program
<1> HIDE DEF bi
<1>4. /\ Program \in Seq(Calls) /\ Len(Program) = Len(bi) + Len(Client)
      /\ \A i \in 1 .. Len(bi) : Program[i] = bi[i]
      /\ \A i \in 1 .. Len(Client) : Program[Len(bi) + i] = Client[i]
      /\ Len(Client) \in Nat /\ Len(bi) \in Nat
  BY <1>0, <1>1, <1>2, <1>3
<1>5. Program[1] = SwReset
  BY <1>2, <1>4, BeginFacts
<1>6. ASSUME NEW c \in 2 .. Len(Program)
      PROVE  Program[c] \in GoodCalls
  <2>1. CASE c \in 2 .. 4
    BY <1>2, <1>4, <2>1, BeginFacts
  <2>2. CASE c \in 5 .. Len(bi)
    <3>1. c - 4 \in 1 .. Len(InitializeDMP) /\ 4 + (c - 4) = c
      BY <1>2, <2>2
    <3>2. bi[4 + (c - 4)] = InitializeDMP[c - 4]
      BY <1>2, <3>1
    <3>3. InitializeDMP[c - 4] \in GoodCalls
      BY <3>1, InitializeDMPGood, ElementOfSeq
    <3>4. Program[c] = bi[c]
      BY <1>4, <2>2
    <3> QED
      BY <3>1, <3>2, <3>3, <3>4
  <2>3. CASE c > Len(bi)
    <3>1. c - Len(bi) \in 1 .. Len(Client) /\ Len(bi) + (c - Len(bi)) = c
      BY <1>4, <2>3
    <3>2. Program[Len(bi) + (c - Len(bi))] = Client[c - Len(bi)]
      BY <1>4, <3>1
    <3>3. Client[c - Len(bi)] \in GoodCalls
      BY <3>1, ClientGood, ElementOfSeq
    <3> QED
      BY <3>1, <3>2, <3>3
  <2> QED
    BY <1>2, <1>4, <2>1, <2>2, <2>3
<1> QED
  BY <1>2, <1>4, <1>5, <1>6, BeginFacts

-----------------------------------------------------------------------------
(* Facts about one transaction of a call. *)
LEMMA StepFacts ==
  ASSUME NEW c \in 1 .. Len(Program)
  PROVE  /\ Program[c] \in Calls /\ Program[c].careful \in BOOLEAN
         /\ Program[c].steps \in Seq(Transactions)
         /\ Len(Program[c].steps) \in Nat /\ Len(Program[c].steps) > 0
         /\ DOMAIN Program[c].steps = 1 .. Len(Program[c].steps)
         /\ \A i \in 1 .. Len(Program[c].steps) :
              Program[c].steps[i] \in Transactions
<1>1. Program[c] \in Calls
  BY ProgramFacts, ElementOfSeq
<1>2. Program[c].steps \in Seq(Transactions) /\ Program[c].careful \in BOOLEAN
  BY <1>1 DEF Calls
<1>3. /\ Len(Program[c].steps) \in Nat
      /\ DOMAIN Program[c].steps = 1 .. Len(Program[c].steps)
      /\ \A i \in 1 .. Len(Program[c].steps) :
           Program[c].steps[i] \in Transactions
  BY <1>2, LenProperties, ElementOfSeq
<1>4. Len(Program[c].steps) > 0
  <2>1. CASE c = 1
    BY <2>1, ProgramFacts, SwResetFacts
  <2>2. CASE c # 1
    <3>1. c \in 2 .. Len(Program)
      BY <2>2, ProgramFacts
    <3>2. Program[c] \in GoodCalls
      BY <3>1, ProgramFacts
    <3> QED
      BY <3>2 DEF GoodCalls, Good
  <2> QED
    BY <2>1, <2>2
<1> QED
  BY <1>1, <1>2, <1>3, <1>4

LEMMA LaterStepFacts ==
  ASSUME NEW c \in 2 .. Len(Program), NEW i \in 1 .. Len(Program[c].steps)
  PROVE  GoodAt(Program[c].steps, i, Program[c].careful)
<1>1. Program[c] \in GoodCalls
  BY ProgramFacts
<1> QED
  BY <1>1 DEF GoodCalls, Good

About(c, i, r, b) ==
  /\ Program[c].steps[i].op = "write" /\ Program[c].steps[i].reg = r
  /\ b \in Program[c].steps[i].mask

LEMMA WritesToAre ==
  ASSUME NEW r, NEW b, NEW p
  PROVE  p \in WritesTo(r, b) <=>
           \E c \in 2 .. Len(Program) : \E i \in 1 .. Len(Program[c].steps) :
             p = <<c, i>> /\ About(c, i, r, b)
<1>1. \A c \in 2 .. Len(Program) :
        DOMAIN Program[c].steps = 1 .. Len(Program[c].steps)
  BY StepFacts, ProgramFacts
<1>2. p \in WritesTo(r, b) <=>
        \E c \in 2 .. Len(Program) : \E i \in DOMAIN Program[c].steps :
          p = <<c, i>> /\ About(c, i, r, b)
  BY DEF WritesTo, About
<1> QED
  BY <1>1, <1>2

(* The writes about a bit up to a transaction. *)
UpTo(r, b, c, i) == {p \in WritesTo(r, b) : Precedes(p, <<c, i>>)}

LEMMA UpToIs ==
  ASSUME NEW r, NEW b, NEW c \in Int, NEW i \in Int, NEW p
  PROVE  p \in UpTo(r, b, c, i) <=>
           \E d \in 2 .. Len(Program) : \E j \in 1 .. Len(Program[d].steps) :
             /\ p = <<d, j>> /\ About(d, j, r, b)
             /\ d < c \/ (d = c /\ j < i)
<1>1. \A d, j : Precedes(<<d, j>>, <<c, i>>) <=> (d < c \/ (d = c /\ j < i))
  BY DEF Precedes
<1> QED
  BY <1>1, WritesToAre DEF UpTo

LEMMA FirstUpTo ==
  ASSUME NEW r, NEW b
  PROVE  UpTo(r, b, 2, 1) = {}
<1>1. \A d \in 2 .. Len(Program) : \A j \in 1 .. Len(Program[d].steps) :
        ~(d < 2 \/ (d = 2 /\ j < 1))
  BY ProgramFacts, StepFacts
<1>2. \A p : p \notin UpTo(r, b, 2, 1)
  BY <1>1, UpToIs
<1> QED
  BY <1>2

LEMMA NextUpTo ==
  ASSUME NEW r, NEW b, NEW c \in 2 .. Len(Program),
         NEW i \in 1 .. Len(Program[c].steps)
  PROVE  UpTo(r, b, c, i + 1) =
           UpTo(r, b, c, i) \cup (IF About(c, i, r, b) THEN {<<c, i>>} ELSE {})
<1>1. c \in Int /\ i \in Int /\ i + 1 \in Int
  BY ProgramFacts, StepFacts
<1>2. \A d \in 2 .. Len(Program) : \A j \in 1 .. Len(Program[d].steps) :
        (d < c \/ (d = c /\ j < i + 1)) <=>
          (d < c \/ (d = c /\ j < i)) \/ (d = c /\ j = i)
  BY <1>1, ProgramFacts, StepFacts
<1>3. ASSUME NEW p
      PROVE  p \in UpTo(r, b, c, i + 1) <=>
               p \in UpTo(r, b, c, i) \/ (p = <<c, i>> /\ About(c, i, r, b))
  <2>1. p \in UpTo(r, b, c, i + 1) <=>
          \E d \in 2 .. Len(Program) : \E j \in 1 .. Len(Program[d].steps) :
            /\ p = <<d, j>> /\ About(d, j, r, b)
            /\ d < c \/ (d = c /\ j < i + 1)
    BY <1>1, UpToIs
  <2>2. p \in UpTo(r, b, c, i) <=>
          \E d \in 2 .. Len(Program) : \E j \in 1 .. Len(Program[d].steps) :
            /\ p = <<d, j>> /\ About(d, j, r, b)
            /\ d < c \/ (d = c /\ j < i)
    BY <1>1, UpToIs
  <2> QED
    BY <1>2, <2>1, <2>2
<1> QED
  BY <1>3

LEMMA TurnUpTo ==
  ASSUME NEW r, NEW b, NEW c \in 2 .. Len(Program)
  PROVE  UpTo(r, b, c, Len(Program[c].steps) + 1) = UpTo(r, b, c + 1, 1)
<1> DEFINE n == Len(Program[c].steps)
<1>1. c \in Int /\ c + 1 \in Int /\ n + 1 \in Int
  BY ProgramFacts, StepFacts
<1>2. \A d \in 2 .. Len(Program) : \A j \in 1 .. Len(Program[d].steps) :
        (d < c \/ (d = c /\ j < n + 1)) <=> (d < c + 1 \/ (d = c + 1 /\ j < 1))
  BY <1>1, ProgramFacts, StepFacts
<1>3. ASSUME NEW p
      PROVE  p \in UpTo(r, b, c, n + 1) <=> p \in UpTo(r, b, c + 1, 1)
  <2>1. p \in UpTo(r, b, c, n + 1) <=>
          \E d \in 2 .. Len(Program) : \E j \in 1 .. Len(Program[d].steps) :
            /\ p = <<d, j>> /\ About(d, j, r, b)
            /\ d < c \/ (d = c /\ j < n + 1)
    BY <1>1, UpToIs
  <2>2. p \in UpTo(r, b, c + 1, 1) <=>
          \E d \in 2 .. Len(Program) : \E j \in 1 .. Len(Program[d].steps) :
            /\ p = <<d, j>> /\ About(d, j, r, b)
            /\ d < c + 1 \/ (d = c + 1 /\ j < 1)
    BY <1>1, UpToIs
  <2> QED
    BY <1>2, <2>1, <2>2
<1> QED
  BY <1>3

-----------------------------------------------------------------------------
(* The registers as they are meant to be, from one transaction to the next. *)
LEMMA ConfiguredIs ==
  ASSUME NEW c, NEW i
  PROVE  /\ ConfiguredAt(c, i) \in [Registers -> Byte]
         /\ \A r \in Registers, b \in Bit :
              b \in ConfiguredAt(c, i)[r] <=> AskedFor(UpTo(r, b, c, i), r, b)
BY DEF ConfiguredAt, UpTo, Byte

LEMMA SameRegisters ==
  ASSUME NEW f \in [Registers -> Byte], NEW g \in [Registers -> Byte],
         \A r \in Registers, b \in Bit : b \in f[r] <=> b \in g[r]
  PROVE  f = g
<1>1. ASSUME NEW r \in Registers
      PROVE  f[r] = g[r]
  <2>1. f[r] \subseteq Bit /\ g[r] \subseteq Bit
    BY DEF Byte
  <2> QED
    BY <2>1
<1> QED
  BY <1>1

LEMMA DefaultType == Default \in [Registers -> Byte]
BY DEF Default, Byte, Bit

LEMMA ConfiguredFirst == ConfiguredAt(2, 1) = Default
<1>1. \A r \in Registers, b \in Bit :
        b \in ConfiguredAt(2, 1)[r] <=> AskedFor(UpTo(r, b, 2, 1), r, b)
  BY ConfiguredIs
<1>2. \A r \in Registers, b \in Bit : UpTo(r, b, 2, 1) = {}
  BY FirstUpTo
<1>3. \A r \in Registers, b \in Bit : AskedFor({}, r, b) <=> b \in Default[r]
  BY DEF AskedFor
<1>4. \A r \in Registers, b \in Bit :
        b \in ConfiguredAt(2, 1)[r] <=> b \in Default[r]
  BY <1>1, <1>2, <1>3
<1> QED
  BY <1>4, ConfiguredIs, DefaultType, SameRegisters

LEMMA ConfiguredTurn ==
  ASSUME NEW c \in 2 .. Len(Program)
  PROVE  ConfiguredAt(c, Len(Program[c].steps) + 1) = ConfiguredAt(c + 1, 1)
<1> DEFINE n == Len(Program[c].steps)
<1>1. \A r \in Registers, b \in Bit :
        b \in ConfiguredAt(c, n + 1)[r] <=> AskedFor(UpTo(r, b, c, n + 1), r, b)
  BY ConfiguredIs
<1>2. \A r \in Registers, b \in Bit :
        b \in ConfiguredAt(c + 1, 1)[r] <=> AskedFor(UpTo(r, b, c + 1, 1), r, b)
  BY ConfiguredIs
<1>3. \A r \in Registers, b \in Bit : UpTo(r, b, c, n + 1) = UpTo(r, b, c + 1, 1)
  BY TurnUpTo
<1>4. \A r \in Registers, b \in Bit :
        b \in ConfiguredAt(c, n + 1)[r] <=> b \in ConfiguredAt(c + 1, 1)[r]
  BY <1>1, <1>2, <1>3
<1> QED
  BY <1>4, ConfiguredIs, SameRegisters

(* A write decides the bits it is about, and no others.                    *)
LEMMA AskedNext ==
  ASSUME NEW r, NEW b, NEW c \in 2 .. Len(Program),
         NEW i \in 1 .. Len(Program[c].steps)
  PROVE  AskedFor(UpTo(r, b, c, i + 1), r, b) <=>
           IF About(c, i, r, b) THEN b \in Program[c].steps[i].bits
                                ELSE AskedFor(UpTo(r, b, c, i), r, b)
<1> DEFINE W == UpTo(r, b, c, i)
           V == UpTo(r, b, c, i + 1)
           p == <<c, i>>
<1>1. CASE ~About(c, i, r, b)
  <2>1. V = W \cup (IF About(c, i, r, b) THEN {p} ELSE {})
    BY NextUpTo
  <2>2. W \cup {} = W
    OBVIOUS
  <2>3. V = W
    BY <1>1, <2>1, <2>2
  <2> QED
    BY <1>1, <2>3
<1>2. CASE About(c, i, r, b)
  <2>1. V = W \cup {p}
    BY <1>2, NextUpTo
  <2>2. c \in Int /\ i \in Int
    BY ProgramFacts, StepFacts
  <2>3. \A q \in W : Precedes(q, p)
    BY DEF UpTo
  <2>4. \A q \in W : ~Precedes(p, q)
    <3>1. ASSUME NEW q \in W
          PROVE  ~Precedes(p, q)
      <4>1. PICK d \in 2 .. Len(Program) :
              \E j \in 1 .. Len(Program[d].steps) :
                q = <<d, j>> /\ (d < c \/ (d = c /\ j < i))
        BY <2>2, UpToIs
      <4>2. PICK j \in 1 .. Len(Program[d].steps) :
              q = <<d, j>> /\ (d < c \/ (d = c /\ j < i))
        BY <4>1
      <4>3. d \in Int /\ j \in Int
        BY ProgramFacts, StepFacts
      <4> QED
        BY <2>2, <4>2, <4>3 DEF Precedes
    <3> QED
      BY <3>1
  <2>5. ~Precedes(p, p)
    BY <2>2 DEF Precedes
  <2>6. Program[p[1]].steps[p[2]].bits = Program[c].steps[i].bits
    OBVIOUS
  <2> HIDE DEF W, V, p
  <2>7. AskedFor(V, r, b) <=>
          \E q \in V : /\ \A o \in V : ~Precedes(q, o)
                       /\ b \in Program[q[1]].steps[q[2]].bits
    BY <2>1 DEF AskedFor
  <2>8. \A q \in V : (\A o \in V : ~Precedes(q, o)) <=> q = p
    BY <2>1, <2>3, <2>4, <2>5
  <2>9. AskedFor(V, r, b) <=> b \in Program[c].steps[i].bits
    BY <2>1, <2>6, <2>7, <2>8
  <2> QED
    BY <1>2, <2>9 DEF V
<1> QED
  BY <1>1, <1>2

LEMMA ConfiguredNext ==
  ASSUME NEW c \in 2 .. Len(Program), NEW i \in 1 .. Len(Program[c].steps)
  PROVE  LET s == Program[c].steps[i]
             now == ConfiguredAt(c, i)
         IN ConfiguredAt(c, i + 1) =
              IF s.op = "write"
                THEN [now EXCEPT ![s.reg] = (now[s.reg] \ s.mask) \cup s.bits]
                ELSE now
<1> DEFINE s == Program[c].steps[i]
           now == ConfiguredAt(c, i)
           next == ConfiguredAt(c, i + 1)
<1>1. /\ s \in Transactions /\ s.reg \in Registers
      /\ s.op = "write" => s.bits \subseteq s.mask
      /\ s.bits \subseteq Bit
  <2>1. s \in Transactions
    BY ProgramFacts, StepFacts
  <2>2. s.op = "write" => s.bits \subseteq s.mask
    BY LaterStepFacts DEF GoodAt
  <2> QED
    BY <2>1, <2>2 DEF Transactions, Byte
<1>2. /\ now \in [Registers -> Byte] /\ next \in [Registers -> Byte]
  BY ConfiguredIs
<1>3. \A r \in Registers, b \in Bit :
        b \in next[r] <=> AskedFor(UpTo(r, b, c, i + 1), r, b)
  BY ConfiguredIs
<1>4. \A r \in Registers, b \in Bit :
        b \in now[r] <=> AskedFor(UpTo(r, b, c, i), r, b)
  BY ConfiguredIs
<1>5. \A r \in Registers, b \in Bit :
        b \in next[r] <=> IF About(c, i, r, b) THEN b \in s.bits ELSE b \in now[r]
  <2>1. ASSUME NEW r \in Registers, NEW b \in Bit
        PROVE  b \in next[r] <=>
                 IF About(c, i, r, b) THEN b \in s.bits ELSE b \in now[r]
    <3>1. AskedFor(UpTo(r, b, c, i + 1), r, b) <=>
            IF About(c, i, r, b) THEN b \in s.bits
                                 ELSE AskedFor(UpTo(r, b, c, i), r, b)
      BY AskedNext
    <3>2. b \in next[r] <=> AskedFor(UpTo(r, b, c, i + 1), r, b)
      BY <1>3
    <3>3. b \in now[r] <=> AskedFor(UpTo(r, b, c, i), r, b)
      BY <1>4
    <3> HIDE DEF s, now, next
    <3> QED
      BY <3>1, <3>2, <3>3
  <2> QED
    BY <2>1
<1>6. \A r \in Registers, b \in Bit :
        About(c, i, r, b) <=> s.op = "write" /\ s.reg = r /\ b \in s.mask
  BY DEF About
<1> HIDE DEF s, now, next
<1>7. CASE s.op # "write"
  <2>1. \A r \in Registers, b \in Bit : b \in next[r] <=> b \in now[r]
    BY <1>5, <1>6, <1>7
  <2>2. next = now
    BY <1>2, <2>1, SameRegisters
  <2> QED
    BY <1>7, <2>2 DEF s, now, next
<1>8. CASE s.op = "write"
  <2> DEFINE w == [now EXCEPT ![s.reg] = (now[s.reg] \ s.mask) \cup s.bits]
  <2>1. w \in [Registers -> Byte]
    <3>1. now[s.reg] \subseteq Bit
      BY <1>1, <1>2 DEF Byte
    <3>2. (now[s.reg] \ s.mask) \cup s.bits \in Byte
      BY <1>1, <3>1 DEF Byte
    <3> QED
      BY <1>1, <1>2, <3>2
  <2>2. ASSUME NEW r \in Registers, NEW b \in Bit
        PROVE  b \in next[r] <=> b \in w[r]
    <3>1. w[r] = IF r = s.reg THEN (now[r] \ s.mask) \cup s.bits ELSE now[r]
      BY <1>1, <1>2
    <3> HIDE DEF w
    <3>2. CASE r # s.reg
      BY <1>5, <1>6, <3>1, <3>2
    <3>3. CASE r = s.reg /\ b \in s.mask
      BY <1>5, <1>6, <1>8, <3>1, <3>3
    <3>4. CASE r = s.reg /\ b \notin s.mask
      BY <1>1, <1>5, <1>6, <1>8, <3>1, <3>4
    <3> QED
      BY <3>2, <3>3, <3>4
  <2>3. next = w
    BY <1>2, <2>1, <2>2, SameRegisters
  <2> QED
    BY <1>8, <2>3 DEF s, now, next
<1> QED
  BY <1>7, <1>8

-----------------------------------------------------------------------------
(* The fields a call is about. *)
LEMMA FieldsAre ==
  /\ \A r : Fields(1, r) = Bit
  /\ \A c \in 2 .. Len(Program) : \A i \in 1 .. Len(Program[c].steps) :
       Program[c].steps[i].op = "write" =>
         Program[c].steps[i].mask \subseteq Fields(c, Program[c].steps[i].reg)
<1>1. \A r : Fields(1, r) = Bit
  BY DEF Fields
<1>2. ASSUME NEW c \in 2 .. Len(Program), NEW i \in 1 .. Len(Program[c].steps),
             Program[c].steps[i].op = "write"
      PROVE  Program[c].steps[i].mask \subseteq Fields(c, Program[c].steps[i].reg)
  <2> DEFINE s == Program[c].steps[i]
  <2>1. c # 1 /\ s \in ToSet(Program[c].steps)
    BY ProgramFacts, StepFacts DEF ToSet
  <2>2. Fields(c, s.reg) =
          UNION {x.mask : x \in {x \in ToSet(Program[c].steps) :
                                   x.op = "write" /\ x.reg = s.reg}}
    BY <2>1 DEF Fields
  <2> HIDE DEF s
  <2>3. s.op = "write"
    BY <1>2 DEF s
  <2>4. s.mask \subseteq Fields(c, s.reg)
    BY <2>1, <2>2, <2>3
  <2> QED
    BY <2>4 DEF s
<1> QED
  BY <1>1, <1>2

(* What is known of the transaction that is next.                          *)
LEMMA NowFacts ==
  ASSUME ImuInv, pc = "call"
  PROVE  /\ call \in 1 .. Len(Program) /\ call \in Nat
         /\ step \in 1 .. Len(Program[call].steps) /\ step \in Nat
         /\ Len(Program[call].steps) \in Nat
         /\ Now = Program[call].steps[step] /\ Now.op \in Ops
         /\ Now.reg \in Registers /\ Now.mask \in Byte /\ Now.bits \in Byte
         /\ Merged \in Byte
         /\ Program[call].careful \in BOOLEAN
<1>1. call \in 1 .. Len(Program) /\ step \in 1 .. Len(Program[call].steps) + 1
  BY DEF ImuInv, TypeOK
<1>2. /\ Len(Program[call].steps) \in Nat /\ Program[call].careful \in BOOLEAN
      /\ \A i \in 1 .. Len(Program[call].steps) :
           Program[call].steps[i] \in Transactions
  BY <1>1, StepFacts
<1>3. step <= Len(Program[call].steps)
  BY DEF ImuInv, StepInv
<1>4. step \in 1 .. Len(Program[call].steps) /\ call \in Nat /\ step \in Nat
  BY <1>1, <1>2, <1>3, ProgramFacts
<1>5. Now = Program[call].steps[step] /\ Now \in Transactions
  BY <1>2, <1>4 DEF Now
<1>6. /\ Now.op \in Ops /\ Now.reg \in Registers
      /\ Now.mask \in Byte /\ Now.bits \in Byte
  BY <1>5 DEF Transactions
<1>7. local[Now.reg] \in Byte
  BY <1>6 DEF ImuInv, TypeOK
<1>8. Merged \in Byte
  BY <1>6, <1>7 DEF Merged, Byte
<1> QED
  BY <1>1, <1>2, <1>4, <1>5, <1>6, <1>8

LEMMA NowLater ==
  ASSUME ImuInv, pc = "call", call # 1
  PROVE  /\ call \in 2 .. Len(Program)
         /\ Now.op = "write" =>
              /\ Now.bits \subseteq Now.mask
              /\ Now.mask = Bit \/ HasRead(Now.reg)
              /\ Now.reg = PWR_MGMT_1 => 7 \notin Now.bits
              /\ Now.mask \subseteq Fields(call, Now.reg)
         /\ Now.op = "read" /\ ~Program[call].careful => Now.reg # PWR_MGMT_1
         /\ Now.op \in {"other", "late", "ignored"} => Merged = local[Now.reg]
<1>1. call \in 2 .. Len(Program) /\ step \in 1 .. Len(Program[call].steps)
  BY NowFacts, ProgramFacts
<1>2. GoodAt(Program[call].steps, step, Program[call].careful)
  BY <1>1, LaterStepFacts
<1>3. Now = Program[call].steps[step]
  BY DEF Now
<1>4. Now.op = "write" =>
        /\ Now.bits \subseteq Now.mask
        /\ Now.mask = Bit \/ HasRead(Now.reg)
        /\ Now.reg = PWR_MGMT_1 => 7 \notin Now.bits
  BY <1>2, <1>3 DEF GoodAt, HasRead
<1>5. /\ Now.op = "read" /\ ~Program[call].careful => Now.reg # PWR_MGMT_1
      /\ Now.op \in {"other", "late", "ignored"} => Now.mask = {} /\ Now.bits = {}
  BY <1>2, <1>3 DEF GoodAt
<1>6. Now.op = "write" => Now.mask \subseteq Fields(call, Now.reg)
  BY <1>1, <1>3, FieldsAre
<1>7. Now.op \in {"other", "late", "ignored"} => Merged = local[Now.reg]
  BY <1>5 DEF Merged
<1> QED
  BY <1>1, <1>4, <1>5, <1>6, <1>7

LEMMA NowFirst ==
  ASSUME ImuInv, pc = "call", call = 1
  PROVE  /\ Program[call].careful = TRUE /\ Len(Program[call].steps) = 2
         /\ step = 1 => Now.op = "read"
         /\ step = 2 => Now.op = "write" /\ Now.reg = PWR_MGMT_1 /\ 7 \in Merged
         /\ step \in {1, 2}
<1>1. Program[call] = SwReset
  BY ProgramFacts
<1>2. step \in {1, 2}
  BY <1>1, NowFacts, SwResetFacts
<1>3. step = 1 => Now = Read(PWR_MGMT_1)
  BY <1>1, SwResetFacts DEF Now
<1>4. step = 2 => Now = Write(PWR_MGMT_1, Bit, {0, 7})
  BY <1>1, SwResetFacts DEF Now
<1>5. step = 2 => Now.op = "write" /\ Now.reg = PWR_MGMT_1 /\ Now.bits = {0, 7}
  BY <1>4 DEF Write
<1>6. step = 2 => 7 \in Merged
  BY <1>5 DEF Merged
<1>7. step = 1 => Now.op = "read"
  BY <1>3 DEF Read
<1> QED
  BY <1>1, <1>2, <1>5, <1>6, <1>7, SwResetFacts

LEMMA HasReadNext ==
  ASSUME step \in Nat \ {0}, step' = step + 1, call' = call, NEW r
  PROVE  HasRead(r)' <=> HasRead(r) \/ (Now.op = "read" /\ Now.reg = r)
<1>1. 1 .. step' - 1 = (1 .. step - 1) \cup {step}
  OBVIOUS
<1>2. Now = Program[call].steps[step]
  BY DEF Now
<1> QED
  BY <1>1, <1>2 DEF HasRead

(* What a write does, whether it is reported to have worked or not.        *)
LEMMA WriteEffects ==
  ASSUME ImuInv, pc = "call", Now.op = "write",
         NEW after, after = Written(regs, Now.reg, Merged)
  PROVE  /\ after \in [Registers -> Byte]
         /\ call = 1 => step = 2 /\ after = Default
         /\ call > 1 => /\ after = [regs EXCEPT ![Now.reg] = Merged]
                        /\ 7 \notin after[PWR_MGMT_1]
                        /\ Now.reg = PWR_MGMT_1 => 7 \notin Merged
<1>1. /\ regs \in [Registers -> Byte] /\ local \in [Registers -> Byte]
      /\ call \in 1 .. Len(Program)
  BY DEF ImuInv, TypeOK
<1>2. Now.reg \in Registers /\ Merged \in Byte /\ call \in Nat
  BY NowFacts
<1>3. after = IF Now.reg = PWR_MGMT_1 /\ 7 \in Merged
                THEN Default ELSE [regs EXCEPT ![Now.reg] = Merged]
  BY DEF Written
<1>4. after \in [Registers -> Byte]
  BY <1>1, <1>2, <1>3, DefaultType
<1>5. ASSUME call = 1
      PROVE  step = 2 /\ after = Default
  <2>1. step = 2
    BY <1>5, NowFirst
  <2>2. Now.reg = PWR_MGMT_1 /\ 7 \in Merged
    BY <1>5, <2>1, NowFirst
  <2> QED
    BY <1>3, <2>1, <2>2
<1>6. ASSUME call > 1
      PROVE  /\ after = [regs EXCEPT ![Now.reg] = Merged]
             /\ 7 \notin after[PWR_MGMT_1]
             /\ Now.reg = PWR_MGMT_1 => 7 \notin Merged
  <2>1. 7 \notin regs[PWR_MGMT_1] /\ 7 \notin local[PWR_MGMT_1]
    BY <1>6 DEF ImuInv, ResetInv
  <2>2. Now.reg = PWR_MGMT_1 => 7 \notin Now.bits
    BY <1>2, <1>6, NowLater
  <2>3. Now.reg = PWR_MGMT_1 => 7 \notin Merged
    BY <2>1, <2>2 DEF Merged
  <2>4. after = [regs EXCEPT ![Now.reg] = Merged]
    BY <1>3, <2>3
  <2>5. 7 \notin after[PWR_MGMT_1]
    BY <1>1, <1>2, <2>1, <2>3, <2>4, OtherRegisters
  <2> QED
    BY <2>3, <2>4, <2>5
<1> QED
  BY <1>4, <1>5, <1>6

(* A write, and the local it is taken from, keep the fields the call is    *)
(* not about.                                                              *)
LEMMA WriteKeeps ==
  ASSUME ImuInv, pc = "call", Now.op = "write",
         Program[call].careful \/ result = "Ok",
         NEW after, after = Written(regs, Now.reg, Merged)
  PROVE  /\ \A r \in Registers :
              after[r] \ Fields(call, r) = before[r] \ Fields(call, r)
         /\ Merged \ Fields(call, Now.reg) = before[Now.reg] \ Fields(call, Now.reg)
<1>1. /\ regs \in [Registers -> Byte] /\ before \in [Registers -> Byte]
      /\ call \in 1 .. Len(Program)
  BY DEF ImuInv, TypeOK
<1>2. /\ Now.reg \in Registers /\ Merged \in Byte /\ call \in Nat
      /\ after \in [Registers -> Byte]
  BY NowFacts, WriteEffects
<1>3. CASE call = 1
  <2>1. \A r : Fields(call, r) = Bit
    BY <1>3, FieldsAre
  <2>2. \A r \in Registers : after[r] \subseteq Bit /\ before[r] \subseteq Bit
    BY <1>1, <1>2 DEF Byte
  <2>3. Merged \subseteq Bit
    BY <1>2 DEF Byte
  <2> QED
    BY <1>2, <2>1, <2>2, <2>3
<1>4. CASE call # 1
  <2> DEFINE r == Now.reg
             F == Fields(call, r)
  <2>1. /\ Now.bits \subseteq Now.mask /\ Now.mask \subseteq F
        /\ Now.mask = Bit \/ HasRead(r)
    BY <1>4, NowLater
  <2>2. Merged = (local[r] \ Now.mask) \cup Now.bits
    BY DEF Merged
  <2>3. /\ \A x \in Registers :
             regs[x] \ Fields(call, x) = before[x] \ Fields(call, x)
        /\ HasRead(r) => local[r] \ F = before[r] \ F
    BY <1>2 DEF ImuInv, KeepInv, OthersKept
  <2>4. Merged \ F = before[r] \ F
    <3>1. CASE HasRead(r)
      <4>1. Merged \ F = local[r] \ F
        BY <2>1, <2>2
      <4> QED
        BY <2>3, <3>1, <4>1
    <3>2. CASE Now.mask = Bit
      <4>1. Bit \subseteq F
        BY <2>1, <3>2
      <4>2. Merged \subseteq Bit /\ before[r] \subseteq Bit
        BY <1>1, <1>2 DEF Byte
      <4> QED
        BY <4>1, <4>2
    <3> QED
      BY <2>1, <3>1, <3>2
  <2>5. after = [regs EXCEPT ![r] = Merged]
    <3>1. call > 1
      BY <1>1, <1>2, <1>4, ProgramFacts
    <3> QED
      BY <3>1, WriteEffects
  <2>6. ASSUME NEW x \in Registers
        PROVE  after[x] \ Fields(call, x) = before[x] \ Fields(call, x)
    <3>1. CASE x = r
      BY <1>1, <1>2, <2>4, <2>5, <3>1
    <3>2. CASE x # r
      BY <1>1, <1>2, <2>3, <2>5, <3>2
    <3> QED
      BY <3>1, <3>2
  <2> QED
    BY <2>4, <2>6
<1> QED
  BY <1>3, <1>4

(* As long as nothing has failed, a write does what was asked for.         *)
LEMMA WriteConfigures ==
  ASSUME ImuInv, pc = "call", Now.op = "write", success, result = "Ok", call > 1,
         NEW after, after = Written(regs, Now.reg, Merged)
  PROVE  after = ConfiguredAt(call, step + 1) /\ Merged = after[Now.reg]
<1>1. /\ regs \in [Registers -> Byte] /\ local \in [Registers -> Byte]
  BY DEF ImuInv, TypeOK
<1>2. /\ Now.reg \in Registers /\ Merged \in Byte
      /\ call \in 2 .. Len(Program) /\ step \in 1 .. Len(Program[call].steps)
      /\ Now = Program[call].steps[step]
  BY NowFacts
<1>3. /\ regs = ConfiguredAt(call, step)
      /\ \A r \in Registers : HasRead(r) => local[r] = regs[r]
  BY DEF ImuInv, ConfigInv
<1>4. after = [regs EXCEPT ![Now.reg] = Merged]
  BY WriteEffects
<1>5. Merged = (regs[Now.reg] \ Now.mask) \cup Now.bits
  <2>1. Merged = (local[Now.reg] \ Now.mask) \cup Now.bits
    BY DEF Merged
  <2>2. Now.mask = Bit \/ HasRead(Now.reg)
    BY <1>2, NowLater, ProgramFacts
  <2>3. CASE HasRead(Now.reg)
    BY <1>2, <1>3, <2>1, <2>3
  <2>4. CASE Now.mask = Bit
    <3>1. local[Now.reg] \subseteq Bit /\ regs[Now.reg] \subseteq Bit
      BY <1>1, <1>2 DEF Byte
    <3> QED
      BY <2>1, <2>4, <3>1
  <2> QED
    BY <2>2, <2>3, <2>4
<1>6. ConfiguredAt(call, step + 1) =
        [regs EXCEPT ![Now.reg] = (regs[Now.reg] \ Now.mask) \cup Now.bits]
  BY <1>2, <1>3, ConfiguredNext
<1> QED
  BY <1>1, <1>2, <1>4, <1>5, <1>6

-----------------------------------------------------------------------------
(* The next transaction of the call: what Works and Fails share.           *)
LEMMA AdvanceSteps ==
  ASSUME ImuInv, pc = "call", Advance, call' = call
  PROVE  /\ step' = step + 1
         /\ step' \in 1 .. Len(Program[call'].steps) + 1
         /\ pc' \in {"call", "returned"}
         /\ pc' = "call" => step' <= Len(Program[call].steps)
         /\ pc' = "returned" => step' = Len(Program[call].steps) + 1
         /\ step \in Nat \ {0}
BY NowFacts DEF Advance, AtLastStep

LEMMA WorksKeepsInv ==
  ASSUME ImuInv, Works
  PROVE  ImuInv'
<1>1. /\ pc = "call" /\ Advance
      /\ UNCHANGED <<call, success, before, faults>>
      /\ Now.op = "read" => /\ local' = [local EXCEPT ![Now.reg] = regs[Now.reg]]
                            /\ regs' = regs
      /\ Now.op = "write" => /\ regs' = Written(regs, Now.reg, Merged)
                             /\ local' = [local EXCEPT ![Now.reg] = Merged]
      /\ Now.op \notin {"read", "write"} => regs' = regs /\ local' = local
      /\ result' \in {result, "Err"}
  BY DEF Works
<1>2. /\ step' = step + 1 /\ step \in Nat \ {0}
      /\ step' \in 1 .. Len(Program[call'].steps) + 1
      /\ pc' \in {"call", "returned"}
      /\ pc' = "call" => step' <= Len(Program[call].steps)
      /\ pc' = "returned" => step' = Len(Program[call].steps) + 1
  BY <1>1, AdvanceSteps
<1>3. /\ TypeOK /\ StepInv /\ ResetInv /\ KeepInv /\ ConfigInv
  BY DEF ImuInv
<1>4. /\ regs \in [Registers -> Byte] /\ local \in [Registers -> Byte]
      /\ before \in [Registers -> Byte]
      /\ call \in 1 .. Len(Program) /\ result \in {"Ok", "Err"}
      /\ success \in BOOLEAN /\ faults \in 0 .. MaxFaults
  BY <1>3 DEF TypeOK
<1>5. /\ Now.reg \in Registers /\ Merged \in Byte /\ call \in Nat
      /\ Program[call].careful \in BOOLEAN /\ Now.op \in Ops
  BY <1>1, NowFacts
<1>6. \A r \in Registers :
        HasRead(r)' <=> HasRead(r) \/ (Now.op = "read" /\ Now.reg = r)
  BY <1>1, <1>2, HasReadNext
<1>7. TypeOK'
  <2>1. regs' \in [Registers -> Byte]
    BY <1>1, <1>4, WriteEffects
  <2>2. local' \in [Registers -> Byte]
    <3>1. regs[Now.reg] \in Byte
      BY <1>4, <1>5
    <3> QED
      BY <1>1, <1>4, <1>5, <3>1
  <2>3. result' \in {"Ok", "Err"}
    BY <1>1, <1>4
  <2> QED
    BY <1>1, <1>2, <1>4, <2>1, <2>2, <2>3 DEF TypeOK
<1>8. StepInv'
  BY <1>1, <1>2 DEF StepInv
<1>9. ResetInv'
  <2>1. ASSUME call' = 1, step' = 3
        PROVE  regs' = Default
    <3>1. call = 1 /\ step = 2
      BY <1>1, <1>2, <2>1
    <3>2. Now.op = "write"
      BY <1>1, <3>1, NowFirst
    <3> QED
      BY <1>1, <3>1, <3>2, WriteEffects
  <2>2. ASSUME call' > 1
        PROVE  7 \notin regs'[PWR_MGMT_1] /\ 7 \notin local'[PWR_MGMT_1]
    <3>1. call > 1 /\ 7 \notin regs[PWR_MGMT_1] /\ 7 \notin local[PWR_MGMT_1]
      BY <1>1, <1>3, <2>2 DEF ResetInv
    <3>2. CASE Now.op = "read"
      BY <1>1, <1>4, <1>5, <3>1, <3>2, OtherRegisters
    <3>3. CASE Now.op = "write"
      <4>1. 7 \notin regs'[PWR_MGMT_1] /\ (Now.reg = PWR_MGMT_1 => 7 \notin Merged)
        BY <1>1, <3>1, <3>3, WriteEffects
      <4> QED
        BY <1>1, <1>4, <1>5, <3>1, <3>3, <4>1, OtherRegisters
    <3>4. CASE Now.op \notin {"read", "write"}
      BY <1>1, <3>1, <3>4
    <3> QED
      BY <3>2, <3>3, <3>4
  <2> QED
    BY <2>1, <2>2 DEF ResetInv
<1>10. KeepInv'
  <2> SUFFICES ASSUME Program[call'].careful \/ result' = "Ok"
               PROVE  /\ OthersKept'
                      /\ \A r \in Registers :
                           HasRead(r)' => local'[r] \ Fields(call', r)
                                            = before'[r] \ Fields(call', r)
    BY DEF KeepInv
  <2>1. Program[call].careful \/ result = "Ok"
    BY <1>1, <1>4
  <2>2. /\ \A r \in Registers :
             regs[r] \ Fields(call, r) = before[r] \ Fields(call, r)
        /\ \A r \in Registers :
             HasRead(r) => local[r] \ Fields(call, r) = before[r] \ Fields(call, r)
    BY <1>1, <1>3, <2>1 DEF KeepInv, OthersKept
  <2>3. \A r \in Registers :
          regs'[r] \ Fields(call, r) = before[r] \ Fields(call, r)
    <3>1. CASE Now.op = "write"
      BY <1>1, <2>1, <3>1, WriteKeeps
    <3>2. CASE Now.op # "write"
      BY <1>1, <2>2, <3>2
    <3> QED
      BY <3>1, <3>2
  <2>4. ASSUME NEW r \in Registers, HasRead(r)'
        PROVE  local'[r] \ Fields(call, r) = before[r] \ Fields(call, r)
    <3>1. CASE Now.op = "write"
      <4>1. Merged \ Fields(call, Now.reg)
              = before[Now.reg] \ Fields(call, Now.reg)
        BY <1>1, <2>1, <3>1, WriteKeeps
      <4>2. HasRead(r)
        BY <1>6, <2>4, <3>1
      <4> QED
        BY <1>1, <1>4, <1>5, <2>2, <3>1, <4>1, <4>2
    <3>2. CASE Now.op = "read"
      BY <1>1, <1>4, <1>5, <1>6, <2>2, <2>4, <3>2
    <3>3. CASE Now.op \notin {"read", "write"}
      BY <1>1, <1>6, <2>2, <2>4, <3>3
    <3> QED
      BY <3>1, <3>2, <3>3
  <2> QED
    BY <1>1, <2>3, <2>4 DEF OthersKept
<1>11. ConfigInv'
  <2>1. ASSUME success', result' = "Ok", call' > 1
        PROVE  /\ regs' = ConfiguredAt(call', step')
               /\ \A r \in Registers : HasRead(r)' => local'[r] = regs'[r]
    <3>1. success /\ result = "Ok" /\ call > 1
      BY <1>1, <1>4, <2>1
    <3>2. /\ regs = ConfiguredAt(call, step)
          /\ \A r \in Registers : HasRead(r) => local[r] = regs[r]
      BY <1>1, <1>3, <3>1 DEF ConfigInv
    <3>3. CASE Now.op = "write"
      <4>1. regs' = ConfiguredAt(call, step + 1) /\ Merged = regs'[Now.reg]
        BY <1>1, <3>1, <3>3, WriteConfigures
      <4>2. regs' = [regs EXCEPT ![Now.reg] = Merged]
        BY <1>1, <3>1, <3>3, WriteEffects
      <4>3. \A r \in Registers : HasRead(r)' => local'[r] = regs'[r]
        BY <1>1, <1>4, <1>5, <1>6, <3>2, <3>3, <4>2
      <4> QED
        BY <1>1, <1>2, <4>1, <4>3
    <3>4. CASE Now.op # "write"
      <4>1. /\ Now = Program[call].steps[step] /\ call \in 2 .. Len(Program)
            /\ step \in 1 .. Len(Program[call].steps)
        BY <1>1, <3>1, NowFacts
      <4>2. ConfiguredAt(call, step + 1) = ConfiguredAt(call, step)
        BY <3>4, <4>1, ConfiguredNext
      <4>3. \A r \in Registers : HasRead(r)' => local'[r] = regs'[r]
        <5>1. CASE Now.op = "read"
          BY <1>1, <1>4, <1>5, <1>6, <3>2, <5>1
        <5>2. CASE Now.op # "read"
          BY <1>1, <1>6, <3>2, <3>4, <5>2
        <5> QED
          BY <5>1, <5>2
      <4>4. regs' = regs
        BY <1>1, <3>4
      <4> QED
        BY <1>1, <1>2, <3>2, <4>2, <4>3, <4>4
    <3> QED
      BY <3>3, <3>4
  <2> QED
    BY <1>2, <2>1 DEF ConfigInv
<1> QED
  BY <1>7, <1>8, <1>9, <1>10, <1>11 DEF ImuInv

(* A failure that stops the call: of what the invariant says of a call     *)
(* only what holds whatever its result remains to be shown.                *)
LEMMA StopsKeepsInv ==
  ASSUME ImuInv, pc = "call", Program[call].careful, pc' = "returned",
         UNCHANGED <<step, local, call, success, before>>,
         result' = "Err", faults' \in 0 .. MaxFaults,
         \/ Now.op = "write" /\ regs' = Written(regs, Now.reg, Merged)
         \/ regs' = regs
  PROVE  ImuInv'
<1>1. /\ TypeOK /\ ResetInv /\ KeepInv
  BY DEF ImuInv
<1>2. /\ regs \in [Registers -> Byte] /\ local \in [Registers -> Byte]
      /\ before \in [Registers -> Byte] /\ success \in BOOLEAN
      /\ call \in 1 .. Len(Program)
      /\ step \in 1 .. Len(Program[call].steps) + 1
  BY <1>1 DEF TypeOK
<1>3. TypeOK'
  <2>1. regs' \in [Registers -> Byte]
    BY <1>2, WriteEffects
  <2> QED
    BY <1>2, <2>1 DEF TypeOK
<1>4. StepInv'
  BY DEF StepInv
<1>5. ResetInv'
  <2>1. ASSUME call' > 1
        PROVE  7 \notin regs'[PWR_MGMT_1] /\ 7 \notin local'[PWR_MGMT_1]
    <3>1. call > 1
      BY <2>1
    <3>2. 7 \notin regs[PWR_MGMT_1] /\ 7 \notin local[PWR_MGMT_1]
      BY <1>1, <3>1 DEF ResetInv
    <3>3. 7 \notin regs'[PWR_MGMT_1]
      BY <3>1, <3>2, WriteEffects
    <3> QED
      BY <3>2, <3>3
  <2> QED
    BY <2>1 DEF ResetInv
<1>6. KeepInv'
  <2>1. /\ \A r \in Registers :
             regs[r] \ Fields(call, r) = before[r] \ Fields(call, r)
        /\ \A r \in Registers :
             HasRead(r) => local[r] \ Fields(call, r) = before[r] \ Fields(call, r)
    BY <1>1 DEF KeepInv, OthersKept
  <2>2. \A r \in Registers :
          regs'[r] \ Fields(call, r) = before[r] \ Fields(call, r)
    BY <2>1, WriteKeeps
  <2>3. \A r \in Registers : HasRead(r)' <=> HasRead(r)
    BY DEF HasRead
  <2> QED
    BY <2>1, <2>2, <2>3 DEF KeepInv, OthersKept
<1>7. ConfigInv'
  BY DEF ConfigInv
<1> QED
  BY <1>3, <1>4, <1>5, <1>6, <1>7 DEF ImuInv

(* A transaction that changes no register and no local, whose failure, if  *)
(* it failed, is reported at the end of the call or not at all.            *)
LEMMA SilentKeepsInv ==
  ASSUME ImuInv, pc = "call", call > 1, Advance,
         Now.op \in {"other", "late", "ignored"},
         UNCHANGED <<call, regs, local, success, before>>,
         result' \in {result, "Err"}, faults' \in 0 .. MaxFaults
  PROVE  ImuInv'
<1>1. /\ step' = step + 1 /\ step \in Nat \ {0}
      /\ step' \in 1 .. Len(Program[call'].steps) + 1
      /\ pc' \in {"call", "returned"}
      /\ pc' = "call" => step' <= Len(Program[call].steps)
      /\ pc' = "returned" => step' = Len(Program[call].steps) + 1
  BY AdvanceSteps
<1>2. /\ TypeOK /\ ResetInv /\ KeepInv /\ ConfigInv
  BY DEF ImuInv
<1>3. \A r \in Registers : HasRead(r)' <=> HasRead(r)
  BY <1>1, HasReadNext
<1>4. result' = "Ok" => result = "Ok"
  OBVIOUS
<1>5. TypeOK'
  BY <1>1, <1>2 DEF TypeOK
<1>6. StepInv'
  BY <1>1 DEF StepInv
<1>7. ResetInv'
  BY <1>2 DEF ResetInv, TypeOK
<1>8. KeepInv'
  <2> SUFFICES ASSUME Program[call'].careful \/ result' = "Ok"
               PROVE  /\ OthersKept'
                      /\ \A r \in Registers :
                           HasRead(r)' => local'[r] \ Fields(call', r)
                                            = before'[r] \ Fields(call', r)
    BY DEF KeepInv
  <2>1. Program[call].careful \/ result = "Ok"
    BY <1>4
  <2> QED
    BY <1>2, <1>3, <2>1 DEF KeepInv, OthersKept
<1>9. ConfigInv'
  <2>1. ASSUME success', result' = "Ok", call' > 1
        PROVE  /\ regs' = ConfiguredAt(call', step')
               /\ \A r \in Registers : HasRead(r)' => local'[r] = regs'[r]
    <3>1. /\ regs = ConfiguredAt(call, step)
          /\ \A r \in Registers : HasRead(r) => local[r] = regs[r]
      BY <1>2, <1>4, <2>1 DEF ConfigInv
    <3>2. /\ Now = Program[call].steps[step] /\ call \in 2 .. Len(Program)
          /\ step \in 1 .. Len(Program[call].steps)
      BY NowFacts
    <3>3. ConfiguredAt(call, step + 1) = ConfiguredAt(call, step)
      BY <3>2, ConfiguredNext
    <3> QED
      BY <1>1, <1>3, <3>1, <3>3
  <2> QED
    BY <1>1, <2>1 DEF ConfigInv
<1> QED
  BY <1>5, <1>6, <1>7, <1>8, <1>9 DEF ImuInv

(* A failure that the call reports and goes on from.                       *)
LEMMA GoesOnKeepsInv ==
  ASSUME ImuInv, pc = "call", Now.op # "compare", call > 1,
         ~Program[call].careful, Advance,
         UNCHANGED <<call, success, before>>,
         result' = "Err", faults' \in 0 .. MaxFaults,
         \/ Now.op = "write" /\ regs' = Written(regs, Now.reg, Merged)
         \/ regs' = regs,
         IF Now.op = "read"
           THEN \E g \in Garbage : local' = [local EXCEPT ![Now.reg] = g]
           ELSE local' = [local EXCEPT ![Now.reg] = Merged]
  PROVE  ImuInv'
<1>1. /\ step' = step + 1 /\ step \in Nat \ {0}
      /\ step' \in 1 .. Len(Program[call'].steps) + 1
      /\ pc' \in {"call", "returned"}
      /\ pc' = "call" => step' <= Len(Program[call].steps)
      /\ pc' = "returned" => step' = Len(Program[call].steps) + 1
  BY AdvanceSteps
<1>2. TypeOK /\ ResetInv
  BY DEF ImuInv
<1>3. /\ regs \in [Registers -> Byte] /\ local \in [Registers -> Byte]
      /\ before \in [Registers -> Byte] /\ success \in BOOLEAN
      /\ call \in 1 .. Len(Program)
  BY <1>2 DEF TypeOK
<1>4. /\ Now.reg \in Registers /\ Merged \in Byte /\ call # 1 /\ Now.op \in Ops
  BY NowFacts
<1>5. /\ 7 \notin regs[PWR_MGMT_1] /\ 7 \notin local[PWR_MGMT_1]
  BY <1>2 DEF ResetInv
<1>6. PICK byte \in Byte : /\ local' = [local EXCEPT ![Now.reg] = byte]
                           /\ Now.op = "read" \/ byte = Merged
  <2>1. Garbage \subseteq Byte
    BY GarbageAssumption DEF Byte
  <2> QED
    BY <1>4, <2>1
<1>7. Now.reg = PWR_MGMT_1 => 7 \notin byte
  <2>1. Now.op = "read" => Now.reg # PWR_MGMT_1
    BY <1>4, NowLater
  <2>2. ASSUME Now.reg = PWR_MGMT_1
        PROVE  7 \notin Merged
    <3>1. CASE Now.op = "write"
      <4> DEFINE after == Written(regs, Now.reg, Merged)
      <4> HIDE DEF after
      <4>1. after = Written(regs, Now.reg, Merged)
        BY DEF after
      <4> QED
        BY <2>2, <3>1, <4>1, WriteEffects
    <3>2. CASE Now.op \in {"other", "late", "ignored"}
      BY <1>4, <1>5, <2>2, <3>2, NowLater
    <3> QED
      BY <1>4, <2>1, <2>2, <3>1, <3>2 DEF Ops
  <2> QED
    BY <1>6, <2>1, <2>2
<1>8. TypeOK'
  <2>1. regs' \in [Registers -> Byte]
    BY <1>3, WriteEffects
  <2>2. local' \in [Registers -> Byte]
    BY <1>3, <1>4, <1>6
  <2> QED
    BY <1>1, <1>3, <2>1, <2>2 DEF TypeOK
<1>9. StepInv'
  BY <1>1 DEF StepInv
<1>10. ResetInv'
  <2>1. 7 \notin regs'[PWR_MGMT_1]
    BY <1>5, WriteEffects
  <2>2. 7 \notin local'[PWR_MGMT_1]
    BY <1>3, <1>4, <1>5, <1>6, <1>7, OtherRegisters
  <2>3. call' # 1
    BY <1>4
  <2> QED
    BY <2>1, <2>2, <2>3 DEF ResetInv
<1>11. KeepInv'
  BY DEF KeepInv
<1>12. ConfigInv'
  BY <1>1 DEF ConfigInv
<1> QED
  BY <1>8, <1>9, <1>10, <1>11, <1>12 DEF ImuInv

LEMMA FailsKeepsInv ==
  ASSUME ImuInv, Fails
  PROVE  ImuInv'
<1>1. /\ pc = "call" /\ Now.op # "compare"
      /\ result' = IF Now.op = "ignored" THEN result ELSE "Err"
      /\ \/ Now.op = "write" /\ regs' = Written(regs, Now.reg, Merged)
         \/ regs' = regs
      /\ UNCHANGED <<call, success, before>>
  BY DEF Fails
<1>2. faults' \in 0 .. MaxFaults
  BY MaxFaultsAssumption DEF Fails, ImuInv, TypeOK
<1>3. /\ call \in 1 .. Len(Program) /\ Now.reg \in Registers /\ Now.op \in Ops
      /\ Program[call].careful \in BOOLEAN /\ call \in Nat
  BY <1>1, NowFacts
<1>4. CASE Program[call].careful /\ Now.op \notin {"late", "ignored"}
  <2>1. pc' = "returned" /\ UNCHANGED <<step, local>> /\ result' = "Err"
    BY <1>1, <1>4 DEF Fails
  <2> QED
    BY <1>1, <1>2, <1>4, <2>1, StopsKeepsInv
<1>5. CASE ~(Program[call].careful /\ Now.op \notin {"late", "ignored"})
  <2>1. /\ Advance
        /\ IF Now.op = "read"
             THEN \E g \in Garbage : local' = [local EXCEPT ![Now.reg] = g]
             ELSE local' = [local EXCEPT ![Now.reg] = Merged]
    BY <1>5 DEF Fails
  <2>2. call > 1
    <3>1. ASSUME call = 1
          PROVE  FALSE
      <4>1. Program[call].careful = TRUE /\ Now.op \in {"read", "write"}
        BY <1>1, <3>1, NowFirst
      <4> QED
        BY <1>5, <4>1
    <3> QED
      BY <1>3, <3>1
  <2>3. CASE Now.op \in {"late", "ignored"}
    <3>1. local' = local
      <4>1. Merged = local[Now.reg]
        BY <1>1, <2>2, <2>3, NowLater
      <4>2. local' = [local EXCEPT ![Now.reg] = local[Now.reg]]
        BY <2>1, <2>3, <4>1
      <4>3. local \in [Registers -> Byte]
        BY DEF ImuInv, TypeOK
      <4> QED
        BY <1>3, <4>2, <4>3
    <3>2. regs' = regs /\ result' \in {result, "Err"}
      BY <1>1, <2>3
    <3> QED
      BY <1>1, <1>2, <2>1, <2>2, <2>3, <3>1, <3>2, SilentKeepsInv
  <2>4. CASE Now.op \notin {"late", "ignored"}
    <3>1. ~Program[call].careful /\ result' = "Err"
      BY <1>1, <1>5, <2>4
    <3> QED
      BY <1>1, <1>2, <2>1, <2>2, <3>1, GoesOnKeepsInv
  <2> QED
    BY <2>3, <2>4
<1> QED
  BY <1>4, <1>5

-----------------------------------------------------------------------------
LEMMA UntouchedType ==
  /\ Untouched \in [Registers -> Byte] /\ Untouched[PWR_MGMT_1] = {}
BY OtherRegisters DEF Untouched, Byte

(* A call that has returned Ok has made its last transaction.              *)
LEMMA OkIsAtTheEnd ==
  ASSUME ImuInv, pc = "returned", result = "Ok", success,
         call = 1 \/ call \in 2 .. Len(Program)
  PROVE  regs = ConfiguredAt(call + 1, 1)
<1>1. step = Len(Program[call].steps) + 1
  BY DEF ImuInv, StepInv
<1>2. CASE call = 1
  <2>1. Len(Program[call].steps) = 2
    BY <1>2, ProgramFacts, SwResetFacts
  <2>2. regs = Default
    BY <1>1, <1>2, <2>1 DEF ImuInv, ResetInv
  <2> QED
    BY <1>2, <2>2, ConfiguredFirst
<1>3. CASE call \in 2 .. Len(Program)
  <2>1. call > 1
    BY <1>3, ProgramFacts
  <2>2. regs = ConfiguredAt(call, step)
    BY <2>1 DEF ImuInv, ConfigInv
  <2> QED
    BY <1>1, <1>3, <2>2, ConfiguredTurn
<1> QED
  BY <1>2, <1>3

(* No register holds DEVICE_RESET once the first call has returned and the *)
(* program goes on.                                                        *)
LEMMA ResetIsOver ==
  ASSUME ImuInv, pc = "returned", call > 1 \/ result = "Ok"
  PROVE  7 \notin regs[PWR_MGMT_1]
<1>1. CASE call > 1
  BY <1>1 DEF ImuInv, ResetInv
<1>2. CASE ~(call > 1) /\ result = "Ok"
  <2>1. call = 1
    BY <1>2, ProgramFacts DEF ImuInv, TypeOK
  <2>2. step = Len(Program[call].steps) + 1
    BY <1>2 DEF ImuInv, StepInv
  <2>3. Len(Program[call].steps) = 2
    BY <2>1, ProgramFacts, SwResetFacts
  <2>4. regs = Default
    BY <1>2, <2>1, <2>2, <2>3 DEF ImuInv, ResetInv
  <2> QED
    BY <2>4, OtherRegisters DEF Default
<1> QED
  BY <1>1, <1>2

LEMMA ReturnKeepsInv ==
  ASSUME ImuInv, Return
  PROVE  ImuInv'
<1>1. /\ pc = "returned" /\ regs' = regs /\ faults' = faults
      /\ success' = (success /\ result = "Ok")
  BY DEF Return
<1>2. /\ TypeOK /\ call \in 1 .. Len(Program) /\ call \in Nat
      /\ Len(Program) \in Nat
      /\ regs \in [Registers -> Byte] /\ before \in [Registers -> Byte]
      /\ local \in [Registers -> Byte]
      /\ step \in 1 .. Len(Program[call].steps) + 1
      /\ result \in {"Ok", "Err"} /\ faults \in 0 .. MaxFaults
  BY ProgramFacts DEF ImuInv, TypeOK
<1>3. success' \in BOOLEAN
  BY <1>1
<1>4. call = 1 \/ call \in 2 .. Len(Program)
  BY <1>2
<1>5. CASE /\ pc' \in {"exited", "enabled", "failed"}
           /\ UNCHANGED <<call, callVars, before>>
           /\ pc' = "enabled" => success' /\ call = Len(Program)
  <2>1. TypeOK'
    BY <1>1, <1>2, <1>3, <1>5 DEF TypeOK, callVars
  <2>2. StepInv' /\ KeepInv'
    BY <1>5 DEF StepInv, KeepInv
  <2>3. ResetInv'
    BY <1>1, <1>5 DEF ImuInv, ResetInv, callVars
  <2>4. ASSUME pc' = "enabled"
        PROVE  regs = Configured
    <3>1. success /\ result = "Ok" /\ call = Len(Program)
      BY <1>1, <1>5, <2>4
    <3>2. regs = ConfiguredAt(call + 1, 1)
      BY <1>1, <1>4, <3>1, OkIsAtTheEnd
    <3> QED
      BY <3>1, <3>2 DEF Configured
  <2>5. ConfigInv'
    <3>1. Configured' = Configured
      BY DEF Configured, ConfiguredAt
    <3> QED
      BY <1>1, <1>5, <2>4, <3>1 DEF ConfigInv
  <2> QED
    BY <2>1, <2>2, <2>3, <2>5 DEF ImuInv
<1>6. CASE /\ pc' = "call" /\ call' = call + 1 /\ call # Len(Program)
           /\ step' = 1 /\ local' = Untouched /\ result' = "Ok"
           /\ before' = regs
           /\ ~(result = "Err" /\ call <= Len(Begin))
  <2>1. call' \in 2 .. Len(Program)
    BY <1>2, <1>6
  <2>2. Len(Program[call'].steps) \in Nat /\ Len(Program[call'].steps) > 0
    <3>1. \A c \in 1 .. Len(Program) :
            Len(Program[c].steps) \in Nat /\ Len(Program[c].steps) > 0
      BY StepFacts
    <3> QED
      BY <2>1, <3>1
  <2>3. TypeOK'
    <3>1. step' \in 1 .. Len(Program[call'].steps) + 1
      BY <1>6, <2>2
    <3>2. call' \in 1 .. Len(Program)
      BY <1>2, <2>1
    <3> QED
      BY <1>1, <1>2, <1>3, <1>6, <3>1, <3>2, UntouchedType DEF TypeOK
  <2>4. StepInv'
    BY <1>6, <2>2 DEF StepInv
  <2>5. ResetInv'
    <3>1. call > 1 \/ result = "Ok"
      BY <1>2, <1>6, ProgramFacts
    <3>2. 7 \notin regs[PWR_MGMT_1]
      BY <1>1, <3>1, ResetIsOver
    <3>3. 7 \notin local'[PWR_MGMT_1]
      BY <1>6, UntouchedType
    <3> QED
      BY <1>1, <1>6, <3>2, <3>3 DEF ResetInv
  <2>6. \A r \in Registers : ~HasRead(r)'
    BY <1>6 DEF HasRead
  <2>7. KeepInv'
    BY <1>1, <1>6, <2>6 DEF KeepInv, OthersKept
  <2>8. ConfigInv'
    <3>1. ASSUME success'
          PROVE  regs' = ConfiguredAt(call', step')
      <4>1. success /\ result = "Ok"
        BY <1>1, <3>1
      <4>2. regs = ConfiguredAt(call + 1, 1)
        BY <1>1, <1>4, <4>1, OkIsAtTheEnd
      <4> QED
        BY <1>1, <1>6, <4>2
    <3> QED
      BY <1>6, <2>6, <3>1 DEF ConfigInv
  <2> QED
    BY <2>3, <2>4, <2>5, <2>7, <2>8 DEF ImuInv
<1>7. CASE result = "Err" /\ call <= Len(Begin)
  BY <1>5, <1>7 DEF Return
<1>8. CASE ~(result = "Err" /\ call <= Len(Begin)) /\ call = Len(Program)
  <2>1. pc' = (IF success' THEN "enabled" ELSE "failed")
    BY <1>8 DEF Return
  <2>2. UNCHANGED <<call, callVars, before>>
    BY <1>8 DEF Return
  <2>3. /\ pc' \in {"exited", "enabled", "failed"}
        /\ pc' = "enabled" => success'
    BY <1>3, <2>1
  <2> QED
    BY <1>5, <1>8, <2>2, <2>3
<1>9. CASE ~(result = "Err" /\ call <= Len(Begin)) /\ call # Len(Program)
  BY <1>6, <1>9 DEF Return
<1> QED
  BY <1>7, <1>8, <1>9

(* Where the program begins, for the first time or again.                  *)
Beginning ==
  /\ pc = "open" /\ regs \in [Registers -> Byte] /\ before = regs
  /\ call = 1 /\ step = 1 /\ local = Untouched
  /\ result = "Ok" /\ success = TRUE /\ faults \in 0 .. MaxFaults

LEMMA BeginningsHaveInv == Beginning => ImuInv
<1> SUFFICES ASSUME Beginning
             PROVE  ImuInv
  OBVIOUS
<1>1. Len(Program) \in Nat /\ Len(Program) > 3
  BY ProgramFacts
<1>2. call = 1 /\ step = 1 /\ pc = "open"
  BY DEF Beginning
<1>3. Len(Program[call].steps) = 2
  BY <1>2, ProgramFacts, SwResetFacts
<1>4. TypeOK
  <2>1. call \in 1 .. Len(Program) /\ step \in 1 .. Len(Program[call].steps) + 1
    BY <1>1, <1>2, <1>3
  <2>2. /\ regs \in [Registers -> Byte] /\ before \in [Registers -> Byte]
        /\ local \in [Registers -> Byte] /\ faults \in 0 .. MaxFaults
        /\ result \in {"Ok", "Err"} /\ success \in BOOLEAN
    BY UntouchedType DEF Beginning
  <2> QED
    BY <1>2, <2>1, <2>2, Zenon DEF TypeOK
<1>5. StepInv
  <2>1. before = regs
    BY DEF Beginning
  <2> QED
    BY <1>2, <2>1 DEF StepInv
<1>6. ResetInv
  BY <1>2 DEF ResetInv
<1>7. KeepInv
  BY <1>2 DEF KeepInv
<1>8. ConfigInv
  BY <1>2 DEF ConfigInv
<1> QED
  BY <1>4, <1>5, <1>6, <1>7, <1>8 DEF ImuInv

LEMMA OpenKeepsInv ==
  ASSUME ImuInv, OpenSPI \/ OpenSPIFails
  PROVE  ImuInv'
<1>1. /\ pc = "open" /\ pc' \in {"call", "crashed"}
      /\ UNCHANGED <<regs, call, step, local, result, success, before, faults>>
  BY DEF OpenSPI, OpenSPIFails, callVars
<1>2. call = 1 /\ step = 1 /\ before = regs
  BY <1>1 DEF ImuInv, StepInv
<1>3. TypeOK'
  BY <1>1 DEF ImuInv, TypeOK
<1>4. Len(Program[call].steps) = 2
  BY <1>2, ProgramFacts, SwResetFacts
<1>5. StepInv'
  BY <1>1, <1>2, <1>4 DEF StepInv
<1>6. ResetInv'
  BY <1>1, <1>2 DEF ResetInv
<1>7. KeepInv'
  <2>1. \A r \in Registers : ~HasRead(r)'
    BY <1>1, <1>2 DEF HasRead
  <2> QED
    BY <1>1, <1>2, <2>1 DEF KeepInv, OthersKept
<1>8. ConfigInv'
  BY <1>1, <1>2 DEF ConfigInv
<1> QED
  BY <1>3, <1>5, <1>6, <1>7, <1>8 DEF ImuInv

(***************************************************************************)
(* ImuInv, for any number of failures and any bytes in uninitialised       *)
(* locals: every register and local is a byte and setup is at a            *)
(* transaction of one of its calls; a careful call, and one that has       *)
(* returned Ok, has kept the fields it is not about; after the first call  *)
(* no register or local holds DEVICE_RESET, so that no later call can      *)
(* reset the chip by writing back what it read; as long as nothing has     *)
(* failed every bit is what the last write about it has asked for.         *)
(* (ICM_20948_rpi.cpp 1144-1391, 1523-1545, imu_test.cpp 77-137)           *)
(***************************************************************************)
THEOREM ImuInvariant == Spec => []ImuInv
<1>1. Init => ImuInv
  <2> SUFFICES ASSUME Init
               PROVE  Beginning
    BY BeginningsHaveInv
  <2>1. [r \in Registers |-> Bit] \in [Registers -> Byte]
    BY DEF Byte
  <2>2. regs \in [Registers -> Byte]
    BY <2>1, DefaultType DEF Init
  <2>3. faults \in 0 .. MaxFaults
    BY MaxFaultsAssumption DEF Init
  <2> QED
    BY <2>2, <2>3 DEF Init, Beginning
<1>2. ImuInv /\ [Next]_vars => ImuInv'
  <2> SUFFICES ASSUME ImuInv, [Next]_vars
               PROVE  ImuInv'
    OBVIOUS
  <2>1. CASE OpenSPI
    BY <2>1, OpenKeepsInv
  <2>2. CASE OpenSPIFails
    BY <2>2, OpenKeepsInv
  <2>3. CASE Works
    BY <2>3, WorksKeepsInv
  <2>4. CASE Fails
    BY <2>4, FailsKeepsInv
  <2>5. CASE Return
    BY <2>5, ReturnKeepsInv
  <2>6. CASE Restart
    <3>1. Beginning'
      BY <2>6 DEF Restart, Beginning, ImuInv, TypeOK
    <3>2. Beginning' => ImuInv'
      BY BeginningsHaveInv, PTL
    <3> QED
      BY <3>1, <3>2
  <2>7. CASE UNCHANGED vars
    <3> USE <2>7 DEF vars, callVars
    <3>1. TypeOK' /\ StepInv' /\ ResetInv'
      BY DEF ImuInv, TypeOK, StepInv, ResetInv
    <3>2. KeepInv'
      BY DEF ImuInv, KeepInv, OthersKept, HasRead
    <3>3. ConfigInv'
      BY DEF ImuInv, ConfigInv, Configured, ConfiguredAt, HasRead
    <3> QED
      BY <3>1, <3>2, <3>3 DEF ImuInv
  <2> QED
    BY <2>1, <2>2, <2>3, <2>4, <2>5, <2>6, <2>7 DEF Next
<1> QED
  BY <1>1, <1>2, PTL DEF Spec

(* EnabledMeansConfigured, for any number of failures: when setup says     *)
(* "DMP enabled!" no transaction that mattered has failed unreported, and  *)
(* no bit of any register is left from an earlier program.                 *)
(* (ICM_20948_rpi.cpp 1144-1391, imu_test.cpp 77-137)                      *)
THEOREM EnabledIsConfigured == Spec => []EnabledMeansConfigured
<1>1. ImuInv => EnabledMeansConfigured
  BY DEF ImuInv, ConfigInv, EnabledMeansConfigured
<1> QED
  BY <1>1, ImuInvariant, PTL

(* CarefulKeepsOthers, for any number of failures: no call that stops at   *)
(* its first failure ever changes a field it is not about.                 *)
(* (ICM_20948_rpi.cpp:537)                                                 *)
THEOREM CarefulCallsKeepOthers == Spec => []CarefulKeepsOthers
<1>1. ImuInv => CarefulKeepsOthers
  BY DEF ImuInv, KeepInv, CarefulKeepsOthers
<1> QED
  BY <1>1, ImuInvariant, PTL

(* OkKeepsOthers, for any number of failures and any bytes in              *)
(* uninitialised locals: a call that goes on past failures writes such a   *)
(* byte over other fields only if it then reports an error.                *)
(* (ICM_20948_rpi.cpp 431-520)                                             *)
THEOREM OkCallsKeepOthers == Spec => []OkKeepsOthers
<1>1. ImuInv => OkKeepsOthers
  BY DEF ImuInv, KeepInv, OkKeepsOthers
<1> QED
  BY <1>1, ImuInvariant, PTL
=============================================================================
