--------------------------- MODULE DmpMemoryProofs ---------------------------
(***************************************************************************)
(* Proofs about DmpMemory, for every size of banks, bursts and image, and  *)
(* any number of calls, failed transactions, resets and restarts.          *)
(***************************************************************************)
EXTENDS DmpMemory, SequenceTheorems, TLAPS

(* Every way a bank is selected, forgotten or reset keeps the remembered   *)
(* bank the chip's, or marks it as stale.                                  *)
LEMMA BankKept ==
  ASSUME CachedBankIsReal,
         \/ UNCHANGED bank \/ BankBegin \/ BankReset
         \/ \E b : SelectSkipped(b) \/ SelectWorks(b) \/ SelectFails(b)
  PROVE  CachedBankIsReal'
  BY DEF CachedBankIsReal, bank, BankBegin, BankReset, SelectSkipped,
         SelectWorks, SelectFails

(* No other step of the driver touches the chip's bank register or the     *)
(* bank it remembers.                                                      *)
LEMMA OnlySelections ==
  ASSUME [Next]_vars
  PROVE  \/ UNCHANGED bank \/ BankBegin \/ BankReset
         \/ \E b : SelectSkipped(b) \/ SelectWorks(b) \/ SelectFails(b)
<1>1. CASE UNCHANGED vars
  BY <1>1 DEF vars
<1>2. CASE SelectBank
  BY <1>2 DEF SelectBank
<1>3. CASE SetStartAddress \/ WriteBurst \/ ReadBurst \/ CallReturns
  BY <1>3 DEF SetStartAddress, WriteBurst, ReadBurst, CallReturns
<1>4. CASE \E c \in Ranges : WriteDMPmems(c) \/ ReadDMPmems(c)
  BY <1>4 DEF WriteDMPmems, ReadDMPmems
<1>5. CASE SwReset \/ Restart
  BY <1>5 DEF SwReset, Restart
<1>6. CASE LoadDMPFirmware \/ Wake \/ LoadWrite \/ LoadWritten
  BY <1>6 DEF LoadDMPFirmware, Wake, LoadWrite, LoadWritten
<1>7. CASE BeginVerify \/ LoadVerify \/ LoadVerified \/ LoadFinish
  BY <1>7 DEF BeginVerify, LoadVerify, LoadVerified, LoadFinish
<1> QED
  BY <1>1, <1>2, <1>3, <1>4, <1>5, <1>6, <1>7 DEF Next

(* The bank that inv_icm20948_write_mems and read_mems skip to select is   *)
(* the selected one, except after a selection that failed or a reset: no   *)
(* call, load, failed burst or restart breaks the cache otherwise.         *)
THEOREM CacheIsReal == Spec => []CachedBankIsReal
<1>1. Init => CachedBankIsReal
  BY DEF Init, BankInit, CachedBankIsReal
<1>2. CachedBankIsReal /\ [Next]_vars => CachedBankIsReal'
  BY BankKept, OnlySelections
<1> QED
  BY <1>1, <1>2, PTL DEF Spec

-----------------------------------------------------------------------------
(* Division with remainder. *)
LEMMA DivMod ==
  ASSUME NEW a \in Nat, NEW n \in Nat \ {0}
  PROVE  /\ a = (a \div n) * n + (a % n)
         /\ a % n \in 0 .. n - 1 /\ a \div n \in Nat
<1>1. a % n \in 0 .. n - 1
  OBVIOUS
<1>2. a \div n \in Nat
  OBVIOUS
<1>3. a = (a \div n) * n + (a % n)
  OBVIOUS
<1> QED
  BY <1>1, <1>2, <1>3

(* Multiples of n are n apart. *)
LEMMA Times ==
  ASSUME NEW x \in Int, NEW y \in Int, NEW n \in Nat \ {0}, x < y
  PROVE  x * n + n <= y * n
<1>1. PICK k \in Nat : y = x + 1 + k
  <2>1. y - x - 1 \in Nat /\ y = x + 1 + (y - x - 1)
    OBVIOUS
  <2> QED
    BY <2>1
<1>2. y * n = x * n + n + k * n
  BY <1>1
<1>3. k * n >= 0
  OBVIOUS
<1> QED
  BY <1>2, <1>3

(* Quotient and remainder are determined by the equation. *)
LEMMA DivModUnique ==
  ASSUME NEW n \in Nat \ {0}, NEW q \in Nat, NEW r \in 0 .. n - 1,
         NEW a \in Nat, a = q * n + r
  PROVE  a \div n = q /\ a % n = r
<1> DEFINE d == a \div n
           m == a % n
<1>1. d \in Nat /\ m \in 0 .. n - 1 /\ a = d * n + m
  BY DivMod
<1> HIDE DEF d, m
<1>2. CASE d < q
  BY <1>1, <1>2, Times
<1>3. CASE q < d
  BY <1>1, <1>3, Times
<1>4. CASE d = q
  BY <1>1, <1>4 DEF d, m
<1> QED
  BY <1>1, <1>2, <1>3, <1>4

(* Going on inside a bank changes the offset only. *)
LEMMA SameBank ==
  ASSUME NEW a \in Nat, NEW n \in Nat \ {0}, NEW k \in Nat, (a % n) + k < n
  PROVE  (a + k) % n = (a % n) + k /\ (a + k) \div n = a \div n
<1> DEFINE d == a \div n
           m == a % n
<1>1. d \in Nat /\ m \in 0 .. n - 1 /\ a = d * n + m
  BY DivMod
<1> HIDE DEF d, m
<1>2. a + k = d * n + (m + k) /\ m + k \in 0 .. n - 1 /\ a + k \in Nat
  BY <1>1 DEF m
<1>3. (a + k) \div n = d /\ (a + k) % n = m + k
  BY <1>1, <1>2, DivModUnique
<1> QED
  BY <1>3 DEF d, m

(* The multiples of n are the numbers with remainder 0. *)
LEMMA Multiple ==
  ASSUME NEW a \in Nat, NEW n \in Nat \ {0}
  PROVE  a % n = 0 <=> \E k \in Nat : a = k * n
<1>1. ASSUME a % n = 0 PROVE \E k \in Nat : a = k * n
  <2>1. a = (a \div n) * n + (a % n) /\ a \div n \in Nat
    BY DivMod
  <2>2. a = (a \div n) * n
    BY <1>1, <2>1
  <2> QED
    BY <2>1, <2>2
<1>2. ASSUME NEW k \in Nat, a = k * n PROVE a % n = 0
  BY <1>2, DivModUnique
<1> QED
  BY <1>1, <1>2

(* Sums of multiples. *)
LEMMA SumOfMultiples ==
  ASSUME NEW a \in Nat, NEW b \in Nat, NEW n \in Nat \ {0},
         a % n = 0, b % n = 0
  PROVE  (a + b) % n = 0
<1>1. PICK j \in Nat : a = j * n
  BY Multiple
<1>2. PICK k \in Nat : b = k * n
  BY Multiple
<1>3. a + b = (j + k) * n /\ j + k \in Nat /\ a + b \in Nat
  BY <1>1, <1>2
<1> QED
  BY <1>3, Multiple

(* From a multiple of n, n bytes stay in a bank whose size is one too. *)
LEMMA ChunkInBank ==
  ASSUME NEW a \in Nat, NEW b \in Nat \ {0}, NEW n \in Nat \ {0},
         a % n = 0, b % n = 0
  PROVE  (a % b) + n <= b
<1>1. PICK j \in Nat : a = j * n
  BY Multiple
<1>2. PICK k \in Nat : b = k * n
  BY Multiple
<1> DEFINE d == a \div b
           m == a % b
<1>3. d \in Nat /\ m \in 0 .. b - 1 /\ a = d * b + m
  BY DivMod
<1> HIDE DEF d, m
<1>4. m = (j - d * k) * n
  BY <1>1, <1>2, <1>3
<1>5. j - d * k < k
  <2>1. SUFFICES ASSUME k <= j - d * k PROVE FALSE
    BY <1>1, <1>2, <1>3
  <2>2. CASE k = j - d * k
    BY <2>2, <1>2, <1>3, <1>4
  <2>3. CASE k < j - d * k
    <3>1. j - d * k \in Int
      BY <1>3
    <3>2. k * n + n <= (j - d * k) * n
      BY <2>3, <3>1, Times
    <3> QED
      BY <3>2, <1>2, <1>3, <1>4
  <2> QED
    BY <2>1, <2>2, <2>3, <1>3
<1>6. (j - d * k) * n + n <= k * n
  <2>1. j - d * k \in Int
    BY <1>3
  <2> QED
    BY <2>1, <1>5, Times
<1> QED
  BY <1>2, <1>3, <1>4, <1>6 DEF m

(* A function on 1..n is a sequence of length n. *)
LEMMA FunctionIsSeq ==
  ASSUME NEW S, NEW n \in Nat, NEW f \in [1 .. n -> S]
  PROVE  f \in Seq(S) /\ Len(f) = n
<1>1. f \in Seq(S)
  BY SeqDef
<1>2. 1 .. Len(f) = 1 .. n /\ Len(f) \in Nat
  BY <1>1, LenProperties
<1> QED
  BY <1>1, <1>2

-----------------------------------------------------------------------------
(* What the constants are. *)
LEMMA Constants ==
  /\ BankSize \in Nat \ {0} /\ MaxSerial \in Nat \ {0} /\ Banks \in 1..255
  /\ LoadStart \in Nat /\ Image \in Seq(Nat) /\ Len(Image) \in Nat \ {0}
  /\ \A i \in 1..Len(Image) :
       Image[i] \in Nat /\ LoadStart + i - 1 \in Addresses
  /\ Addresses \subseteq Nat
  /\ BankSize % MaxSerial = 0 /\ LoadStart % MaxSerial = 0
<1>1. /\ BankSize \in Nat \ {0} /\ MaxSerial \in Nat \ {0} /\ LoadStart \in Nat
      /\ Image \in Seq(Nat) /\ Image # << >>
  BY MemoryAssumption
<1>2. Banks \in 1..255
  BY BanksAssumption DEF NoBank
<1>3. Len(Image) \in Nat \ {0} /\ \A i \in 1..Len(Image) : Image[i] \in Nat
  BY <1>1, EmptySeq, ElementOfSeq
<1>4. \A i \in 1..Len(Image) : LoadStart + i - 1 \in Addresses
  BY <1>1, <1>3, MemoryAssumption DEF ImageRange
<1>5. Addresses \subseteq Nat
  BY DEF Addresses
<1>6. BankSize % MaxSerial = 0 /\ LoadStart % MaxSerial = 0
  BY MemoryAssumption
<1> QED
  BY <1>1, <1>2, <1>3, <1>4, <1>5, <1>6

(* The bank of an address of the memory is one of its banks. *)
LEMMA BankOfAddress ==
  ASSUME NEW a \in Addresses
  PROVE  Bank(a) \in BankNumbers /\ Bank(a) # NoBank
<1> DEFINE d == a \div BankSize
           m == a % BankSize
<1>1. d \in Nat /\ m \in 0..BankSize - 1 /\ a = d * BankSize + m
  BY Constants, DivMod DEF Addresses
<1>2. a < Banks * BankSize
  BY Constants DEF Addresses
<1> HIDE DEF d, m
<1>3. d < Banks
  <2>0. BankSize \in Nat \ {0} /\ Banks \in Int /\ d \in Int
    BY <1>1, Constants
  <2>1. CASE d = Banks
    BY <2>0, <2>1, <1>1, <1>2
  <2>2. CASE Banks < d
    <3>1. Banks * BankSize + BankSize <= d * BankSize
      BY <2>0, <2>2, Times
    <3> QED
      BY <3>1, <2>0, <1>1, <1>2
  <2> QED
    BY <2>0, <2>1, <2>2
<1> QED
  BY <1>1, <1>3, Constants DEF d, Bank, BankNumbers, NoBank

(* The next chunk of the firmware load: a whole burst, or what is left of  *)
(* the image; the cut at the end of a bank never happens.                  *)
LEMMA ChunkFits ==
  ASSUME LoadInv, load.done < Len(Image)
  PROVE  /\ ChunkSize \in 1..MaxSerial /\ load.done + ChunkSize <= Len(Image)
         /\ \/ (load.done + ChunkSize) % MaxSerial = 0
            \/ load.done + ChunkSize = Len(Image)
         /\ load.memaddr \in Addresses
         /\ (load.memaddr % BankSize) + ChunkSize <= BankSize
         /\ Chunk \in Seq(Nat) /\ Len(Chunk) = ChunkSize
         /\ \A i \in 1..ChunkSize : Chunk[i] = Image[load.done + i]
<1> DEFINE size == Least(Len(Image) - load.done, MaxSerial)
<1>1. /\ load.done \in Nat /\ load.memaddr = LoadStart + load.done
      /\ load.done % MaxSerial = 0
  BY Constants DEF LoadInv
<1>2. /\ size \in 1..MaxSerial /\ load.done + size <= Len(Image)
      /\ size = MaxSerial \/ load.done + size = Len(Image)
  <2>1. Len(Image) \in Nat /\ MaxSerial \in Nat \ {0}
    BY Constants
  <2> QED
    BY <1>1, <2>1 DEF Least
<1>3. load.memaddr \in Nat /\ load.memaddr % MaxSerial = 0
  <2>1. /\ LoadStart \in Nat /\ LoadStart % MaxSerial = 0
        /\ MaxSerial \in Nat \ {0}
    BY Constants
  <2>2. (LoadStart + load.done) % MaxSerial = 0
    BY <2>1, <1>1, SumOfMultiples
  <2> QED
    BY <2>1, <2>2, <1>1
<1>4. (load.memaddr % BankSize) + MaxSerial <= BankSize
  <2>1. /\ BankSize \in Nat \ {0} /\ BankSize % MaxSerial = 0
        /\ MaxSerial \in Nat \ {0}
    BY Constants
  <2> QED
    BY <2>1, <1>3, ChunkInBank
<1>5. load.memaddr % BankSize \in Nat
  <2>1. BankSize \in Nat \ {0}
    BY Constants
  <2>2. load.memaddr % BankSize \in 0..BankSize - 1
    BY <2>1, <1>3, DivMod
  <2> QED
    BY <2>1, <2>2
<1>6. ChunkSize = size
  BY <1>2, <1>4, <1>5, Constants DEF ChunkSize
<1>7. \/ (load.done + size) % MaxSerial = 0
      \/ load.done + size = Len(Image)
  <2>1. MaxSerial % MaxSerial = 0
    <3>1. MaxSerial = 1 * MaxSerial + 0 /\ 0 \in 0..MaxSerial - 1
      BY Constants
    <3> QED
      BY <3>1, Constants, DivModUnique
  <2> QED
    BY <2>1, <1>1, <1>2, Constants, SumOfMultiples
<1>8. load.memaddr \in Addresses
  <2>1. load.done + 1 \in 1..Len(Image)
    BY <1>1, Constants
  <2>2. LoadStart + (load.done + 1) - 1 = load.memaddr
    BY <1>1, Constants
  <2> QED
    BY <2>1, <2>2, Constants
<1>9. /\ Chunk \in Seq(Nat) /\ Len(Chunk) = size
      /\ \A i \in 1..size : Chunk[i] = Image[load.done + i]
  <2> DEFINE m == load.done + 1
             n == load.done + size
  <2>0. size \in Nat \ {0} /\ load.done + size <= Len(Image)
    BY <1>2, Constants
  <2>1. /\ m \in Int /\ n \in Int /\ m <= n /\ n - m + 1 = size
        /\ \A i \in m..n : Image[i] \in Nat
    <3> HIDE DEF size
    <3>1. m \in Int /\ n \in Int /\ m <= n /\ n - m + 1 = size
      BY <1>1, <2>0
    <3>2. m..n \subseteq 1..Len(Image)
      <4>1. Len(Image) \in Nat
        BY Constants
      <4>2. 1 <= m /\ n <= Len(Image) /\ m \in Nat /\ n \in Nat
        BY <1>1, <2>0
      <4> HIDE DEF m, n
      <4> QED
        BY <4>1, <4>2
    <3> QED
      BY <3>1, <3>2, Constants
  <2>2. Chunk = SubSeq(Image, m, n)
    BY <1>6 DEF Chunk
  <2> HIDE DEF m, n
  <2>3. /\ SubSeq(Image, m, n) \in Seq(Nat)
        /\ Len(SubSeq(Image, m, n)) = IF m <= n THEN n - m + 1 ELSE 0
        /\ \A i \in 1..n - m + 1 : SubSeq(Image, m, n)[i] = Image[m + i - 1]
    BY <2>1, SubSeqProperties
  <2>4. \A i \in 1..size : Chunk[i] = Image[m + i - 1]
    BY <2>1, <2>2, <2>3
  <2>5. \A i \in 1..size : m + i - 1 = load.done + i
    BY <1>1, <1>2 DEF m
  <2> QED
    BY <2>1, <2>2, <2>3, <2>4, <2>5
<1> HIDE DEF size
<1>10. (load.memaddr % BankSize) + size <= BankSize
  BY <1>2, <1>4, <1>5, Constants
<1> QED
  BY <1>2, <1>6, <1>7, <1>8, <1>9, <1>10

(* What one burst may reach: always the memory and, when the remembered    *)
(* bank is the chip's, the next bytes of the range of the call.            *)
LEMMA BurstReach ==
  ASSUME TypeOK, CachedBankIsReal, CallInv, phase = "burst"
  PROVE  /\ ThisLen \in 1..MaxSerial /\ call.done + ThisLen <= call.length
         /\ \A i \in 0..ThisLen - 1 : At(i) \in Addresses
         /\ ~stale => \A i \in 0..ThisLen - 1 :
                        At(i) = call.reg + call.done + i
<1>1. /\ call.done \in Nat /\ call.length \in Nat \ {0}
      /\ call.done < call.length
      /\ call.reg \in Nat /\ call.reg \in Addresses
      /\ (call.reg % BankSize) + call.length <= BankSize
      /\ startAddr = (call.reg + call.done) % BankSize
      /\ startAddr \in Nat
      /\ last_mems_bank = Bank(call.reg)
  <2>1. /\ call.length \in Nat \ {0} /\ call.done < call.length
        /\ call.reg \in Addresses
        /\ (call.reg % BankSize) + call.length <= BankSize
        /\ startAddr = (call.reg + call.done) % BankSize
        /\ last_mems_bank = Bank(call.reg)
    BY DEF CallInv, NextAddress
  <2>2. call.done \in 0..call.length /\ startAddr \in 0..(BankSize - 1)
    BY DEF TypeOK
  <2>3. Addresses \subseteq Nat /\ BankSize \in Nat \ {0}
    BY Constants
  <2>4. call.reg \in Nat
    BY <2>1, <2>3
  <2>5. call.done \in Nat
    BY <2>2
  <2>6. startAddr \in Nat
    BY <2>2
  <2> QED
    BY <2>1, <2>4, <2>5, <2>6
<1>2. ThisLen \in 1..MaxSerial /\ call.done + ThisLen <= call.length
  <2>1. MaxSerial \in Nat \ {0}
    BY Constants
  <2>2. /\ call.done \in Nat /\ call.length \in Nat
        /\ call.done < call.length
    BY <1>1
  <2> QED
    BY <2>1, <2>2 DEF ThisLen, Least
<1>3. \A i \in 0..ThisLen - 1 : At(i) \in Addresses
  <2> TAKE i \in 0..ThisLen - 1
  <2>1. startAddr + i \in Nat
    BY <1>1, <1>2
  <2>2. (startAddr + i) % BankSize \in 0..BankSize - 1
    BY <2>1, Constants, DivMod
  <2>3. bankSel \in Nat /\ bankSel < Banks
    BY Constants DEF TypeOK, BankNumbers
  <2>4. bankSel * BankSize + BankSize <= Banks * BankSize
    BY <2>3, Constants, Times
  <2>5. bankSel * BankSize \in Nat
    BY <2>3, Constants
  <2> DEFINE o == (startAddr + i) % BankSize
             b == bankSel * BankSize
             e == Banks * BankSize
  <2>6. o \in 0..BankSize - 1 /\ b \in Nat /\ b + BankSize <= e
    BY <2>2, <2>4, <2>5
  <2> HIDE DEF o, b, e
  <2>7. BankSize \in Nat \ {0} /\ e \in Int
    BY Constants DEF e
  <2>8. b + o \in 0..(e - 1)
    BY <2>6, <2>7
  <2> QED
    BY <2>8 DEF o, b, e, At, Addresses
<1>4. ASSUME ~stale, NEW i \in 0..ThisLen - 1
      PROVE  At(i) = call.reg + call.done + i
  <2> DEFINE d == call.reg \div BankSize
             m == call.reg % BankSize
  <2>1. bankSel = d
    BY <1>1, <1>4, BankOfAddress DEF CachedBankIsReal, Bank
  <2>2. d \in Nat /\ m \in 0..BankSize - 1 /\ call.reg = d * BankSize + m
    BY <1>1, Constants, DivMod
  <2>B. BankSize \in Nat \ {0}
    BY Constants
  <2>3. m + call.done < BankSize /\ m + (call.done + i) < BankSize
    <3> HIDE DEF d
    <3>1. m \in Nat /\ m + call.length <= BankSize
      BY <1>1, <2>2
    <3> HIDE DEF m
    <3>2. i \in Nat /\ i < ThisLen /\ ThisLen \in Nat
      BY <1>2, Constants
    <3> QED
      BY <3>1, <3>2, <2>B, <1>1, <1>2
  <2>4. startAddr = m + call.done
    BY <1>1, <2>3, <2>B, SameBank
  <2>5. /\ startAddr + i = 0 * BankSize + (startAddr + i)
        /\ startAddr + i \in 0..BankSize - 1 /\ startAddr + i \in Nat
    <3> HIDE DEF d, m
    <3>1. m \in Nat /\ i \in Nat
      BY <2>2, <1>2, Constants
    <3> QED
      BY <3>1, <2>3, <2>4, <2>B, <1>1
  <2>6. (startAddr + i) % BankSize = startAddr + i
    BY <2>5, <2>B, DivModUnique
  <2> DEFINE p == d * BankSize
  <2>7. p \in Nat /\ call.reg = p + m
    BY <2>2, <2>B
  <2>8. At(i) = p + (startAddr + i)
    BY <2>1, <2>6 DEF At
  <2> HIDE DEF d, m, p
  <2> QED
    BY <2>2, <2>4, <2>7, <2>8, <1>1
<1> QED
  BY <1>2, <1>3, <1>4

(* A burst of write_mems stores bytes somewhere in memory, and when the    *)
(* remembered bank is the chip's the next bytes of the call, and no other. *)
LEMMA BurstStores ==
  ASSUME TypeOK, CachedBankIsReal, CallInv, phase = "burst"
  PROVE  /\ BurstMem \in [Addresses -> Nat]
         /\ ~stale => \A a \in Addresses :
              BurstMem[a] =
                IF a \in call.reg + call.done ..
                         call.reg + call.done + ThisLen - 1
                THEN call.data[a - call.reg + 1] ELSE mem[a]
<1> DEFINE C(a) == CHOOSE i \in 0..(ThisLen - 1) : a = At(i)
           Hit(a) == \E i \in 0..(ThisLen - 1) : a = At(i)
<1>0. /\ call.done \in Nat /\ call.reg \in Nat /\ ThisLen \in Nat \ {0}
      /\ call.done + ThisLen <= call.length /\ call.length \in Nat
      /\ mem \in [Addresses -> Nat]
      /\ call.data \in Seq(Nat) /\ Len(call.data) = call.length
  <2>1. /\ call.done \in Nat /\ call.reg \in Nat /\ call.length \in Nat
        /\ mem \in [Addresses -> Nat] /\ call.data \in Seq(Nat)
    BY DEF TypeOK
  <2>2. Len(call.data) = call.length
    BY DEF CallInv
  <2> QED
    BY <2>1, <2>2, BurstReach, Constants
<1>1. \A a \in Addresses :
        BurstMem[a] = IF Hit(a) THEN call.data[call.done + 1 + C(a)]
                                ELSE mem[a]
  BY DEF BurstMem
<1>2. \A a \in Addresses : Hit(a) => C(a) \in 0..(ThisLen - 1) /\ a = At(C(a))
  OBVIOUS
<1>3. \A a \in Addresses : BurstMem[a] \in Nat
  <2> TAKE a \in Addresses
  <2>1. CASE Hit(a)
    <3>1. PICK k \in 0..(ThisLen - 1) : k = C(a)
      BY <2>1, <1>2
    <3> HIDE DEF C, Hit
    <3>2. call.done + 1 + k \in 1..Len(call.data)
      <4>1. k \in Nat /\ k < ThisLen
        BY <1>0
      <4>2. call.done + 1 + k <= call.length
        BY <4>1, <1>0
      <4> QED
        BY <4>1, <4>2, <1>0
    <3>3. call.data[call.done + 1 + k] \in Nat
      BY <3>2, <1>0, ElementOfSeq
    <3> QED
      BY <2>1, <3>1, <3>3, <1>1
  <2>2. CASE ~Hit(a)
    <3> HIDE DEF C, Hit
    <3> QED
      BY <2>2, <1>0, <1>1
  <2> QED
    BY <2>1, <2>2
<1>4. BurstMem \in [Addresses -> Nat]
  <2>1. BurstMem = [a \in Addresses |-> BurstMem[a]]
    BY DEF BurstMem
  <2> QED
    BY <2>1, <1>3
<1>5. ASSUME ~stale, NEW a \in Addresses
      PROVE  BurstMem[a] =
               IF a \in call.reg + call.done ..
                        call.reg + call.done + ThisLen - 1
               THEN call.data[a - call.reg + 1] ELSE mem[a]
  <2>0. \A i \in 0..(ThisLen - 1) : At(i) = call.reg + call.done + i
    BY <1>5, BurstReach
  <2>A. a \in Nat
    BY Constants
  <2>1. CASE Hit(a)
    <3>1. C(a) \in 0..(ThisLen - 1) /\ a = call.reg + call.done + C(a)
      BY <2>0, <2>1, <1>2
    <3> HIDE DEF C, Hit
    <3>2. /\ a \in call.reg + call.done .. call.reg + call.done + ThisLen - 1
          /\ call.done + 1 + C(a) = a - call.reg + 1
      <4> DEFINE n == ThisLen
      <4>1. PICK k \in 0..(n - 1) : k = C(a) /\ a = call.reg + call.done + k
        BY <3>1
      <4>2. n \in Nat /\ call.reg \in Nat /\ call.done \in Nat
        BY <1>0
      <4> HIDE DEF n
      <4>3. /\ a \in call.reg + call.done .. call.reg + call.done + n - 1
            /\ call.done + 1 + k = a - call.reg + 1
        BY <4>1, <4>2
      <4> QED
        BY <4>1, <4>3 DEF n
    <3> QED
      BY <2>1, <3>2, <1>1
  <2>2. CASE ~Hit(a)
    <3>1. ASSUME a \in call.reg + call.done ..
                       call.reg + call.done + ThisLen - 1
          PROVE  FALSE
      <4>1. a - call.reg - call.done \in 0..(ThisLen - 1)
        <5> DEFINE n == ThisLen
        <5>1. /\ n \in Nat /\ call.reg \in Nat /\ call.done \in Nat
              /\ a \in call.reg + call.done .. call.reg + call.done + n - 1
          BY <3>1, <1>0
        <5> HIDE DEF n
        <5>2. a - call.reg - call.done \in 0..(n - 1)
          BY <5>1, <2>A
        <5> QED
          BY <5>2 DEF n
      <4>2. At(a - call.reg - call.done)
              = call.reg + call.done + (a - call.reg - call.done)
        BY <4>1, <2>0
      <4>3. a = At(a - call.reg - call.done)
        BY <4>2, <2>A, <1>0
      <4> QED
        BY <4>1, <4>3, <2>2
    <3> HIDE DEF C, Hit
    <3> QED
      BY <2>2, <3>1, <1>1
  <2> QED
    BY <2>1, <2>2
<1> QED
  BY <1>4, <1>5

(* A burst of read_mems fills the next bytes of the caller's buffer.       *)
LEMMA BurstFetches ==
  ASSUME TypeOK, CachedBankIsReal, CallInv, phase = "burst",
         call.kind = "read"
  PROVE  /\ BurstBuffer \in Seq(Nat) /\ Len(BurstBuffer) = Len(buffer)
         /\ ~stale => \A i \in 1..Len(buffer) :
              BurstBuffer[i] =
                IF i \in call.done + 1 .. call.done + ThisLen
                THEN mem[call.reg + i - 1] ELSE buffer[i]
<1>0. /\ call.done \in Nat /\ call.reg \in Nat /\ ThisLen \in Nat \ {0}
      /\ call.done + ThisLen <= call.length /\ call.length \in Nat
      /\ mem \in [Addresses -> Nat]
      /\ buffer \in Seq(Nat) /\ Len(buffer) \in Nat
      /\ DOMAIN buffer = 1..Len(buffer)
      /\ \A i \in 1..Len(buffer) : buffer[i] \in Nat
  <2>1. /\ call.done \in Nat /\ call.reg \in Nat /\ call.length \in Nat
        /\ mem \in [Addresses -> Nat] /\ buffer \in Seq(Nat)
    BY DEF TypeOK
  <2>2. /\ Len(buffer) \in Nat /\ DOMAIN buffer = 1..Len(buffer)
        /\ \A i \in 1..Len(buffer) : buffer[i] \in Nat
    BY <2>1, LenProperties, ElementOfSeq
  <2> QED
    BY <2>1, <2>2, BurstReach, Constants
<1>1. /\ BurstBuffer = [i \in 1..Len(buffer) |-> BurstBuffer[i]]
      /\ \A i \in 1..Len(buffer) :
           BurstBuffer[i] = IF i \in call.done + 1 .. call.done + ThisLen
                            THEN mem[At(i - call.done - 1)] ELSE buffer[i]
  BY <1>0 DEF BurstBuffer
<1>2. \A i \in 1..Len(buffer) :
        i \in call.done + 1 .. call.done + ThisLen
          => i - call.done - 1 \in 0..ThisLen - 1
  <2> DEFINE n == ThisLen
  <2>1. n \in Nat /\ call.done \in Nat
    BY <1>0
  <2> HIDE DEF n
  <2>2. \A i \in call.done + 1 .. call.done + n : i - call.done - 1 \in 0..n - 1
    BY <2>1
  <2> QED
    BY <2>2 DEF n
<1>3. \A i \in 1..Len(buffer) : BurstBuffer[i] \in Nat
  <2> TAKE i \in 1..Len(buffer)
  <2>1. CASE i \in call.done + 1 .. call.done + ThisLen
    <3>1. At(i - call.done - 1) \in Addresses
      BY <2>1, <1>2, BurstReach
    <3> QED
      BY <2>1, <3>1, <1>0, <1>1
  <2>2. CASE i \notin call.done + 1 .. call.done + ThisLen
    BY <2>2, <1>0, <1>1
  <2> QED
    BY <2>1, <2>2
<1>4. BurstBuffer \in [1..Len(buffer) -> Nat]
  BY <1>1, <1>3
<1>5. BurstBuffer \in Seq(Nat) /\ Len(BurstBuffer) = Len(buffer)
  BY <1>0, <1>4, FunctionIsSeq
<1>6. ASSUME ~stale, NEW i \in 1..Len(buffer)
      PROVE  BurstBuffer[i] =
               IF i \in call.done + 1 .. call.done + ThisLen
               THEN mem[call.reg + i - 1] ELSE buffer[i]
  <2>1. CASE i \in call.done + 1 .. call.done + ThisLen
    <3>1. At(i - call.done - 1) = call.reg + call.done + (i - call.done - 1)
      BY <2>1, <1>2, <1>6, BurstReach
    <3>2. At(i - call.done - 1) = call.reg + i - 1
      BY <3>1, <1>0
    <3> QED
      BY <2>1, <3>2, <1>1
  <2>2. CASE i \notin call.done + 1 .. call.done + ThisLen
    BY <2>2, <1>1
  <2> QED
    BY <2>1, <2>2
<1> QED
  BY <1>5, <1>6

-----------------------------------------------------------------------------
(* The invariant step by step.  The bank is left to BankKept above.        *)

(* A failed transaction is counted. *)
LEMMA FaultCounted ==
  ASSUME TypeOK, Works \/ Fails
  PROVE  /\ faults' \in 0..MaxFaults /\ load.faults <= faults'
         /\ faults' = load.faults => Works /\ faults = load.faults
<1>1. faults \in 0..MaxFaults /\ MaxFaults \in Nat
  BY MemoryAssumption DEF TypeOK
<1>2. load.faults \in Nat /\ load.faults <= faults
  BY DEF TypeOK
<1>3. CASE Works
  BY <1>1, <1>2, <1>3 DEF Works
<1>4. CASE Fails
  BY <1>1, <1>2, <1>4 DEF Fails
<1> QED
  BY <1>3, <1>4

LEMMA SelectStep == MemInv /\ SelectBank => (CachedBankIsReal' => MemInv')
<1> SUFFICES ASSUME MemInv, SelectBank, CachedBankIsReal'
             PROVE  MemInv'
  OBVIOUS
<1>0. /\ TypeOK /\ CallInv /\ MoveInv /\ LoadInv /\ VerifyInv /\ CleanInv
      /\ phase = "select"
  BY DEF MemInv, SelectBank
<1>1. UNCHANGED <<startAddr, mem, firmware_loaded, call, buffer, load, calls,
                  resets>>
  BY DEF SelectBank, device, bounds
<1>2. Works \/ Fails
  BY DEF SelectBank
<1>3. /\ Bank(call.reg) \in BankNumbers /\ Bank(call.reg) # NoBank
      /\ call.done = 0 /\ call.length \in Nat \ {0}
  BY <1>0, BankOfAddress DEF CallInv
<1>4. /\ bankSel' \in BankNumbers
      /\ last_mems_bank' = Bank(call.reg)
      /\ stale' \in BOOLEAN
      /\ \/ Works /\ phase' = "address" /\ status' = status /\ (stale' => stale)
         \/ Fails /\ phase' = "returned" /\ status' = "Err"
  <2>1. CASE SelectSkipped(Bank(call.reg)) /\ Works
    <3>1. phase' = "address" /\ status' = status
      BY <2>1, FaultCounted, <1>0 DEF SelectBank, SelectFails, SelectSkipped
    <3>2. UNCHANGED <<bankSel, last_mems_bank, stale>>
      BY <2>1 DEF SelectSkipped, bank
    <3> QED
      BY <3>1, <3>2, <2>1, <1>0 DEF SelectSkipped, TypeOK
  <2>2. CASE /\ SelectWorks(Bank(call.reg)) /\ Works
             /\ phase' = "address" /\ status' = status
    BY <2>2, <1>3 DEF SelectWorks
  <2>3. CASE /\ SelectFails(Bank(call.reg)) /\ Fails
             /\ phase' = "returned" /\ status' = "Err"
    BY <2>3, <1>0, <1>3 DEF SelectFails, TypeOK
  <2> QED
    BY <2>1, <2>2, <2>3 DEF SelectBank
<1>F. /\ faults' \in 0..MaxFaults /\ load.faults <= faults'
      /\ faults' = load.faults => Works /\ faults = load.faults
  BY <1>0, <1>2, FaultCounted
<1>5. TypeOK'
  BY <1>0, <1>1, <1>3, <1>4, <1>F DEF TypeOK, Phases
<1>6. CallInv' /\ MoveInv'
  BY <1>0, <1>1, <1>3, <1>4 DEF CallInv, MoveInv, Bank
<1>7. LoadInv'
  BY <1>0, <1>1, <1>4 DEF LoadInv, Chunk, ChunkSize
<1>8. VerifyInv'
  <2> SUFFICES ASSUME load.stage = "verify", load.flag = 0, phase' = "address"
               PROVE  ~stale'
    BY <1>0, <1>1, <1>4 DEF VerifyInv, Loaded
  <2>1. CASE load.done = 0
    <3>1. call.reg = LoadStart
      BY <1>0, <2>1, Constants DEF LoadInv
    <3>2. last_mems_bank # Bank(call.reg)
      BY <1>0, <2>1, <3>1 DEF VerifyInv
    <3> QED
      BY <3>2, <1>4 DEF SelectBank, SelectSkipped, SelectWorks
  <2>2. CASE load.done # 0
    BY <2>2, <1>0, <1>4 DEF VerifyInv
  <2> QED
    BY <2>1, <2>2
<1>9. CleanInv'
  <2> SUFFICES ASSUME load.stage # "none", load.real, faults' = load.faults
               PROVE  /\ ~stale' /\ load.flag = 0 /\ phase' = "address"
                      /\ load.stage = "write" => Loaded(load.done)
                      /\ load.stage = "verify" => Loaded(Len(Image))
    BY <1>1 DEF CleanInv, Loaded
  <2>1. Works /\ faults = load.faults
    BY <1>F
  <2>2. ~(Fails /\ phase' = "returned" /\ status' = "Err")
    BY <2>1, <1>0 DEF Works, Fails, TypeOK
  <2> QED
    BY <2>1, <2>2, <1>0, <1>4 DEF CleanInv
<1> QED
  BY <1>5, <1>6, <1>7, <1>8, <1>9 DEF MemInv

LEMMA AddressStep ==
  MemInv /\ SetStartAddress => (CachedBankIsReal' => MemInv')
<1> SUFFICES ASSUME MemInv, SetStartAddress, CachedBankIsReal'
             PROVE  MemInv'
  OBVIOUS
<1>0. /\ TypeOK /\ CallInv /\ MoveInv /\ LoadInv /\ VerifyInv /\ CleanInv
      /\ phase = "address"
  BY DEF MemInv, SetStartAddress
<1>1. UNCHANGED <<bankSel, last_mems_bank, stale, mem, firmware_loaded, call,
                  buffer, load, calls, resets>>
  BY DEF SetStartAddress, bank, bounds
<1>2. \/ /\ Works /\ phase' = "burst" /\ status' = status
         /\ startAddr' = NextAddress
      \/ /\ Fails /\ phase' = "returned" /\ status' = "Err"
         /\ startAddr' \in {startAddr, NextAddress}
  BY DEF SetStartAddress
<1>F. /\ faults' \in 0..MaxFaults /\ load.faults <= faults'
      /\ faults' = load.faults => Works /\ faults = load.faults
  <2>1. Works \/ Fails
    BY <1>2
  <2> QED
    BY <2>1, <1>0, FaultCounted
<1>3. NextAddress \in 0..(BankSize - 1)
  <2>1. call.reg + call.done \in Nat /\ BankSize \in Nat \ {0}
    BY <1>0, Constants DEF TypeOK
  <2> QED
    BY <2>1, DivMod DEF NextAddress
<1>4. TypeOK'
  BY <1>0, <1>1, <1>2, <1>3, <1>F DEF TypeOK, Phases
<1>5. CallInv' /\ MoveInv'
  BY <1>0, <1>1, <1>2 DEF CallInv, MoveInv, NextAddress, Bank
<1>6. LoadInv'
  BY <1>0, <1>1, <1>2 DEF LoadInv, Chunk, ChunkSize
<1>7. VerifyInv'
  BY <1>0, <1>1, <1>2 DEF VerifyInv, Loaded
<1>8. CleanInv'
  <2> SUFFICES ASSUME load.stage # "none", load.real, faults' = load.faults
               PROVE  /\ ~stale /\ load.flag = 0 /\ phase' = "burst"
                      /\ load.stage = "write" => Loaded(load.done)
                      /\ load.stage = "verify" => Loaded(Len(Image))
    BY <1>1 DEF CleanInv, Loaded
  <2>1. Works /\ faults = load.faults
    BY <1>F
  <2>2. ~Fails
    BY <2>1, <1>0 DEF Works, Fails, TypeOK
  <2> QED
    BY <2>1, <2>2, <1>0, <1>2 DEF CleanInv
<1> QED
  BY <1>4, <1>5, <1>6, <1>7, <1>8 DEF MemInv

(* The range of a call lies in the memory. *)
LEMMA RangeInMemory ==
  ASSUME CallInv, phase # "idle", NEW i \in 1..call.length
  PROVE  call.reg + i - 1 \in Addresses
<1> DEFINE d == call.reg \div BankSize
           m == call.reg % BankSize
           e == Banks * BankSize
           b == d * BankSize
<1>1. /\ call.reg \in Addresses /\ call.length \in Nat
      /\ m + call.length <= BankSize
  BY DEF CallInv
<1>2. BankSize \in Nat \ {0} /\ call.reg \in Nat /\ Banks \in 1..255
  BY <1>1, Constants
<1>3. d \in Nat /\ m \in 0..BankSize - 1 /\ call.reg = d * BankSize + m
  BY <1>2, DivMod
<1>4. d < Banks
  BY <1>1, <1>2, <1>3, BankOfAddress DEF Bank, BankNumbers
<1>5. b + BankSize <= e /\ b \in Nat /\ e \in Nat
  <2> HIDE DEF d, m
  <2>1. d \in Int /\ Banks \in Int /\ BankSize \in Nat \ {0} /\ d \in Nat
    BY <1>2, <1>3
  <2>2. d * BankSize + BankSize <= Banks * BankSize
    BY <2>1, <1>4, Times
  <2>3. d * BankSize \in Nat
    BY <2>1
  <2>4. Banks * BankSize \in Nat
    BY <1>2
  <2> QED
    BY <2>2, <2>3, <2>4
<1>6. call.reg = b + m
  BY <1>3
<1> HIDE DEF d, m, e, b
<1>7. call.reg + i - 1 \in 0..e - 1
  BY <1>1, <1>2, <1>3, <1>5, <1>6
<1> QED
  BY <1>7 DEF e, Addresses

(* What a burst does to the call, whether it writes or reads: it advances  *)
(* by the bytes moved, or it fails and the call returns where it is.       *)
LEMMA BurstAdvances ==
  ASSUME TypeOK, CachedBankIsReal, CallInv, phase = "burst",
         \/ Works /\ Advance
         \/ Fails /\ phase' = "returned" /\ status' = "Err" /\ call' = call
  PROVE  /\ AddressAfterBurst \in 0..(BankSize - 1)
         /\ ThisLen \in Nat \ {0} /\ call.done + ThisLen <= call.length
         /\ call.done \in Nat /\ call.length \in Nat /\ call.reg \in Nat
         /\ call' \in [kind : {"write", "read"}, reg : Nat, length : Nat,
                       data : Seq(Nat), done : Nat]
         /\ call'.kind = call.kind /\ call'.reg = call.reg
         /\ call'.length = call.length /\ call'.data = call.data
         /\ call'.done <= call'.length
         /\ call'.done = call.done
              \/ (call'.done = call.done + ThisLen /\ Works)
         /\ \/ Works /\ phase' = "address" /\ status' = status
                   /\ call'.done < call.length
            \/ Works /\ phase' = "returned" /\ status' = "Ok"
                   /\ call'.done = call.length
            \/ Fails /\ phase' = "returned" /\ status' = "Err"
<1>1. /\ call.done \in Nat /\ call.length \in Nat /\ call.reg \in Nat
      /\ call.done <= call.length
      /\ call \in [kind : {"write", "read"}, reg : Nat, length : Nat,
                   data : Seq(Nat), done : Nat]
  BY DEF TypeOK
<1>2. ThisLen \in 1..MaxSerial /\ call.done + ThisLen <= call.length
  BY BurstReach
<1>3. BankSize \in Nat \ {0} /\ MaxSerial \in Nat
  BY Constants
<1>4. ThisLen \in Nat \ {0}
  BY <1>2, <1>3
<1>5. startAddr \in Nat
  BY <1>3 DEF TypeOK
<1>6. AddressAfterBurst \in 0..(BankSize - 1)
  <2>1. startAddr + ThisLen + 1 \in Nat
    BY <1>4, <1>5
  <2> QED
    BY <2>1, <1>3, DivMod DEF AddressAfterBurst
<1>7. CASE Works /\ Advance
  <2> DEFINE next == call.done + ThisLen
  <2>1. call' = [call EXCEPT !.done = next]
    BY <1>7 DEF Advance
  <2>2. next \in Nat /\ next <= call.length
    BY <1>1, <1>2, <1>4
  <2> HIDE DEF next
  <2>3. /\ call' \in [kind : {"write", "read"}, reg : Nat, length : Nat,
                      data : Seq(Nat), done : Nat]
        /\ call'.kind = call.kind /\ call'.reg = call.reg
        /\ call'.length = call.length /\ call'.data = call.data
        /\ call'.done = next
    BY <2>1, <2>2, <1>1
  <2>4. \/ phase' = "address" /\ status' = status /\ next < call.length
        \/ phase' = "returned" /\ status' = "Ok" /\ next = call.length
    BY <1>1, <1>4, <2>2, <1>7 DEF Advance, next
  <2> QED
    BY <1>1, <1>2, <1>4, <1>6, <1>7, <2>2, <2>3, <2>4 DEF next
<1>8. CASE Fails /\ phase' = "returned" /\ status' = "Err" /\ call' = call
  BY <1>1, <1>2, <1>4, <1>6, <1>8
<1> QED
  BY <1>7, <1>8

LEMMA WriteStep == MemInv /\ WriteBurst => (CachedBankIsReal' => MemInv')
<1> SUFFICES ASSUME MemInv, WriteBurst, CachedBankIsReal'
             PROVE  MemInv'
  OBVIOUS
<1>0. /\ TypeOK /\ CallInv /\ MoveInv /\ LoadInv /\ VerifyInv /\ CleanInv
      /\ CachedBankIsReal /\ phase = "burst" /\ call.kind = "write"
  BY DEF MemInv, WriteBurst
<1>1. UNCHANGED <<bankSel, last_mems_bank, stale, firmware_loaded, buffer,
                  load, calls, resets>>
  BY DEF WriteBurst, bank, bounds
<1>2. \/ /\ Works /\ mem' = BurstMem /\ Advance
         /\ startAddr' = AddressAfterBurst
      \/ /\ Fails /\ phase' = "returned" /\ status' = "Err" /\ call' = call
         /\ \/ UNCHANGED <<startAddr, mem>>
            \/ mem' = BurstMem /\ startAddr' = AddressAfterBurst
  BY DEF WriteBurst
<1>F. /\ faults' \in 0..MaxFaults /\ load.faults <= faults'
      /\ faults' = load.faults => Works /\ faults = load.faults
  <2>1. Works \/ Fails
    BY <1>2
  <2> QED
    BY <2>1, <1>0, FaultCounted
<1>A. \/ Works /\ Advance
      \/ Fails /\ phase' = "returned" /\ status' = "Err" /\ call' = call
  BY <1>2
<1>3. AddressAfterBurst \in 0..(BankSize - 1)
  BY <1>0, <1>A, BurstAdvances
<1>4. /\ ThisLen \in Nat \ {0} /\ call.done + ThisLen <= call.length
      /\ call.done \in Nat /\ call.length \in Nat /\ call.reg \in Nat
  BY <1>0, <1>A, BurstAdvances
<1>5. /\ call' \in [kind : {"write", "read"}, reg : Nat, length : Nat,
                    data : Seq(Nat), done : Nat]
      /\ call'.kind = call.kind /\ call'.reg = call.reg
      /\ call'.length = call.length /\ call'.data = call.data
      /\ call'.done <= call'.length
      /\ call'.done = call.done \/ (call'.done = call.done + ThisLen /\ Works)
  BY <1>0, <1>A, BurstAdvances
<1>6. \/ Works /\ phase' = "address" /\ status' = status
              /\ call'.done < call.length
      \/ Works /\ phase' = "returned" /\ status' = "Ok"
              /\ call'.done = call.length
      \/ Fails /\ phase' = "returned" /\ status' = "Err"
  BY <1>0, <1>A, BurstAdvances
<1>7. /\ BurstMem \in [Addresses -> Nat]
      /\ ~stale => \A a \in Addresses :
           BurstMem[a] =
             IF a \in call.reg + call.done ..
                      call.reg + call.done + ThisLen - 1
             THEN call.data[a - call.reg + 1] ELSE mem[a]
  BY <1>0, BurstStores
<1>8. TypeOK'
  <2>1. mem' \in [Addresses -> Nat] /\ startAddr' \in 0..(BankSize - 1)
    BY <1>0, <1>2, <1>3, <1>7 DEF TypeOK
  <2>2. phase' \in Phases /\ status' \in {"Ok", "Err", "VerifyFail"}
    BY <1>0, <1>6 DEF TypeOK, Phases
  <2> QED
    BY <2>1, <2>2, <1>0, <1>1, <1>5, <1>F DEF TypeOK
<1>9. CallInv'
  BY <1>0, <1>1, <1>5, <1>6 DEF CallInv, Bank
<1>10. MoveInv'
  <2> SUFFICES ASSUME ~stale, NEW i \in 1..call'.done
               PROVE  mem'[call.reg + i - 1] = call.data[i]
    BY <1>0, <1>1, <1>5 DEF MoveInv
  <2>1. /\ i \in Nat /\ i \in 1..call.length
        /\ call.reg + i - 1 \in Addresses
    BY <1>0, <1>4, <1>5, RangeInMemory
  <2>2. i <= call.done => mem[call.reg + i - 1] = call.data[i]
    BY <2>1, <1>0, <1>4 DEF MoveInv
  <2>3. (call.reg + i - 1) - call.reg + 1 = i
    BY <2>1, <1>4
  <2>4. BurstMem[call.reg + i - 1] =
          IF i \in call.done + 1 .. call.done + ThisLen
          THEN call.data[i] ELSE mem[call.reg + i - 1]
    <3>1. call.reg + i - 1 \in call.reg + call.done ..
                               call.reg + call.done + ThisLen - 1
            <=> i \in call.done + 1 .. call.done + ThisLen
      BY <2>1, <1>4
    <3> QED
      BY <2>1, <2>3, <3>1, <1>7
  <2>5. CASE i <= call.done
    BY <2>1, <2>2, <2>4, <2>5, <1>2, <1>4
  <2>6. CASE ~(i <= call.done)
    <3>1. Works /\ call'.done = call.done + ThisLen
      BY <2>1, <2>6, <1>4, <1>5
    <3>2. mem' = BurstMem
      BY <3>1, <1>0, <1>2 DEF Works, Fails, TypeOK
    <3>3. i \in call.done + 1 .. call.done + ThisLen
      BY <3>1, <2>1, <2>6, <1>4
    <3> QED
      BY <3>2, <3>3, <2>4
  <2> QED
    BY <2>5, <2>6
<1>11. LoadInv'
  BY <1>0, <1>1, <1>5, <1>6 DEF LoadInv, Chunk, ChunkSize
<1>12. load.stage # "verify"
  BY <1>0 DEF LoadInv
<1>13. VerifyInv'
  BY <1>1, <1>12 DEF VerifyInv
<1>14. CleanInv'
  <2> SUFFICES ASSUME load.stage # "none", load.real, faults' = load.faults
               PROVE  /\ ~stale /\ load.flag = 0
                      /\ phase' = "returned" => status' = "Ok"
                      /\ load.stage = "write" => Loaded(load.done)'
    BY <1>1, <1>12 DEF CleanInv
  <2>1. Works /\ faults = load.faults /\ ~Fails
    BY <1>0, <1>F DEF Works, Fails, TypeOK
  <2>2. ~stale /\ load.flag = 0 /\ (load.stage = "write" => Loaded(load.done))
    BY <2>1, <1>0 DEF CleanInv
  <2>3. ASSUME load.stage = "write", NEW i \in 1..load.done
        PROVE  mem'[LoadStart + i - 1] = Image[i]
    <3>1. /\ call.reg = LoadStart + load.done /\ i \in 1..Len(Image)
          /\ load.done \in Nat /\ i \in Nat /\ LoadStart \in Nat
      BY <1>0, <2>3, Constants DEF LoadInv
    <3>2. LoadStart + i - 1 < call.reg + call.done
          /\ LoadStart + i - 1 \in Addresses
      <4>1. LoadStart + i - 1 \in Addresses
        BY <3>1, Constants
      <4>2. /\ call.reg = LoadStart + load.done /\ load.done \in Nat
            /\ i \in Nat /\ i <= load.done /\ LoadStart \in Nat
            /\ call.done \in Nat
        BY <3>1, <1>4
      <4> QED
        BY <4>1, <4>2
    <3>3. BurstMem[LoadStart + i - 1] = mem[LoadStart + i - 1]
      <4> DEFINE a == LoadStart + i - 1
      <4>1. a \in Addresses /\ ~stale
        BY <3>2, <2>2
      <4>2. a \notin call.reg + call.done .. call.reg + call.done + ThisLen - 1
        BY <3>1, <3>2, <1>4
      <4> HIDE DEF a
      <4>3. BurstMem[a] = mem[a]
        BY <4>1, <4>2, <1>7
      <4> QED
        BY <4>3 DEF a
    <3>4. mem'[LoadStart + i - 1] = mem[LoadStart + i - 1]
      BY <3>3, <1>2
    <3> QED
      BY <3>4, <2>2, <2>3 DEF Loaded
  <2> QED
    BY <2>1, <2>2, <2>3, <1>1, <1>6 DEF Loaded
<1> QED
  BY <1>8, <1>9, <1>10, <1>11, <1>13, <1>14 DEF MemInv

LEMMA ReadStep == MemInv /\ ReadBurst => (CachedBankIsReal' => MemInv')
<1> SUFFICES ASSUME MemInv, ReadBurst, CachedBankIsReal'
             PROVE  MemInv'
  OBVIOUS
<1>0. /\ TypeOK /\ CallInv /\ MoveInv /\ LoadInv /\ VerifyInv /\ CleanInv
      /\ CachedBankIsReal /\ phase = "burst" /\ call.kind = "read"
  BY DEF MemInv, ReadBurst
<1>1. UNCHANGED <<bankSel, last_mems_bank, stale, mem, firmware_loaded, load,
                  calls, resets>>
  BY DEF ReadBurst, bank, bounds
<1>2. \/ /\ Works /\ buffer' = BurstBuffer /\ Advance
         /\ startAddr' = AddressAfterBurst
      \/ /\ Fails /\ phase' = "returned" /\ status' = "Err"
         /\ call' = call /\ buffer' = buffer
         /\ startAddr' \in {startAddr, AddressAfterBurst}
  BY DEF ReadBurst
<1>F. /\ faults' \in 0..MaxFaults /\ load.faults <= faults'
      /\ faults' = load.faults => Works /\ faults = load.faults
  <2>1. Works \/ Fails
    BY <1>2
  <2> QED
    BY <2>1, <1>0, FaultCounted
<1>A. \/ Works /\ Advance
      \/ Fails /\ phase' = "returned" /\ status' = "Err" /\ call' = call
  BY <1>2
<1>3. AddressAfterBurst \in 0..(BankSize - 1)
  BY <1>0, <1>A, BurstAdvances
<1>4. /\ ThisLen \in Nat \ {0} /\ call.done + ThisLen <= call.length
      /\ call.done \in Nat /\ call.length \in Nat /\ call.reg \in Nat
  BY <1>0, <1>A, BurstAdvances
<1>5. /\ call' \in [kind : {"write", "read"}, reg : Nat, length : Nat,
                    data : Seq(Nat), done : Nat]
      /\ call'.kind = call.kind /\ call'.reg = call.reg
      /\ call'.length = call.length /\ call'.data = call.data
      /\ call'.done <= call'.length
      /\ call'.done = call.done \/ (call'.done = call.done + ThisLen /\ Works)
  BY <1>0, <1>A, BurstAdvances
<1>6. \/ Works /\ phase' = "address" /\ status' = status
              /\ call'.done < call.length
      \/ Works /\ phase' = "returned" /\ status' = "Ok"
              /\ call'.done = call.length
      \/ Fails /\ phase' = "returned" /\ status' = "Err"
  BY <1>0, <1>A, BurstAdvances
<1>7. /\ BurstBuffer \in Seq(Nat) /\ Len(BurstBuffer) = Len(buffer)
      /\ ~stale => \A i \in 1..Len(buffer) :
           BurstBuffer[i] = IF i \in call.done + 1 .. call.done + ThisLen
                            THEN mem[call.reg + i - 1] ELSE buffer[i]
  BY <1>0, BurstFetches
<1>8. /\ buffer' \in Seq(Nat) /\ Len(buffer') = Len(buffer)
      /\ call.length <= Len(buffer) /\ Len(buffer) \in Nat
  BY <1>0, <1>2, <1>7, LenProperties DEF TypeOK, CallInv
<1>9. TypeOK'
  <2>1. startAddr' \in 0..(BankSize - 1)
    BY <1>0, <1>2, <1>3 DEF TypeOK
  <2>2. phase' \in Phases /\ status' \in {"Ok", "Err", "VerifyFail"}
    BY <1>0, <1>6 DEF TypeOK, Phases
  <2> QED
    BY <2>1, <2>2, <1>0, <1>1, <1>5, <1>8, <1>F DEF TypeOK
<1>10. CallInv'
  BY <1>0, <1>1, <1>5, <1>6, <1>8 DEF CallInv, Bank
<1>11. MoveInv'
  <2> SUFFICES ASSUME ~stale, NEW i \in 1..call'.done
               PROVE  mem[call.reg + i - 1] = buffer'[i]
    BY <1>0, <1>1, <1>5 DEF MoveInv
  <2>1. i \in Nat /\ i \in 1..Len(buffer)
    BY <1>4, <1>5, <1>8
  <2>2. i <= call.done => mem[call.reg + i - 1] = buffer[i]
    BY <2>1, <1>0, <1>4 DEF MoveInv
  <2>3. BurstBuffer[i] = IF i \in call.done + 1 .. call.done + ThisLen
                         THEN mem[call.reg + i - 1] ELSE buffer[i]
    BY <2>1, <1>7
  <2>4. CASE i <= call.done
    BY <2>1, <2>2, <2>3, <2>4, <1>2, <1>4
  <2>5. CASE ~(i <= call.done)
    <3>1. Works /\ call'.done = call.done + ThisLen
      BY <2>1, <2>5, <1>4, <1>5
    <3>2. buffer' = BurstBuffer
      BY <3>1, <1>0, <1>2 DEF Works, Fails, TypeOK
    <3>3. i \in call.done + 1 .. call.done + ThisLen
      BY <3>1, <2>1, <2>5, <1>4
    <3> QED
      BY <3>2, <3>3, <2>3
  <2> QED
    BY <2>4, <2>5
<1>12. LoadInv'
  BY <1>0, <1>1, <1>5, <1>6, <1>8 DEF LoadInv, Chunk, ChunkSize
<1>13. VerifyInv'
  BY <1>0, <1>1, <1>6 DEF VerifyInv, Loaded
<1>14. CleanInv'
  <2> SUFFICES ASSUME load.stage # "none", load.real, faults' = load.faults
               PROVE  /\ ~stale /\ load.flag = 0
                      /\ phase' = "returned" => status' = "Ok"
                      /\ load.stage = "write" => Loaded(load.done)
                      /\ load.stage = "verify" => Loaded(Len(Image))
    BY <1>1 DEF CleanInv, Loaded
  <2>1. Works /\ faults = load.faults /\ ~Fails
    BY <1>0, <1>F DEF Works, Fails, TypeOK
  <2> QED
    BY <2>1, <1>0, <1>6 DEF CleanInv
<1> QED
  BY <1>9, <1>10, <1>11, <1>12, <1>13, <1>14 DEF MemInv

(* A buffer filled with one byte, and the first chunk of the image. *)
LEMMA Filled ==
  /\ \A n \in Nat, v \in Nat :
       [i \in 1..n |-> v] \in Seq(Nat) /\ Len([i \in 1..n |-> v]) = n
  /\ NoData \in Seq(Nat) /\ Len(NoData) = MaxSerial
  /\ FirstChunk \in Seq(Nat) /\ Len(FirstChunk) = MaxSerial
<1>1. ASSUME NEW n \in Nat, NEW v \in Nat
      PROVE  [i \in 1..n |-> v] \in Seq(Nat) /\ Len([i \in 1..n |-> v]) = n
  <2> DEFINE f == [i \in 1..n |-> v]
  <2>1. f \in [1..n -> Nat]
    OBVIOUS
  <2> HIDE DEF f
  <2>2. f \in Seq(Nat) /\ Len(f) = n
    BY <2>1, FunctionIsSeq
  <2> QED
    BY <2>2 DEF f
<1>2. NoData \in Seq(Nat) /\ Len(NoData) = MaxSerial
  <2>1. MaxSerial \in Nat /\ Junk \in Nat
    BY Constants DEF Junk
  <2> QED
    BY <2>1, <1>1 DEF NoData
<1>3. FirstChunk \in Seq(Nat) /\ Len(FirstChunk) = MaxSerial
  <2>1. /\ MaxSerial \in Nat \ {0} /\ Image \in Seq(Nat)
        /\ \A i \in 1..MaxSerial : Image[i] \in Nat
    BY Constants, ImageAssumption
  <2>2. 1 \in Int /\ MaxSerial \in Int /\ 1 <= MaxSerial /\ MaxSerial - 1 + 1 = MaxSerial
    BY <2>1
  <2>3. /\ SubSeq(Image, 1, MaxSerial) \in Seq(Nat)
        /\ Len(SubSeq(Image, 1, MaxSerial))
             = IF 1 <= MaxSerial THEN MaxSerial - 1 + 1 ELSE 0
    BY <2>1, <2>2, SubSeqProperties
  <2> QED
    BY <2>2, <2>3 DEF FirstChunk
<1> QED
  BY <1>1, <1>2, <1>3

(* Back to where nothing runs, after a restart or the end of a load. *)
LEMMA NothingRuns ==
  ASSUME load' = NoLoad, phase' = "idle", call' = NoCall, buffer' = NoData
  PROVE  /\ call' \in [kind : {"write", "read"}, reg : Nat, length : Nat,
                       data : Seq(Nat), done : Nat]
         /\ call'.done <= call'.length
         /\ load' \in [stage : Stages, memaddr : Nat, done : Nat, flag : Nat,
                       real : BOOLEAN, faults : Nat] /\ load'.faults = 0
         /\ buffer' \in Seq(Nat) /\ phase' \in Phases
         /\ CallInv' /\ MoveInv' /\ LoadInv' /\ VerifyInv' /\ CleanInv'
<1>1. << >> \in Seq(Nat)
  BY EmptySeq
<1>2. call' \in [kind : {"write", "read"}, reg : Nat, length : Nat,
                 data : Seq(Nat), done : Nat] /\ call'.done <= call'.length
  BY <1>1 DEF NoCall
<1>3. /\ load' \in [stage : Stages, memaddr : Nat, done : Nat, flag : Nat,
                    real : BOOLEAN, faults : Nat] /\ load'.faults = 0
      /\ load'.stage = "none" /\ load'.memaddr = LoadStart /\ load'.done = 0
      /\ load'.flag = 0
  BY Constants DEF NoLoad, Stages
<1>4. CallInv' /\ MoveInv'
  BY DEF CallInv, MoveInv
<1>5. 0 % MaxSerial = 0 /\ 0 \in 0..Len(Image) /\ LoadStart + 0 = LoadStart
  <2>1. MaxSerial \in Nat \ {0} /\ Len(Image) \in Nat /\ LoadStart \in Nat
    BY Constants
  <2>2. 0 = 0 * MaxSerial
    BY <2>1
  <2>3. 0 % MaxSerial = 0
    BY <2>1, <2>2, Multiple
  <2> QED
    BY <2>1, <2>3
<1>6. LoadInv'
  BY <1>3, <1>5 DEF LoadInv
<1>7. VerifyInv' /\ CleanInv'
  BY <1>3 DEF VerifyInv, CleanInv
<1> QED
  BY <1>2, <1>3, <1>4, <1>6, <1>7, Filled DEF Phases

LEMMA MemInit == Init => MemInv
<1> SUFFICES ASSUME Init
             PROVE  MemInv
  OBVIOUS
<1>1. /\ BankInit /\ firmware_loaded = FALSE /\ startAddr = 0
      /\ mem = [a \in Addresses |-> Junk] /\ call = NoCall /\ phase = "idle"
      /\ load = NoLoad /\ buffer = NoData /\ status = "Ok"
      /\ calls = 0 /\ faults = 0 /\ resets = 0
  BY DEF Init
<1>2. /\ BankSize \in Nat \ {0} /\ Banks \in 1..255 /\ LoadStart \in Nat
      /\ MaxSerial \in Nat \ {0} /\ Len(Image) \in Nat
      /\ MaxCalls \in Nat /\ MaxFaults \in Nat /\ MaxResets \in Nat
  BY Constants, MemoryAssumption
<1>3. << >> \in Seq(Nat)
  BY EmptySeq
<1>4. /\ call \in [kind : {"write", "read"}, reg : Nat, length : Nat,
                   data : Seq(Nat), done : Nat] /\ call.done <= call.length
      /\ load \in [stage : Stages, memaddr : Nat, done : Nat, flag : Nat,
                   real : BOOLEAN, faults : Nat] /\ load.faults <= faults
      /\ load.stage = "none" /\ load.memaddr = LoadStart /\ load.done = 0
      /\ load.flag = 0
  BY <1>1, <1>2, <1>3 DEF NoCall, NoLoad, Stages
<1>5. mem \in [Addresses -> Nat]
  BY <1>1 DEF Junk
<1>6. TypeOK
  <2>1. stale \in BOOLEAN /\ firmware_loaded \in BOOLEAN
    BY <1>1 DEF BankInit
  <2>2. /\ bankSel \in BankNumbers /\ startAddr \in 0..(BankSize - 1)
        /\ last_mems_bank \in BankNumbers \cup {NoBank}
    <3>1. bankSel = 0 /\ last_mems_bank = NoBank /\ startAddr = 0
      BY <1>1 DEF BankInit
    <3> QED
      BY <3>1, <1>2 DEF BankNumbers
  <2>3. /\ calls \in 0..MaxCalls /\ faults \in 0..MaxFaults
        /\ resets \in 0..MaxResets
    <3>1. calls = 0 /\ faults = 0 /\ resets = 0
      BY <1>1
    <3> QED
      BY <3>1, <1>2
  <2>4. phase \in Phases /\ status \in {"Ok", "Err", "VerifyFail"}
    BY <1>1 DEF Phases
  <2>5. buffer \in Seq(Nat)
    BY <1>1, Filled
  <2> QED
    BY <2>1, <2>2, <2>3, <2>4, <2>5, <1>4, <1>5 DEF TypeOK
<1>7. 0 % MaxSerial = 0
  <2>1. 0 = 0 * MaxSerial
    BY <1>2
  <2> QED
    BY <2>1, <1>2, Multiple
<1>8. LoadInv
  BY <1>1, <1>2, <1>4, <1>7 DEF LoadInv
<1>9. CachedBankIsReal /\ CallInv /\ MoveInv /\ VerifyInv /\ CleanInv
  BY <1>1, <1>4
     DEF CachedBankIsReal, BankInit, CallInv, MoveInv, VerifyInv, CleanInv
<1> QED
  BY <1>6, <1>8, <1>9 DEF MemInv

(* A call begins. *)
LEMMA Started ==
  ASSUME NEW kind \in {"write", "read"}, NEW reg \in Nat,
         NEW data \in Seq(Nat), Start(kind, reg, data)
  PROVE  /\ call' \in [kind : {"write", "read"}, reg : Nat, length : Nat,
                       data : Seq(Nat), done : Nat]
         /\ call'.kind = kind /\ call'.reg = reg /\ call'.data = data
         /\ call'.length = Len(data) /\ call'.done = 0
         /\ call'.done <= call'.length /\ phase' = "select"
<1>1. Len(data) \in Nat
  BY LenProperties
<1> QED
  BY <1>1 DEF Start

LEMMA ClientStep ==
  ASSUME NEW c \in Ranges
  PROVE  MemInv /\ (WriteDMPmems(c) \/ ReadDMPmems(c))
           => (CachedBankIsReal' => MemInv')
<1> SUFFICES ASSUME MemInv, WriteDMPmems(c) \/ ReadDMPmems(c),
                    CachedBankIsReal'
             PROVE  MemInv'
  OBVIOUS
<1>0. /\ TypeOK /\ LoadInv /\ load.stage = "none" /\ calls < MaxCalls
      /\ calls' = calls + 1
  BY DEF MemInv, WriteDMPmems, ReadDMPmems, NewCall, Idle
<1>1. UNCHANGED <<bankSel, last_mems_bank, stale, startAddr, mem,
                  firmware_loaded, load, status, faults, resets>>
  BY DEF WriteDMPmems, ReadDMPmems, bank, device
<1>2. /\ c.reg \in Addresses /\ c.reg \in Nat /\ c.length \in Nat \ {0}
      /\ (c.reg % BankSize) + c.length <= BankSize
  BY RangesAssumption, Constants
<1>3. PICK v \in {Payload, Junk} :
        \E k \in {"write", "read"} :
          /\ Start(k, c.reg, [i \in 1..c.length |-> v])
          /\ \/ k = "write" /\ buffer' = buffer
             \/ k = "read" /\ buffer' = [i \in 1..c.length |-> Junk]
  BY DEF WriteDMPmems, ReadDMPmems
<1>4. PICK k \in {"write", "read"} :
        /\ Start(k, c.reg, [i \in 1..c.length |-> v])
        /\ \/ k = "write" /\ buffer' = buffer
           \/ k = "read" /\ buffer' = [i \in 1..c.length |-> Junk]
  BY <1>3
<1> DEFINE d == [i \in 1..c.length |-> v]
           j == [i \in 1..c.length |-> Junk]
<1>5. d \in Seq(Nat) /\ Len(d) = c.length /\ j \in Seq(Nat) /\ Len(j) = c.length
  <2>1. v \in Nat /\ Junk \in Nat
    BY MemoryAssumption DEF Junk
  <2> QED
    BY <2>1, <1>2, Filled
<1>6. /\ Start(k, c.reg, d)
      /\ (k = "write" /\ buffer' = buffer) \/ (k = "read" /\ buffer' = j)
  <2>1. Start(k, c.reg, d)
    BY <1>4
  <2>2. (k = "write" /\ buffer' = buffer) \/ (k = "read" /\ buffer' = j)
    BY <1>4
  <2> QED
    BY <2>1, <2>2
<1> HIDE DEF d, j
<1>7. /\ call' \in [kind : {"write", "read"}, reg : Nat, length : Nat,
                    data : Seq(Nat), done : Nat]
      /\ call'.kind = k /\ call'.reg = c.reg /\ call'.data = d
      /\ call'.length = c.length /\ call'.done = 0
      /\ call'.done <= call'.length /\ phase' = "select"
  BY <1>2, <1>5, <1>6, Started
<1>8. buffer' \in Seq(Nat) /\ (k = "read" => c.length <= Len(buffer'))
  <2>1. buffer \in Seq(Nat)
    BY <1>0 DEF TypeOK
  <2>2. c.length <= Len(j)
    BY <1>2, <1>5
  <2> QED
    BY <2>1, <2>2, <1>5, <1>6
<1>9. TypeOK'
  <2>1. calls' \in 0..MaxCalls
    BY <1>0, MemoryAssumption DEF TypeOK
  <2> QED
    BY <2>1, <1>0, <1>1, <1>7, <1>8 DEF TypeOK, Phases
<1>10. CallInv' /\ MoveInv'
  BY <1>2, <1>5, <1>7, <1>8 DEF CallInv, MoveInv
<1>11. LoadInv' /\ VerifyInv' /\ CleanInv'
  BY <1>0, <1>1 DEF LoadInv, VerifyInv, CleanInv
<1> QED
  BY <1>9, <1>10, <1>11 DEF MemInv

LEMMA ReturnStep == MemInv /\ CallReturns => (CachedBankIsReal' => MemInv')
<1> SUFFICES ASSUME MemInv, CallReturns, CachedBankIsReal'
             PROVE  MemInv'
  OBVIOUS
<1>0. TypeOK /\ LoadInv /\ load.stage = "none"
  BY DEF MemInv, CallReturns
<1>1. UNCHANGED <<bankSel, last_mems_bank, stale, startAddr, mem,
                  firmware_loaded, load, status, calls, resets, faults>>
  BY DEF CallReturns, bank, device, bounds
<1>2. phase' = "idle" /\ call' = NoCall /\ buffer' = NoData
  BY DEF CallReturns
<1>3. /\ call' \in [kind : {"write", "read"}, reg : Nat, length : Nat,
                    data : Seq(Nat), done : Nat]
      /\ call'.done <= call'.length
  BY <1>2, EmptySeq DEF NoCall
<1>4. TypeOK'
  BY <1>0, <1>1, <1>2, <1>3, Filled DEF TypeOK, Phases
<1>5. CallInv' /\ MoveInv'
  BY <1>2 DEF CallInv, MoveInv
<1>6. LoadInv' /\ VerifyInv' /\ CleanInv'
  BY <1>0, <1>1 DEF LoadInv, VerifyInv, CleanInv
<1> QED
  BY <1>4, <1>5, <1>6 DEF MemInv

LEMMA ResetStep ==
  MemInv /\ (SwReset \/ Restart) => (CachedBankIsReal' => MemInv')
<1> SUFFICES ASSUME MemInv, CachedBankIsReal', SwReset \/ Restart
             PROVE  MemInv'
  OBVIOUS
<1>0. TypeOK /\ CallInv /\ MoveInv /\ LoadInv
  BY DEF MemInv
<1>1. /\ bankSel' \in BankNumbers
      /\ last_mems_bank' \in BankNumbers \cup {NoBank}
      /\ startAddr' \in 0..(BankSize - 1) /\ resets' \in 0..MaxResets
  <2>1. resets < MaxResets /\ resets' = resets + 1 /\ startAddr' = 0
    BY DEF SwReset, Restart
  <2>2. BankSize \in Nat \ {0} /\ Banks \in 1..255 /\ MaxResets \in Nat
    BY Constants, MemoryAssumption
  <2>3. resets' \in 0..MaxResets
    BY <2>1, <2>2, <1>0 DEF TypeOK
  <2>4. /\ bankSel' = 0
        /\ last_mems_bank' = last_mems_bank \/ last_mems_bank' = NoBank
    BY DEF SwReset, Restart, BankReset, BankBegin
  <2>5. bankSel' \in BankNumbers /\ startAddr' \in 0..(BankSize - 1)
    BY <2>1, <2>2, <2>4 DEF BankNumbers
  <2>6. last_mems_bank' \in BankNumbers \cup {NoBank}
    BY <2>4, <1>0 DEF TypeOK
  <2> QED
    BY <2>3, <2>5, <2>6
<1>2. stale' \in BOOLEAN
  BY DEF SwReset, Restart, BankReset, BankBegin
<1>3. CASE SwReset
  <2>1. /\ load.stage = "none" /\ phase = "idle"
        /\ UNCHANGED <<mem, firmware_loaded, call, phase, buffer, load, status,
                       calls, faults>>
    BY <1>3 DEF SwReset, Idle
  <2>2. TypeOK'
    BY <2>1, <1>0, <1>1, <1>2 DEF TypeOK
  <2>3. CallInv' /\ MoveInv' /\ LoadInv' /\ VerifyInv' /\ CleanInv'
    BY <2>1, <1>0 DEF CallInv, MoveInv, LoadInv, VerifyInv, CleanInv
  <2> QED
    BY <2>2, <2>3 DEF MemInv
<1>4. CASE Restart
  <2>1. /\ load' = NoLoad /\ phase' = "idle" /\ call' = NoCall
        /\ buffer' = NoData /\ status' = "Ok"
        /\ UNCHANGED <<mem, calls, faults>>
    BY <1>4 DEF Restart
  <2>2. firmware_loaded' \in BOOLEAN
    BY <1>4 DEF Restart
  <2>3. faults \in 0..MaxFaults /\ MaxFaults \in Nat
    BY <1>0, MemoryAssumption DEF TypeOK
  <2>4. load'.faults <= faults'
    BY <2>1, <2>3, NothingRuns
  <2>5. TypeOK'
    BY <2>1, <2>2, <2>4, <1>0, <1>1, <1>2, NothingRuns DEF TypeOK
  <2> QED
    BY <2>1, <2>5, NothingRuns DEF MemInv
<1> QED
  BY <1>3, <1>4

(* A load ends, one way or another. *)
LEMMA LoadEnded ==
  ASSUME MemInv, CachedBankIsReal', NEW s \in {"Ok", "Err", "VerifyFail"},
         LoadReturns(s), Works \/ Fails, firmware_loaded' \in BOOLEAN,
         UNCHANGED <<bank, device, bounds>>
  PROVE  MemInv'
<1>0. TypeOK
  BY DEF MemInv
<1>1. /\ load' = NoLoad /\ phase' = "idle" /\ call' = NoCall /\ status' = s
      /\ buffer' = NoData
      /\ UNCHANGED <<bankSel, last_mems_bank, stale, startAddr, mem, calls,
                     resets>>
  BY DEF LoadReturns, bank, device, bounds
<1>2. faults' \in 0..MaxFaults
  BY <1>0, FaultCounted
<1>3. load'.faults <= faults'
  BY <1>1, <1>2, MemoryAssumption, NothingRuns
<1>4. TypeOK'
  BY <1>0, <1>1, <1>2, <1>3, NothingRuns DEF TypeOK
<1> QED
  BY <1>1, <1>4, NothingRuns DEF MemInv

LEMMA LoadBegins ==
  MemInv /\ LoadDMPFirmware => (CachedBankIsReal' => MemInv')
<1> SUFFICES ASSUME MemInv, LoadDMPFirmware, CachedBankIsReal'
             PROVE  MemInv'
  OBVIOUS
<1>0. /\ TypeOK /\ LoadInv /\ phase = "idle" /\ load.stage = "none"
      /\ calls < MaxCalls /\ calls' = calls + 1
  BY DEF MemInv, LoadDMPFirmware, NewCall, Idle
<1>1. UNCHANGED <<bankSel, last_mems_bank, stale, startAddr, mem,
                  firmware_loaded, call, phase, faults, resets>>
  BY DEF LoadDMPFirmware, bank, device
<1>2. calls' \in 0..MaxCalls
  BY <1>0, MemoryAssumption DEF TypeOK
<1>3. CallInv' /\ MoveInv'
  BY <1>0, <1>1 DEF CallInv, MoveInv
<1>4. CASE firmware_loaded /\ status' = "Ok" /\ UNCHANGED <<load, buffer>>
  <2>1. TypeOK'
    BY <1>0, <1>1, <1>2, <1>4 DEF TypeOK
  <2>2. LoadInv' /\ VerifyInv' /\ CleanInv'
    BY <1>0, <1>1, <1>4 DEF LoadInv, VerifyInv, CleanInv
  <2> QED
    BY <1>3, <2>1, <2>2 DEF MemInv
<1>5. CASE /\ ~firmware_loaded
           /\ load' = [NoLoad EXCEPT !.stage = "wake", !.real = ~stale,
                                     !.faults = faults]
           /\ buffer' \in {NoData, FirstChunk}
           /\ status' = status
  <2>1. faults \in Nat /\ (~stale) \in BOOLEAN
    <3>1. faults \in Nat
      BY <1>0, MemoryAssumption DEF TypeOK
    <3>2. (~stale) \in BOOLEAN
      OBVIOUS
    <3> QED
      BY <3>1, <3>2
  <2>2. /\ load' \in [stage : Stages, memaddr : Nat, done : Nat, flag : Nat,
                      real : BOOLEAN, faults : Nat]
        /\ load'.stage = "wake" /\ load'.memaddr = LoadStart
        /\ load'.done = 0 /\ load'.flag = 0 /\ load'.faults = faults
        /\ load'.real => ~stale
    BY <2>1, <1>5, Constants DEF NoLoad, Stages
  <2>3. buffer' \in Seq(Nat) /\ Len(buffer') = MaxSerial
    BY <1>5, Filled
  <2>4. TypeOK'
    <3>1. status' = status /\ load'.faults <= faults'
      BY <1>1, <1>5, <2>1, <2>2
    <3> QED
      BY <3>1, <1>0, <1>1, <1>2, <2>2, <2>3 DEF TypeOK
  <2>5. 0 % MaxSerial = 0 /\ 0 \in 0..Len(Image) /\ LoadStart + 0 = LoadStart
    <3>1. MaxSerial \in Nat \ {0} /\ Len(Image) \in Nat /\ LoadStart \in Nat
      BY Constants
    <3>2. 0 = 0 * MaxSerial
      BY <3>1
    <3>3. 0 % MaxSerial = 0
      BY <3>1, <3>2, Multiple
    <3> QED
      BY <3>1, <3>3
  <2>6. LoadInv'
    BY <1>0, <1>1, <2>2, <2>3, <2>5 DEF LoadInv
  <2>7. VerifyInv' /\ CleanInv'
    BY <1>0, <1>1, <2>2 DEF VerifyInv, CleanInv
  <2> QED
    BY <1>3, <2>4, <2>6, <2>7 DEF MemInv
<1> QED
  BY <1>4, <1>5 DEF LoadDMPFirmware

LEMMA WakeStep == MemInv /\ Wake => (CachedBankIsReal' => MemInv')
<1> SUFFICES ASSUME MemInv, Wake, CachedBankIsReal'
             PROVE  MemInv'
  OBVIOUS
<1>0. /\ TypeOK /\ LoadInv /\ CleanInv /\ load.stage = "wake"
      /\ phase = "idle" /\ load.done = 0
  BY DEF MemInv, Wake, LoadInv
<1>1. UNCHANGED <<bank, device, firmware_loaded, bounds>>
  BY DEF Wake
<1>2. CASE /\ Works
           /\ load' = [load EXCEPT !.stage = "write"]
           /\ UNCHANGED <<call, phase, buffer, status>>
  <2>1. /\ load' \in [stage : Stages, memaddr : Nat, done : Nat, flag : Nat,
                      real : BOOLEAN, faults : Nat]
        /\ load'.stage = "write" /\ load'.memaddr = load.memaddr
        /\ load'.done = load.done /\ load'.flag = load.flag
        /\ load'.real = load.real /\ load'.faults = load.faults
    BY <1>0, <1>2 DEF TypeOK, Stages
  <2>2. UNCHANGED <<bankSel, last_mems_bank, stale, startAddr, mem, calls,
                    resets, faults>>
    BY <1>1, <1>2 DEF bank, device, bounds, Works
  <2>3. TypeOK'
    BY <1>0, <1>1, <1>2, <2>1, <2>2 DEF TypeOK
  <2>4. CallInv' /\ MoveInv'
    BY <1>0, <1>2 DEF CallInv, MoveInv
  <2>5. LoadInv'
    BY <1>0, <1>2, <2>1 DEF LoadInv
  <2>6. VerifyInv'
    BY <2>1 DEF VerifyInv
  <2>7. CleanInv'
    BY <1>0, <1>2, <2>1, <2>2 DEF CleanInv, Loaded
  <2> QED
    BY <2>3, <2>4, <2>5, <2>6, <2>7 DEF MemInv
<1>3. CASE Fails /\ LoadReturns("Err")
  BY <1>0, <1>1, <1>3, LoadEnded DEF TypeOK
<1> QED
  BY <1>2, <1>3 DEF Wake

(* A chunk is written, or read back. *)
LEMMA ChunkStep ==
  MemInv /\ (LoadWrite \/ LoadVerify) => (CachedBankIsReal' => MemInv')
<1> SUFFICES ASSUME MemInv, LoadWrite \/ LoadVerify, CachedBankIsReal'
             PROVE  MemInv'
  OBVIOUS
<1>0. /\ TypeOK /\ LoadInv /\ VerifyInv /\ CleanInv
      /\ phase = "idle" /\ load.done < Len(Image)
  BY DEF MemInv, LoadWrite, LoadVerify
<1>1. UNCHANGED <<bankSel, last_mems_bank, stale, startAddr, mem,
                  firmware_loaded, buffer, load, status, calls, resets, faults>>
  BY DEF LoadWrite, LoadVerify, bank, device, bounds
<1>2. PICK k \in {"write", "read"} :
        /\ Start(k, load.memaddr, Chunk)
        /\ load.stage = (IF k = "write" THEN "write" ELSE "verify")
  BY DEF LoadWrite, LoadVerify
<1>3. /\ ChunkSize \in 1..MaxSerial
      /\ load.memaddr \in Addresses
      /\ (load.memaddr % BankSize) + ChunkSize <= BankSize
      /\ Chunk \in Seq(Nat) /\ Len(Chunk) = ChunkSize
  BY <1>0, ChunkFits
<1>4. load.memaddr \in Nat /\ ChunkSize \in Nat \ {0} /\ MaxSerial \in Nat
  <2>1. MaxSerial \in Nat /\ Addresses \subseteq Nat
    BY Constants
  <2>2. load.memaddr \in Nat
    BY <2>1, <1>3
  <2>3. ChunkSize \in Nat \ {0}
    BY <2>1, <1>3
  <2> QED
    BY <2>1, <2>2, <2>3
<1>5. /\ call' \in [kind : {"write", "read"}, reg : Nat, length : Nat,
                    data : Seq(Nat), done : Nat]
      /\ call'.kind = k /\ call'.reg = load.memaddr /\ call'.data = Chunk
      /\ call'.length = ChunkSize /\ call'.done = 0
      /\ call'.done <= call'.length /\ phase' = "select"
  BY <1>2, <1>3, <1>4, Started
<1>6. TypeOK'
  BY <1>0, <1>1, <1>5 DEF TypeOK, Phases
<1>7. Len(buffer) = MaxSerial
  BY <1>0, <1>2 DEF LoadInv
<1>8. CallInv' /\ MoveInv'
  BY <1>1, <1>3, <1>4, <1>5, <1>7 DEF CallInv, MoveInv
<1>9. Chunk' = Chunk
  BY <1>1 DEF Chunk, ChunkSize
<1>10. LoadInv'
  BY <1>0, <1>1, <1>2, <1>5, <1>9 DEF LoadInv
<1>11. VerifyInv' /\ CleanInv'
  BY <1>0, <1>1, <1>5 DEF VerifyInv, CleanInv, Loaded
<1> QED
  BY <1>6, <1>8, <1>10, <1>11 DEF MemInv

(* When the last chunk has been written the driver remembers the last bank *)
(* of the image, and the image begins in another one: the verify pass      *)
(* starts by selecting its bank.                                           *)
LEMMA VerifyBegins ==
  MemInv /\ BeginVerify => (CachedBankIsReal' => MemInv')
<1> SUFFICES ASSUME MemInv, BeginVerify, CachedBankIsReal'
             PROVE  MemInv'
  OBVIOUS
<1>0. /\ TypeOK /\ LoadInv /\ CleanInv /\ phase = "idle"
      /\ load.stage = "write" /\ load.done = Len(Image)
  BY DEF MemInv, BeginVerify
<1>1. UNCHANGED <<bankSel, last_mems_bank, stale, startAddr, mem,
                  firmware_loaded, call, phase, buffer, status, calls, resets,
                  faults>>
  BY DEF BeginVerify, bank, device, bounds
<1>2. /\ MaxSerial \in Nat \ {0} /\ Len(Image) \in Nat \ {0}
      /\ LoadStart \in Nat
  BY Constants
<1>3. load' = [load EXCEPT !.stage = "verify", !.memaddr = LoadStart,
                           !.done = 0]
  BY DEF BeginVerify
<1>4. /\ load' \in [stage : Stages, memaddr : Nat, done : Nat, flag : Nat,
                    real : BOOLEAN, faults : Nat]
      /\ load'.stage = "verify" /\ load'.memaddr = LoadStart
      /\ load'.done = 0 /\ load'.flag = load.flag
      /\ load'.real = load.real /\ load'.faults = load.faults
  BY <1>0, <1>2, <1>3 DEF TypeOK, Stages
<1>5. TypeOK'
  BY <1>0, <1>1, <1>4 DEF TypeOK
<1>6. CallInv' /\ MoveInv'
  BY <1>0, <1>1 DEF CallInv, MoveInv
<1>7. 0 % MaxSerial = 0
  <2>1. 0 = 0 * MaxSerial
    BY <1>2
  <2> QED
    BY <2>1, <1>2, Multiple
<1>8. LoadInv'
  BY <1>0, <1>1, <1>2, <1>4, <1>7 DEF LoadInv
<1>9. last_mems_bank # Bank(LoadStart)
  <2>1. last_mems_bank = Bank(LoadStart + load.done - 1)
    BY <1>0, <1>2 DEF LoadInv
  <2> QED
    BY <2>1, <1>0, ImageAssumption DEF Bank
<1>10. VerifyInv'
  BY <1>0, <1>1, <1>4, <1>9 DEF VerifyInv, Loaded, Bank
<1>11. CleanInv'
  BY <1>0, <1>1, <1>4 DEF CleanInv, Loaded
<1> QED
  BY <1>5, <1>6, <1>8, <1>10, <1>11 DEF MemInv

(* A chunk whose call returned Ok with the right bank selected has moved.  *)
LEMMA ChunkMoved ==
  ASSUME TypeOK, CallInv, MoveInv, LoadInv, ~stale,
         load.stage \in {"write", "verify"}, phase = "returned", status = "Ok"
  PROVE  \A i \in 1..ChunkSize :
           mem[load.memaddr + i - 1]
             = IF load.stage = "write" THEN Image[load.done + i] ELSE buffer[i]
<1>1. /\ load.done < Len(Image) /\ call.reg = load.memaddr
      /\ call.data = Chunk
      /\ call.kind = (IF load.stage = "write" THEN "write" ELSE "read")
  BY DEF LoadInv
<1>2. call.done = call.length /\ Len(call.data) = call.length
  BY DEF CallInv
<1>3. Len(Chunk) = ChunkSize /\ \A i \in 1..ChunkSize : Chunk[i] = Image[load.done + i]
  BY <1>1, ChunkFits
<1>4. call.done = ChunkSize
  BY <1>1, <1>2, <1>3
<1>5. \A i \in 1..call.done :
        mem[call.reg + i - 1]
          = IF call.kind = "write" THEN call.data[i] ELSE buffer[i]
  BY DEF MoveInv
<1> QED
  BY <1>1, <1>3, <1>4, <1>5

(* One more chunk of the image in memory. *)
LEMMA OneChunkMore ==
  ASSUME LoadInv, load.done < Len(Image), Loaded(load.done),
         \A i \in 1..ChunkSize :
           mem[load.memaddr + i - 1] = Image[load.done + i]
  PROVE  Loaded(load.done + ChunkSize)
<1>1. /\ load.done \in Nat /\ load.memaddr = LoadStart + load.done
      /\ LoadStart \in Nat
  BY Constants DEF LoadInv
<1>2. ChunkSize \in Nat
  <2>1. ChunkSize \in 1..MaxSerial /\ MaxSerial \in Nat
    BY ChunkFits, Constants
  <2> QED
    BY <2>1
<1> SUFFICES ASSUME NEW i \in 1..load.done + ChunkSize
             PROVE  mem[LoadStart + i - 1] = Image[i]
  BY DEF Loaded
<1>3. CASE i <= load.done
  BY <1>1, <1>2, <1>3 DEF Loaded
<1>4. CASE ~(i <= load.done)
  <2>1. /\ i - load.done \in 1..ChunkSize
        /\ load.memaddr + (i - load.done) - 1 = LoadStart + i - 1
        /\ load.done + (i - load.done) = i
    <3> DEFINE n == ChunkSize
    <3>1. /\ n \in Nat /\ i \in 1..load.done + n /\ load.done \in Nat
          /\ load.memaddr = LoadStart + load.done /\ LoadStart \in Nat
      BY <1>1, <1>2
    <3> HIDE DEF n
    <3>2. i \in Nat /\ i - load.done \in 1..n
      BY <3>1, <1>4
    <3>3. load.done + (i - load.done) = i
      BY <3>1, <3>2
    <3>4. LoadStart + load.done + (i - load.done) - 1 = LoadStart + i - 1
      BY <3>1, <3>2
    <3> QED
      BY <3>1, <3>2, <3>3, <3>4 DEF n
  <2>2. mem[load.memaddr + (i - load.done) - 1] = Image[load.done + (i - load.done)]
    BY <2>1
  <2> QED
    BY <2>1, <2>2
<1> QED
  BY <1>3, <1>4

(* On to the next chunk. *)
LEMMA ChunkDone ==
  ASSUME TypeOK, LoadInv, load.done < Len(Image), NEW f \in Nat,
         load' = [NextChunk EXCEPT !.flag = f]
  PROVE  /\ load' \in [stage : Stages, memaddr : Nat, done : Nat, flag : Nat,
                       real : BOOLEAN, faults : Nat]
         /\ load'.stage = load.stage /\ load'.flag = f
         /\ load'.real = load.real /\ load'.faults = load.faults
         /\ load'.done = load.done + ChunkSize /\ load'.done # 0
         /\ load'.done \in 0..Len(Image)
         /\ load'.memaddr = LoadStart + load'.done
         /\ load'.done % MaxSerial = 0 \/ load'.done = Len(Image)
<1> DEFINE n == ChunkSize
           d == load.done + n
           m == load.memaddr + n
<1>1. /\ load \in [stage : Stages, memaddr : Nat, done : Nat, flag : Nat,
                   real : BOOLEAN, faults : Nat]
      /\ load.memaddr \in Nat /\ load.done \in Nat
  BY DEF TypeOK
<1>2. load.memaddr = LoadStart + load.done
  BY DEF LoadInv
<1>3. /\ MaxSerial \in Nat /\ n \in 1..MaxSerial
      /\ d <= Len(Image) /\ Len(Image) \in Nat /\ LoadStart \in Nat
      /\ d % MaxSerial = 0 \/ d = Len(Image)
  BY ChunkFits, Constants
<1>4. load' = [[load EXCEPT !.memaddr = m, !.done = d] EXCEPT !.flag = f]
  BY DEF NextChunk
<1> HIDE DEF n
<1>5. m \in Nat /\ d \in Nat /\ d # 0 /\ m = LoadStart + d
  <2>1. n \in Nat /\ n # 0
    BY <1>3
  <2>2. LoadStart \in Nat /\ load.done \in Nat
    BY <1>1, <1>3
  <2> QED
    BY <2>1, <2>2, <1>2
<1> HIDE DEF d, m
<1>6. /\ load' \in [stage : Stages, memaddr : Nat, done : Nat, flag : Nat,
                    real : BOOLEAN, faults : Nat]
      /\ load'.stage = load.stage /\ load'.flag = f
      /\ load'.real = load.real /\ load'.faults = load.faults
      /\ load'.done = d /\ load'.memaddr = m
  BY <1>1, <1>4, <1>5
<1>7. d \in 0..Len(Image)
  BY <1>3, <1>5
<1>8. load'.done = load.done + ChunkSize
  BY <1>6 DEF d, n
<1> QED
  BY <1>3, <1>5, <1>6, <1>7, <1>8

LEMMA WrittenStep == MemInv /\ LoadWritten => (CachedBankIsReal' => MemInv')
<1> SUFFICES ASSUME MemInv, LoadWritten, CachedBankIsReal'
             PROVE  MemInv'
  OBVIOUS
<1>0. /\ TypeOK /\ CallInv /\ MoveInv /\ LoadInv /\ CleanInv
      /\ load.stage = "write" /\ phase = "returned"
      /\ load.done < Len(Image) /\ load.flag = 0
  BY DEF MemInv, LoadWritten, LoadInv
<1>1. UNCHANGED <<bank, device, firmware_loaded, bounds, faults>>
  BY DEF LoadWritten
<1>2. CASE /\ status = "Ok"
           /\ load' = NextChunk
           /\ phase' = "idle"
           /\ UNCHANGED <<call, buffer, status>>
  <2>1. UNCHANGED <<bankSel, last_mems_bank, stale, startAddr, mem, calls,
                    resets>>
    BY <1>1 DEF bank, device, bounds
  <2>2. load' = [NextChunk EXCEPT !.flag = 0]
    <3>1. NextChunk.flag = 0
      BY <1>0 DEF NextChunk, TypeOK
    <3> QED
      BY <3>1, <1>2, <1>0 DEF NextChunk, TypeOK
  <2>3. /\ load' \in [stage : Stages, memaddr : Nat, done : Nat, flag : Nat,
                      real : BOOLEAN, faults : Nat]
        /\ load'.stage = "write" /\ load'.flag = 0
        /\ load'.real = load.real /\ load'.faults = load.faults
        /\ load'.done = load.done + ChunkSize
        /\ load'.done \in 0..Len(Image)
        /\ load'.memaddr = LoadStart + load'.done
        /\ load'.done % MaxSerial = 0 \/ load'.done = Len(Image)
    <3>1. TypeOK /\ LoadInv /\ load.done < Len(Image) /\ 0 \in Nat
      BY <1>0
    <3>2. load'.stage = load.stage
      BY <3>1, <2>2, ChunkDone
    <3> QED
      BY <3>1, <3>2, <2>2, <1>0, ChunkDone
  <2>4. TypeOK'
    BY <1>0, <1>1, <1>2, <2>1, <2>3 DEF TypeOK, Phases
  <2>5. CallInv' /\ MoveInv'
    BY <1>2 DEF CallInv, MoveInv
  <2>6. last_mems_bank = Bank(LoadStart + load'.done - 1)
    <3>1. last_mems_bank = Bank(load.memaddr)
      BY <1>0, <1>2 DEF CallInv, LoadInv
    <3>2. /\ ChunkSize \in 1..MaxSerial /\ load.memaddr \in Addresses
          /\ (load.memaddr % BankSize) + ChunkSize <= BankSize
      BY <1>0, ChunkFits
    <3>3. BankSize \in Nat \ {0} /\ MaxSerial \in Nat /\ Addresses \subseteq Nat
      BY Constants
    <3>4. load.memaddr \in Nat /\ ChunkSize \in Nat /\ ChunkSize - 1 \in Nat
      <4>1. load.memaddr \in Nat
        BY <3>2, <3>3
      <4>2. ChunkSize \in Nat /\ ChunkSize - 1 \in Nat
        BY <3>2, <3>3
      <4> QED
        BY <4>1, <4>2
    <3> DEFINE o == load.memaddr % BankSize
               k == ChunkSize - 1
    <3>5. o + k < BankSize
      <4>1. o \in Nat /\ o + ChunkSize <= BankSize /\ ChunkSize \in Nat
        BY <3>2, <3>3, <3>4
      <4> HIDE DEF o
      <4> QED
        BY <4>1, <3>3
    <3>6. (load.memaddr + k) \div BankSize = load.memaddr \div BankSize
      BY <3>3, <3>4, <3>5, SameBank
    <3>7. load.memaddr + k = LoadStart + load'.done - 1
      <4>1. load.memaddr = LoadStart + load.done
        BY <1>0 DEF LoadInv
      <4>2. load.done \in Nat
        BY <1>0 DEF TypeOK
      <4>3. LoadStart \in Nat /\ ChunkSize \in Nat
        BY <3>4, Constants
      <4>4. load'.done = load.done + ChunkSize
        BY <2>3
      <4> QED
        BY <4>1, <4>2, <4>3, <4>4
    <3> QED
      BY <3>1, <3>6, <3>7 DEF Bank
  <2>7. LoadInv'
    <3>1. Len(buffer) = MaxSerial
      BY <1>0 DEF LoadInv
    <3> QED
      BY <1>2, <2>1, <2>3, <2>6, <3>1 DEF LoadInv, Bank
  <2>8. VerifyInv'
    BY <2>3 DEF VerifyInv
  <2>9. CleanInv'
    <3> SUFFICES ASSUME load.real, faults = load.faults
                 PROVE  ~stale /\ Loaded(load.done + ChunkSize)
      BY <1>1, <1>2, <2>1, <2>3 DEF CleanInv, Loaded
    <3>1. ~stale /\ Loaded(load.done)
      BY <1>0 DEF CleanInv
    <3>2. \A i \in 1..ChunkSize :
            mem[load.memaddr + i - 1] = Image[load.done + i]
      BY <3>1, <1>0, <1>2, ChunkMoved
    <3> QED
      BY <3>1, <3>2, <1>0, OneChunkMore
  <2> QED
    BY <2>4, <2>5, <2>7, <2>8, <2>9 DEF MemInv
<1>3. CASE LoadReturns("Err")
  <2>1. Works /\ firmware_loaded' \in BOOLEAN
    BY <1>0, <1>1 DEF Works, TypeOK
  <2> QED
    BY <1>1, <1>3, <2>1, LoadEnded
<1> QED
  BY <1>2, <1>3 DEF LoadWritten

(* Comparing a chunk with the first bytes of the buffer. *)
LEMMA PrefixByElements ==
  ASSUME NEW s \in Seq(Nat), NEW t \in Seq(Nat)
  PROVE  IsPrefix(s, t) <=>
           Len(s) <= Len(t) /\ \A i \in 1..Len(s) : s[i] = t[i]
<1> DEFINE n == Len(s)
<1>1. /\ n \in Nat /\ Len(t) \in Nat /\ 1 \in Int /\ n \in Int
      /\ \A i \in 1..n : s[i] \in Nat
      /\ \A i \in 1..Len(t) : t[i] \in Nat
  BY LenProperties, ElementOfSeq
<1>2. CASE n = 0
  <2>1. SubSeq(s, 1, n) = << >> /\ SubSeq(t, 1, n) = << >>
    BY <1>2, SubSeqEmpty
  <2> QED
    BY <2>1, <1>1, <1>2 DEF IsPrefix
<1>3. CASE n > 0 /\ n <= Len(t)
  <2>1. \A i \in 1..n : t[i] \in Nat
    BY <1>1, <1>3
  <2>2. n - 1 + 1 = n /\ 1 <= n
    BY <1>1, <1>3
  <2>3. /\ SubSeq(s, 1, n) \in Seq(Nat) /\ Len(SubSeq(s, 1, n)) = n
        /\ \A i \in 1..n : SubSeq(s, 1, n)[i] = s[1 + i - 1]
    BY <1>1, <2>2, SubSeqProperties
  <2>4. /\ SubSeq(t, 1, n) \in Seq(Nat) /\ Len(SubSeq(t, 1, n)) = n
        /\ \A i \in 1..n : SubSeq(t, 1, n)[i] = t[1 + i - 1]
    BY <1>1, <2>1, <2>2, SubSeqProperties
  <2>5. \A i \in 1..n : 1 + i - 1 = i
    BY <1>1
  <2>6. SubSeq(s, 1, n) = SubSeq(t, 1, n)
          <=> \A i \in 1..n : SubSeq(s, 1, n)[i] = SubSeq(t, 1, n)[i]
    BY <2>3, <2>4, SeqEqual
  <2>7. SubSeq(s, 1, n) = SubSeq(t, 1, n) <=> \A i \in 1..n : s[i] = t[i]
    BY <2>3, <2>4, <2>5, <2>6
  <2> QED
    BY <1>3, <2>7 DEF IsPrefix
<1>4. CASE ~(n <= Len(t))
  BY <1>4 DEF IsPrefix
<1> QED
  BY <1>1, <1>2, <1>3, <1>4

LEMMA VerifiedStep ==
  MemInv /\ LoadVerified => (CachedBankIsReal' => MemInv')
<1> SUFFICES ASSUME MemInv, LoadVerified, CachedBankIsReal'
             PROVE  MemInv'
  OBVIOUS
<1>0. /\ TypeOK /\ CallInv /\ MoveInv /\ LoadInv /\ VerifyInv /\ CleanInv
      /\ load.stage = "verify" /\ phase = "returned"
      /\ load.done < Len(Image)
  BY DEF MemInv, LoadVerified, LoadInv
<1>1. UNCHANGED <<bank, device, firmware_loaded, bounds, faults>>
  BY DEF LoadVerified
<1>2. CASE /\ IsPrefix(Chunk, buffer)
           /\ load' = [NextChunk EXCEPT !.flag =
                         IF status = "Ok" THEN @ ELSE @ + 1]
           /\ phase' = "idle"
           /\ UNCHANGED <<call, buffer, status>>
  <2>1. UNCHANGED <<bankSel, last_mems_bank, stale, startAddr, mem, calls,
                    resets>>
    BY <1>1 DEF bank, device, bounds
  <2> DEFINE f == IF status = "Ok" THEN load.flag ELSE load.flag + 1
  <2>2. f \in Nat /\ (f = 0 => load.flag = 0 /\ status = "Ok")
    <3>1. load.flag \in Nat
      BY <1>0 DEF TypeOK
    <3> QED
      BY <3>1
  <2>3. load' = [NextChunk EXCEPT !.flag = f]
    <3>1. NextChunk.flag = load.flag
      BY <1>0 DEF NextChunk, TypeOK
    <3> QED
      BY <3>1, <1>2
  <2>F. status = "Ok" => f = load.flag
    OBVIOUS
  <2> HIDE DEF f
  <2>4. TypeOK /\ LoadInv /\ load.done < Len(Image)
    BY <1>0
  <2>5. /\ load' \in [stage : Stages, memaddr : Nat, done : Nat, flag : Nat,
                      real : BOOLEAN, faults : Nat]
        /\ load'.stage = load.stage /\ load'.flag = f
        /\ load'.real = load.real /\ load'.faults = load.faults
        /\ load'.done = load.done + ChunkSize /\ load'.done # 0
        /\ load'.done \in 0..Len(Image)
        /\ load'.memaddr = LoadStart + load'.done
        /\ load'.done % MaxSerial = 0 \/ load'.done = Len(Image)
    BY <2>2, <2>3, <2>4, ChunkDone
  <2>6. TypeOK'
    BY <1>0, <1>1, <1>2, <2>1, <2>5 DEF TypeOK, Phases
  <2>7. CallInv' /\ MoveInv'
    BY <1>2 DEF CallInv, MoveInv
  <2>8. LoadInv'
    <3>1. Len(buffer) = MaxSerial
      BY <1>0 DEF LoadInv
    <3> QED
      BY <1>0, <1>2, <2>1, <2>5, <3>1 DEF LoadInv
  <2>9. VerifyInv'
    <3> SUFFICES ASSUME f = 0
                 PROVE  ~stale /\ Loaded(load.done + ChunkSize)
      BY <1>2, <2>1, <2>5 DEF VerifyInv, Loaded
    <3>1. load.flag = 0 /\ status = "Ok"
      BY <2>2
    <3>2. ~stale /\ Loaded(load.done)
      BY <3>1, <1>0 DEF VerifyInv
    <3>3. \A i \in 1..ChunkSize : mem[load.memaddr + i - 1] = buffer[i]
      BY <3>1, <3>2, <1>0, ChunkMoved
    <3>4. /\ Chunk \in Seq(Nat) /\ Len(Chunk) = ChunkSize
          /\ \A i \in 1..ChunkSize : Chunk[i] = Image[load.done + i]
      BY <1>0, ChunkFits
    <3>5. \A i \in 1..Len(Chunk) : Chunk[i] = buffer[i]
      BY <3>4, <1>0, <1>2, PrefixByElements DEF TypeOK
    <3>6. \A i \in 1..ChunkSize :
            mem[load.memaddr + i - 1] = Image[load.done + i]
      BY <3>3, <3>4, <3>5
    <3> QED
      BY <3>2, <3>6, <1>0, OneChunkMore
  <2>10. CleanInv'
    <3> SUFFICES ASSUME load.real, faults = load.faults
                 PROVE  ~stale /\ f = 0 /\ Loaded(Len(Image))
      BY <1>0, <1>1, <1>2, <2>1, <2>5 DEF CleanInv, Loaded
    <3> QED
      BY <2>F, <1>0 DEF CleanInv
  <2> QED
    BY <2>6, <2>7, <2>8, <2>9, <2>10 DEF MemInv
<1>3. CASE LoadReturns("VerifyFail")
  <2>1. Works /\ firmware_loaded' \in BOOLEAN
    BY <1>0, <1>1 DEF Works, TypeOK
  <2> QED
    BY <1>1, <1>3, <2>1, LoadEnded
<1> QED
  BY <1>2, <1>3 DEF LoadVerified

LEMMA FinishStep == MemInv /\ LoadFinish => (CachedBankIsReal' => MemInv')
<1> SUFFICES ASSUME MemInv, LoadFinish, CachedBankIsReal'
             PROVE  MemInv'
  OBVIOUS
<1>1. UNCHANGED <<bank, device, bounds>> /\ (Works \/ Fails)
  BY DEF LoadFinish
<1>2. PICK s \in {"Ok", "Err", "VerifyFail"} : LoadReturns(s)
  BY DEF LoadFinish
<1>3. firmware_loaded' \in BOOLEAN
  BY DEF LoadFinish, MemInv, TypeOK
<1> QED
  BY <1>1, <1>2, <1>3, LoadEnded

LEMMA MemStutter == MemInv /\ UNCHANGED vars => MemInv'
<1> SUFFICES ASSUME MemInv, UNCHANGED vars
             PROVE  MemInv'
  OBVIOUS
<1>1. UNCHANGED <<bankSel, last_mems_bank, stale, startAddr, mem,
                  firmware_loaded, call, phase, buffer, load, status, calls,
                  resets, faults>>
  BY DEF vars, bank, device, bounds
<1>2. TypeOK' /\ CachedBankIsReal'
  BY <1>1 DEF MemInv, TypeOK, CachedBankIsReal
<1>3. CallInv' /\ MoveInv' /\ LoadInv'
  BY <1>1 DEF MemInv, CallInv, MoveInv, LoadInv, NextAddress, Bank, Chunk,
              ChunkSize
<1>4. VerifyInv' /\ CleanInv'
  BY <1>1 DEF MemInv, VerifyInv, CleanInv, Loaded, Bank
<1> QED
  BY <1>2, <1>3, <1>4 DEF MemInv

LEMMA MemStep == MemInv /\ [Next]_vars => MemInv'
<1> SUFFICES ASSUME MemInv, [Next]_vars
             PROVE  MemInv'
  OBVIOUS
<1>1. CachedBankIsReal'
  BY BankKept, OnlySelections DEF MemInv
<1>2. CASE UNCHANGED vars
  BY <1>2, MemStutter
<1>3. CASE SelectBank \/ SetStartAddress \/ WriteBurst \/ ReadBurst
  BY <1>1, <1>3, SelectStep, AddressStep, WriteStep, ReadStep
<1>4. CASE \E c \in Ranges : WriteDMPmems(c) \/ ReadDMPmems(c)
  BY <1>1, <1>4, ClientStep
<1>5. CASE CallReturns \/ SwReset \/ Restart
  BY <1>1, <1>5, ReturnStep, ResetStep
<1>6. CASE LoadDMPFirmware \/ Wake
  BY <1>1, <1>6, LoadBegins, WakeStep
<1>7. CASE LoadWrite \/ LoadWritten \/ BeginVerify
  BY <1>1, <1>7, ChunkStep, WrittenStep, VerifyBegins
<1>8. CASE LoadVerify \/ LoadVerified \/ LoadFinish
  BY <1>1, <1>8, ChunkStep, VerifiedStep, FinishStep
<1> QED
  BY <1>2, <1>3, <1>4, <1>5, <1>6, <1>7, <1>8 DEF Next

(* Calls stay in their bank and move the right bytes while the remembered  *)
(* bank is the chip's, the firmware load goes through the image in whole   *)
(* chunks, its verify pass reads the banks it means to read until a read   *)
(* fails, and a clean load has written what it is going to verify.         *)
THEOREM MemInvariant == Spec => []MemInv
  BY MemInit, MemStep, PTL DEF Spec

-----------------------------------------------------------------------------
(* The driver declares the firmware loaded only when the whole image is in *)
(* memory, whichever transactions failed and however stale the bank cache  *)
(* was when loading began: LoadFinish raises _firmware_loaded when no read *)
(* of the verify pass failed, and VerifyInv says what that pass has seen.  *)
THEOREM LoadedIsImage == Spec => LoadedMeansImage
<1>1. ASSUME MemInv, [Next]_vars, ~firmware_loaded, firmware_loaded'
      PROVE  HoldsImage
  <2>1. LoadFinish
    <3>1. CASE UNCHANGED vars
      BY <1>1, <3>1 DEF vars
    <3>2. CASE SelectBank \/ SetStartAddress \/ WriteBurst \/ ReadBurst
      BY <1>1, <3>2 DEF SelectBank, SetStartAddress, WriteBurst, ReadBurst
    <3>3. CASE \E c \in Ranges : WriteDMPmems(c) \/ ReadDMPmems(c)
      BY <1>1, <3>3 DEF WriteDMPmems, ReadDMPmems
    <3>4. CASE CallReturns \/ SwReset \/ Restart
      BY <1>1, <3>4 DEF CallReturns, SwReset, Restart
    <3>5. CASE LoadDMPFirmware \/ Wake \/ LoadWrite \/ LoadWritten
      BY <1>1, <3>5 DEF LoadDMPFirmware, Wake, LoadWrite, LoadWritten
    <3>6. CASE BeginVerify \/ LoadVerify \/ LoadVerified
      BY <1>1, <3>6 DEF BeginVerify, LoadVerify, LoadVerified
    <3> QED
      BY <1>1, <3>1, <3>2, <3>3, <3>4, <3>5, <3>6 DEF Next
  <2>2. load.stage = "verify" /\ load.done = Len(Image) /\ load.flag = 0
    BY <2>1, <1>1 DEF LoadFinish
  <2>3. Loaded(Len(Image))
    BY <2>2, <1>1 DEF MemInv, VerifyInv
  <2> SUFFICES ASSUME NEW a \in ImageRange
               PROVE  mem[a] = ImageAt(a)
    BY DEF HoldsImage
  <2>4. LoadStart \in Nat /\ Len(Image) \in Nat
    BY Constants
  <2>5. a \in Nat /\ a - LoadStart + 1 \in 1..Len(Image)
    BY <2>4 DEF ImageRange
  <2>6. LoadStart + (a - LoadStart + 1) - 1 = a
    BY <2>4, <2>5
  <2>7. mem[LoadStart + (a - LoadStart + 1) - 1] = Image[a - LoadStart + 1]
    BY <2>3, <2>5 DEF Loaded
  <2> QED
    BY <2>6, <2>7 DEF ImageAt
<1>2. MemInv /\ [Next]_vars => (~firmware_loaded /\ firmware_loaded' => HoldsImage)
  BY <1>1
<1> QED
  BY <1>2, MemInvariant, PTL DEF Spec, LoadedMeansImage

(* Loading again is enough: a load in which no transaction fails, begun    *)
(* with a good bank cache, ends with the firmware loaded, whatever earlier *)
(* loads, failures, resets and restarts have left behind.                  *)
THEOREM CleanLoadIsEnough == Spec => CleanLoadLoads
<1>1. ASSUME MemInv, [Next]_vars, LoadEnds, load.real, faults' = load.faults
      PROVE  firmware_loaded'
  <2>0. /\ TypeOK /\ CallInv /\ MoveInv /\ LoadInv /\ CleanInv
        /\ load.stage # "none" /\ load'.stage = "none" /\ resets' = resets
    BY <1>1 DEF MemInv, LoadEnds
  <2>1. load'.stage # load.stage
    BY <2>0
  <2>2. Fails => FALSE
    <3>1. faults \in Nat /\ load.faults \in Nat /\ load.faults <= faults
      BY <2>0, MemoryAssumption DEF TypeOK
    <3> QED
      BY <3>1, <1>1 DEF Fails
  <2>3. CASE Wake
    <3>1. load' = [load EXCEPT !.stage = "write"]
      BY <2>2, <2>3 DEF Wake
    <3>2. load'.stage = "write"
      BY <3>1, <2>0 DEF TypeOK
    <3> QED
      BY <3>2, <2>0
  <2>4. CASE LoadWritten
    <3>1. faults = load.faults /\ phase = "returned"
      BY <2>4, <1>1 DEF LoadWritten
    <3>2. status = "Ok"
      BY <3>1, <1>1, <2>0 DEF CleanInv
    <3>3. load' = NextChunk
      BY <3>2, <2>4 DEF LoadWritten
    <3>4. load'.stage = load.stage
      BY <3>3, <2>0 DEF NextChunk, TypeOK
    <3> QED
      BY <3>4, <2>1
  <2>5. CASE LoadVerified
    <3>1. /\ faults = load.faults /\ phase = "returned"
          /\ load.stage = "verify" /\ load.done < Len(Image)
      BY <2>5, <1>1, <2>0 DEF LoadVerified, LoadInv
    <3>2. status = "Ok" /\ ~stale /\ Loaded(Len(Image))
      BY <3>1, <1>1, <2>0 DEF CleanInv
    <3>3. \A i \in 1..ChunkSize : mem[load.memaddr + i - 1] = buffer[i]
      BY <3>1, <3>2, <2>0, ChunkMoved
    <3>4. /\ Chunk \in Seq(Nat) /\ Len(Chunk) = ChunkSize
          /\ \A i \in 1..ChunkSize : Chunk[i] = Image[load.done + i]
          /\ ChunkSize \in 1..MaxSerial
          /\ load.done + ChunkSize <= Len(Image)
      BY <3>1, <2>0, ChunkFits
    <3>5. /\ load.done \in Nat /\ load.memaddr = LoadStart + load.done
          /\ LoadStart \in Nat /\ MaxSerial \in Nat /\ Len(Image) \in Nat
          /\ Len(buffer) = MaxSerial /\ buffer \in Seq(Nat)
      BY <3>1, <2>0, Constants DEF LoadInv, TypeOK
    <3>6. ASSUME NEW i \in 1..ChunkSize
          PROVE  Chunk[i] = buffer[i]
      <4> DEFINE n == ChunkSize
      <4>1. n \in 1..MaxSerial /\ i \in 1..n /\ load.done + n <= Len(Image)
        BY <3>4
      <4> HIDE DEF n
      <4>2. i \in Nat /\ load.done + i \in 1..Len(Image)
        <5>1. load.done \in Nat /\ MaxSerial \in Nat /\ Len(Image) \in Nat
          BY <3>5
        <5> QED
          BY <4>1, <5>1
      <4>3. LoadStart + (load.done + i) - 1 = load.memaddr + i - 1
        BY <4>2, <3>5
      <4>4. mem[load.memaddr + i - 1] = Image[load.done + i]
        BY <4>2, <4>3, <3>2 DEF Loaded
      <4> QED
        BY <4>4, <3>3, <3>4
    <3>7. Len(Chunk) <= Len(buffer)
      BY <3>4, <3>5
    <3>8. IsPrefix(Chunk, buffer)
      BY <3>4, <3>5, <3>6, <3>7, PrefixByElements
    <3>9. load' = [NextChunk EXCEPT !.flag =
                     IF status = "Ok" THEN @ ELSE @ + 1]
      BY <3>8, <2>5 DEF LoadVerified
    <3>10. load'.stage = load.stage
      BY <3>9, <2>0 DEF NextChunk, TypeOK
    <3> QED
      BY <3>10, <2>1
  <2>6. CASE LoadFinish
    <3>1. Works /\ firmware_loaded' = (load.flag = 0)
      BY <2>2, <2>6 DEF LoadFinish
    <3>2. faults = load.faults
      BY <3>1, <1>1 DEF Works
    <3>3. load.flag = 0
      BY <3>2, <1>1, <2>0 DEF CleanInv
    <3> QED
      BY <3>1, <3>3
  <2>7. CASE UNCHANGED vars
    BY <2>1, <2>7 DEF vars
  <2>8. CASE SelectBank \/ SetStartAddress \/ WriteBurst \/ ReadBurst
    BY <2>1, <2>8 DEF SelectBank, SetStartAddress, WriteBurst, ReadBurst
  <2>9. CASE \E c \in Ranges : WriteDMPmems(c) \/ ReadDMPmems(c)
    BY <2>1, <2>9 DEF WriteDMPmems, ReadDMPmems
  <2>10. CASE CallReturns \/ SwReset \/ LoadWrite \/ LoadVerify
    BY <2>1, <2>10 DEF CallReturns, SwReset, LoadWrite, LoadVerify
  <2>11. CASE Restart
    <3>1. resets' = resets + 1 /\ resets \in Nat
      BY <2>11, <2>0, MemoryAssumption DEF Restart, TypeOK
    <3> QED
      BY <3>1, <2>0
  <2>12. CASE LoadDMPFirmware
    BY <2>0, <2>12 DEF LoadDMPFirmware, NewCall, Idle
  <2>13. CASE BeginVerify
    <3>1. load' = [load EXCEPT !.stage = "verify", !.memaddr = LoadStart,
                               !.done = 0]
      BY <2>13 DEF BeginVerify
    <3>2. load'.stage = "verify"
      BY <3>1, <2>0 DEF TypeOK
    <3> QED
      BY <3>2, <2>0
  <2> QED
    BY <1>1, <2>3, <2>4, <2>5, <2>6, <2>7, <2>8, <2>9, <2>10, <2>11, <2>12,
       <2>13 DEF Next
<1>2. MemInv /\ [Next]_vars =>
        (LoadEnds /\ load.real /\ faults' = load.faults => firmware_loaded')
  BY <1>1
<1> QED
  BY <1>2, MemInvariant, PTL DEF Spec, CleanLoadLoads

-----------------------------------------------------------------------------
(* How a step of the driver looks through the port: the caller uses its    *)
(* buffer, calls, leaves, or some bytes move.                              *)
LEMMA PortUse ==
  ASSUME phase = "idle", phase' = "idle", mem' = mem
  PROVE  Port!Use
  BY DEF Port!Use, Port!NoCall

LEMMA PortCall ==
  ASSUME phase = "idle", phase' = "select", mem' = mem,
         call'.kind \in {"write", "read"}
  PROVE  Port!Call
  BY DEF Port!Call, Port!NoCall

LEMMA PortLeave ==
  ASSUME phase # "idle", phase' = "idle", mem' = mem,
         call.kind \in {"write", "read"}
  PROVE  Port!Leave
  BY DEF Port!Leave, Port!NoCall

LEMMA PortWork ==
  ASSUME phase \notin {"idle", "returned"}, phase' # "idle",
         call'.kind = call.kind, call'.reg = call.reg, call'.data = call.data,
         \/ /\ call.kind = "write" /\ buffer' = buffer
            /\ \A a \in DOMAIN mem :
                 mem'[a] # mem[a] =>
                   /\ a \in call.reg .. call.reg + Len(call.data) - 1
                   /\ mem'[a] = call.data[a - call.reg + 1]
         \/ /\ call.kind = "read" /\ mem' = mem
            /\ \A i \in DOMAIN buffer :
                 buffer'[i] # buffer[i] =>
                   /\ i \in DOMAIN call.data
                   /\ buffer'[i] = mem[call.reg + i - 1],
         phase' = "returned" /\ status' = "Ok" =>
           \A i \in DOMAIN call.data :
             mem'[call.reg + i - 1]
               = IF call.kind = "write" THEN call.data[i] ELSE buffer'[i]
  PROVE  Port!Work
<1>1. /\ (IF phase # "returned" THEN "none"
          ELSE IF status = "Ok" THEN "Ok" ELSE "Err") = "none"
      /\ (IF phase' # "returned" THEN "none"
          ELSE IF status' = "Ok" THEN "Ok" ELSE "Err") \in {"none", "Ok", "Err"}
  OBVIOUS
<1>2. Port!Store \/ Port!Fetch
  <2>1. CASE call.kind = "write"
    BY <2>1 DEF Port!Store, Port!Covers, Port!Offset
  <2>2. CASE call.kind = "read"
    BY <2>2 DEF Port!Fetch
  <2> QED
    BY <2>1, <2>2
<1>3. phase' = "returned" /\ status' = "Ok" => Port!Moved
  BY DEF Port!Moved
<1> QED
  BY <1>1, <1>2, <1>3 DEF Port!Work

(* With the right bank remembered the bursts of a call store and fetch the *)
(* bytes of its own range only, and when it returns Ok all of them.        *)
LEMMA PortBurst ==
  ASSUME MemInv, MemInv', ~stale, WriteBurst \/ ReadBurst
  PROVE  Port!Work
<1>0. /\ TypeOK /\ CallInv /\ CachedBankIsReal /\ phase = "burst"
      /\ TypeOK' /\ CallInv' /\ MoveInv' /\ stale' = stale
  BY DEF MemInv, WriteBurst, ReadBurst, bank
<1>1. \/ Works /\ Advance
      \/ Fails /\ phase' = "returned" /\ status' = "Err" /\ call' = call
  BY DEF WriteBurst, ReadBurst
<1>2. /\ ThisLen \in Nat \ {0} /\ call.done + ThisLen <= call.length
      /\ call.done \in Nat /\ call.length \in Nat /\ call.reg \in Nat
      /\ call'.kind = call.kind /\ call'.reg = call.reg
      /\ call'.length = call.length /\ call'.data = call.data
      /\ phase' \in {"address", "returned"}
  BY <1>0, <1>1, BurstAdvances
<1>3. Len(call.data) = call.length /\ DOMAIN call.data = 1..call.length
  BY <1>0, LenProperties DEF CallInv, TypeOK
<1>4. ASSUME phase' = "returned", status' = "Ok", NEW i \in DOMAIN call.data
      PROVE  mem'[call.reg + i - 1]
               = IF call.kind = "write" THEN call.data[i] ELSE buffer'[i]
  <2>1. call'.done = call.length
    BY <1>0, <1>2, <1>4 DEF CallInv
  <2>2. i \in 1..call'.done
    BY <2>1, <1>3
  <2> QED
    BY <2>2, <1>0, <1>2, <1>4 DEF MoveInv
<1>5. CASE WriteBurst
  <2>1. /\ call.kind = "write" /\ buffer' = buffer
        /\ mem' = mem \/ mem' = BurstMem
    BY <1>5 DEF WriteBurst
  <2>2. ASSUME NEW a \in DOMAIN mem, mem'[a] # mem[a]
        PROVE  /\ a \in call.reg .. call.reg + Len(call.data) - 1
               /\ mem'[a] = call.data[a - call.reg + 1]
    <3>1. a \in Addresses /\ a \in Nat
      BY <1>0, Constants DEF TypeOK
    <3>2. mem' = BurstMem
      BY <2>1, <2>2
    <3>3. BurstMem[a] =
            IF a \in call.reg + call.done .. call.reg + call.done + ThisLen - 1
            THEN call.data[a - call.reg + 1] ELSE mem[a]
      BY <3>1, <1>0, BurstStores
    <3>4. /\ a \in call.reg + call.done .. call.reg + call.done + ThisLen - 1
          /\ mem'[a] = call.data[a - call.reg + 1]
      BY <2>2, <3>2, <3>3
    <3>5. a \in call.reg .. call.reg + call.length - 1
      <4> DEFINE n == ThisLen
      <4>1. /\ a \in call.reg + call.done .. call.reg + call.done + n - 1
            /\ n \in Nat /\ call.done + n <= call.length
        BY <3>4, <1>2
      <4> HIDE DEF n
      <4> QED
        BY <4>1, <3>1, <1>2
    <3> QED
      BY <3>4, <3>5, <1>3
  <2> QED
    BY <2>1, <2>2, <1>0, <1>2, <1>4, PortWork
<1>6. CASE ReadBurst
  <2>1. /\ call.kind = "read" /\ mem' = mem
        /\ buffer' = buffer \/ buffer' = BurstBuffer
    BY <1>6 DEF ReadBurst
  <2>2. ASSUME NEW i \in DOMAIN buffer, buffer'[i] # buffer[i]
        PROVE  i \in DOMAIN call.data /\ buffer'[i] = mem[call.reg + i - 1]
    <3>1. i \in 1..Len(buffer) /\ i \in Nat
      <4>1. buffer \in Seq(Nat)
        BY <1>0 DEF TypeOK
      <4>2. DOMAIN buffer = 1..Len(buffer) /\ Len(buffer) \in Nat
        BY <4>1, LenProperties
      <4> QED
        BY <4>2
    <3>2. buffer' = BurstBuffer
      BY <2>1, <2>2
    <3>3. BurstBuffer[i] = IF i \in call.done + 1 .. call.done + ThisLen
                           THEN mem[call.reg + i - 1] ELSE buffer[i]
      BY <3>1, <2>1, <1>0, BurstFetches
    <3>4. /\ i \in call.done + 1 .. call.done + ThisLen
          /\ buffer'[i] = mem[call.reg + i - 1]
      BY <2>2, <3>2, <3>3
    <3> QED
      BY <3>1, <3>4, <1>2, <1>3
  <2> QED
    BY <2>1, <2>2, <1>0, <1>2, <1>4, PortWork
<1> QED
  BY <1>5, <1>6

(* As long as the remembered bank is the chip's, write_mems and read_mems  *)
(* are the port: whatever else failed, was reset or killed before, a call  *)
(* touches no memory but its own range, moves the right bytes, and returns *)
(* Ok only when all of them have moved.                                    *)
THEOREM MemoryImplementsPort == Spec => Port!Init /\ ImplementsPort
<1>1. Init => Port!Init
  BY DEF Init, Port!Init, Port!NoCall
<1>2. ASSUME MemInv, MemInv', [Next]_vars, ~stale
      PROVE  [Port!Next]_(Port!vars)
  <2>0. /\ call.kind \in {"write", "read"} /\ call'.kind \in {"write", "read"}
        /\ phase \in Phases /\ phase' \in Phases
    BY <1>2 DEF MemInv, TypeOK
  <2>1. CASE SelectBank \/ SetStartAddress
    <3>1. /\ phase \notin {"idle", "returned"} /\ phase' # "idle"
          /\ call' = call /\ buffer' = buffer /\ mem' = mem
          /\ ~(phase' = "returned" /\ status' = "Ok")
      BY <2>1 DEF SelectBank, SetStartAddress, device
    <3>2. Port!Work
      BY <3>1, <2>0, PortWork
    <3> QED
      BY <3>2 DEF Port!Next
  <2>2. CASE WriteBurst \/ ReadBurst
    BY <2>2, <1>2, PortBurst DEF Port!Next
  <2>3. CASE (\E c \in Ranges : WriteDMPmems(c) \/ ReadDMPmems(c))
               \/ LoadWrite \/ LoadVerify
    <3>1. phase = "idle" /\ phase' = "select" /\ mem' = mem
      BY <2>3 DEF WriteDMPmems, ReadDMPmems, LoadWrite, LoadVerify, NewCall,
                  Idle, Start, device
    <3> QED
      BY <3>1, <2>0, PortCall DEF Port!Next
  <2>4. CASE CallReturns \/ Restart \/ Wake \/ LoadWritten \/ LoadVerified
               \/ LoadFinish \/ SwReset \/ LoadDMPFirmware \/ BeginVerify
    <3>1. phase' = "idle" /\ mem' = mem
      BY <2>4, <1>2
         DEF CallReturns, Restart, Wake, LoadWritten, LoadVerified, LoadFinish,
             LoadReturns, SwReset, LoadDMPFirmware, BeginVerify, NewCall, Idle,
             device, MemInv, LoadInv
    <3>2. CASE phase = "idle"
      BY <3>1, <3>2, PortUse DEF Port!Next
    <3>3. CASE phase # "idle"
      BY <3>1, <3>3, <2>0, PortLeave DEF Port!Next
    <3> QED
      BY <3>2, <3>3
  <2>5. CASE UNCHANGED vars
    BY <2>5 DEF vars, device, Port!vars
  <2> QED
    BY <1>2, <2>1, <2>2, <2>3, <2>4, <2>5 DEF Next
<1>3. MemInv /\ MemInv' /\ [Next]_vars => PortStep
  BY <1>2 DEF PortStep
<1> QED
  BY <1>1, <1>3, MemInvariant, PTL DEF Spec, ImplementsPort
=============================================================================
