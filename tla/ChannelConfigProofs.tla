------------------------ MODULE ChannelConfigProofs ------------------------
(***************************************************************************)
(* Proofs about ChannelConfig, for all configuration files, any number of  *)
(* threads that log, and any settings the application makes.               *)
(***************************************************************************)
EXTENDS ChannelConfig, ConfigLinesProofs

-----------------------------------------------------------------------------
(* The fields.  "NEW" is none of them, and none is named twice.            *)
FieldNames ==
  {"ABLE", "PRIORITY", "CATEGORY", "CATEGORY_EXTEND", "CATEGORY_FILTER",
   "IDENTIFY", "IDENTIFY_EXTEND", "IDENTIFY_FILTER"}

LEMMA DimsAre ==
  /\ Len(Dims) \in Nat /\ DOMAIN Dims = 1 .. Len(Dims)
  /\ \A i \in 1 .. Len(Dims) : Dims[i] \in {"CATEGORY", "IDENTIFY"}
  /\ \A i, j \in 1 .. Len(Dims) : Dims[i] = Dims[j] => i = j
BY ParserAssumption DEF IsInjective

LEMMA FieldsOfDim ==
  ASSUME NEW dim \in {"CATEGORY", "IDENTIFY"}
  PROVE  /\ {dim, Extend[dim], Filter[dim]} \subseteq FieldNames \ {"ABLE", "PRIORITY"}
         /\ dim # Extend[dim] /\ dim # Filter[dim] /\ Extend[dim] # Filter[dim]
         /\ \A other \in {"CATEGORY", "IDENTIFY"} : other # dim =>
              {dim, Extend[dim], Filter[dim]} \cap {other, Extend[other], Filter[other]} = {}
BY DEF Extend, Filter, FieldNames

LEMMA FieldAt ==
  /\ ChannelFieldAt(1) = "PRIORITY"
  /\ \A k \in 1 .. Len(Dims) :
       /\ ChannelFieldAt(3 * k - 1) = Dims[k]
       /\ ChannelFieldAt(3 * k) = Extend[Dims[k]]
       /\ ChannelFieldAt(3 * k + 1) = Filter[Dims[k]]
<1>1. ChannelFieldAt(1) = "PRIORITY" BY DEF ChannelFieldAt
<1>2. ASSUME NEW k \in 1 .. Len(Dims)
      PROVE  /\ ChannelFieldAt(3 * k - 1) = Dims[k]
             /\ ChannelFieldAt(3 * k) = Extend[Dims[k]]
             /\ ChannelFieldAt(3 * k + 1) = Filter[Dims[k]]
  <2>1. k \in Nat /\ k >= 1 BY DimsAre
  <2>2. /\ (3 * k - 1 + 1) \div 3 = k /\ (3 * k - 1 + 1) % 3 = 0
        /\ (3 * k + 1) \div 3 = k /\ (3 * k + 1) % 3 = 1
        /\ (3 * k + 1 + 1) \div 3 = k /\ (3 * k + 1 + 1) % 3 = 2
        /\ 3 * k - 1 # 1 /\ 3 * k # 1 /\ 3 * k + 1 # 1
    BY <2>1
  <2> QED BY <2>2 DEF ChannelFieldAt
<1> QED BY <1>1, <1>2

(* Every place after the first belongs to a dimension.                     *)
LEMMA PlaceOf ==
  ASSUME NEW i \in 2 .. 3 * Len(Dims) + 1
  PROVE  \E k \in 1 .. Len(Dims) : i \in {3 * k - 1, 3 * k, 3 * k + 1}
<1> DEFINE k == (i + 1) \div 3
<1>1. i \in Nat /\ Len(Dims) \in Nat /\ i >= 2 /\ i <= 3 * Len(Dims) + 1 BY DimsAre
<1>2. k \in Nat /\ 3 * k <= i + 1 /\ i + 1 <= 3 * k + 2 BY <1>1
<1>3. k \in 1 .. Len(Dims) BY <1>1, <1>2
<1> HIDE DEF k
<1>4. i \in {3 * k - 1, 3 * k, 3 * k + 1} BY <1>1, <1>2
<1> QED BY <1>3, <1>4

LEMMA FieldsAre ==
  /\ Len(ChannelFields) = 3 * Len(Dims) + 1 /\ DOMAIN ChannelFields = 1 .. Len(ChannelFields)
  /\ Len(DeviceFields) = 3 * Len(Dims) + 2 /\ DOMAIN DeviceFields = 1 .. Len(DeviceFields)
  /\ Len(ChannelFields) \in Nat \ {0} /\ Len(DeviceFields) \in Nat \ {0}
  /\ \A i \in 1 .. Len(ChannelFields) : ChannelFields[i] = ChannelFieldAt(i)
  /\ DeviceFields[1] = "ABLE"
  /\ \A i \in 2 .. Len(DeviceFields) : DeviceFields[i] = ChannelFieldAt(i - 1)
<1> DEFINE n == 3 * Len(Dims)
<1>1. n \in Nat BY DimsAre
<1>2. ChannelFields = [i \in 1 .. n + 1 |-> ChannelFieldAt(i)] BY DEF ChannelFields
<1>3. DeviceFields = [i \in 1 .. n + 2 |-> IF i = 1 THEN "ABLE" ELSE ChannelFieldAt(i - 1)]
  BY DEF DeviceFields
<1> HIDE DEF n
<1>4. Len(ChannelFields) = n + 1 /\ Len(DeviceFields) = n + 2 BY <1>1, <1>2, <1>3
<1> QED BY <1>1, <1>2, <1>3, <1>4 DEF n

LEMMA FieldAtName ==
  ASSUME NEW i \in 1 .. 3 * Len(Dims) + 1
  PROVE  ChannelFieldAt(i) \in FieldNames \ {"ABLE"}
<1>1. CASE i = 1 BY <1>1, FieldAt DEF FieldNames
<1>2. CASE i # 1
  <2>1. i \in 2 .. 3 * Len(Dims) + 1 BY <1>2, DimsAre
  <2>2. PICK k \in 1 .. Len(Dims) : i \in {3 * k - 1, 3 * k, 3 * k + 1} BY <2>1, PlaceOf
  <2>3. Dims[k] \in {"CATEGORY", "IDENTIFY"} BY DimsAre
  <2>4. ChannelFieldAt(i) \in {Dims[k], Extend[Dims[k]], Filter[Dims[k]]} BY <2>2, FieldAt
  <2> QED BY <2>3, <2>4, FieldsOfDim
<1> QED BY <1>1, <1>2

LEMMA FieldAtOnce ==
  ASSUME NEW i \in 1 .. 3 * Len(Dims) + 1, NEW j \in 1 .. 3 * Len(Dims) + 1,
         ChannelFieldAt(i) = ChannelFieldAt(j)
  PROVE  i = j
<1> DEFINE At(k) == {Dims[k], Extend[Dims[k]], Filter[Dims[k]]}
<1>1. \A k \in 1 .. Len(Dims) : At(k) \subseteq FieldNames \ {"ABLE", "PRIORITY"}
  BY DimsAre, FieldsOfDim
<1>2. ASSUME NEW x \in 2 .. 3 * Len(Dims) + 1
      PROVE  \E k \in 1 .. Len(Dims) : x \in {3 * k - 1, 3 * k, 3 * k + 1} /\ ChannelFieldAt(x) \in At(k)
  <2>1. PICK k \in 1 .. Len(Dims) : x \in {3 * k - 1, 3 * k, 3 * k + 1} BY PlaceOf
  <2>2. ChannelFieldAt(x) \in At(k) BY <2>1, FieldAt
  <2> QED BY <2>1, <2>2
<1>3. ASSUME NEW x \in 2 .. 3 * Len(Dims) + 1 PROVE ChannelFieldAt(x) # "PRIORITY"
  BY <1>1, <1>2, <1>3
<1>4. ChannelFieldAt(1) = "PRIORITY" BY FieldAt
<1>5. (i = 1 \/ i \in 2 .. 3 * Len(Dims) + 1) /\ (j = 1 \/ j \in 2 .. 3 * Len(Dims) + 1) BY DimsAre
<1>6. i = 1 <=> j = 1 BY <1>3, <1>4, <1>5
<1>7. ASSUME i # 1, j # 1 PROVE i = j
  <2>1. PICK k \in 1 .. Len(Dims) : i \in {3 * k - 1, 3 * k, 3 * k + 1} /\ ChannelFieldAt(i) \in At(k)
    BY <1>2, <1>5, <1>7
  <2>2. PICK l \in 1 .. Len(Dims) : j \in {3 * l - 1, 3 * l, 3 * l + 1} /\ ChannelFieldAt(j) \in At(l)
    BY <1>2, <1>5, <1>7
  <2>3. k = l
    <3>1. Dims[k] \in {"CATEGORY", "IDENTIFY"} /\ Dims[l] \in {"CATEGORY", "IDENTIFY"} BY DimsAre
    <3>2. Dims[k] # Dims[l] => At(k) \cap At(l) = {} BY <3>1, FieldsOfDim
    <3>3. ChannelFieldAt(i) \in At(k) \cap At(l) BY <2>1, <2>2
    <3>4. Dims[k] = Dims[l] BY <3>2, <3>3
    <3> QED BY <3>4, DimsAre
  <2>4. Dims[k] # Extend[Dims[k]] /\ Dims[k] # Filter[Dims[k]] /\ Extend[Dims[k]] # Filter[Dims[k]]
    BY DimsAre, FieldsOfDim
  <2>5. i \in {3 * k - 1, 3 * k, 3 * k + 1} /\ j \in {3 * k - 1, 3 * k, 3 * k + 1} BY <2>1, <2>2, <2>3
  <2>6. ChannelFieldAt(3 * k - 1) = Dims[k] /\ ChannelFieldAt(3 * k) = Extend[Dims[k]]
        /\ ChannelFieldAt(3 * k + 1) = Filter[Dims[k]]
    BY FieldAt
  <2> QED BY <2>4, <2>5, <2>6
<1> QED BY <1>6, <1>7

LEMMA FieldsOnce ==
  /\ \A i, j \in 1 .. Len(ChannelFields) : ChannelFields[i] = ChannelFields[j] => i = j
  /\ \A i, j \in 1 .. Len(DeviceFields) : DeviceFields[i] = DeviceFields[j] => i = j
<1>1. ASSUME NEW i \in 1 .. Len(ChannelFields), NEW j \in 1 .. Len(ChannelFields),
             ChannelFields[i] = ChannelFields[j]
      PROVE  i = j
  BY <1>1, FieldsAre, FieldAtOnce
<1>2. ASSUME NEW i \in 1 .. Len(DeviceFields), NEW j \in 1 .. Len(DeviceFields),
             DeviceFields[i] = DeviceFields[j]
      PROVE  i = j
  <2>1. \A k \in 1 .. Len(DeviceFields) : k # 1 =>
          /\ k \in 2 .. Len(DeviceFields) /\ k - 1 \in 1 .. 3 * Len(Dims) + 1
          /\ DeviceFields[k] = ChannelFieldAt(k - 1) /\ DeviceFields[k] # "ABLE"
    <3> SUFFICES ASSUME NEW k \in 1 .. Len(DeviceFields), k # 1
                 PROVE  /\ k \in 2 .. Len(DeviceFields) /\ k - 1 \in 1 .. 3 * Len(Dims) + 1
                        /\ DeviceFields[k] = ChannelFieldAt(k - 1) /\ DeviceFields[k] # "ABLE"
      OBVIOUS
    <3>1. k \in 2 .. Len(DeviceFields) /\ k - 1 \in 1 .. 3 * Len(Dims) + 1 BY FieldsAre, DimsAre
    <3>2. DeviceFields[k] = ChannelFieldAt(k - 1) BY <3>1, FieldsAre
    <3> QED BY <3>1, <3>2, FieldAtName
  <2>2. i = 1 <=> j = 1 BY <1>2, <2>1, FieldsAre
  <2>3. ASSUME i # 1, j # 1 PROVE i = j
    <3>1. i - 1 = j - 1 BY <1>2, <2>1, <2>3, FieldAtOnce
    <3> QED BY <3>1, FieldsAre
  <2> QED BY <2>2, <2>3
<1> QED BY <1>1, <1>2

LEMMA RangesAre ==
  /\ Range(ChannelFields) = {ChannelFields[i] : i \in 1 .. Len(ChannelFields)}
  /\ Range(DeviceFields) = {DeviceFields[i] : i \in 1 .. Len(DeviceFields)}
  /\ Range(ChannelFields) \subseteq FieldNames \ {"ABLE"}
  /\ Range(DeviceFields) = Range(ChannelFields) \cup {"ABLE"}
  /\ "NEW" \notin FieldNames
  /\ "PRIORITY" \in Range(ChannelFields)
  /\ \A k \in DOMAIN Dims : {Dims[k], Extend[Dims[k]], Filter[Dims[k]]} \subseteq Range(ChannelFields)
<1>1. Range(ChannelFields) = {ChannelFields[i] : i \in 1 .. Len(ChannelFields)} BY FieldsAre DEF Range
<1>2. Range(DeviceFields) = {DeviceFields[i] : i \in 1 .. Len(DeviceFields)} BY FieldsAre DEF Range
<1>3. Range(ChannelFields) \subseteq FieldNames \ {"ABLE"} BY <1>1, FieldsAre, FieldAtName
<1>4. \A i \in 1 .. Len(ChannelFields) : i + 1 \in 2 .. Len(DeviceFields) /\ DeviceFields[i + 1] = ChannelFields[i]
  <2> SUFFICES ASSUME NEW i \in 1 .. Len(ChannelFields)
               PROVE  i + 1 \in 2 .. Len(DeviceFields) /\ DeviceFields[i + 1] = ChannelFields[i]
    OBVIOUS
  <2>1. i + 1 \in 2 .. Len(DeviceFields) /\ (i + 1) - 1 = i BY FieldsAre, DimsAre
  <2> QED BY <2>1, FieldsAre
<1>5. Range(DeviceFields) = Range(ChannelFields) \cup {"ABLE"}
  <2>1. ASSUME NEW f \in Range(DeviceFields) PROVE f \in Range(ChannelFields) \cup {"ABLE"}
    <3>1. PICK i \in 1 .. Len(DeviceFields) : f = DeviceFields[i] BY <1>2
    <3>2. CASE i = 1 BY <3>1, <3>2, FieldsAre
    <3>3. CASE i # 1
      <4>1. i - 1 \in 1 .. Len(ChannelFields) /\ (i - 1) + 1 = i BY <3>3, FieldsAre, DimsAre
      <4> QED BY <1>1, <1>4, <3>1, <4>1
    <3> QED BY <3>2, <3>3
  <2>2. \A f \in Range(ChannelFields) : f \in Range(DeviceFields)
    <3> TAKE f \in Range(ChannelFields)
    <3>1. PICK i \in 1 .. Len(ChannelFields) : f = ChannelFields[i] BY <1>1
    <3>2. i + 1 \in 1 .. Len(DeviceFields) BY <1>4, FieldsAre
    <3> QED BY <1>2, <1>4, <3>1, <3>2
  <2>3. "ABLE" \in Range(DeviceFields)
    <3>1. 1 \in 1 .. Len(DeviceFields) BY FieldsAre
    <3> QED BY <1>2, <3>1, FieldsAre
  <2> QED BY <2>1, <2>2, <2>3
<1>6. "NEW" \notin FieldNames BY DEF FieldNames
<1>7. "PRIORITY" \in Range(ChannelFields)
  <2>1. 1 \in 1 .. Len(ChannelFields) BY FieldsAre
  <2> QED BY <1>1, <2>1, FieldsAre, FieldAt
<1>8. ASSUME NEW k \in DOMAIN Dims
      PROVE  {Dims[k], Extend[Dims[k]], Filter[Dims[k]]} \subseteq Range(ChannelFields)
  <2>1. k \in 1 .. Len(Dims) BY DimsAre
  <2>2. {3 * k - 1, 3 * k, 3 * k + 1} \subseteq 1 .. Len(ChannelFields) BY <2>1, DimsAre, FieldsAre
  <2> QED BY <1>1, <2>1, <2>2, FieldAt, FieldsAre
<1> QED BY <1>1, <1>2, <1>3, <1>5, <1>6, <1>7, <1>8

-----------------------------------------------------------------------------
(* The words of a configuration.                                           *)

LEMMA Division ==
  ASSUME NEW k \in Nat, NEW m \in Nat \ {0}
  PROVE  /\ k \div m \in Nat /\ k % m \in 0 .. m - 1
         /\ k = m * (k \div m) + (k % m)
<1>1. k \div m \in Nat OBVIOUS
<1>2. k % m \in 0 .. m - 1 OBVIOUS
<1>3. k = m * (k \div m) + (k % m) OBVIOUS
<1> QED BY <1>1, <1>2, <1>3

LEMMA Multiples ==
  ASSUME NEW m \in Nat, NEW a \in Nat, NEW b \in Nat, a < b
  PROVE  m * a \in Nat /\ m * b \in Nat /\ m * a + m <= m * b
<1>1. b - a - 1 \in Nat OBVIOUS
<1>2. m * (b - a - 1) \in Nat BY <1>1, SMT
<1>3. m * b = m * a + m + m * (b - a - 1) BY SMT
<1>4. m * a \in Nat /\ m * b \in Nat BY SMT
<1> QED BY <1>2, <1>3, <1>4

LEMMA Quotient ==
  ASSUME NEW q \in Nat, NEW r \in Nat, NEW m \in Nat \ {0}, r < m
  PROVE  (m * q + r) \div m = q /\ (m * q + r) % m = r
<1> DEFINE k == m * q + r
           d == k \div m
           e == k % m
<1>1. m * q \in Nat /\ k \in Nat
  <2>1. m * q \in Nat BY SMT
  <2> QED BY <2>1
<1>2. d \in Nat /\ e \in 0 .. m - 1 /\ k = m * d + e
  <2> HIDE DEF k
  <2> QED BY <1>1, Division
<1> HIDE DEF d, e
<1>3. m * d \in Nat BY <1>2, SMT
<1>4. d = q
  <2>1. ASSUME d < q PROVE FALSE
    <3>1. m * d + m <= m * q BY <1>2, <2>1, Multiples
    <3> QED BY <1>1, <1>2, <1>3, <3>1
  <2>2. ASSUME q < d PROVE FALSE
    <3>1. m * q + m <= m * d BY <1>2, <2>2, Multiples
    <3> QED BY <1>1, <1>2, <1>3, <3>1
  <2> QED BY <1>2, <2>1, <2>2
<1>5. e = r
  <2>1. m * q + r = m * q + e BY <1>2, <1>4
  <2> QED BY <1>1, <1>2, <2>1
<1> QED BY <1>4, <1>5 DEF d, e

LEMMA WordsAre ==
  ASSUME NEW n \in 0 .. MAX_DEVICE_SIZE
  PROVE  /\ Len(WordsOf[n]) \in Nat /\ Len(WordsOf[n]) = Len(ChannelFields) + n * PerDevice
         /\ DOMAIN WordsOf[n] = 1 .. Len(WordsOf[n])
         /\ \A i \in 1 .. Len(WordsOf[n]) : WordsOf[n][i] = WordAt(i)
<1>1. n \in Nat /\ PerDevice \in Nat BY FieldsAre DEF PerDevice
<1>2. n * PerDevice \in Nat BY <1>1
<1> DEFINE m == Len(ChannelFields) + n * PerDevice
<1>3. m \in Nat BY <1>2, FieldsAre
<1>4. WordsOf[n] = [i \in 1 .. m |-> WordAt(i)] BY DEF WordsOf
<1> HIDE DEF m
<1>5. Len(WordsOf[n]) = m BY <1>3, <1>4
<1> QED BY <1>3, <1>4, <1>5 DEF m

(* A device's words come after the one that makes room for it, and those   *)
(* after the words of the device before it.                                *)
IsChannelWord(w) == w[1] = 0 /\ w[2] \in Range(ChannelFields) /\ w = <<0, w[2]>>
IsDeviceWord(w, n) == w[1] \in 1 .. n /\ w[2] \in Range(DeviceFields) /\ w = <<w[1], w[2]>>
IsRoomWord(w, n) == w[1] \in 1 .. n /\ w = <<w[1], "NEW">>

LEMMA WordIs ==
  ASSUME NEW n \in 0 .. MAX_DEVICE_SIZE, NEW i \in 1 .. Len(WordsOf[n])
  PROVE  LET w == WordsOf[n][i]
         IN  \/ IsChannelWord(w)
             \/ IsDeviceWord(w, n) /\ \E j \in 1 .. i - 1 : WordsOf[n][j] = <<w[1], "NEW">>
             \/ /\ IsRoomWord(w, n)
                /\ w[1] > 1 => \E j \in 1 .. i - 1 : WordsOf[n][j] = <<w[1] - 1, "NEW">>
<1> DEFINE w == WordsOf[n][i]
           c == Len(ChannelFields)
           m == PerDevice
           k == i - c - 1
           q == k \div m
           r == k % m
<1>1. n \in Nat /\ c \in Nat /\ m \in Nat /\ m > 1 /\ m = Len(DeviceFields) + 1 BY FieldsAre DEF PerDevice
<1>2. i \in Nat /\ i >= 1 /\ i <= c + n * m /\ w = WordAt(i) BY WordsAre
<1>3. CASE k < 0
  <2>1. w = <<0, ChannelFields[i]>> BY <1>2, <1>3 DEF WordAt
  <2>2. i \in 1 .. Len(ChannelFields) BY <1>1, <1>2, <1>3
  <2>3. ChannelFields[i] \in Range(ChannelFields) BY <2>2, RangesAre
  <2> HIDE DEF w
  <2>4. IsChannelWord(w) BY <2>1, <2>3 DEF IsChannelWord
  <2> QED BY <2>4 DEF w
<1>4. CASE ~(k < 0)
  <2>1. k \in Nat BY <1>1, <1>2, <1>4
  <2>2. q \in Nat /\ r \in 0 .. m - 1 /\ k = m * q + r
    <3>1. m \in Nat \ {0} BY <1>1
    <3> HIDE DEF k, m
    <3> QED BY <2>1, <3>1, Division
  <2>3. w = IF r = 0 THEN <<q + 1, "NEW">> ELSE <<q + 1, DeviceFields[r]>>
    BY <1>2, <1>4 DEF WordAt
  <2> HIDE DEF w, q, r, k, m, c
  <2>4. m * q \in Nat /\ n * m \in Nat /\ i = c + 1 + m * q + r
    <3>1. m * q \in Nat /\ n * m \in Nat BY <1>1, <2>2
    <3>2. k = i - c - 1 BY DEF k
    <3> QED BY <1>1, <1>2, <2>2, <3>1, <3>2
  <2>5. q < n
    <3> SUFFICES ASSUME n <= q PROVE FALSE BY <1>1, <2>2
    <3>1. m * n <= m * q BY <1>1, <2>2, Z3
    <3>2. m * n = n * m BY <1>1, Z3
    <3> QED BY <1>1, <1>2, <2>2, <2>4, <3>1, <3>2
  (* Room for device p is made at c + 1 + m * (p - 1). *)
  <2>6. ASSUME NEW p \in Nat, p <= q
        PROVE  /\ c + 1 + m * p \in 1 .. Len(WordsOf[n])
               /\ c + 1 + m * p <= c + 1 + m * q
               /\ WordsOf[n][c + 1 + m * p] = <<p + 1, "NEW">>
    <3> DEFINE j == c + 1 + m * p
    <3>1. m * p \in Nat /\ m * p <= m * q BY <1>1, <2>2, <2>6, Z3
    <3>2. j \in 1 .. Len(WordsOf[n])
      <4>1. j <= i BY <1>1, <2>2, <2>4, <3>1
      <4>2. j \in Nat /\ j >= 1 BY <1>1, <3>1
      <4> QED BY <1>2, <4>1, <4>2
    <3>3. j - c - 1 = m * p /\ ~(m * p < 0) BY <1>1, <3>1
    <3>4. (m * p + 0) \div m = p /\ (m * p + 0) % m = 0
      <4>1. 0 \in Nat /\ m \in Nat \ {0} /\ 0 < m BY <1>1
      <4> QED BY <4>1, Quotient
    <3>5. (m * p) \div m = p /\ (m * p) % m = 0 BY <3>1, <3>4
    <3>6. WordAt(j) = <<p + 1, "NEW">>
      <4> HIDE DEF j
      <4> QED BY <3>3, <3>5 DEF WordAt, c, m
    <3>7. WordsOf[n][j] = WordAt(j)
      <4> HIDE DEF j
      <4> QED BY <3>2, WordsAre
    <3> QED BY <1>1, <2>4, <3>1, <3>2, <3>6, <3>7
  <2>7. CASE r = 0
    <3>1. w = <<q + 1, "NEW">> BY <2>3, <2>7
    <3>2. IsRoomWord(w, n) BY <2>2, <2>5, <1>1, <3>1 DEF IsRoomWord
    <3>3. ASSUME w[1] > 1 PROVE \E j \in 1 .. i - 1 : WordsOf[n][j] = <<w[1] - 1, "NEW">>
      <4>1. q >= 1 /\ q - 1 \in Nat BY <2>2, <3>1, <3>3
      <4>2. WordsOf[n][c + 1 + m * (q - 1)] = <<(q - 1) + 1, "NEW">>
            /\ c + 1 + m * (q - 1) \in 1 .. Len(WordsOf[n])
        BY <2>2, <2>6, <4>1
      <4>3. m * (q - 1) = m * q - m BY <1>1, <2>2, Z3
      <4>4. c + 1 + m * (q - 1) \in 1 .. i - 1 BY <1>1, <2>2, <2>4, <2>7, <4>2, <4>3
      <4>5. (q - 1) + 1 = w[1] - 1 BY <2>2, <3>1
      <4> QED BY <4>2, <4>4, <4>5
    <3> QED BY <3>2, <3>3 DEF w
  <2>8. CASE r # 0
    <3>1. w = <<q + 1, DeviceFields[r]>> BY <2>3, <2>8
    <3>2. r \in 1 .. Len(DeviceFields) BY <1>1, <2>2, <2>8
    <3>3. DeviceFields[r] \in Range(DeviceFields) BY <3>2, RangesAre
    <3>4. IsDeviceWord(w, n) BY <2>2, <2>5, <1>1, <3>1, <3>3 DEF IsDeviceWord
    <3>5. WordsOf[n][c + 1 + m * q] = <<q + 1, "NEW">> BY <2>2, <2>6
    <3>6. c + 1 + m * q \in 1 .. i - 1 BY <1>1, <2>2, <2>4, <2>8
    <3>7. w[1] = q + 1 BY <3>1
    <3> QED BY <3>4, <3>5, <3>6, <3>7 DEF w
  <2> QED BY <2>7, <2>8
<1> QED BY <1>3, <1>4

-----------------------------------------------------------------------------
(* What a file says, if it is accepted.                                    *)
FileSet == {f \in [ver : DOMAIN Texts, len : Nat] : f.len <= Len(Texts[f.ver])}
TextOf(f) == SubSeq(Texts[f.ver], 1, f.len)
Vals == {0, {}} \cup {s.value : s \in Settings} \cup UNION {TextVals(TextOf(f)) : f \in FileSet}

LEMMA WholeIsFile == \A v \in DOMAIN Texts : Whole(v) \in FileSet /\ Whole(v).ver = v /\ Whole(v).len = Len(Texts[v])
BY TextAssumption DEF Whole, FileSet

LEMMA MoreVals ==
  ASSUME NEW V, NEW W, V \subseteq W, NEW channels, WellFormed(channels, V)
  PROVE  WellFormed(channels, W)
<1>1. \A S : [S -> V] \subseteq [S -> W] OBVIOUS
<1>2. Devices(V) \subseteq Devices(W) BY <1>1 DEF Devices
<1>3. Seq(Devices(V)) \subseteq Seq(Devices(W)) BY <1>2
<1>4. ChannelSet(V) \subseteq ChannelSet(W) BY <1>1, <1>3 DEF ChannelSet
<1>5. Seq(ChannelSet(V)) \subseteq Seq(ChannelSet(W)) BY <1>4
<1> QED BY <1>5 DEF WellFormed

LEMMA ContentIs ==
  ASSUME NEW f \in FileSet, Content(f).ret = "NONE"
  PROVE  Content(f).hot_update \in BOOLEAN /\ WellFormed(Content(f).channels, Vals)
<1>1. f.ver \in DOMAIN Texts /\ f.len \in 0 .. Len(Texts[f.ver]) /\ Texts[f.ver] \in Seq(STRING)
  BY TextAssumption DEF FileSet
<1>2. Content(f) = ParseLogger(TextOf(f)) BY <1>1 DEF Content, Parsed, TextOf
<1>3. f.len \in Nat /\ DOMAIN TextOf(f) = 1 .. f.len BY <1>1 DEF TextOf
<1>4. TextVals(TextOf(f)) \subseteq Vals BY DEF Vals
<1>5. /\ ParseLogger(TextOf(f)).hot_update \in BOOLEAN
      /\ WellFormed(ParseLogger(TextOf(f)).channels, TextVals(TextOf(f)))
  BY <1>2, <1>3, AcceptedTextIsWellFormed
<1> QED BY <1>2, <1>4, <1>5, MoreVals

LEMMA ChannelOf ==
  ASSUME NEW channels, WellFormed(channels, Vals), NEW c \in Nat, c < Len(channels)
  PROVE  channels[c + 1] \in ChannelSet(Vals) /\ DevicesNumbered(channels[c + 1])
<1>1. channels \in Seq(ChannelSet(Vals)) /\ c + 1 \in 1 .. Len(channels) BY DEF WellFormed
<1> QED BY <1>1 DEF WellFormed, ChannelsNumbered

LEMMA ChannelsAre == 0 \in Channels /\ Channels \subseteq Nat /\ NoOne \notin Channels
<1>1. 1 \in DOMAIN Texts BY TextAssumption, ConfigAssumption
<1>2. WellFormed(Content(Whole(1)).channels, Vals) BY <1>1, WholeIsFile, ContentIs, ConfigAssumption
<1>3. Len(Content(Whole(1)).channels) \in Nat \ {0} BY <1>2 DEF WellFormed
<1> QED BY <1>3 DEF Channels, NoOne

-----------------------------------------------------------------------------
(* Writing one word.                                                       *)
Configs == [fields : [Range(ChannelFields) -> Vals], devices : Seq(Devices(Vals))]
Sane(config) == config \in Configs /\ DevicesNumbered(config)

(* A word that the configuration has.                                      *)
IsWordOf(w, config) == IsChannelWord(w) \/ IsDeviceWord(w, Len(config.devices))

LEMMA WordType ==
  ASSUME NEW config \in Configs, NEW w, IsWordOf(w, config)
  PROVE  Word(config, w) \in Vals
<1>1. CASE IsChannelWord(w) BY <1>1 DEF IsChannelWord, Word, Configs
<1>2. CASE IsDeviceWord(w, Len(config.devices))
  <2>1. config.devices[w[1]] \in Devices(Vals) BY <1>2 DEF IsDeviceWord, Configs
  <2>2. w[1] # 0 BY <1>2 DEF IsDeviceWord
  <2> QED BY <1>2, <2>1, <2>2 DEF IsDeviceWord, Word, Devices
<1> QED BY <1>1, <1>2 DEF IsWordOf

LEMMA WithIs ==
  ASSUME NEW config, Sane(config), NEW w, IsWordOf(w, config), NEW v \in Vals
  PROVE  /\ Sane(With(config, w, v)) /\ Len(With(config, w, v).devices) = Len(config.devices)
         /\ Word(With(config, w, v), w) = v
         /\ \A u : IsWordOf(u, config) /\ u # w => Word(With(config, w, v), u) = Word(config, u)
<1> DEFINE new == With(config, w, v)
           n == Len(config.devices)
<1>0. n \in Nat /\ config.devices \in Seq(Devices(Vals)) /\ DOMAIN config.devices = 1 .. n
      /\ config.fields \in [Range(ChannelFields) -> Vals]
  BY DEF Sane, Configs
<1>1. CASE IsChannelWord(w)
  <2>1. w[1] = 0 /\ w[2] \in Range(ChannelFields) BY <1>1 DEF IsChannelWord
  <2>2. new = [config EXCEPT !.fields[w[2]] = v] BY <2>1 DEF With
  <2>3. /\ new.fields = [config.fields EXCEPT ![w[2]] = v] /\ new.devices = config.devices
        /\ new \in Configs
    BY <1>0, <2>1, <2>2 DEF Sane, Configs
  <2> HIDE DEF new
  <2>4. Sane(new) /\ Len(new.devices) = n BY <2>3 DEF Sane, DevicesNumbered
  <2>5. Word(new, w) = v BY <1>0, <2>1, <2>3 DEF Word
  <2>6. ASSUME NEW u, IsWordOf(u, config), u # w PROVE Word(new, u) = Word(config, u)
    <3>1. CASE IsChannelWord(u)
      <4>1. u[2] # w[2] BY <1>1, <2>6, <3>1 DEF IsChannelWord
      <4> QED BY <1>0, <2>1, <2>3, <3>1, <4>1 DEF IsChannelWord, Word
    <3>2. CASE IsDeviceWord(u, n) BY <1>0, <2>3, <3>2 DEF IsDeviceWord, Word
    <3> QED BY <2>6, <3>1, <3>2 DEF IsWordOf
  <2> QED BY <2>4, <2>5, <2>6 DEF new
<1>2. CASE IsDeviceWord(w, n)
  <2>1. w[1] \in 1 .. n /\ w[1] # 0 /\ w[2] \in Range(DeviceFields) BY <1>0, <1>2 DEF IsDeviceWord
  <2> DEFINE old == config.devices[w[1]]
             device == [old EXCEPT !.fields[w[2]] = v]
             devs == [config.devices EXCEPT ![w[1]] = device]
  <2>2. old \in Devices(Vals) BY <1>0, <2>1
  <2>3. /\ device \in Devices(Vals) /\ device.device_id = old.device_id
        /\ device.fields = [old.fields EXCEPT ![w[2]] = v]
    <3> HIDE DEF old
    <3> QED BY <2>1, <2>2 DEF Devices
  <2>4. new = [config EXCEPT !.devices = devs] BY <2>1 DEF With
  <2> HIDE DEF new, device
  <2>5. devs \in Seq(Devices(Vals)) /\ Len(devs) = n /\ devs[w[1]] = device
        /\ \A d \in 1 .. n : d # w[1] => devs[d] = config.devices[d]
    BY <1>0, <2>1, <2>3
  <2> HIDE DEF devs
  <2>6. new \in Configs /\ new.devices = devs /\ new.fields = config.fields
    BY <1>0, <2>4, <2>5 DEF Sane, Configs
  <2>7. DevicesNumbered(new)
    <3>1. ASSUME NEW d \in 1 .. n PROVE devs[d].device_id = d - 1
      <4>1. config.devices[d].device_id = d - 1 BY DEF Sane, DevicesNumbered
      <4>2. CASE d = w[1] BY <2>3, <2>5, <4>1, <4>2
      <4>3. CASE d # w[1] BY <2>5, <4>1, <4>3
      <4> QED BY <4>2, <4>3
    <3>2. n <= MAX_DEVICE_SIZE BY DEF Sane, DevicesNumbered
    <3> QED BY <2>5, <2>6, <3>1, <3>2 DEF DevicesNumbered
  <2>8. old.fields \in [Range(DeviceFields) -> Vals] BY <2>2 DEF Devices
  <2>9. Word(new, w) = v
    <3>1. Word(new, w) = device.fields[w[2]] BY <2>1, <2>5, <2>6 DEF Word
    <3> HIDE DEF old
    <3> QED BY <2>1, <2>3, <2>8, <3>1
  <2>10. ASSUME NEW u, IsWordOf(u, config), u # w PROVE Word(new, u) = Word(config, u)
    <3>1. CASE IsChannelWord(u) BY <2>6, <3>1 DEF IsChannelWord, Word
    <3>2. CASE IsDeviceWord(u, n) /\ u[1] # w[1]
      BY <2>5, <2>6, <3>2 DEF IsDeviceWord, Word
    <3>3. CASE IsDeviceWord(u, n) /\ u[1] = w[1]
      <4>1. u[2] # w[2] BY <1>2, <2>10, <3>3 DEF IsDeviceWord
      <4>2. u[2] \in Range(DeviceFields) BY <3>3 DEF IsDeviceWord
      <4>3. Word(new, u) = device.fields[u[2]] BY <2>1, <2>5, <2>6, <3>3 DEF Word
      <4>4. Word(config, u) = old.fields[u[2]] BY <2>1, <3>3 DEF Word
      <4> HIDE DEF old
      <4> QED BY <2>3, <2>8, <4>1, <4>2, <4>3, <4>4
    <3> QED BY <2>10, <3>1, <3>2, <3>3 DEF IsWordOf
  <2> QED BY <2>5, <2>6, <2>7, <2>9, <2>10 DEF new, Sane
<1> QED BY <1>1, <1>2 DEF IsWordOf

(* Copying one word of a source, for which there is room.                  *)
Copyable(config, source, w) ==
  \/ IsWordOf(w, config)
  \/ IsRoomWord(w, Len(source.devices)) /\ w[1] = Len(config.devices) + 1

LEMMA RoomIs ==
  ASSUME NEW config, Sane(config), NEW source \in ChannelSet(Vals), DevicesNumbered(source),
         NEW w, IsRoomWord(w, Len(source.devices)), w[1] = Len(config.devices) + 1
  PROVE  LET new == Copied(config, source, w)
         IN  /\ Sane(new) /\ Len(new.devices) = w[1] /\ new.fields = config.fields
             /\ \A d \in 1 .. Len(config.devices) : new.devices[d] = config.devices[d]
             /\ new.devices[w[1]].fields = ZeroFields(DeviceFields)
<1> DEFINE new == Copied(config, source, w)
           n == Len(config.devices)
           old == source.devices[w[1]]
           device == [old EXCEPT !.fields = ZeroFields(DeviceFields)]
           devs == Append(config.devices, device)
<1>0. /\ n \in Nat /\ config.devices \in Seq(Devices(Vals)) /\ DOMAIN config.devices = 1 .. n
      /\ config.fields \in [Range(ChannelFields) -> Vals]
  BY DEF Sane, Configs
<1>1. w[2] = "NEW" /\ w[1] \in 1 .. Len(source.devices) /\ w[1] = n + 1 BY DEF IsRoomWord
<1>2. old \in Devices(Vals) /\ old.device_id = n /\ Len(source.devices) <= MAX_DEVICE_SIZE
  <2>1. source.devices \in Seq(Devices(Vals)) BY DEF ChannelSet
  <2>2. old.device_id = w[1] - 1 /\ Len(source.devices) <= MAX_DEVICE_SIZE BY <1>1 DEF DevicesNumbered
  <2>3. n = w[1] - 1 BY <1>0, <1>1
  <2> QED BY <1>1, <2>1, <2>2, <2>3
<1>3. /\ device \in Devices(Vals) /\ device.device_id = n
      /\ device.fields = ZeroFields(DeviceFields)
  <2>1. ZeroFields(DeviceFields) \in [Range(DeviceFields) -> Vals] BY ZeroType DEF Vals
  <2> HIDE DEF old
  <2> QED BY <1>2, <2>1 DEF Devices
<1>4. new = [config EXCEPT !.devices = devs] BY <1>1 DEF Copied
<1> HIDE DEF new, device
<1>5. /\ devs \in Seq(Devices(Vals)) /\ Len(devs) = n + 1 /\ devs[n + 1] = device
      /\ \A d \in 1 .. n : devs[d] = config.devices[d]
  BY <1>0, <1>3
<1> HIDE DEF devs
<1>6. new \in Configs /\ new.devices = devs /\ new.fields = config.fields
  BY <1>0, <1>4, <1>5 DEF Sane, Configs
<1>7. DevicesNumbered(new)
  <2>1. ASSUME NEW d \in 1 .. n + 1 PROVE devs[d].device_id = d - 1
    <3>1. CASE d = n + 1 BY <1>0, <1>3, <1>5, <3>1
    <3>2. CASE d # n + 1
      <4>1. d \in 1 .. n BY <1>0, <3>2
      <4>2. config.devices[d].device_id = d - 1 BY <4>1 DEF Sane, DevicesNumbered
      <4> QED BY <1>5, <4>1, <4>2
    <3> QED BY <3>1, <3>2
  <2>2. n + 1 <= MAX_DEVICE_SIZE
    <3>1. Len(source.devices) \in Nat BY DEF ChannelSet
    <3> QED BY <1>0, <1>1, <1>2, <3>1, ParserAssumption
  <2> QED BY <1>5, <1>6, <2>1, <2>2 DEF DevicesNumbered
<1> QED BY <1>1, <1>3, <1>5, <1>6, <1>7 DEF new, Sane

LEMMA SourceWord ==
  ASSUME NEW config, Sane(config), NEW source \in ChannelSet(Vals), NEW w,
         IsWordOf(w, config), w[1] <= Len(source.devices)
  PROVE  Word(source, w) \in Vals
<1>1. CASE IsChannelWord(w) BY <1>1 DEF IsChannelWord, Word, ChannelSet
<1>2. CASE IsDeviceWord(w, Len(config.devices))
  <2>1. Len(config.devices) \in Nat /\ source.devices \in Seq(Devices(Vals)) BY DEF Sane, Configs, ChannelSet
  <2>2. w[1] \in 1 .. Len(source.devices) /\ w[1] # 0 /\ w[2] \in Range(DeviceFields)
    BY <1>2, <2>1 DEF IsDeviceWord
  <2>3. source.devices[w[1]] \in Devices(Vals) BY <2>1, <2>2
  <2> QED BY <2>2, <2>3 DEF Word, Devices
<1> QED BY <1>1, <1>2 DEF IsWordOf

LEMMA FieldsNotNew ==
  ASSUME NEW config, NEW w, IsWordOf(w, config)
  PROVE  w[2] # "NEW"
BY RangesAre DEF IsWordOf, IsChannelWord, IsDeviceWord

(* A word once there stays there when another word is written.             *)
IsHeldWord(u, source) == IsChannelWord(u) \/ IsDeviceWord(u, Len(source.devices)) \/ IsRoomWord(u, Len(source.devices))

LEMMA HeldWord ==
  ASSUME NEW config \in Configs, NEW source, NEW u, IsHeldWord(u, source), u[1] <= Len(config.devices)
  PROVE  u[2] = "NEW" \/ IsWordOf(u, config)
<1>1. Len(config.devices) \in Nat BY DEF Configs
<1> QED BY <1>1 DEF IsHeldWord, IsWordOf, IsRoomWord, IsDeviceWord

LEMMA WithHolds ==
  ASSUME NEW config, Sane(config), NEW w, IsWordOf(w, config), NEW v \in Vals,
         NEW source, NEW u, IsHeldWord(u, source), u # w, Holds(config, source, u)
  PROVE  Holds(With(config, w, v), source, u)
<1> DEFINE new == With(config, w, v)
<1>1. Len(new.devices) = Len(config.devices)
      /\ \A x : IsWordOf(x, config) /\ x # w => Word(new, x) = Word(config, x)
  BY WithIs
<1>2. u[2] = "NEW" \/ IsWordOf(u, config) BY HeldWord DEF Holds, Sane
<1> HIDE DEF new
<1> QED BY <1>1, <1>2 DEF Holds, new

LEMMA CopiedIs ==
  ASSUME NEW config, Sane(config), NEW source \in ChannelSet(Vals), DevicesNumbered(source),
         NEW w, Copyable(config, source, w), w[1] <= Len(source.devices)
  PROVE  LET new == Copied(config, source, w)
         IN  /\ Sane(new) /\ Len(new.devices) \in Nat /\ Len(new.devices) >= Len(config.devices)
             /\ Holds(new, source, w)
             /\ \A u : IsHeldWord(u, source) /\ Holds(config, source, u) => Holds(new, source, u)
<1> DEFINE new == Copied(config, source, w)
<1>0. Len(config.devices) \in Nat BY DEF Sane, Configs
<1>1. CASE IsWordOf(w, config)
  <2> DEFINE v == Word(source, w)
  <2>1. w[2] # "NEW" BY <1>1, FieldsNotNew
  <2>2. new = With(config, w, v) BY <2>1 DEF Copied
  <2>3. v \in Vals BY <1>1, SourceWord
  <2> HIDE DEF new, v
  <2>4. Sane(new) /\ Len(new.devices) = Len(config.devices) /\ Word(new, w) = v
    BY <1>1, <2>2, <2>3, WithIs
  <2>5. w[1] <= Len(config.devices)
    BY <1>0, <1>1 DEF IsWordOf, IsChannelWord, IsDeviceWord
  <2>6. Holds(new, source, w) BY <2>4, <2>5 DEF Holds, v
  <2>7. ASSUME NEW u, IsHeldWord(u, source), Holds(config, source, u) PROVE Holds(new, source, u)
    <3>1. CASE u = w BY <2>6, <3>1
    <3>2. CASE u # w BY <1>1, <2>2, <2>3, <2>7, <3>2, WithHolds
    <3> QED BY <3>1, <3>2
  <2> QED BY <1>0, <2>4, <2>6, <2>7 DEF new
<1>2. CASE IsRoomWord(w, Len(source.devices)) /\ w[1] = Len(config.devices) + 1
  <2>1. /\ Sane(new) /\ Len(new.devices) = w[1] /\ new.fields = config.fields
        /\ \A d \in 1 .. Len(config.devices) : new.devices[d] = config.devices[d]
    BY <1>2, RoomIs
  <2> HIDE DEF new
  <2>2. w[2] = "NEW" /\ w[1] \in Nat BY <1>0, <1>2 DEF IsRoomWord
  <2>3. Holds(new, source, w) BY <2>1, <2>2 DEF Holds
  <2>4. ASSUME NEW u, IsHeldWord(u, source), Holds(config, source, u) PROVE Holds(new, source, u)
    <3>1. u[1] <= Len(config.devices) BY <2>4 DEF Holds
    <3>2. u[1] \in Nat
      <4>1. Len(source.devices) \in Nat BY DEF ChannelSet
      <4> QED BY <2>4, <4>1 DEF IsHeldWord, IsChannelWord, IsDeviceWord, IsRoomWord
    <3>3. u[1] <= Len(new.devices) BY <1>0, <1>2, <2>1, <3>1, <3>2
    <3>4. Word(new, u) = Word(config, u)
      <4>1. CASE u[1] = 0 BY <2>1, <4>1 DEF Word
      <4>2. CASE u[1] # 0
        <5>1. u[1] \in 1 .. Len(config.devices) BY <1>0, <3>1, <3>2, <4>2
        <5> QED BY <2>1, <4>2, <5>1 DEF Word
      <4> QED BY <4>1, <4>2
    <3> QED BY <2>4, <3>3, <3>4 DEF Holds
  <2>5. Len(new.devices) \in Nat /\ Len(new.devices) >= Len(config.devices) BY <1>0, <1>2, <2>1, <2>2
  <2> QED BY <2>1, <2>3, <2>4, <2>5 DEF new
<1> QED BY <1>1, <1>2 DEF Copyable

-----------------------------------------------------------------------------
(* The configuration and the threads that replace it.                      *)
Batches ==
  [kind : {"channels"}, chan : Channels, dev : {0}, field : Range(ChannelFields), value : Vals]
  \cup [kind : {"devices"}, chan : Channels, dev : Nat \ {0}, field : Range(DeviceFields), value : Vals,
        out_type : DeviceTypes]

TypeInv ==
  /\ file \in FileSet /\ now \in Nat /\ mtime \in 0 .. now
  /\ hot_update \in BOOLEAN /\ lock \in Channels \cup {NoOne}
  /\ conf \in [Channels -> Configs]
  /\ yaml_mtime \in [Channels -> Nat] /\ last_hot_check \in [Channels -> Nat]
  /\ pc \in [Channels -> {"drain", "look", "lock", "copy"}]
  /\ seen \in [Channels -> Nat] /\ at \in [Channels -> Nat] /\ applied \in [Channels -> FileSet]
  /\ left \in [secs : Nat, saves : Nat, pauses : Nat, sets : Nat, logs : Nat]
  /\ setting \in Batches \cup {NoSetting}

TimeInv == \A c \in Channels : yaml_mtime[c] <= now /\ last_hot_check[c] <= now /\ seen[c] <= now

ConfInv == \A c \in Channels : DevicesNumbered(conf[c])

(* One thread copies at a time, and it holds the lock.                     *)
LockInv == \A c \in Channels : pc[c] = "copy" <=> lock = c

(* What was applied was accepted, and has the channel.                     *)
SourceInv ==
  \A c \in Channels :
    Content(applied[c]).ret = "NONE" /\ c < Len(Content(applied[c]).channels)

(* The first k - 1 words have been copied, but for those that were set.    *)
CopiedTo(config, source, set, c, k) ==
  \A i \in 1 .. Len(Words(source)) : i < k =>
    LET w == Words(source)[i]
    IN  w[1] <= Len(config.devices) /\ (<<c, w>> \in set \/ Holds(config, source, w))

Reached(c) == IF pc[c] = "copy" THEN at[c] ELSE Len(Words(Source(c))) + 1

CopyInv ==
  \A c \in Channels :
    /\ at[c] >= 1 /\ (pc[c] # "copy" => at[c] = 1)
    /\ CopiedTo(conf[c], Source(c), touched, c, Reached(c))

UpdateInv == TypeInv /\ TimeInv /\ ConfInv /\ LockInv /\ SourceInv /\ CopyInv

LEMMA SourceIs ==
  ASSUME TypeInv, SourceInv, NEW c \in Channels
  PROVE  /\ Source(c) \in ChannelSet(Vals) /\ DevicesNumbered(Source(c))
         /\ Len(Source(c).devices) \in 0 .. MAX_DEVICE_SIZE
<1>1. applied[c] \in FileSet BY DEF TypeInv
<1>2. WellFormed(Content(applied[c]).channels, Vals) BY <1>1, ContentIs DEF SourceInv
<1>3. c \in Nat /\ c < Len(Content(applied[c]).channels) BY ChannelsAre DEF SourceInv
<1>4. Source(c) \in ChannelSet(Vals) /\ DevicesNumbered(Source(c)) BY <1>2, <1>3, ChannelOf DEF Source
<1>5. Len(Source(c).devices) \in Nat BY <1>4 DEF ChannelSet
<1> QED BY <1>4, <1>5, ParserAssumption DEF DevicesNumbered

LEMMA SourceWords ==
  ASSUME NEW source \in ChannelSet(Vals), Len(source.devices) \in 0 .. MAX_DEVICE_SIZE
  PROVE  /\ Len(Words(source)) \in Nat /\ DOMAIN Words(source) = 1 .. Len(Words(source))
         /\ \A i \in 1 .. Len(Words(source)) :
              IsHeldWord(Words(source)[i], source) /\ Words(source)[i][1] \in 0 .. Len(source.devices)
<1> DEFINE n == Len(source.devices)
<1>1. n \in 0 .. MAX_DEVICE_SIZE /\ n \in Nat OBVIOUS
<1>2. Words(source) = WordsOf[n] BY DEF Words
<1> HIDE DEF n
<1>3. Len(WordsOf[n]) \in Nat /\ DOMAIN WordsOf[n] = 1 .. Len(WordsOf[n]) BY <1>1, WordsAre
<1>4. ASSUME NEW i \in 1 .. Len(WordsOf[n])
      PROVE  IsHeldWord(WordsOf[n][i], source) /\ WordsOf[n][i][1] \in 0 .. n
  <2> DEFINE w == WordsOf[n][i]
  <2>1. IsChannelWord(w) \/ IsDeviceWord(w, n) \/ IsRoomWord(w, n) BY <1>1, WordIs
  <2> HIDE DEF w
  <2>2. w[1] \in 0 .. n BY <1>1, <2>1 DEF IsChannelWord, IsDeviceWord, IsRoomWord
  <2> QED BY <2>1, <2>2 DEF IsHeldWord, w, n
<1> QED BY <1>2, <1>3, <1>4 DEF n

(* Setting a word takes nothing back but that word.                        *)
LEMMA SetKeepsCopied ==
  ASSUME NEW config, Sane(config), NEW source \in ChannelSet(Vals),
         Len(source.devices) \in 0 .. MAX_DEVICE_SIZE, NEW set, NEW c, NEW k \in Nat,
         CopiedTo(config, source, set, c, k), NEW w, IsWordOf(w, config), NEW v \in Vals
  PROVE  CopiedTo(With(config, w, v), source, set \cup {<<c, w>>}, c, k)
<1> DEFINE new == With(config, w, v)
<1>1. Len(new.devices) = Len(config.devices) BY WithIs
<1>2. SUFFICES ASSUME NEW i \in 1 .. Len(Words(source)), i < k
               PROVE  LET u == Words(source)[i]
                      IN  /\ u[1] <= Len(new.devices)
                          /\ <<c, u>> \in set \cup {<<c, w>>} \/ Holds(new, source, u)
  BY DEF CopiedTo
<1> DEFINE u == Words(source)[i]
<1>3. u[1] <= Len(config.devices) /\ (<<c, u>> \in set \/ Holds(config, source, u)) BY <1>2 DEF CopiedTo
<1>4. IsHeldWord(u, source) BY SourceWords
<1> HIDE DEF u, new
<1>5. ASSUME u # w, Holds(config, source, u) PROVE Holds(new, source, u) BY <1>4, <1>5, WithHolds DEF new
<1> QED BY <1>1, <1>3, <1>5 DEF u

(* Copying the next word that differs.                                     *)
LEMMA CopyGoesOn ==
  ASSUME NEW config, Sane(config), NEW source \in ChannelSet(Vals), DevicesNumbered(source),
         Len(source.devices) \in 0 .. MAX_DEVICE_SIZE, NEW set, NEW c, NEW k \in Nat,
         CopiedTo(config, source, set, c, k), NEW n \in k .. Len(Words(source)), k >= 1,
         ~Holds(config, source, Words(source)[n]),
         \A j \in k .. n - 1 : Holds(config, source, Words(source)[j])
  PROVE  LET new == Copied(config, source, Words(source)[n])
         IN  Copyable(config, source, Words(source)[n])
             /\ Sane(new) /\ CopiedTo(new, source, set, c, n + 1)
<1> DEFINE W == Words(source)
           w == W[n]
           new == Copied(config, source, w)
           m == Len(source.devices)
           len == Len(config.devices)
<1>1. Len(W) \in Nat /\ DOMAIN W = 1 .. Len(W) /\ n \in 1 .. Len(W) /\ n \in Nat BY SourceWords
<1>2. len \in Nat /\ m \in Nat BY DEF Sane, Configs, ChannelSet
<1>3. \A j \in 1 .. n - 1 : W[j][1] <= len
  <2> SUFFICES ASSUME NEW j \in 1 .. n - 1 PROVE W[j][1] <= len OBVIOUS
  <2>1. CASE j < k
    <3>1. j \in 1 .. Len(W) BY <1>1
    <3> QED BY <2>1, <3>1 DEF CopiedTo
  <2>2. CASE ~(j < k)
    <3>1. j \in k .. n - 1 BY <1>1, <2>2
    <3> QED BY <3>1 DEF Holds
  <2> QED BY <2>1, <2>2
<1>4. W = WordsOf[m] /\ m \in 0 .. MAX_DEVICE_SIZE BY DEF Words
<1>5. \/ IsChannelWord(w)
      \/ IsDeviceWord(w, m) /\ \E j \in 1 .. n - 1 : W[j] = <<w[1], "NEW">>
      \/ /\ IsRoomWord(w, m)
         /\ w[1] > 1 => \E j \in 1 .. n - 1 : W[j] = <<w[1] - 1, "NEW">>
  <2> HIDE DEF W, m
  <2> QED BY <1>1, <1>4, WordIs
<1> HIDE DEF W, w, m
<1>6. Copyable(config, source, w)
  <2>1. CASE IsChannelWord(w) BY <2>1 DEF Copyable, IsWordOf
  <2>2. CASE IsDeviceWord(w, m) /\ \E j \in 1 .. n - 1 : W[j] = <<w[1], "NEW">>
    <3>1. w[1] <= len BY <1>3, <2>2
    <3>2. IsDeviceWord(w, len) BY <1>2, <2>2, <3>1 DEF IsDeviceWord
    <3> QED BY <3>2 DEF Copyable, IsWordOf
  <2>3. CASE IsRoomWord(w, m) /\ (w[1] > 1 => \E j \in 1 .. n - 1 : W[j] = <<w[1] - 1, "NEW">>)
    <3>1. w[1] \in Nat /\ w[1] >= 1 /\ w[2] = "NEW" BY <1>2, <2>3 DEF IsRoomWord
    <3>2. w[1] > 1 => w[1] - 1 <= len BY <1>3, <2>3
    <3>3. ~(w[1] <= len) BY <3>1 DEF Holds, w, W
    <3>4. w[1] = len + 1 BY <1>2, <3>1, <3>2, <3>3
    <3> QED BY <2>3, <3>4 DEF Copyable, m
  <2> QED BY <1>5, <2>1, <2>2, <2>3
<1>7. w[1] <= m BY <1>1, SourceWords DEF w, W, m
<1>8. /\ Sane(new) /\ Len(new.devices) \in Nat /\ Len(new.devices) >= len
      /\ Holds(new, source, w)
      /\ \A u : IsHeldWord(u, source) /\ Holds(config, source, u) => Holds(new, source, u)
  BY <1>6, <1>7, CopiedIs DEF m
<1> HIDE DEF new
<1>9. ASSUME NEW i \in 1 .. Len(W), i < n + 1
      PROVE  W[i][1] <= Len(new.devices) /\ (<<c, W[i]>> \in set \/ Holds(new, source, W[i]))
  <2>1. IsHeldWord(W[i], source) /\ W[i][1] \in Nat BY SourceWords DEF W
  <2>2. CASE i = n BY <1>8, <2>2 DEF Holds, w
  <2>3. CASE i < k
    <3>1. W[i][1] <= len /\ (<<c, W[i]>> \in set \/ Holds(config, source, W[i]))
      BY <2>3 DEF CopiedTo, W
    <3> QED BY <1>2, <1>8, <2>1, <3>1
  <2>4. CASE i >= k /\ i # n
    <3>1. i \in k .. n - 1 BY <1>1, <1>9, <2>4
    <3>2. Holds(config, source, W[i]) BY <3>1 DEF W
    <3>3. Holds(new, source, W[i]) BY <1>8, <2>1, <3>2
    <3> QED BY <3>3 DEF Holds
  <2> QED BY <1>1, <1>9, <2>2, <2>3, <2>4
<1>10. CopiedTo(new, source, set, c, n + 1) BY <1>9 DEF CopiedTo, W
<1> QED BY <1>6, <1>8, <1>10 DEF new, w, W

(* Steps that write no configuration and begin and end no update.          *)
LEMMA OtherStep ==
  ASSUME UpdateInv, UNCHANGED <<conf, applied, at, touched, lock>>,
         \A c \in Channels : pc'[c] = "copy" <=> pc[c] = "copy"
  PROVE  ConfInv' /\ LockInv' /\ SourceInv' /\ CopyInv'
<1>1. ConfInv' BY DEF UpdateInv, ConfInv
<1>2. LockInv' BY DEF UpdateInv, LockInv
<1>3. SourceInv' BY DEF UpdateInv, SourceInv
<1>4. ASSUME NEW c \in Channels
      PROVE  at'[c] >= 1 /\ (pc'[c] # "copy" => at'[c] = 1)
             /\ CopiedTo(conf'[c], Source(c)', touched', c, Reached(c)')
  <2>1. Source(c)' = Source(c) BY DEF Source
  <2>2. Reached(c)' = Reached(c) BY <2>1 DEF Reached
  <2>3. at[c] >= 1 /\ (pc[c] # "copy" => at[c] = 1)
        /\ CopiedTo(conf[c], Source(c), touched, c, Reached(c))
    BY DEF UpdateInv, CopyInv
  <2> QED BY <2>1, <2>2, <2>3
<1>5. CopyInv' BY <1>4 DEF CopyInv
<1> QED BY <1>1, <1>2, <1>3, <1>5

(* Another channel's words, and more words set.                            *)
LEMMA MoreSet ==
  ASSUME NEW config, NEW source, NEW set, NEW more, set \subseteq more, NEW c, NEW k,
         CopiedTo(config, source, set, c, k)
  PROVE  CopiedTo(config, source, more, c, k)
BY DEF CopiedTo

LEMMA StoreStep ==
  ASSUME UpdateInv, NEW c \in Channels, NEW w, IsWordOf(w, conf[c]), NEW v \in Vals,
         conf' = [conf EXCEPT ![c] = With(conf[c], w, v)], touched' = touched \cup {<<c, w>>},
         UNCHANGED <<applied, at, pc, lock>>
  PROVE  conf' \in [Channels -> Configs] /\ ConfInv' /\ LockInv' /\ SourceInv' /\ CopyInv'
<1>0. conf \in [Channels -> Configs] BY DEF UpdateInv, TypeInv
<1>1. Sane(conf[c]) BY <1>0 DEF UpdateInv, ConfInv, Sane
<1>2. Sane(With(conf[c], w, v)) BY <1>1, WithIs
<1>3. conf'[c] = With(conf[c], w, v) /\ \A d \in Channels : d # c => conf'[d] = conf[d] BY <1>0
<1>4. conf' \in [Channels -> Configs] BY <1>0, <1>2 DEF Sane
<1>5. ConfInv'
  <2>1. ASSUME NEW d \in Channels PROVE DevicesNumbered(conf'[d])
    <3>1. CASE d = c BY <1>2, <1>3, <3>1 DEF Sane
    <3>2. CASE d # c BY <1>3, <3>2 DEF UpdateInv, ConfInv
    <3> QED BY <3>1, <3>2
  <2> QED BY <2>1 DEF ConfInv
<1>6. LockInv' BY DEF UpdateInv, LockInv
<1>7. SourceInv' BY DEF UpdateInv, SourceInv
<1>8. ASSUME NEW d \in Channels
      PROVE  at'[d] >= 1 /\ (pc'[d] # "copy" => at'[d] = 1)
             /\ CopiedTo(conf'[d], Source(d)', touched', d, Reached(d)')
  <2>1. Source(d)' = Source(d) BY DEF Source
  <2>2. Reached(d)' = Reached(d) BY <2>1 DEF Reached
  <2>3. at[d] >= 1 /\ (pc[d] # "copy" => at[d] = 1)
        /\ CopiedTo(conf[d], Source(d), touched, d, Reached(d))
    BY DEF UpdateInv, CopyInv
  <2>4. /\ Source(d) \in ChannelSet(Vals) /\ Len(Source(d).devices) \in 0 .. MAX_DEVICE_SIZE
        /\ Reached(d) \in Nat
    <3>1. Source(d) \in ChannelSet(Vals) /\ Len(Source(d).devices) \in 0 .. MAX_DEVICE_SIZE
      BY SourceIs DEF UpdateInv
    <3>2. Len(Words(Source(d))) \in Nat BY <3>1, SourceWords
    <3>3. at[d] \in Nat BY DEF UpdateInv, TypeInv
    <3> QED BY <3>1, <3>2, <3>3 DEF Reached
  <2>5. CASE d = c
    <3>1. CopiedTo(With(conf[d], w, v), Source(d), touched \cup {<<d, w>>}, d, Reached(d))
      BY <1>1, <2>3, <2>4, <2>5, SetKeepsCopied
    <3> QED BY <1>3, <2>1, <2>2, <2>3, <2>5, <3>1
  <2>6. CASE d # c
    <3>1. CopiedTo(conf[d], Source(d), touched \cup {<<c, w>>}, d, Reached(d)) BY <2>3, MoreSet
    <3> QED BY <1>3, <2>1, <2>2, <2>3, <2>6, <3>1
  <2> QED BY <2>5, <2>6
<1>9. CopyInv' BY <1>8 DEF CopyInv
<1> QED BY <1>4, <1>5, <1>6, <1>7, <1>9

LEMMA EditorStep ==
  ASSUME UpdateInv, Tick \/ BeginSave \/ WriteFile
  PROVE  UpdateInv'
<1> USE DEF disk, threads, app
<1>1. CASE Tick
  <2>1. TypeInv' /\ TimeInv' BY <1>1 DEF Tick, UpdateInv, TypeInv, TimeInv
  <2>2. ConfInv' /\ LockInv' /\ SourceInv' /\ CopyInv' BY <1>1, OtherStep DEF Tick
  <2> QED BY <2>1, <2>2 DEF UpdateInv
<1>2. CASE BeginSave
  <2>1. file' \in FileSet
    <3>1. PICK v \in DOMAIN Texts : file' = [ver |-> v, len |-> 0] BY <1>2 DEF BeginSave
    <3>2. Len(Texts[v]) \in Nat BY TextAssumption
    <3> QED BY <3>1, <3>2 DEF FileSet
  <2>2. TypeInv' /\ TimeInv' BY <1>2, <2>1 DEF BeginSave, UpdateInv, TypeInv, TimeInv
  <2>3. ConfInv' /\ LockInv' /\ SourceInv' /\ CopyInv' BY <1>2, OtherStep DEF BeginSave
  <2> QED BY <2>2, <2>3 DEF UpdateInv
<1>3. CASE WriteFile
  <2>1. file \in FileSet BY DEF UpdateInv, TypeInv
  <2>2. file' \in FileSet
    <3>1. CASE file' = Whole(file.ver) BY <2>1, <3>1, WholeIsFile DEF FileSet
    <3>2. ASSUME NEW n \in Cuts[file.ver], file' = [file EXCEPT !.len = n] PROVE file' \in FileSet
      <4>1. file.ver \in DOMAIN Texts BY <2>1 DEF FileSet
      <4>2. n \in 1 .. Len(Texts[file.ver]) BY <4>1, ConfigAssumption
      <4>3. Len(Texts[file.ver]) \in Nat BY <4>1, TextAssumption
      <4> QED BY <2>1, <3>2, <4>1, <4>2, <4>3 DEF FileSet
    <3> QED BY <1>3, <3>1, <3>2 DEF WriteFile
  <2>3. left' \in [secs : Nat, saves : Nat, pauses : Nat, sets : Nat, logs : Nat]
    <3>1. left \in [secs : Nat, saves : Nat, pauses : Nat, sets : Nat, logs : Nat] BY DEF UpdateInv, TypeInv
    <3>2. left' = left \/ (left.pauses > 0 /\ left' = [left EXCEPT !.pauses = @ - 1]) BY <1>3 DEF WriteFile
    <3>3. CASE left' = left BY <3>1, <3>3
    <3>4. CASE left.pauses > 0 /\ left' = [left EXCEPT !.pauses = @ - 1] BY <3>1, <3>4
    <3> QED BY <3>2, <3>3, <3>4
  <2>4. TypeInv' /\ TimeInv' BY <1>3, <2>2, <2>3 DEF WriteFile, UpdateInv, TypeInv, TimeInv
  <2>5. ConfInv' /\ LockInv' /\ SourceInv' /\ CopyInv' BY <1>3, OtherStep DEF WriteFile
  <2> QED BY <2>4, <2>5 DEF UpdateInv
<1> QED BY <1>1, <1>2, <1>3

LEMMA ProducerStep ==
  ASSUME UpdateInv, NEW p \in Producers, Producer(p)
  PROVE  UpdateInv'
<1> USE DEF disk, threads, app
<1>1. UNCHANGED <<file, mtime, now, hot_update, lock, conf, yaml_mtime, last_hot_check, pc, seen, at,
                  applied, setting, touched>>
  BY DEF Producer, BeginLog, ReadChannel, ReadSize, ReadDevice, SetCategory, Return
<1>2. left' \in [secs : Nat, saves : Nat, pauses : Nat, sets : Nat, logs : Nat]
  <2>1. left \in [secs : Nat, saves : Nat, pauses : Nat, sets : Nat, logs : Nat] BY DEF UpdateInv, TypeInv
  <2>2. CASE BeginLog(p)
    <3>1. left.logs > 0 /\ left' = [left EXCEPT !.logs = @ - 1] BY <2>2 DEF BeginLog
    <3> QED BY <2>1, <3>1
  <2>3. CASE ReadChannel(p) BY <2>1, <2>3 DEF ReadChannel
  <2>4. CASE ReadSize(p) BY <2>1, <2>4 DEF ReadSize
  <2>5. CASE ReadDevice(p) BY <2>1, <2>5 DEF ReadDevice
  <2>6. CASE SetCategory(p) BY <2>1, <2>6 DEF SetCategory
  <2>7. CASE Return(p) BY <2>1, <2>7 DEF Return
  <2> QED BY <2>2, <2>3, <2>4, <2>5, <2>6, <2>7 DEF Producer
<1>3. TypeInv' /\ TimeInv' BY <1>1, <1>2 DEF UpdateInv, TypeInv, TimeInv
<1>4. ConfInv' /\ LockInv' /\ SourceInv' /\ CopyInv' BY <1>1, OtherStep
<1> QED BY <1>3, <1>4 DEF UpdateInv

LEMMA LookStep ==
  ASSUME UpdateInv, NEW c \in Channels, DispatchLog(c) \/ Drained(c) \/ LookAtFile(c) \/ Sleep(c)
  PROVE  UpdateInv'
<1> USE DEF disk, threads, app
<1>1. CASE DispatchLog(c)
  <2>1. TypeInv' /\ TimeInv' BY <1>1 DEF DispatchLog, UpdateInv, TypeInv, TimeInv
  <2>2. ConfInv' /\ LockInv' /\ SourceInv' /\ CopyInv' BY <1>1, OtherStep DEF DispatchLog
  <2> QED BY <2>1, <2>2 DEF UpdateInv
<1>2. CASE Drained(c)
  <2>1. TypeInv' /\ TimeInv' BY <1>2 DEF Drained, UpdateInv, TypeInv, TimeInv
  <2>2. \A d \in Channels : pc'[d] = "copy" <=> pc[d] = "copy" BY <1>2 DEF Drained, UpdateInv, TypeInv
  <2>3. ConfInv' /\ LockInv' /\ SourceInv' /\ CopyInv' BY <1>2, <2>2, OtherStep DEF Drained
  <2> QED BY <2>1, <2>3 DEF UpdateInv
<1>3. CASE LookAtFile(c)
  <2>1. PICK goes \in BOOLEAN, due \in BOOLEAN :
          /\ last_hot_check' = [last_hot_check EXCEPT ![c] = IF due THEN now ELSE @]
          /\ pc' = [pc EXCEPT ![c] = IF goes THEN "lock" ELSE "drain"]
          /\ seen' = [seen EXCEPT ![c] = IF goes THEN mtime ELSE @]
    BY <1>3 DEF LookAtFile, Due
  <2>2. /\ pc[c] = "look"
        /\ UNCHANGED <<file, mtime, now, hot_update, lock, conf, yaml_mtime, at, applied, left, setting, touched>>
    BY <1>3 DEF LookAtFile
  <2>3. TypeInv' BY <2>1, <2>2 DEF UpdateInv, TypeInv
  <2>4. TimeInv' BY <2>1, <2>2 DEF UpdateInv, TypeInv, TimeInv
  <2>5. \A d \in Channels : pc'[d] = "copy" <=> pc[d] = "copy" BY <2>1, <2>2 DEF UpdateInv, TypeInv
  <2>6. ConfInv' /\ LockInv' /\ SourceInv' /\ CopyInv' BY <2>2, <2>5, OtherStep
  <2> QED BY <2>3, <2>4, <2>6 DEF UpdateInv
<1>4. CASE Sleep(c)
  <2>1. TypeInv' /\ TimeInv' BY <1>4 DEF Sleep, vars, UpdateInv, TypeInv, TimeInv
  <2>2. ConfInv' /\ LockInv' /\ SourceInv' /\ CopyInv' BY <1>4, OtherStep DEF Sleep, vars
  <2> QED BY <2>1, <2>2 DEF UpdateInv
<1> QED BY <1>1, <1>2, <1>3, <1>4


(* The lock is taken: nothing is copied yet, and the content is accepted.  *)
LEMMA LoadStep ==
  ASSUME UpdateInv, NEW c \in Channels, LoadConfig(c)
  PROVE  UpdateInv'
<1> DEFINE good == Content(file).ret = "NONE" /\ hot_update
           goes == good /\ c < Len(Content(file).channels)
<1>0. TypeInv /\ LockInv /\ TimeInv BY DEF UpdateInv
<1>1. /\ pc[c] = "lock" /\ lock = NoOne
      /\ yaml_mtime' = [yaml_mtime EXCEPT ![c] = seen[c]]
      /\ hot_update' = IF good THEN Content(file).hot_update ELSE hot_update
      /\ lock' = IF goes THEN c ELSE NoOne
      /\ pc' = [pc EXCEPT ![c] = IF goes THEN "copy" ELSE "drain"]
      /\ applied' = IF goes THEN [applied EXCEPT ![c] = file] ELSE applied
      /\ seen' = [seen EXCEPT ![c] = 0]
      /\ UNCHANGED <<file, mtime, now, conf, last_hot_check, at, setting, touched, left>>
  BY DEF LoadConfig, Load, disk, app
<1>2. file \in FileSet BY <1>0 DEF TypeInv
<1>3. goes \in BOOLEAN /\ good \in BOOLEAN BY <1>0 DEF TypeInv
<1>4. hot_update' \in BOOLEAN
  <2>1. CASE good BY <1>1, <1>2, <2>1, ContentIs
  <2>2. CASE ~good BY <1>0, <1>1, <2>2 DEF TypeInv
  <2> QED BY <2>1, <2>2
<1>5. TypeInv'
  <2> HIDE DEF goes, good
  <2>1. lock' \in Channels \cup {NoOne} /\ pc' \in [Channels -> {"drain", "look", "lock", "copy"}]
    BY <1>0, <1>1, <1>3 DEF TypeInv
  <2>2. applied' \in [Channels -> FileSet] BY <1>0, <1>1, <1>2 DEF TypeInv
  <2>3. yaml_mtime' \in [Channels -> Nat] /\ seen' \in [Channels -> Nat] BY <1>0, <1>1 DEF TypeInv
  <2> QED BY <1>0, <1>1, <1>4, <2>1, <2>2, <2>3 DEF TypeInv
<1>6. TimeInv' BY <1>0, <1>1 DEF TypeInv, TimeInv
<1>7. ConfInv' BY <1>1 DEF UpdateInv, ConfInv
<1>8. \A d \in Channels : pc[d] # "copy" BY <1>0, <1>1, ChannelsAre DEF LockInv
<1>9. LockInv'
  <2> SUFFICES ASSUME NEW d \in Channels PROVE pc'[d] = "copy" <=> lock' = d BY DEF LockInv
  <2> HIDE DEF goes, good
  <2>1. CASE goes BY <1>0, <1>1, <1>8, <2>1 DEF TypeInv
  <2>2. CASE ~goes BY <1>0, <1>1, <1>8, <2>2, ChannelsAre DEF TypeInv
  <2> QED BY <2>1, <2>2
<1>10. SourceInv'
  <2> SUFFICES ASSUME NEW d \in Channels
               PROVE  Content(applied'[d]).ret = "NONE" /\ d < Len(Content(applied'[d]).channels)
    BY DEF SourceInv
  <2>1. CASE goes /\ d = c BY <1>0, <1>1, <2>1 DEF TypeInv
  <2>2. CASE ~(goes /\ d = c)
    <3>1. applied'[d] = applied[d] BY <1>0, <1>1, <2>2 DEF TypeInv
    <3> QED BY <3>1 DEF UpdateInv, SourceInv
  <2> QED BY <2>1, <2>2
<1>11. CopyInv'
  <2> SUFFICES ASSUME NEW d \in Channels
               PROVE  /\ at'[d] >= 1 /\ (pc'[d] # "copy" => at'[d] = 1)
                      /\ CopiedTo(conf'[d], Source(d)', touched', d, Reached(d)')
    BY DEF CopyInv
  <2>1. at[d] = 1 /\ CopiedTo(conf[d], Source(d), touched, d, Reached(d))
    BY <1>8 DEF UpdateInv, CopyInv
  <2>2. CASE goes /\ d = c
    <3>1. pc'[d] = "copy" BY <1>0, <1>1, <2>2 DEF TypeInv
    <3>2. Reached(d)' = 1 BY <1>1, <2>1, <3>1 DEF Reached
    <3>3. CopiedTo(conf'[d], Source(d)', touched', d, 1) BY DEF CopiedTo
    <3> QED BY <1>1, <2>1, <3>2, <3>3
  <2>3. CASE ~(goes /\ d = c)
    <3>1. applied'[d] = applied[d] /\ pc'[d] # "copy" BY <1>0, <1>1, <1>8, <2>3 DEF TypeInv
    <3>2. Source(d)' = Source(d) BY <3>1 DEF Source
    <3>3. Reached(d)' = Reached(d) BY <1>8, <3>1, <3>2 DEF Reached
    <3> QED BY <1>1, <2>1, <3>2, <3>3
  <2> QED BY <2>2, <2>3
<1> QED BY <1>5, <1>6, <1>7, <1>9, <1>10, <1>11 DEF UpdateInv

LEMMA CopyStep ==
  ASSUME UpdateInv, NEW c \in Channels, CopyWord(c)
  PROVE  UpdateInv'
<1>0. TypeInv /\ ConfInv /\ CopyInv /\ SourceInv BY DEF UpdateInv
<1> DEFINE source == Source(c)
           words == Words(source)
<1>1. PICK n \in at[c] .. Len(words) :
        /\ ~Holds(conf[c], source, words[n])
        /\ \A j \in at[c] .. n - 1 : Holds(conf[c], source, words[j])
        /\ conf' = [conf EXCEPT ![c] = Copied(conf[c], source, words[n])]
        /\ at' = [at EXCEPT ![c] = n + 1]
  BY DEF CopyWord, Reconfigure
<1>2. /\ pc[c] = "copy"
      /\ UNCHANGED <<file, mtime, now, hot_update, lock, yaml_mtime, last_hot_check, pc, seen, applied,
                     setting, touched, left>>
  BY DEF CopyWord, disk, app
<1>3. at[c] \in Nat /\ at[c] >= 1 /\ CopiedTo(conf[c], source, touched, c, at[c])
  <2>1. Reached(c) = at[c] BY <1>2 DEF Reached
  <2> QED BY <1>0, <2>1 DEF TypeInv, CopyInv
<1>4. Sane(conf[c]) BY <1>0 DEF TypeInv, ConfInv, Sane
<1>5. source \in ChannelSet(Vals) /\ DevicesNumbered(source) /\ Len(source.devices) \in 0 .. MAX_DEVICE_SIZE
  BY <1>0, SourceIs
<1> DEFINE new == Copied(conf[c], source, words[n])
<1> HIDE DEF source
<1>6. Sane(new) /\ CopiedTo(new, source, touched, c, n + 1)
  BY <1>1, <1>3, <1>4, <1>5, CopyGoesOn
<1>7. n \in Nat /\ n >= 1
  <2>1. Len(words) \in Nat BY <1>5, SourceWords
  <2> QED BY <1>1, <1>3, <2>1
<1> HIDE DEF new, words
<1>8. conf' = [conf EXCEPT ![c] = new] BY <1>1 DEF new, words
<1>9. TypeInv' BY <1>0, <1>1, <1>2, <1>6, <1>7, <1>8 DEF TypeInv, Sane
<1>10. TimeInv' BY <1>2 DEF UpdateInv, TimeInv
<1>11. ConfInv'
  <2> SUFFICES ASSUME NEW d \in Channels PROVE DevicesNumbered(conf'[d]) BY DEF ConfInv
  <2>1. CASE d = c BY <1>0, <1>6, <1>8, <2>1 DEF TypeInv, Sane
  <2>2. CASE d # c BY <1>0, <1>8, <2>2 DEF TypeInv, ConfInv
  <2> QED BY <2>1, <2>2
<1>12. LockInv' BY <1>2 DEF UpdateInv, LockInv
<1>13. SourceInv' BY <1>2 DEF UpdateInv, SourceInv
<1>14. CopyInv'
  <2> SUFFICES ASSUME NEW d \in Channels
               PROVE  /\ at'[d] >= 1 /\ (pc'[d] # "copy" => at'[d] = 1)
                      /\ CopiedTo(conf'[d], Source(d)', touched', d, Reached(d)')
    BY DEF CopyInv
  <2>1. Source(d)' = Source(d) BY <1>2 DEF Source
  <2>2. CASE d = c
    <3>1. at'[d] = n + 1 /\ pc'[d] = "copy" /\ conf'[d] = new
      BY <1>0, <1>1, <1>2, <1>8, <2>2 DEF TypeInv
    <3>2. Reached(d)' = n + 1 BY <3>1 DEF Reached
    <3> QED BY <1>2, <1>6, <1>7, <2>1, <2>2, <3>1, <3>2 DEF source
  <2>3. CASE d # c
    <3>1. at'[d] = at[d] /\ pc'[d] = pc[d] /\ conf'[d] = conf[d]
      BY <1>0, <1>1, <1>2, <1>8, <2>3 DEF TypeInv
    <3>2. Reached(d)' = Reached(d) BY <2>1, <3>1 DEF Reached
    <3> QED BY <1>0, <1>2, <2>1, <3>1, <3>2 DEF CopyInv
  <2> QED BY <2>2, <2>3
<1> QED BY <1>9, <1>10, <1>11, <1>12, <1>13, <1>14 DEF UpdateInv

LEMMA EndStep ==
  ASSUME UpdateInv, NEW c \in Channels, EndUpdate(c)
  PROVE  UpdateInv'
<1>0. TypeInv /\ LockInv /\ CopyInv /\ SourceInv BY DEF UpdateInv
<1>1. /\ pc[c] = "copy"
      /\ \A k \in at[c] .. Len(Words(Source(c))) : Holds(conf[c], Source(c), Words(Source(c))[k])
      /\ pc' = [pc EXCEPT ![c] = "drain"] /\ at' = [at EXCEPT ![c] = 1] /\ lock' = NoOne
      /\ UNCHANGED <<file, mtime, now, hot_update, conf, yaml_mtime, last_hot_check, seen, applied,
                     setting, touched, left>>
  BY DEF EndUpdate, disk, app
<1>2. TypeInv' BY <1>0, <1>1 DEF TypeInv
<1>3. TimeInv' BY <1>1 DEF UpdateInv, TimeInv
<1>4. ConfInv' BY <1>1 DEF UpdateInv, ConfInv
<1>5. LockInv'
  <2> SUFFICES ASSUME NEW d \in Channels PROVE pc'[d] # "copy" BY <1>1, ChannelsAre DEF LockInv
  <2>1. CASE d = c BY <1>0, <1>1, <2>1 DEF TypeInv
  <2>2. CASE d # c BY <1>0, <1>1, <2>2 DEF TypeInv, LockInv
  <2> QED BY <2>1, <2>2
<1>6. SourceInv' BY <1>1 DEF UpdateInv, SourceInv
<1>7. CopyInv'
  <2> SUFFICES ASSUME NEW d \in Channels
               PROVE  /\ at'[d] >= 1 /\ (pc'[d] # "copy" => at'[d] = 1)
                      /\ CopiedTo(conf'[d], Source(d)', touched', d, Reached(d)')
    BY DEF CopyInv
  <2>1. Source(d)' = Source(d) BY <1>1 DEF Source
  <2>2. CopiedTo(conf[d], Source(d), touched, d, Reached(d)) BY <1>0 DEF CopyInv
  <2>3. CASE d = c
    <3> DEFINE source == Source(d)
               words == Words(source)
    <3>1. at'[d] = 1 /\ pc'[d] = "drain" /\ at[d] \in Nat BY <1>0, <1>1, <2>3 DEF TypeInv
    <3>2. CopiedTo(conf[d], source, touched, d, at[d]) BY <1>1, <2>2, <2>3 DEF Reached
    <3>3. Len(words) \in Nat BY <1>0, SourceIs, SourceWords
    <3>4. \A k \in at[d] .. Len(words) : Holds(conf[d], source, words[k]) BY <1>1, <2>3
    <3> HIDE DEF source
    <3>5. ASSUME NEW i \in 1 .. Len(words)
          PROVE  words[i][1] <= Len(conf[d].devices)
                 /\ (<<d, words[i]>> \in touched \/ Holds(conf[d], source, words[i]))
      <4>1. CASE i < at[d] BY <3>2, <4>1 DEF CopiedTo
      <4>2. CASE ~(i < at[d])
        <5>1. Holds(conf[d], source, words[i]) BY <3>1, <3>3, <3>4, <4>2
        <5> QED BY <5>1 DEF Holds
      <4> QED BY <4>1, <4>2
    <3>6. CopiedTo(conf[d], source, touched, d, Len(words) + 1) BY <3>5 DEF CopiedTo
    <3>7. Reached(d)' = Len(words) + 1 BY <2>1, <3>1 DEF Reached, source
    <3> QED BY <1>1, <2>1, <3>1, <3>6, <3>7 DEF source
  <2>4. CASE d # c
    <3>1. at'[d] = at[d] /\ pc'[d] = pc[d] BY <1>0, <1>1, <2>4 DEF TypeInv
    <3>2. Reached(d)' = Reached(d) BY <2>1, <3>1 DEF Reached
    <3> QED BY <1>0, <1>1, <2>1, <2>2, <3>1, <3>2 DEF CopyInv
  <2> QED BY <2>3, <2>4
<1> QED BY <1>2, <1>3, <1>4, <1>5, <1>6, <1>7 DEF UpdateInv

-----------------------------------------------------------------------------
(* The setters.                                                            *)
LEMMA SettingIs ==
  ASSUME NEW s \in Settings
  PROVE  /\ s.value \in Vals
         /\ s.kind \in {"one", "channels", "devices"}
         /\ s.kind = "one" => \/ s.dev = 0 /\ s.field \in Range(ChannelFields)
                              \/ s.dev \in Nat \ {0} /\ s.field \in Range(DeviceFields)
         /\ s.kind # "one" => s \in Batches
<1> DEFINE V == {r.value : r \in Settings}
<1>1. s \in SettingsOf(V) BY CallerAssumption
<1>2. V \subseteq Vals BY DEF Vals
<1>3. 0 \in Channels BY ChannelsAre
<1> HIDE DEF V
<1>4. CASE s \in [kind : {"one"}, chan : Nat, dev : {0}, field : Range(ChannelFields), value : V]
  BY <1>2, <1>4
<1>5. CASE s \in [kind : {"one"}, chan : Nat, dev : Nat \ {0}, field : Range(DeviceFields), value : V]
  BY <1>2, <1>5
<1>6. CASE s \in [kind : {"channels"}, chan : {0}, dev : {0}, field : Range(ChannelFields), value : V]
  BY <1>2, <1>3, <1>6 DEF Batches
<1>7. CASE s \in [kind : {"devices"}, chan : {0}, dev : {1}, field : Range(DeviceFields), value : V,
                  out_type : Range(OutTypeOf) \cup {"NULL"}]
  <2>1. s \in [kind : {"devices"}, chan : Channels, dev : Nat \ {0}, field : Range(DeviceFields), value : Vals,
               out_type : DeviceTypes]
    BY <1>2, <1>3, <1>7 DEF DeviceTypes
  <2> QED BY <1>2, <1>7, <2>1 DEF Batches
<1> QED BY <1>1, <1>4, <1>5, <1>6, <1>7 DEF SettingsOf

LEMMA BatchIs ==
  ASSUME NEW s \in Batches
  PROVE  /\ s.kind \in {"channels", "devices"} /\ s.chan \in Channels /\ s.value \in Vals
         /\ s.kind = "channels" => s.field \in Range(ChannelFields)
         /\ s.kind = "devices" =>
              /\ s.dev \in Nat \ {0} /\ s.field \in Range(DeviceFields)
              /\ [s EXCEPT !.dev = s.dev + 1] \in Batches
         /\ NextChannel(s) \in Batches \cup {NoSetting}
<1>1. CASE s \in [kind : {"channels"}, chan : Channels, dev : {0}, field : Range(ChannelFields), value : Vals]
  <2>1. s.kind = "channels" /\ s.chan \in Channels BY <1>1
  <2>2. ASSUME s.chan + 1 \in Channels
        PROVE  [s EXCEPT !.chan = s.chan + 1, !.dev = 0] \in Batches
    BY <1>1, <2>2 DEF Batches
  <2>3. NextChannel(s) \in Batches \cup {NoSetting} BY <2>1, <2>2 DEF NextChannel
  <2> QED BY <1>1, <2>3
<1>2. CASE s \in [kind : {"devices"}, chan : Channels, dev : Nat \ {0}, field : Range(DeviceFields),
                  value : Vals, out_type : DeviceTypes]
  <2>1. s.kind = "devices" /\ s.chan \in Channels BY <1>2
  <2>2. ASSUME s.chan + 1 \in Channels
        PROVE  [s EXCEPT !.chan = s.chan + 1, !.dev = 1] \in Batches
    <3>1. 1 \in Nat \ {0} OBVIOUS
    <3> QED BY <1>2, <2>2, <3>1 DEF Batches
  <2>3. NextChannel(s) \in Batches \cup {NoSetting} BY <2>1, <2>2 DEF NextChannel
  <2>4. [s EXCEPT !.dev = s.dev + 1] \in Batches BY <1>2 DEF Batches
  <2> QED BY <1>2, <2>3, <2>4
<1> QED BY <1>1, <1>2 DEF Batches

(* A setter stores a word that its channel has, or nothing.                *)
LEMMA SetterStores ==
  ASSUME TypeInv, Setter
  PROVE  \/ UNCHANGED <<conf, touched, call, queue>>
         \/ \E c \in Channels, v \in Vals : \E w : IsWordOf(w, conf[c]) /\ Store(c, w, v)
<1>0. TypeInv OBVIOUS
<1>1. setting.kind \in {"channels", "devices"} => setting \in Batches
  <2>1. setting \in Batches \/ setting = NoSetting BY <1>0 DEF TypeInv
  <2> QED BY <2>1 DEF NoSetting
<1>2. CASE SetConfig
  <2>1. PICK s \in Settings :
          /\ s.kind = "one"
          /\ IF s.chan \in Channels /\ s.dev <= Len(conf[s.chan].devices)
             THEN Store(s.chan, <<s.dev, s.field>>, s.value)
             ELSE UNCHANGED <<conf, call, queue, touched>>
    BY <1>2 DEF SetConfig
  <2>2. CASE ~(s.chan \in Channels /\ s.dev <= Len(conf[s.chan].devices)) BY <2>1, <2>2
  <2>3. CASE s.chan \in Channels /\ s.dev <= Len(conf[s.chan].devices)
    <3>1. Store(s.chan, <<s.dev, s.field>>, s.value) BY <2>1, <2>3
    <3>2. IsWordOf(<<s.dev, s.field>>, conf[s.chan])
      <4>1. Len(conf[s.chan].devices) \in Nat BY <1>0, <2>3 DEF TypeInv, Configs
      <4>2. \/ s.dev = 0 /\ s.field \in Range(ChannelFields)
            \/ s.dev \in Nat \ {0} /\ s.field \in Range(DeviceFields)
        BY <2>1, SettingIs
      <4> QED BY <2>3, <4>1, <4>2 DEF IsWordOf, IsChannelWord, IsDeviceWord
    <3>3. s.value \in Vals BY SettingIs
    <3> QED BY <2>3, <3>1, <3>2, <3>3
  <2> QED BY <2>2, <2>3
<1>3. CASE BeginBatch BY <1>3 DEF BeginBatch
<1>4. CASE BatchChannel
  <2>1. /\ setting \in Batches /\ setting.kind = "channels"
        /\ Store(setting.chan, <<0, setting.field>>, setting.value)
    BY <1>1, <1>4 DEF BatchChannel
  <2>2. /\ setting.chan \in Channels /\ setting.value \in Vals /\ setting.field \in Range(ChannelFields)
    BY <2>1, BatchIs
  <2>3. IsWordOf(<<0, setting.field>>, conf[setting.chan])
    BY <2>2 DEF IsWordOf, IsChannelWord
  <2> QED BY <2>1, <2>2, <2>3
<1>5. CASE BatchDevice
  <2> DEFINE c == setting.chan
             d == setting.dev
  <2>1. setting \in Batches /\ setting.kind = "devices" BY <1>1, <1>5 DEF BatchDevice
  <2>2. c \in Channels /\ setting.value \in Vals /\ d \in Nat \ {0} /\ setting.field \in Range(DeviceFields)
    BY <2>1, BatchIs
  <2>3. \/ UNCHANGED <<conf, touched, call, queue>>
        \/ ~(d > Len(conf[c].devices)) /\ Store(c, <<d, setting.field>>, setting.value)
    BY <1>5 DEF BatchDevice
  <2>4. ASSUME ~(d > Len(conf[c].devices)) PROVE IsWordOf(<<d, setting.field>>, conf[c])
    <3>1. Len(conf[c].devices) \in Nat BY <1>0, <2>2 DEF TypeInv, Configs
    <3> QED BY <2>2, <2>4, <3>1 DEF IsWordOf, IsDeviceWord
  <2> HIDE DEF c, d
  <2> QED BY <2>2, <2>3, <2>4
<1> QED BY <1>2, <1>3, <1>4, <1>5 DEF Setter

LEMMA SetterStep ==
  ASSUME UpdateInv, Setter
  PROVE  UpdateInv'
<1>0. TypeInv BY DEF UpdateInv
<1> USE DEF disk, threads
<1>1. UNCHANGED <<file, mtime, now, hot_update, lock, yaml_mtime, last_hot_check, pc, seen, at, applied>>
  BY DEF Setter, SetConfig, BeginBatch, BatchChannel, BatchDevice
<1>2. left' \in [secs : Nat, saves : Nat, pauses : Nat, sets : Nat, logs : Nat]
  <2>1. left \in [secs : Nat, saves : Nat, pauses : Nat, sets : Nat, logs : Nat] BY <1>0 DEF TypeInv
  <2>2. left' = left \/ (left.sets > 0 /\ left' = [left EXCEPT !.sets = @ - 1])
    BY DEF Setter, SetConfig, BeginBatch, BatchChannel, BatchDevice
  <2>3. CASE left' = left BY <2>1, <2>3
  <2>4. CASE left.sets > 0 /\ left' = [left EXCEPT !.sets = @ - 1] BY <2>1, <2>4
  <2> QED BY <2>2, <2>3, <2>4
<1>3. setting.kind \in {"channels", "devices"} => setting \in Batches
  <2>1. setting \in Batches \/ setting = NoSetting BY <1>0 DEF TypeInv
  <2> QED BY <2>1 DEF NoSetting
<1>4. setting' \in Batches \cup {NoSetting}
  <2>1. CASE SetConfig BY <1>0, <2>1 DEF SetConfig, TypeInv
  <2>2. CASE BeginBatch
    <3>1. PICK s \in Settings : s.kind \in {"channels", "devices"} /\ setting' = s BY <2>2 DEF BeginBatch
    <3> QED BY <3>1, SettingIs
  <2>3. CASE BatchChannel
    <3>1. setting \in Batches /\ setting' = NextChannel(setting) BY <1>3, <2>3 DEF BatchChannel
    <3> QED BY <3>1, BatchIs
  <2>4. CASE BatchDevice
    <3>1. setting.kind = "devices" /\ setting \in Batches BY <1>3, <2>4 DEF BatchDevice
    <3>2. setting' = NextChannel(setting) \/ setting' = [setting EXCEPT !.dev = setting.dev + 1]
      BY <2>4 DEF BatchDevice
    <3> QED BY <3>1, <3>2, BatchIs
  <2> QED BY <2>1, <2>2, <2>3, <2>4 DEF Setter
<1>5. \/ UNCHANGED <<conf, touched>>
      \/ \E c \in Channels, v \in Vals : \E w : IsWordOf(w, conf[c]) /\ Store(c, w, v)
  BY <1>0, SetterStores
<1>6. conf' \in [Channels -> Configs] /\ ConfInv' /\ LockInv' /\ SourceInv' /\ CopyInv'
  <2>1. CASE UNCHANGED <<conf, touched>>
    <3>1. ConfInv' /\ LockInv' /\ SourceInv' /\ CopyInv' BY <1>1, <2>1, OtherStep
    <3> QED BY <1>0, <2>1, <3>1 DEF TypeInv
  <2>2. CASE \E c \in Channels, v \in Vals : \E w : IsWordOf(w, conf[c]) /\ Store(c, w, v)
    <3>0. PICK c \in Channels, v \in Vals : \E w : IsWordOf(w, conf[c]) /\ Store(c, w, v) BY <2>2
    <3>1. PICK w : IsWordOf(w, conf[c]) /\ Store(c, w, v) BY <3>0
    <3>2. conf' = [conf EXCEPT ![c] = With(conf[c], w, v)] /\ touched' = touched \cup {<<c, w>>}
      BY <3>1 DEF Store, Reconfigure
    <3> QED BY <1>1, <3>1, <3>2, StoreStep
  <2> QED BY <1>5, <2>1, <2>2
<1>7. TypeInv' BY <1>0, <1>1, <1>2, <1>4, <1>6 DEF TypeInv
<1>8. TimeInv' BY <1>1 DEF UpdateInv, TimeInv
<1> QED BY <1>6, <1>7, <1>8 DEF UpdateInv

-----------------------------------------------------------------------------
LEMMA InitInv == Init => UpdateInv
<1> SUFFICES ASSUME Init PROVE UpdateInv OBVIOUS
<1> DEFINE channels == Content(Whole(1)).channels
<1>1. Whole(1) \in FileSet /\ Content(Whole(1)).ret = "NONE"
  <2>1. 1 \in DOMAIN Texts BY TextAssumption, ConfigAssumption
  <2> QED BY <2>1, WholeIsFile, ConfigAssumption
<1>2. Content(Whole(1)).hot_update \in BOOLEAN /\ WellFormed(channels, Vals) BY <1>1, ContentIs
<1>3. ASSUME NEW c \in Channels
      PROVE  c \in Nat /\ c < Len(channels) /\ channels[c + 1] \in ChannelSet(Vals) /\ DevicesNumbered(channels[c + 1])
  <2>1. Len(channels) \in Nat BY <1>2 DEF WellFormed
  <2>2. c \in Nat /\ c < Len(channels) BY <2>1 DEF Channels
  <2> HIDE DEF channels
  <2> QED BY <1>2, <2>2, ChannelOf
<1>4. ASSUME NEW c \in Channels
      PROVE  conf[c] = Configured(channels[c + 1]) /\ conf[c] \in Configs /\ Source(c) = channels[c + 1]
  <2>1. conf[c] = Configured(channels[c + 1]) BY DEF Init
  <2>2. Source(c) = channels[c + 1] BY DEF Init, Source
  <2>3. Configured(channels[c + 1]) \in Configs
    <3> HIDE DEF channels
    <3> QED BY <1>3 DEF Configured, Configs, ChannelSet
  <2> QED BY <2>1, <2>2, <2>3
<1>5. TypeInv
  <2>1. /\ file \in FileSet /\ now \in Nat /\ mtime \in 0 .. now /\ hot_update \in BOOLEAN
        /\ lock \in Channels \cup {NoOne} /\ setting \in Batches \cup {NoSetting}
    BY <1>1, <1>2 DEF Init
  <2>2. conf \in [Channels -> Configs]
    <3>1. conf = [c \in Channels |-> Configured(channels[c + 1])] BY DEF Init
    <3> HIDE DEF channels
    <3> QED BY <1>4, <3>1
  <2>3. /\ yaml_mtime \in [Channels -> Nat] /\ last_hot_check \in [Channels -> Nat]
        /\ pc \in [Channels -> {"drain", "look", "lock", "copy"}]
        /\ seen \in [Channels -> Nat] /\ at \in [Channels -> Nat]
    BY DEF Init
  <2>4. applied \in [Channels -> FileSet] BY <1>1 DEF Init
  <2>5. left \in [secs : Nat, saves : Nat, pauses : Nat, sets : Nat, logs : Nat]
    BY ConfigAssumption DEF Init
  <2> QED BY <2>1, <2>2, <2>3, <2>4, <2>5 DEF TypeInv
<1>6. TimeInv BY DEF Init, TimeInv
<1>7. ConfInv
  <2> SUFFICES ASSUME NEW c \in Channels PROVE DevicesNumbered(conf[c]) BY DEF ConfInv
  <2>1. conf[c].devices = channels[c + 1].devices
    <3>1. conf[c] = Configured(channels[c + 1]) BY <1>4
    <3> QED BY <3>1 DEF Configured
  <2> HIDE DEF channels
  <2> QED BY <1>3, <2>1 DEF DevicesNumbered
<1>8. LockInv BY ChannelsAre DEF Init, LockInv
<1>9. SourceInv BY <1>1, <1>3 DEF Init, SourceInv
<1>10. CopyInv
  <2> SUFFICES ASSUME NEW c \in Channels
               PROVE  /\ at[c] >= 1 /\ (pc[c] # "copy" => at[c] = 1)
                      /\ CopiedTo(conf[c], Source(c), touched, c, Reached(c))
    BY DEF CopyInv
  <2> DEFINE source == Source(c)
  <2>1. at[c] = 1 BY DEF Init
  <2>2. conf[c].fields = source.fields /\ conf[c].devices = source.devices
    <3>1. conf[c] = Configured(source) BY <1>4
    <3> HIDE DEF source
    <3> QED BY <3>1 DEF Configured
  <2>3. source \in ChannelSet(Vals) /\ Len(source.devices) \in 0 .. MAX_DEVICE_SIZE
    BY <1>5, <1>9, SourceIs
  <2> HIDE DEF source
  <2>4. ASSUME NEW i \in 1 .. Len(Words(source))
        PROVE  Words(source)[i][1] <= Len(conf[c].devices) /\ Holds(conf[c], source, Words(source)[i])
    <3>1. Words(source)[i][1] \in 0 .. Len(source.devices) BY <2>3, SourceWords
    <3>2. Len(source.devices) \in Nat BY <2>3
    <3> QED BY <2>2, <3>1, <3>2 DEF Holds, Word
  <2>5. CopiedTo(conf[c], source, touched, c, Reached(c)) BY <2>4 DEF CopiedTo
  <2> QED BY <2>1, <2>5 DEF source
<1> QED BY <1>5, <1>6, <1>7, <1>8, <1>9, <1>10 DEF UpdateInv

LEMMA NextInv == UpdateInv /\ [Next]_vars => UpdateInv'
<1> SUFFICES ASSUME UpdateInv, [Next]_vars PROVE UpdateInv' OBVIOUS
<1>1. CASE UNCHANGED vars
  <2>1. UNCHANGED <<file, mtime, now, hot_update, lock, conf, yaml_mtime, last_hot_check, pc, seen, at,
                    applied, setting, touched, left>>
    BY <1>1 DEF vars, disk, threads, app
  <2>2. TypeInv' /\ TimeInv' BY <2>1 DEF UpdateInv, TypeInv, TimeInv
  <2>3. ConfInv' /\ LockInv' /\ SourceInv' /\ CopyInv' BY <2>1, OtherStep
  <2> QED BY <2>2, <2>3 DEF UpdateInv
<1>2. CASE Tick \/ BeginSave \/ WriteFile BY <1>2, EditorStep
<1>3. ASSUME NEW p \in Producers, Producer(p) PROVE UpdateInv' BY <1>3, ProducerStep
<1>4. ASSUME NEW c \in Channels, Thread(c) \/ Sleep(c) PROVE UpdateInv'
  BY <1>4, LookStep, LoadStep, CopyStep, EndStep DEF Thread
<1>5. CASE Setter BY <1>5, SetterStep
<1> QED BY <1>1, <1>2, <1>3, <1>4, <1>5 DEF Next

(* One thread copies at a time, each word it has been at is as in the file *)
(* it copies from or was set by the application, and the file was          *)
(* accepted: HotUpdateLogger, fn_load.cpp:219-311, for all files, channels,*)
(* settings and producers.                                                 *)
THEOREM UpdateInvariant == Spec => []UpdateInv
<1>1. Init => UpdateInv BY InitInv
<1>2. UpdateInv /\ [Next]_vars => UpdateInv' BY NextInv
<1> QED BY <1>1, <1>2, PTL DEF Spec

(* The configuration has the fields, device numbers and device types the   *)
(* code declares, and no more devices than it has room for; nobody but the *)
(* copying thread holds the lock; no recorded time is in the future.       *)
THEOREM ConfigTypeCorrect == Spec => []ConfTypeOK
<1>1. UpdateInv => ConfTypeOK
  <2> SUFFICES ASSUME UpdateInv PROVE ConfTypeOK OBVIOUS
  <2>0. TypeInv BY DEF UpdateInv
  <2>1. /\ file.ver \in DOMAIN Texts /\ file.len \in 0 .. Len(Texts[file.ver])
        /\ mtime \in 0 .. now /\ now \in Nat /\ left.secs \in Nat
        /\ hot_update \in BOOLEAN /\ lock \in Channels \cup {NoOne}
    <3>1. file \in FileSet BY <2>0 DEF TypeInv
    <3>2. file.ver \in DOMAIN Texts /\ file.len \in Nat /\ file.len <= Len(Texts[file.ver])
      BY <3>1 DEF FileSet
    <3>3. Len(Texts[file.ver]) \in Nat BY <3>2, TextAssumption
    <3> QED BY <2>0, <3>2, <3>3 DEF TypeInv
  <2>2. ASSUME NEW c \in Channels
        PROVE  /\ DOMAIN conf[c].fields = Range(ChannelFields)
               /\ Len(conf[c].devices) <= MAX_DEVICE_SIZE
               /\ \A d \in DOMAIN conf[c].devices :
                    /\ DOMAIN conf[c].devices[d].fields = Range(DeviceFields)
                    /\ conf[c].devices[d].device_id = d - 1
                    /\ conf[c].devices[d].out_type \in Range(OutTypeOf) \cup {"NULL"}
               /\ pc[c] \in {"drain", "look", "lock", "copy"} /\ (pc[c] = "copy") = (lock = c)
               /\ yaml_mtime[c] <= now /\ last_hot_check[c] <= now /\ seen[c] <= now
    <3>1. conf[c] \in Configs /\ DevicesNumbered(conf[c]) BY <2>0 DEF TypeInv, UpdateInv, ConfInv
    <3>2. DOMAIN conf[c].fields = Range(ChannelFields) BY <3>1 DEF Configs
    <3>3. Len(conf[c].devices) <= MAX_DEVICE_SIZE BY <3>1 DEF DevicesNumbered
    <3>4. ASSUME NEW d \in DOMAIN conf[c].devices
          PROVE  /\ DOMAIN conf[c].devices[d].fields = Range(DeviceFields)
                 /\ conf[c].devices[d].device_id = d - 1
                 /\ conf[c].devices[d].out_type \in Range(OutTypeOf) \cup {"NULL"}
      <4>1. conf[c].devices \in Seq(Devices(Vals)) BY <3>1 DEF Configs
      <4>2. d \in 1 .. Len(conf[c].devices) /\ conf[c].devices[d] \in Devices(Vals) BY <4>1
      <4> QED BY <3>1, <4>2 DEF DevicesNumbered, Devices, DeviceTypes
    <3>5. pc[c] \in {"drain", "look", "lock", "copy"} BY <2>0 DEF TypeInv
    <3>6. (pc[c] = "copy") = (lock = c) BY DEF UpdateInv, LockInv
    <3>7. yaml_mtime[c] <= now /\ last_hot_check[c] <= now /\ seen[c] <= now BY DEF UpdateInv, TimeInv
    <3> QED BY <3>2, <3>3, <3>4, <3>5, <3>6, <3>7
  <2> QED BY <2>1, <2>2 DEF ConfTypeOK
<1> QED BY <1>1, UpdateInvariant, PTL

(* When a thread is not copying, its channel and devices are what one      *)
(* parse of one content of the file says, but for words the application    *)
(* has set and devices that file no longer has.                            *)
THEOREM UpdatesAreWhole == Spec => []UpdateIsWhole
<1>1. UpdateInv => UpdateIsWhole
  <2> SUFFICES ASSUME UpdateInv, NEW c \in Channels, pc[c] # "copy", NEW i \in DOMAIN Words(Source(c)),
                      <<c, Words(Source(c))[i]>> \notin touched
               PROVE  Holds(conf[c], Source(c), Words(Source(c))[i])
    BY DEF UpdateIsWhole
  <2>1. CopiedTo(conf[c], Source(c), touched, c, Len(Words(Source(c))) + 1)
    BY DEF UpdateInv, CopyInv, Reached
  <2>2. Len(Words(Source(c))) \in Nat /\ DOMAIN Words(Source(c)) = 1 .. Len(Words(Source(c)))
    BY SourceIs, SourceWords DEF UpdateInv
  <2> QED BY <2>1, <2>2 DEF CopiedTo
<1> QED BY <1>1, UpdateInvariant, PTL

(* Once hot_update_ is off no update begins, not even by a thread that was *)
(* already waiting for the lock with a changed file: the second look at    *)
(* hot_update_, fn_load.cpp:266.                                           *)
THEOREM OffIsOff == Spec => OffMeansOff
<1> DEFINE Off == \A c \in Channels : ~hot_update /\ pc[c] # "copy" => pc'[c] # "copy"
<1>1. TypeInv /\ [Next]_vars => [Off]_vars
  <2> SUFFICES ASSUME TypeInv, Next, NEW c \in Channels, ~hot_update, pc[c] # "copy"
               PROVE  pc'[c] # "copy"
    OBVIOUS
  <2> USE DEF threads
  <2>1. CASE UNCHANGED pc BY <2>1
  <2>2. ASSUME NEW d \in Channels, NEW place \in {"look", "lock", "drain"}, pc' = [pc EXCEPT ![d] = place]
        PROVE  pc'[c] # "copy"
    BY <2>2 DEF TypeInv
  <2>3. CASE Tick \/ BeginSave \/ WriteFile BY <2>1, <2>3 DEF Tick, BeginSave, WriteFile
  <2>4. ASSUME NEW p \in Producers, Producer(p) PROVE UNCHANGED pc
    BY <2>4 DEF Producer, BeginLog, ReadChannel, ReadSize, ReadDevice, SetCategory, Return
  <2>5. ASSUME NEW d \in Channels, Thread(d) \/ Sleep(d) PROVE pc'[c] # "copy"
    <3>1. CASE DispatchLog(d) BY <2>1, <3>1 DEF DispatchLog
    <3>2. CASE Drained(d) BY <2>2, <3>2 DEF Drained
    <3>3. CASE LookAtFile(d)
      <4>1. PICK goes \in BOOLEAN : pc' = [pc EXCEPT ![d] = IF goes THEN "lock" ELSE "drain"]
        BY <3>3 DEF LookAtFile
      <4> QED BY <2>2, <4>1
    <3>4. CASE LoadConfig(d) BY <2>2, <3>4 DEF LoadConfig, Load
    <3>5. CASE CopyWord(d) BY <2>1, <3>5 DEF CopyWord
    <3>6. CASE EndUpdate(d) BY <2>2, <3>6 DEF EndUpdate
    <3>7. CASE Sleep(d) BY <2>1, <3>7 DEF Sleep, vars
    <3> QED BY <2>5, <3>1, <3>2, <3>3, <3>4, <3>5, <3>6, <3>7 DEF Thread
  <2>6. CASE Setter BY <2>1, <2>6 DEF Setter, SetConfig, BeginBatch, BatchChannel, BatchDevice
  <2> QED BY <2>1, <2>3, <2>4, <2>5, <2>6 DEF Next
<1>2. UpdateInv => TypeInv BY DEF UpdateInv
<1>3. Spec => []TypeInv BY <1>2, UpdateInvariant, PTL
<1>4. Spec => [][Off]_vars
  <2> HIDE DEF Off
  <2> QED BY <1>1, <1>3, PTL DEF Spec
<1> QED BY <1>4 DEF OffMeansOff

-----------------------------------------------------------------------------
(* The calls of BlockInput.  What a configuration says about a log:        *)
AcceptsIn(config, log) ==
  /\ Passes(config.fields, log)
  /\ \E d \in 1 .. Len(config.devices) : DeviceTakes(config.devices[d].fields, log)

AllFields == Range(ChannelFields) \cup Range(DeviceFields)
Reads == UNION {[S -> Vals] : S \in SUBSET AllFields}
Places == {"channel", "size", "device", "passed", "blocked"}
Calls ==
  [pc : Places, log : Logs, slot : Logs, dev : Nat, next : Nat, read : Reads, before : BOOLEAN,
   changes : 0 .. 2, stale : BOOLEAN]

(* What has been read of the fields: those before the next.                *)
ReadUpTo(read, fields, n) ==
  n \in 1 .. Len(fields) /\ DOMAIN read = {fields[i] : i \in 1 .. n - 1}

Placed(k, config) ==
  /\ k.pc = "channel" => k.dev = 0 /\ ReadUpTo(k.read, ChannelFields, k.next)
  /\ k.pc = "size" => k.dev >= 1 /\ k.next = 1 /\ k.read = <<>>
  /\ k.pc = "device" => /\ k.dev >= 1 /\ k.dev <= Len(config.devices)
                        /\ ReadUpTo(k.read, DeviceFields, k.next)

(* All the call has read so far is what config says.                       *)
Agrees(read, fields) == \A f \in DOMAIN read : read[f] = fields[f]
NoneBefore(config, dev, log) ==
  \A d \in 1 .. Len(config.devices) : d < dev => ~DeviceTakes(config.devices[d].fields, log)
Consistent(k, config) ==
  /\ k.pc = "channel" => Agrees(k.read, config.fields)
  /\ k.pc \in {"size", "device"} =>
       /\ Passes(config.fields, k.log) /\ NoneBefore(config, k.dev, k.log)
       /\ k.dev <= Len(config.devices) + 1
  /\ k.pc = "device" =>
       k.dev <= Len(config.devices) /\ Agrees(k.read, config.devices[k.dev].fields)
  /\ k.pc = "passed" => AcceptsIn(config, k.log)
  /\ k.pc = "blocked" => ~AcceptsIn(config, k.log)

(* All the call may still read is the same in both.                        *)
RestSame(k, old, new) ==
  /\ k.pc = "channel" =>
       \A f \in Range(ChannelFields) : f \notin DOMAIN k.read => new.fields[f] = old.fields[f]
  /\ k.pc = "device" =>
       \A f \in Range(DeviceFields) : f \notin DOMAIN k.read =>
         new.devices[k.dev].fields[f] = old.devices[k.dev].fields[f]
  /\ k.pc \in {"channel", "size", "device"} =>
       /\ Len(new.devices) = Len(old.devices)
       /\ \A d \in 1 .. Len(old.devices) :
            d > k.dev \/ (d = k.dev /\ k.pc = "size") => new.devices[d].fields = old.devices[d].fields

(* With one change so far, the call goes on as before it or as after it.   *)
Explained(k, config) ==
  /\ k.changes = 0 => Consistent(k, config) /\ k.before = AcceptsIn(config, k.log)
  /\ k.changes = 1 =>
       \E old \in Configs :
         /\ k.before = AcceptsIn(old, k.log)
         /\ Consistent(k, config) \/ (Consistent(k, old) /\ RestSame(k, old, config))

(* No word of the device the call is at has changed since the call came to *)
(* it: all read so far is there, and a device that let the log in takes it.*)
Watched(k, config) ==
  ~k.stale =>
    /\ k.pc = "device" => Agrees(k.read, config.devices[k.dev].fields)
    /\ k.pc = "passed" => /\ k.dev \in 1 .. Len(config.devices)
                          /\ DeviceTakes(config.devices[k.dev].fields, k.log)

CallInv ==
  /\ call \in [Producers -> {NoCall} \cup Calls]
  /\ \A p \in Producers : call[p] # NoCall =>
       LET config == conf[call[p].log.chan]
       IN  Placed(call[p], config) /\ Explained(call[p], config) /\ Watched(call[p], config)

(* The device that let the log of an entry in takes it still.              *)
Entries == [log : Logs, asked : Logs, by : Nat, stale : BOOLEAN, writes : BOOLEAN]
Owed(entry, config) ==
  ~entry.stale =>
    /\ entry.by \in 1 .. Len(config.devices)
    /\ DeviceTakes(config.devices[entry.by].fields, entry.asked)
    /\ entry.writes = Writes(config.devices[entry.by])

QueueInv ==
  /\ queue \in [Channels -> Seq(Entries)]
  /\ \A c \in Channels : \A i \in 1 .. Len(queue[c]) : Owed(queue[c][i], conf[c])

LEMMA NothingRead == <<>> \in Reads /\ DOMAIN <<>> = {}
<1>1. <<>> \in [{} -> Vals] OBVIOUS
<1>2. {} \in SUBSET AllFields OBVIOUS
<1>3. [{} -> Vals] \in {[S -> Vals] : S \in SUBSET AllFields} BY <1>2
<1> QED BY <1>1, <1>3 DEF Reads

LEMMA ReadIs ==
  ASSUME NEW read \in Reads
  PROVE  read \in [DOMAIN read -> Vals] /\ DOMAIN read \subseteq AllFields
<1>1. PICK S \in SUBSET AllFields : read \in [S -> Vals] BY DEF Reads
<1>2. DOMAIN read = S BY <1>1
<1> QED BY <1>1, <1>2

(* One more field is read, from fields.                                    *)
More(read, f, fields) == [x \in DOMAIN read \cup {f} |-> IF x = f THEN fields[f] ELSE read[x]]

ReadsOn(read, more, F, n, fields) ==
  /\ F[n] \in Range(F) /\ F[n] \notin DOMAIN read
  /\ more \in Reads /\ DOMAIN more = DOMAIN read \cup {F[n]}
  /\ n < Len(F) => ReadUpTo(more, F, n + 1)
  /\ n = Len(F) => DOMAIN more = Range(F)
  /\ \A other : Agrees(read, other) /\ other[F[n]] = fields[F[n]] => Agrees(more, other)

LEMMA ReadMore ==
  ASSUME NEW read \in Reads, NEW F \in {ChannelFields, DeviceFields}, NEW n \in Nat, ReadUpTo(read, F, n),
         NEW fields \in [Range(F) -> Vals]
  PROVE  ReadsOn(read, More(read, F[n], fields), F, n, fields)
<1> DEFINE more == More(read, F[n], fields)
<1>1. /\ Len(F) \in Nat /\ Range(F) = {F[i] : i \in 1 .. Len(F)} /\ Range(F) \subseteq AllFields
      /\ \A i, j \in 1 .. Len(F) : F[i] = F[j] => i = j
  <2>1. CASE F = ChannelFields BY <2>1, FieldsAre, RangesAre, FieldsOnce DEF AllFields
  <2>2. CASE F = DeviceFields BY <2>2, FieldsAre, RangesAre, FieldsOnce DEF AllFields
  <2> QED BY <2>1, <2>2
<1>2. n \in 1 .. Len(F) /\ DOMAIN read = {F[i] : i \in 1 .. n - 1} BY DEF ReadUpTo
<1>3. F[n] \in Range(F) BY <1>1, <1>2
<1>4. F[n] \notin DOMAIN read
  <2> SUFFICES ASSUME NEW i \in 1 .. n - 1, F[n] = F[i] PROVE FALSE BY <1>2
  <2>1. i \in 1 .. Len(F) /\ i # n BY <1>1, <1>2
  <2> QED BY <1>1, <1>2, <2>1
<1>5. DOMAIN more = DOMAIN read \cup {F[n]} BY DEF More
<1>6. more \in Reads
  <2>1. read \in [DOMAIN read -> Vals] /\ DOMAIN read \subseteq AllFields BY ReadIs
  <2>2. DOMAIN read \cup {F[n]} \in SUBSET AllFields BY <1>1, <1>3, <2>1
  <2>3. fields[F[n]] \in Vals BY <1>3
  <2>4. more \in [DOMAIN read \cup {F[n]} -> Vals] BY <2>1, <2>3 DEF More
  <2> HIDE DEF more
  <2> QED BY <2>2, <2>4 DEF Reads
<1>7. DOMAIN more = {F[i] : i \in 1 .. n}
  <2>1. 1 .. n = (1 .. n - 1) \cup {n} BY <1>2
  <2> HIDE DEF more
  <2> QED BY <1>2, <1>5, <2>1
<1>8. ASSUME n < Len(F) PROVE ReadUpTo(more, F, n + 1)
  <2>1. n + 1 \in 1 .. Len(F) /\ (n + 1) - 1 = n BY <1>1, <1>2, <1>8
  <2> HIDE DEF more
  <2> QED BY <1>7, <2>1 DEF ReadUpTo
<1>9. ASSUME n = Len(F) PROVE DOMAIN more = Range(F)
  <2> HIDE DEF more
  <2> QED BY <1>1, <1>7, <1>9
<1>10. ASSUME NEW other, Agrees(read, other), other[F[n]] = fields[F[n]] PROVE Agrees(more, other)
  BY <1>5, <1>10 DEF Agrees, More
<1> HIDE DEF more
<1>11. ReadsOn(read, more, F, n, fields) BY <1>3, <1>4, <1>5, <1>6, <1>8, <1>9, <1>10 DEF ReadsOn
<1> QED BY <1>11 DEF more

(* Once all fields are read and agree, they are known.                     *)
LEMMA ReadAll ==
  ASSUME NEW read \in Reads, NEW S, DOMAIN read = S, NEW fields \in [S -> Vals], Agrees(read, fields)
  PROVE  read = fields
<1>1. read \in [S -> Vals] BY ReadIs
<1> QED BY <1>1 DEF Agrees

(* The two copies of the test of a device say the same.                    *)
LEMMA SameTest ==
  ASSUME NEW f, NEW log
  PROVE  DeviceWants(f, log) <=> DeviceTakes(f, log)
BY DEF DeviceWants, DeviceTakes, Passes, InRange

LEMMA AcceptsIs ==
  ASSUME NEW c, NEW log, conf[c] \in Configs
  PROVE  Accepts(c, log) = AcceptsIn(conf[c], log)
<1>1. DOMAIN conf[c].devices = 1 .. Len(conf[c].devices) BY DEF Configs
<1>2. Takers(c, log) # {} <=> \E d \in 1 .. Len(conf[c].devices) : DeviceTakes(conf[c].devices[d].fields, log)
  BY <1>1 DEF Takers
<1> QED BY <1>2 DEF Accepts, AcceptsIn

LEMMA FieldsOfConfig ==
  ASSUME NEW config \in Configs
  PROVE  /\ config.fields \in [Range(ChannelFields) -> Vals]
         /\ Len(config.devices) \in Nat
         /\ \A d \in 1 .. Len(config.devices) : config.devices[d].fields \in [Range(DeviceFields) -> Vals]
<1>1. config.devices \in Seq(Devices(Vals)) /\ config.fields \in [Range(ChannelFields) -> Vals] BY DEF Configs
<1>2. ASSUME NEW d \in 1 .. Len(config.devices)
      PROVE  config.devices[d].fields \in [Range(DeviceFields) -> Vals]
  <2>1. config.devices[d] \in Devices(Vals) BY <1>1
  <2> QED BY <2>1 DEF Devices
<1> QED BY <1>1, <1>2

(* Reading one word of config leaves the call consistent with whatever it  *)
(* was consistent with, as long as what was left to read is the same there.*)
StaysExplained(k, next, config) ==
  /\ next \in Calls /\ Placed(next, config)
  /\ next.log = k.log /\ next.before = k.before /\ next.changes = k.changes
  /\ \A old \in Configs : Consistent(k, old) /\ RestSame(k, old, config) =>
       Consistent(next, old) /\ RestSame(next, old, config)
  /\ Watched(k, config) => Watched(next, config)

LEMMA ChannelRead ==
  ASSUME NEW k \in Calls, NEW config \in Configs, Placed(k, config), k.pc = "channel"
  PROVE  LET f == ChannelFields[k.next]
             after == [k EXCEPT !.read = More(k.read, f, config.fields), !.next = k.next + 1]
         IN  StaysExplained(k,
               IF after.next <= Len(ChannelFields) THEN after
               ELSE IF Passes(after.read, after.log)
               THEN [after EXCEPT !.pc = "size", !.dev = 1, !.next = 1, !.read = <<>>]
               ELSE [after EXCEPT !.pc = "blocked", !.read = <<>>],
               config)
<1> DEFINE n == k.next
           f == ChannelFields[n]
           more == More(k.read, f, config.fields)
           after == [k EXCEPT !.read = more, !.next = n + 1]
           size == [after EXCEPT !.pc = "size", !.dev = 1, !.next = 1, !.read = <<>>]
           blocked == [after EXCEPT !.pc = "blocked", !.read = <<>>]
           new == IF after.next <= Len(ChannelFields) THEN after
                  ELSE IF Passes(after.read, after.log) THEN size ELSE blocked
<1>1. /\ k.dev = 0 /\ ReadUpTo(k.read, ChannelFields, n) /\ n \in Nat /\ k.read \in Reads
      /\ n \in 1 .. Len(ChannelFields) /\ Len(ChannelFields) \in Nat
  BY FieldsAre DEF Placed, Calls, ReadUpTo
<1>2. config.fields \in [Range(ChannelFields) -> Vals] BY FieldsOfConfig
<1>3. /\ f \in Range(ChannelFields) /\ f \notin DOMAIN k.read /\ more \in Reads
      /\ DOMAIN more = DOMAIN k.read \cup {f}
      /\ n < Len(ChannelFields) => ReadUpTo(more, ChannelFields, n + 1)
      /\ n = Len(ChannelFields) => DOMAIN more = Range(ChannelFields)
      /\ \A other : Agrees(k.read, other) /\ other[f] = config.fields[f] => Agrees(more, other)
  <2>1. ChannelFields \in {ChannelFields, DeviceFields} OBVIOUS
  <2>2. ReadsOn(k.read, more, ChannelFields, n, config.fields) BY <1>1, <1>2, <2>1, ReadMore
  <2> HIDE DEF more
  <2> QED BY <2>2 DEF ReadsOn
<1>4. ASSUME NEW old \in Configs, Consistent(k, old), RestSame(k, old, config)
      PROVE  /\ Agrees(more, old.fields) /\ Len(config.devices) = Len(old.devices)
             /\ \A x \in Range(ChannelFields) : x \notin DOMAIN more => config.fields[x] = old.fields[x]
             /\ \A d \in 1 .. Len(old.devices) : config.devices[d].fields = old.devices[d].fields
             /\ old.fields \in [Range(ChannelFields) -> Vals] /\ Len(old.devices) \in Nat
  <2>1. old.fields \in [Range(ChannelFields) -> Vals] /\ Len(old.devices) \in Nat BY FieldsOfConfig
  <2>2. /\ Agrees(k.read, old.fields) /\ Len(config.devices) = Len(old.devices)
        /\ \A x \in Range(ChannelFields) : x \notin DOMAIN k.read => config.fields[x] = old.fields[x]
        /\ \A d \in 1 .. Len(old.devices) : d > k.dev => config.devices[d].fields = old.devices[d].fields
    BY <1>4 DEF Consistent, RestSame
  <2>3. \A d \in 1 .. Len(old.devices) : d > k.dev BY <1>1
  <2>4. old.fields[f] = config.fields[f] BY <1>3, <2>2
  <2> HIDE DEF more
  <2> QED BY <1>3, <2>1, <2>2, <2>3, <2>4
<1> HIDE DEF more, f
<1>5. /\ after \in Calls /\ after.pc = "channel" /\ after.next = n + 1 /\ after.read = more /\ after.dev = 0
      /\ after.log = k.log /\ after.before = k.before /\ after.changes = k.changes
  <2> DEFINE m == n + 1
  <2>1. m \in Nat BY <1>1
  <2> HIDE DEF m
  <2>2. after = [k EXCEPT !.read = more, !.next = m] BY DEF m
  <2> HIDE DEF after
  <2>3. after \in Calls BY <1>3, <2>1, <2>2 DEF Calls
  <2> QED BY <1>1, <2>2, <2>3 DEF Calls, m
<1> HIDE DEF after
<1>6. /\ size \in Calls /\ size.pc = "size" /\ size.dev = 1 /\ size.next = 1 /\ size.read = <<>>
      /\ size.log = k.log /\ size.before = k.before /\ size.changes = k.changes
  BY <1>5, NothingRead DEF Calls, Places
<1>7. /\ blocked \in Calls /\ blocked.pc = "blocked"
      /\ blocked.log = k.log /\ blocked.before = k.before /\ blocked.changes = k.changes
  BY <1>5, NothingRead DEF Calls, Places
<1> HIDE DEF size, blocked
<1>8. CASE n < Len(ChannelFields)
  <2>1. new = after BY <1>1, <1>5, <1>8
  <2>2. Placed(after, config) BY <1>3, <1>5, <1>8 DEF Placed
  <2>3. ASSUME NEW old \in Configs, Consistent(k, old), RestSame(k, old, config)
        PROVE  Consistent(after, old) /\ RestSame(after, old, config)
    BY <1>4, <1>5, <2>3 DEF Consistent, RestSame
  <2> QED BY <1>5, <2>1, <2>2, <2>3 DEF StaysExplained, Watched, after, size, blocked, more, f
<1>9. ASSUME n = Len(ChannelFields), NEW old \in Configs, Consistent(k, old), RestSame(k, old, config)
      PROVE  more = old.fields
  BY <1>3, <1>4, <1>9, ReadAll
<1>10. CASE n = Len(ChannelFields) /\ Passes(more, k.log)
  <2>1. new = size BY <1>1, <1>5, <1>10
  <2>2. Placed(size, config) BY <1>6 DEF Placed
  <2>3. ASSUME NEW old \in Configs, Consistent(k, old), RestSame(k, old, config)
        PROVE  Consistent(size, old) /\ RestSame(size, old, config)
    <3>1. Passes(old.fields, k.log) BY <1>9, <1>10, <2>3
    <3>2. NoneBefore(old, 1, k.log) BY DEF NoneBefore
    <3>3. Consistent(size, old) BY <1>4, <1>6, <2>3, <3>1, <3>2 DEF Consistent
    <3>4. RestSame(size, old, config) BY <1>4, <1>6, <2>3 DEF RestSame
    <3> QED BY <3>3, <3>4
  <2> QED BY <1>6, <2>1, <2>2, <2>3 DEF StaysExplained, Watched, after, size, blocked, more, f
<1>11. CASE n = Len(ChannelFields) /\ ~Passes(more, k.log)
  <2>1. new = blocked BY <1>1, <1>5, <1>11
  <2>2. Placed(blocked, config) BY <1>7 DEF Placed
  <2>3. ASSUME NEW old \in Configs, Consistent(k, old), RestSame(k, old, config)
        PROVE  Consistent(blocked, old) /\ RestSame(blocked, old, config)
    <3>1. ~AcceptsIn(old, k.log) BY <1>9, <1>11, <2>3 DEF AcceptsIn
    <3> QED BY <1>7, <3>1 DEF Consistent, RestSame
  <2> QED BY <1>7, <2>1, <2>2, <2>3 DEF StaysExplained, Watched, after, size, blocked, more, f
<1> QED BY <1>1, <1>8, <1>10, <1>11 DEF after, size, blocked, more, f

LEMMA SizeRead ==
  ASSUME NEW k \in Calls, NEW config \in Configs, Placed(k, config), k.pc = "size"
  PROVE  StaysExplained(k, [k EXCEPT !.pc = IF k.dev <= Len(config.devices) THEN "device" ELSE "blocked", !.stale = FALSE], config)
<1> DEFINE new == [k EXCEPT !.pc = IF k.dev <= Len(config.devices) THEN "device" ELSE "blocked", !.stale = FALSE]
<1>1. k.dev \in Nat /\ k.dev >= 1 /\ k.next = 1 /\ k.read = <<>> /\ Len(config.devices) \in Nat
  BY FieldsOfConfig DEF Placed, Calls
<1>2. /\ new \in Calls /\ new.pc = IF k.dev <= Len(config.devices) THEN "device" ELSE "blocked"
      /\ new.dev = k.dev /\ new.next = 1 /\ new.read = <<>>
      /\ new.log = k.log /\ new.before = k.before /\ new.changes = k.changes
  BY <1>1 DEF Calls, Places
<1> HIDE DEF new
<1>3. ASSUME NEW old \in Configs, Consistent(k, old), RestSame(k, old, config)
      PROVE  /\ Passes(old.fields, k.log) /\ NoneBefore(old, k.dev, k.log) /\ k.dev <= Len(old.devices) + 1
             /\ Len(config.devices) = Len(old.devices)
             /\ \A d \in 1 .. Len(old.devices) : d >= k.dev => config.devices[d].fields = old.devices[d].fields
             /\ Len(old.devices) \in Nat
  <2>1. Len(old.devices) \in Nat BY FieldsOfConfig
  <2>2. /\ Passes(old.fields, k.log) /\ NoneBefore(old, k.dev, k.log) /\ k.dev <= Len(old.devices) + 1
    BY <1>3 DEF Consistent
  <2>3. /\ Len(config.devices) = Len(old.devices)
        /\ \A d \in 1 .. Len(old.devices) : d > k.dev \/ d = k.dev => config.devices[d].fields = old.devices[d].fields
    BY <1>3 DEF RestSame
  <2> QED BY <1>1, <2>1, <2>2, <2>3
<1>4. CASE k.dev <= Len(config.devices)
  <2>1. Placed(new, config)
    <3>1. ReadUpTo(<<>>, DeviceFields, 1) BY FieldsAre, NothingRead DEF ReadUpTo
    <3> QED BY <1>1, <1>2, <1>4, <3>1 DEF Placed
  <2>2. ASSUME NEW old \in Configs, Consistent(k, old), RestSame(k, old, config)
        PROVE  Consistent(new, old) /\ RestSame(new, old, config)
    <3>1. Agrees(<<>>, old.devices[k.dev].fields) BY NothingRead DEF Agrees
    <3>2. Consistent(new, old) BY <1>2, <1>3, <1>4, <2>2, <3>1 DEF Consistent
    <3>3. k.dev \in 1 .. Len(old.devices) BY <1>1, <1>3, <1>4, <2>2
    <3>4. config.devices[k.dev].fields = old.devices[k.dev].fields BY <1>1, <1>3, <2>2, <3>3
    <3>5. RestSame(new, old, config) BY <1>1, <1>2, <1>3, <1>4, <2>2, <3>4 DEF RestSame
    <3> QED BY <3>2, <3>5
  <2>3. Watched(new, config) BY <1>2, NothingRead DEF Watched, Agrees
  <2> QED BY <1>2, <2>1, <2>2, <2>3 DEF StaysExplained, new
<1>5. CASE ~(k.dev <= Len(config.devices))
  <2>1. Placed(new, config) BY <1>2, <1>5 DEF Placed
  <2>2. ASSUME NEW old \in Configs, Consistent(k, old), RestSame(k, old, config)
        PROVE  Consistent(new, old) /\ RestSame(new, old, config)
    <3>1. \A d \in 1 .. Len(old.devices) : d < k.dev BY <1>1, <1>3, <1>5, <2>2
    <3>2. ~AcceptsIn(old, k.log) BY <1>3, <2>2, <3>1 DEF AcceptsIn, NoneBefore
    <3> QED BY <1>2, <1>5, <3>2 DEF Consistent, RestSame
  <2>3. Watched(new, config) BY <1>2, <1>5 DEF Watched
  <2> QED BY <1>2, <2>1, <2>2, <2>3 DEF StaysExplained, new
<1> QED BY <1>4, <1>5 DEF new

LEMMA DeviceRead ==
  ASSUME NEW k \in Calls, NEW config \in Configs, Placed(k, config), k.pc = "device"
  PROVE  LET f == DeviceFields[k.next]
             after == [k EXCEPT !.read = More(k.read, f, config.devices[k.dev].fields), !.next = k.next + 1]
         IN  StaysExplained(k,
               IF after.next <= Len(DeviceFields) THEN after
               ELSE IF DeviceWants(after.read, after.log)
               THEN [after EXCEPT !.pc = "passed", !.read = <<>>]
               ELSE [after EXCEPT !.pc = "size", !.dev = after.dev + 1, !.next = 1, !.read = <<>>],
               config)
<1> DEFINE n == k.next
           dev == k.dev
           f == DeviceFields[n]
           fields == config.devices[dev].fields
           more == More(k.read, f, fields)
           after == [k EXCEPT !.read = more, !.next = n + 1]
           passed == [after EXCEPT !.pc = "passed", !.read = <<>>]
           size == [after EXCEPT !.pc = "size", !.dev = after.dev + 1, !.next = 1, !.read = <<>>]
           new == IF after.next <= Len(DeviceFields) THEN after
                  ELSE IF DeviceWants(after.read, after.log) THEN passed ELSE size
<1>1. /\ dev \in Nat /\ dev >= 1 /\ dev <= Len(config.devices)
      /\ ReadUpTo(k.read, DeviceFields, n) /\ n \in Nat /\ k.read \in Reads
      /\ n \in 1 .. Len(DeviceFields) /\ Len(DeviceFields) \in Nat /\ Len(config.devices) \in Nat
  BY FieldsAre, FieldsOfConfig DEF Placed, Calls, ReadUpTo
<1>2. fields \in [Range(DeviceFields) -> Vals] BY <1>1, FieldsOfConfig
<1> HIDE DEF fields
<1>3. /\ f \in Range(DeviceFields) /\ f \notin DOMAIN k.read /\ more \in Reads
      /\ DOMAIN more = DOMAIN k.read \cup {f}
      /\ n < Len(DeviceFields) => ReadUpTo(more, DeviceFields, n + 1)
      /\ n = Len(DeviceFields) => DOMAIN more = Range(DeviceFields)
      /\ \A other : Agrees(k.read, other) /\ other[f] = fields[f] => Agrees(more, other)
  <2>1. DeviceFields \in {ChannelFields, DeviceFields} OBVIOUS
  <2>2. ReadsOn(k.read, more, DeviceFields, n, fields) BY <1>1, <1>2, <2>1, ReadMore
  <2> HIDE DEF more
  <2> QED BY <2>2 DEF ReadsOn
<1> HIDE DEF more, f
<1>4. ASSUME NEW old \in Configs, Consistent(k, old), RestSame(k, old, config)
      PROVE  /\ Agrees(more, old.devices[dev].fields) /\ Len(config.devices) = Len(old.devices)
             /\ \A x \in Range(DeviceFields) : x \notin DOMAIN more =>
                  config.devices[dev].fields[x] = old.devices[dev].fields[x]
             /\ \A d \in 1 .. Len(old.devices) : d > dev => config.devices[d].fields = old.devices[d].fields
             /\ old.devices[dev].fields \in [Range(DeviceFields) -> Vals] /\ Len(old.devices) \in Nat
             /\ Passes(old.fields, k.log) /\ NoneBefore(old, dev, k.log) /\ dev <= Len(old.devices)
  <2>1. /\ Passes(old.fields, k.log) /\ NoneBefore(old, dev, k.log) /\ dev <= Len(old.devices)
        /\ Agrees(k.read, old.devices[dev].fields)
    BY <1>4 DEF Consistent
  <2>2. old.devices[dev].fields \in [Range(DeviceFields) -> Vals] /\ Len(old.devices) \in Nat
    BY <1>1, <2>1, FieldsOfConfig
  <2>3. /\ Len(config.devices) = Len(old.devices)
        /\ \A x \in Range(DeviceFields) : x \notin DOMAIN k.read =>
             config.devices[dev].fields[x] = old.devices[dev].fields[x]
        /\ \A d \in 1 .. Len(old.devices) : d > dev => config.devices[d].fields = old.devices[d].fields
    BY <1>4 DEF RestSame
  <2>4. old.devices[dev].fields[f] = fields[f] BY <1>3, <2>3 DEF fields
  <2> QED BY <1>3, <2>1, <2>2, <2>3, <2>4
<1>5. /\ after \in Calls /\ after.pc = "device" /\ after.next = n + 1 /\ after.read = more /\ after.dev = dev
      /\ after.log = k.log /\ after.before = k.before /\ after.changes = k.changes /\ after.stale = k.stale
  <2> DEFINE m == n + 1
  <2>1. m \in Nat BY <1>1
  <2> HIDE DEF m
  <2>2. after = [k EXCEPT !.read = more, !.next = m] BY DEF m
  <2> HIDE DEF after
  <2>3. after \in Calls BY <1>3, <2>1, <2>2 DEF Calls
  <2> QED BY <1>1, <2>2, <2>3 DEF Calls, m
<1> HIDE DEF after
<1>6. /\ size \in Calls /\ size.pc = "size" /\ size.dev = dev + 1 /\ size.next = 1 /\ size.read = <<>>
      /\ size.log = k.log /\ size.before = k.before /\ size.changes = k.changes
  <2> DEFINE m == dev + 1
  <2>1. m \in Nat BY <1>1
  <2>2. size = [after EXCEPT !.pc = "size", !.dev = m, !.next = 1, !.read = <<>>] BY <1>5
  <2> HIDE DEF m, size
  <2>3. size \in Calls BY <1>5, <2>1, <2>2, NothingRead DEF Calls, Places
  <2>4. /\ size.pc = "size" /\ size.dev = m /\ size.next = 1 /\ size.read = <<>>
        /\ size.log = k.log /\ size.before = k.before /\ size.changes = k.changes
    BY <1>5, <2>2 DEF Calls
  <2> QED BY <2>3, <2>4 DEF m
<1>7. /\ passed \in Calls /\ passed.pc = "passed" /\ passed.dev = dev
      /\ passed.log = k.log /\ passed.before = k.before /\ passed.changes = k.changes
      /\ passed.stale = k.stale
  BY <1>5, NothingRead DEF Calls, Places
<1> HIDE DEF size, passed
<1>7a. ASSUME Watched(k, config), ~k.stale PROVE Agrees(more, fields)
  <2>1. Agrees(k.read, fields) BY <1>7a DEF Watched, fields
  <2> QED BY <1>3, <2>1
<1>8. CASE n < Len(DeviceFields)
  <2>1. new = after BY <1>1, <1>5, <1>8
  <2>2. Placed(after, config) BY <1>1, <1>3, <1>5, <1>8 DEF Placed
  <2>3. ASSUME NEW old \in Configs, Consistent(k, old), RestSame(k, old, config)
        PROVE  Consistent(after, old) /\ RestSame(after, old, config)
    <3>1. Consistent(after, old) BY <1>1, <1>4, <1>5, <2>3 DEF Consistent
    <3>2. RestSame(after, old, config) BY <1>4, <1>5, <2>3 DEF RestSame
    <3> QED BY <3>1, <3>2
  <2>4. Watched(k, config) => Watched(after, config) BY <1>5, <1>7a DEF Watched, fields
  <2> QED BY <1>5, <2>1, <2>2, <2>3, <2>4 DEF StaysExplained, after, size, passed, more, f, fields
<1>9. ASSUME n = Len(DeviceFields), NEW old \in Configs, Consistent(k, old), RestSame(k, old, config)
      PROVE  DeviceWants(more, k.log) <=> DeviceTakes(old.devices[dev].fields, k.log)
  <2>1. more = old.devices[dev].fields BY <1>3, <1>4, <1>9, ReadAll
  <2> QED BY <2>1, SameTest
<1>10. CASE n = Len(DeviceFields) /\ DeviceWants(more, k.log)
  <2>1. new = passed BY <1>1, <1>5, <1>10
  <2>2. Placed(passed, config) BY <1>7 DEF Placed
  <2>3. ASSUME NEW old \in Configs, Consistent(k, old), RestSame(k, old, config)
        PROVE  Consistent(passed, old) /\ RestSame(passed, old, config)
    <3>1. DeviceTakes(old.devices[dev].fields, k.log) /\ dev \in 1 .. Len(old.devices)
      BY <1>1, <1>4, <1>9, <1>10, <2>3
    <3>2. AcceptsIn(old, k.log) BY <1>4, <2>3, <3>1 DEF AcceptsIn
    <3> QED BY <1>7, <3>2 DEF Consistent, RestSame
  <2>4. Watched(k, config) => Watched(passed, config)
    <3> SUFFICES ASSUME Watched(k, config), ~k.stale
                 PROVE  dev \in 1 .. Len(config.devices) /\ DeviceTakes(fields, k.log)
      BY <1>7 DEF Watched, fields
    <3>1. more = fields BY <1>2, <1>3, <1>10, <1>7a, ReadAll
    <3> QED BY <1>1, <1>10, <3>1, SameTest
  <2> QED BY <1>7, <2>1, <2>2, <2>3, <2>4 DEF StaysExplained, after, size, passed, more, f, fields
<1>11. CASE n = Len(DeviceFields) /\ ~DeviceWants(more, k.log)
  <2>1. new = size BY <1>1, <1>5, <1>11
  <2>2. Placed(size, config) BY <1>1, <1>6 DEF Placed
  <2>3. ASSUME NEW old \in Configs, Consistent(k, old), RestSame(k, old, config)
        PROVE  Consistent(size, old) /\ RestSame(size, old, config)
    <3>1. ~DeviceTakes(old.devices[dev].fields, k.log) BY <1>9, <1>11, <2>3
    <3>2. NoneBefore(old, dev + 1, k.log)
      <4> SUFFICES ASSUME NEW d \in 1 .. Len(old.devices), d < dev + 1
                   PROVE  ~DeviceTakes(old.devices[d].fields, k.log)
        BY DEF NoneBefore
      <4>1. d = dev \/ d < dev BY <1>1
      <4> QED BY <1>4, <2>3, <3>1, <4>1 DEF NoneBefore
    <3>3. Consistent(size, old) BY <1>1, <1>4, <1>6, <2>3, <3>2 DEF Consistent
    <3>4. RestSame(size, old, config) BY <1>1, <1>4, <1>6, <2>3 DEF RestSame
    <3> QED BY <3>3, <3>4
  <2>4. Watched(size, config) BY <1>6 DEF Watched
  <2> QED BY <1>6, <2>1, <2>2, <2>3, <2>4 DEF StaysExplained, after, size, passed, more, f, fields
<1> QED BY <1>1, <1>8, <1>10, <1>11 DEF after, size, passed, more, f, fields

(* One word has changed, or there is a further device, out of use.         *)
SameBut(old, new, w) ==
  /\ Len(new.devices) = Len(old.devices)
  /\ \A f \in Range(ChannelFields) : w # <<0, f>> => new.fields[f] = old.fields[f]
  /\ \A d \in 1 .. Len(old.devices) : \A f \in Range(DeviceFields) :
       w # <<d, f>> => new.devices[d].fields[f] = old.devices[d].fields[f]
  /\ w[1] # 0 => new.fields = old.fields
  /\ \A d \in 1 .. Len(old.devices) : d # w[1] => new.devices[d].fields = old.devices[d].fields
Grown(old, new) ==
  /\ Len(new.devices) = Len(old.devices) + 1 /\ new.fields = old.fields
  /\ \A d \in 1 .. Len(old.devices) : new.devices[d].fields = old.devices[d].fields
SameOutputs(old, new) ==
  \A d \in 1 .. Len(old.devices) : Writes(new.devices[d]) = Writes(old.devices[d])
Changed(old, new) ==
  /\ (\E w : IsWordOf(w, old) /\ SameBut(old, new, w)) \/ Grown(old, new)
  /\ SameOutputs(old, new)

LEMMA WithOutputs ==
  ASSUME NEW old, Sane(old), NEW w, IsWordOf(w, old), NEW v \in Vals
  PROVE  SameOutputs(old, With(old, w, v))
<1> DEFINE new == With(old, w, v)
           n == Len(old.devices)
<1>0. old \in Configs /\ n \in Nat /\ old.devices \in Seq(Devices(Vals)) BY DEF Sane, Configs
<1>1. CASE w[1] = 0
  <2>1. new.devices = old.devices BY <1>0, <1>1 DEF With, Configs
  <2> QED BY <2>1 DEF SameOutputs
<1>2. CASE w[1] # 0
  <2>1. w[1] \in 1 .. n BY <1>2 DEF IsWordOf, IsChannelWord, IsDeviceWord
  <2> DEFINE device == old.devices[w[1]]
             stored == [device EXCEPT !.fields[w[2]] = v]
             devs == [old.devices EXCEPT ![w[1]] = stored]
  <2>2. new = [old EXCEPT !.devices = devs] BY <1>2 DEF With
  <2>3. device \in Devices(Vals) BY <1>0, <2>1
  <2>4. stored.out_type = device.out_type
    <3> HIDE DEF device
    <3> QED BY <2>3 DEF Devices
  <2> HIDE DEF new, stored
  <2>5. new.devices = devs
    <3> HIDE DEF devs
    <3> QED BY <1>0, <2>2 DEF Configs
  <2>6. ASSUME NEW d \in 1 .. n PROVE Writes(new.devices[d]) = Writes(old.devices[d])
    <3>1. CASE d = w[1]
      <4>1. new.devices[d] = stored BY <1>0, <2>1, <2>5, <3>1
      <4> QED BY <2>4, <3>1, <4>1 DEF Writes
    <3>2. CASE d # w[1]
      <4>1. new.devices[d] = old.devices[d] BY <1>0, <2>5, <3>2
      <4> QED BY <4>1
    <3> QED BY <3>1, <3>2
  <2> QED BY <2>6 DEF SameOutputs, new
<1> QED BY <1>1, <1>2

LEMMA WithChanges ==
  ASSUME NEW old, Sane(old), NEW w, IsWordOf(w, old), NEW v \in Vals
  PROVE  Changed(old, With(old, w, v))
<1> DEFINE new == With(old, w, v)
<1>1. /\ Sane(new) /\ Len(new.devices) = Len(old.devices)
      /\ \A u : IsWordOf(u, old) /\ u # w => Word(new, u) = Word(old, u)
  BY WithIs
<1> HIDE DEF new
<1>2. old \in Configs /\ new \in Configs BY <1>1 DEF Sane
<1>3. ASSUME NEW f \in Range(ChannelFields), w # <<0, f>> PROVE new.fields[f] = old.fields[f]
  <2> DEFINE u == <<0, f>>
  <2>1. IsWordOf(u, old) BY DEF IsWordOf, IsChannelWord
  <2>2. u[1] = 0 /\ u[2] = f /\ u # w BY <1>3
  <2> HIDE DEF u
  <2>3. Word(new, u) = Word(old, u) BY <1>1, <2>1, <2>2
  <2> QED BY <2>2, <2>3 DEF Word
<1>4. ASSUME NEW d \in 1 .. Len(old.devices), NEW f \in Range(DeviceFields), w # <<d, f>>
      PROVE  new.devices[d].fields[f] = old.devices[d].fields[f]
  <2> DEFINE u == <<d, f>>
  <2>1. IsWordOf(u, old) BY DEF IsWordOf, IsDeviceWord
  <2>2. u[1] = d /\ u[1] # 0 /\ u[2] = f /\ u # w BY <1>2, <1>4, FieldsOfConfig
  <2> HIDE DEF u
  <2>3. Word(new, u) = Word(old, u) BY <1>1, <2>1, <2>2
  <2> QED BY <2>2, <2>3 DEF Word
<1>5. ASSUME w[1] # 0 PROVE new.fields = old.fields
  <2>1. \A f \in Range(ChannelFields) : w # <<0, f>> BY <1>5
  <2>2. /\ new.fields \in [Range(ChannelFields) -> Vals] /\ old.fields \in [Range(ChannelFields) -> Vals]
    BY <1>2, FieldsOfConfig
  <2> QED BY <1>3, <2>1, <2>2
<1>6. ASSUME NEW d \in 1 .. Len(old.devices), d # w[1]
      PROVE  new.devices[d].fields = old.devices[d].fields
  <2>1. \A f \in Range(DeviceFields) : w # <<d, f>> BY <1>6
  <2>2. /\ new.devices[d].fields \in [Range(DeviceFields) -> Vals]
        /\ old.devices[d].fields \in [Range(DeviceFields) -> Vals]
    BY <1>1, <1>2, FieldsOfConfig
  <2> QED BY <1>4, <2>1, <2>2
<1>7. SameBut(old, new, w) BY <1>1, <1>3, <1>4, <1>5, <1>6 DEF SameBut
<1>8. SameOutputs(old, new) BY WithOutputs DEF new
<1> QED BY <1>7, <1>8 DEF Changed, new

LEMMA CopiedChanges ==
  ASSUME NEW old, Sane(old), NEW source \in ChannelSet(Vals), DevicesNumbered(source),
         NEW w, Copyable(old, source, w), w[1] <= Len(source.devices)
  PROVE  Changed(old, Copied(old, source, w))
<1>1. CASE IsWordOf(w, old)
  <2>1. Copied(old, source, w) = With(old, w, Word(source, w)) BY <1>1, FieldsNotNew DEF Copied
  <2>2. Word(source, w) \in Vals BY <1>1, SourceWord
  <2> QED BY <1>1, <2>1, <2>2, WithChanges
<1>2. CASE IsRoomWord(w, Len(source.devices)) /\ w[1] = Len(old.devices) + 1
  <2> DEFINE new == Copied(old, source, w)
  <2>1. /\ Len(new.devices) = w[1] /\ new.fields = old.fields
        /\ \A d \in 1 .. Len(old.devices) : new.devices[d] = old.devices[d]
    BY <1>2, RoomIs
  <2> HIDE DEF new
  <2>2. Grown(old, new) /\ SameOutputs(old, new) BY <1>2, <2>1 DEF Grown, SameOutputs
  <2> QED BY <2>2 DEF Changed, new
<1> QED BY <1>1, <1>2 DEF Copyable

(* After one change a call agrees with what is there now, or will not see  *)
(* the change.                                                             *)
LEMMA ChangeExplained ==
  ASSUME NEW k \in Calls, NEW old \in Configs, NEW new \in Configs, Changed(old, new),
         Placed(k, old), Consistent(k, old)
  PROVE  Consistent(k, new) \/ RestSame(k, old, new)
<1>0. k.dev \in Nat /\ Len(old.devices) \in Nat /\ k.pc \in Places BY FieldsOfConfig DEF Calls
<1>1. CASE k.pc \in {"passed", "blocked"} BY <1>1 DEF RestSame
<1>2. CASE Grown(old, new) /\ k.pc \notin {"passed", "blocked"}
  <2>1. CASE k.pc = "channel" BY <1>2, <2>1 DEF Grown, Consistent
  <2>2. CASE k.pc \in {"size", "device"}
    <3>1. /\ Passes(old.fields, k.log) /\ NoneBefore(old, k.dev, k.log)
          /\ k.dev <= Len(old.devices) + 1
      BY <2>2 DEF Consistent
    <3>2. NoneBefore(new, k.dev, k.log)
      <4> SUFFICES ASSUME NEW d \in 1 .. Len(new.devices), d < k.dev
                   PROVE  ~DeviceTakes(new.devices[d].fields, k.log)
        BY DEF NoneBefore
      <4>1. d \in 1 .. Len(old.devices) BY <1>0, <1>2, <3>1 DEF Grown
      <4> QED BY <1>2, <3>1, <4>1 DEF Grown, NoneBefore
    <3>3. ASSUME k.pc = "device"
          PROVE  k.dev <= Len(old.devices) /\ Agrees(k.read, new.devices[k.dev].fields)
      <4>1. /\ k.dev <= Len(old.devices) /\ k.dev >= 1 /\ Agrees(k.read, old.devices[k.dev].fields)
        BY <3>3 DEF Consistent, Placed
      <4> QED BY <1>0, <1>2, <4>1 DEF Grown
    <3> QED BY <1>0, <1>2, <2>2, <3>1, <3>2, <3>3 DEF Grown, Consistent
  <2> QED BY <1>0, <1>2, <2>1, <2>2 DEF Places
<1>3. ASSUME NEW w, IsWordOf(w, old), SameBut(old, new, w), k.pc \notin {"passed", "blocked"}
      PROVE  Consistent(k, new) \/ RestSame(k, old, new)
  <2>0. /\ w = <<w[1], w[2]>> /\ w[1] \in 0 .. Len(old.devices) /\ w[1] \in Nat
        /\ Len(new.devices) = Len(old.devices)
    BY <1>0, <1>3 DEF IsWordOf, IsChannelWord, IsDeviceWord, SameBut
  <2>1. CASE k.pc = "channel"
    <3>1. DOMAIN k.read \subseteq Range(ChannelFields) /\ k.dev = 0
      <4>1. k.dev = 0 /\ ReadUpTo(k.read, ChannelFields, k.next) BY <2>1 DEF Placed
      <4>2. \A i \in 1 .. k.next - 1 : i \in 1 .. Len(ChannelFields) BY <4>1, FieldsAre DEF ReadUpTo
      <4> QED BY <4>1, <4>2, RangesAre DEF ReadUpTo
    <3>2. CASE w[1] = 0 /\ w[2] \in DOMAIN k.read
      <4>1. \A f \in Range(ChannelFields) : f \notin DOMAIN k.read => w # <<0, f>> BY <3>2
      <4>2. \A d \in 1 .. Len(old.devices) : d # w[1] BY <1>0, <3>2
      <4> QED BY <1>3, <2>0, <2>1, <4>1, <4>2 DEF SameBut, RestSame
    <3>3. CASE ~(w[1] = 0 /\ w[2] \in DOMAIN k.read)
      <4>1. \A f \in DOMAIN k.read : w # <<0, f>> BY <3>3
      <4>2. Agrees(k.read, old.fields) BY <2>1 DEF Consistent
      <4>3. Agrees(k.read, new.fields) BY <1>3, <3>1, <4>1, <4>2 DEF SameBut, Agrees
      <4> QED BY <2>1, <4>3 DEF Consistent
    <3> QED BY <3>2, <3>3
  <2>2. ASSUME k.pc \in {"size", "device"}, w[1] >= k.dev
        PROVE  /\ Passes(new.fields, k.log) /\ NoneBefore(new, k.dev, k.log)
               /\ k.dev <= Len(new.devices) + 1
    <3>1. /\ Passes(old.fields, k.log) /\ NoneBefore(old, k.dev, k.log)
          /\ k.dev <= Len(old.devices) + 1 /\ k.dev >= 1
      BY <2>2 DEF Consistent, Placed
    <3>2. new.fields = old.fields BY <1>0, <1>3, <2>0, <2>2, <3>1 DEF SameBut
    <3>3. NoneBefore(new, k.dev, k.log)
      <4> SUFFICES ASSUME NEW d \in 1 .. Len(old.devices), d < k.dev
                   PROVE  ~DeviceTakes(new.devices[d].fields, k.log)
        BY <2>0 DEF NoneBefore
      <4>1. d # w[1] BY <1>0, <2>0, <2>2
      <4> QED BY <1>3, <3>1, <4>1 DEF SameBut, NoneBefore
    <3> QED BY <2>0, <3>1, <3>2, <3>3
  <2>3. CASE k.pc = "size"
    <3>1. CASE w[1] < k.dev
      <4>1. \A d \in 1 .. Len(old.devices) : d > k.dev \/ d = k.dev => d # w[1] BY <1>0, <2>0, <3>1
      <4> QED BY <1>3, <2>0, <2>3, <4>1 DEF SameBut, RestSame
    <3>2. CASE ~(w[1] < k.dev)
      <4>1. w[1] >= k.dev BY <1>0, <2>0, <3>2
      <4> QED BY <2>2, <2>3, <4>1 DEF Consistent
    <3> QED BY <3>1, <3>2
  <2>4. CASE k.pc = "device"
    <3>0. /\ k.dev >= 1 /\ k.dev <= Len(old.devices) /\ k.dev \in 1 .. Len(old.devices)
          /\ Agrees(k.read, old.devices[k.dev].fields)
      BY <1>0, <2>4 DEF Consistent, Placed
    <3>1. DOMAIN k.read \subseteq Range(DeviceFields)
      <4>1. ReadUpTo(k.read, DeviceFields, k.next) BY <2>4 DEF Placed
      <4>2. \A i \in 1 .. k.next - 1 : i \in 1 .. Len(DeviceFields) BY <4>1, FieldsAre DEF ReadUpTo
      <4> QED BY <4>1, <4>2, RangesAre DEF ReadUpTo
    <3>2. CASE w[1] < k.dev \/ (w[1] = k.dev /\ w[2] \in DOMAIN k.read)
      <4>1. \A d \in 1 .. Len(old.devices) : d > k.dev => d # w[1] BY <1>0, <2>0, <3>2
      <4>2. \A f \in Range(DeviceFields) : f \notin DOMAIN k.read => w # <<k.dev, f>> BY <1>0, <2>0, <3>2
      <4> QED BY <1>3, <2>0, <2>4, <3>0, <4>1, <4>2 DEF SameBut, RestSame
    <3>3. CASE w[1] > k.dev \/ (w[1] = k.dev /\ w[2] \notin DOMAIN k.read)
      <4>1. w[1] >= k.dev BY <1>0, <2>0, <3>3
      <4>2. \A f \in DOMAIN k.read : w # <<k.dev, f>> BY <1>0, <2>0, <3>3
      <4>3. Agrees(k.read, new.devices[k.dev].fields)
        BY <1>3, <3>0, <3>1, <4>2 DEF SameBut, Agrees
      <4> QED BY <2>0, <2>2, <2>4, <3>0, <4>1, <4>3 DEF Consistent
    <3>4. w[1] < k.dev \/ w[1] = k.dev \/ w[1] > k.dev BY <1>0, <2>0
    <3> QED BY <3>2, <3>3, <3>4
  <2> QED BY <1>0, <1>3, <2>1, <2>3, <2>4 DEF Places
<1> QED BY <1>1, <1>2, <1>3 DEF Changed

-----------------------------------------------------------------------------
(* The steps.                                                              *)
LEMMA CallOf ==
  ASSUME TypeInv, CallInv, NEW p \in Producers, call[p] # NoCall
  PROVE  /\ call[p] \in Calls /\ call[p].pc # "idle" /\ call[p].log \in Logs
         /\ call[p].log.chan \in Channels /\ conf[call[p].log.chan] \in Configs
<1>1. call[p] \in Calls BY DEF CallInv
<1>2. call[p].pc \in Places /\ call[p].log \in Logs BY <1>1 DEF Calls
<1>3. call[p].pc # "idle" BY <1>2 DEF Places
<1>4. call[p].log.chan \in Channels BY <1>2, CallerAssumption
<1> QED BY <1>1, <1>2, <1>3, <1>4 DEF TypeInv

LEMMA NoCallIs == NoCall.pc = "idle" /\ NoCall \notin Calls
<1>1. NoCall.pc = "idle" BY DEF NoCall
<1>2. \A k \in Calls : k.pc # "idle" BY DEF Calls, Places
<1> QED BY <1>1, <1>2

LEMMA SameCalls ==
  ASSUME CallInv, QueueInv, UNCHANGED <<conf, call, queue>>
  PROVE  CallInv' /\ QueueInv'
BY DEF CallInv, QueueInv

(* What is known of a call whose slot or marks change.                     *)
LEMMA SameCall ==
  ASSUME NEW k, NEW next, NEW config,
         next.pc = k.pc, next.log = k.log, next.dev = k.dev, next.next = k.next, next.read = k.read,
         next.before = k.before
  PROVE  /\ Placed(k, config) => Placed(next, config)
         /\ Consistent(k, config) => Consistent(next, config)
         /\ \A new : RestSame(k, config, new) => RestSame(next, config, new)
         /\ next.changes = k.changes /\ Explained(k, config) => Explained(next, config)
         /\ next.stale = k.stale /\ Watched(k, config) => Watched(next, config)
<1>1. Placed(k, config) => Placed(next, config) BY DEF Placed
<1>2. \A old : Consistent(k, old) => Consistent(next, old) BY DEF Consistent
<1>3. \A old, new : RestSame(k, old, new) => RestSame(next, old, new) BY DEF RestSame
<1>4. next.changes = k.changes /\ Explained(k, config) => Explained(next, config)
  <2> SUFFICES ASSUME next.changes = k.changes, Explained(k, config) PROVE Explained(next, config)
    OBVIOUS
  <2>1. ASSUME k.changes = 1
        PROVE  \E old \in Configs :
                 /\ next.before = AcceptsIn(old, next.log)
                 /\ Consistent(next, config) \/ (Consistent(next, old) /\ RestSame(next, old, config))
    <3>1. PICK old \in Configs :
            /\ k.before = AcceptsIn(old, k.log)
            /\ Consistent(k, config) \/ (Consistent(k, old) /\ RestSame(k, old, config))
      BY <2>1 DEF Explained
    <3> QED BY <1>2, <1>3, <3>1
  <2> QED BY <1>2, <2>1 DEF Explained
<1>5. next.stale = k.stale /\ Watched(k, config) => Watched(next, config) BY DEF Watched
<1> QED BY <1>1, <1>2, <1>3, <1>4, <1>5

(* One producer's call becomes next, under the same configuration.         *)
LEMMA OneCall ==
  ASSUME TypeInv, CallInv, QueueInv, NEW p \in Producers, NEW next \in Calls,
         Placed(next, conf[next.log.chan]), Explained(next, conf[next.log.chan]),
         Watched(next, conf[next.log.chan]),
         call' = [call EXCEPT ![p] = next], UNCHANGED <<conf, queue>>
  PROVE  CallInv' /\ QueueInv'
<1>1. call' \in [Producers -> {NoCall} \cup Calls] BY DEF CallInv
<1>2. ASSUME NEW q \in Producers, call'[q] # NoCall
      PROVE  /\ Placed(call'[q], conf'[call'[q].log.chan]) /\ Explained(call'[q], conf'[call'[q].log.chan])
             /\ Watched(call'[q], conf'[call'[q].log.chan])
  <2>1. CASE q = p
    <3>1. call'[q] = next BY <2>1 DEF CallInv
    <3> QED BY <3>1
  <2>2. CASE q # p
    <3>1. call'[q] = call[q] BY <2>2 DEF CallInv
    <3> QED BY <1>2, <3>1 DEF CallInv
  <2> QED BY <2>1, <2>2
<1>3. CallInv' BY <1>1, <1>2 DEF CallInv
<1>4. QueueInv' BY DEF QueueInv
<1> QED BY <1>3, <1>4

(* A call goes on.                                                         *)
LEMMA NextCall ==
  ASSUME TypeInv, CallInv, QueueInv, NEW p \in Producers, call[p] # NoCall, NEW next,
         StaysExplained(call[p], next, conf[call[p].log.chan]),
         call' = [call EXCEPT ![p] = next], UNCHANGED <<conf, queue>>
  PROVE  CallInv' /\ QueueInv'
<1> DEFINE k == call[p]
           config == conf[k.log.chan]
<1>1. k \in Calls /\ k.log.chan \in Channels /\ config \in Configs BY CallOf
<1>2. Explained(k, config) /\ Watched(k, config) BY DEF CallInv
<1>3. /\ next \in Calls /\ Placed(next, config)
      /\ next.log = k.log /\ next.before = k.before /\ next.changes = k.changes
      /\ \A old \in Configs : Consistent(k, old) /\ RestSame(k, old, config) =>
           Consistent(next, old) /\ RestSame(next, old, config)
      /\ Watched(next, config)
  BY <1>2 DEF StaysExplained
<1> HIDE DEF k, config
<1>4. RestSame(k, config, config) BY DEF RestSame
<1>5. ASSUME Consistent(k, config) PROVE Consistent(next, config) BY <1>1, <1>3, <1>4, <1>5
<1>6. Explained(next, config)
  <2>1. ASSUME k.changes = 1
        PROVE  \E old \in Configs :
                 /\ next.before = AcceptsIn(old, next.log)
                 /\ Consistent(next, config) \/ (Consistent(next, old) /\ RestSame(next, old, config))
    <3>1. PICK old \in Configs :
            /\ k.before = AcceptsIn(old, k.log)
            /\ Consistent(k, config) \/ (Consistent(k, old) /\ RestSame(k, old, config))
      BY <1>2, <2>1 DEF Explained
    <3> QED BY <1>3, <1>5, <3>1
  <2> QED BY <1>2, <1>3, <1>5, <2>1 DEF Explained
<1> QED BY <1>3, <1>6, OneCall DEF k, config

LEMMA BeginCall ==
  ASSUME TypeInv, CallInv, QueueInv, NEW p \in Producers, BeginLog(p)
  PROVE  CallInv' /\ QueueInv'
<1>1. PICK log \in Logs :
        call' = [call EXCEPT ![p] = [pc |-> "channel", log |-> log, slot |-> log, dev |-> 0, next |-> 1,
                                     read |-> <<>>, before |-> Accepts(log.chan, log), changes |-> 0,
                                     stale |-> FALSE]]
  BY DEF BeginLog
<1>2. UNCHANGED <<conf, queue>> BY DEF BeginLog
<1> DEFINE config == conf[log.chan]
           new == [pc |-> "channel", log |-> log, slot |-> log, dev |-> 0, next |-> 1,
                   read |-> <<>>, before |-> Accepts(log.chan, log), changes |-> 0, stale |-> FALSE]
<1>3. log.chan \in Channels /\ config \in Configs BY CallerAssumption DEF TypeInv
<1>4. Accepts(log.chan, log) = AcceptsIn(config, log) BY <1>3, AcceptsIs
<1>5. Accepts(log.chan, log) \in BOOLEAN BY DEF Accepts
<1>6. new \in Calls BY <1>5, NothingRead DEF Calls, Places
<1>7. /\ new.pc = "channel" /\ new.log = log /\ new.dev = 0 /\ new.next = 1 /\ new.read = <<>>
      /\ new.before = AcceptsIn(config, log) /\ new.changes = 0
  BY <1>4
<1> HIDE DEF new, config
<1>8. Placed(new, config)
  <2>1. ReadUpTo(<<>>, ChannelFields, 1) BY FieldsAre, NothingRead DEF ReadUpTo
  <2> QED BY <1>7, <2>1 DEF Placed
<1>9. Explained(new, config)
  <2>1. Agrees(<<>>, config.fields) BY NothingRead DEF Agrees
  <2>2. Consistent(new, config) BY <1>7, <2>1 DEF Consistent
  <2> QED BY <1>7, <2>2 DEF Explained
<1>10. call' = [call EXCEPT ![p] = new] BY <1>1 DEF new
<1>11. Watched(new, config) BY <1>7 DEF Watched
<1> QED BY <1>2, <1>6, <1>7, <1>8, <1>9, <1>10, <1>11, OneCall DEF config

(* The category in the slot is none of what is known of the call.          *)
LEMMA CategoryCall ==
  ASSUME TypeInv, CallInv, QueueInv, NEW p \in Producers, SetCategory(p)
  PROVE  CallInv' /\ QueueInv'
<1> DEFINE k == call[p]
           config == conf[k.log.chan]
<1>1. PICK category \in Categories : call' = [call EXCEPT ![p].slot.CATEGORY = category]
  BY DEF SetCategory
<1>2. k.pc = "passed" /\ UNCHANGED <<conf, queue>> BY DEF SetCategory
<1>3. k # NoCall BY <1>2, NoCallIs
<1>4. k \in Calls /\ Placed(k, config) /\ Explained(k, config) /\ Watched(k, config)
  BY <1>3, CallOf DEF CallInv
<1> DEFINE slot == [k.slot EXCEPT !.CATEGORY = category]
           next == [k EXCEPT !.slot = slot]
<1>5. k.slot \in Logs
  <2> HIDE DEF k
  <2> QED BY <1>4 DEF Calls
<1>6. slot \in Logs BY <1>5, CallerAssumption
<1>7. call' = [call EXCEPT ![p] = next] BY <1>1
<1> HIDE DEF slot, k, config
<1>8. /\ next \in Calls /\ next.pc = k.pc /\ next.log = k.log /\ next.dev = k.dev /\ next.next = k.next
      /\ next.read = k.read /\ next.before = k.before /\ next.changes = k.changes /\ next.stale = k.stale
  BY <1>4, <1>6 DEF Calls
<1> HIDE DEF next
<1>9. Placed(next, config) /\ Explained(next, config) /\ Watched(next, config) BY <1>4, <1>8, SameCall
<1> QED BY <1>2, <1>7, <1>8, <1>9, OneCall DEF config

LEMMA EndCall ==
  ASSUME TypeInv, CallInv, QueueInv, NEW p \in Producers, Return(p)
  PROVE  CallInv' /\ QueueInv'
<1> DEFINE k == call[p]
           c == k.log.chan
           entry == Pushed(k)
<1>1. /\ k.pc \in {"passed", "blocked"} /\ call' = [call EXCEPT ![p] = NoCall] /\ conf' = conf
      /\ queue' = IF k.pc = "blocked" THEN queue ELSE [queue EXCEPT ![c] = Append(@, entry)]
  BY DEF Return
<1>2. k # NoCall BY <1>1, NoCallIs
<1>3. k \in Calls /\ k.log \in Logs /\ c \in Channels /\ conf[c] \in Configs BY <1>2, CallOf
<1>4. Watched(k, conf[c]) BY <1>2 DEF CallInv
<1>5. CallInv'
  <2>1. call' \in [Producers -> {NoCall} \cup Calls] BY <1>1 DEF CallInv
  <2>2. ASSUME NEW q \in Producers, call'[q] # NoCall
        PROVE  /\ Placed(call'[q], conf'[call'[q].log.chan]) /\ Explained(call'[q], conf'[call'[q].log.chan])
               /\ Watched(call'[q], conf'[call'[q].log.chan])
    <3>1. call'[q] = call[q] BY <1>1, <2>2 DEF CallInv
    <3> QED BY <1>1, <2>2, <3>1 DEF CallInv
  <2> QED BY <2>1, <2>2 DEF CallInv
<1>6. CASE k.pc = "blocked"
  <2>1. queue' = queue BY <1>1, <1>6
  <2>2. QueueInv' BY <1>1, <2>1 DEF QueueInv
  <2> QED BY <1>5, <2>2
<1>7. CASE k.pc = "passed"
  <2>1. /\ entry \in Entries /\ entry.asked = k.log /\ entry.by = k.dev /\ entry.stale = k.stale
        /\ entry.writes = Writes(conf[c].devices[k.dev])
    <3>1. k.slot \in Logs /\ k.dev \in Nat /\ k.stale \in BOOLEAN
      <4> HIDE DEF k
      <4> QED BY <1>3 DEF Calls
    <3>2. Writes(conf[c].devices[k.dev]) \in BOOLEAN BY DEF Writes
    <3> HIDE DEF k
    <3> QED BY <1>3, <3>1, <3>2 DEF Pushed, Entries, c
  <2>2. Owed(entry, conf[c]) BY <1>4, <1>7, <2>1 DEF Watched, Owed
  <2> HIDE DEF entry, k
  <2>3. queue' = [queue EXCEPT ![c] = Append(queue[c], entry)] BY <1>1, <1>7
  <2>4. queue \in [Channels -> Seq(Entries)] BY DEF QueueInv
  <2>5. queue' \in [Channels -> Seq(Entries)]
    <3>1. Append(queue[c], entry) \in Seq(Entries) BY <1>3, <2>1, <2>4 DEF k
    <3> QED BY <2>3, <2>4, <3>1
  <2>6. ASSUME NEW d \in Channels, NEW i \in 1 .. Len(queue'[d]) PROVE Owed(queue'[d][i], conf[d])
    <3>1. CASE d = c
      <4>1. queue'[d] = Append(queue[c], entry) /\ queue[c] \in Seq(Entries)
        BY <1>3, <2>3, <2>4, <3>1
      <4>2. CASE i \in 1 .. Len(queue[c])
        <5>1. queue'[d][i] = queue[c][i] BY <4>1, <4>2
        <5> QED BY <1>3, <3>1, <4>2, <5>1 DEF QueueInv
      <4>3. CASE i \notin 1 .. Len(queue[c])
        <5>1. queue'[d][i] = entry BY <4>1, <4>3
        <5> QED BY <2>2, <3>1, <5>1
      <4> QED BY <4>2, <4>3
    <3>2. CASE d # c
      <4>1. queue'[d] = queue[d] BY <2>3, <2>4, <3>2
      <4> QED BY <4>1 DEF QueueInv
    <3> QED BY <3>1, <3>2
  <2>7. QueueInv' BY <1>1, <2>5, <2>6 DEF QueueInv
  <2> QED BY <1>5, <2>7
<1> QED BY <1>1, <1>5, <1>6, <1>7

LEMMA ProducerCalls ==
  ASSUME TypeInv, CallInv, QueueInv, NEW p \in Producers, Producer(p)
  PROVE  CallInv' /\ QueueInv'
<1> DEFINE k == call[p]
           c == k.log.chan
<1>1. CASE BeginLog(p) BY <1>1, BeginCall
<1>2. CASE Return(p) BY <1>2, EndCall
<1>8. CASE SetCategory(p) BY <1>8, CategoryCall
<1>3. ASSUME k.pc # "idle"
      PROVE  k # NoCall /\ k \in Calls /\ conf[c] \in Configs /\ Placed(k, conf[c])
  <2>1. k # NoCall BY <1>3, NoCallIs
  <2> QED BY <2>1, CallOf DEF CallInv
<1>4. ASSUME NEW f, NEW fields PROVE Reading(p, f, fields) = [k EXCEPT !.read = More(k.read, f, fields), !.next = k.next + 1]
  BY DEF Reading, More
<1>5. CASE ReadChannel(p)
  <2> DEFINE f == ChannelFields[k.next]
             after == [k EXCEPT !.read = More(k.read, f, conf[c].fields), !.next = k.next + 1]
             next == IF after.next <= Len(ChannelFields) THEN after
                     ELSE IF Passes(after.read, after.log)
                     THEN [after EXCEPT !.pc = "size", !.dev = 1, !.next = 1, !.read = <<>>]
                     ELSE [after EXCEPT !.pc = "blocked", !.read = <<>>]
  <2>1. k.pc = "channel" /\ UNCHANGED <<conf, queue>> BY <1>5 DEF ReadChannel
  <2>2. call' = [call EXCEPT ![p] = next]
    <3>1. Reading(p, f, conf[c].fields) = after BY <1>4
    <3> HIDE DEF after
    <3> QED BY <1>5, <3>1 DEF ReadChannel
  <2>3. StaysExplained(k, next, conf[c]) BY <1>3, <2>1, ChannelRead
  <2> HIDE DEF next
  <2> QED BY <1>3, <2>1, <2>2, <2>3, NextCall
<1>6. CASE ReadSize(p)
  <2> DEFINE next == [k EXCEPT !.pc = IF k.dev <= Len(conf[c].devices) THEN "device" ELSE "blocked", !.stale = FALSE]
  <2>1. k.pc = "size" /\ UNCHANGED <<conf, queue>> BY <1>6 DEF ReadSize
  <2>2. call' = [call EXCEPT ![p] = next]
    <3>1. call' = [call EXCEPT ![p].pc = IF k.dev <= Len(conf[c].devices) THEN "device" ELSE "blocked",
                               ![p].stale = FALSE]
      BY <1>6 DEF ReadSize
    <3> QED BY <3>1
  <2>3. StaysExplained(k, next, conf[c]) BY <1>3, <2>1, SizeRead
  <2> HIDE DEF next
  <2> QED BY <1>3, <2>1, <2>2, <2>3, NextCall
<1>7. CASE ReadDevice(p)
  <2> DEFINE f == DeviceFields[k.next]
             after == [k EXCEPT !.read = More(k.read, f, conf[c].devices[k.dev].fields), !.next = k.next + 1]
             next == IF after.next <= Len(DeviceFields) THEN after
                     ELSE IF DeviceWants(after.read, after.log)
                     THEN [after EXCEPT !.pc = "passed", !.read = <<>>]
                     ELSE [after EXCEPT !.pc = "size", !.dev = after.dev + 1, !.next = 1, !.read = <<>>]
  <2>1. k.pc = "device" /\ UNCHANGED <<conf, queue>> BY <1>7 DEF ReadDevice
  <2>2. call' = [call EXCEPT ![p] = next]
    <3>1. Reading(p, f, conf[c].devices[k.dev].fields) = after BY <1>4
    <3> HIDE DEF after
    <3> QED BY <1>7, <3>1 DEF ReadDevice
  <2>3. StaysExplained(k, next, conf[c]) BY <1>3, <2>1, DeviceRead
  <2> HIDE DEF next
  <2> QED BY <1>3, <2>1, <2>2, <2>3, NextCall
<1> QED BY <1>1, <1>2, <1>5, <1>6, <1>7, <1>8 DEF Producer

(* The configuration of channel c changes by a word or a device.           *)
LEMMA DeviceUntouched ==
  ASSUME NEW c, NEW new \in Configs, conf[c] \in Configs, Changed(conf[c], new), NEW d \in Nat,
         d \in 1 .. Len(conf[c].devices), ~DeviceChanged(c, new, d)
  PROVE  /\ d \in 1 .. Len(new.devices) /\ new.devices[d].fields = conf[c].devices[d].fields
         /\ Writes(new.devices[d]) = Writes(conf[c].devices[d])
<1>1. /\ Len(conf[c].devices) \in Nat /\ DOMAIN conf[c].devices = 1 .. Len(conf[c].devices)
      /\ Len(new.devices) \in Nat /\ DOMAIN new.devices = 1 .. Len(new.devices)
  BY DEF Configs
<1>2. Len(new.devices) >= Len(conf[c].devices) BY <1>1 DEF Changed, SameBut, Grown
<1>3. d \in 1 .. Len(new.devices) BY <1>1, <1>2
<1>4. new.devices[d].fields = conf[c].devices[d].fields BY <1>1, <1>3 DEF DeviceChanged
<1> QED BY <1>3, <1>4 DEF Changed, SameOutputs

LEMMA ReconfigureCalls ==
  ASSUME TypeInv, CallInv, QueueInv, NEW c \in Channels, NEW new \in Configs, Changed(conf[c], new),
         Reconfigure(c, new)
  PROVE  CallInv' /\ QueueInv'
<1> DEFINE Meets(k) == k.pc # "idle" /\ k.log.chan = c
<1>1. /\ conf' = [conf EXCEPT ![c] = new]
      /\ call' = [p \in Producers |-> IF Meets(call[p]) THEN Counted(call[p], c, new) ELSE call[p]]
      /\ queue' = [queue EXCEPT ![c] = Marked(c, new)]
  BY DEF Reconfigure
<1>2. conf[c] \in Configs /\ conf'[c] = new /\ \A d \in Channels : d # c => conf'[d] = conf[d]
  BY <1>1 DEF TypeInv
<1>3. ASSUME NEW k \in Calls
      PROVE  LET j == Counted(k, c, new)
             IN  /\ j \in Calls /\ j.pc = k.pc /\ j.log = k.log /\ j.dev = k.dev
                 /\ j.next = k.next /\ j.read = k.read /\ j.before = k.before
                 /\ j.changes = IF new # conf[c] /\ k.changes < 2 THEN k.changes + 1 ELSE k.changes
                 /\ ~j.stale => ~k.stale /\ ~DeviceChanged(c, new, k.dev)
  <2> DEFINE n == IF new # conf[c] /\ k.changes < 2 THEN k.changes + 1 ELSE k.changes
             stale == k.stale \/ DeviceChanged(c, new, k.dev)
             j == Counted(k, c, new)
  <2>1. k.changes \in 0 .. 2 BY DEF Calls
  <2>2. n \in 0 .. 2 BY <2>1
  <2>3. stale \in BOOLEAN OBVIOUS
  <2>4. j = [k EXCEPT !.changes = n, !.stale = stale] BY DEF Counted
  <2>5. ~stale => ~k.stale /\ ~DeviceChanged(c, new, k.dev) OBVIOUS
  <2> HIDE DEF j, n, stale
  <2>6. j \in Calls BY <2>2, <2>3, <2>4 DEF Calls
  <2>7. /\ j.pc = k.pc /\ j.log = k.log /\ j.dev = k.dev /\ j.next = k.next /\ j.read = k.read
        /\ j.before = k.before /\ j.changes = n /\ j.stale = stale
    BY <2>4 DEF Calls
  <2>8. ~j.stale => ~k.stale /\ ~DeviceChanged(c, new, k.dev) BY <2>5, <2>7
  <2> QED BY <2>6, <2>7, <2>8 DEF j, n
<1>4. ASSUME NEW p \in Producers, call[p] # NoCall
      PROVE  /\ call'[p] \in Calls
             /\ Placed(call'[p], conf'[call'[p].log.chan]) /\ Explained(call'[p], conf'[call'[p].log.chan])
             /\ Watched(call'[p], conf'[call'[p].log.chan])
  <2> DEFINE k == call[p]
             d == k.log.chan
  <2>1. k \in Calls /\ k.pc # "idle" /\ d \in Channels /\ conf[d] \in Configs BY <1>4, CallOf
  <2>2. Placed(k, conf[d]) /\ Explained(k, conf[d]) /\ Watched(k, conf[d]) BY <1>4 DEF CallInv
  <2>3. call'[p] = IF Meets(k) THEN Counted(k, c, new) ELSE k BY <1>1
  <2> HIDE DEF k
  <2>4. k.dev \in Nat /\ k.changes \in 0 .. 2 BY <2>1 DEF Calls
  <2>5. CASE ~Meets(k)
    <3>1. call'[p] = k /\ conf'[d] = conf[d] BY <1>2, <2>1, <2>3, <2>5
    <3> QED BY <2>1, <2>2, <3>1
  <2>6. CASE Meets(k)
    <3> DEFINE j == Counted(k, c, new)
    <3>1. call'[p] = j /\ d = c /\ conf'[d] = new BY <1>2, <2>3, <2>6
    <3>2. /\ j \in Calls /\ j.pc = k.pc /\ j.log = k.log /\ j.dev = k.dev
          /\ j.next = k.next /\ j.read = k.read /\ j.before = k.before
          /\ j.changes = IF new # conf[c] /\ k.changes < 2 THEN k.changes + 1 ELSE k.changes
          /\ ~j.stale => ~k.stale /\ ~DeviceChanged(c, new, k.dev)
      BY <1>3, <2>1
    <3> HIDE DEF j
    <3>3. Placed(j, new)
      <4>1. Len(conf[c].devices) \in Nat /\ Len(new.devices) \in Nat BY <1>2, FieldsOfConfig
      <4>2. Len(new.devices) >= Len(conf[c].devices) BY <4>1 DEF Changed, SameBut, Grown
      <4>3. Placed(k, new) BY <2>2, <2>4, <3>1, <4>1, <4>2 DEF Placed
      <4> QED BY <3>2, <4>3, SameCall
    <3>4. Explained(j, new)
      <4>1. CASE new = conf[c]
        <5>1. Explained(k, new) /\ j.changes = k.changes BY <2>2, <3>1, <3>2, <4>1
        <5> QED BY <3>2, <5>1, SameCall
      <4>2. CASE new # conf[c]
        <5>1. j.changes # 0 /\ (j.changes = 1 => k.changes = 0) BY <2>4, <3>2, <4>2
        <5>2. ASSUME k.changes = 0
              PROVE  /\ j.before = AcceptsIn(conf[c], j.log)
                     /\ Consistent(j, new) \/ (Consistent(j, conf[c]) /\ RestSame(j, conf[c], new))
          <6>1. Consistent(k, conf[c]) /\ k.before = AcceptsIn(conf[c], k.log)
            BY <2>2, <3>1, <5>2 DEF Explained
          <6>2. Consistent(k, new) \/ RestSame(k, conf[c], new)
            BY <1>2, <2>1, <2>2, <3>1, <6>1, ChangeExplained
          <6> QED BY <3>2, <6>1, <6>2, SameCall
        <5> QED BY <1>2, <5>1, <5>2 DEF Explained
      <4> QED BY <4>1, <4>2
    <3>5. Watched(j, new)
      <4> SUFFICES ASSUME ~j.stale
                   PROVE  /\ k.pc = "device" => Agrees(k.read, new.devices[k.dev].fields)
                          /\ k.pc = "passed" => /\ k.dev \in 1 .. Len(new.devices)
                                                /\ DeviceTakes(new.devices[k.dev].fields, k.log)
        BY <3>2 DEF Watched
      <4>1. ~k.stale /\ ~DeviceChanged(c, new, k.dev) BY <3>2
      <4>2. k.dev \in 1 .. Len(conf[c].devices) =>
              k.dev \in 1 .. Len(new.devices) /\ new.devices[k.dev].fields = conf[c].devices[k.dev].fields
        BY <1>2, <2>4, <4>1, DeviceUntouched
      <4>3. ASSUME k.pc = "device" PROVE k.dev \in 1 .. Len(conf[c].devices)
        <5>1. Len(conf[c].devices) \in Nat BY <1>2, FieldsOfConfig
        <5> QED BY <2>2, <2>4, <3>1, <4>3, <5>1 DEF Placed
      <4> QED BY <2>2, <3>1, <4>1, <4>2, <4>3 DEF Watched
    <3> QED BY <3>1, <3>2, <3>3, <3>4, <3>5
  <2> QED BY <2>5, <2>6
<1>5. CallInv'
  <2>1. ASSUME NEW p \in Producers, call[p] = NoCall PROVE call'[p] = NoCall
    BY <1>1, <2>1, NoCallIs
  <2>2. ASSUME NEW p \in Producers PROVE call'[p] \in {NoCall} \cup Calls BY <1>4, <2>1
  <2>3. call' = [p \in Producers |-> call'[p]] BY <1>1
  <2>4. call' \in [Producers -> {NoCall} \cup Calls] BY <2>2, <2>3
  <2>5. ASSUME NEW p \in Producers, call'[p] # NoCall
        PROVE  /\ Placed(call'[p], conf'[call'[p].log.chan]) /\ Explained(call'[p], conf'[call'[p].log.chan])
               /\ Watched(call'[p], conf'[call'[p].log.chan])
    BY <1>4, <2>1, <2>5
  <2> QED BY <2>4, <2>5 DEF CallInv
<1>6. QueueInv'
  <2> DEFINE marked == Marked(c, new)
  <2>1. queue \in [Channels -> Seq(Entries)] BY DEF QueueInv
  <2>2. queue' = [queue EXCEPT ![c] = marked] BY <1>1
  <2>3. queue[c] \in Seq(Entries) /\ DOMAIN queue[c] = 1 .. Len(queue[c]) /\ Len(queue[c]) \in Nat BY <2>1
  <2>4. ASSUME NEW i \in 1 .. Len(queue[c])
        PROVE  marked[i] \in Entries /\ Owed(marked[i], new)
    <3> DEFINE entry == queue[c][i]
               stale == entry.stale \/ DeviceChanged(c, new, entry.by)
               after == [entry EXCEPT !.stale = stale]
    <3>1. entry \in Entries /\ Owed(entry, conf[c]) BY <2>3 DEF QueueInv
    <3>2. marked[i] = after BY <2>3 DEF Marked
    <3>3. stale \in BOOLEAN /\ (~stale => ~entry.stale /\ ~DeviceChanged(c, new, entry.by)) OBVIOUS
    <3> HIDE DEF entry, stale
    <3>4. /\ after \in Entries /\ after.asked = entry.asked /\ after.by = entry.by
          /\ after.stale = stale /\ after.writes = entry.writes /\ entry.by \in Nat
      BY <3>1, <3>3 DEF Entries
    <3> HIDE DEF after, marked
    <3>5. Owed(after, new)
      <4> SUFFICES ASSUME ~after.stale
                   PROVE  /\ entry.by \in 1 .. Len(new.devices)
                          /\ DeviceTakes(new.devices[entry.by].fields, entry.asked)
                          /\ entry.writes = Writes(new.devices[entry.by])
        BY <3>4 DEF Owed
      <4>1. ~entry.stale /\ ~DeviceChanged(c, new, entry.by) BY <3>3, <3>4
      <4>2. /\ entry.by \in 1 .. Len(conf[c].devices)
            /\ DeviceTakes(conf[c].devices[entry.by].fields, entry.asked)
            /\ entry.writes = Writes(conf[c].devices[entry.by])
        BY <3>1, <4>1 DEF Owed
      <4>3. /\ entry.by \in 1 .. Len(new.devices)
            /\ new.devices[entry.by].fields = conf[c].devices[entry.by].fields
            /\ Writes(new.devices[entry.by]) = Writes(conf[c].devices[entry.by])
        BY <1>2, <3>4, <4>1, <4>2, DeviceUntouched
      <4> QED BY <4>2, <4>3
    <3> QED BY <3>2, <3>4, <3>5
  <2>5. marked \in Seq(Entries) /\ Len(marked) = Len(queue[c])
    <3>1. marked \in [1 .. Len(queue[c]) -> Entries] BY <2>3, <2>4 DEF Marked
    <3> HIDE DEF marked
    <3> QED BY <2>3, <3>1
  <2> HIDE DEF marked
  <2>6. queue' \in [Channels -> Seq(Entries)] BY <2>1, <2>2, <2>5
  <2>7. ASSUME NEW d \in Channels, NEW i \in 1 .. Len(queue'[d]) PROVE Owed(queue'[d][i], conf'[d])
    <3>1. CASE d = c
      <4>1. queue'[d] = marked BY <2>1, <2>2, <3>1
      <4>2. i \in 1 .. Len(queue[c]) BY <2>5, <4>1
      <4> QED BY <1>2, <2>4, <3>1, <4>1, <4>2
    <3>2. CASE d # c
      <4>1. queue'[d] = queue[d] /\ conf'[d] = conf[d] BY <1>2, <2>1, <2>2, <3>2
      <4> QED BY <4>1 DEF QueueInv
    <3> QED BY <3>1, <3>2
  <2> QED BY <2>6, <2>7 DEF QueueInv
<1> QED BY <1>5, <1>6

LEMMA DispatchCalls ==
  ASSUME CallInv, QueueInv, NEW c \in Channels, DispatchLog(c)
  PROVE  CallInv' /\ QueueInv'
<1>1. queue[c] # <<>> /\ queue' = [queue EXCEPT ![c] = Tail(queue[c])] /\ UNCHANGED <<conf, call>>
  BY DEF DispatchLog
<1>2. CallInv' BY <1>1 DEF CallInv
<1>3. queue \in [Channels -> Seq(Entries)] BY DEF QueueInv
<1>4. Tail(queue[c]) \in Seq(Entries) BY <1>1, <1>3
<1>5. queue' \in [Channels -> Seq(Entries)] BY <1>1, <1>3, <1>4
<1>6. ASSUME NEW d \in Channels, NEW i \in 1 .. Len(queue'[d]) PROVE Owed(queue'[d][i], conf[d])
  <2>1. CASE d = c
    <3>1. queue'[d] = Tail(queue[c]) /\ queue[c] \in Seq(Entries) BY <1>1, <1>3, <2>1
    <3>2. Len(queue[c]) \in Nat /\ queue[c] # <<>> BY <1>1, <3>1
    <3>3. Len(Tail(queue[c])) = Len(queue[c]) - 1 /\ i \in 1 .. Len(queue[c]) - 1 BY <3>1, <3>2
    <3>4. i + 1 \in 1 .. Len(queue[c]) BY <3>2, <3>3
    <3>5. Tail(queue[c])[i] = queue[c][i + 1] BY <3>1, <3>2, <3>3
    <3> QED BY <2>1, <3>1, <3>4, <3>5 DEF QueueInv
  <2>2. CASE d # c
    <3>1. queue'[d] = queue[d] BY <1>1, <1>3, <2>2
    <3> QED BY <1>1, <3>1 DEF QueueInv
  <2> QED BY <2>1, <2>2
<1>7. QueueInv' BY <1>1, <1>5, <1>6 DEF QueueInv
<1> QED BY <1>2, <1>7

LEMMA CopyCalls ==
  ASSUME UpdateInv, CallInv, QueueInv, NEW c \in Channels, CopyWord(c)
  PROVE  CallInv' /\ QueueInv'
<1>0. TypeInv /\ ConfInv /\ CopyInv /\ SourceInv BY DEF UpdateInv
<1> DEFINE source == Source(c)
           words == Words(source)
<1>1. PICK n \in at[c] .. Len(words) :
        /\ ~Holds(conf[c], source, words[n])
        /\ \A j \in at[c] .. n - 1 : Holds(conf[c], source, words[j])
        /\ Reconfigure(c, Copied(conf[c], source, words[n]))
  BY DEF CopyWord
<1>2. pc[c] = "copy" BY DEF CopyWord
<1>3. at[c] \in Nat /\ at[c] >= 1 /\ CopiedTo(conf[c], source, touched, c, at[c])
  <2>1. Reached(c) = at[c] BY <1>2 DEF Reached
  <2> QED BY <1>0, <2>1 DEF TypeInv, CopyInv
<1>4. Sane(conf[c]) BY <1>0 DEF TypeInv, ConfInv, Sane
<1>5. source \in ChannelSet(Vals) /\ DevicesNumbered(source) /\ Len(source.devices) \in 0 .. MAX_DEVICE_SIZE
  BY <1>0, SourceIs
<1> DEFINE new == Copied(conf[c], source, words[n])
<1> HIDE DEF source
<1>6. Copyable(conf[c], source, words[n]) /\ Sane(new)
  BY <1>1, <1>3, <1>4, <1>5, CopyGoesOn
<1>7. words[n][1] <= Len(source.devices)
  <2>1. Len(words) \in Nat BY <1>5, SourceWords
  <2>2. n \in 1 .. Len(words) BY <1>1, <1>3, <2>1
  <2>3. words[n][1] \in 0 .. Len(source.devices) BY <1>5, <2>2, SourceWords
  <2> QED BY <1>5, <2>3
<1>8. Changed(conf[c], new) BY <1>4, <1>5, <1>6, <1>7, CopiedChanges
<1>9. Reconfigure(c, new) BY <1>1
<1> HIDE DEF new
<1> QED BY <1>0, <1>6, <1>8, <1>9, ReconfigureCalls DEF Sane

LEMMA SetterCalls ==
  ASSUME UpdateInv, CallInv, QueueInv, Setter
  PROVE  CallInv' /\ QueueInv'
<1>0. TypeInv BY DEF UpdateInv
<1>1. CASE UNCHANGED <<conf, touched, call, queue>> BY <1>1, SameCalls
<1>2. CASE \E c \in Channels, v \in Vals : \E w : IsWordOf(w, conf[c]) /\ Store(c, w, v)
  <2>1. PICK c \in Channels, v \in Vals : \E w : IsWordOf(w, conf[c]) /\ Store(c, w, v) BY <1>2
  <2>2. PICK w : IsWordOf(w, conf[c]) /\ Store(c, w, v) BY <2>1
  <2>3. Sane(conf[c]) BY <1>0 DEF TypeInv, UpdateInv, ConfInv, Sane
  <2>4. With(conf[c], w, v) \in Configs BY <2>2, <2>3, WithIs DEF Sane
  <2>5. Changed(conf[c], With(conf[c], w, v)) BY <2>2, <2>3, WithChanges
  <2>6. Reconfigure(c, With(conf[c], w, v)) BY <2>2 DEF Store
  <2> QED BY <1>0, <2>4, <2>5, <2>6, ReconfigureCalls
<1> QED BY <1>0, <1>1, <1>2, SetterStores

LEMMA InitCalls == Init => CallInv /\ QueueInv
<1> SUFFICES ASSUME Init PROVE CallInv /\ QueueInv OBVIOUS
<1>1. call = [p \in Producers |-> NoCall] /\ queue = [c \in Channels |-> <<>>] BY DEF Init
<1>2. CallInv
  <2>1. call \in [Producers -> {NoCall} \cup Calls] BY <1>1
  <2> QED BY <1>1, <2>1 DEF CallInv
<1>3. QueueInv
  <2>1. queue \in [Channels -> Seq(Entries)] BY <1>1
  <2>2. \A c \in Channels : 1 .. Len(queue[c]) = {} BY <1>1
  <2> QED BY <2>1, <2>2 DEF QueueInv
<1> QED BY <1>2, <1>3

LEMMA NextCalls ==
  UpdateInv /\ CallInv /\ QueueInv /\ [Next]_vars => CallInv' /\ QueueInv'
<1> SUFFICES ASSUME UpdateInv, CallInv, QueueInv, [Next]_vars PROVE CallInv' /\ QueueInv' OBVIOUS
<1>0. TypeInv BY DEF UpdateInv
<1>1. CASE UNCHANGED <<conf, call, queue>> BY <1>1, SameCalls
<1>2. CASE UNCHANGED vars BY <1>1, <1>2 DEF vars
<1>3. CASE Tick \/ BeginSave \/ WriteFile BY <1>1, <1>3 DEF Tick, BeginSave, WriteFile
<1>4. ASSUME NEW p \in Producers, Producer(p) PROVE CallInv' /\ QueueInv' BY <1>0, <1>4, ProducerCalls
<1>5. ASSUME NEW c \in Channels, Thread(c) \/ Sleep(c) PROVE CallInv' /\ QueueInv'
  <2>1. CASE DispatchLog(c) BY <2>1, DispatchCalls
  <2>2. CASE CopyWord(c) BY <2>2, CopyCalls
  <2>3. CASE Drained(c) \/ LookAtFile(c) \/ LoadConfig(c) \/ EndUpdate(c) \/ Sleep(c)
    BY <1>1, <2>3 DEF Drained, LookAtFile, LoadConfig, Load, EndUpdate, Sleep, vars
  <2> QED BY <1>5, <2>1, <2>2, <2>3 DEF Thread
<1>6. CASE Setter BY <1>6, SetterCalls
<1> QED BY <1>2, <1>3, <1>4, <1>5, <1>6 DEF Next

(* A call of BlockInput that no change, or one, has met goes on as in the  *)
(* configuration before it or in the one after it; the device that let a   *)
(* log in takes it, in the call and in the ring, as long as none of its    *)
(* words changes: the tests of a device in BlockInput                      *)
(* (fn_channel.cpp:197-229) and DispatchLog (38-69) are copies.            *)
THEOREM CallInvariant == Spec => [](CallInv /\ QueueInv)
<1> DEFINE Inv == CallInv /\ QueueInv
<1>1. Init => Inv BY InitCalls
<1>2. UpdateInv /\ Inv /\ [Next]_vars => Inv' BY NextCalls
<1>3. Spec => []UpdateInv BY UpdateInvariant
<1> HIDE DEF Inv
<1>4. Spec => []Inv BY <1>1, <1>2, <1>3, PTL DEF Spec
<1> QED BY <1>4 DEF Inv

(* The device that let a log in takes it from the ring, and writes it if   *)
(* it had an output, whatever becomes of the rest of the configuration;    *)
(* but for a log whose device has a word changed, or whose category was    *)
(* replaced after BlockInput's test (fn_stream.h:159).                     *)
THEOREM LetInReachesItsDevice == Spec => []LetInIsTaken
<1>1. TypeInv /\ QueueInv => LetInIsTaken
  <2> SUFFICES ASSUME TypeInv, QueueInv, NEW c \in Channels, NEW i \in DOMAIN queue[c],
                      ~queue[c][i].stale, queue[c][i].log = queue[c][i].asked
               PROVE  LET entry == queue[c][i]
                      IN  /\ entry.by \in Takers(c, entry.log)
                          /\ entry.by \in Writers(c, entry.log) <=> entry.writes
    BY DEF LetInIsTaken
  <2> DEFINE entry == queue[c][i]
  <2>1. queue[c] \in Seq(Entries) BY DEF QueueInv
  <2>2. i \in 1 .. Len(queue[c]) BY <2>1
  <2>3. entry \in Entries /\ Owed(entry, conf[c]) BY <2>1, <2>2 DEF QueueInv
  <2>4. DOMAIN conf[c].devices = 1 .. Len(conf[c].devices) BY DEF TypeInv, Configs
  <2>5. /\ entry.by \in DOMAIN conf[c].devices
        /\ DeviceTakes(conf[c].devices[entry.by].fields, entry.log)
        /\ entry.writes = Writes(conf[c].devices[entry.by])
    BY <2>3, <2>4 DEF Owed
  <2>6. entry.by \in Takers(c, entry.log) BY <2>5 DEF Takers
  <2>7. entry.by \in Writers(c, entry.log) <=> entry.writes BY <2>5, <2>6 DEF Writers
  <2> QED BY <2>6, <2>7
<1>2. UpdateInv => TypeInv BY DEF UpdateInv
<1> QED BY <1>1, <1>2, UpdateInvariant, CallInvariant, PTL

(* As long as no more than one word changes during a call of BlockInput,   *)
(* or a device is added, its answer is that of the configuration before or *)
(* after the change, though it reads word by word what others write so.    *)
THEOREM ChangeIsAtomic == Spec => []OneChangeIsAtomic
<1>1. TypeInv /\ CallInv => OneChangeIsAtomic
  <2> SUFFICES ASSUME TypeInv, CallInv, NEW p \in Producers,
                      call[p].pc \in {"passed", "blocked"}, call[p].changes <= 1
               PROVE  (call[p].pc = "passed") \in {call[p].before, Accepts(call[p].log.chan, call[p].log)}
    BY DEF OneChangeIsAtomic
  <2> DEFINE k == call[p]
             config == conf[k.log.chan]
  <2>1. k # NoCall BY NoCallIs
  <2>2. k \in Calls /\ config \in Configs BY <2>1, CallOf
  <2>3. Explained(k, config) BY <2>1 DEF CallInv
  <2>4. Accepts(k.log.chan, k.log) = AcceptsIn(config, k.log) BY <2>2, AcceptsIs
  <2> HIDE DEF k, config
  <2>5. ASSUME NEW old, Consistent(k, old) PROVE (k.pc = "passed") = AcceptsIn(old, k.log)
    <3>1. AcceptsIn(old, k.log) \in BOOLEAN BY DEF AcceptsIn
    <3>2. k.pc = "passed" \/ k.pc = "blocked" BY DEF k
    <3> QED BY <2>5, <3>1, <3>2 DEF Consistent
  <2>6. k.changes = 0 \/ k.changes = 1 BY <2>2 DEF Calls, k
  <2>7. CASE k.changes = 0 BY <2>3, <2>4, <2>5, <2>7 DEF Explained, k
  <2>8. CASE k.changes = 1
    <3>1. PICK old \in Configs :
            /\ k.before = AcceptsIn(old, k.log)
            /\ Consistent(k, config) \/ (Consistent(k, old) /\ RestSame(k, old, config))
      BY <2>3, <2>8 DEF Explained
    <3>2. (k.pc = "passed") = AcceptsIn(config, k.log) \/ (k.pc = "passed") = AcceptsIn(old, k.log)
      BY <2>5, <3>1
    <3> QED BY <2>4, <3>1, <3>2 DEF k
  <2> QED BY <2>6, <2>7, <2>8
<1>2. UpdateInv => TypeInv BY DEF UpdateInv
<1> QED BY <1>1, <1>2, UpdateInvariant, CallInvariant, PTL

(* The lexer never errs on the lines that are looked at, the lines of the  *)
(* files with a slip in them among them (fn_parse.cpp, Lex_Line).          *)
THEOREM EntriesAreFound == Spec => []LexerFindsEntries
<1>1. UpdateInv => LexerFindsEntries
  <2> SUFFICES ASSUME UpdateInv PROVE LexerFindsEntries OBVIOUS
  <2>1. file \in FileSet BY DEF UpdateInv, TypeInv
  <2>2. file.ver \in DOMAIN Texts BY <2>1 DEF FileSet
  <2> QED BY <2>2, NothingMisread DEF LexerFindsEntries
<1> QED BY <1>1, UpdateInvariant, PTL

(* Settings reach the item they are indented under, in the files that are  *)
(* looked at and in those with a line moved or left out (fn_parse.cpp,     *)
(* ParseLogger, ParseChannel, ParseDevice).                                *)
THEOREM SettingsReachTheirItem == Spec => []NestingFollowsIndent
<1>1. UpdateInv => NestingFollowsIndent
  <2> SUFFICES ASSUME UpdateInv PROVE NestingFollowsIndent OBVIOUS
  <2>1. file \in FileSet BY DEF UpdateInv, TypeInv
  <2>2. file.ver \in DOMAIN Texts BY <2>1 DEF FileSet
  <2> QED BY <2>2, NothingMisnested DEF NestingFollowsIndent
<1> QED BY <1>1, UpdateInvariant, PTL

(* What an update takes from a file that is being written is part of what  *)
(* the file will say, if the files give hot_update once at most: a file    *)
(* that gives it twice can be caught with the first one in force           *)
(* (fn_load.cpp, HotUpdateLogger, and fn_parse.cpp, ParseLogger).          *)
THEOREM HalfWrittenIsRight ==
  ASSUME \A v \in DOMAIN Texts : SaidOnce(Texts[v])
  PROVE  Spec => []HalfWrittenIsPartial
<1>1. UpdateInv => HalfWrittenIsPartial
  <2> SUFFICES ASSUME UpdateInv PROVE HalfWrittenIsPartial OBVIOUS
  <2>1. file \in FileSet BY DEF UpdateInv, TypeInv
  <2>2. file.ver \in DOMAIN Texts BY <2>1 DEF FileSet
  <2>3. SaidOnce(Texts[file.ver]) BY <2>2
  <2> QED BY <2>2, <2>3, BeginningsAreParts DEF HalfWrittenIsPartial
<1> QED BY <1>1, UpdateInvariant, PTL

=============================================================================
