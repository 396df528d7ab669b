---------------------------- MODULE LexerProofs ----------------------------
(***************************************************************************)
(* Proofs about Lex_Line, for lines of any length: it accepts exactly the  *)
(* empty lines and the entries of ConfigParserCheck, and finds the parts   *)
(* of an entry.                                                            *)
(***************************************************************************)
EXTENDS ConfigParserCheck, ConfigParserProofs, FiniteSetTheorems, SequenceTheorems

-----------------------------------------------------------------------------
(* Characters and the table *)

(* Any character; the provers do not know by themselves that "eol" is one. *)
Chars == STRING \cup {"eol"}

Classes == {"blank", "quote", "eol", "other", "hash", "dash", "colon", "word"}

LEMMA ClassIs ==
  \A ch : /\ Class(ch) \in Classes
          /\ Class(ch) = "blank" <=> ch = "blank"
          /\ Class(ch) = "quote" <=> ch = "quote"
          /\ Class(ch) = "eol" <=> ch = "eol"
          /\ Class(ch) = "other" <=> ch = "other"
          /\ Class(ch) = "hash" <=> ch = "#"
          /\ Class(ch) = "dash" <=> ch = "-"
          /\ Class(ch) = "colon" <=> ch = ":"
BY DEF Class, Classes

(* Only letters are taken for a key.                                       *)
LEMMA ReserveIs ==
  \A ch : /\ ParseReserve(ch) # "NULL" => Class(ch) = "word"
          /\ ParseReserve(ch) \in Range(Reserved) \cup {"NULL"}
BY DEF Class, ParseReserve, Reserved, Range

LEMMA FromNull ==
  /\ Follow["NULL"]["blank"] = "NULL" /\ Follow["NULL"]["quote"] = "NULL"
  /\ Follow["NULL"]["eol"] = "CLEAN" /\ Follow["NULL"]["hash"] = "CLEAN"
  /\ Follow["NULL"]["dash"] = "PRE_KEY" /\ Follow["NULL"]["colon"] = Illegal
  /\ Follow["NULL"]["word"] = "KEY" /\ Follow["NULL"]["other"] = Illegal
BY DEF Follow

LEMMA FromPreKey ==
  /\ Follow["PRE_KEY"]["blank"] = "PRE_KEY" /\ Follow["PRE_KEY"]["quote"] = "PRE_KEY"
  /\ Follow["PRE_KEY"]["eol"] = Open /\ Follow["PRE_KEY"]["hash"] = Open
  /\ Follow["PRE_KEY"]["dash"] = Illegal /\ Follow["PRE_KEY"]["colon"] = Illegal
  /\ Follow["PRE_KEY"]["word"] = "KEY" /\ Follow["PRE_KEY"]["other"] = Illegal
BY DEF Follow

LEMMA FromPreSep ==
  /\ Follow["PRE_SEP"]["blank"] = "PRE_SEP" /\ Follow["PRE_SEP"]["quote"] = "PRE_SEP"
  /\ Follow["PRE_SEP"]["eol"] = Open /\ Follow["PRE_SEP"]["hash"] = Open
  /\ Follow["PRE_SEP"]["dash"] = Illegal /\ Follow["PRE_SEP"]["colon"] = "PRE_VAL"
  /\ Follow["PRE_SEP"]["word"] = Illegal /\ Follow["PRE_SEP"]["other"] = Illegal
BY DEF Follow

LEMMA FromPreVal ==
  /\ Follow["PRE_VAL"]["blank"] = "PRE_VAL" /\ Follow["PRE_VAL"]["quote"] = "PRE_VAL"
  /\ Follow["PRE_VAL"]["eol"] = Open /\ Follow["PRE_VAL"]["hash"] = Open
  /\ Follow["PRE_VAL"]["dash"] = Illegal /\ Follow["PRE_VAL"]["colon"] = Illegal
  /\ Follow["PRE_VAL"]["word"] = "VAL" /\ Follow["PRE_VAL"]["other"] = Illegal
BY DEF Follow

LEMMA FromVal ==
  /\ Follow["VAL"]["blank"] = "VAL" /\ Follow["VAL"]["quote"] = "CLEAN"
  /\ Follow["VAL"]["eol"] = "CLEAN" /\ Follow["VAL"]["hash"] = "CLEAN"
  /\ Follow["VAL"]["dash"] = "VAL" /\ Follow["VAL"]["colon"] = "VAL"
  /\ Follow["VAL"]["word"] = "VAL" /\ Follow["VAL"]["other"] = Illegal
BY DEF Follow

-----------------------------------------------------------------------------
(* One character of the loop *)

Blocks == {"NULL", "PRE_KEY", "KEY", "PRE_SEP", "PRE_VAL", "VAL", "CLEAN"}
LexStates ==
  [ret : Errors \cup {"NONE"}, block : Blocks, blank : Nat, array : BOOLEAN,
   key : Range(Reserved) \cup {"NULL"}, val : Seq(Chars)]

(* The block that a character of this class leads to.                      *)
Leads(line, ch) == Follow[IF line.block = "KEY" THEN "PRE_SEP" ELSE line.block][Class(ch)]
Lexing(line) == line.ret = "NONE" /\ line.block # "CLEAN"

LEMMA LeadsIs ==
  ASSUME NEW line \in LexStates, line.block # "CLEAN", NEW ch
  PROVE  Leads(line, ch) \in Errors \/ Leads(line, ch) \in Blocks
<1>1. Class(ch) \in Classes BY ClassIs
<1>2. line.block \in Blocks \ {"CLEAN"} BY DEF LexStates
<1> QED BY <1>1, <1>2, FromNull, FromPreKey, FromPreSep, FromPreVal, FromVal
        DEF Leads, Classes, Blocks, Errors, Illegal, Open

LEMMA LexMove ==
  ASSUME NEW line \in LexStates, Lexing(line), ~(line.block = "KEY" /\ line.key = "NULL"),
         NEW ch \in Chars, Leads(line, ch) \notin Errors
  PROVE  LexChar(line, ch) =
           [ret |-> "NONE", block |-> Leads(line, ch),
            blank |-> IF Leads(line, ch) = "NULL" THEN line.blank + 1 ELSE line.blank,
            array |-> (line.array \/ Leads(line, ch) = "PRE_KEY"),
            key   |-> IF Leads(line, ch) = "KEY" THEN ParseReserve(ch) ELSE line.key,
            val   |-> IF Leads(line, ch) = "VAL" THEN Append(line.val, ch) ELSE line.val]
BY DEF LexChar, Leads, Lexing, LexStates

LEMMA LexRefuse ==
  ASSUME NEW line \in LexStates, Lexing(line), NEW ch,
         (line.block = "KEY" /\ line.key = "NULL") \/ Leads(line, ch) \in Errors
  PROVE  LexChar(line, ch) \in LexStates /\ LexChar(line, ch).ret # "NONE"
BY DEF LexChar, Leads, Lexing, LexStates, Errors, Illegal, Open

LEMMA LexRest ==
  ASSUME NEW line, ~Lexing(line), NEW ch
  PROVE  LexChar(line, ch) = line
BY DEF LexChar, Lexing

LEMMA LexType ==
  ASSUME NEW line \in LexStates, NEW ch \in Chars
  PROVE  LexChar(line, ch) \in LexStates
<1>1. CASE ~Lexing(line) BY <1>1, LexRest
<1>2. CASE Lexing(line) /\ ((line.block = "KEY" /\ line.key = "NULL") \/ Leads(line, ch) \in Errors)
  BY <1>2, LexRefuse
<1>3. CASE Lexing(line) /\ ~(line.block = "KEY" /\ line.key = "NULL") /\ Leads(line, ch) \notin Errors
  <2>1. Leads(line, ch) \in Blocks BY <1>3, LeadsIs DEF Lexing
  <2>2. ParseReserve(ch) \in Range(Reserved) \cup {"NULL"} BY ReserveIs
  <2>3. Append(line.val, ch) \in Seq(Chars) BY DEF LexStates
  <2> DEFINE b == Leads(line, ch)
             l == LexChar(line, ch)
  <2>4. l = [ret |-> "NONE", block |-> b,
             blank |-> IF b = "NULL" THEN line.blank + 1 ELSE line.blank,
             array |-> (line.array \/ b = "PRE_KEY"),
             key   |-> IF b = "KEY" THEN ParseReserve(ch) ELSE line.key,
             val   |-> IF b = "VAL" THEN Append(line.val, ch) ELSE line.val]
    BY <1>3, LexMove
  <2>5. b \in Blocks BY <2>1 DEF b
  <2> HIDE DEF b, l
  <2> DEFINE blank == IF b = "NULL" THEN line.blank + 1 ELSE line.blank
             array == line.array \/ b = "PRE_KEY"
             key == IF b = "KEY" THEN ParseReserve(ch) ELSE line.key
             val == IF b = "VAL" THEN Append(line.val, ch) ELSE line.val
  <2>6. blank \in Nat /\ array \in BOOLEAN /\ key \in Range(Reserved) \cup {"NULL"} /\ val \in Seq(Chars)
    <3>1. line.blank \in Nat /\ line.key \in Range(Reserved) \cup {"NULL"} /\ line.val \in Seq(Chars)
      BY DEF LexStates
    <3>2. array \in BOOLEAN
      <4>1. line.array \in BOOLEAN BY DEF LexStates
      <4>2. line.array = TRUE \/ line.array = FALSE BY <4>1
      <4> HIDE DEF b, l
      <4>3. CASE line.array = TRUE BY <4>3, Zenon
      <4>4. CASE line.array = FALSE BY <4>4, Zenon
      <4> QED BY <4>2, <4>3, <4>4
    <3>3. blank \in Nat BY <3>1
    <3>4. key \in Range(Reserved) \cup {"NULL"} BY <2>2, <3>1
    <3>5. val \in Seq(Chars) BY <2>3, <3>1
    <3> HIDE DEF blank, array, key, val
    <3> QED BY <3>2, <3>3, <3>4, <3>5
  <2>7. l \in LexStates
    <3>1. l = [ret |-> "NONE", block |-> b, blank |-> blank, array |-> array, key |-> key, val |-> val]
      BY <2>4
    <3> HIDE DEF blank, array, key, val
    <3> QED BY <2>5, <2>6, <3>1 DEF LexStates
  <2> QED BY <2>7 DEF l
<1> QED BY <1>1, <1>2, <1>3

-----------------------------------------------------------------------------
(* The loop: the states after each character of a sequence *)

LexFcn(u) ==
  CHOOSE g : g = [s \in SUBSET DOMAIN u |->
                    IF s = {} THEN NewLine ELSE LexChar(g[s \ {Max(s)}], u[Max(s)])]

LEMMA LexFolded == \A u : FoldLeft(LexChar, NewLine, u) = LexFcn(u)[DOMAIN u]
BY DEF FoldLeft, MapThenFoldSet, LexFcn

LEMMA LexRun ==
  ASSUME NEW u \in Seq(Chars)
  PROVE  \E f : /\ f[0] = NewLine
                /\ \A i \in 1 .. Len(u) : f[i] = LexChar(f[i - 1], u[i])
                /\ FoldLeft(LexChar, NewLine, u) = f[Len(u)]
<1> DEFINE n == Len(u)
           step == [x \in (1 .. n) \X LexStates |-> LexChar(x[2], u[x[1]])]
           g == LexFcn(u)
<1>0. n \in Nat /\ DOMAIN u = 1 .. n OBVIOUS
<1>1. \A i \in 1 .. n : \A v \in LexStates : LexChar(v, u[i]) \in LexStates
  <2>1. \A i \in 1 .. n : u[i] \in Chars OBVIOUS
  <2> QED BY <2>1, LexType
<1>2. NewLine \in LexStates
  <2>1. <<>> \in Seq(Chars) OBVIOUS
  <2> QED BY <2>1 DEF NewLine, LexStates, Blocks
<1> HIDE DEF n
<1>3. \A i \in 1 .. n : \A v \in LexStates : step[<<i, v>>] = LexChar(v, u[i]) OBVIOUS
<1> HIDE DEF step
<1>4. PICK h \in [SUBSET (1 .. n) -> LexStates] :
        \A s \in SUBSET (1 .. n) : h[s] = FoldStep(NewLine, step, h, s)
  <2>1. \A i \in 1 .. n : \A v \in LexStates : step[<<i, v>>] \in LexStates BY <1>1, <1>3
  <2> HIDE DEF g
  <2>2. FoldDefined(n, LexStates, NewLine, step) BY <1>0, <1>2, <2>1, FoldExists
  <2> QED BY <2>2 DEF FoldDefined
<1>5. \A s \in SUBSET (1 .. n) : s # {} => Max(s) \in 1 .. n /\ s \ {Max(s)} \in SUBSET (1 .. n)
  BY <1>0, MaxIn
<1>6. h = [s \in SUBSET DOMAIN u |-> IF s = {} THEN NewLine ELSE LexChar(h[s \ {Max(s)}], u[Max(s)])]
  <2>1. ASSUME NEW s \in SUBSET (1 .. n)
        PROVE  h[s] = IF s = {} THEN NewLine ELSE LexChar(h[s \ {Max(s)}], u[Max(s)])
    BY <1>3, <1>4, <1>5 DEF FoldStep
  <2> QED BY <1>0, <2>1
<1>7. g = [s \in SUBSET DOMAIN u |-> IF s = {} THEN NewLine ELSE LexChar(g[s \ {Max(s)}], u[Max(s)])]
  BY <1>6 DEF LexFcn
<1> HIDE DEF g
<1> DEFINE f == [i \in 0 .. n |-> g[1 .. i]]
<1>8. f[0] = NewLine
  <2>1. f[0] = g[1 .. 0] BY <1>0
  <2>2. 1 .. 0 = {} OBVIOUS
  <2>3. {} \in SUBSET DOMAIN u OBVIOUS
  <2>4. g[{}] = NewLine BY <1>7, <2>3
  <2> QED BY <2>1, <2>2, <2>4
<1>9. ASSUME NEW i \in 1 .. n PROVE f[i] = LexChar(f[i - 1], u[i])
  <2>1. i \in 0 .. n /\ i - 1 \in 0 .. n /\ i \in Nat BY <1>0
  <2>2. f[i] = g[1 .. i] /\ f[i - 1] = g[1 .. i - 1] BY <2>1
  <2>3. 1 .. i \in SUBSET DOMAIN u /\ 1 .. i # {}
    <3>1. i \in 1 .. i /\ 1 .. i \subseteq 1 .. n BY <1>0, <2>1
    <3> QED BY <1>0, <3>1
  <2>4. Max(1 .. i) = i
    <3>1. i \in 1 .. i /\ 1 .. i \in SUBSET (1 .. i) BY <2>1
    <3> QED BY <2>1, <3>1, MaxOf
  <2>5. (1 .. i) \ {i} = 1 .. i - 1 BY <2>1
  <2>6. g[1 .. i] = LexChar(g[(1 .. i) \ {Max(1 .. i)}], u[Max(1 .. i)]) BY <1>7, <2>3
  <2> QED BY <2>2, <2>4, <2>5, <2>6
<1>10. FoldLeft(LexChar, NewLine, u) = f[n]
  <2>1. FoldLeft(LexChar, NewLine, u) = g[DOMAIN u] BY LexFolded DEF g
  <2> QED BY <1>0, <2>1
<1> HIDE DEF f
<1> QED BY <1>8, <1>9, <1>10 DEF n

(* What holds at first and is kept by each step holds at the end.          *)
LEMMA Steps ==
  ASSUME NEW n \in Nat, NEW S, 0 \in S, \A i \in 1 .. n : i - 1 \in S => i \in S
  PROVE  \A i \in 0 .. n : i \in S
<1> DEFINE B == {i \in 0 .. n : i \notin S}
<1> SUFFICES ASSUME B # {} PROVE FALSE OBVIOUS
<1>1. PICK k \in B : \A j \in B : ~(j < k)
  <2>1. B \in SUBSET Nat OBVIOUS
  <2> HIDE DEF B
  <2> QED BY <2>1, SmallestNat
<1>2. k # 0 /\ k \in 0 .. n OBVIOUS
<1>3. k - 1 \in S BY <1>1, <1>2
<1> QED BY <1>2, <1>3

-----------------------------------------------------------------------------
(* What has been read when i characters of t are read *)

HasEntry(t) == \E k, c, v \in DOMAIN t : IsEntry(t, k, c, v)
Refused(t) == ~IsEmpty(t) /\ ~HasEntry(t)

(* A word is at k, behind spaces and at most one dash.                     *)
HeadAt(t, k) ==
  /\ k \in DOMAIN t /\ Class(t[k]) = "word"
  /\ \A i \in 1 .. k - 1 : t[i] \in Space \cup {"-"}
  /\ \A i, j \in 1 .. k - 1 : t[i] = "-" /\ t[j] = "-" => i = j
Dashed(t, k) == \E i \in 1 .. k - 1 : t[i] = "-"
Indent(t, k) == Cardinality({i \in 1 .. k - 1 : \A j \in 1 .. i : t[j] # "-"})

Gap(t, a, b) == \A i \in a + 1 .. b : t[i] \in Space
IsKey(t, k, line) ==
  /\ HeadAt(t, k) /\ line.key = ParseReserve(t[k])
  /\ (line.array <=> Dashed(t, k)) /\ line.blank = Indent(t, k)
IsSep(t, k, c) == c \in DOMAIN t /\ k < c /\ t[c] = ":" /\ Gap(t, k, c - 1) /\ ParseReserve(t[k]) # "NULL"
IsVal(t, c, v) == v \in DOMAIN t /\ c < v /\ Class(t[v]) = "word" /\ Gap(t, c, v - 1)

InValue == {"blank", "dash", "colon", "word"}

AtNull(t, i, line) ==
  Gap(t, 0, i) /\ line.blank = i /\ ~line.array /\ line.key = "NULL" /\ line.val = <<>>
AtPreKey(t, i, line) ==
  /\ line.array /\ line.key = "NULL" /\ line.val = <<>>
  /\ \E d \in 1 .. i : t[d] = "-" /\ Gap(t, 0, d - 1) /\ Gap(t, d, i) /\ line.blank = d - 1
AtKey(t, i, line) == IsKey(t, i, line) /\ line.val = <<>>
AtPreSep(t, i, line) ==
  line.val = <<>> /\ line.key # "NULL" /\ \E k \in 1 .. i : IsKey(t, k, line) /\ Gap(t, k, i)
AtPreVal(t, i, line) ==
  line.val = <<>> /\ \E k, c \in 1 .. i : IsKey(t, k, line) /\ IsSep(t, k, c) /\ Gap(t, c, i)
AtVal(t, i, line) ==
  \E k, c, v \in 1 .. i :
    /\ IsKey(t, k, line) /\ IsSep(t, k, c) /\ IsVal(t, c, v)
    /\ \A j \in v .. i : Class(t[j]) \in InValue
    /\ line.val = SubSeq(t, v, i)
Done(t, line) ==
  \/ IsEmpty(t) /\ line.key = "NULL"
  \/ \E k, c, v \in DOMAIN t :
       /\ IsEntry(t, k, c, v) /\ IsKey(t, k, line)
       /\ line.val # <<>> /\ IsPrefix(line.val, SubSeq(t, v, Len(t)))

ReadTo(t, i, line) ==
  /\ line \in LexStates
  /\ line.ret # "NONE" => Refused(t)
  /\ line.ret = "NONE" =>
       /\ line.block = "NULL" => AtNull(t, i, line)
       /\ line.block = "PRE_KEY" => AtPreKey(t, i, line)
       /\ line.block = "KEY" => AtKey(t, i, line)
       /\ line.block = "PRE_SEP" => AtPreSep(t, i, line)
       /\ line.block = "PRE_VAL" => AtPreVal(t, i, line)
       /\ line.block = "VAL" => AtVal(t, i, line)
       /\ line.block = "CLEAN" => Done(t, line)

-----------------------------------------------------------------------------
(* Entries have their parts at one place *)

LEMMA OneDash ==
  ASSUME NEW t, NEW k \in Nat
  PROVE  /\ IsFiniteSet({i \in 1 .. k - 1 : t[i] = "-"})
         /\ Cardinality({i \in 1 .. k - 1 : t[i] = "-"}) <= 1
              <=> \A i, j \in 1 .. k - 1 : t[i] = "-" /\ t[j] = "-" => i = j
<1> DEFINE D == {i \in 1 .. k - 1 : t[i] = "-"}
<1>1. IsFiniteSet(1 .. k - 1) BY FS_Interval
<1>2. D \subseteq 1 .. k - 1 OBVIOUS
<1>3. IsFiniteSet(D) BY <1>1, <1>2, FS_Subset
<1>4. \A i, j \in 1 .. k - 1 : t[i] = "-" /\ t[j] = "-" => i \in D /\ j \in D OBVIOUS
<1>5. \A i \in D : i \in 1 .. k - 1 /\ t[i] = "-" OBVIOUS
<1> HIDE DEF D
<1>6. ASSUME Cardinality(D) <= 1, NEW i \in D, NEW j \in D PROVE i = j
  <2> SUFFICES ASSUME i # j PROVE FALSE OBVIOUS
  <2>1. IsFiniteSet(D \ {i}) /\ Cardinality(D \ {i}) = Cardinality(D) - 1
    BY <1>3, FS_RemoveElement
  <2>2. Cardinality(D \ {i}) \in Nat /\ Cardinality(D) \in Nat BY <2>1, <1>3, FS_CardinalityType
  <2>3. Cardinality(D \ {i}) = 0 BY <1>6, <2>1, <2>2
  <2>4. D \ {i} = {} BY <2>1, <2>3, FS_EmptySet
  <2> QED BY <2>4
<1>7. ASSUME \A i, j \in D : i = j PROVE Cardinality(D) <= 1
  <2>1. CASE D = {} BY <2>1, FS_EmptySet
  <2>2. CASE D # {}
    <3>1. PICK i \in D : TRUE BY <2>2
    <3>2. D = {i} BY <1>7, <3>1
    <3>3. Cardinality({i}) = 1 BY FS_Singleton
    <3> QED BY <3>2, <3>3
  <2> QED BY <2>1, <2>2
<1>8. Cardinality(D) <= 1 <=> \A i, j \in 1 .. k - 1 : t[i] = "-" /\ t[j] = "-" => i = j
  <2>1. ASSUME Cardinality(D) <= 1, NEW i \in 1 .. k - 1, NEW j \in 1 .. k - 1, t[i] = "-", t[j] = "-"
        PROVE  i = j
    BY <1>4, <1>6, <2>1
  <2>2. ASSUME \A i, j \in 1 .. k - 1 : t[i] = "-" /\ t[j] = "-" => i = j
        PROVE  Cardinality(D) <= 1
    BY <1>5, <1>7, <2>2
  <2> QED BY <2>1, <2>2
<1> QED BY <1>3, <1>8 DEF D

LEMMA IndentIs ==
  ASSUME NEW t, NEW k \in Nat, k >= 1
  PROVE  /\ (\A i \in 1 .. k - 1 : t[i] # "-") => Indent(t, k) = k - 1
         /\ \A d \in 1 .. k - 1 : t[d] = "-" /\ (\A i \in 1 .. d - 1 : t[i] # "-") => Indent(t, k) = d - 1
<1> DEFINE S == {i \in 1 .. k - 1 : \A j \in 1 .. i : t[j] # "-"}
<1>1. ASSUME \A i \in 1 .. k - 1 : t[i] # "-" PROVE Cardinality(S) = k - 1
  <2>1. S = 1 .. k - 1 BY <1>1
  <2>2. Cardinality(1 .. k - 1) = IF 1 > k - 1 THEN 0 ELSE (k - 1) - 1 + 1 BY FS_Interval
  <2> HIDE DEF S
  <2> QED BY <2>1, <2>2
<1>2. ASSUME NEW d \in 1 .. k - 1, t[d] = "-", \A i \in 1 .. d - 1 : t[i] # "-"
      PROVE  Cardinality(S) = d - 1
  <2>1. S = 1 .. d - 1
    <3>1. ASSUME NEW i \in 1 .. d - 1 PROVE i \in S
      <4>1. \A j \in 1 .. i : j \in 1 .. d - 1 OBVIOUS
      <4> QED BY <1>2, <4>1
    <3>2. ASSUME NEW i \in S PROVE i \in 1 .. d - 1
      <4>1. i \in 1 .. k - 1 /\ ~(d \in 1 .. i) BY <1>2
      <4> QED BY <4>1
    <3> QED BY <3>1, <3>2
  <2>2. Cardinality(1 .. d - 1) = IF 1 > d - 1 THEN 0 ELSE (d - 1) - 1 + 1 BY FS_Interval
  <2> HIDE DEF S
  <2> QED BY <2>1, <2>2
<1> QED BY <1>1, <1>2 DEF Indent

LEMMA SpaceIs ==
  /\ \A ch : ch \in Space <=> Class(ch) \in {"blank", "quote"}
  /\ \A ch : ch \in Space \cup {"-"} => ParseReserve(ch) = "NULL" /\ Class(ch) # "word"
BY ClassIs, ReserveIs DEF Space

LEMMA EntryIs ==
  ASSUME NEW t \in Seq(Chars), NEW k \in DOMAIN t, NEW c \in DOMAIN t, NEW v \in DOMAIN t
  PROVE  IsEntry(t, k, c, v) <=>
           /\ HeadAt(t, k) /\ IsSep(t, k, c) /\ IsVal(t, c, v)
           /\ \A i \in v .. Len(t) : t[i] = "other" => \E j \in v .. i : t[j] \in {"quote", "#"}
<1>1. k \in Nat /\ c \in Nat /\ v \in Nat OBVIOUS
<1>2. Cardinality({i \in 1 .. k - 1 : t[i] = "-"}) <= 1
        <=> \A i, j \in 1 .. k - 1 : t[i] = "-" /\ t[j] = "-" => i = j
  BY <1>1, OneDash
<1>3. ParseReserve(t[k]) # "NULL" => Class(t[k]) = "word" BY ReserveIs
<1> QED BY <1>2, <1>3 DEF IsEntry, HeadAt, IsSep, IsVal, Gap

(* Only one place can be the key, the colon or the start of the value.     *)
LEMMA OneKey ==
  ASSUME NEW t \in Seq(Chars), NEW k, NEW l, HeadAt(t, k), HeadAt(t, l)
  PROVE  k = l
<1>1. k \in Nat /\ l \in Nat /\ k >= 1 /\ l >= 1 BY DEF HeadAt
<1>2. k < l => k \in 1 .. l - 1 BY <1>1
<1>3. l < k => l \in 1 .. k - 1 BY <1>1
<1> QED BY <1>1, <1>2, <1>3, SpaceIs DEF HeadAt

LEMMA OneSep ==
  ASSUME NEW t \in Seq(Chars), NEW k \in Nat, NEW c, NEW d, IsSep(t, k, c), IsSep(t, k, d)
  PROVE  c = d
<1>1. c \in Nat /\ d \in Nat /\ k < c /\ k < d BY DEF IsSep
<1>2. c < d => c \in k + 1 .. d - 1 BY <1>1
<1>3. d < c => d \in k + 1 .. c - 1 BY <1>1
<1> QED BY <1>1, <1>2, <1>3 DEF IsSep, Gap, Space

LEMMA OneVal ==
  ASSUME NEW t \in Seq(Chars), NEW c \in Nat, NEW v, NEW w, IsVal(t, c, v), IsVal(t, c, w)
  PROVE  v = w
<1>1. v \in Nat /\ w \in Nat /\ c < v /\ c < w BY DEF IsVal
<1>2. v < w => v \in c + 1 .. w - 1 BY <1>1
<1>3. w < v => w \in c + 1 .. v - 1 BY <1>1
<1> QED BY <1>1, <1>2, <1>3, SpaceIs DEF IsVal, Gap

(* A character that is neither space nor comment.                          *)
LEMMA NotEmpty ==
  ASSUME NEW t \in Seq(Chars), NEW d \in DOMAIN t, t[d] \notin Space,
         \A i \in 1 .. d : t[i] # "#"
  PROVE  ~IsEmpty(t)
BY DEF IsEmpty

LEMMA HeadNotEmpty ==
  ASSUME NEW t \in Seq(Chars), NEW k, HeadAt(t, k)
  PROVE  ~IsEmpty(t)
<1>1. k \in DOMAIN t /\ k \in Nat /\ Class(t[k]) = "word" BY DEF HeadAt
<1>2. t[k] \notin Space /\ t[k] # "#" BY <1>1, ClassIs, SpaceIs
<1>3. \A i \in 1 .. k - 1 : t[i] # "#" BY DEF HeadAt, Space
<1>4. \A i \in 1 .. k : t[i] # "#" BY <1>1, <1>2, <1>3
<1> QED BY <1>1, <1>2, <1>4, NotEmpty

(* The lines that are refused: nothing but space until p, where the key,   *)
(* the colon or the value would have to be.                                *)
LEMMA NoKey ==
  ASSUME NEW t \in Seq(Chars), NEW p \in 1 .. Len(t) + 1, NEW line, AtPreKey(t, p - 1, line),
         p \in DOMAIN t => t[p] \notin Space /\ Class(t[p]) # "word"
  PROVE  Refused(t)
<1>0. p \in Nat /\ p >= 1 OBVIOUS
<1>1. PICK d \in 1 .. p - 1 : t[d] = "-" /\ Gap(t, 0, d - 1) /\ Gap(t, d, p - 1) BY DEF AtPreKey
<1>2. \A i \in 1 .. p - 1 : t[i] \in Space \cup {"-"}
  <2> SUFFICES ASSUME NEW i \in 1 .. p - 1 PROVE t[i] \in Space \cup {"-"} OBVIOUS
  <2>1. i \in 0 + 1 .. d - 1 \/ i = d \/ i \in d + 1 .. p - 1 OBVIOUS
  <2> QED BY <1>1, <2>1 DEF Gap
<1>3. ~IsEmpty(t)
  <2>1. d \in DOMAIN t /\ t[d] \notin Space BY <1>1 DEF Space
  <2>2. \A i \in 1 .. d : t[i] # "#"
    <3>1. \A i \in 1 .. d : i \in 1 .. p - 1 OBVIOUS
    <3> QED BY <1>2, <3>1 DEF Space
  <2> QED BY <2>1, <2>2, NotEmpty
<1>4. ~HasEntry(t)
  <2> SUFFICES ASSUME NEW k \in DOMAIN t, HeadAt(t, k) PROVE FALSE BY EntryIs DEF HasEntry
  <2>1. k \in Nat /\ k >= 1 OBVIOUS
  <2>2. CASE k < p
    <3>1. k \in 1 .. p - 1 BY <1>0, <2>1, <2>2
    <3> QED BY <1>2, <3>1, SpaceIs DEF HeadAt
  <2>3. CASE k = p BY <2>3 DEF HeadAt
  <2>4. CASE k > p
    <3>1. p \in DOMAIN t /\ p \in 1 .. k - 1 BY <1>0, <2>1, <2>4
    <3>2. t[p] = "-" BY <3>1 DEF HeadAt
    <3>3. d \in 1 .. k - 1 /\ d # p BY <1>0, <2>1, <2>4
    <3> QED BY <1>1, <3>1, <3>2, <3>3 DEF HeadAt
  <2> QED BY <1>0, <2>1, <2>2, <2>3, <2>4
<1> QED BY <1>3, <1>4 DEF Refused

LEMMA NoSep ==
  ASSUME NEW t \in Seq(Chars), NEW p \in 1 .. Len(t) + 1, NEW k \in 1 .. p - 1,
         HeadAt(t, k), Gap(t, k, p - 1),
         p \in DOMAIN t => t[p] \notin Space /\ Class(t[p]) # "colon"
  PROVE  Refused(t)
<1>1. ~HasEntry(t)
  <2> SUFFICES ASSUME NEW l \in DOMAIN t, NEW c \in DOMAIN t, HeadAt(t, l), IsSep(t, l, c) PROVE FALSE
    BY EntryIs DEF HasEntry
  <2>1. l = k BY OneKey
  <2>2. c \in Nat /\ k < c /\ t[c] = ":" /\ Gap(t, k, c - 1) BY <2>1 DEF IsSep
  <2>3. CASE c < p
    <3>1. c \in k + 1 .. p - 1 BY <2>2, <2>3
    <3> QED BY <2>2, <3>1 DEF Gap, Space
  <2>4. CASE c = p BY <2>2, <2>4, ClassIs
  <2>5. CASE c > p
    <3>1. p \in DOMAIN t /\ p \in k + 1 .. c - 1 BY <2>2, <2>5
    <3> QED BY <2>2, <3>1 DEF Gap
  <2> QED BY <2>2, <2>3, <2>4, <2>5
<1> QED BY <1>1, HeadNotEmpty DEF Refused

LEMMA NoVal ==
  ASSUME NEW t \in Seq(Chars), NEW p \in 1 .. Len(t) + 1, NEW k \in 1 .. p - 1, NEW c \in 1 .. p - 1,
         HeadAt(t, k), IsSep(t, k, c), Gap(t, c, p - 1),
         p \in DOMAIN t => t[p] \notin Space /\ Class(t[p]) # "word"
  PROVE  Refused(t)
<1>1. ~HasEntry(t)
  <2> SUFFICES ASSUME NEW l \in DOMAIN t, NEW d \in DOMAIN t, NEW v \in DOMAIN t,
                      HeadAt(t, l), IsSep(t, l, d), IsVal(t, d, v)
               PROVE FALSE
    BY EntryIs DEF HasEntry
  <2>1. l = k BY OneKey
  <2>2. d = c BY <2>1, OneSep
  <2>3. v \in Nat /\ c < v /\ Class(t[v]) = "word" /\ Gap(t, c, v - 1) BY <2>2 DEF IsVal
  <2>4. CASE v < p
    <3>1. v \in c + 1 .. p - 1 BY <2>3, <2>4
    <3> QED BY <2>3, <3>1, SpaceIs DEF Gap
  <2>5. CASE v = p BY <2>3, <2>5
  <2>6. CASE v > p
    <3>1. p \in DOMAIN t /\ p \in c + 1 .. v - 1 BY <2>3, <2>6
    <3> QED BY <2>3, <3>1 DEF Gap
  <2> QED BY <2>3, <2>4, <2>5, <2>6
<1> QED BY <1>1, HeadNotEmpty DEF Refused

LEMMA SubSeqNext ==
  ASSUME NEW t \in Seq(Chars), NEW p \in DOMAIN t, NEW v \in 1 .. p
  PROVE  SubSeq(t, v, p) = Append(SubSeq(t, v, p - 1), t[p])
<1> DEFINE q == SubSeq(t, v, p - 1)
           r == SubSeq(t, v, p)
           s == Append(q, t[p])
<1>1. v \in Int /\ p \in Int /\ p - 1 \in Int /\ v <= p /\ v >= 1 OBVIOUS
<1>2. q \in Seq(Chars) /\ Len(q) = p - v /\ \A i \in 1 .. p - v : q[i] = t[v + i - 1]
  <2>1. \A i \in v .. p - 1 : t[i] \in Chars OBVIOUS
  <2>2. /\ q \in Seq(Chars) /\ Len(q) = IF v <= p - 1 THEN (p - 1) - v + 1 ELSE 0
        /\ \A i \in 1 .. (p - 1) - v + 1 : q[i] = t[v + i - 1]
    BY <1>1, <2>1, SubSeqProperties
  <2> HIDE DEF q
  <2> QED BY <1>1, <2>2
<1>3. r \in Seq(Chars) /\ Len(r) = p - v + 1 /\ \A i \in 1 .. p - v + 1 : r[i] = t[v + i - 1]
  <2>1. \A i \in v .. p : t[i] \in Chars OBVIOUS
  <2>2. /\ r \in Seq(Chars) /\ Len(r) = IF v <= p THEN p - v + 1 ELSE 0
        /\ \A i \in 1 .. p - v + 1 : r[i] = t[v + i - 1]
    BY <1>1, <2>1, SubSeqProperties
  <2> HIDE DEF r
  <2> QED BY <1>1, <2>2
<1>4. t[p] \in Chars OBVIOUS
<1> HIDE DEF q, r
<1>5. /\ s \in Seq(Chars) /\ Len(s) = p - v + 1 /\ s[p - v + 1] = t[p]
      /\ \A i \in 1 .. p - v : s[i] = t[v + i - 1]
  BY <1>2, <1>4, AppendProperties
<1> HIDE DEF s
<1>6. \A i \in 1 .. p - v + 1 : r[i] = s[i]
  <2> SUFFICES ASSUME NEW i \in 1 .. p - v + 1 PROVE r[i] = s[i] OBVIOUS
  <2>1. i \in 1 .. p - v \/ i = p - v + 1 BY <1>1
  <2>2. v + (p - v + 1) - 1 = p BY <1>1
  <2> QED BY <1>3, <1>5, <2>1, <2>2
<1>7. r = s BY <1>3, <1>5, <1>6, SeqEqual
<1> QED BY <1>7 DEF q, r, s

LEMMA PrefixOf ==
  ASSUME NEW q \in Seq(Chars), NEW r \in Seq(Chars), Len(q) <= Len(r),
         \A i \in 1 .. Len(q) : q[i] = r[i]
  PROVE  IsPrefix(q, r)
<1>1. Len(q) \in Nat /\ Len(r) \in Nat OBVIOUS
<1>2. SubSeq(q, 1, Len(q)) = [i \in 1 .. Len(q) |-> q[i]] BY <1>1
<1>3. SubSeq(r, 1, Len(q)) = [i \in 1 .. Len(q) |-> r[i]] BY <1>1
<1>4. [i \in 1 .. Len(q) |-> q[i]] = [i \in 1 .. Len(q) |-> r[i]] OBVIOUS
<1> QED BY <1>2, <1>3, <1>4 DEF IsPrefix

(* The line that is accepted: the value goes on until p.                   *)
LEMMA IsDone ==
  ASSUME NEW t \in Seq(Chars), NEW p \in 1 .. Len(t) + 1,
         NEW k \in 1 .. p - 1, NEW c \in 1 .. p - 1, NEW v \in 1 .. p - 1,
         NEW line, IsKey(t, k, line), IsSep(t, k, c), IsVal(t, c, v),
         \A j \in v .. p - 1 : Class(t[j]) \in InValue,
         line.val = SubSeq(t, v, p - 1),
         p \in DOMAIN t => t[p] \in {"quote", "#"}
  PROVE  Done(t, line)
<1>1. k \in DOMAIN t /\ c \in DOMAIN t /\ v \in DOMAIN t OBVIOUS
<1>2. \A j \in v .. p - 1 : t[j] # "other" BY ClassIs DEF InValue
<1>3. ASSUME NEW i \in v .. Len(t), t[i] = "other" PROVE \E j \in v .. i : t[j] \in {"quote", "#"}
  <2>1. i >= p BY <1>2, <1>3
  <2>2. p \in DOMAIN t /\ p \in v .. i BY <2>1
  <2> QED BY <2>2
<1>4. IsEntry(t, k, c, v) BY <1>1, <1>3, EntryIs DEF IsKey
<1>5. line.val # <<>>
  <2>1. Len(SubSeq(t, v, p - 1)) = (p - 1) - v + 1 OBVIOUS
  <2>2. Len(<<>>) = 0 OBVIOUS
  <2>3. (p - 1) - v + 1 # 0 OBVIOUS
  <2> QED BY <2>1, <2>2, <2>3
<1>6. IsPrefix(line.val, SubSeq(t, v, Len(t)))
  <2> DEFINE q == SubSeq(t, v, p - 1)
             r == SubSeq(t, v, Len(t))
  <2>1. Len(q) = p - v /\ Len(r) = Len(t) - v + 1 OBVIOUS
  <2>2. \A i \in 1 .. p - v : q[i] = t[v + i - 1] /\ r[i] = t[v + i - 1] OBVIOUS
  <2>3. q \in Seq(Chars) /\ r \in Seq(Chars) OBVIOUS
  <2> HIDE DEF q, r
  <2>4. Len(q) <= Len(r) /\ \A i \in 1 .. Len(q) : q[i] = r[i] BY <2>1, <2>2
  <2>5. IsPrefix(q, r) BY <2>3, <2>4, PrefixOf
  <2> QED BY <2>5 DEF q, r
<1> QED BY <1>1, <1>4, <1>5, <1>6 DEF Done

-----------------------------------------------------------------------------
(* Reading one character *)

LEMMA ReadRefused ==
  ASSUME NEW t \in Seq(Chars), NEW i, NEW line \in LexStates, Lexing(line), NEW ch,
         (line.block = "KEY" /\ line.key = "NULL") \/ Leads(line, ch) \in Errors,
         Refused(t)
  PROVE  ReadTo(t, i, LexChar(line, ch))
BY LexRefuse DEF ReadTo

(* A line that is read on is in the place that its block says.             *)
LEMMA ReadOn ==
  ASSUME NEW t \in Seq(Chars), NEW i, NEW line \in LexStates, Lexing(line),
         ~(line.block = "KEY" /\ line.key = "NULL"), NEW ch \in Chars, NEW b, Leads(line, ch) = b,
         b \notin Errors,
         LET l == LexChar(line, ch) IN
         l.ret = "NONE" /\ l.block = b =>
           CASE b = "NULL" -> AtNull(t, i, l)
             [] b = "PRE_KEY" -> AtPreKey(t, i, l)
             [] b = "KEY" -> AtKey(t, i, l)
             [] b = "PRE_SEP" -> AtPreSep(t, i, l)
             [] b = "PRE_VAL" -> AtPreVal(t, i, l)
             [] b = "VAL" -> AtVal(t, i, l)
             [] b = "CLEAN" -> Done(t, l)
  PROVE  ReadTo(t, i, LexChar(line, ch))
<1> DEFINE l == LexChar(line, ch)
<1>1. l \in LexStates BY LexType
<1>2. l.ret = "NONE" /\ l.block = b BY LexMove
<1>3. b \in Blocks BY <1>1, <1>2 DEF LexStates
<1> HIDE DEF l
<1> QED BY <1>1, <1>2, <1>3 DEF ReadTo, Blocks, l

LEMMA Moves ==
  ASSUME NEW line \in LexStates, Lexing(line), ~(line.block = "KEY" /\ line.key = "NULL"),
         NEW ch \in Chars, NEW b \in Blocks, Leads(line, ch) = b
  PROVE  LET l == LexChar(line, ch) IN
         /\ b \notin Errors
         /\ l.blank = IF b = "NULL" THEN line.blank + 1 ELSE line.blank
         /\ l.array <=> line.array \/ b = "PRE_KEY"
         /\ l.key = IF b = "KEY" THEN ParseReserve(ch) ELSE line.key
         /\ l.val = IF b = "VAL" THEN Append(line.val, ch) ELSE line.val
<1> DEFINE l == LexChar(line, ch)
           blank == IF b = "NULL" THEN line.blank + 1 ELSE line.blank
           array == line.array \/ b = "PRE_KEY"
           key == IF b = "KEY" THEN ParseReserve(ch) ELSE line.key
           val == IF b = "VAL" THEN Append(line.val, ch) ELSE line.val
<1>1. b \notin Errors BY DEF Blocks, Errors, Illegal, Open
<1>2. l = [ret |-> "NONE", block |-> b, blank |-> blank, array |-> array, key |-> key, val |-> val]
  BY <1>1, LexMove
<1> HIDE DEF l, blank, array, key, val
<1>3. l.blank = blank /\ l.key = key /\ l.val = val BY <1>2
<1>4. l.array = array BY <1>2, Zenon
<1>5. l.array <=> array BY <1>4, Zenon
<1> QED BY <1>1, <1>3, <1>5 DEF l, blank, array, key, val

LEMMA NullStep ==
  ASSUME NEW t \in Seq(Chars), NEW p \in DOMAIN t, t[p] # "eol",
         NEW line, ReadTo(t, p - 1, line), line.ret = "NONE", line.block = "NULL"
  PROVE  ReadTo(t, p, LexChar(line, t[p]))
<1> DEFINE ch == t[p]
           l == LexChar(line, ch)
<1>0. /\ line \in LexStates /\ Lexing(line) /\ AtNull(t, p - 1, line)
      /\ ch \in Chars /\ p \in Nat /\ p >= 1 /\ ~(line.block = "KEY" /\ line.key = "NULL")
  BY DEF ReadTo, Lexing
<1>1. \A i \in 1 .. p - 1 : t[i] \in Space BY <1>0 DEF AtNull, Gap
<1>2. Leads(line, ch) = Follow["NULL"][Class(ch)] BY DEF Leads
<1>3. Class(ch) \in Classes \ {"eol"} BY ClassIs
<1>c. t[p] = ch OBVIOUS
<1> HIDE DEF l, ch
<1>4. CASE Class(ch) \in {"blank", "quote"}
  <2>1. Leads(line, ch) = "NULL" /\ "NULL" \in Blocks BY <1>2, <1>4, FromNull DEF Blocks
  <2>2. \A i \in 1 .. p : t[i] \in Space BY <1>0, <1>1, <1>4, <1>c, SpaceIs
  <2>3. /\ "NULL" \notin Errors /\ l.blank = line.blank + 1 /\ (l.array <=> line.array)
        /\ l.key = line.key /\ l.val = line.val
    BY <1>0, <2>1, Moves DEF l
  <2>4. AtNull(t, p, l) BY <1>0, <2>2, <2>3 DEF AtNull, Gap
  <2> QED BY <1>0, <1>c, <2>1, <2>3, <2>4, ReadOn DEF l
<1>5. CASE Class(ch) = "hash"
  <2>1. Leads(line, ch) = "CLEAN" /\ "CLEAN" \in Blocks BY <1>2, <1>5, FromNull DEF Blocks
  <2>2. ch = "#" BY <1>5, ClassIs
  <2>3. IsEmpty(t)
    <3> SUFFICES ASSUME NEW i \in DOMAIN t, t[i] \notin Space
                 PROVE  \E j \in 1 .. i : t[j] = "#" /\ \A m \in 1 .. j - 1 : t[m] \in Space
      BY DEF IsEmpty
    <3>1. i >= p BY <1>0, <1>1
    <3>2. p \in 1 .. i BY <1>0, <3>1
    <3> QED BY <1>1, <1>c, <2>2, <3>2
  <2>4. "CLEAN" \notin Errors /\ l.key = "NULL" BY <1>0, <2>1, Moves DEF AtNull, l
  <2>5. Done(t, l) BY <2>3, <2>4 DEF Done
  <2> QED BY <1>0, <1>c, <2>1, <2>4, <2>5, ReadOn DEF l
<1>6. CASE Class(ch) = "dash"
  <2>1. Leads(line, ch) = "PRE_KEY" /\ "PRE_KEY" \in Blocks BY <1>2, <1>6, FromNull DEF Blocks
  <2>2. /\ "PRE_KEY" \notin Errors /\ l.blank = line.blank /\ l.array
        /\ l.key = line.key /\ l.val = line.val
    BY <1>0, <2>1, Moves DEF l
  <2>3. p \in 1 .. p /\ t[p] = "-" /\ Gap(t, 0, p - 1) /\ Gap(t, p, p)
    BY <1>0, <1>1, <1>6, <1>c, ClassIs DEF Gap
  <2>4. AtPreKey(t, p, l) BY <1>0, <2>2, <2>3 DEF AtPreKey, AtNull
  <2> QED BY <1>0, <1>c, <2>1, <2>2, <2>4, ReadOn DEF l
<1>7. CASE Class(ch) = "word"
  <2>1. Leads(line, ch) = "KEY" /\ "KEY" \in Blocks BY <1>2, <1>7, FromNull DEF Blocks
  <2>2. /\ "KEY" \notin Errors /\ l.blank = line.blank /\ (l.array <=> line.array)
        /\ l.key = ParseReserve(ch) /\ l.val = line.val
    BY <1>0, <2>1, Moves DEF l
  <2>3. \A i \in 1 .. p - 1 : t[i] # "-" BY <1>1 DEF Space
  <2>4. Indent(t, p) = p - 1 BY <1>0, <2>3, IndentIs
  <2>5. ~Dashed(t, p) BY <2>3 DEF Dashed
  <2>6. HeadAt(t, p) BY <1>0, <1>1, <1>7, <1>c, <2>3 DEF HeadAt
  <2>7. AtKey(t, p, l)
    <3>1. l.blank = p - 1 /\ ~l.array /\ l.val = <<>> BY <1>0, <2>2 DEF AtNull
    <3> QED BY <1>c, <2>2, <2>4, <2>5, <2>6, <3>1 DEF AtKey, IsKey
  <2> QED BY <1>0, <1>c, <2>1, <2>2, <2>7, ReadOn DEF l
<1>8. CASE Class(ch) \in {"colon", "other"}
  <2>1. Leads(line, ch) \in Errors BY <1>2, <1>8, FromNull DEF Errors
  <2>2. ch \notin Space \cup {"-", "#"} /\ ParseReserve(ch) = "NULL"
    BY <1>8, ClassIs, ReserveIs DEF Space
  <2>3. ~IsEmpty(t)
    <3> SUFFICES ASSUME NEW j \in 1 .. p, t[j] = "#" PROVE FALSE BY <1>0, <1>c, <2>2 DEF IsEmpty
    <3>1. j \in 1 .. p - 1 BY <1>0, <1>c, <2>2
    <3> QED BY <1>1, <3>1 DEF Space
  <2>4. ~HasEntry(t)
    <3> SUFFICES ASSUME NEW k \in DOMAIN t, HeadAt(t, k), ParseReserve(t[k]) # "NULL" PROVE FALSE
      BY EntryIs DEF HasEntry, IsSep
    <3>1. k \in Nat /\ k >= 1 OBVIOUS
    <3>2. CASE k < p
      <4>1. k \in 1 .. p - 1 BY <1>0, <3>1, <3>2
      <4> QED BY <1>1, <4>1, SpaceIs
    <3>3. CASE k = p BY <1>c, <2>2, <3>3
    <3>4. CASE k > p
      <4>1. p \in 1 .. k - 1 BY <1>0, <3>1, <3>4
      <4> QED BY <1>c, <2>2, <4>1 DEF HeadAt
    <3> QED BY <1>0, <3>1, <3>2, <3>3, <3>4
  <2> QED BY <1>0, <1>c, <2>1, <2>3, <2>4, ReadRefused DEF Refused
<1> QED BY <1>3, <1>4, <1>5, <1>6, <1>7, <1>8 DEF Classes

LEMMA PreKeyStep ==
  ASSUME NEW t \in Seq(Chars), NEW p \in DOMAIN t, t[p] # "eol",
         NEW line, ReadTo(t, p - 1, line), line.ret = "NONE", line.block = "PRE_KEY"
  PROVE  ReadTo(t, p, LexChar(line, t[p]))
<1> DEFINE ch == t[p]
           l == LexChar(line, ch)
<1>0. /\ line \in LexStates /\ Lexing(line) /\ AtPreKey(t, p - 1, line)
      /\ ch \in Chars /\ p \in Nat /\ p >= 1 /\ ~(line.block = "KEY" /\ line.key = "NULL")
  BY DEF ReadTo, Lexing
<1>1. PICK d \in 1 .. p - 1 : t[d] = "-" /\ Gap(t, 0, d - 1) /\ Gap(t, d, p - 1) /\ line.blank = d - 1
  BY <1>0 DEF AtPreKey
<1>2. Leads(line, ch) = Follow["PRE_KEY"][Class(ch)] BY DEF Leads
<1>3. Class(ch) \in Classes \ {"eol"} BY ClassIs
<1>c. t[p] = ch /\ p \in 1 .. Len(t) + 1 OBVIOUS
<1> HIDE DEF l, ch
<1>4. CASE Class(ch) \in {"blank", "quote"}
  <2>1. Leads(line, ch) = "PRE_KEY" /\ "PRE_KEY" \in Blocks BY <1>2, <1>4, FromPreKey DEF Blocks
  <2>2. /\ "PRE_KEY" \notin Errors /\ l.blank = line.blank /\ l.array
        /\ l.key = line.key /\ l.val = line.val
    BY <1>0, <2>1, Moves DEF l
  <2>3. d \in 1 .. p /\ Gap(t, d, p) BY <1>0, <1>1, <1>4, <1>c, SpaceIs DEF Gap
  <2>4. AtPreKey(t, p, l) BY <1>0, <1>1, <2>2, <2>3 DEF AtPreKey
  <2> QED BY <1>0, <1>c, <2>1, <2>2, <2>4, ReadOn DEF l
<1>5. CASE Class(ch) = "word"
  <2>1. Leads(line, ch) = "KEY" /\ "KEY" \in Blocks BY <1>2, <1>5, FromPreKey DEF Blocks
  <2>2. /\ "KEY" \notin Errors /\ l.blank = line.blank /\ (l.array <=> line.array)
        /\ l.key = ParseReserve(ch) /\ l.val = line.val
    BY <1>0, <2>1, Moves DEF l
  <2>3. \A i \in 1 .. p - 1 : i = d \/ t[i] \in Space
    <3> SUFFICES ASSUME NEW i \in 1 .. p - 1, i # d PROVE t[i] \in Space OBVIOUS
    <3>1. i \in 0 + 1 .. d - 1 \/ i \in d + 1 .. p - 1 OBVIOUS
    <3> QED BY <1>1, <3>1 DEF Gap
  <2>4. \A i \in 1 .. d - 1 : t[i] # "-"
    <3>1. \A i \in 1 .. d - 1 : i \in 1 .. p - 1 /\ i # d OBVIOUS
    <3> QED BY <2>3, <3>1 DEF Space
  <2>5. Indent(t, p) = d - 1 BY <1>0, <1>1, <2>4, IndentIs
  <2>6. Dashed(t, p) BY <1>1 DEF Dashed
  <2>7. HeadAt(t, p)
    <3>1. \A i \in 1 .. p - 1 : t[i] \in Space \cup {"-"} BY <1>1, <2>3
    <3>2. \A i \in 1 .. p - 1 : t[i] = "-" => i = d BY <2>3 DEF Space
    <3> QED BY <1>5, <1>c, <3>1, <3>2 DEF HeadAt
  <2>8. AtKey(t, p, l)
    <3>1. l.blank = d - 1 /\ l.array /\ l.val = <<>> BY <1>0, <1>1, <2>2 DEF AtPreKey
    <3> QED BY <1>c, <2>2, <2>5, <2>6, <2>7, <3>1 DEF AtKey, IsKey
  <2> QED BY <1>0, <1>c, <2>1, <2>2, <2>8, ReadOn DEF l
<1>6. CASE Class(ch) \in {"hash", "dash", "colon", "other"}
  <2>1. Leads(line, ch) \in Errors BY <1>2, <1>6, FromPreKey DEF Errors
  <2>2. t[p] \notin Space /\ Class(t[p]) # "word" BY <1>6, <1>c, SpaceIs
  <2>3. Refused(t) BY <1>0, <1>c, <2>2, NoKey
  <2> QED BY <1>0, <1>c, <2>1, <2>3, ReadRefused
<1> QED BY <1>3, <1>4, <1>5, <1>6 DEF Classes

(* A key behind which no character was read yet is treated like PRE_SEP.   *)
LEMMA SepStep ==
  ASSUME NEW t \in Seq(Chars), NEW p \in DOMAIN t, t[p] # "eol",
         NEW line \in LexStates, line.ret = "NONE", line.block \in {"KEY", "PRE_SEP"},
         AtPreSep(t, p - 1, line)
  PROVE  ReadTo(t, p, LexChar(line, t[p]))
<1> DEFINE ch == t[p]
           l == LexChar(line, ch)
<1>0. /\ Lexing(line) /\ line.val = <<>> /\ line.key # "NULL"
      /\ ch \in Chars /\ p \in Nat /\ p >= 1 /\ ~(line.block = "KEY" /\ line.key = "NULL")
  BY DEF AtPreSep, Lexing
<1>1. PICK k \in 1 .. p - 1 : IsKey(t, k, line) /\ Gap(t, k, p - 1) BY DEF AtPreSep
<1>2. Leads(line, ch) = Follow["PRE_SEP"][Class(ch)] BY DEF Leads
<1>3. Class(ch) \in Classes \ {"eol"} BY ClassIs
<1>c. t[p] = ch /\ p \in 1 .. Len(t) + 1 OBVIOUS
<1> HIDE DEF l, ch
<1>4. CASE Class(ch) \in {"blank", "quote"}
  <2>1. Leads(line, ch) = "PRE_SEP" /\ "PRE_SEP" \in Blocks BY <1>2, <1>4, FromPreSep DEF Blocks
  <2>2. /\ "PRE_SEP" \notin Errors /\ l.blank = line.blank /\ (l.array <=> line.array)
        /\ l.key = line.key /\ l.val = line.val
    BY <1>0, <2>1, Moves DEF l
  <2>3. k \in 1 .. p /\ Gap(t, k, p) BY <1>0, <1>1, <1>4, <1>c, SpaceIs DEF Gap
  <2>4. AtPreSep(t, p, l) BY <1>0, <1>1, <2>2, <2>3 DEF AtPreSep, IsKey
  <2> QED BY <1>0, <1>c, <2>1, <2>2, <2>4, ReadOn DEF l
<1>5. CASE Class(ch) = "colon"
  <2>1. Leads(line, ch) = "PRE_VAL" /\ "PRE_VAL" \in Blocks BY <1>2, <1>5, FromPreSep DEF Blocks
  <2>2. /\ "PRE_VAL" \notin Errors /\ l.blank = line.blank /\ (l.array <=> line.array)
        /\ l.key = line.key /\ l.val = line.val
    BY <1>0, <2>1, Moves DEF l
  <2>3. IsSep(t, k, p) BY <1>0, <1>1, <1>5, <1>c, ClassIs DEF IsSep, IsKey
  <2>4. k \in 1 .. p /\ p \in 1 .. p /\ Gap(t, p, p) BY <1>0 DEF Gap
  <2>5. AtPreVal(t, p, l) BY <1>0, <1>1, <2>2, <2>3, <2>4 DEF AtPreVal, IsKey
  <2> QED BY <1>0, <1>c, <2>1, <2>2, <2>5, ReadOn DEF l
<1>6. CASE Class(ch) \in {"hash", "dash", "word", "other"}
  <2>1. Leads(line, ch) \in Errors BY <1>2, <1>6, FromPreSep DEF Errors
  <2>2. t[p] \notin Space /\ Class(t[p]) # "colon" BY <1>6, <1>c, SpaceIs
  <2>3. Refused(t) BY <1>0, <1>1, <1>c, <2>2, NoSep DEF IsKey
  <2> QED BY <1>0, <1>c, <2>1, <2>3, ReadRefused
<1> QED BY <1>3, <1>4, <1>5, <1>6 DEF Classes

LEMMA KeyIsSep ==
  ASSUME NEW t \in Seq(Chars), NEW i \in 1 .. Len(t), NEW line, AtKey(t, i, line), line.key # "NULL"
  PROVE  AtPreSep(t, i, line)
BY DEF AtKey, AtPreSep, Gap

LEMMA UnknownKey ==
  ASSUME NEW t \in Seq(Chars), NEW i \in 1 .. Len(t), NEW line, AtKey(t, i, line), line.key = "NULL"
  PROVE  Refused(t)
<1>1. HeadAt(t, i) /\ ParseReserve(t[i]) = "NULL" BY DEF AtKey, IsKey
<1>2. ~HasEntry(t)
  <2> SUFFICES ASSUME NEW k \in DOMAIN t, NEW c \in DOMAIN t, HeadAt(t, k), IsSep(t, k, c) PROVE FALSE
    BY EntryIs DEF HasEntry
  <2>1. k = i BY <1>1, OneKey
  <2> QED BY <1>1, <2>1 DEF IsSep
<1> QED BY <1>1, <1>2, HeadNotEmpty DEF Refused

LEMMA PreValStep ==
  ASSUME NEW t \in Seq(Chars), NEW p \in DOMAIN t, t[p] # "eol",
         NEW line, ReadTo(t, p - 1, line), line.ret = "NONE", line.block = "PRE_VAL"
  PROVE  ReadTo(t, p, LexChar(line, t[p]))
<1> DEFINE ch == t[p]
           l == LexChar(line, ch)
<1>0. /\ line \in LexStates /\ Lexing(line) /\ AtPreVal(t, p - 1, line) /\ line.val = <<>>
      /\ ch \in Chars /\ p \in Nat /\ p >= 1 /\ ~(line.block = "KEY" /\ line.key = "NULL")
  BY DEF ReadTo, Lexing, AtPreVal
<1>1. PICK k, c \in 1 .. p - 1 : IsKey(t, k, line) /\ IsSep(t, k, c) /\ Gap(t, c, p - 1)
  BY <1>0 DEF AtPreVal
<1>2. Leads(line, ch) = Follow["PRE_VAL"][Class(ch)] BY DEF Leads
<1>3. Class(ch) \in Classes \ {"eol"} BY ClassIs
<1>c. t[p] = ch /\ p \in 1 .. Len(t) + 1 OBVIOUS
<1> HIDE DEF l, ch
<1>4. CASE Class(ch) \in {"blank", "quote"}
  <2>1. Leads(line, ch) = "PRE_VAL" /\ "PRE_VAL" \in Blocks BY <1>2, <1>4, FromPreVal DEF Blocks
  <2>2. /\ "PRE_VAL" \notin Errors /\ l.blank = line.blank /\ (l.array <=> line.array)
        /\ l.key = line.key /\ l.val = line.val
    BY <1>0, <2>1, Moves DEF l
  <2>3. k \in 1 .. p /\ c \in 1 .. p /\ Gap(t, c, p) BY <1>0, <1>1, <1>4, <1>c, SpaceIs DEF Gap
  <2>4. AtPreVal(t, p, l) BY <1>0, <1>1, <2>2, <2>3 DEF AtPreVal, IsKey
  <2> QED BY <1>0, <1>c, <2>1, <2>2, <2>4, ReadOn DEF l
<1>5. CASE Class(ch) = "word"
  <2>1. Leads(line, ch) = "VAL" /\ "VAL" \in Blocks BY <1>2, <1>5, FromPreVal DEF Blocks
  <2>2. /\ "VAL" \notin Errors /\ l.blank = line.blank /\ (l.array <=> line.array)
        /\ l.key = line.key /\ l.val = Append(line.val, ch)
    BY <1>0, <2>1, Moves DEF l
  <2>3. IsVal(t, c, p) BY <1>0, <1>1, <1>5, <1>c DEF IsVal
  <2>4. k \in 1 .. p /\ c \in 1 .. p /\ p \in 1 .. p BY <1>0
  <2>5. \A j \in p .. p : Class(t[j]) \in InValue BY <1>0, <1>5, <1>c DEF InValue
  <2>6. l.val = SubSeq(t, p, p)
    <3>2. SubSeq(t, p, p) = Append(SubSeq(t, p, p - 1), t[p]) BY <1>0, SubSeqNext
    <3>3. SubSeq(t, p, p - 1) = <<>> BY <1>0, SubSeqEmpty
    <3> QED BY <1>0, <1>c, <2>2, <3>2, <3>3
  <2>7. AtVal(t, p, l) BY <1>1, <2>2, <2>3, <2>4, <2>5, <2>6 DEF AtVal, IsKey
  <2> QED BY <1>0, <1>c, <2>1, <2>2, <2>7, ReadOn DEF l
<1>6. CASE Class(ch) \in {"hash", "dash", "colon", "other"}
  <2>1. Leads(line, ch) \in Errors BY <1>2, <1>6, FromPreVal DEF Errors
  <2>2. t[p] \notin Space /\ Class(t[p]) # "word" BY <1>6, <1>c, SpaceIs
  <2>3. Refused(t) BY <1>0, <1>1, <1>c, <2>2, NoVal DEF IsKey
  <2> QED BY <1>0, <1>c, <2>1, <2>3, ReadRefused
<1> QED BY <1>3, <1>4, <1>5, <1>6 DEF Classes

LEMMA ValStep ==
  ASSUME NEW t \in Seq(Chars), NEW p \in DOMAIN t, t[p] # "eol",
         NEW line, ReadTo(t, p - 1, line), line.ret = "NONE", line.block = "VAL"
  PROVE  ReadTo(t, p, LexChar(line, t[p]))
<1> DEFINE ch == t[p]
           l == LexChar(line, ch)
<1>0. /\ line \in LexStates /\ Lexing(line) /\ AtVal(t, p - 1, line)
      /\ ch \in Chars /\ p \in Nat /\ p >= 1 /\ ~(line.block = "KEY" /\ line.key = "NULL")
  BY DEF ReadTo, Lexing
<1>1. PICK k, c, v \in 1 .. p - 1 :
        /\ IsKey(t, k, line) /\ IsSep(t, k, c) /\ IsVal(t, c, v)
        /\ \A j \in v .. p - 1 : Class(t[j]) \in InValue
        /\ line.val = SubSeq(t, v, p - 1)
  BY <1>0 DEF AtVal
<1>2. Leads(line, ch) = Follow["VAL"][Class(ch)] BY DEF Leads
<1>3. Class(ch) \in Classes \ {"eol"} BY ClassIs
<1>c. t[p] = ch /\ p \in 1 .. Len(t) + 1 OBVIOUS
<1> HIDE DEF l, ch
<1>4. CASE Class(ch) \in InValue
  <2>1. Leads(line, ch) = "VAL" /\ "VAL" \in Blocks BY <1>2, <1>4, FromVal DEF Blocks, InValue
  <2>2. /\ "VAL" \notin Errors /\ l.blank = line.blank /\ (l.array <=> line.array)
        /\ l.key = line.key /\ l.val = Append(line.val, ch)
    BY <1>0, <2>1, Moves DEF l
  <2>3. k \in 1 .. p /\ c \in 1 .. p /\ v \in 1 .. p BY <1>0
  <2>4. \A j \in v .. p : Class(t[j]) \in InValue BY <1>1, <1>4, <1>c
  <2>5. l.val = SubSeq(t, v, p)
    <3>1. Append(SubSeq(t, v, p - 1), t[p]) = SubSeq(t, v, p) BY <2>3, SubSeqNext
    <3> QED BY <1>1, <1>c, <2>2, <3>1
  <2>6. AtVal(t, p, l) BY <1>1, <2>2, <2>3, <2>4, <2>5 DEF AtVal, IsKey
  <2> QED BY <1>0, <1>c, <2>1, <2>2, <2>6, ReadOn DEF l
<1>5. CASE Class(ch) \in {"quote", "hash"}
  <2>1. Leads(line, ch) = "CLEAN" /\ "CLEAN" \in Blocks BY <1>2, <1>5, FromVal DEF Blocks
  <2>2. /\ "CLEAN" \notin Errors /\ l.blank = line.blank /\ (l.array <=> line.array)
        /\ l.key = line.key /\ l.val = line.val
    BY <1>0, <2>1, Moves DEF l
  <2>3. t[p] \in {"quote", "#"} BY <1>5, <1>c, ClassIs
  <2>4. IsKey(t, k, l) BY <1>1, <2>2 DEF IsKey
  <2>5. Done(t, l) BY <1>1, <1>c, <2>2, <2>3, <2>4, IsDone
  <2> QED BY <1>0, <1>c, <2>1, <2>2, <2>5, ReadOn DEF l
<1>6. CASE Class(ch) = "other"
  <2>1. Leads(line, ch) \in Errors BY <1>2, <1>6, FromVal DEF Errors
  <2>2. t[p] = "other" BY <1>6, <1>c, ClassIs
  <2>3. Refused(t)
    <3>1. ~HasEntry(t)
      <4> SUFFICES ASSUME NEW m \in DOMAIN t, NEW d \in DOMAIN t, NEW w \in DOMAIN t, IsEntry(t, m, d, w)
                   PROVE  FALSE
        BY DEF HasEntry
      <4>1. /\ HeadAt(t, m) /\ IsSep(t, m, d) /\ IsVal(t, d, w)
            /\ \A i \in w .. Len(t) : t[i] = "other" => \E j \in w .. i : t[j] \in {"quote", "#"}
        BY EntryIs
      <4>2. m = k BY <1>1, <4>1, OneKey DEF IsKey
      <4>3. d = c BY <1>1, <4>1, <4>2, OneSep
      <4>4. w = v BY <1>1, <4>1, <4>3, OneVal
      <4>5. p \in v .. Len(t) BY <1>0, <1>c
      <4>6. PICK j \in v .. p : t[j] \in {"quote", "#"} BY <2>2, <4>1, <4>4, <4>5
      <4>7. j \in v .. p - 1 BY <2>2, <4>6
      <4> QED BY <1>1, <4>6, <4>7, ClassIs DEF InValue
    <3> QED BY <1>1, <3>1, HeadNotEmpty DEF Refused, IsKey
  <2> QED BY <1>0, <1>c, <2>1, <2>3, ReadRefused
<1> QED BY <1>3, <1>4, <1>5, <1>6 DEF Classes, InValue

LEMMA ReadStep ==
  ASSUME NEW t \in Seq(Chars), NEW p \in DOMAIN t, t[p] # "eol", NEW line, ReadTo(t, p - 1, line)
  PROVE  ReadTo(t, p, LexChar(line, t[p]))
<1>0. line \in LexStates /\ t[p] \in Chars /\ line.block \in Blocks BY DEF ReadTo, LexStates
<1>1. CASE ~Lexing(line)
  <2>1. LexChar(line, t[p]) = line BY <1>1, LexRest
  <2> QED BY <1>1, <2>1 DEF ReadTo, Lexing
<1>2. CASE Lexing(line) /\ line.block = "NULL" BY <1>2, NullStep DEF Lexing
<1>3. CASE Lexing(line) /\ line.block = "PRE_KEY" BY <1>3, PreKeyStep DEF Lexing
<1>4. CASE Lexing(line) /\ line.block = "KEY"
  <2>1. p - 1 \in 1 .. Len(t) /\ AtKey(t, p - 1, line)
    <3>1. AtKey(t, p - 1, line) BY <1>4 DEF ReadTo, Lexing
    <3>2. p - 1 \in DOMAIN t BY <3>1 DEF AtKey, IsKey, HeadAt
    <3> QED BY <3>1, <3>2
  <2>2. CASE line.key = "NULL"
    <3>1. Refused(t) BY <2>1, <2>2, UnknownKey
    <3> QED BY <1>0, <1>4, <2>2, <3>1, ReadRefused
  <2>3. CASE line.key # "NULL"
    <3>1. AtPreSep(t, p - 1, line) BY <2>1, <2>3, KeyIsSep
    <3> QED BY <1>0, <1>4, <3>1, SepStep DEF Lexing
  <2> QED BY <2>2, <2>3
<1>5. CASE Lexing(line) /\ line.block = "PRE_SEP"
  <2>1. AtPreSep(t, p - 1, line) BY <1>5 DEF ReadTo, Lexing
  <2> QED BY <1>0, <1>5, <2>1, SepStep DEF Lexing
<1>6. CASE Lexing(line) /\ line.block = "PRE_VAL" BY <1>6, PreValStep DEF Lexing
<1>7. CASE Lexing(line) /\ line.block = "VAL" BY <1>7, ValStep DEF Lexing
<1> QED BY <1>0, <1>1, <1>2, <1>3, <1>4, <1>5, <1>6, <1>7 DEF Blocks, Lexing

(* The end of the line.                                                    *)
LineEnd(t, line) ==
  /\ line.ret # "NONE" => Refused(t)
  /\ line.ret = "NONE" => Done(t, line)

LEMMA EndRefused ==
  ASSUME NEW t, NEW line \in LexStates, Lexing(line), NEW ch,
         (line.block = "KEY" /\ line.key = "NULL") \/ Leads(line, ch) \in Errors, Refused(t)
  PROVE  LineEnd(t, LexChar(line, ch))
BY LexRefuse DEF LineEnd

LEMMA LineEndStep ==
  ASSUME NEW t \in Seq(Chars), NEW line, ReadTo(t, Len(t), line)
  PROVE  LineEnd(t, LexChar(line, "eol"))
<1> DEFINE n == Len(t)
           p == n + 1
           l == LexChar(line, "eol")
<1>0. /\ line \in LexStates /\ line.block \in Blocks
      /\ n \in Nat /\ p \in 1 .. Len(t) + 1 /\ p \notin DOMAIN t /\ p - 1 = n
  BY DEF ReadTo, LexStates
<1>e. Class("eol") = "eol" /\ "eol" \in Chars BY ClassIs DEF Chars
<1> HIDE DEF p, l
<1>1. CASE ~Lexing(line)
  <2>1. l = line BY <1>1, LexRest DEF l
  <2> QED BY <1>1, <2>1 DEF ReadTo, Lexing, LineEnd, l
<1>2. CASE Lexing(line) /\ line.block \in {"NULL", "VAL"}
  <2>1. Leads(line, "eol") = "CLEAN" /\ "CLEAN" \in Blocks
    BY <1>2, <1>e, FromNull, FromVal DEF Leads, Blocks
  <2>2. /\ l.blank = line.blank /\ (l.array <=> line.array)
        /\ l.key = line.key /\ l.val = line.val
    <3>1. ~(line.block = "KEY" /\ line.key = "NULL") BY <1>2
    <3> QED BY <1>0, <1>2, <1>e, <2>1, <3>1, Moves DEF l
  <2>3. l.ret = "NONE"
    <3>1. ~(line.block = "KEY" /\ line.key = "NULL") BY <1>2
    <3>2. "CLEAN" \notin Errors BY DEF Errors, Illegal, Open
    <3> QED BY <1>0, <1>2, <1>e, <2>1, <3>1, <3>2, LexMove DEF l
  <2>4. CASE line.block = "NULL"
    <3>1. AtNull(t, n, line) BY <1>2, <2>4 DEF ReadTo, Lexing
    <3>2. IsEmpty(t) BY <3>1 DEF IsEmpty, AtNull, Gap
    <3>3. Done(t, l) BY <2>2, <3>1, <3>2 DEF Done, AtNull
    <3> QED BY <2>3, <3>3 DEF LineEnd, l
  <2>5. CASE line.block = "VAL"
    <3>1. AtVal(t, p - 1, line) BY <1>0, <1>2, <2>5 DEF ReadTo, Lexing
    <3>2. PICK k, c, v \in 1 .. p - 1 :
            /\ IsKey(t, k, line) /\ IsSep(t, k, c) /\ IsVal(t, c, v)
            /\ \A j \in v .. p - 1 : Class(t[j]) \in InValue
            /\ line.val = SubSeq(t, v, p - 1)
      BY <3>1 DEF AtVal
    <3>3. IsKey(t, k, l) BY <2>2, <3>2 DEF IsKey
    <3>4. Done(t, l) BY <1>0, <2>2, <3>2, <3>3, IsDone
    <3> QED BY <2>3, <3>4 DEF LineEnd, l
  <2> QED BY <1>2, <2>4, <2>5
<1>3. CASE Lexing(line) /\ line.block = "PRE_KEY"
  <2>1. Leads(line, "eol") \in Errors BY <1>3, <1>e, FromPreKey DEF Leads, Errors
  <2>2. AtPreKey(t, p - 1, line) BY <1>0, <1>3 DEF ReadTo, Lexing
  <2>3. Refused(t) BY <1>0, <2>2, NoKey
  <2> QED BY <1>0, <1>3, <2>1, <2>3, EndRefused
<1>4. CASE Lexing(line) /\ line.block \in {"KEY", "PRE_SEP"}
  <2>1. Leads(line, "eol") \in Errors BY <1>4, <1>e, FromPreSep DEF Leads, Errors
  <2>2. Refused(t)
    <3>1. ASSUME NEW k \in 1 .. n, IsKey(t, k, line), Gap(t, k, n) PROVE Refused(t)
      <4>1. k \in 1 .. p - 1 /\ Gap(t, k, p - 1) /\ HeadAt(t, k) BY <1>0, <3>1 DEF IsKey
      <4> QED BY <1>0, <4>1, NoSep
    <3>2. CASE line.block = "KEY"
      <4>1. AtKey(t, n, line) BY <1>4, <3>2 DEF ReadTo, Lexing
      <4>2. IsKey(t, n, line) /\ n \in 1 .. n /\ Gap(t, n, n)
        <5>1. n \in DOMAIN t /\ IsKey(t, n, line) BY <4>1 DEF AtKey, IsKey, HeadAt
        <5> QED BY <1>0, <5>1 DEF Gap
      <4> QED BY <3>1, <4>2
    <3>3. CASE line.block = "PRE_SEP"
      <4>1. AtPreSep(t, n, line) BY <1>4, <3>3 DEF ReadTo, Lexing
      <4> QED BY <3>1, <4>1 DEF AtPreSep
    <3> QED BY <1>4, <3>2, <3>3
  <2> QED BY <1>0, <1>4, <2>1, <2>2, EndRefused
<1>5. CASE Lexing(line) /\ line.block = "PRE_VAL"
  <2>1. Leads(line, "eol") \in Errors BY <1>5, <1>e, FromPreVal DEF Leads, Errors
  <2>2. AtPreVal(t, n, line) BY <1>5 DEF ReadTo, Lexing
  <2>3. PICK k, c \in 1 .. n : IsKey(t, k, line) /\ IsSep(t, k, c) /\ Gap(t, c, n)
    BY <2>2 DEF AtPreVal
  <2>4. k \in 1 .. p - 1 /\ c \in 1 .. p - 1 /\ Gap(t, c, p - 1) /\ HeadAt(t, k)
    BY <1>0, <2>3 DEF IsKey
  <2>5. Refused(t) BY <1>0, <2>3, <2>4, NoVal
  <2> QED BY <1>0, <1>5, <2>1, <2>5, EndRefused
<1> QED BY <1>0, <1>1, <1>2, <1>3, <1>4, <1>5 DEF Blocks, Lexing

LEMMA LineRead ==
  ASSUME NEW t \in Seq(Chars), \A i \in DOMAIN t : t[i] # "eol"
  PROVE  LineEnd(t, Lex_Line(t)) /\ Lex_Line(t) \in LexStates
<1> DEFINE n == Len(t)
           u == Append(t, "eol")
<1>1. /\ u \in Seq(Chars) /\ Len(u) = n + 1 /\ n \in Nat /\ u[n + 1] = "eol"
      /\ \A i \in 1 .. n : u[i] = t[i]
  <2>1. "eol" \in Chars BY DEF Chars
  <2> QED BY <2>1, AppendProperties
<1>2. DOMAIN t = 1 .. n OBVIOUS
<1> HIDE DEF u, n
<1>3. PICK f : /\ f[0] = NewLine
               /\ \A i \in 1 .. Len(u) : f[i] = LexChar(f[i - 1], u[i])
               /\ FoldLeft(LexChar, NewLine, u) = f[Len(u)]
  BY <1>1, LexRun
<1> DEFINE S == {i \in 0 .. n : ReadTo(t, i, f[i])}
<1>4. 0 \in S
  <2>1. NewLine \in LexStates
    <3>1. <<>> \in Seq(Chars) OBVIOUS
    <3> QED BY <3>1 DEF NewLine, LexStates, Blocks
  <2>2. AtNull(t, 0, NewLine) BY DEF AtNull, NewLine, Gap
  <2>3. ReadTo(t, 0, NewLine) BY <2>1, <2>2 DEF ReadTo, NewLine
  <2> QED BY <1>1, <1>3, <2>3
<1>5. \A i \in 1 .. n : i - 1 \in S => i \in S
  <2> SUFFICES ASSUME NEW i \in 1 .. n, i - 1 \in S PROVE i \in S OBVIOUS
  <2>1. f[i] = LexChar(f[i - 1], t[i]) BY <1>1, <1>3
  <2>2. ReadTo(t, i, LexChar(f[i - 1], t[i])) BY <1>2, ReadStep
  <2> QED BY <1>1, <2>1, <2>2
<1>6. \A i \in 0 .. n : i \in S
  <2> HIDE DEF S
  <2> QED BY <1>1, <1>4, <1>5, Steps
<1>7. ReadTo(t, n, f[n]) BY <1>1, <1>6
<1>8. Lex_Line(t) = LexChar(f[n], "eol")
  <2>1. n + 1 \in 1 .. Len(u) /\ (n + 1) - 1 = n BY <1>1
  <2>2. f[n + 1] = LexChar(f[n], "eol") BY <1>1, <1>3, <2>1
  <2>3. Lex_Line(t) = FoldLeft(LexChar, NewLine, u) BY DEF Lex_Line, u
  <2> QED BY <1>1, <1>3, <2>2, <2>3
<1>9. LineEnd(t, LexChar(f[n], "eol")) BY <1>7, LineEndStep DEF n
<1>10. LexChar(f[n], "eol") \in LexStates
  <2>1. "eol" \in Chars BY DEF Chars
  <2> QED BY <1>7, <2>1, LexType DEF ReadTo
<1> QED BY <1>8, <1>9, <1>10

(* Lex_Line accepts a line if and only if it is empty or an entry, and     *)
(* finds the key, the dash, the indentation and the value of an entry:     *)
(* for every line, of any length and of any characters.                    *)
THEOREM LexerIsRight ==
  ASSUME NEW t \in Seq(Chars), \A i \in DOMAIN t : t[i] # "eol"
  PROVE  FoundIn(t)
<1> DEFINE line == Lex_Line(t)
<1>1. LineEnd(t, line) /\ line \in LexStates BY LineRead
<1> HIDE DEF line
<1>2. line.ret = "NONE" <=> IsEmpty(t) \/ \E k, c, v \in DOMAIN t : IsEntry(t, k, c, v)
  <2>1. line.ret = "NONE" => IsEmpty(t) \/ HasEntry(t) BY <1>1 DEF LineEnd, Done, HasEntry
  <2>2. line.ret # "NONE" => ~IsEmpty(t) /\ ~HasEntry(t) BY <1>1 DEF LineEnd, Refused
  <2> QED BY <2>1, <2>2 DEF HasEntry
<1>3. ASSUME NEW k \in DOMAIN t, NEW c \in DOMAIN t, NEW v \in DOMAIN t, IsEntry(t, k, c, v)
      PROVE  /\ line.key = ParseReserve(t[k])
             /\ line.array = (\E i \in 1 .. k - 1 : t[i] = "-")
             /\ line.blank = Cardinality({i \in 1 .. k - 1 : \A j \in 1 .. i : t[j] # "-"})
             /\ line.val # <<>> /\ IsPrefix(line.val, SubSeq(t, v, Len(t)))
  <2>1. HeadAt(t, k) /\ IsSep(t, k, c) /\ IsVal(t, c, v) BY <1>3, EntryIs
  <2>2. ~IsEmpty(t) BY <2>1, HeadNotEmpty
  <2>3. Done(t, line) BY <1>1, <1>2, <1>3 DEF LineEnd
  <2>4. PICK m, d, w \in DOMAIN t :
          /\ IsEntry(t, m, d, w) /\ IsKey(t, m, line)
          /\ line.val # <<>> /\ IsPrefix(line.val, SubSeq(t, w, Len(t)))
    BY <2>2, <2>3 DEF Done
  <2>5. HeadAt(t, m) /\ IsSep(t, m, d) /\ IsVal(t, d, w) BY <2>4, EntryIs
  <2>6. m = k BY <2>1, <2>5, OneKey
  <2>7. d = c BY <2>1, <2>5, <2>6, OneSep
  <2>8. w = v BY <2>1, <2>5, <2>7, OneVal
  <2>9. line.key = ParseReserve(t[k]) /\ (line.array <=> Dashed(t, k)) /\ line.blank = Indent(t, k)
    BY <2>4, <2>6 DEF IsKey
  <2>10. line.array = (\E i \in 1 .. k - 1 : t[i] = "-")
    <3>1. line.array \in BOOLEAN BY <1>1 DEF LexStates
    <3>2. line.array <=> \E i \in 1 .. k - 1 : t[i] = "-" BY <2>9 DEF Dashed
    <3> QED BY <3>1, <3>2
  <2> QED BY <2>4, <2>8, <2>9, <2>10 DEF Indent
<1> QED BY <1>2, <1>3 DEF FoundIn, line

-----------------------------------------------------------------------------
(* The lines that are checked have no line end in them                     *)

LEMMA PlainRight == \A t \in Seq(STRING \ {"eol"}) : FoundIn(t)
<1> SUFFICES ASSUME NEW t \in Seq(STRING \ {"eol"}) PROVE FoundIn(t) OBVIOUS
<1>1. DOMAIN t = 1 .. Len(t) /\ Len(t) \in Nat /\ \A i \in 1 .. Len(t) : t[i] \in STRING \ {"eol"} OBVIOUS
<1>2. t \in Seq(Chars)
  <2>1. STRING \ {"eol"} \subseteq Chars BY DEF Chars
  <2> QED BY <2>1, SeqMonotonic
<1> QED BY <1>1, <1>2, LexerIsRight

LEMMA TextLinesPlain ==
  ASSUME NEW text \in Seq(STRING)
  PROVE  TextLines(text) \subseteq Seq(STRING \ {"eol"})
<1> DEFINE n == Len(text)
           ends == {0, n + 1} \cup {i \in DOMAIN text : text[i] = "eol"}
           next(i) == Min({j \in ends : j > i})
<1>0. n \in Nat /\ DOMAIN text = 1 .. n OBVIOUS
<1>1. TextLines(text) = {SubSeq(text, i + 1, next(i) - 1) : i \in ends \ {n + 1}} BY DEF TextLines
<1>2. ends \subseteq 0 .. n + 1 /\ n + 1 \in ends /\ \A i \in 1 .. n : i \notin ends => text[i] # "eol"
  BY <1>0
<1> HIDE DEF ends, n
<1>3. ASSUME NEW i \in ends \ {n + 1}
      PROVE  SubSeq(text, i + 1, next(i) - 1) \in Seq(STRING \ {"eol"})
  <2> DEFINE B == {j \in ends : j > i}
             m == next(i)
  <2>1. i \in 0 .. n BY <1>0, <1>2
  <2>2. PICK k \in B : \A j \in B : ~(j < k)
    <3>1. n + 1 \in B BY <1>0, <1>2, <2>1
    <3>2. \A j \in B : j \in Nat BY <1>0, <1>2
    <3> HIDE DEF B
    <3>3. B \in SUBSET Nat /\ B # {} BY <3>1, <3>2
    <3> QED BY <3>3, SmallestNat
  <2>3. m \in B /\ \A j \in B : m <= j
    <3>1. \A j \in B : j \in Int BY <1>0, <1>2
    <3>2. \A j \in B : k <= j BY <2>2, <3>1
    <3>3. m = CHOOSE x \in B : \A y \in B : x <= y BY DEF Min
    <3> HIDE DEF B, m
    <3> QED BY <3>2, <3>3
  <2>4. m \in 0 .. n + 1 /\ m > i BY <1>2, <2>3
  <2>5. \A j \in i + 1 .. m - 1 : text[j] \in STRING \ {"eol"}
    <3> SUFFICES ASSUME NEW j \in i + 1 .. m - 1 PROVE text[j] \in STRING \ {"eol"} OBVIOUS
    <3> HIDE DEF m
    <3>1. j \in 1 .. n /\ j > i /\ ~(m <= j) BY <1>0, <2>1, <2>4
    <3>2. j \notin ends BY <2>3, <3>1
    <3>3. text[j] \in STRING BY <1>0, <3>1
    <3> QED BY <1>2, <3>1, <3>2, <3>3
  <2> HIDE DEF m
  <2>6. i + 1 \in Int /\ m - 1 \in Int BY <2>1, <2>4
  <2>7. SubSeq(text, i + 1, m - 1) \in Seq(STRING \ {"eol"}) BY <2>5, <2>6, SubSeqProperties
  <2> QED BY <2>7 DEF m
<1> QED BY <1>1, <1>3

LEMMA TyposPlain ==
  ASSUME NEW t \in Seq(STRING \ {"eol"})
  PROVE  Typos(t) \subseteq Seq(STRING \ {"eol"})
<1> DEFINE S == STRING \ {"eol"}
<1>1. Symbols \subseteq S BY SymbolAssumption
<1>2. t \in Seq(S) OBVIOUS
<1> HIDE DEF S
<1>3. \A a \in 1 .. Len(t) + 1, b \in 0 .. Len(t) : SubSeq(t, a, b) \in Seq(S)
  <2> SUFFICES ASSUME NEW a \in 1 .. Len(t) + 1, NEW b \in 0 .. Len(t) PROVE SubSeq(t, a, b) \in Seq(S) OBVIOUS
  <2>1. Len(t) \in Nat /\ \A i \in 1 .. Len(t) : t[i] \in S BY <1>2
  <2>2. a \in Int /\ b \in Int /\ \A i \in a .. b : t[i] \in S BY <2>1
  <2> QED BY <2>2, SubSeqProperties
<1>4. \A i \in DOMAIN t : RemoveAt(t, i) \in Seq(S)
  <2> SUFFICES ASSUME NEW i \in DOMAIN t PROVE RemoveAt(t, i) \in Seq(S) OBVIOUS
  <2>1. i \in 1 .. Len(t) /\ Len(t) \in Nat BY <1>2
  <2>2. SubSeq(t, 1, i - 1) \in Seq(S) /\ SubSeq(t, i + 1, Len(t)) \in Seq(S) BY <1>3, <2>1
  <2> QED BY <2>2 DEF RemoveAt
<1>5. \A i \in DOMAIN t, ch \in Symbols : ReplaceAt(t, i, ch) \in Seq(S)
  BY <1>1, <1>2 DEF ReplaceAt
<1>6. \A i \in 1 .. Len(t) + 1, ch \in Symbols : InsertAt(t, i, ch) \in Seq(S)
  <2> SUFFICES ASSUME NEW i \in 1 .. Len(t) + 1, NEW ch \in Symbols PROVE InsertAt(t, i, ch) \in Seq(S) OBVIOUS
  <2>1. Len(t) \in Nat BY <1>2
  <2>2. SubSeq(t, 1, i - 1) \in Seq(S) /\ SubSeq(t, i, Len(t)) \in Seq(S) BY <1>3, <2>1
  <2>3. <<ch>> \in Seq(S) BY <1>1
  <2> QED BY <2>2, <2>3 DEF InsertAt
<1>7. Typos(t) \subseteq Seq(S) BY <1>2, <1>4, <1>5, <1>6 DEF Typos
<1> QED BY <1>7 DEF S

LEMMA NothingMisread == Misread = {} /\ \A v \in DOMAIN Texts : MisreadIn[v] = {}
<1>1. \A t \in LineTexts : t \in Seq(STRING \ {"eol"})
  <2> SUFFICES ASSUME NEW n \in 0 .. MaxSymbols, NEW t \in [1 .. n -> Symbols] PROVE t \in Seq(STRING \ {"eol"})
    BY DEF LineTexts
  <2>0. n \in Nat BY SymbolAssumption
  <2>1. t \in [1 .. n -> STRING \ {"eol"}] BY SymbolAssumption
  <2> HIDE DEF Chars
  <2> QED BY <2>0, <2>1, SeqDef
<1>2. ASSUME NEW v \in DOMAIN Texts, NEW t \in Mistyped(Texts[v]) PROVE t \in Seq(STRING \ {"eol"})
  <2>1. Texts[v] \in Seq(STRING) BY TextAssumption
  <2>2. PICK l \in TextLines(Texts[v]) : t \in Typos(l) BY <1>2 DEF Mistyped
  <2> QED BY <2>1, <2>2, TextLinesPlain, TyposPlain
<1> QED BY <1>1, <1>2, PlainRight DEF Misread, MisreadIn

=============================================================================
