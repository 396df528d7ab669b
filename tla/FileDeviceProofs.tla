------------------------- MODULE FileDeviceProofs -------------------------
(***************************************************************************)
(* Proofs about FileDevice, for every configuration, every number of logs, *)
(* failures and restarts and every order of time stamps.                   *)
(***************************************************************************)
EXTENDS FileDevice, FiniteSetTheorems, TLAPS

-----------------------------------------------------------------------------
(* Sizes: Size is a fold over a finite set.                                *)

(* Every set of finite sets has a smallest member.                         *)
LEMMA SmallestSet ==
  ASSUME NEW B, B # {}, \A s \in B : IsFiniteSet(s)
  PROVE  \E s \in B : \A t \in B : t \subseteq s => t = s
<1> DEFINE S == UNION B
<1> DEFINE R == StrictSubsetOrdering(S)
<1>1. IsWellFoundedOn(R, FiniteSubsetsOf(S)) BY FS_StrictSubsetOrderingWellFounded
<1>2. B \subseteq FiniteSubsetsOf(S) BY DEF FiniteSubsetsOf
<1>3. PICK s \in B : \A t \in B : <<t, s>> \notin R
  <2> HIDE DEF R
  <2> QED BY <1>1, <1>2, WFMin
<1>4. ASSUME NEW t \in B, t \subseteq s PROVE t = s
  <2>1. <<t, s>> \notin R BY <1>3
  <2>2. t \in SUBSET S /\ s \in SUBSET S OBVIOUS
  <2> QED BY <1>4, <2>1, <2>2 DEF StrictSubsetOrdering
<1> QED BY <1>4

(* Size, as a function of the history it reads.                            *)
Some(s) == CHOOSE x \in s : TRUE
Sums(lg, g, s) == IF s = {} THEN 0 ELSE lg[Some(s)].len + g[s \ {Some(s)}]
SumFcn(lg, S) == CHOOSE g : g = [s \in SUBSET S |-> Sums(lg, g, s)]
Sum(lg, S) == SumFcn(lg, S)[S]

LEMMA SizeIsSum == \A S : Size(S) = Sum(logs, S)
BY DEF Size, MapThenSumSet, MapThenFoldSet, Sum, SumFcn, Sums, Some

LEMMA SomeIn == \A s : s # {} => Some(s) \in s
BY DEF Some

LEMMA SumsAgree ==
  ASSUME NEW lg, NEW g, NEW h, NEW U, IsFiniteSet(U),
         \A s \in SUBSET U : g[s] = Sums(lg, g, s),
         \A s \in SUBSET U : h[s] = Sums(lg, h, s)
  PROVE  g[U] = h[U]
<1> DEFINE B == {s \in SUBSET U : g[s] # h[s]}
<1> SUFFICES ASSUME B # {} PROVE FALSE OBVIOUS
<1>1. \A s \in B : IsFiniteSet(s) BY FS_Subset
<1>2. PICK s \in B : \A t \in B : t \subseteq s => t = s
  <2> HIDE DEF B
  <2> QED BY <1>1, SmallestSet
<1>4. g[s] = Sums(lg, g, s) /\ h[s] = Sums(lg, h, s) OBVIOUS
<1>5. s # {} BY <1>4 DEF Sums
<1>6. s \ {Some(s)} \notin B BY <1>2, <1>5, SomeIn
<1>7. g[s \ {Some(s)}] = h[s \ {Some(s)}] BY <1>6
<1> QED BY <1>4, <1>7 DEF Sums

LEMMA SumExists ==
  ASSUME NEW lg, NEW S, IsFiniteSet(S)
  PROVE  \A s \in SUBSET S : SumFcn(lg, S)[s] = Sums(lg, SumFcn(lg, S), s)
<1> DEFINE Good(s) == \E g : g = [t \in SUBSET s |-> Sums(lg, g, t)]
<1> DEFINE B == {s \in SUBSET S : ~Good(s)}
<1>0. \A s : Good(s) => SumFcn(lg, s) = [t \in SUBSET s |-> Sums(lg, SumFcn(lg, s), t)]
  BY DEF SumFcn
<1> SUFFICES ASSUME B # {} PROVE FALSE BY <1>0
<1>1. \A s \in B : IsFiniteSet(s) BY FS_Subset
<1>2. PICK s \in B : \A t \in B : t \subseteq s => t = s
  <2> HIDE DEF B
  <2> QED BY <1>1, SmallestSet
<1> HIDE DEF Good
<1>3. \A t \in SUBSET s : t # s => Good(t) BY <1>2
<1> DEFINE G == [t \in SUBSET s |->
                   IF t # s THEN Sum(lg, t)
                   ELSE IF t = {} THEN 0 ELSE lg[Some(t)].len + Sum(lg, t \ {Some(t)})]
<1>4. ASSUME NEW t \in SUBSET s PROVE G[t] = Sums(lg, G, t)
  <2>1. CASE t = {} /\ t = s BY <2>1 DEF Sums
  <2>2. CASE t = {} /\ t # s
    <3>1. SumFcn(lg, t) = [u \in SUBSET t |-> Sums(lg, SumFcn(lg, t), u)] BY <1>0, <1>3, <2>2
    <3>2. Sum(lg, t) = Sums(lg, SumFcn(lg, t), t) BY <3>1 DEF Sum
    <3> QED BY <2>2, <3>2 DEF Sums
  <2>3. CASE t # {}
    <3> DEFINE u == t \ {Some(t)}
    <3>1. u \in SUBSET s /\ u # s BY <2>3, SomeIn
    <3>2. G[u] = Sum(lg, u) BY <3>1
    <3>3. CASE t = s BY <2>3, <3>2, <3>3 DEF Sums
    <3>4. CASE t # s
      <4>1. SumFcn(lg, t) = [w \in SUBSET t |-> Sums(lg, SumFcn(lg, t), w)] BY <1>0, <1>3, <3>4
      <4>2. SumFcn(lg, u) = [w \in SUBSET u |-> Sums(lg, SumFcn(lg, u), w)] BY <1>0, <1>3, <3>1
      <4>3. IsFiniteSet(u) BY FS_Subset
      <4>4. u \subseteq t /\ u \subseteq u OBVIOUS
      <4> DEFINE g == SumFcn(lg, t)
      <4> DEFINE h == SumFcn(lg, u)
      <4>5. g[u] = h[u]
        <5>1. /\ \A w \in SUBSET u : g[w] = Sums(lg, g, w)
              /\ \A w \in SUBSET u : h[w] = Sums(lg, h, w)
          BY <4>1, <4>2, <4>4
        <5> HIDE DEF g, h, u
        <5> QED BY <4>3, <4>4, <5>1, SumsAgree
      <4>6. Sum(lg, t) = Sums(lg, g, t) BY <4>1 DEF Sum
      <4>7. Sum(lg, t) = lg[Some(t)].len + Sum(lg, u) BY <2>3, <4>5, <4>6 DEF Sums, Sum
      <4> QED BY <2>3, <3>2, <3>4, <4>7 DEF Sums
    <3> QED BY <3>3, <3>4
  <2> QED BY <2>1, <2>2, <2>3
<1>5. G = [t \in SUBSET s |-> Sums(lg, G, t)]
  <2> HIDE DEF G
  <2>1. G = [t \in SUBSET s |-> G[t]] BY DEF G
  <2> QED BY <1>4, <2>1
<1> QED BY <1>2, <1>5 DEF Good

(* The recursive equation of Sum.                                          *)
LEMMA SumStep ==
  ASSUME NEW lg, NEW S, IsFiniteSet(S)
  PROVE  Sum(lg, S) = IF S = {} THEN 0 ELSE lg[Some(S)].len + Sum(lg, S \ {Some(S)})
<1> DEFINE u == S \ {Some(S)}
<1> DEFINE g == SumFcn(lg, S)
<1> DEFINE h == SumFcn(lg, u)
<1>0. IsFiniteSet(u) BY FS_Subset
<1>1. \A w \in SUBSET S : g[w] = Sums(lg, g, w) BY SumExists
<1>2. \A w \in SUBSET u : h[w] = Sums(lg, h, w)
  <2> HIDE DEF u
  <2> QED BY <1>0, SumExists
<1>3. g[S] = Sums(lg, g, S) BY <1>1
<1>4. g[u] = h[u]
  <2>1. \A w \in SUBSET u : g[w] = Sums(lg, g, w) BY <1>1
  <2> HIDE DEF g, h, u
  <2> QED BY <1>0, <1>2, <2>1, SumsAgree
<1> QED BY <1>3, <1>4 DEF Sums, Sum

(* Logs have a length.                                                     *)
Lens(lg, S) == \A x \in S : lg[x].len \in Nat

LEMMA SumType ==
  ASSUME NEW lg, NEW S, IsFiniteSet(S), Lens(lg, S)
  PROVE  Sum(lg, S) \in Nat
<1> DEFINE B == {s \in SUBSET S : Sum(lg, s) \notin Nat}
<1> SUFFICES ASSUME B # {} PROVE FALSE OBVIOUS
<1>1. \A s \in B : IsFiniteSet(s) BY FS_Subset
<1>2. PICK s \in B : \A t \in B : t \subseteq s => t = s
  <2> HIDE DEF B
  <2> QED BY <1>1, SmallestSet
<1>3. Sum(lg, s) = IF s = {} THEN 0 ELSE lg[Some(s)].len + Sum(lg, s \ {Some(s)})
  BY <1>1, SumStep
<1>4. s # {} BY <1>3
<1>5. Some(s) \in s BY <1>4, SomeIn
<1>6. s \ {Some(s)} \notin B BY <1>2, <1>5
<1>7. Sum(lg, s \ {Some(s)}) \in Nat BY <1>6
<1>8. lg[Some(s)].len \in Nat BY <1>5 DEF Lens
<1>9. Sum(lg, s) \in Nat BY <1>3, <1>4, <1>7, <1>8
<1> QED BY <1>9

(* Whichever element is left out first.                                    *)
LEMMA SumRemove ==
  ASSUME NEW lg, NEW S, IsFiniteSet(S), Lens(lg, S), NEW x \in S
  PROVE  Sum(lg, S) = lg[x].len + Sum(lg, S \ {x})
<1> DEFINE B == {s \in SUBSET S : \E y \in s : Sum(lg, s) # lg[y].len + Sum(lg, s \ {y})}
<1> SUFFICES ASSUME B # {} PROVE FALSE OBVIOUS
<1>1. \A s \in SUBSET S : IsFiniteSet(s) BY FS_Subset
<1>2. PICK s \in B : \A t \in B : t \subseteq s => t = s
  <2>1. \A s \in B : IsFiniteSet(s) BY <1>1
  <2> HIDE DEF B
  <2> QED BY <2>1, SmallestSet
<1>3. PICK y \in s : Sum(lg, s) # lg[y].len + Sum(lg, s \ {y}) OBVIOUS
<1> DEFINE c == Some(s)
<1>4. c \in s BY SomeIn
<1>5. Sum(lg, s) = lg[c].len + Sum(lg, s \ {c})
  BY <1>1, SumStep
<1> HIDE DEF c
<1>6. c # y BY <1>3, <1>5
<1>7. s \ {c} \notin B /\ s \ {y} \notin B BY <1>2, <1>4
<1>8. /\ Sum(lg, s \ {c}) = lg[y].len + Sum(lg, (s \ {c}) \ {y})
      /\ Sum(lg, s \ {y}) = lg[c].len + Sum(lg, (s \ {y}) \ {c})
  BY <1>4, <1>6, <1>7
<1>9. (s \ {c}) \ {y} = (s \ {y}) \ {c} OBVIOUS
<1>10. lg[y].len \in Nat /\ lg[c].len \in Nat BY <1>4 DEF Lens
<1>11. Sum(lg, (s \ {c}) \ {y}) \in Nat
  <2>1. (s \ {c}) \ {y} \in SUBSET S OBVIOUS
  <2>2. Lens(lg, (s \ {c}) \ {y}) BY DEF Lens
  <2> QED BY <1>1, <2>1, <2>2, SumType
<1> QED BY <1>3, <1>5, <1>8, <1>9, <1>10, <1>11

LEMMA SumAdd ==
  ASSUME NEW lg, NEW S, IsFiniteSet(S), NEW x, x \notin S, Lens(lg, S \cup {x})
  PROVE  Sum(lg, S \cup {x}) = Sum(lg, S) + lg[x].len /\ Sum(lg, S) \in Nat /\ lg[x].len \in Nat
<1>1. IsFiniteSet(S \cup {x}) BY FS_AddElement
<1>2. (S \cup {x}) \ {x} = S OBVIOUS
<1>3. Sum(lg, S \cup {x}) = lg[x].len + Sum(lg, S) BY <1>1, <1>2, SumRemove
<1>4. Lens(lg, S) /\ lg[x].len \in Nat BY DEF Lens
<1>5. Sum(lg, S) \in Nat BY <1>4, SumType
<1> QED BY <1>3, <1>4, <1>5

LEMMA SumSubset ==
  ASSUME NEW lg, NEW S, IsFiniteSet(S), Lens(lg, S), NEW T \in SUBSET S
  PROVE  Sum(lg, T) <= Sum(lg, S)
<1> DEFINE B == {s \in SUBSET S : T \subseteq s /\ ~(Sum(lg, T) <= Sum(lg, s))}
<1> SUFFICES ASSUME B # {} PROVE FALSE OBVIOUS
<1>1. \A s \in SUBSET S : IsFiniteSet(s) BY FS_Subset
<1>2. \A s \in SUBSET S : Sum(lg, s) \in Nat
  <2> SUFFICES ASSUME NEW s \in SUBSET S PROVE Sum(lg, s) \in Nat OBVIOUS
  <2>1. Lens(lg, s) BY DEF Lens
  <2> QED BY <1>1, <2>1, SumType
<1>3. PICK s \in B : \A t \in B : t \subseteq s => t = s
  <2>1. \A s \in B : IsFiniteSet(s) BY <1>1
  <2> HIDE DEF B
  <2> QED BY <2>1, SmallestSet
<1>4. s # T BY <1>2
<1>5. PICK x \in s : x \notin T BY <1>4
<1>6. s \ {x} \notin B BY <1>3
<1>7. Sum(lg, T) <= Sum(lg, s \ {x}) BY <1>5, <1>6
<1>8. Sum(lg, s) = lg[x].len + Sum(lg, s \ {x})
  <2>1. Lens(lg, s) BY DEF Lens
  <2> QED BY <1>1, <2>1, SumRemove
<1>9. lg[x].len \in Nat BY DEF Lens
<1>10. /\ Sum(lg, T) \in Nat /\ Sum(lg, s \ {x}) \in Nat BY <1>2
<1>11. Sum(lg, T) <= Sum(lg, s) BY <1>7, <1>8, <1>9, <1>10
<1> QED BY <1>11

(* Later logs do not change the size of a file.                            *)
LEMMA SumSame ==
  ASSUME NEW lg, NEW lh, NEW S, IsFiniteSet(S), \A x \in S : lg[x] = lh[x]
  PROVE  Sum(lg, S) = Sum(lh, S)
<1> DEFINE B == {s \in SUBSET S : Sum(lg, s) # Sum(lh, s)}
<1> SUFFICES ASSUME B # {} PROVE FALSE OBVIOUS
<1>1. \A s \in B : IsFiniteSet(s) BY FS_Subset
<1>2. PICK s \in B : \A t \in B : t \subseteq s => t = s
  <2> HIDE DEF B
  <2> QED BY <1>1, SmallestSet
<1>3. /\ Sum(lg, s) = IF s = {} THEN 0 ELSE lg[Some(s)].len + Sum(lg, s \ {Some(s)})
      /\ Sum(lh, s) = IF s = {} THEN 0 ELSE lh[Some(s)].len + Sum(lh, s \ {Some(s)})
  BY <1>1, SumStep
<1>4. s # {} BY <1>3
<1>5. Some(s) \in s BY <1>4, SomeIn
<1>6. s \ {Some(s)} \notin B BY <1>2, <1>5
<1>7. Sum(lg, s \ {Some(s)}) = Sum(lh, s \ {Some(s)}) BY <1>6
<1>8. lg[Some(s)] = lh[Some(s)] BY <1>5
<1> QED BY <1>3, <1>4, <1>7, <1>8


-----------------------------------------------------------------------------
(* Days *)

LEMMA DayType == \A ts \in Nat : Day(ts) \in Nat /\ Day(ts) * DAY \in Nat
BY TimeAssumption DEF Day

(* The time stamps from one multiple of DAY to the next are of one day.    *)
LEMMA DayOf ==
  ASSUME NEW ts \in Nat, NEW day \in Nat, day * DAY <= ts, ts < day * DAY + DAY
  PROVE  Day(ts) = day
<1> DEFINE q == ts \div DAY
<1>1. DAY \in Nat \ {0} BY TimeAssumption
<1>2. q \in Nat /\ ts % DAY \in 0 .. DAY - 1 /\ ts = DAY * q + (ts % DAY) /\ DAY * q \in Nat
  BY <1>1, SMT
<1>3. day * DAY = DAY * day /\ DAY * day \in Nat BY <1>1, SMT
<1>4. ASSUME NEW a \in Nat, NEW b \in Nat, a < b PROVE DAY * b >= DAY * a + DAY
  <2>1. DAY * (b - a - 1) \in Nat
    <3>1. b - a - 1 \in Nat BY <1>4
    <3> QED BY <1>1, <3>1, SMT
  <2>2. DAY * b = DAY * a + DAY + DAY * (b - a - 1) BY <1>1, SMT
  <2>3. DAY * a \in Nat /\ DAY * b \in Nat BY <1>1, SMT
  <2> QED BY <1>1, <2>1, <2>2, <2>3
<1> HIDE DEF q
<1>5. ~ q < day BY <1>1, <1>2, <1>3, <1>4
<1>6. ~ day < q BY <1>1, <1>2, <1>3, <1>4
<1>7. q = day BY <1>2, <1>5, <1>6
<1> QED BY <1>7 DEF q, Day

-----------------------------------------------------------------------------
(* What is true of the files of a disk d that holds the logs lg, under a   *)
(* configuration cfg.                                                      *)
FilesType(lg, d) ==
  DOMAIN d \subseteq Nat \X Nat /\ d \in [DOMAIN d -> SUBSET DOMAIN lg]

InOrder(d) ==
  \A f, g \in DOMAIN d :
    f[1] = g[1] /\ f[2] > g[2] => \A m \in d[f], n \in d[g] : m < n

Deepest(cfg) == IF cfg.rollback > 0 THEN cfg.rollback ELSE IF cfg.limit > 0 THEN 1 ELSE 0
Shallow(cfg, d) == \A f \in DOMAIN d : f[2] <= Deepest(cfg)

Daily(cfg) == ~cfg.stuff_up /\ (cfg.rollback > 0 \/ cfg.limit > 0 \/ cfg.dated)
OneDay(cfg, lg, d) ==
  Daily(cfg) => \A f \in DOMAIN d : \A m, n \in d[f] : Day(lg[m].ts) = Day(lg[n].ts)
NamedByDay(cfg, lg, d) ==
  cfg.dated /\ ~cfg.stuff_up => \A f \in DOMAIN d : \A n \in d[f] : Day(lg[n].ts) = f[1]

Limiting(cfg) == cfg.limit > 0 /\ cfg.rollback > 0 /\ ~cfg.stuff_up
Small(cfg, lg, d) ==
  Limiting(cfg) => \A f \in DOMAIN d : Cardinality(d[f]) > 1 => Sum(lg, d[f]) <= cfg.limit

Files(cfg, lg, d) ==
  /\ FilesType(lg, d) /\ InOrder(d) /\ Shallow(cfg, d)
  /\ OneDay(cfg, lg, d) /\ NamedByDay(cfg, lg, d) /\ Small(cfg, lg, d)

Config == [limit : Limits, rollback : Rollbacks, stuff_up : BOOLEAN, dated : BOOLEAN]
Log == [ts : DAY .. MaxTime, len : Lengths]

LEMMA FileFinite ==
  ASSUME NEW lg \in Seq(Log), NEW d, FilesType(lg, d), NEW f \in DOMAIN d
  PROVE  IsFiniteSet(d[f]) /\ Lens(lg, d[f]) /\ d[f] \subseteq 1 .. Len(lg)
<1>1. d[f] \in SUBSET (1 .. Len(lg)) BY DEF FilesType
<1>2. IsFiniteSet(1 .. Len(lg))
  <2>1. Len(lg) \in Int OBVIOUS
  <2> QED BY <2>1, FS_Interval
<1>3. IsFiniteSet(d[f]) BY <1>1, <1>2, FS_Subset
<1>4. ASSUME NEW x \in d[f] PROVE lg[x].len \in Nat
  <2>1. lg[x] \in Log BY <1>1
  <2> QED BY <2>1, ConfigAssumption DEF Log
<1> QED BY <1>1, <1>3, <1>4 DEF Lens

(* A file loses logs.                                                      *)
LEMMA FilesShrink ==
  ASSUME NEW cfg \in Config, NEW lg \in Seq(Log), NEW d, Files(cfg, lg, d),
         NEW f \in DOMAIN d, NEW kept \in SUBSET d[f]
  PROVE  Files(cfg, lg, [d EXCEPT ![f] = kept])
<1> DEFINE e == [d EXCEPT ![f] = kept]
<1>1. /\ DOMAIN e = DOMAIN d
      /\ \A g \in DOMAIN d : e[g] \subseteq d[g] /\ e[g] = IF g = f THEN kept ELSE d[g]
  BY DEF Files, FilesType
<1>2. FilesType(lg, e) BY DEF Files, FilesType
<1> HIDE DEF e
<1>3. InOrder(e) BY <1>1 DEF Files, InOrder
<1>4. Shallow(cfg, e) BY <1>1 DEF Files, Shallow
<1>5. OneDay(cfg, lg, e) BY <1>1 DEF Files, OneDay
<1>6. NamedByDay(cfg, lg, e) BY <1>1 DEF Files, NamedByDay
<1>7. Small(cfg, lg, e)
  <2> SUFFICES ASSUME Limiting(cfg), NEW g \in DOMAIN d, Cardinality(e[g]) > 1
               PROVE  Sum(lg, e[g]) <= cfg.limit
    BY <1>1 DEF Small
  <2>1. CASE g # f BY <1>1, <2>1 DEF Files, Small
  <2>2. CASE g = f
    <3>1. IsFiniteSet(d[f]) /\ Lens(lg, d[f]) BY FileFinite DEF Files
    <3>2. IsFiniteSet(kept) /\ Cardinality(kept) <= Cardinality(d[f]) BY <3>1, FS_Subset
    <3>3. Cardinality(kept) \in Nat /\ Cardinality(d[f]) \in Nat
      BY <3>1, <3>2, FS_CardinalityType
    <3>4. Sum(lg, kept) <= Sum(lg, d[f]) BY <3>1, SumSubset
    <3>5. Sum(lg, d[f]) \in Nat BY <3>1, SumType
    <3>6. Sum(lg, kept) \in Nat
      <4>1. Lens(lg, kept) BY <3>1 DEF Lens
      <4> QED BY <3>2, <4>1, SumType
    <3>7. Cardinality(d[f]) > 1 BY <1>1, <2>2, <3>2, <3>3
    <3>8. Sum(lg, d[f]) <= cfg.limit BY <3>7 DEF Files, Small
    <3>9. cfg.limit \in Nat BY ConfigAssumption DEF Config
    <3> QED BY <1>1, <2>2, <3>4, <3>5, <3>6, <3>8, <3>9
  <2> QED BY <2>1, <2>2
<1> QED BY <1>2, <1>3, <1>4, <1>5, <1>6, <1>7 DEF Files, e

(* The device gets a log; no file changes.                                 *)
LEMMA FilesHanded ==
  ASSUME NEW cfg \in Config, NEW lg \in Seq(Log), NEW d, Files(cfg, lg, d), NEW l \in Log
  PROVE  Files(cfg, Append(lg, l), d)
<1> DEFINE lh == Append(lg, l)
<1>1. /\ lh \in Seq(Log) /\ DOMAIN lh = 1 .. Len(lg) + 1 /\ DOMAIN lg = 1 .. Len(lg)
      /\ \A n \in DOMAIN lg : n \in DOMAIN lh /\ lh[n] = lg[n]
  OBVIOUS
<1> HIDE DEF lh
<1>2. \A f \in DOMAIN d : \A n \in d[f] : n \in DOMAIN lg /\ lh[n] = lg[n]
  BY <1>1 DEF Files, FilesType
<1>3. FilesType(lh, d)
  <2>1. DOMAIN lg \subseteq DOMAIN lh BY <1>1
  <2> QED BY <2>1 DEF Files, FilesType
<1>4. OneDay(cfg, lh, d) BY <1>2 DEF Files, OneDay
<1>5. NamedByDay(cfg, lh, d) BY <1>2 DEF Files, NamedByDay
<1>6. Small(cfg, lh, d)
  <2> SUFFICES ASSUME NEW f \in DOMAIN d PROVE Sum(lh, d[f]) = Sum(lg, d[f])
    BY DEF Files, Small
  <2>1. IsFiniteSet(d[f]) BY FileFinite DEF Files
  <2> QED BY <1>2, <2>1, SumSame
<1> QED BY <1>3, <1>4, <1>5, <1>6 DEF Files, lh

(* fopen creates the file.                                                 *)
LEMMA FilesCreated ==
  ASSUME NEW cfg \in Config, NEW lg \in Seq(Log), NEW d, Files(cfg, lg, d), NEW name \in Nat
  PROVE  /\ Files(cfg, lg, Created(d, name))
         /\ <<name, 0>> \in DOMAIN Created(d, name)
         /\ Created(d, name)[<<name, 0>>] = IF <<name, 0>> \in DOMAIN d THEN d[<<name, 0>>] ELSE {}
         /\ \A f \in DOMAIN d : f \in DOMAIN Created(d, name) /\ Created(d, name)[f] = d[f]
<1> DEFINE e == Created(d, name)
<1>1. /\ DOMAIN e = DOMAIN d \cup {<<name, 0>>}
      /\ \A f \in DOMAIN e : e[f] = IF f \in DOMAIN d THEN d[f] ELSE {}
  BY DEF Created
<1>2. FilesType(lg, e)
  <2>1. DOMAIN e \subseteq Nat \X Nat BY <1>1 DEF Files, FilesType
  <2>2. e \in [DOMAIN e -> SUBSET DOMAIN lg] BY <1>1 DEF Created, Files, FilesType
  <2> QED BY <2>1, <2>2 DEF FilesType
<1> HIDE DEF e
<1>3. InOrder(e) BY <1>1 DEF Files, InOrder
<1>4. Shallow(cfg, e)
  <2>1. Deepest(cfg) >= 0 BY ConfigAssumption DEF Deepest, Config
  <2> QED BY <1>1, <2>1 DEF Files, Shallow
<1>5. OneDay(cfg, lg, e) BY <1>1 DEF Files, OneDay
<1>6. NamedByDay(cfg, lg, e) BY <1>1 DEF Files, NamedByDay
<1>7. Small(cfg, lg, e)
  <2>1. Cardinality({}) = 0 BY FS_EmptySet
  <2> QED BY <1>1, <2>1 DEF Files, Small
<1> QED BY <1>1, <1>2, <1>3, <1>4, <1>5, <1>6, <1>7 DEF Files, e

(* The newest log is written to a file.                                    *)
Added(d, f, new) == [d EXCEPT ![f] = @ \cup {new}]


WriteFits(cfg, lg, d, name, new) ==
  /\ \A f \in DOMAIN d : \A n \in d[f] : n < new
  /\ Daily(cfg) => \A n \in d[<<name, 0>>] : Day(lg[n].ts) = Day(lg[new].ts)
  /\ cfg.dated /\ ~cfg.stuff_up => name = Day(lg[new].ts)
  /\ Limiting(cfg) => d[<<name, 0>>] = {} \/ Sum(lg, d[<<name, 0>>]) + lg[new].len <= cfg.limit

LEMMA FilesWritten ==
  ASSUME NEW cfg \in Config, NEW lg \in Seq(Log), NEW d, Files(cfg, lg, d),
         NEW name \in Nat, <<name, 0>> \in DOMAIN d, NEW new \in DOMAIN lg,
         WriteFits(cfg, lg, d, name, new)
  PROVE  /\ Files(cfg, lg, Added(d, <<name, 0>>, new))
         /\ IsFiniteSet(d[<<name, 0>>]) /\ new \notin d[<<name, 0>>]
         /\ Lens(lg, d[<<name, 0>>] \cup {new})
<1> DEFINE top == <<name, 0>>
<1> DEFINE e == Added(d, top, new)
<1>1. /\ DOMAIN e = DOMAIN d /\ DOMAIN d \subseteq Nat \X Nat
      /\ \A f \in DOMAIN d : e[f] = IF f = top THEN d[f] \cup {new} ELSE d[f]
  BY DEF Files, FilesType, Added
<1>2. FilesType(lg, e) BY DEF Files, FilesType, Added
<1>3. /\ IsFiniteSet(d[top]) /\ Lens(lg, d[top]) /\ new \notin d[top] /\ d[top] \subseteq 1 .. Len(lg)
      /\ new \in 1 .. Len(lg)
  <2>1. d[top] \subseteq 1 .. Len(lg) BY FileFinite DEF Files
  <2>2. \A n \in d[top] : n < new BY DEF WriteFits
  <2>3. new \in 1 .. Len(lg) OBVIOUS
  <2>4. new \notin d[top] BY <2>2, <2>3
  <2> QED BY <2>1, <2>3, <2>4, FileFinite DEF Files
<1>4. Lens(lg, d[top] \cup {new})
  <2>1. lg[new] \in Log OBVIOUS
  <2>2. lg[new].len \in Nat BY <2>1, ConfigAssumption DEF Log
  <2> QED BY <1>3, <2>2 DEF Lens
<1>5. Sum(lg, d[top] \cup {new}) = Sum(lg, d[top]) + lg[new].len
  <2> HIDE DEF top
  <2> QED BY <1>3, <1>4, SumAdd
<1> HIDE DEF e
<1>6. InOrder(e)
  <2> SUFFICES ASSUME NEW f \in DOMAIN d, NEW g \in DOMAIN d, f[1] = g[1], f[2] > g[2],
                      NEW m \in e[f], NEW n \in e[g]
               PROVE  m < n
    BY <1>1 DEF InOrder
  <2>1. f # top BY <1>1
  <2>2. m \in d[f] BY <1>1, <2>1
  <2>3. CASE n \in d[g] BY <2>2, <2>3 DEF Files, InOrder
  <2>4. CASE n = new BY <2>2, <2>4 DEF WriteFits
  <2> QED BY <1>1, <2>3, <2>4
<1>7. Shallow(cfg, e) BY <1>1 DEF Files, Shallow
<1>8. OneDay(cfg, lg, e)
  <2> SUFFICES ASSUME Daily(cfg), NEW f \in DOMAIN d, NEW m \in e[f], NEW n \in e[f]
               PROVE  Day(lg[m].ts) = Day(lg[n].ts)
    BY <1>1 DEF OneDay
  <2>1. CASE f # top BY <1>1, <2>1 DEF Files, OneDay
  <2>2. CASE f = top BY <1>1, <2>2 DEF Files, OneDay, WriteFits
  <2> QED BY <2>1, <2>2
<1>9. NamedByDay(cfg, lg, e)
  <2> SUFFICES ASSUME cfg.dated, ~cfg.stuff_up, NEW f \in DOMAIN d, NEW n \in e[f]
               PROVE  Day(lg[n].ts) = f[1]
    BY <1>1 DEF NamedByDay
  <2>1. CASE n \in d[f] BY <2>1 DEF Files, NamedByDay
  <2>2. CASE n = new /\ f = top BY <2>2 DEF WriteFits
  <2> QED BY <1>1, <2>1, <2>2
<1>10. Small(cfg, lg, e)
  <2> SUFFICES ASSUME Limiting(cfg), NEW f \in DOMAIN d, Cardinality(e[f]) > 1
               PROVE  Sum(lg, e[f]) <= cfg.limit
    BY <1>1 DEF Small
  <2>1. CASE f # top BY <1>1, <2>1 DEF Files, Small
  <2>2. CASE f = top /\ d[top] = {}
    <3>1. e[f] = {new} BY <1>1, <2>2
    <3>2. Cardinality({new}) = 1 BY FS_Singleton
    <3> QED BY <3>1, <3>2
  <2>3. CASE f = top /\ d[top] # {} BY <1>1, <1>5, <2>3 DEF WriteFits
  <2> QED BY <2>1, <2>2, <2>3
<1> QED BY <1>2, <1>3, <1>4, <1>6, <1>7, <1>8, <1>9, <1>10 DEF Files, e

-----------------------------------------------------------------------------
(* FileHandler::rollback: where each file it leaves comes from.            *)
Chain(d, name) == {i \in 0 .. LimitRoll : Unbroken(d, name, i)}
RolledFiles(d, name) ==
  (DOMAIN d \ ({name} \X Chain(d, name))) \cup {<<name, i + 1>> : i \in Chain(d, name) \ {LimitRoll}}
Origin(d, name, f) == IF f[1] = name /\ f[2] - 1 \in Chain(d, name) THEN <<name, f[2] - 1>> ELSE f

LEMMA RolledIs ==
  ASSUME NEW d, NEW name
  PROVE  Rolled(d, name) = [f \in RolledFiles(d, name) |-> d[Origin(d, name, f)]]
<1>1. Rolled(d, name) = [f \in RolledFiles(d, name) |->
         IF f[1] = name /\ f[2] - 1 \in Chain(d, name) THEN d[<<name, f[2] - 1>>] ELSE d[f]]
  BY DEF Rolled, RolledFiles, Chain
<1> QED BY <1>1 DEF Origin

LEMMA LimitRollType == config \in Config => LimitRoll \in Nat \ {0}
BY ConfigAssumption DEF Config, LimitRoll

(* The files that move are the first ones, without a gap.                  *)
LEMMA ChainFacts ==
  ASSUME config \in Config, NEW d, NEW name, NEW i \in Chain(d, name)
  PROVE  /\ i \in 0 .. LimitRoll /\ <<name, i>> \in DOMAIN d
         /\ \A j \in 0 .. i : j \in Chain(d, name)
<1>1. i \in 0 .. LimitRoll /\ Unbroken(d, name, i) BY DEF Chain
<1>2. <<name, i>> \in DOMAIN d BY <1>1 DEF Unbroken
<1>3. ASSUME NEW j \in 0 .. i PROVE j \in Chain(d, name)
  <2>1. j \in 0 .. LimitRoll /\ (\A k \in 0 .. j : k \in 0 .. i) BY <1>1, LimitRollType
  <2>2. Unbroken(d, name, j) BY <1>1, <2>1 DEF Unbroken
  <2> QED BY <2>1, <2>2 DEF Chain
<1> QED BY <1>1, <1>2, <1>3

LEMMA OriginFacts ==
  ASSUME config \in Config, NEW d, DOMAIN d \subseteq Nat \X Nat, NEW name \in Nat,
         NEW f \in RolledFiles(d, name)
  PROVE  /\ f \in Nat \X Nat /\ f # <<name, 0>>
         /\ Origin(d, name, f) \in DOMAIN d /\ Origin(d, name, f)[1] = f[1]
         /\ f \in DOMAIN d \/ f[2] <= LimitRoll
<1>1. CASE f \in DOMAIN d /\ f \notin {name} \X Chain(d, name)
  <2>1. f \in Nat \X Nat /\ f = <<f[1], f[2]>> BY <1>1
  <2>2. f # <<name, 0>>
    <3> SUFFICES ASSUME f = <<name, 0>> PROVE FALSE OBVIOUS
    <3>1. Unbroken(d, name, 0) BY <1>1 DEF Unbroken
    <3>2. 0 \in Chain(d, name) BY <3>1, LimitRollType DEF Chain
    <3> QED BY <1>1, <3>2
  <2>3. CASE f[1] = name /\ f[2] - 1 \in Chain(d, name)
    <3>1. Origin(d, name, f) = <<name, f[2] - 1>> BY <2>3 DEF Origin
    <3>2. <<name, f[2] - 1>> \in DOMAIN d BY <2>3, ChainFacts
    <3> QED BY <1>1, <2>1, <2>2, <2>3, <3>1, <3>2
  <2>4. CASE ~(f[1] = name /\ f[2] - 1 \in Chain(d, name))
    BY <1>1, <2>1, <2>2, <2>4 DEF Origin
  <2> QED BY <2>3, <2>4
<1>2. ASSUME NEW i \in Chain(d, name) \ {LimitRoll}, f = <<name, i + 1>>
      PROVE  /\ f \in Nat \X Nat /\ f # <<name, 0>>
             /\ Origin(d, name, f) \in DOMAIN d /\ Origin(d, name, f)[1] = f[1]
             /\ f[2] <= LimitRoll
  <2>1. i \in 0 .. LimitRoll /\ <<name, i>> \in DOMAIN d /\ LimitRoll \in Nat
    BY ChainFacts, LimitRollType
  <2>2. f[1] = name /\ f[2] = i + 1 /\ f[2] - 1 = i BY <1>2, <2>1
  <2>3. Origin(d, name, f) = <<name, i>> BY <2>2 DEF Origin
  <2>4. i + 1 <= LimitRoll BY <2>1
  <2> QED BY <1>2, <2>1, <2>2, <2>3, <2>4
<1> QED BY <1>1, <1>2 DEF RolledFiles

(* The order of the files is that of their origins.                        *)
LEMMA OriginOrder ==
  ASSUME config \in Config, NEW d, DOMAIN d \subseteq Nat \X Nat, NEW name \in Nat,
         NEW f \in RolledFiles(d, name), NEW g \in RolledFiles(d, name),
         f[1] = g[1], f[2] > g[2]
  PROVE  Origin(d, name, f)[2] > Origin(d, name, g)[2]
<1>1. f[2] \in Nat /\ g[2] \in Nat /\ g = <<g[1], g[2]>> BY OriginFacts
<1>2. CASE ~(f[1] = name /\ f[2] - 1 \in Chain(d, name)) BY <1>1, <1>2 DEF Origin
<1>3. CASE f[1] = name /\ f[2] - 1 \in Chain(d, name)
  <2>1. g[1] = name /\ g[2] \in Chain(d, name)
    <3>1. g[2] \in 0 .. f[2] - 1 BY <1>1
    <3> QED BY <1>3, <3>1, ChainFacts
  <2>2. g \in {name} \X Chain(d, name) BY <1>1, <2>1
  <2>3. PICK i \in Chain(d, name) : g = <<name, i + 1>> BY <2>2 DEF RolledFiles
  <2>4. i \in Int
    <3>1. i \in 0 .. LimitRoll BY ChainFacts
    <3> QED BY <3>1, LimitRollType
  <2>5. g[2] - 1 = i BY <2>3, <2>4
  <2>6. Origin(d, name, f)[2] = f[2] - 1 /\ Origin(d, name, g)[2] = g[2] - 1
    BY <1>3, <2>1, <2>5 DEF Origin
  <2> QED BY <1>1, <2>6
<1> QED BY <1>2, <1>3

LEMMA FilesRolled ==
  ASSUME config \in Config, config.rollback > 0 \/ config.limit > 0,
         NEW lg \in Seq(Log), NEW d, Files(config, lg, d), NEW name \in Nat
  PROVE  Files(config, lg, Rolled(d, name)) /\ <<name, 0>> \notin DOMAIN Rolled(d, name)
<1> DEFINE e == Rolled(d, name)
<1>1. /\ DOMAIN e = RolledFiles(d, name)
      /\ \A f \in DOMAIN e : e[f] = d[Origin(d, name, f)]
      /\ e = [f \in DOMAIN e |-> e[f]]
  BY RolledIs
<1> HIDE DEF e
<1>2. DOMAIN d \subseteq Nat \X Nat BY DEF Files, FilesType
<1>3. \A f \in DOMAIN e : Origin(d, name, f) \in DOMAIN d /\ Origin(d, name, f)[1] = f[1]
  BY <1>1, <1>2, OriginFacts
<1>4. FilesType(lg, e)
  <2>1. DOMAIN e \subseteq Nat \X Nat BY <1>1, <1>2, OriginFacts
  <2>2. \A f \in DOMAIN e : e[f] \in SUBSET DOMAIN lg BY <1>1, <1>3 DEF Files, FilesType
  <2>3. e \in [DOMAIN e -> SUBSET DOMAIN lg] BY <1>1, <2>2
  <2> QED BY <2>1, <2>3 DEF FilesType
<1>5. InOrder(e)
  <2> SUFFICES ASSUME NEW f \in DOMAIN e, NEW g \in DOMAIN e, f[1] = g[1], f[2] > g[2],
                      NEW m \in e[f], NEW n \in e[g]
               PROVE  m < n
    BY DEF InOrder
  <2>1. Origin(d, name, f)[2] > Origin(d, name, g)[2] BY <1>1, <1>2, OriginOrder
  <2>2. m \in d[Origin(d, name, f)] /\ n \in d[Origin(d, name, g)] BY <1>1
  <2>3. Origin(d, name, f)[1] = Origin(d, name, g)[1] BY <1>3
  <2> QED BY <1>3, <2>1, <2>2, <2>3 DEF Files, InOrder
<1>6. Shallow(config, e)
  <2> SUFFICES ASSUME NEW f \in DOMAIN e PROVE f[2] <= Deepest(config) BY DEF Shallow
  <2>1. LimitRoll = Deepest(config) BY ConfigAssumption DEF LimitRoll, Deepest, Config
  <2>2. f \in DOMAIN d \/ f[2] <= LimitRoll BY <1>1, <1>2, OriginFacts
  <2> QED BY <2>1, <2>2 DEF Files, Shallow
<1>7. OneDay(config, lg, e) BY <1>1, <1>3 DEF Files, OneDay
<1>8. NamedByDay(config, lg, e) BY <1>1, <1>3 DEF Files, NamedByDay
<1>9. Small(config, lg, e) BY <1>1, <1>3 DEF Files, Small
<1>10. <<name, 0>> \notin DOMAIN e BY <1>1, <1>2, OriginFacts
<1> QED BY <1>4, <1>5, <1>6, <1>7, <1>8, <1>9, <1>10 DEF Files, e

(* Only the last of a full set of backups is lost.                         *)
LEMMA RolledKeeps ==
  ASSUME config \in Config, config.rollback > 0 \/ config.limit > 0,
         NEW d, DOMAIN d \subseteq Nat \X Nat, Shallow(config, d), NEW name \in Nat,
         NEW f \in DOMAIN d, ~(f = <<name, LimitRoll>> /\ Unbroken(d, name, LimitRoll))
  PROVE  \E g \in DOMAIN Rolled(d, name) : Rolled(d, name)[g] = d[f]
<1>0. /\ DOMAIN Rolled(d, name) = RolledFiles(d, name)
      /\ \A g \in RolledFiles(d, name) : Rolled(d, name)[g] = d[Origin(d, name, g)]
  BY RolledIs
<1>1. f[1] \in Nat /\ f[2] \in Nat /\ f = <<f[1], f[2]>> /\ LimitRoll \in Nat
  BY LimitRollType
<1>2. CASE f \in {name} \X Chain(d, name)
  <2>1. f[1] = name /\ f[2] \in Chain(d, name) BY <1>2
  <2>2. f[2] # LimitRoll BY <1>1, <2>1 DEF Chain
  <2> DEFINE g == <<name, f[2] + 1>>
  <2>3. g \in RolledFiles(d, name) BY <2>1, <2>2 DEF RolledFiles
  <2>4. g[1] = name /\ g[2] - 1 = f[2] BY <1>1
  <2>5. Origin(d, name, g) = f BY <1>1, <2>1, <2>4 DEF Origin
  <2> QED BY <1>0, <2>3, <2>5
<1>3. CASE f \notin {name} \X Chain(d, name)
  <2>1. f \in RolledFiles(d, name) BY <1>3 DEF RolledFiles
  <2>2. ~(f[1] = name /\ f[2] - 1 \in Chain(d, name))
    <3> SUFFICES ASSUME f[1] = name, f[2] - 1 \in Chain(d, name) PROVE FALSE OBVIOUS
    <3>1. f[2] <= LimitRoll BY ConfigAssumption DEF Shallow, Deepest, LimitRoll, Config
    <3>2. \A j \in 0 .. f[2] - 1 : <<name, j>> \in DOMAIN d
      <4>1. Unbroken(d, name, f[2] - 1) BY DEF Chain
      <4> QED BY <4>1 DEF Unbroken
    <3>3. \A j \in 0 .. f[2] : <<name, j>> \in DOMAIN d
      <4> SUFFICES ASSUME NEW j \in 0 .. f[2] PROVE <<name, j>> \in DOMAIN d OBVIOUS
      <4>1. CASE j = f[2] BY <1>1, <4>1
      <4>2. CASE j # f[2] BY <1>1, <3>2, <4>2
      <4> QED BY <4>1, <4>2
    <3>4. f[2] \in Chain(d, name) BY <1>1, <3>1, <3>3 DEF Chain, Unbroken
    <3> QED BY <1>1, <1>3, <3>4
  <2>3. Origin(d, name, f) = f BY <2>2 DEF Origin
  <2> QED BY <1>0, <2>1, <2>3
<1> QED BY <1>2, <1>3

-----------------------------------------------------------------------------
(* The inductive invariant: the type, what is true of the files on disk,   *)
(* and what the device knows of the file it has open: its size and, if it  *)
(* changes files every day, its day.                                       *)
OpenFile ==
  writer # NoFile =>
    /\ fields.size = Sum(logs, disk[<<writer, 0>>])
    /\ \E day \in Nat :
         /\ fields.create_day = day * DAY
         /\ config.dated => writer = day
         /\ Daily(config) => \A n \in disk[<<writer, 0>>] : Day(logs[n].ts) = day

IInv == TypeOK /\ Files(config, logs, disk) /\ OpenFile

LEMMA Types ==
  ASSUME TypeOK
  PROVE  /\ config \in Config /\ logs \in Seq(Log)
         /\ config.limit \in Nat /\ config.rollback \in Nat
         /\ config.dated \in BOOLEAN /\ config.stuff_up \in BOOLEAN
         /\ DOMAIN logs = 1 .. Len(logs)
         /\ writer = NoFile \/ (writer \in Nat /\ <<writer, 0>> \in DOMAIN disk)
BY ConfigAssumption DEF TypeOK, Config, Log

Stamped(ts, len) == ts \in DAY .. MaxTime /\ len \in Lengths

LEMMA StampsType == TypeOK => Stamps \subseteq DAY .. MaxTime
BY TimeAssumption DEF TypeOK, Stamps

(* What EnterProcOutFileDevice is given, and the history afterwards.       *)
LEMMA HandedFacts ==
  ASSUME IInv, NEW ts, NEW len, Stamped(ts, len), Handed(ts, len)
  PROVE  /\ config' = config /\ clock' = clock
         /\ ts \in Nat /\ len \in Nat
         /\ logs' = Append(logs, [ts |-> ts, len |-> len]) /\ [ts |-> ts, len |-> len] \in Log
         /\ logs' \in Seq(Log) /\ Len(logs') = Len(logs) + 1 /\ DOMAIN logs' = 1 .. Len(logs) + 1
         /\ logs'[Len(logs) + 1] = [ts |-> ts, len |-> len]
         /\ \A n \in DOMAIN logs : n \in DOMAIN logs' /\ logs'[n] = logs[n]
<1>1. logs \in Seq(Log) BY Types DEF IInv
<1>2. ts \in Nat /\ len \in Nat /\ [ts |-> ts, len |-> len] \in Log
  BY TimeAssumption, ConfigAssumption DEF Stamped, Log
<1>3. /\ config' = config /\ clock' = clock
      /\ logs' = Append(logs, [ts |-> ts, len |-> len])
  BY DEF Handed
<1> QED BY <1>1, <1>2, <1>3

(* The parts of TypeOK that a step with a log can break.                   *)
FieldsType ==
  [size : Nat, create_day : Nat, last_try : Nat, error : {0, 2}, line : Nat, byte : Nat]

(* Writing to a file that is open, or was just opened, in d.               *)
LEMMA WriteStep ==
  ASSUME IInv, NEW ts, NEW len, Stamped(ts, len), Handed(ts, len),
         NEW d, Files(config, logs, d), NEW name \in Nat, <<name, 0>> \in DOMAIN d,
         NEW buffered \in SUBSET d[<<name, 0>>],
         NEW f \in FieldsType, f.size = Sum(logs, d[<<name, 0>>]),
         NEW day \in Nat, f.create_day = day * DAY, config.dated => name = day,
         Daily(config) => day = Day(ts) /\ \A n \in d[<<name, 0>>] : Day(logs[n].ts) = day,
         Limiting(config) => d[<<name, 0>>] = {} \/ f.size + len <= config.limit,
         Write(d, name, f, buffered, len)
  PROVE  IInv'
<1> DEFINE top == <<name, 0>>
<1> DEFINE new == Len(logs) + 1
<1>1. /\ config' = config /\ clock' = clock /\ ts \in Nat /\ len \in Nat
      /\ logs' = Append(logs, [ts |-> ts, len |-> len]) /\ [ts |-> ts, len |-> len] \in Log
      /\ logs' \in Seq(Log) /\ Len(logs') = Len(logs) + 1 /\ DOMAIN logs' = 1 .. Len(logs) + 1
      /\ logs'[Len(logs) + 1] = [ts |-> ts, len |-> len]
      /\ \A n \in DOMAIN logs : n \in DOMAIN logs' /\ logs'[n] = logs[n]
  BY HandedFacts
<1>2. /\ config \in Config /\ logs \in Seq(Log) /\ Len(logs) \in Nat /\ DOMAIN logs = 1 .. Len(logs)
      /\ config.dated \in BOOLEAN /\ config.stuff_up \in BOOLEAN
  BY Types DEF IInv
<1>3. Files(config, logs', d) BY <1>1, <1>2, FilesHanded
<1>4. /\ \A g \in DOMAIN d : d[g] \subseteq DOMAIN logs
      /\ IsFiniteSet(d[top])
      /\ DOMAIN d \subseteq Nat \X Nat /\ d \in [DOMAIN d -> SUBSET DOMAIN logs]
  BY <1>2, FileFinite DEF Files, FilesType
<1>5. /\ new \in DOMAIN logs' /\ \A g \in DOMAIN d : \A n \in d[g] : n < new
      /\ logs'[new].ts = ts /\ logs'[new].len = len
  BY <1>1, <1>2, <1>4
<1>6. Sum(logs', d[top]) = Sum(logs, d[top])
  <2>1. \A n \in d[top] : logs'[n] = logs[n] BY <1>1, <1>4
  <2> HIDE DEF top
  <2> QED BY <1>4, <2>1, SumSame
<1>7. /\ Files(config, logs', [d EXCEPT ![top] = @ \cup {new}])
      /\ Sum(logs', d[top] \cup {new}) = Sum(logs', d[top]) + logs'[new].len
  <2>1. Daily(config) => \A n \in d[top] : Day(logs'[n].ts) = Day(logs'[new].ts)
    BY <1>1, <1>4, <1>5
  <2>2. config.dated /\ ~config.stuff_up => name = Day(logs'[new].ts)
    BY <1>5 DEF Daily
  <2>3. Limiting(config) => d[top] = {} \/ Sum(logs', d[top]) + logs'[new].len <= config.limit
    BY <1>5, <1>6
  <2> DEFINE lh == logs'
  <2>4. lh \in Seq(Log) /\ Files(config, lh, d) /\ new \in DOMAIN lh BY <1>1, <1>3, <1>5
  <2>5. WriteFits(config, lh, d, name, new) BY <1>5, <2>1, <2>2, <2>3 DEF WriteFits
  <2> HIDE DEF new, lh
  <2> DEFINE old == d[<<name, 0>>]
  <2>6. /\ Files(config, lh, Added(d, <<name, 0>>, new))
        /\ IsFiniteSet(old) /\ new \notin old /\ Lens(lh, old \cup {new})
    BY <1>2, <2>4, <2>5, FilesWritten
  <2> HIDE DEF old
  <2>8. Sum(lh, old \cup {new}) = Sum(lh, old) + lh[new].len BY <2>6, SumAdd
  <2> QED BY <2>6, <2>8 DEF lh, Added, old
<1>8. /\ fields' = [f EXCEPT !.line = @ + 1, !.byte = @ + len, !.size = @ + len]
      /\ fields' \in FieldsType /\ fields'.size = f.size + len /\ fields'.create_day = f.create_day
  <2>1. fields' = [f EXCEPT !.line = @ + 1, !.byte = @ + len, !.size = @ + len]
    BY DEF Write
  <2>2. /\ f.line + 1 \in Nat /\ f.byte + len \in Nat /\ f.size + len \in Nat
        /\ f.create_day \in Nat /\ f.last_try \in Nat /\ f.error \in {0, 2}
    BY <1>1 DEF FieldsType
  <2>3. fields' = [size |-> f.size + len, create_day |-> f.create_day, last_try |-> f.last_try,
                   error |-> f.error, line |-> f.line + 1, byte |-> f.byte + len]
    BY <2>1 DEF FieldsType
  <2> QED BY <2>1, <2>2, <2>3 DEF FieldsType
<1>9. CASE /\ disk' = [d EXCEPT ![top] = @ \cup {new}]
           /\ writer' = name /\ unflushed' = buffered \cup {new}
  <2>1. /\ DOMAIN disk' = DOMAIN d /\ disk'[top] = d[top] \cup {new}
    BY <1>4, <1>9
  <2>2. Files(config, logs', disk') BY <1>7, <1>9
  <2>3. TypeOK'
    <3>1. disk' \in [DOMAIN disk' -> SUBSET DOMAIN logs'] /\ DOMAIN disk' \subseteq Nat \X Nat
      BY <2>2 DEF Files, FilesType
    <3>2. unflushed' \subseteq (IF writer' = NoFile THEN {} ELSE disk'[<<writer', 0>>])
      BY <1>9, <2>1 DEF NoFile
    <3>3. <<writer', 0>> \in DOMAIN disk' BY <1>9, <2>1
    <3> QED BY <1>1, <1>8, <3>1, <3>2, <3>3 DEF TypeOK, IInv, FieldsType, Log
  <2>4. OpenFile'
    <3>1. fields'.size = Sum(logs', disk'[<<writer', 0>>]) BY <1>5, <1>6, <1>7, <1>8, <1>9, <2>1
    <3>2. Daily(config) => \A n \in disk'[<<writer', 0>>] : Day(logs'[n].ts) = day
      BY <1>1, <1>4, <1>5, <1>9, <2>1
    <3>3. fields'.create_day = day * DAY /\ (config'.dated => writer' = day) BY <1>1, <1>8, <1>9
    <3> QED BY <1>1, <3>1, <3>2, <3>3 DEF OpenFile, Daily
  <2> QED BY <1>1, <2>2, <2>3, <2>4 DEF IInv
<1>10. ASSUME NEW kept \in Survivors(d[top], buffered), disk' = [d EXCEPT ![top] = kept],
              writer' = NoFile, unflushed' = {}
       PROVE  IInv'
  <2>1. kept \in SUBSET d[top] BY <1>10 DEF Survivors
  <2>2. Files(config, logs', disk') BY <1>1, <1>2, <1>3, <1>10, <2>1, FilesShrink
  <2>3. disk' \in [DOMAIN disk' -> SUBSET DOMAIN logs'] /\ DOMAIN disk' \subseteq Nat \X Nat
    BY <2>2 DEF Files, FilesType
  <2>4. TypeOK' BY <1>1, <1>8, <1>10, <2>3 DEF TypeOK, IInv, FieldsType, Log
  <2> QED BY <1>1, <1>10, <2>2, <2>4 DEF IInv, OpenFile
<1> QED BY <1>9, <1>10 DEF Write

-----------------------------------------------------------------------------
(* Steps with a log *)

LEMMA DropStep ==
  ASSUME IInv, NEW ts, NEW len, Stamped(ts, len), Drop(ts, len)
  PROVE  IInv'
<1>1. Handed(ts, len) /\ UNCHANGED <<disk, writer, unflushed, fields, failures>> BY DEF Drop
<1>2. /\ config' = config /\ clock' = clock
      /\ logs' = Append(logs, [ts |-> ts, len |-> len]) /\ [ts |-> ts, len |-> len] \in Log
      /\ logs' \in Seq(Log) /\ \A n \in DOMAIN logs : n \in DOMAIN logs' /\ logs'[n] = logs[n]
  BY <1>1, HandedFacts
<1>3. config \in Config /\ logs \in Seq(Log) BY Types DEF IInv
<1>4. Files(config, logs', disk') BY <1>1, <1>2, <1>3, FilesHanded DEF IInv
<1>5. TypeOK'
  <2>1. disk' \in [DOMAIN disk' -> SUBSET DOMAIN logs'] /\ DOMAIN disk' \subseteq Nat \X Nat
    BY <1>4 DEF Files, FilesType
  <2> QED BY <1>1, <1>2, <2>1 DEF TypeOK, IInv, Log
<1>6. OpenFile'
  <2> SUFFICES ASSUME writer # NoFile PROVE OpenFile' BY <1>1 DEF OpenFile
  <2>1. IsFiniteSet(disk[<<writer, 0>>]) /\ disk[<<writer, 0>>] \subseteq DOMAIN logs
    BY <1>3, Types, FileFinite DEF IInv, Files
  <2>2. Sum(logs', disk[<<writer, 0>>]) = Sum(logs, disk[<<writer, 0>>]) BY <1>2, <2>1, SumSame
  <2> QED BY <1>1, <1>2, <2>1, <2>2 DEF OpenFile, IInv, Daily
<1> QED BY <1>2, <1>4, <1>5, <1>6 DEF IInv

LEMMA WriteOpenStep ==
  ASSUME IInv, NEW ts, NEW len, Stamped(ts, len), WriteOpen(ts, len)
  PROVE  IInv'
<1>1. /\ Handed(ts, len) /\ writer # NoFile /\ ~Closing(ts, len)
      /\ Write(disk, writer, fields, unflushed, len)
  BY DEF WriteOpen, KeepsOpen
<1>2. ts \in Nat /\ len \in Nat BY <1>1, HandedFacts
<1>3. /\ writer \in Nat /\ <<writer, 0>> \in DOMAIN disk
      /\ config.dated \in BOOLEAN /\ config.stuff_up \in BOOLEAN
      /\ config.limit \in Nat /\ config.rollback \in Nat
  BY <1>1, Types DEF IInv
<1>4. unflushed \in SUBSET disk[<<writer, 0>>] /\ fields \in FieldsType
  BY <1>1 DEF IInv, TypeOK, FieldsType
<1>5. PICK day \in Nat :
        /\ fields.create_day = day * DAY
        /\ config.dated => writer = day
        /\ Daily(config) => \A n \in disk[<<writer, 0>>] : Day(logs[n].ts) = day
  BY <1>1 DEF IInv, OpenFile
<1>6. fields.size = Sum(logs, disk[<<writer, 0>>]) BY <1>1 DEF IInv, OpenFile
<1>7. Daily(config) => day = Day(ts)
  <2> SUFFICES ASSUME Daily(config) PROVE day = Day(ts) OBVIOUS
  <2>1. SameDay(ts) BY <1>1 DEF Closing, Daily
  <2> QED BY <1>2, <1>5, <2>1, DayOf DEF SameDay
<1>8. Limiting(config) => fields.size + len <= config.limit
  <2>1. ~FileOver(len) BY <1>1 DEF Closing
  <2>2. fields.size \in Nat BY <1>4 DEF FieldsType
  <2> QED BY <1>2, <1>3, <2>1, <2>2 DEF FileOver, Limiting
<1> QED BY <1>1, <1>3, <1>4, <1>5, <1>6, <1>7, <1>8, WriteStep DEF IInv

(* The disk when fopen is called: with backups the file is away, unless    *)
(* stuff_up lets a new process go on with it.                              *)
LEMMA PreparedFacts ==
  ASSUME IInv, NEW ts \in Nat, NEW len \in Nat
  PROVE  /\ Name(ts) \in Nat
         /\ Files(config, logs, Prepared(ts, len))
         /\ ~config.stuff_up /\ (config.rollback > 0 \/ config.limit > 0) =>
              <<Name(ts), 0>> \notin DOMAIN Prepared(ts, len)
<1>1. /\ config \in Config /\ logs \in Seq(Log)
      /\ config.dated \in BOOLEAN /\ config.stuff_up \in BOOLEAN
  BY Types DEF IInv
<1>2. Name(ts) \in Nat BY DayType DEF Name
<1>3. CASE (config.rollback > 0 \/ config.limit > 0) /\ (~config.stuff_up \/ FileOver(len))
  <2>1. Prepared(ts, len) = Rolled(disk, Name(ts)) BY <1>3 DEF Prepared
  <2> QED BY <1>1, <1>2, <1>3, <2>1, FilesRolled DEF IInv
<1>4. CASE ~((config.rollback > 0 \/ config.limit > 0) /\ (~config.stuff_up \/ FileOver(len)))
  <2>1. Prepared(ts, len) = disk BY <1>4 DEF Prepared
  <2> QED BY <1>2, <1>4, <2>1 DEF IInv
<1> QED BY <1>3, <1>4

LEMMA OpenAndWriteStep ==
  ASSUME IInv, NEW ts, NEW len, Stamped(ts, len), OpenAndWrite(ts, len)
  PROVE  IInv'
<1> DEFINE name == Name(ts)
<1> DEFINE d == Created(Prepared(ts, len), name)
<1> DEFINE f == [fields EXCEPT !.size = Size(d[<<name, 0>>]), !.create_day = Day(ts) * DAY,
                               !.last_try = 0, !.error = 0]
<1>1. Handed(ts, len) /\ Write(d, name, f, {}, len) BY DEF OpenAndWrite
<1>2. ts \in Nat /\ len \in Nat /\ Day(ts) \in Nat /\ Day(ts) * DAY \in Nat
  BY <1>1, HandedFacts, DayType
<1>3. /\ config \in Config /\ logs \in Seq(Log)
      /\ config.dated \in BOOLEAN /\ config.stuff_up \in BOOLEAN
      /\ config.limit \in Nat /\ config.rollback \in Nat
  BY Types DEF IInv
<1>4. /\ name \in Nat /\ Files(config, logs, Prepared(ts, len))
      /\ ~config.stuff_up /\ (config.rollback > 0 \/ config.limit > 0) =>
           <<name, 0>> \notin DOMAIN Prepared(ts, len)
  BY <1>2, PreparedFacts
<1> HIDE DEF name
<1>5. /\ Files(config, logs, d) /\ <<name, 0>> \in DOMAIN d
      /\ ~config.stuff_up /\ (config.rollback > 0 \/ config.limit > 0) => d[<<name, 0>>] = {}
  BY <1>3, <1>4, FilesCreated
<1> HIDE DEF d
<1>6. /\ Size(d[<<name, 0>>]) = Sum(logs, d[<<name, 0>>])
      /\ Size(d[<<name, 0>>]) \in Nat
  BY <1>3, <1>5, SizeIsSum, FileFinite, SumType DEF Files
<1>7. /\ f \in FieldsType /\ f.size = Sum(logs, d[<<name, 0>>]) /\ f.create_day = Day(ts) * DAY
  <2>1. fields \in FieldsType BY DEF IInv, TypeOK, FieldsType
  <2> QED BY <1>2, <1>6, <2>1 DEF FieldsType
<1> HIDE DEF f
<1>8. config.dated => name = Day(ts) BY DEF name, Name
<1>9. Daily(config) => \A n \in d[<<name, 0>>] : Day(logs[n].ts) = Day(ts)
  <2> SUFFICES ASSUME Daily(config), NEW n \in d[<<name, 0>>] PROVE Day(logs[n].ts) = Day(ts)
    OBVIOUS
  <2>1. config.dated /\ ~config.stuff_up BY <1>5 DEF Daily
  <2>2. Day(logs[n].ts) = <<name, 0>>[1] BY <1>5, <2>1 DEF Files, NamedByDay
  <2> QED BY <1>8, <2>1, <2>2
<1>10. Limiting(config) => d[<<name, 0>>] = {} BY <1>5 DEF Limiting
<1> QED BY <1>1, <1>2, <1>4, <1>5, <1>7, <1>8, <1>9, <1>10, WriteStep

LEMMA OpenFailsStep ==
  ASSUME IInv, NEW ts, NEW len, Stamped(ts, len), OpenFails(ts, len)
  PROVE  IInv'
<1>1. /\ Handed(ts, len) /\ disk' = Prepared(ts, len) /\ writer' = NoFile /\ unflushed' = {}
      /\ fields' = [fields EXCEPT !.size = IF Closing(ts, len) THEN 0 ELSE @,
                                  !.last_try = ts, !.error = 2]
  BY DEF OpenFails
<1>2. /\ config' = config /\ clock' = clock /\ ts \in Nat /\ len \in Nat
      /\ logs' = Append(logs, [ts |-> ts, len |-> len]) /\ [ts |-> ts, len |-> len] \in Log
      /\ logs' \in Seq(Log)
  BY <1>1, HandedFacts
<1>3. config \in Config /\ logs \in Seq(Log) BY Types DEF IInv
<1>4. Files(config, logs', disk') BY <1>1, <1>2, <1>3, PreparedFacts, FilesHanded
<1>5. fields' \in FieldsType
  <2>1. fields \in FieldsType BY DEF IInv, TypeOK, FieldsType
  <2> QED BY <1>1, <1>2, <2>1 DEF FieldsType
<1>6. TypeOK'
  <2>1. disk' \in [DOMAIN disk' -> SUBSET DOMAIN logs'] /\ DOMAIN disk' \subseteq Nat \X Nat
    BY <1>4 DEF Files, FilesType
  <2> QED BY <1>1, <1>2, <1>5, <2>1 DEF TypeOK, IInv, Log, FieldsType
<1> QED BY <1>1, <1>2, <1>4, <1>6 DEF IInv, OpenFile

-----------------------------------------------------------------------------
(* Steps without a log *)

LEMMA QuietStep ==
  ASSUME IInv, Flush \/ Close \/ Tick \/ UNCHANGED vars
  PROVE  IInv'
<1>1. /\ UNCHANGED <<config, logs, disk, fields>> /\ writer' \in {writer, NoFile}
      /\ unflushed' = {} \/ UNCHANGED <<unflushed, writer>>
      /\ clock' \in {clock, clock + 1} /\ (clock' # clock => clock < MaxTime)
  BY DEF Flush, Close, Tick, vars
<1>2. TypeOK'
  <2>1. clock' \in DAY .. MaxTime BY <1>1, TimeAssumption DEF IInv, TypeOK
  <2>2. unflushed' \subseteq (IF writer' = NoFile THEN {} ELSE disk'[<<writer', 0>>])
        /\ (writer' = NoFile \/ <<writer', 0>> \in DOMAIN disk')
    BY DEF IInv, TypeOK, Flush, Close, Tick, vars
  <2> QED BY <1>1, <2>1, <2>2 DEF IInv, TypeOK
<1>3. OpenFile' BY <1>1 DEF IInv, OpenFile, Daily
<1> QED BY <1>1, <1>2, <1>3 DEF IInv

LEMMA CrashStep ==
  ASSUME IInv, Crash
  PROVE  IInv'
<1>1. /\ UNCHANGED <<config, clock, logs>> /\ writer' = NoFile /\ unflushed' = {}
      /\ fields' \in {fields, NoFields}
  BY DEF Crash
<1>2. Files(config, logs, disk')
  <2>1. CASE writer = NoFile BY <2>1 DEF Crash, IInv
  <2>2. CASE writer # NoFile
    <3>1. PICK kept \in Survivors(disk[<<writer, 0>>], unflushed) :
            disk' = [disk EXCEPT ![<<writer, 0>>] = kept]
      BY <2>2 DEF Crash
    <3>2. kept \in SUBSET disk[<<writer, 0>>] BY DEF Survivors
    <3> QED BY <2>2, <3>1, <3>2, Types, FilesShrink DEF IInv
  <2> QED BY <2>1, <2>2
<1>3. TypeOK'
  <2>1. disk' \in [DOMAIN disk' -> SUBSET DOMAIN logs'] /\ DOMAIN disk' \subseteq Nat \X Nat
    BY <1>1, <1>2 DEF Files, FilesType
  <2> QED BY <1>1, <2>1 DEF TypeOK, IInv, NoFields
<1> QED BY <1>1, <1>2, <1>3 DEF IInv, OpenFile

-----------------------------------------------------------------------------
LEMMA InitInv == Init => IInv
<1> SUFFICES ASSUME Init PROVE IInv OBVIOUS
<1>1. DOMAIN disk = {} /\ disk \in [DOMAIN disk -> SUBSET DOMAIN logs] BY DEF Init
<1>2. TypeOK
  <2>1. clock \in DAY .. MaxTime BY TimeAssumption DEF Init
  <2>2. logs \in Seq([ts : DAY .. MaxTime, len : Lengths]) BY DEF Init
  <2>3. NoFields \in [size : Nat, create_day : Nat, last_try : Nat, error : {0, 2}, line : Nat,
                      byte : Nat]
    BY DEF NoFields
  <2> QED BY <1>1, <2>1, <2>2, <2>3 DEF Init, TypeOK
<1>3. Files(config, logs, disk)
  BY <1>1 DEF Files, FilesType, InOrder, Shallow, OneDay, NamedByDay, Small
<1> QED BY <1>2, <1>3 DEF Init, IInv, OpenFile

LEMMA NextInv == IInv /\ [Next]_vars => IInv'
<1> SUFFICES ASSUME IInv, [Next]_vars PROVE IInv' OBVIOUS
<1>1. ASSUME NEW ts \in Stamps, NEW len \in Lengths, LogTo(ts, len) PROVE IInv'
  <2>1. Stamped(ts, len) BY StampsType DEF IInv, Stamped
  <2> QED BY <1>1, <2>1, DropStep, WriteOpenStep, OpenAndWriteStep, OpenFailsStep DEF LogTo
<1> QED BY <1>1, QuietStep, CrashStep DEF Next

(* The parts of the invariant, as the properties of FileDevice.            *)
LEMMA InvImplies ==
  IInv => SizeKnown /\ FilesInOrder /\ SizeLimited /\ OneDayPerFile /\ BackupsBounded
<1> SUFFICES ASSUME IInv
             PROVE  SizeKnown /\ FilesInOrder /\ SizeLimited /\ OneDayPerFile /\ BackupsBounded
  OBVIOUS
<1>1. SizeKnown BY SizeIsSum DEF IInv, OpenFile, SizeKnown
<1>2. FilesInOrder BY DEF IInv, Files, InOrder, FilesInOrder
<1>3. SizeLimited
  <2> SUFFICES ASSUME Limiting(config), NEW f \in DOMAIN disk, Cardinality(disk[f]) > 1
               PROVE  Size(disk[f]) <= config.limit
    BY DEF SizeLimited, Limiting
  <2> QED BY SizeIsSum DEF IInv, Files, Small
<1>4. OneDayPerFile BY DEF IInv, Files, OneDay, Daily, OneDayPerFile
<1>5. BackupsBounded BY DEF IInv, Files, Shallow, Deepest, BackupsBounded
<1> QED BY <1>1, <1>2, <1>3, <1>4, <1>5

-----------------------------------------------------------------------------
(* Where a log that was on disk is after a step *)

LEMMA OnDiskIn == \A n : n \in OnDisk <=> \E f \in DOMAIN disk : n \in disk[f]
BY DEF OnDisk

(* A write loses none but buffered logs, and those only if it fails.       *)
LEMMA WriteKeeps ==
  ASSUME NEW d, NEW name, NEW f, NEW buffered, NEW len, Write(d, name, f, buffered, len),
         d = [g \in DOMAIN d |-> d[g]], <<name, 0>> \in DOMAIN d,
         NEW g \in DOMAIN d, NEW n \in d[g], n \notin buffered
  PROVE  n \in OnDisk'
<1>1. CASE disk' = [d EXCEPT ![<<name, 0>>] = @ \cup {Len(logs) + 1}]
  <2>1. g \in DOMAIN disk' /\ n \in disk'[g] BY <1>1
  <2> QED BY <2>1 DEF OnDisk
<1>2. ASSUME NEW kept \in Survivors(d[<<name, 0>>], buffered),
             disk' = [d EXCEPT ![<<name, 0>>] = kept]
      PROVE  n \in OnDisk'
  <2>1. \A m \in d[<<name, 0>>] : m \notin buffered => m \in kept BY DEF Survivors
  <2>2. g \in DOMAIN disk' /\ n \in disk'[g] BY <1>2, <2>1
  <2> QED BY <2>2 DEF OnDisk
<1> QED BY <1>1, <1>2 DEF Write

(* Moving the files loses none but the logs of the last backup.            *)
LEMMA PreparedKeeps ==
  ASSUME IInv, NEW ts \in Nat, NEW len \in Nat, NEW n \in OnDisk, ~LastBackup(n)
  PROVE  \E g \in DOMAIN Prepared(ts, len) : n \in Prepared(ts, len)[g]
<1>1. PICK f \in DOMAIN disk : n \in disk[f] BY OnDiskIn
<1>2. CASE Prepared(ts, len) = disk BY <1>1, <1>2
<1>3. CASE /\ Prepared(ts, len) = Rolled(disk, Name(ts))
           /\ config.rollback > 0 \/ config.limit > 0
  <2>1. Name(ts) \in Nat BY PreparedFacts
  <2>2. ~(f = <<Name(ts), LimitRoll>> /\ Unbroken(disk, Name(ts), LimitRoll))
    <3> SUFFICES ASSUME f = <<Name(ts), LimitRoll>>, Unbroken(disk, Name(ts), LimitRoll)
                 PROVE  LastBackup(n)
      OBVIOUS
    <3> QED BY <1>1 DEF LastBackup
  <2>3. DOMAIN disk \subseteq Nat \X Nat /\ Shallow(config, disk) /\ config \in Config
    BY Types DEF IInv, Files, FilesType
  <2> QED BY <1>1, <1>3, <2>1, <2>2, <2>3, RolledKeeps
<1> QED BY <1>2, <1>3 DEF Prepared

LEMMA LossStep ==
  ASSUME IInv, [Next]_vars, NEW n \in OnDisk, n \notin OnDisk', ~LastBackup(n)
  PROVE  n \in unflushed
<1>1. PICK f \in DOMAIN disk : n \in disk[f] BY OnDiskIn
<1>2. disk = [g \in DOMAIN disk |-> disk[g]] BY DEF IInv, TypeOK
<1>3. disk' # disk BY DEF OnDisk
<1>4. ASSUME NEW ts \in Stamps, NEW len \in Lengths, WriteOpen(ts, len) PROVE n \in unflushed
  <2>1. writer # NoFile /\ Write(disk, writer, fields, unflushed, len)
    BY <1>4 DEF WriteOpen, KeepsOpen
  <2>2. <<writer, 0>> \in DOMAIN disk BY <2>1 DEF IInv, TypeOK
  <2> QED BY <1>1, <1>2, <2>1, <2>2, WriteKeeps
<1>5. ASSUME NEW ts \in Stamps, NEW len \in Lengths, OpenAndWrite(ts, len) PROVE FALSE
  <2>1. ts \in Nat /\ len \in Nat
    BY StampsType, TimeAssumption, ConfigAssumption DEF IInv
  <2> DEFINE d == Created(Prepared(ts, len), Name(ts))
  <2>2. PICK h : Write(d, Name(ts), h, {}, len) BY <1>5 DEF OpenAndWrite
  <2>3. PICK g \in DOMAIN Prepared(ts, len) : n \in Prepared(ts, len)[g]
    BY <2>1, PreparedKeeps
  <2>4. /\ g \in DOMAIN d /\ n \in d[g] /\ <<Name(ts), 0>> \in DOMAIN d
        /\ d = [x \in DOMAIN d |-> d[x]]
    BY <2>3 DEF Created
  <2> HIDE DEF d
  <2> QED BY <2>2, <2>4, WriteKeeps
<1>6. ASSUME NEW ts \in Stamps, NEW len \in Lengths, OpenFails(ts, len) PROVE FALSE
  <2>1. ts \in Nat /\ len \in Nat
    BY StampsType, TimeAssumption, ConfigAssumption DEF IInv
  <2>2. disk' = Prepared(ts, len) BY <1>6 DEF OpenFails
  <2>3. \E g \in DOMAIN disk' : n \in disk'[g] BY <2>1, <2>2, PreparedKeeps
  <2> QED BY <2>3 DEF OnDisk
<1>7. CASE Crash
  <2>1. writer # NoFile BY <1>3, <1>7 DEF Crash
  <2>2. PICK kept \in Survivors(disk[<<writer, 0>>], unflushed) :
          disk' = [disk EXCEPT ![<<writer, 0>>] = kept]
    BY <1>7, <2>1 DEF Crash
  <2>3. <<writer, 0>> \in DOMAIN disk BY <2>1 DEF IInv, TypeOK
  <2>4. \A m \in disk[<<writer, 0>>] : m \notin unflushed => m \in kept BY DEF Survivors
  <2>5. f \in DOMAIN disk' /\ (n \notin unflushed => n \in disk'[f])
    BY <1>1, <1>2, <2>2, <2>3, <2>4
  <2> QED BY <2>5 DEF OnDisk
<1>8. ASSUME NEW ts \in Stamps, NEW len \in Lengths, Drop(ts, len) PROVE FALSE
  BY <1>3, <1>8 DEF Drop
<1>9. CASE Flush \/ Close \/ Tick \/ UNCHANGED vars
  BY <1>3, <1>9 DEF Flush, Close, Tick, vars
<1> QED BY <1>4, <1>5, <1>6, <1>7, <1>8, <1>9 DEF Next, LogTo

-----------------------------------------------------------------------------
(* The theorems *)

(* What the device knows of its open file, and what holds of all files,    *)
(* survives every order of logs, failures, stops and crashes.              *)
THEOREM InvariantHolds == Spec => []IInv
<1> QED BY InitInv, NextInv, PTL DEF Spec

(* log_fields_, the open file and the files on disk have their types; what *)
(* is unflushed is in the open file.                                       *)
THEOREM TypeCorrect == Spec => []TypeOK
<1>1. IInv => TypeOK BY DEF IInv
<1> QED BY <1>1, InvariantHolds, PTL

(* log_fields_'s file size is the size of the file that fwrite appends to, *)
(* whatever was in the file when it was opened: limit_size is measured     *)
(* against the truth (fn_out_file_device.h).                               *)
THEOREM SizeIsKnown == Spec => []SizeKnown
<1> QED BY InvariantHolds, InvImplies, PTL

(* However often and under whatever names files are rolled, the files of   *)
(* one name, from the last backup down, hold the logs in order.            *)
THEOREM FilesKeepOrder == Spec => []FilesInOrder
<1> QED BY InvariantHolds, InvImplies, PTL

(* limit_size is kept, by every file with more than one log.               *)
THEOREM LimitIsKept == Spec => []SizeLimited
<1> QED BY InvariantHolds, InvImplies, PTL

(* A file holds the logs of one day.                                       *)
THEOREM DaysAreSeparate == Spec => []OneDayPerFile
<1> QED BY InvariantHolds, InvImplies, PTL

(* There are never more backups than the configuration allows.             *)
THEOREM BackupsAreBounded == Spec => []BackupsBounded
<1> QED BY InvariantHolds, InvImplies, PTL

(* A log that reached a file disappears only with the last backup of a     *)
(* full set, or from the buffer of a process or write that failed.         *)
THEOREM NothingElseIsLost == Spec => KeptUntilRolledOut
<1>1. IInv /\ [Next]_vars => [\A n \in OnDisk \ OnDisk' : LastBackup(n) \/ n \in unflushed]_vars
  <2> SUFFICES ASSUME IInv, [Next]_vars
               PROVE  \A n \in OnDisk \ OnDisk' : LastBackup(n) \/ n \in unflushed
    OBVIOUS
  <2> QED BY LossStep
<1> QED BY <1>1, InvariantHolds, PTL DEF Spec, KeptUntilRolledOut

=============================================================================
