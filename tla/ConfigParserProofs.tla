------------------------ MODULE ConfigParserProofs ------------------------
(***************************************************************************)
(* Proofs about ConfigParser, for every text and every sequence of lines.  *)
(***************************************************************************)
EXTENDS ConfigParser, WellFoundedInduction, TLAPS

-----------------------------------------------------------------------------
(* A fold over a sequence of length n is a function on the subsets of      *)
(* 1..n that takes away their largest elements.                            *)

(* A set of numbers has a smallest member.                                 *)
LEMMA SmallestNat ==
  ASSUME NEW B \in SUBSET Nat, B # {}
  PROVE  \E k \in B : \A j \in B : ~(j < k)
<1> DEFINE R == OpToRel(<, Nat)
<1>1. PICK k \in B : \A j \in B : <<j, k>> \notin R
  <2>1. IsWellFoundedOn(R, Nat) BY NatLessThanWellFounded
  <2> HIDE DEF R
  <2> QED BY <2>1, WFMin
<1>2. ASSUME NEW j \in B, j < k PROVE FALSE
  <2>1. <<j, k>> \in R BY <1>2 DEF OpToRel
  <2> QED BY <1>1, <2>1
<1> QED BY <1>2

LEMMA MaxOf ==
  ASSUME NEW k \in Nat, NEW s \in SUBSET (1 .. k), k \in s
  PROVE  Max(s) = k
<1>1. \A y \in s : y \in Int /\ k >= y OBVIOUS
<1>2. \A x \in s : (\A y \in s : x >= y) => x = k BY <1>1
<1>3. Max(s) \in s /\ \A y \in s : Max(s) >= y BY <1>1 DEF Max
<1> QED BY <1>2, <1>3

LEMMA MaxIn ==
  ASSUME NEW n \in Nat, NEW s \in SUBSET (1 .. n), s # {}
  PROVE  Max(s) \in s
<1> DEFINE B == {n - x : x \in s}
<1>1. PICK k \in B : \A j \in B : ~(j < k)
  <2>1. \A x \in s : n - x \in Nat OBVIOUS
  <2>2. B # {} OBVIOUS
  <2>3. B \in SUBSET Nat BY <2>1
  <2> HIDE DEF B
  <2> QED BY <2>2, <2>3, SmallestNat
<1>2. PICK x \in s : k = n - x OBVIOUS
<1>3. \A y \in s : x >= y
  <2> TAKE y \in s
  <2>1. ~(n - y < n - x) BY <1>1, <1>2
  <2> QED BY <2>1
<1> QED BY <1>3 DEF Max

(* What a fold's steps keep, its result has.                               *)
LEMMA FoldStays ==
  ASSUME NEW n \in Nat, NEW V, NEW g, g[{}] \in V,
         \A s \in SUBSET (1 .. n) : s # {} /\ g[s \ {Max(s)}] \in V => g[s] \in V
  PROVE  g[1 .. n] \in V
<1> DEFINE B == {k \in 0 .. n : \E s \in SUBSET (1 .. k) : g[s] \notin V}
<1> SUFFICES ASSUME g[1 .. n] \notin V PROVE FALSE OBVIOUS
<1>1. n \in B OBVIOUS
<1>2. PICK k \in B : \A j \in B : ~(j < k)
  <2>1. B \in SUBSET Nat /\ B # {} BY <1>1
  <2> HIDE DEF B
  <2> QED BY <2>1, SmallestNat
<1>3. PICK s \in SUBSET (1 .. k) : g[s] \notin V OBVIOUS
<1>4. s # {} BY <1>3
<1>5. k > 0
  <2>1. k \in Nat OBVIOUS
  <2>2. 1 .. 0 = {} OBVIOUS
  <2>3. k # 0 BY <1>4, <2>2
  <2> QED BY <2>1, <2>3
<1>6. k - 1 \notin B BY <1>2, <1>5
<1>7. \A t \in SUBSET (1 .. k - 1) : g[t] \in V BY <1>5, <1>6
<1>8. k \in s
  <2> SUFFICES ASSUME k \notin s PROVE FALSE OBVIOUS
  <2>1. s \in SUBSET (1 .. k - 1) OBVIOUS
  <2> QED BY <1>3, <1>7, <2>1
<1>9. Max(s) = k BY <1>8, MaxOf
<1>10. s \ {k} \in SUBSET (1 .. k - 1) OBVIOUS
<1>11. s \in SUBSET (1 .. n) OBVIOUS
<1> QED BY <1>3, <1>4, <1>7, <1>9, <1>10, <1>11

(* The function exists.                                                    *)
FoldStep(base, step, g, s) == IF s = {} THEN base ELSE step[<<Max(s), g[s \ {Max(s)}]>>]
FoldDefined(n, V, base, step) ==
  \E g \in [SUBSET (1 .. n) -> V] : \A s \in SUBSET (1 .. n) : g[s] = FoldStep(base, step, g, s)

LEMMA FoldExists ==
  ASSUME NEW n \in Nat, NEW V, NEW base \in V, NEW step,
         \A i \in 1 .. n : \A v \in V : step[<<i, v>>] \in V
  PROVE  FoldDefined(n, V, base, step)
<1> DEFINE Good(k) == \E g \in [SUBSET (1 .. k) -> V] :
                        \A s \in SUBSET (1 .. k) : g[s] = FoldStep(base, step, g, s)
<1> DEFINE B == {k \in 0 .. n : ~Good(k)}
<1> SUFFICES ASSUME ~Good(n) PROVE FALSE BY DEF FoldDefined
<1>1. PICK k \in B : \A j \in B : ~(j < k)
  <2> HIDE DEF Good
  <2>1. n \in B /\ B \in SUBSET Nat /\ B # {} OBVIOUS
  <2> HIDE DEF B
  <2> QED BY <2>1, SmallestNat
<1>2. ~Good(k) OBVIOUS
<1>3. k # 0
  <2> SUFFICES ASSUME k = 0 PROVE FALSE OBVIOUS
  <2> DEFINE g == [s \in SUBSET (1 .. 0) |-> base]
  <2>1. g \in [SUBSET (1 .. 0) -> V] OBVIOUS
  <2>2. \A s \in SUBSET (1 .. 0) : s = {} OBVIOUS
  <2>3. \A s \in SUBSET (1 .. 0) : g[s] = FoldStep(base, step, g, s) BY <2>2 DEF FoldStep
  <2>4. Good(0) BY <2>1, <2>3
  <2> QED BY <1>2, <2>4
<1>4. Good(k - 1)
  <2> HIDE DEF Good
  <2>1. k - 1 \in 0 .. n BY <1>3
  <2> QED BY <1>1, <2>1
<1>5. PICK g \in [SUBSET (1 .. k - 1) -> V] :
        \A s \in SUBSET (1 .. k - 1) : g[s] = FoldStep(base, step, g, s)
  BY <1>4
<1> DEFINE h == [s \in SUBSET (1 .. k) |-> IF k \in s THEN step[<<k, g[s \ {k}]>>] ELSE g[s]]
<1>6. \A s \in SUBSET (1 .. k) : s \ {k} \in SUBSET (1 .. k - 1) /\ (k \notin s => s \in SUBSET (1 .. k - 1))
  BY <1>3
<1>7. k \in 1 .. n BY <1>3
<1>8. h \in [SUBSET (1 .. k) -> V]
  <2>1. ASSUME NEW s \in SUBSET (1 .. k) PROVE h[s] \in V
    <3>1. CASE k \in s
      <4>1. g[s \ {k}] \in V BY <1>6
      <4> QED BY <3>1, <4>1, <1>7
    <3>2. CASE k \notin s BY <3>2, <1>6
    <3> QED BY <3>1, <3>2
  <2> QED BY <2>1
<1>9. ASSUME NEW s \in SUBSET (1 .. k) PROVE h[s] = FoldStep(base, step, h, s)
  <2>1. CASE k \in s
    <3>1. Max(s) = k BY <2>1, MaxOf
    <3>2. s \ {k} \in SUBSET (1 .. k) OBVIOUS
    <3>3. h[s \ {k}] = g[s \ {k}] BY <3>2
    <3>4. h[s] = step[<<k, g[s \ {k}]>>] BY <2>1
    <3> HIDE DEF h
    <3> QED BY <2>1, <3>1, <3>3, <3>4 DEF FoldStep
  <2>2. CASE k \notin s
    <3>1. h[s] = g[s] BY <2>2
    <3>2. h[s \ {Max(s)}] = g[s \ {Max(s)}] BY <2>2
    <3>3. g[s] = FoldStep(base, step, g, s) BY <1>5, <1>6, <2>2
    <3> HIDE DEF h
    <3> QED BY <3>1, <3>2, <3>3 DEF FoldStep
  <2> QED BY <2>1, <2>2
<1> HIDE DEF h
<1>10. Good(k) BY <1>8, <1>9
<1> QED BY <1>2, <1>10

-----------------------------------------------------------------------------
(* What the parser builds.  rets, blanks and vals are the error codes,     *)
(* indentations and values that the lines bring in.                        *)
DeviceTypes == Range(OutTypeOf) \cup {"NULL"}
Devices(vals) ==
  [device_id : Nat, out_type : DeviceTypes, fields : [Range(DeviceFields) -> vals]]
ChannelSet(vals) ==
  [channel_id : Nat, channel_type : {"SYNC", "ASYNC"}, fields : [Range(ChannelFields) -> vals],
   devices : Seq(Devices(vals))]
States(rets, blanks, vals) ==
  [ret : rets, level : {"logger", "channel", "device"}, channel_indent : blanks, device_indent : blanks,
   hot_update : BOOLEAN, channels : Seq(ChannelSet(vals))]

(* Within the limits and numbered without a gap; who is spoken to is there.*)
DevicesNumbered(channel) ==
  Len(channel.devices) <= MAX_DEVICE_SIZE
  /\ \A d \in 1 .. Len(channel.devices) : channel.devices[d].device_id = d - 1
ChannelsNumbered(channels) ==
  /\ Len(channels) <= MAX_CHANNEL_SIZE
  /\ \A c \in 1 .. Len(channels) :
       channels[c].channel_id = c - 1 /\ DevicesNumbered(channels[c])
LevelIsOpen(ls) ==
  /\ ls.level # "logger" => ls.channels # <<>>
  /\ ls.level = "device" => ls.channels[Len(ls.channels)].devices # <<>>
Sound(rets, blanks, vals) ==
  {ls \in States(rets, blanks, vals) : ChannelsNumbered(ls.channels) /\ LevelIsOpen(ls)}

Codes ==
  {"NONE", "NOT_ARRAY", "INDEX_OUT_MAX", "INDEX_NOT_SEQUENCE", "UNDEFINED_DEVICE_TYPE", "ILLEGAL_ADDR_IP",
   "UNDEFINED_DEVICE_KEY", "UNDEFINED_CHANNEL_KEY", "UNDEFINED_GLOBAL_KEY", "NO_ANY_CHANNEL"}
Covers(rets, blanks, vals) == Codes \subseteq rets /\ 0 \in blanks /\ {0, {}} \subseteq vals
Brings(line, rets, blanks, vals) ==
  line.ret \in rets /\ line.blank \in blanks /\ ValueOf(line.key, line.val) \in vals

LEMMA StoredType ==
  ASSUME NEW vals, NEW S, NEW fields \in [S -> vals], NEW key, NEW val, ValueOf(key, val) \in vals
  PROVE  Stored(fields, key, val) \in [S -> vals]
BY DEF Stored

LEMMA ZeroType ==
  ASSUME NEW vals, {0, {}} \subseteq vals, NEW fields
  PROVE  ZeroFields(fields) \in [Range(fields) -> vals]
BY DEF ZeroFields

LEMMA TypeNamed == \A val : ParseOutType(val) \in DeviceTypes
BY DEF ParseOutType, DeviceTypes, Range

LEMMA IndexErrorType ==
  ASSUME NEW line, NEW size, NEW max
  PROVE  IndexError(line, size, max) \in Codes
<1>1. CASE ~line.array BY <1>1 DEF IndexError, Codes
<1>2. CASE line.array /\ size >= max BY <1>2 DEF IndexError, Codes
<1>3. CASE line.array /\ ~(size >= max) BY <1>3 DEF IndexError, Codes
<1> QED BY <1>1, <1>2, <1>3

LEMMA FailSound ==
  ASSUME NEW rets, NEW blanks, NEW vals, NEW ls \in Sound(rets, blanks, vals), NEW code \in rets
  PROVE  Fail(ls, code) \in Sound(rets, blanks, vals)
BY DEF Fail, Sound, States, LevelIsOpen

(* The last channel is replaced by another with the same number.           *)
LEMMA ChannelReplaced ==
  ASSUME NEW rets, NEW blanks, NEW vals, NEW ls \in Sound(rets, blanks, vals), ls.channels # <<>>,
         NEW channel \in ChannelSet(vals), DevicesNumbered(channel),
         channel.channel_id = ls.channels[Len(ls.channels)].channel_id,
         ls.level = "device" => channel.devices # <<>>
  PROVE  [ls EXCEPT !.channels[Len(ls.channels)] = channel] \in Sound(rets, blanks, vals)
<1> DEFINE n == Len(ls.channels)
           chs == [ls.channels EXCEPT ![n] = channel]
           new == [ls EXCEPT !.channels = chs]
<1>1. ls.channels \in Seq(ChannelSet(vals)) /\ n \in Nat /\ n \in 1 .. n
  BY DEF Sound, States
<1>2. chs \in Seq(ChannelSet(vals)) /\ Len(chs) = n /\ chs[n] = channel
      /\ \A c \in 1 .. n : c # n => chs[c] = ls.channels[c]
  BY <1>1
<1>3. ChannelsNumbered(chs)
  <2>1. ChannelsNumbered(ls.channels) BY DEF Sound
  <2> HIDE DEF chs, n
  <2>2. ASSUME NEW c \in 1 .. n PROVE chs[c].channel_id = c - 1 /\ DevicesNumbered(chs[c])
    <3>1. ls.channels[c].channel_id = c - 1 /\ DevicesNumbered(ls.channels[c])
      BY <2>1 DEF ChannelsNumbered, n
    <3>2. CASE c = n BY <1>2, <3>1, <3>2 DEF n
    <3>3. CASE c # n BY <1>2, <3>1, <3>3
    <3> QED BY <3>2, <3>3
  <2>3. n <= MAX_CHANNEL_SIZE BY <2>1 DEF ChannelsNumbered, n
  <2> QED BY <1>2, <2>2, <2>3 DEF ChannelsNumbered
<1>4. new \in States(rets, blanks, vals)
  <2> HIDE DEF chs
  <2> QED BY <1>2 DEF Sound, States
<1>5. new.channels = chs /\ new.level = ls.level
  <2> HIDE DEF chs
  <2> QED BY DEF Sound, States
<1>6. LevelIsOpen(new)
  <2>1. chs # <<>> BY <1>1, <1>2
  <2> HIDE DEF chs, new
  <2> QED BY <1>2, <1>5, <2>1 DEF LevelIsOpen
<1>7. [ls EXCEPT !.channels[Len(ls.channels)] = channel] = new OBVIOUS
<1> HIDE DEF new, chs
<1> QED BY <1>3, <1>4, <1>5, <1>6, <1>7 DEF Sound

LEMMA DeviceReplaced ==
  ASSUME NEW vals, NEW channel \in ChannelSet(vals), DevicesNumbered(channel), channel.devices # <<>>,
         NEW device \in Devices(vals),
         device.device_id = channel.devices[Len(channel.devices)].device_id
  PROVE  LET new == [channel EXCEPT !.devices[Len(channel.devices)] = device]
         IN  new \in ChannelSet(vals) /\ DevicesNumbered(new) /\ new.devices # <<>>
             /\ new.channel_id = channel.channel_id
<1> DEFINE n == Len(channel.devices)
           devs == [channel.devices EXCEPT ![n] = device]
           new == [channel EXCEPT !.devices = devs]
<1>1. channel.devices \in Seq(Devices(vals)) /\ n \in Nat /\ n \in 1 .. n
  BY DEF ChannelSet
<1>2. devs \in Seq(Devices(vals)) /\ Len(devs) = n /\ devs[n] = device
      /\ \A d \in 1 .. n : d # n => devs[d] = channel.devices[d]
  BY <1>1
<1>3. devs # <<>> BY <1>1, <1>2
<1>4. new \in ChannelSet(vals) /\ new.devices = devs /\ new.channel_id = channel.channel_id
  <2> HIDE DEF devs
  <2> QED BY <1>2 DEF ChannelSet
<1>5. DevicesNumbered(new)
  <2> HIDE DEF devs, new
  <2>1. ASSUME NEW d \in 1 .. n PROVE devs[d].device_id = d - 1
    <3>1. channel.devices[d].device_id = d - 1 BY DEF DevicesNumbered, n
    <3>2. CASE d = n BY <1>2, <3>1, <3>2 DEF n
    <3>3. CASE d # n BY <1>2, <3>1, <3>3
    <3> QED BY <3>2, <3>3
  <2>2. n <= MAX_DEVICE_SIZE BY DEF DevicesNumbered, n
  <2> QED BY <1>2, <1>4, <2>1, <2>2 DEF DevicesNumbered
<1>6. [channel EXCEPT !.devices[Len(channel.devices)] = device] = new OBVIOUS
<1> HIDE DEF new, devs
<1> QED BY <1>3, <1>4, <1>5, <1>6

(* A device is added at the end.                                           *)
LEMMA DeviceAdded ==
  ASSUME NEW vals, NEW channel \in ChannelSet(vals), DevicesNumbered(channel),
         Len(channel.devices) < MAX_DEVICE_SIZE,
         NEW device \in Devices(vals), device.device_id = Len(channel.devices)
  PROVE  LET new == [channel EXCEPT !.devices = Append(@, device)]
         IN  new \in ChannelSet(vals) /\ DevicesNumbered(new) /\ new.devices # <<>>
             /\ new.channel_id = channel.channel_id
<1> DEFINE n == Len(channel.devices)
           devs == Append(channel.devices, device)
           new == [channel EXCEPT !.devices = devs]
<1>1. channel.devices \in Seq(Devices(vals)) /\ n \in Nat
  BY DEF ChannelSet
<1>2. devs \in Seq(Devices(vals)) /\ Len(devs) = n + 1 /\ devs[n + 1] = device
      /\ \A d \in 1 .. n : devs[d] = channel.devices[d]
  BY <1>1
<1>3. devs # <<>> BY <1>1, <1>2
<1>4. new \in ChannelSet(vals) /\ new.devices = devs /\ new.channel_id = channel.channel_id
  <2> HIDE DEF devs
  <2> QED BY <1>2 DEF ChannelSet
<1>5. DevicesNumbered(new)
  <2> HIDE DEF devs, new
  <2>1. ASSUME NEW d \in 1 .. n + 1 PROVE devs[d].device_id = d - 1
    <3>1. CASE d = n + 1 BY <1>1, <1>2, <3>1 DEF n
    <3>2. CASE d # n + 1
      <4>1. d \in 1 .. n BY <1>1, <3>2
      <4> QED BY <1>2, <4>1 DEF DevicesNumbered, n
    <3> QED BY <3>1, <3>2
  <2>2. n + 1 <= MAX_DEVICE_SIZE BY <1>1, ParserAssumption DEF n
  <2> QED BY <1>2, <1>4, <2>1, <2>2 DEF DevicesNumbered
<1> HIDE DEF new, devs
<1>6. [channel EXCEPT !.devices = Append(@, device)] = new BY DEF new, devs
<1> QED BY <1>3, <1>4, <1>5, <1>6

LEMMA ChannelAdded ==
  ASSUME NEW rets, NEW blanks, NEW vals, NEW ls \in Sound(rets, blanks, vals),
         Len(ls.channels) < MAX_CHANNEL_SIZE,
         NEW channel \in ChannelSet(vals), DevicesNumbered(channel),
         channel.channel_id = Len(ls.channels), NEW blank \in blanks
  PROVE  [ls EXCEPT !.channels = Append(@, channel), !.level = "channel", !.channel_indent = blank]
           \in Sound(rets, blanks, vals)
<1> DEFINE n == Len(ls.channels)
           chs == Append(ls.channels, channel)
           new == [ls EXCEPT !.channels = chs, !.level = "channel", !.channel_indent = blank]
<1>1. ls.channels \in Seq(ChannelSet(vals)) /\ n \in Nat
  BY DEF Sound, States
<1>2. chs \in Seq(ChannelSet(vals)) /\ Len(chs) = n + 1 /\ chs[n + 1] = channel
      /\ \A c \in 1 .. n : chs[c] = ls.channels[c]
  BY <1>1
<1>3. ChannelsNumbered(chs)
  <2>1. ChannelsNumbered(ls.channels) BY DEF Sound
  <2> HIDE DEF chs
  <2>2. ASSUME NEW c \in 1 .. n + 1 PROVE chs[c].channel_id = c - 1 /\ DevicesNumbered(chs[c])
    <3>1. CASE c = n + 1 BY <1>1, <1>2, <3>1
    <3>2. CASE c # n + 1
      <4>1. c \in 1 .. n BY <1>1, <3>2
      <4>2. ls.channels[c].channel_id = c - 1 /\ DevicesNumbered(ls.channels[c])
        BY <2>1, <4>1 DEF ChannelsNumbered
      <4> QED BY <1>2, <4>1, <4>2
    <3> QED BY <3>1, <3>2
  <2>3. n + 1 <= MAX_CHANNEL_SIZE BY <1>1, ParserAssumption
  <2> QED BY <1>2, <2>2, <2>3 DEF ChannelsNumbered
<1>4. new \in States(rets, blanks, vals) /\ new.channels = chs /\ new.level = "channel"
  <2> HIDE DEF chs
  <2> QED BY <1>2 DEF Sound, States
<1>5. chs # <<>> BY <1>1, <1>2
<1> HIDE DEF new, chs
<1>6. LevelIsOpen(new) BY <1>4, <1>5 DEF LevelIsOpen
<1>7. [ls EXCEPT !.channels = Append(@, channel), !.level = "channel", !.channel_indent = blank] = new
  BY DEF new, chs
<1> QED BY <1>3, <1>4, <1>6, <1>7 DEF Sound

LEMMA LastChannel ==
  ASSUME NEW rets, NEW blanks, NEW vals, NEW ls \in Sound(rets, blanks, vals), ls.channels # <<>>
  PROVE  /\ ls.channels[Len(ls.channels)] \in ChannelSet(vals)
         /\ DevicesNumbered(ls.channels[Len(ls.channels)])
<1>1. ls.channels \in Seq(ChannelSet(vals)) /\ Len(ls.channels) \in 1 .. Len(ls.channels)
  BY DEF Sound, States
<1> QED BY <1>1 DEF Sound, ChannelsNumbered

LEMMA ParseDeviceSound ==
  ASSUME NEW rets, NEW blanks, NEW vals, Covers(rets, blanks, vals),
         NEW ls \in Sound(rets, blanks, vals), ls.level = "device",
         NEW line, Brings(line, rets, blanks, vals)
  PROVE  ParseDevice(ls, line) \in Sound(rets, blanks, vals)
<1> DEFINE V == Sound(rets, blanks, vals)
           c == Len(ls.channels)
           channel == ls.channels[c]
           d == Len(channel.devices)
           old == channel.devices[d]
           type == ParseOutType(line.val)
<1>1. ls.channels # <<>> /\ channel.devices # <<>> BY DEF Sound, LevelIsOpen
<1>2. channel \in ChannelSet(vals) /\ DevicesNumbered(channel) BY <1>1, LastChannel
<1>3. old \in Devices(vals)
  <2>1. channel.devices \in Seq(Devices(vals)) BY <1>2 DEF ChannelSet
  <2> HIDE DEF channel
  <2> QED BY <1>1, <2>1
<1>4. ASSUME NEW device \in Devices(vals), device.device_id = old.device_id
      PROVE  [ls EXCEPT !.channels[c].devices[d] = device] \in V
  <2> DEFINE new == [channel EXCEPT !.devices[d] = device]
  <2>1. new \in ChannelSet(vals) /\ DevicesNumbered(new) /\ new.devices # <<>>
        /\ new.channel_id = channel.channel_id
    <3> HIDE DEF channel
    <3> QED BY <1>1, <1>2, <1>4, DeviceReplaced
  <2>2. [ls EXCEPT !.channels[c].devices[d] = device] = [ls EXCEPT !.channels[c] = new] OBVIOUS
  <2> HIDE DEF new
  <2> QED BY <1>1, <2>1, <2>2, ChannelReplaced
<1>5. \A code \in Codes : Fail(ls, code) \in V BY FailSound DEF Covers
<1>6. [ls EXCEPT !.channels[c].devices[d].out_type = type] \in V
  <2> DEFINE device == [old EXCEPT !.out_type = type]
  <2>1. device \in Devices(vals) /\ device.device_id = old.device_id
    <3> HIDE DEF old
    <3> QED BY <1>3, TypeNamed DEF Devices
  <2>2. [ls EXCEPT !.channels[c].devices[d].out_type = type]
          = [ls EXCEPT !.channels[c].devices[d] = device] OBVIOUS
  <2> HIDE DEF device, V
  <2> QED BY <1>4, <2>1, <2>2
<1>7. [ls EXCEPT !.channels[c].devices[d].fields = Stored(@, line.key, line.val)] \in V
  <2> DEFINE device == [old EXCEPT !.fields = Stored(old.fields, line.key, line.val)]
  <2>1. device \in Devices(vals) /\ device.device_id = old.device_id
    <3> HIDE DEF old
    <3>1. old.fields \in [Range(DeviceFields) -> vals] BY <1>3 DEF Devices
    <3>2. Stored(old.fields, line.key, line.val) \in [Range(DeviceFields) -> vals]
      BY <3>1, StoredType DEF Brings
    <3> QED BY <1>3, <3>2 DEF Devices
  <2>2. [ls EXCEPT !.channels[c].devices[d].fields = Stored(@, line.key, line.val)]
          = [ls EXCEPT !.channels[c].devices[d] = device] OBVIOUS
  <2> HIDE DEF device, V
  <2> QED BY <1>4, <2>1, <2>2
<1>8. ls \in V OBVIOUS
<1> HIDE DEF V
<1>9. CASE line.key = "OUT_TYPE"
  <2>1. ParseDevice(ls, line) =
          IF type = "NULL" THEN Fail(ls, "UNDEFINED_DEVICE_TYPE")
          ELSE [ls EXCEPT !.channels[c].devices[d].out_type = type]
    BY <1>9 DEF ParseDevice, FilterKeys, FileKeys
  <2> QED BY <1>5, <1>6, <2>1 DEF V, Codes
<1>10. CASE line.key # "OUT_TYPE" /\ line.key \in FilterKeys \cup {"DISABLE"}
  <2>1. ParseDevice(ls, line) = [ls EXCEPT !.channels[c].devices[d].fields = Stored(@, line.key, line.val)]
    BY <1>10 DEF ParseDevice, FilterKeys, FileKeys
  <2> QED BY <1>7, <2>1 DEF V
<1>11. CASE line.key # "OUT_TYPE" /\ line.key \notin FilterKeys \cup {"DISABLE"}
  <2>1. ParseDevice(ls, line) \in {ls} \cup {Fail(ls, code) : code \in Codes}
    BY <1>11 DEF ParseDevice, Codes
  <2> QED BY <1>5, <1>8, <2>1 DEF V
<1> QED BY <1>9, <1>10, <1>11

LEMMA ParseChannelSound ==
  ASSUME NEW rets, NEW blanks, NEW vals, Covers(rets, blanks, vals),
         NEW ls \in Sound(rets, blanks, vals), ls.level = "channel",
         NEW line, Brings(line, rets, blanks, vals)
  PROVE  ParseChannel(ls, line) \in Sound(rets, blanks, vals)
<1> DEFINE V == Sound(rets, blanks, vals)
           c == Len(ls.channels)
           channel == ls.channels[c]
           size == Len(channel.devices)
<1>1. ls.channels # <<>> BY DEF Sound, LevelIsOpen
<1>2. channel \in ChannelSet(vals) /\ DevicesNumbered(channel) BY <1>1, LastChannel
<1>3. ASSUME NEW new \in ChannelSet(vals), DevicesNumbered(new), new.channel_id = channel.channel_id
      PROVE  [ls EXCEPT !.channels[c] = new] \in V
  BY <1>1, <1>3, ChannelReplaced
<1>4. \A code \in Codes : Fail(ls, code) \in V BY FailSound DEF Covers
<1>5. [ls EXCEPT !.channels[c].channel_type = ParseChannelType(line.val)] \in V
  <2> DEFINE new == [channel EXCEPT !.channel_type = ParseChannelType(line.val)]
  <2>1. new \in ChannelSet(vals) /\ DevicesNumbered(new) /\ new.channel_id = channel.channel_id
    <3> HIDE DEF channel
    <3> QED BY <1>2 DEF ChannelSet, DevicesNumbered, ParseChannelType
  <2>2. [ls EXCEPT !.channels[c].channel_type = ParseChannelType(line.val)]
          = [ls EXCEPT !.channels[c] = new] OBVIOUS
  <2> HIDE DEF new, V
  <2> QED BY <1>3, <2>1, <2>2
<1>6. [ls EXCEPT !.channels[c].fields = Stored(@, line.key, line.val)] \in V
  <2> DEFINE new == [channel EXCEPT !.fields = Stored(channel.fields, line.key, line.val)]
  <2>1. new \in ChannelSet(vals) /\ DevicesNumbered(new) /\ new.channel_id = channel.channel_id
    <3> HIDE DEF channel
    <3>1. channel.fields \in [Range(ChannelFields) -> vals] BY <1>2 DEF ChannelSet
    <3>2. Stored(channel.fields, line.key, line.val) \in [Range(ChannelFields) -> vals]
      BY <3>1, StoredType DEF Brings
    <3> QED BY <1>2, <3>2 DEF ChannelSet, DevicesNumbered
  <2>2. [ls EXCEPT !.channels[c].fields = Stored(@, line.key, line.val)]
          = [ls EXCEPT !.channels[c] = new] OBVIOUS
  <2> HIDE DEF new, V
  <2> QED BY <1>3, <2>1, <2>2
<1>7. ASSUME IndexError(line, size, MAX_DEVICE_SIZE) = "NONE"
      PROVE  [ls EXCEPT !.channels[c].devices = Append(@, NewDevice(size)),
                        !.level = "device", !.device_indent = line.blank] \in V
  <2> DEFINE new == [channel EXCEPT !.devices = Append(@, NewDevice(size))]
             mid == [ls EXCEPT !.channels[c] = new]
  <2>1. size \in Nat BY <1>2 DEF ChannelSet
  <2>2. size < MAX_DEVICE_SIZE
    <3> HIDE DEF size
    <3> QED BY <1>7, <2>1, ParserAssumption DEF IndexError
  <2>3. NewDevice(size) \in Devices(vals) /\ NewDevice(size).device_id = size
    <3> HIDE DEF size
    <3> QED BY <2>1, ZeroType DEF NewDevice, Devices, Covers, DeviceTypes
  <2>4. /\ new \in ChannelSet(vals) /\ DevicesNumbered(new) /\ new.devices # <<>>
        /\ new.channel_id = channel.channel_id
    <3> HIDE DEF channel
    <3> QED BY <1>2, <2>2, <2>3, DeviceAdded
  <2>5. mid \in V
    <3> HIDE DEF new, V
    <3> QED BY <1>3, <2>4
  <2>6. mid.channels[Len(mid.channels)] = new
    <3>1. ls.channels \in Seq(ChannelSet(vals)) BY DEF Sound, States
    <3> HIDE DEF new
    <3> QED BY <1>1, <3>1 DEF Sound, States
  <2>7. [ls EXCEPT !.channels[c].devices = Append(@, NewDevice(size)),
                   !.level = "device", !.device_indent = line.blank]
          = [mid EXCEPT !.level = "device", !.device_indent = line.blank] OBVIOUS
  <2> HIDE DEF mid, new
  <2>8. [mid EXCEPT !.level = "device", !.device_indent = line.blank] \in V
    <3>1. mid.channels # <<>>
      BY <1>1, <2>5 DEF Sound, LevelIsOpen, mid, States
    <3> QED BY <2>4, <2>5, <2>6, <3>1 DEF Sound, States, LevelIsOpen, Brings
  <2> QED BY <2>7, <2>8
<1> HIDE DEF V
<1>8. CASE line.key = "SYNC"
  <2>1. ParseChannel(ls, line) = [ls EXCEPT !.channels[c].channel_type = ParseChannelType(line.val)]
    BY <1>8 DEF ParseChannel, FilterKeys
  <2> QED BY <1>5, <2>1 DEF V
<1>9. CASE line.key \in FilterKeys
  <2>1. ParseChannel(ls, line) = [ls EXCEPT !.channels[c].fields = Stored(@, line.key, line.val)]
    BY <1>9 DEF ParseChannel, FilterKeys
  <2> QED BY <1>6, <2>1 DEF V
<1>10. CASE line.key = "DEVICE"
  <2> DEFINE error == IndexError(line, size, MAX_DEVICE_SIZE)
  <2>1. ParseChannel(ls, line) =
          IF error # "NONE" THEN Fail(ls, error)
          ELSE [ls EXCEPT !.channels[c].devices = Append(@, NewDevice(size)),
                          !.level = "device", !.device_indent = line.blank]
    BY <1>10 DEF ParseChannel, FilterKeys
  <2>2. error \in Codes BY IndexErrorType
  <2> QED BY <1>4, <1>7, <2>1, <2>2 DEF V
<1>11. CASE line.key \notin FilterKeys \cup {"SYNC", "DEVICE"}
  <2>1. ParseChannel(ls, line) = Fail(ls, "UNDEFINED_CHANNEL_KEY") BY <1>11 DEF ParseChannel
  <2> QED BY <1>4, <2>1 DEF V, Codes
<1> QED BY <1>8, <1>9, <1>10, <1>11

LEMMA ParseGlobalSound ==
  ASSUME NEW rets, NEW blanks, NEW vals, Covers(rets, blanks, vals),
         NEW ls \in Sound(rets, blanks, vals),
         NEW line, Brings(line, rets, blanks, vals)
  PROVE  ParseGlobal(ls, line) \in Sound(rets, blanks, vals)
<1> DEFINE V == Sound(rets, blanks, vals)
           size == Len(ls.channels)
<1>1. \A code \in Codes : Fail(ls, code) \in V BY FailSound DEF Covers
<1>2. [ls EXCEPT !.hot_update = ParseBool(line.val)] \in V
  BY DEF Sound, States, LevelIsOpen, ParseBool
<1>3. ASSUME IndexError(line, size, MAX_CHANNEL_SIZE) = "NONE"
      PROVE  [ls EXCEPT !.channels = Append(@, NewChannel(size)),
                        !.level = "channel", !.channel_indent = line.blank] \in V
  <2>1. size \in Nat BY DEF Sound, States
  <2>2. size < MAX_CHANNEL_SIZE
    <3> HIDE DEF size
    <3> QED BY <1>3, <2>1, ParserAssumption DEF IndexError
  <2> DEFINE new == NewChannel(size)
  <2>3. new \in ChannelSet(vals) /\ DevicesNumbered(new) /\ new.channel_id = size
    <3> HIDE DEF size
    <3> QED BY <2>1, ZeroType, ParserAssumption DEF NewChannel, ChannelSet, Covers, DevicesNumbered
  <2> HIDE DEF new
  <2> QED BY <2>2, <2>3, ChannelAdded DEF new, Brings
<1>4. ls \in V OBVIOUS
<1> HIDE DEF V
<1>5. CASE line.key = "CHANNEL"
  <2> DEFINE error == IndexError(line, size, MAX_CHANNEL_SIZE)
  <2>1. ParseGlobal(ls, line) =
          IF error # "NONE" THEN Fail(ls, error)
          ELSE [ls EXCEPT !.channels = Append(@, NewChannel(size)),
                          !.level = "channel", !.channel_indent = line.blank]
    BY <1>5 DEF ParseGlobal
  <2>2. error \in Codes BY IndexErrorType
  <2> QED BY <1>1, <1>3, <2>1, <2>2 DEF V
<1>6. CASE line.key # "CHANNEL"
  <2>1. ParseGlobal(ls, line) \in
          {ls, [ls EXCEPT !.hot_update = ParseBool(line.val)], Fail(ls, "UNDEFINED_GLOBAL_KEY")}
    BY <1>6 DEF ParseGlobal
  <2> QED BY <1>1, <1>2, <1>4, <2>1 DEF V, Codes
<1> QED BY <1>5, <1>6

LEMMA ParseLineSound ==
  ASSUME NEW rets, NEW blanks, NEW vals, Covers(rets, blanks, vals),
         NEW ls \in Sound(rets, blanks, vals),
         NEW line, Brings(line, rets, blanks, vals)
  PROVE  ParseLine(ls, line) \in Sound(rets, blanks, vals)
<1> DEFINE V == Sound(rets, blanks, vals)
           level == LevelOf(ls, line)
           open == [ls EXCEPT !.level = level]
<1>1. level \in {"logger", "channel", "device"} BY DEF LevelOf
<1>2. (level = "device" => ls.level = "device") /\ (level = "channel" => ls.level \in {"channel", "device"})
  BY DEF LevelOf
<1> HIDE DEF level
<1>3. open \in V /\ open.level = level
  BY <1>1, <1>2 DEF Sound, States, LevelIsOpen
<1>4. Fail(ls, line.ret) \in V BY FailSound DEF Brings
<1> HIDE DEF open
<1>5. level = "device" => ParseDevice(open, line) \in V BY <1>3, ParseDeviceSound
<1>6. level = "channel" => ParseChannel(open, line) \in V BY <1>3, ParseChannelSound
<1>7. ParseGlobal(open, line) \in V BY <1>3, ParseGlobalSound
<1> HIDE DEF V
<1>8. ls \in V BY DEF V
<1> QED BY <1>1, <1>4, <1>5, <1>6, <1>7, <1>8 DEF ParseLine, level, open, V

-----------------------------------------------------------------------------
(* Whole files.                                                            *)
LinesFcn(lines) ==
  CHOOSE g : g = [s \in SUBSET DOMAIN lines |->
                    IF s = {} THEN StartParse ELSE ParseLine(g[s \ {Max(s)}], lines[Max(s)])]

LEMMA LinesFolded == \A lines : FoldLeft(ParseLine, StartParse, lines) = LinesFcn(lines)[DOMAIN lines]
BY DEF FoldLeft, MapThenFoldSet, LinesFcn

LEMMA StartSound ==
  ASSUME NEW rets, NEW blanks, NEW vals, Covers(rets, blanks, vals)
  PROVE  StartParse \in Sound(rets, blanks, vals)
BY ParserAssumption DEF StartParse, Sound, States, LevelIsOpen, ChannelsNumbered, Covers, Codes

LEMMA LinesSound ==
  ASSUME NEW n \in Nat, NEW lines, DOMAIN lines = 1 .. n, NEW rets, NEW blanks, NEW vals,
         Covers(rets, blanks, vals), \A i \in 1 .. n : Brings(lines[i], rets, blanks, vals)
  PROVE  FoldLeft(ParseLine, StartParse, lines) \in Sound(rets, blanks, vals)
<1> DEFINE V == Sound(rets, blanks, vals)
           step == [x \in (1 .. n) \X V |-> ParseLine(x[2], lines[x[1]])]
           g == LinesFcn(lines)
<1>1. \A i \in 1 .. n : \A v \in V : ParseLine(v, lines[i]) \in V BY ParseLineSound
<1>2. StartParse \in V BY StartSound
<1> HIDE DEF V
<1>3. \A i \in 1 .. n : \A v \in V : step[<<i, v>>] = ParseLine(v, lines[i]) OBVIOUS
<1> HIDE DEF step
<1>4. PICK h \in [SUBSET (1 .. n) -> V] : \A s \in SUBSET (1 .. n) : h[s] = FoldStep(StartParse, step, h, s)
  <2>1. \A i \in 1 .. n : \A v \in V : step[<<i, v>>] \in V BY <1>1, <1>3
  <2> HIDE DEF g
  <2>2. FoldDefined(n, V, StartParse, step) BY <1>2, <2>1, FoldExists
  <2> QED BY <2>2 DEF FoldDefined
<1>5. \A s \in SUBSET (1 .. n) : s # {} => Max(s) \in 1 .. n /\ s \ {Max(s)} \in SUBSET (1 .. n)
  BY MaxIn
<1>6. h = [s \in SUBSET DOMAIN lines |->
             IF s = {} THEN StartParse ELSE ParseLine(h[s \ {Max(s)}], lines[Max(s)])]
  <2>1. ASSUME NEW s \in SUBSET (1 .. n)
        PROVE  h[s] = IF s = {} THEN StartParse ELSE ParseLine(h[s \ {Max(s)}], lines[Max(s)])
    BY <1>3, <1>4, <1>5 DEF FoldStep
  <2> QED BY <2>1
<1>7. g = [s \in SUBSET DOMAIN lines |->
             IF s = {} THEN StartParse ELSE ParseLine(g[s \ {Max(s)}], lines[Max(s)])]
  BY <1>6 DEF LinesFcn
<1> HIDE DEF g
<1>8. g[{}] \in V BY <1>2, <1>7
<1>9. \A s \in SUBSET (1 .. n) : s # {} /\ g[s \ {Max(s)}] \in V => g[s] \in V
  <2> SUFFICES ASSUME NEW s \in SUBSET (1 .. n), s # {}, g[s \ {Max(s)}] \in V PROVE g[s] \in V
    OBVIOUS
  <2>1. Max(s) \in 1 .. n BY <1>5
  <2>2. g[s] = ParseLine(g[s \ {Max(s)}], lines[Max(s)])
    <3>1. s \in SUBSET DOMAIN lines OBVIOUS
    <3> QED BY <1>7, <3>1
  <2> QED BY <1>1, <2>1, <2>2
<1>10. g[1 .. n] \in V BY <1>8, <1>9, FoldStays
<1> QED BY <1>10, LinesFolded DEF g, V

(* What a configuration that a logger starts with must be *)
WellFormed(channels, vals) ==
  /\ channels \in Seq(ChannelSet(vals)) /\ Len(channels) \in 1 .. MAX_CHANNEL_SIZE
  /\ ChannelsNumbered(channels)

(* A configuration that is accepted has one channel at least and keeps     *)
(* within the limits, its channels and devices are numbered from 0 without *)
(* a gap, and each has all its fields and a type that there is.            *)
THEOREM AcceptedIsWellFormed ==
  ASSUME NEW n \in Nat, NEW lines, DOMAIN lines = 1 .. n, ParseLines(lines).ret = "NONE"
  PROVE  /\ ParseLines(lines).hot_update \in BOOLEAN
         /\ WellFormed(ParseLines(lines).channels,
                       {0, {}} \cup {ValueOf(lines[i].key, lines[i].val) : i \in 1 .. n})
<1> DEFINE vals == {0, {}} \cup {ValueOf(lines[i].key, lines[i].val) : i \in 1 .. n}
           rets == Codes \cup {lines[i].ret : i \in 1 .. n}
           blanks == {0} \cup {lines[i].blank : i \in 1 .. n}
           ls == FoldLeft(ParseLine, StartParse, lines)
<1>1. Covers(rets, blanks, vals) BY DEF Covers
<1>2. \A i \in 1 .. n : Brings(lines[i], rets, blanks, vals) BY DEF Brings
<1> HIDE DEF vals, rets, blanks
<1>3. ls \in Sound(rets, blanks, vals) BY <1>1, <1>2, LinesSound
<1> HIDE DEF ls
<1>4. Fail(ls, "NO_ANY_CHANNEL").ret = "NO_ANY_CHANNEL" BY <1>3 DEF Fail, Sound, States
<1>5. ParseLines(lines) = ls /\ ls.channels # <<>>
  <2>1. ParseLines(lines) = IF ls.ret = "NONE" /\ ls.channels = <<>> THEN Fail(ls, "NO_ANY_CHANNEL") ELSE ls
    BY DEF ParseLines, ls
  <2> QED BY <1>4, <2>1
<1>6. ls.hot_update \in BOOLEAN /\ ls.channels \in Seq(ChannelSet(vals)) /\ ChannelsNumbered(ls.channels)
  BY <1>3 DEF Sound, States
<1>7. Len(ls.channels) \in 1 .. MAX_CHANNEL_SIZE
  <2>1. Len(ls.channels) \in Nat /\ Len(ls.channels) # 0 BY <1>5, <1>6
  <2>2. Len(ls.channels) <= MAX_CHANNEL_SIZE BY <1>6 DEF ChannelsNumbered
  <2> QED BY <2>1, <2>2, ParserAssumption
<1> QED BY <1>5, <1>6, <1>7 DEF WellFormed, vals

-----------------------------------------------------------------------------
(* Texts: cutting one into lines gives a sequence.                         *)
CutAt(ls, ch) == IF ch = "eol" THEN Append(ls, <<>>) ELSE [ls EXCEPT ![Len(ls)] = Append(@, ch)]
CutFcn(text) ==
  CHOOSE g : g = [s \in SUBSET DOMAIN text |->
                    IF s = {} THEN << <<>> >> ELSE CutAt(g[s \ {Max(s)}], text[Max(s)])]

LEMMA TextFolded ==
  \A text : LinesOf(text) = [i \in DOMAIN CutFcn(text)[DOMAIN text] |-> Lex_Line(CutFcn(text)[DOMAIN text][i])]
BY DEF LinesOf, FoldLeft, MapThenFoldSet, CutFcn, CutAt

LEMMA CutStep ==
  ASSUME NEW S, NEW ls \in Seq(Seq(S)), ls # <<>>, NEW ch \in S
  PROVE  CutAt(ls, ch) \in Seq(Seq(S)) /\ CutAt(ls, ch) # <<>>
<1>1. CASE ch = "eol"
  <2>1. <<>> \in Seq(S) OBVIOUS
  <2> QED BY <1>1, <2>1 DEF CutAt
<1>2. CASE ch # "eol"
  <2>1. Len(ls) \in 1 .. Len(ls) /\ ls[Len(ls)] \in Seq(S) OBVIOUS
  <2>2. Append(ls[Len(ls)], ch) \in Seq(S) BY <2>1
  <2> QED BY <1>2, <2>1, <2>2 DEF CutAt
<1> QED BY <1>1, <1>2

LEMMA LinesOfSequence ==
  ASSUME NEW n \in Nat, NEW text, DOMAIN text = 1 .. n
  PROVE  \E m \in Nat : DOMAIN LinesOf(text) = 1 .. m
<1> DEFINE S == {text[i] : i \in 1 .. n}
           V == {ls \in Seq(Seq(S)) : ls # <<>>}
           base == << <<>> >>
           step == [x \in (1 .. n) \X V |-> CutAt(x[2], text[x[1]])]
           g == CutFcn(text)
<1>1. \A i \in 1 .. n : \A v \in V : CutAt(v, text[i]) \in V
  <2> SUFFICES ASSUME NEW i \in 1 .. n, NEW v \in V PROVE CutAt(v, text[i]) \in V OBVIOUS
  <2>1. text[i] \in S /\ v \in Seq(Seq(S)) /\ v # <<>> OBVIOUS
  <2> HIDE DEF S
  <2> QED BY <2>1, CutStep
<1>2. base \in V
  <2> HIDE DEF S
  <2>1. <<>> \in Seq(S) OBVIOUS
  <2> QED BY <2>1
<1> HIDE DEF V, base
<1>3. \A i \in 1 .. n : \A v \in V : step[<<i, v>>] = CutAt(v, text[i]) OBVIOUS
<1> HIDE DEF step
<1>4. PICK h \in [SUBSET (1 .. n) -> V] : \A s \in SUBSET (1 .. n) : h[s] = FoldStep(base, step, h, s)
  <2>1. \A i \in 1 .. n : \A v \in V : step[<<i, v>>] \in V BY <1>1, <1>3
  <2> HIDE DEF g
  <2>2. FoldDefined(n, V, base, step) BY <1>2, <2>1, FoldExists
  <2> QED BY <2>2 DEF FoldDefined
<1>5. \A s \in SUBSET (1 .. n) : s # {} => Max(s) \in 1 .. n /\ s \ {Max(s)} \in SUBSET (1 .. n)
  BY MaxIn
<1>6. h = [s \in SUBSET DOMAIN text |->
             IF s = {} THEN base ELSE CutAt(h[s \ {Max(s)}], text[Max(s)])]
  <2>1. ASSUME NEW s \in SUBSET (1 .. n)
        PROVE  h[s] = IF s = {} THEN base ELSE CutAt(h[s \ {Max(s)}], text[Max(s)])
    BY <1>3, <1>4, <1>5 DEF FoldStep
  <2> QED BY <2>1
<1>7. g = [s \in SUBSET DOMAIN text |->
             IF s = {} THEN base ELSE CutAt(g[s \ {Max(s)}], text[Max(s)])]
  BY <1>6 DEF CutFcn, base
<1> HIDE DEF g
<1>8. g[{}] \in V BY <1>2, <1>7
<1>9. \A s \in SUBSET (1 .. n) : s # {} /\ g[s \ {Max(s)}] \in V => g[s] \in V
  <2> SUFFICES ASSUME NEW s \in SUBSET (1 .. n), s # {}, g[s \ {Max(s)}] \in V PROVE g[s] \in V
    OBVIOUS
  <2>1. Max(s) \in 1 .. n BY <1>5
  <2>2. g[s] = CutAt(g[s \ {Max(s)}], text[Max(s)])
    <3>1. s \in SUBSET DOMAIN text OBVIOUS
    <3> QED BY <1>7, <3>1
  <2> QED BY <1>1, <2>1, <2>2
<1>10. g[1 .. n] \in V BY <1>8, <1>9, FoldStays
<1>11. Len(g[1 .. n]) \in Nat /\ DOMAIN g[1 .. n] = 1 .. Len(g[1 .. n]) BY <1>10 DEF V
<1>12. DOMAIN LinesOf(text) = DOMAIN g[1 .. n] BY TextFolded DEF g
<1> QED BY <1>11, <1>12

(* The same for texts: whatever is in a file, if the parser accepts it the *)
(* configuration is well formed.                                           *)
TextVals(text) ==
  {0, {}} \cup {ValueOf(LinesOf(text)[i].key, LinesOf(text)[i].val) : i \in DOMAIN LinesOf(text)}

THEOREM AcceptedTextIsWellFormed ==
  ASSUME NEW n \in Nat, NEW text, DOMAIN text = 1 .. n, ParseLogger(text).ret = "NONE"
  PROVE  /\ ParseLogger(text).hot_update \in BOOLEAN
         /\ WellFormed(ParseLogger(text).channels, TextVals(text))
<1> DEFINE lines == LinesOf(text)
<1>1. PICK m \in Nat : DOMAIN lines = 1 .. m BY LinesOfSequence
<1>2. ParseLogger(text) = ParseLines(lines) BY DEF ParseLogger
<1>3. TextVals(text) = {0, {}} \cup {ValueOf(lines[i].key, lines[i].val) : i \in 1 .. m}
  BY <1>1 DEF TextVals
<1> HIDE DEF lines
<1> QED BY <1>1, <1>2, <1>3, AcceptedIsWellFormed

=============================================================================
