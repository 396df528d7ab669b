------------------------- MODULE ConfigLinesProofs -------------------------
(***************************************************************************)
(* Proofs about ParseLines, for files of any number of lines: which lines  *)
(* belong to which channel and device, and what the beginning of a file    *)
(* has in common with the whole.                                           *)
(***************************************************************************)
EXTENDS LexerProofs

-----------------------------------------------------------------------------
(* What one line does to the channels                                      *)

Priority(line, old) == IF line.key = "PRIORITY" THEN ParsePriority(line.val) ELSE old

(* Only the c-th member is another.                                        *)
OnlyChanged(old, new, c) == Len(new) = Len(old) /\ \A q \in 1 .. Len(old) : q # c => new[q] = old[q]

LEMMA PriorityField ==
  "PRIORITY" \in Range(ChannelFields) /\ "PRIORITY" \in Range(DeviceFields) /\ ~IsMask("PRIORITY")
<1>1. Len(Dims) \in Nat /\ \A i \in DOMAIN Dims : Dims[i] \in {"CATEGORY", "IDENTIFY"} BY ParserAssumption
<1>2. ChannelFieldAt(1) = "PRIORITY" BY DEF ChannelFieldAt
<1>3. 1 \in DOMAIN ChannelFields /\ ChannelFields[1] = "PRIORITY" BY <1>1, <1>2 DEF ChannelFields
<1>4. 2 \in DOMAIN DeviceFields /\ DeviceFields[2] = "PRIORITY" BY <1>1, <1>2 DEF DeviceFields
<1>5. ~IsMask("PRIORITY") BY <1>1 DEF IsMask, Filter
<1> QED BY <1>3, <1>4, <1>5 DEF Range

LEMMA StoredPriority ==
  ASSUME NEW S, NEW vals, NEW fields \in [S -> vals], "PRIORITY" \in S, NEW line
  PROVE  Stored(fields, line.key, line.val)["PRIORITY"] = Priority(line, fields["PRIORITY"])
BY DEF Stored, FieldOf, ValueOf, Priority

LEMMA NothingChanged == \A s, c : OnlyChanged(s, s, c)
BY DEF OnlyChanged

LEMMA CurrentChannel ==
  ASSUME NEW rets, NEW blanks, NEW vals, NEW ls \in Sound(rets, blanks, vals), ls.level # "logger"
  PROVE  /\ ls.channels \in Seq(ChannelSet(vals)) /\ Len(ls.channels) \in 1 .. Len(ls.channels)
         /\ ls.channels[Len(ls.channels)] \in ChannelSet(vals)
<1>1. ls.channels # <<>> /\ ls.channels \in Seq(ChannelSet(vals)) BY DEF Sound, States, LevelIsOpen
<1> QED BY <1>1

LEMMA CurrentDevice ==
  ASSUME NEW rets, NEW blanks, NEW vals, NEW ls \in Sound(rets, blanks, vals), ls.level = "device"
  PROVE  LET devices == ls.channels[Len(ls.channels)].devices
         IN  /\ devices \in Seq(Devices(vals)) /\ Len(devices) \in 1 .. Len(devices)
             /\ devices[Len(devices)] \in Devices(vals)
<1>1. ls.channels[Len(ls.channels)] \in ChannelSet(vals) BY CurrentChannel
<1> DEFINE devices == ls.channels[Len(ls.channels)].devices
<1>2. devices # <<>> /\ devices \in Seq(Devices(vals)) BY <1>1 DEF Sound, LevelIsOpen, ChannelSet
<1> HIDE DEF devices
<1>3. Len(devices) \in 1 .. Len(devices) /\ devices[Len(devices)] \in Devices(vals) BY <1>2
<1> QED BY <1>2, <1>3 DEF devices

(* A line that a device takes changes the last device only.                *)
InDevice(ls, r, line) ==
  LET c == Len(ls.channels)
      old == ls.channels[c]
      new == r.channels[c]
      d == Len(old.devices)
  IN  /\ OnlyChanged(ls.channels, r.channels, c) /\ new.channel_id = old.channel_id /\ new.fields = old.fields
      /\ OnlyChanged(old.devices, new.devices, d) /\ new.devices[d].device_id = old.devices[d].device_id
      /\ new.devices[d].fields["PRIORITY"] = Priority(line, old.devices[d].fields["PRIORITY"])
SameLevel(ls, r) ==
  r.level = ls.level /\ r.channel_indent = ls.channel_indent /\ r.device_indent = ls.device_indent

LEMMA DeviceEffect ==
  ASSUME NEW rets, NEW blanks, NEW vals, NEW ls \in Sound(rets, blanks, vals), ls.level = "device",
         NEW line, ParseDevice(ls, line).ret = "NONE"
  PROVE  /\ line.key \notin {"CHANNEL", "DEVICE"}
         /\ InDevice(ls, ParseDevice(ls, line), line) /\ SameLevel(ls, ParseDevice(ls, line))
         /\ ParseDevice(ls, line).hot_update = ls.hot_update
<1> DEFINE c == Len(ls.channels)
           channel == ls.channels[c]
           d == Len(channel.devices)
           old == channel.devices[d]
           type == ParseOutType(line.val)
           r == ParseDevice(ls, line)
<1>1. ls.channels \in Seq(ChannelSet(vals)) /\ c \in 1 .. Len(ls.channels) /\ channel \in ChannelSet(vals)
  BY CurrentChannel
<1>2. channel.devices \in Seq(Devices(vals)) /\ d \in 1 .. Len(channel.devices) /\ old \in Devices(vals) BY CurrentDevice
<1>3. \A code : Fail(ls, code).ret = code BY DEF Fail, Sound, States
<1>4. ls \in [ret : rets, level : {"logger", "channel", "device"}, channel_indent : blanks,
              device_indent : blanks, hot_update : BOOLEAN, channels : Seq(ChannelSet(vals))]
  BY DEF Sound, States
<1>5. ASSUME NEW device, device.device_id = old.device_id,
             device.fields["PRIORITY"] = Priority(line, old.fields["PRIORITY"]),
             r = [ls EXCEPT !.channels[c].devices[d] = device]
      PROVE  InDevice(ls, r, line) /\ SameLevel(ls, r) /\ r.hot_update = ls.hot_update
  <2> DEFINE devs == [channel.devices EXCEPT ![d] = device]
             new == [channel EXCEPT !.devices = devs]
             chs == [ls.channels EXCEPT ![c] = new]
  <2>1. r = [ls EXCEPT !.channels = chs] BY <1>5
  <2> HIDE DEF chs, r
  <2>2. r.channels = chs /\ SameLevel(ls, r) /\ r.hot_update = ls.hot_update BY <1>4, <2>1 DEF SameLevel
  <2>3. OnlyChanged(ls.channels, chs, c) /\ chs[c] = new
    <3> HIDE DEF new, c
    <3> QED BY <1>1 DEF OnlyChanged, chs
  <2>4. new.devices = devs /\ new.channel_id = channel.channel_id /\ new.fields = channel.fields
    <3> HIDE DEF devs, channel
    <3> QED BY <1>1 DEF ChannelSet, new
  <2>5. OnlyChanged(channel.devices, devs, d) /\ devs[d] = device
    <3> HIDE DEF d, channel
    <3> QED BY <1>2 DEF OnlyChanged
  <2> HIDE DEF devs, new
  <2> QED BY <1>5, <2>2, <2>3, <2>4, <2>5 DEF InDevice
<1>6. CASE line.key = "OUT_TYPE"
  <2>1. r = IF type = "NULL" THEN Fail(ls, "UNDEFINED_DEVICE_TYPE")
            ELSE [ls EXCEPT !.channels[c].devices[d].out_type = type]
    BY <1>6 DEF ParseDevice, FilterKeys, FileKeys
  <2> DEFINE device == [old EXCEPT !.out_type = type]
  <2>2. r = [ls EXCEPT !.channels[c].devices[d].out_type = type] BY <1>3, <2>1
  <2>3. r = [ls EXCEPT !.channels[c].devices[d] = device] BY <2>2
  <2>4. device.device_id = old.device_id /\ device.fields = old.fields
    <3> HIDE DEF old
    <3> QED BY <1>2 DEF Devices
  <2>5. device.fields["PRIORITY"] = Priority(line, old.fields["PRIORITY"]) BY <1>6, <2>4 DEF Priority
  <2> HIDE DEF device, r
  <2> QED BY <1>5, <1>6, <2>3, <2>4, <2>5 DEF r
<1>7. CASE line.key # "OUT_TYPE" /\ line.key \in FilterKeys \cup {"DISABLE"}
  <2> DEFINE device == [old EXCEPT !.fields = Stored(old.fields, line.key, line.val)]
  <2>1. r = [ls EXCEPT !.channels[c].devices[d].fields = Stored(@, line.key, line.val)]
    BY <1>7 DEF ParseDevice, FilterKeys, FileKeys
  <2>2. r = [ls EXCEPT !.channels[c].devices[d] = device] BY <2>1
  <2>3. device.device_id = old.device_id /\ device.fields = Stored(old.fields, line.key, line.val)
    <3> HIDE DEF old
    <3> QED BY <1>2 DEF Devices
  <2>4. old.fields \in [Range(DeviceFields) -> vals]
    <3> HIDE DEF old
    <3> QED BY <1>2 DEF Devices
  <2>5. device.fields["PRIORITY"] = Priority(line, old.fields["PRIORITY"])
    BY <2>3, <2>4, PriorityField, StoredPriority
  <2> HIDE DEF device, r
  <2>6. line.key \notin {"CHANNEL", "DEVICE"} BY <1>7 DEF FilterKeys
  <2> QED BY <1>5, <2>2, <2>3, <2>5, <2>6 DEF r
<1>8. CASE line.key # "OUT_TYPE" /\ line.key \notin FilterKeys \cup {"DISABLE"}
  <2>1. r \in {ls} \cup {Fail(ls, "ILLEGAL_ADDR_IP"), Fail(ls, "UNDEFINED_DEVICE_KEY")}
        /\ (line.key \in {"CHANNEL", "DEVICE"} => r = Fail(ls, "UNDEFINED_DEVICE_KEY"))
    BY <1>8 DEF ParseDevice, FileKeys
  <2>2. r = ls /\ line.key \notin {"CHANNEL", "DEVICE"} BY <1>3, <2>1
  <2>3. line.key # "PRIORITY" BY <1>8 DEF FilterKeys
  <2> HIDE DEF r
  <2> QED BY <2>2, <2>3, NothingChanged DEF InDevice, SameLevel, Priority, r
<1> QED BY <1>6, <1>7, <1>8

(* A line that a channel takes itself changes the last channel only, and   *)
(* leaves its devices as they are or adds one.                             *)
InChannel(ls, r, line) ==
  LET c == Len(ls.channels)
      old == ls.channels[c]
      new == r.channels[c]
  IN  /\ OnlyChanged(ls.channels, r.channels, c) /\ new.channel_id = old.channel_id
      /\ new.fields["PRIORITY"] = Priority(line, old.fields["PRIORITY"])
      /\ line.key # "DEVICE" => new.devices = old.devices /\ SameLevel(ls, r)
      /\ line.key = "DEVICE" =>
           /\ new.devices = Append(old.devices, NewDevice(Len(old.devices)))
           /\ r.level = "device" /\ r.channel_indent = ls.channel_indent /\ r.device_indent = line.blank

LEMMA ChannelEffect ==
  ASSUME NEW rets, NEW blanks, NEW vals, NEW ls \in Sound(rets, blanks, vals), ls.level = "channel",
         NEW line, ParseChannel(ls, line).ret = "NONE"
  PROVE  /\ line.key # "CHANNEL"
         /\ InChannel(ls, ParseChannel(ls, line), line)
         /\ ParseChannel(ls, line).hot_update = ls.hot_update
<1> DEFINE c == Len(ls.channels)
           channel == ls.channels[c]
           size == Len(channel.devices)
           r == ParseChannel(ls, line)
<1>1. ls.channels \in Seq(ChannelSet(vals)) /\ c \in 1 .. Len(ls.channels) /\ channel \in ChannelSet(vals)
  BY CurrentChannel
<1>2. \A code : Fail(ls, code).ret = code BY DEF Fail, Sound, States
<1>3. ls \in [ret : rets, level : {"logger", "channel", "device"}, channel_indent : blanks,
              device_indent : blanks, hot_update : BOOLEAN, channels : Seq(ChannelSet(vals))]
  BY DEF Sound, States
<1>4. ASSUME NEW new, r = [ls EXCEPT !.channels[c] = new]
      PROVE  /\ OnlyChanged(ls.channels, r.channels, c) /\ r.channels[c] = new
             /\ SameLevel(ls, r) /\ r.hot_update = ls.hot_update
  <2> DEFINE chs == [ls.channels EXCEPT ![c] = new]
  <2>1. r = [ls EXCEPT !.channels = chs] BY <1>4
  <2>2. OnlyChanged(ls.channels, chs, c) /\ chs[c] = new
    <3> HIDE DEF c
    <3> QED BY <1>1 DEF OnlyChanged
  <2> HIDE DEF chs, r
  <2>3. r.channels = chs /\ SameLevel(ls, r) /\ r.hot_update = ls.hot_update BY <1>3, <2>1 DEF SameLevel
  <2> QED BY <2>2, <2>3
<1>5. CASE line.key = "SYNC"
  <2> DEFINE new == [channel EXCEPT !.channel_type = ParseChannelType(line.val)]
  <2>1. r = [ls EXCEPT !.channels[c].channel_type = ParseChannelType(line.val)]
    BY <1>5 DEF ParseChannel, FilterKeys
  <2>2. r = [ls EXCEPT !.channels[c] = new] BY <2>1
  <2>3. new.channel_id = channel.channel_id /\ new.fields = channel.fields /\ new.devices = channel.devices
    <3> HIDE DEF channel
    <3> QED BY <1>1 DEF ChannelSet
  <2> HIDE DEF new, r
  <2> QED BY <1>4, <1>5, <2>2, <2>3 DEF InChannel, Priority, r
<1>6. CASE line.key \in FilterKeys
  <2> DEFINE new == [channel EXCEPT !.fields = Stored(channel.fields, line.key, line.val)]
  <2>1. r = [ls EXCEPT !.channels[c].fields = Stored(@, line.key, line.val)]
    BY <1>6 DEF ParseChannel, FilterKeys
  <2>2. r = [ls EXCEPT !.channels[c] = new] BY <2>1
  <2>3. /\ new.channel_id = channel.channel_id /\ new.devices = channel.devices
        /\ new.fields = Stored(channel.fields, line.key, line.val)
    <3> HIDE DEF channel
    <3> QED BY <1>1 DEF ChannelSet
  <2>4. channel.fields \in [Range(ChannelFields) -> vals]
    <3> HIDE DEF channel
    <3> QED BY <1>1 DEF ChannelSet
  <2>5. new.fields["PRIORITY"] = Priority(line, channel.fields["PRIORITY"])
    BY <2>3, <2>4, PriorityField, StoredPriority
  <2>6. line.key \notin {"CHANNEL", "DEVICE"} BY <1>6 DEF FilterKeys
  <2> HIDE DEF new, r
  <2> QED BY <1>4, <2>2, <2>3, <2>5, <2>6 DEF InChannel, r
<1>7. CASE line.key = "DEVICE"
  <2> DEFINE error == IndexError(line, size, MAX_DEVICE_SIZE)
             new == [channel EXCEPT !.devices = Append(@, NewDevice(size))]
             chs == [ls.channels EXCEPT ![c] = new]
  <2>1. r = IF error # "NONE" THEN Fail(ls, error)
            ELSE [ls EXCEPT !.channels[c].devices = Append(@, NewDevice(size)),
                            !.level = "device", !.device_indent = line.blank]
    BY <1>7 DEF ParseChannel, FilterKeys
  <2>2. r = [ls EXCEPT !.channels[c].devices = Append(@, NewDevice(size)),
                       !.level = "device", !.device_indent = line.blank]
    BY <1>2, <2>1
  <2>3. r = [ls EXCEPT !.channels = chs, !.level = "device", !.device_indent = line.blank] BY <2>2
  <2>4. OnlyChanged(ls.channels, chs, c) /\ chs[c] = new
    <3> HIDE DEF c, new
    <3> QED BY <1>1 DEF OnlyChanged
  <2>5. /\ new.channel_id = channel.channel_id /\ new.fields = channel.fields
        /\ new.devices = Append(channel.devices, NewDevice(size))
    <3> HIDE DEF channel
    <3> QED BY <1>1 DEF ChannelSet
  <2> HIDE DEF chs, new, r
  <2>6. /\ r.channels = chs /\ r.level = "device" /\ r.channel_indent = ls.channel_indent
        /\ r.device_indent = line.blank /\ r.hot_update = ls.hot_update
    BY <1>3, <2>3
  <2> QED BY <1>7, <2>4, <2>5, <2>6 DEF InChannel, Priority, r
<1>8. CASE line.key \notin FilterKeys \cup {"SYNC", "DEVICE"}
  <2>1. r = Fail(ls, "UNDEFINED_CHANNEL_KEY") BY <1>8 DEF ParseChannel
  <2> QED BY <1>2, <2>1
<1> QED BY <1>5, <1>6, <1>7, <1>8

(* A line outside of the channels adds one or leaves them as they are.     *)
InLogger(ls, r, line) ==
  /\ line.key # "CHANNEL" =>
       r.channels = ls.channels /\ SameLevel(ls, r) /\ line.key \notin {"DEVICE", "PRIORITY"}
  /\ line.key = "CHANNEL" =>
       /\ r.channels = Append(ls.channels, NewChannel(Len(ls.channels)))
       /\ r.level = "channel" /\ r.channel_indent = line.blank

LEMMA GlobalEffect ==
  ASSUME NEW rets, NEW blanks, NEW vals, NEW ls \in Sound(rets, blanks, vals), ls.level = "logger",
         NEW line, ParseGlobal(ls, line).ret = "NONE"
  PROVE  /\ InLogger(ls, ParseGlobal(ls, line), line)
         /\ ParseGlobal(ls, line).hot_update
              = IF line.key = "HOT_UPDATE" THEN ParseBool(line.val) ELSE ls.hot_update
<1> DEFINE size == Len(ls.channels)
           r == ParseGlobal(ls, line)
<1>1. \A code : Fail(ls, code).ret = code BY DEF Fail, Sound, States
<1>2. ls \in [ret : rets, level : {"logger", "channel", "device"}, channel_indent : blanks,
              device_indent : blanks, hot_update : BOOLEAN, channels : Seq(ChannelSet(vals))]
  BY DEF Sound, States
<1>3. CASE line.key = "CHANNEL"
  <2> DEFINE error == IndexError(line, size, MAX_CHANNEL_SIZE)
  <2>1. r = IF error # "NONE" THEN Fail(ls, error)
            ELSE [ls EXCEPT !.channels = Append(@, NewChannel(size)),
                            !.level = "channel", !.channel_indent = line.blank]
    BY <1>3 DEF ParseGlobal
  <2>2. r = [ls EXCEPT !.channels = Append(@, NewChannel(size)),
                       !.level = "channel", !.channel_indent = line.blank]
    BY <1>1, <2>1
  <2> HIDE DEF r
  <2>3. /\ r.channels = Append(ls.channels, NewChannel(size)) /\ r.level = "channel"
        /\ r.channel_indent = line.blank /\ r.hot_update = ls.hot_update
    BY <1>2, <2>2
  <2> QED BY <1>3, <2>3 DEF InLogger, r
<1>4. CASE line.key = "HOT_UPDATE"
  <2>1. r = [ls EXCEPT !.hot_update = ParseBool(line.val)] BY <1>4 DEF ParseGlobal
  <2> HIDE DEF r
  <2>2. r.channels = ls.channels /\ SameLevel(ls, r) /\ r.hot_update = ParseBool(line.val)
    BY <1>2, <2>1 DEF SameLevel
  <2> QED BY <1>4, <2>2 DEF InLogger, r
<1>5. CASE line.key \notin {"CHANNEL", "HOT_UPDATE"}
  <2>1. /\ r \in {ls, Fail(ls, "UNDEFINED_GLOBAL_KEY")}
        /\ line.key \in {"DEVICE", "PRIORITY"} => r = Fail(ls, "UNDEFINED_GLOBAL_KEY")
    BY <1>5 DEF ParseGlobal
  <2>2. r = ls /\ line.key \notin {"DEVICE", "PRIORITY"} BY <1>1, <2>1
  <2> HIDE DEF r
  <2> QED BY <1>5, <2>2 DEF InLogger, SameLevel, r
<1> QED BY <1>3, <1>4, <1>5

Opened(ls, line) == [ls EXCEPT !.level = LevelOf(ls, line)]

LEMMA OpenedSound ==
  ASSUME NEW rets, NEW blanks, NEW vals, NEW ls \in Sound(rets, blanks, vals), NEW line
  PROVE  /\ Opened(ls, line) \in Sound(rets, blanks, vals) /\ Opened(ls, line).level = LevelOf(ls, line)
         /\ Opened(ls, line).channels = ls.channels /\ Opened(ls, line).hot_update = ls.hot_update
         /\ Opened(ls, line).channel_indent = ls.channel_indent
         /\ Opened(ls, line).device_indent = ls.device_indent
         /\ LevelOf(ls, line) \in {"logger", "channel", "device"}
<1> DEFINE level == LevelOf(ls, line)
<1>1. level \in {"logger", "channel", "device"} BY DEF LevelOf
<1>2. (level = "device" => ls.level = "device") /\ (level = "channel" => ls.level \in {"channel", "device"})
  BY DEF LevelOf
<1> HIDE DEF level
<1>3. Opened(ls, line) = [ls EXCEPT !.level = level] BY DEF Opened, level
<1> QED BY <1>1, <1>2, <1>3 DEF Sound, States, LevelIsOpen, level

(* A line that is taken, and by whom.                                      *)
Taken(ls, r, line) ==
  LET open == Opened(ls, line)
  IN  /\ line.ret = "NONE"
      /\ open.level = "device" =>
           line.key \notin {"CHANNEL", "DEVICE"} /\ InDevice(open, r, line) /\ SameLevel(open, r)
      /\ open.level = "channel" => line.key # "CHANNEL" /\ InChannel(open, r, line)
      /\ open.level = "logger" => InLogger(open, r, line)
      /\ r.hot_update = IF open.level = "logger" /\ line.key = "HOT_UPDATE" THEN ParseBool(line.val)
                        ELSE ls.hot_update

LEMMA LineTaken ==
  ASSUME NEW rets, NEW blanks, NEW vals, NEW ls \in Sound(rets, blanks, vals), ls.ret = "NONE",
         NEW line, ~IsBlankLine(line), ParseLine(ls, line).ret = "NONE"
  PROVE  Taken(ls, ParseLine(ls, line), line)
<1> DEFINE open == Opened(ls, line)
           r == ParseLine(ls, line)
<1>1. line.ret = "NONE"
  <2> SUFFICES ASSUME line.ret # "NONE" PROVE FALSE OBVIOUS
  <2>1. r = Fail(ls, line.ret) BY DEF ParseLine
  <2>2. r.ret = line.ret BY <2>1 DEF Fail, Sound, States
  <2> QED BY <2>2
<1>2. r = CASE LevelOf(ls, line) = "device" -> ParseDevice(open, line)
            [] LevelOf(ls, line) = "channel" -> ParseChannel(open, line)
            [] LevelOf(ls, line) = "logger" -> ParseGlobal(open, line)
  BY <1>1 DEF ParseLine, Opened
<1>3. /\ open \in Sound(rets, blanks, vals) /\ open.level = LevelOf(ls, line)
      /\ open.hot_update = ls.hot_update /\ open.level \in {"logger", "channel", "device"}
  BY OpenedSound
<1> HIDE DEF open, r
<1>4. r.ret = "NONE" BY DEF r
<1>5. CASE open.level = "device"
  <2>1. r = ParseDevice(open, line) BY <1>2, <1>3, <1>5
  <2>2. /\ line.key \notin {"CHANNEL", "DEVICE"} /\ InDevice(open, r, line) /\ SameLevel(open, r)
        /\ r.hot_update = open.hot_update
    BY <1>3, <1>4, <1>5, <2>1, DeviceEffect
  <2> QED BY <1>1, <1>3, <1>5, <2>2 DEF Taken, open, r
<1>6. CASE open.level = "channel"
  <2>1. r = ParseChannel(open, line) BY <1>2, <1>3, <1>6
  <2>2. line.key # "CHANNEL" /\ InChannel(open, r, line) /\ r.hot_update = open.hot_update
    BY <1>3, <1>4, <1>6, <2>1, ChannelEffect
  <2> QED BY <1>1, <1>3, <1>6, <2>2 DEF Taken, open, r
<1>7. CASE open.level = "logger"
  <2>1. r = ParseGlobal(open, line) BY <1>2, <1>3, <1>7
  <2>2. /\ InLogger(open, r, line)
        /\ r.hot_update = IF line.key = "HOT_UPDATE" THEN ParseBool(line.val) ELSE open.hot_update
    BY <1>3, <1>4, <1>7, <2>1, GlobalEffect
  <2> QED BY <1>1, <1>3, <1>7, <2>2 DEF Taken, open, r
<1> QED BY <1>3, <1>5, <1>6, <1>7

LEMMA ErrorStays == \A ls, line : ls.ret # "NONE" => ParseLine(ls, line) = ls
BY DEF ParseLine

LEMMA BlankStays == \A ls, line : IsBlankLine(line) => ParseLine(ls, line) = ls
BY DEF ParseLine, IsBlankLine

-----------------------------------------------------------------------------
(* The states after each line                                              *)

IsRun(f, n, lines) == f[0] = StartParse /\ \A i \in 1 .. n : f[i] = ParseLine(f[i - 1], lines[i])

LEMMA LinesRun ==
  ASSUME NEW n \in Nat, NEW lines, DOMAIN lines = 1 .. n, NEW rets, NEW blanks, NEW vals,
         Covers(rets, blanks, vals), \A i \in 1 .. n : Brings(lines[i], rets, blanks, vals)
  PROVE  \E f : /\ IsRun(f, n, lines) /\ \A i \in 0 .. n : f[i] \in Sound(rets, blanks, vals)
                /\ FoldLeft(ParseLine, StartParse, lines) = f[n]
<1> DEFINE V == Sound(rets, blanks, vals)
           step == [x \in (1 .. n) \X V |-> ParseLine(x[2], lines[x[1]])]
           g == LinesFcn(lines)
<1>1. \A i \in 1 .. n : \A v \in V : ParseLine(v, lines[i]) \in V BY ParseLineSound
<1>2. StartParse \in V BY StartSound
<1> HIDE DEF V
<1>3. \A i \in 1 .. n : \A v \in V : step[<<i, v>>] = ParseLine(v, lines[i]) OBVIOUS
<1> HIDE DEF step
<1>4. PICK h \in [SUBSET (1 .. n) -> V] : \A s \in SUBSET (1 .. n) : h[s] = FoldStep(StartParse, step, h, s)
  <2>1. \A i \in 1 .. n : \A v \in V : step[<<i, v>>] \in V BY <1>1, <1>3
  <2> HIDE DEF g
  <2>2. FoldDefined(n, V, StartParse, step) BY <1>2, <2>1, FoldExists
  <2> QED BY <2>2 DEF FoldDefined
<1>5. \A s \in SUBSET (1 .. n) : s # {} => Max(s) \in 1 .. n /\ s \ {Max(s)} \in SUBSET (1 .. n)
  BY MaxIn
<1>6. h = [s \in SUBSET DOMAIN lines |->
             IF s = {} THEN StartParse ELSE ParseLine(h[s \ {Max(s)}], lines[Max(s)])]
  <2>1. ASSUME NEW s \in SUBSET (1 .. n)
        PROVE  h[s] = IF s = {} THEN StartParse ELSE ParseLine(h[s \ {Max(s)}], lines[Max(s)])
    BY <1>3, <1>4, <1>5 DEF FoldStep
  <2> QED BY <2>1
<1>7. g = [s \in SUBSET DOMAIN lines |->
             IF s = {} THEN StartParse ELSE ParseLine(g[s \ {Max(s)}], lines[Max(s)])]
  BY <1>6 DEF LinesFcn
<1> HIDE DEF g
<1> DEFINE f == [i \in 0 .. n |-> g[1 .. i]]
<1>8. f[0] = StartParse
  <2>1. f[0] = g[1 .. 0] OBVIOUS
  <2>2. 1 .. 0 = {} OBVIOUS
  <2>3. {} \in SUBSET DOMAIN lines OBVIOUS
  <2>4. g[{}] = StartParse BY <1>7, <2>3
  <2> QED BY <2>1, <2>2, <2>4
<1>9. ASSUME NEW i \in 1 .. n PROVE f[i] = ParseLine(f[i - 1], lines[i])
  <2>1. i \in 0 .. n /\ i - 1 \in 0 .. n /\ i \in Nat OBVIOUS
  <2>2. f[i] = g[1 .. i] /\ f[i - 1] = g[1 .. i - 1] BY <2>1
  <2>3. 1 .. i \in SUBSET DOMAIN lines /\ 1 .. i # {}
    <3>1. i \in 1 .. i /\ 1 .. i \subseteq 1 .. n BY <2>1
    <3> QED BY <3>1
  <2>4. Max(1 .. i) = i
    <3>1. i \in 1 .. i /\ 1 .. i \in SUBSET (1 .. i) BY <2>1
    <3> QED BY <2>1, <3>1, MaxOf
  <2>5. (1 .. i) \ {i} = 1 .. i - 1 BY <2>1
  <2>6. g[1 .. i] = ParseLine(g[(1 .. i) \ {Max(1 .. i)}], lines[Max(1 .. i)]) BY <1>7, <2>3
  <2> QED BY <2>2, <2>4, <2>5, <2>6
<1>10. FoldLeft(ParseLine, StartParse, lines) = f[n]
  <2>1. FoldLeft(ParseLine, StartParse, lines) = g[DOMAIN lines] BY LinesFolded DEF g
  <2> QED BY <2>1
<1> HIDE DEF f
<1> DEFINE S == {i \in 0 .. n : f[i] \in V}
<1>11. 0 \in S BY <1>2, <1>8
<1>12. \A i \in 1 .. n : i - 1 \in S => i \in S BY <1>1, <1>9
<1>13. \A i \in 0 .. n : i \in S
  <2> HIDE DEF S
  <2> QED BY <1>11, <1>12, Steps
<1> QED BY <1>8, <1>9, <1>10, <1>13 DEF V, IsRun

-----------------------------------------------------------------------------
(* Which items are open                                                    *)

LEMMA MaxFrom0 ==
  ASSUME NEW n \in Nat, NEW s \in SUBSET (0 .. n), s # {}
  PROVE  Max(s) \in s /\ \A y \in s : Max(s) >= y
<1> DEFINE B == {n - x : x \in s}
<1>1. PICK k \in B : \A j \in B : ~(j < k)
  <2>1. \A x \in s : n - x \in Nat OBVIOUS
  <2>2. B # {} OBVIOUS
  <2>3. B \in SUBSET Nat BY <2>1
  <2> HIDE DEF B
  <2> QED BY <2>2, <2>3, SmallestNat
<1>2. PICK x \in s : k = n - x OBVIOUS
<1>3. \A y \in s : x >= y
  <2> TAKE y \in s
  <2>1. ~(n - y < n - x) BY <1>1, <1>2
  <2> QED BY <2>1
<1> QED BY <1>3 DEF Max

LEMMA MaxHere ==
  ASSUME NEW k \in Nat, NEW s \in SUBSET (0 .. k), k \in s
  PROVE  Max(s) = k
<1>1. Max(s) \in s /\ Max(s) >= k BY MaxFrom0
<1>2. Max(s) \in 0 .. k BY <1>1
<1> QED BY <1>1, <1>2

(* The items that the next line could belong to, and those that it does.   *)
Alive(lines, n) ==
  {j \in 1 .. n : Opens(lines[j]) /\ \A k \in j + 1 .. n : lines[k].blank > lines[j].blank}
Kept(lines, n) == {j \in Alive(lines, n) : lines[j].blank < lines[n + 1].blank}

LEMMA ParentIs ==
  ASSUME NEW lines, NEW n \in Nat
  PROVE  ParentOf(lines, n + 1) = Max({0} \cup Kept(lines, n))
<1>1. (n + 1) - 1 = n OBVIOUS
<1>2. Kept(lines, n) = {j \in 1 .. n : /\ Opens(lines[j]) /\ lines[j].blank < lines[n + 1].blank
                                      /\ \A k \in j + 1 .. n : lines[k].blank > lines[j].blank}
  BY DEF Kept, Alive
<1> QED BY <1>1, <1>2 DEF ParentOf

LEMMA ParentRange ==
  ASSUME NEW lines, NEW i \in Nat \ {0}
  PROVE  ParentOf(lines, i) \in 0 .. i - 1
<1> DEFINE P == {0} \cup {j \in 1 .. i - 1 :
                           /\ Opens(lines[j]) /\ lines[j].blank < lines[i].blank
                           /\ \A k \in j + 1 .. i - 1 : lines[k].blank > lines[j].blank}
<1>1. P \in SUBSET (0 .. i - 1) /\ P # {} /\ i - 1 \in Nat OBVIOUS
<1>2. ParentOf(lines, i) = Max(P) BY DEF ParentOf
<1> HIDE DEF P
<1>3. Max(P) \in P BY <1>1, MaxFrom0
<1> QED BY <1>1, <1>2, <1>3

LEMMA AliveNext ==
  ASSUME NEW lines, NEW n \in Nat, \A j \in 1 .. n + 1 : lines[j].blank \in Nat
  PROVE  Alive(lines, n + 1) = Kept(lines, n) \cup {j \in {n + 1} : Opens(lines[j])}
<1>1. ASSUME NEW j \in 1 .. n PROVE j \in Alive(lines, n + 1) <=> j \in Kept(lines, n)
  <2>1. j + 1 .. n + 1 = (j + 1 .. n) \cup {n + 1} OBVIOUS
  <2>2. lines[n + 1].blank > lines[j].blank <=> lines[j].blank < lines[n + 1].blank OBVIOUS
  <2> QED BY <2>1, <2>2 DEF Alive, Kept
<1>2. n + 1 \in Alive(lines, n + 1) <=> Opens(lines[n + 1])
  <2>1. (n + 1) + 1 .. n + 1 = {} OBVIOUS
  <2> QED BY <2>1 DEF Alive
<1>3. Alive(lines, n + 1) \subseteq 1 .. n + 1 /\ Kept(lines, n) \subseteq 1 .. n BY DEF Alive, Kept
<1>4. 1 .. n + 1 = (1 .. n) \cup {n + 1} OBVIOUS
<1> QED BY <1>1, <1>2, <1>3, <1>4

(* What the level of the parser says of the open items.                    *)
ChannelOpen(lines, A, ls, c) ==
  /\ c \in A /\ lines[c].key = "CHANNEL" /\ lines[c].blank = ls.channel_indent
  /\ IndexOf(lines, c) + 1 = Len(ls.channels)
DeviceOpen(lines, A, ls, c, d) ==
  /\ d \in A /\ c < d /\ lines[d].key = "DEVICE" /\ lines[d].blank = ls.device_indent
  /\ ParentOf(lines, d) = c /\ lines[c].blank < lines[d].blank
  /\ IndexOf(lines, d) + 1 = Len(ls.channels[Len(ls.channels)].devices)
OpenAt(lines, A, ls) ==
  /\ ls.level = "logger" => A = {}
  /\ ls.level = "channel" => \E c \in A : A = {c} /\ ChannelOpen(lines, A, ls, c)
  /\ ls.level = "device" =>
       \E c, d \in A : A = {c, d} /\ ChannelOpen(lines, A, ls, c) /\ DeviceOpen(lines, A, ls, c, d)

LEMMA OpenNext ==
  ASSUME NEW rets, NEW blanks, NEW vals, NEW ls \in Sound(rets, blanks, vals),
         NEW lines, NEW n \in Nat, \A j \in 1 .. n + 1 : lines[j].blank \in Nat,
         OpenAt(lines, Alive(lines, n), ls)
  PROVE  OpenAt(lines, Kept(lines, n), Opened(ls, lines[n + 1]))
<1> DEFINE line == lines[n + 1]
           open == Opened(ls, line)
           A == Alive(lines, n)
           K == Kept(lines, n)
<1>1. /\ open.level = LevelOf(ls, line) /\ open.channels = ls.channels
      /\ open.channel_indent = ls.channel_indent /\ open.device_indent = ls.device_indent
      /\ ls.level \in {"logger", "channel", "device"}
  BY OpenedSound DEF Sound, States
<1>2. A \subseteq 1 .. n /\ line.blank \in Nat BY DEF Alive
<1>3. \A j \in A : j \in K <=> lines[j].blank < line.blank BY DEF Kept
<1>4. K \subseteq A BY DEF Kept
<1>5. \A j \in A : lines[j].blank \in Nat BY <1>2
<1> HIDE DEF open, A, K, line
<1>6. CASE ls.level = "logger"
  <2>1. A = {} BY <1>6 DEF OpenAt, A
  <2>2. open.level = "logger" BY <1>1, <1>6 DEF LevelOf
  <2> QED BY <1>4, <2>1, <2>2 DEF OpenAt, K, open, line
<1>7. CASE ls.level = "channel"
  <2>1. PICK c \in A : A = {c} /\ ChannelOpen(lines, A, ls, c) BY <1>7 DEF OpenAt, A
  <2>2. lines[c].blank = ls.channel_indent /\ lines[c].blank \in Nat BY <1>5, <2>1 DEF ChannelOpen
  <2>3. CASE line.blank > ls.channel_indent
    <3>1. open.level = "channel" BY <1>1, <1>7, <2>3 DEF LevelOf
    <3>2. K = {c} BY <1>2, <1>3, <1>4, <2>1, <2>2, <2>3
    <3>3. ChannelOpen(lines, K, open, c) BY <1>1, <2>1, <3>2 DEF ChannelOpen
    <3> QED BY <3>1, <3>2, <3>3 DEF OpenAt, K, open, line
  <2>4. CASE ~(line.blank > ls.channel_indent)
    <3>1. open.level = "logger" BY <1>1, <1>7, <2>4 DEF LevelOf
    <3>2. K = {} BY <1>2, <1>3, <1>4, <2>1, <2>2, <2>4
    <3> QED BY <3>1, <3>2 DEF OpenAt, K, open, line
  <2> QED BY <2>3, <2>4
<1>8. CASE ls.level = "device"
  <2>1. PICK c, d \in A : A = {c, d} /\ ChannelOpen(lines, A, ls, c) /\ DeviceOpen(lines, A, ls, c, d)
    BY <1>8 DEF OpenAt, A
  <2>2. /\ lines[c].blank = ls.channel_indent /\ lines[c].blank \in Nat
        /\ lines[d].blank = ls.device_indent /\ lines[d].blank \in Nat
        /\ lines[c].blank < lines[d].blank
    BY <1>5, <2>1 DEF ChannelOpen, DeviceOpen
  <2>3. CASE line.blank > ls.device_indent
    <3>1. open.level = "device" BY <1>1, <1>2, <1>8, <2>2, <2>3 DEF LevelOf
    <3>2. c \in K /\ d \in K BY <1>2, <1>3, <2>1, <2>2, <2>3
    <3>3. K = {c, d} BY <1>4, <2>1, <3>2
    <3>4. ChannelOpen(lines, K, open, c) /\ DeviceOpen(lines, K, open, c, d)
      BY <1>1, <2>1, <3>2 DEF ChannelOpen, DeviceOpen
    <3> QED BY <3>1, <3>2, <3>3, <3>4 DEF OpenAt, K, open, line
  <2>4. CASE ~(line.blank > ls.device_indent) /\ line.blank > ls.channel_indent
    <3>1. open.level = "channel" BY <1>1, <1>2, <1>8, <2>2, <2>4 DEF LevelOf
    <3>2. c \in K /\ d \notin K BY <1>2, <1>3, <2>1, <2>2, <2>4
    <3>3. K = {c} BY <1>4, <2>1, <3>2
    <3>4. ChannelOpen(lines, K, open, c) BY <1>1, <2>1, <3>2 DEF ChannelOpen
    <3> QED BY <3>1, <3>2, <3>3, <3>4 DEF OpenAt, K, open, line
  <2>5. CASE ~(line.blank > ls.device_indent) /\ ~(line.blank > ls.channel_indent)
    <3>1. open.level = "logger" BY <1>1, <1>8, <2>5 DEF LevelOf
    <3>2. c \notin K /\ d \notin K BY <1>2, <1>3, <2>1, <2>2, <2>5
    <3>3. K = {} BY <1>4, <2>1, <3>2
    <3> QED BY <3>1, <3>3 DEF OpenAt, K, open, line
  <2> QED BY <2>3, <2>4, <2>5
<1> QED BY <1>1, <1>6, <1>7, <1>8

(* The line's parent is the innermost of them.                             *)
LEMMA ParentFound ==
  ASSUME NEW lines, NEW n \in Nat, NEW ls, OpenAt(lines, Kept(lines, n), ls)
  PROVE  /\ ls.level = "logger" => ParentOf(lines, n + 1) = 0
         /\ \A c : ls.level = "channel" /\ Kept(lines, n) = {c} => ParentOf(lines, n + 1) = c
         /\ \A c, d : ls.level = "device" /\ Kept(lines, n) = {c, d} /\ c < d => ParentOf(lines, n + 1) = d
<1>1. Kept(lines, n) \subseteq 1 .. n BY DEF Kept, Alive
<1>2. ls.level = "logger" => ParentOf(lines, n + 1) = 0
  <2>1. Max({0}) = 0 BY MaxHere
  <2> QED BY <2>1, ParentIs DEF OpenAt
<1>3. ASSUME NEW c, Kept(lines, n) = {c} PROVE ParentOf(lines, n + 1) = c
  <2>1. c \in 1 .. n BY <1>1, <1>3
  <2>2. Max({0} \cup {c}) = c BY <2>1, MaxHere
  <2> QED BY <1>3, <2>2, ParentIs
<1>4. ASSUME NEW c, NEW d, Kept(lines, n) = {c, d}, c < d PROVE ParentOf(lines, n + 1) = d
  <2>1. c \in 1 .. n /\ d \in 1 .. n BY <1>1, <1>4
  <2>2. {0} \cup {c, d} \in SUBSET (0 .. d) BY <1>4, <2>1
  <2>3. Max({0} \cup {c, d}) = d BY <2>1, <2>2, MaxHere
  <2> QED BY <1>4, <2>3, ParentIs
<1> QED BY <1>2, <1>3, <1>4

-----------------------------------------------------------------------------
(* What was parsed of the first n lines                                    *)

ChannelLines(lines, n) == {i \in 1 .. n : lines[i].key = "CHANNEL"}
DeviceLines(lines, n, i) == {j \in 1 .. n : lines[j].key = "DEVICE" /\ ParentOf(lines, j) = i}
Own(lines, n, i) == {j \in i + 1 .. n : lines[j].key = "PRIORITY" /\ ParentOf(lines, j) = i}
PriorityTo(lines, n, i) ==
  IF Own(lines, n, i) = {} THEN 0 ELSE ParsePriority(lines[Max(Own(lines, n, i))].val)
Similar(lines, i) ==
  {j \in 1 .. i - 1 : Opens(lines[j]) /\ lines[j].key = lines[i].key /\ ParentOf(lines, j) = ParentOf(lines, i)}

DeviceIs(lines, n, j, device) ==
  device.device_id = IndexOf(lines, j) /\ device.fields["PRIORITY"] = PriorityTo(lines, n, j)
DevicesAre(lines, n, i, devices) ==
  /\ Len(devices) = Cardinality(DeviceLines(lines, n, i))
  /\ \A j \in DeviceLines(lines, n, i) :
       /\ IndexOf(lines, j) + 1 \in 1 .. Len(devices)
       /\ DeviceIs(lines, n, j, devices[IndexOf(lines, j) + 1])
ChannelIs(lines, n, i, channel) ==
  /\ channel.channel_id = IndexOf(lines, i) /\ channel.fields["PRIORITY"] = PriorityTo(lines, n, i)
  /\ DevicesAre(lines, n, i, channel.devices)
ItemsAre(lines, n, channels) ==
  /\ Len(channels) = Cardinality(ChannelLines(lines, n))
  /\ \A i \in ChannelLines(lines, n) :
       /\ ParentOf(lines, i) = 0 /\ IndexOf(lines, i) + 1 \in 1 .. Len(channels)
       /\ ChannelIs(lines, n, i, channels[IndexOf(lines, i) + 1])

LEMMA FiniteLines ==
  ASSUME NEW n \in Nat, NEW s \in SUBSET (1 .. n)
  PROVE  IsFiniteSet(s) /\ Cardinality(s) \in Nat
<1>1. IsFiniteSet(1 .. n) BY FS_Interval
<1>2. IsFiniteSet(s) BY <1>1, FS_Subset
<1> QED BY <1>2, FS_CardinalityType

LEMMA OneMore ==
  ASSUME NEW n \in Nat, NEW s \in SUBSET (1 .. n)
  PROVE  Cardinality(s \cup {n + 1}) = Cardinality(s) + 1
<1>1. n + 1 \notin s OBVIOUS
<1>2. IsFiniteSet(s) BY FiniteLines
<1> QED BY <1>1, <1>2, FS_AddElement

LEMMA IndexIs ==
  ASSUME NEW lines, NEW i \in Nat \ {0}
  PROVE  /\ IndexOf(lines, i) = Cardinality(Similar(lines, i)) /\ IndexOf(lines, i) \in Nat
         /\ Similar(lines, i) \in SUBSET (1 .. i - 1)
<1>1. IndexOf(lines, i) = Cardinality(Similar(lines, i)) BY DEF IndexOf, Similar
<1>2. Similar(lines, i) \in SUBSET (1 .. i - 1) /\ i - 1 \in Nat BY DEF Similar
<1>3. Cardinality(Similar(lines, i)) \in Nat BY <1>2, FiniteLines
<1> QED BY <1>1, <1>2, <1>3

(* Two items under the same parent have different numbers.                 *)
LEMMA IndexGrows ==
  ASSUME NEW lines, NEW i \in Nat \ {0}, NEW j \in Nat \ {0}, i < j, Opens(lines[i]),
         lines[i].key = lines[j].key, ParentOf(lines, i) = ParentOf(lines, j)
  PROVE  IndexOf(lines, i) < IndexOf(lines, j)
<1> DEFINE a == Similar(lines, i)
           b == Similar(lines, j)
<1>1. /\ a \in SUBSET (1 .. i - 1) /\ b \in SUBSET (1 .. j - 1) /\ i - 1 \in Nat /\ j - 1 \in Nat
      /\ IndexOf(lines, i) = Cardinality(a) /\ IndexOf(lines, j) = Cardinality(b)
  BY IndexIs
<1>2. a \cup {i} \in SUBSET b BY DEF Similar
<1>3. i \notin a BY DEF Similar
<1> HIDE DEF a, b
<1>4. IsFiniteSet(a) /\ IsFiniteSet(b) /\ Cardinality(a) \in Nat /\ Cardinality(b) \in Nat BY <1>1, FiniteLines
<1>5. Cardinality(a \cup {i}) = Cardinality(a) + 1 BY <1>3, <1>4, FS_AddElement
<1>6. Cardinality(a \cup {i}) <= Cardinality(b) BY <1>2, <1>4, FS_Subset
<1> QED BY <1>1, <1>4, <1>5, <1>6

LEMMA IndexDistinct ==
  ASSUME NEW lines, NEW i \in Nat \ {0}, NEW j \in Nat \ {0}, i # j, Opens(lines[i]), Opens(lines[j]),
         lines[i].key = lines[j].key, ParentOf(lines, i) = ParentOf(lines, j)
  PROVE  IndexOf(lines, i) # IndexOf(lines, j)
<1>1. IndexOf(lines, i) \in Nat /\ IndexOf(lines, j) \in Nat BY IndexIs
<1>2. CASE i < j BY <1>1, <1>2, IndexGrows
<1>3. CASE j < i BY <1>1, <1>3, IndexGrows
<1> QED BY <1>2, <1>3

(* One line more.                                                          *)
LEMMA LinesNext ==
  ASSUME NEW lines, NEW n \in Nat
  PROVE  /\ ChannelLines(lines, n + 1)
              = IF lines[n + 1].key = "CHANNEL" THEN ChannelLines(lines, n) \cup {n + 1}
                ELSE ChannelLines(lines, n)
         /\ \A i : DeviceLines(lines, n + 1, i)
              = IF lines[n + 1].key = "DEVICE" /\ ParentOf(lines, n + 1) = i
                THEN DeviceLines(lines, n, i) \cup {n + 1} ELSE DeviceLines(lines, n, i)
<1>1. 1 .. n + 1 = (1 .. n) \cup {n + 1} OBVIOUS
<1>2. ChannelLines(lines, n + 1)
        = IF lines[n + 1].key = "CHANNEL" THEN ChannelLines(lines, n) \cup {n + 1} ELSE ChannelLines(lines, n)
  BY <1>1 DEF ChannelLines
<1>3. ASSUME NEW i
      PROVE  DeviceLines(lines, n + 1, i)
               = IF lines[n + 1].key = "DEVICE" /\ ParentOf(lines, n + 1) = i
                 THEN DeviceLines(lines, n, i) \cup {n + 1} ELSE DeviceLines(lines, n, i)
  BY <1>1 DEF DeviceLines
<1> QED BY <1>2, <1>3

LEMMA PriorityNext ==
  ASSUME NEW lines, NEW n \in Nat, NEW i \in 1 .. n
  PROVE  PriorityTo(lines, n + 1, i)
           = IF ParentOf(lines, n + 1) = i THEN Priority(lines[n + 1], PriorityTo(lines, n, i))
             ELSE PriorityTo(lines, n, i)
<1> DEFINE a == Own(lines, n, i)
           b == Own(lines, n + 1, i)
<1>1. i + 1 .. n + 1 = (i + 1 .. n) \cup {n + 1} OBVIOUS
<1>2. CASE ParentOf(lines, n + 1) = i /\ lines[n + 1].key = "PRIORITY"
  <2>1. n + 1 \in b BY <1>1, <1>2 DEF Own
  <2>2. b \in SUBSET (0 .. n + 1) BY DEF Own
  <2> HIDE DEF b
  <2>3. Max(b) = n + 1 BY <2>1, <2>2, MaxHere
  <2>4. b # {} BY <2>1
  <2> QED BY <1>2, <2>3, <2>4 DEF PriorityTo, Priority, b
<1>3. CASE ~(ParentOf(lines, n + 1) = i /\ lines[n + 1].key = "PRIORITY")
  <2>1. a = b BY <1>1, <1>3 DEF Own
  <2>2. PriorityTo(lines, n + 1, i) = PriorityTo(lines, n, i) BY <2>1 DEF PriorityTo
  <2> QED BY <1>3, <2>2 DEF Priority
<1> QED BY <1>2, <1>3

LEMMA NewItem ==
  ASSUME NEW lines, NEW n \in Nat
  PROVE  PriorityTo(lines, n + 1, n + 1) = 0 /\ DeviceLines(lines, n + 1, n + 1) = {}
<1>1. Own(lines, n + 1, n + 1) = {}
  <2>1. (n + 1) + 1 .. n + 1 = {} OBVIOUS
  <2> QED BY <2>1 DEF Own
<1>2. ASSUME NEW j \in 1 .. n + 1 PROVE ParentOf(lines, j) # n + 1
  <2>1. ParentOf(lines, j) \in 0 .. j - 1 BY ParentRange
  <2> QED BY <2>1
<1> QED BY <1>1, <1>2 DEF PriorityTo, DeviceLines

(* An item that the line has nothing to do with is still as it should be.  *)
LEMMA DeviceStays ==
  ASSUME NEW lines, NEW n \in Nat, NEW j \in 1 .. n, ParentOf(lines, n + 1) # j, NEW device,
         DeviceIs(lines, n, j, device)
  PROVE  DeviceIs(lines, n + 1, j, device)
BY PriorityNext DEF DeviceIs

LEMMA DevicesStay ==
  ASSUME NEW lines, NEW n \in Nat, NEW i, NEW devices, DevicesAre(lines, n, i, devices),
         ~(lines[n + 1].key = "DEVICE" /\ ParentOf(lines, n + 1) = i),
         ParentOf(lines, n + 1) \notin DeviceLines(lines, n, i)
  PROVE  DevicesAre(lines, n + 1, i, devices)
<1>1. DeviceLines(lines, n + 1, i) = DeviceLines(lines, n, i) BY LinesNext
<1>2. ASSUME NEW j \in DeviceLines(lines, n, i), NEW device, DeviceIs(lines, n, j, device)
      PROVE  DeviceIs(lines, n + 1, j, device)
  <2>1. j \in 1 .. n /\ ParentOf(lines, n + 1) # j BY DEF DeviceLines
  <2> QED BY <1>2, <2>1, DeviceStays
<1> QED BY <1>1, <1>2 DEF DevicesAre

LEMMA ChannelStays ==
  ASSUME NEW lines, NEW n \in Nat, NEW i \in 1 .. n, NEW channel, ChannelIs(lines, n, i, channel),
         ParentOf(lines, n + 1) # i, ParentOf(lines, n + 1) \notin DeviceLines(lines, n, i)
  PROVE  ChannelIs(lines, n + 1, i, channel)
<1>1. PriorityTo(lines, n + 1, i) = PriorityTo(lines, n, i) BY PriorityNext
<1>2. DevicesAre(lines, n + 1, i, channel.devices) BY DevicesStay DEF ChannelIs
<1> QED BY <1>1, <1>2 DEF ChannelIs

-----------------------------------------------------------------------------
(* One step of the run                                                     *)

(* Who is open.                                                            *)
LEMMA OpenChannelLine ==
  ASSUME NEW lines, NEW n \in Nat, NEW ls, NEW c, c \in Kept(lines, n),
         ChannelOpen(lines, Kept(lines, n), ls, c), ItemsAre(lines, n, ls.channels)
  PROVE  /\ c \in 1 .. n /\ c \in ChannelLines(lines, n) /\ lines[c].blank < lines[n + 1].blank
         /\ IndexOf(lines, c) + 1 = Len(ls.channels)
         /\ ChannelIs(lines, n, c, ls.channels[Len(ls.channels)])
<1>1. c \in 1 .. n /\ lines[c].blank < lines[n + 1].blank BY DEF Kept, Alive
<1>2. lines[c].key = "CHANNEL" /\ IndexOf(lines, c) + 1 = Len(ls.channels) BY DEF ChannelOpen
<1>3. c \in ChannelLines(lines, n) BY <1>1, <1>2 DEF ChannelLines
<1>4. ChannelIs(lines, n, c, ls.channels[IndexOf(lines, c) + 1]) BY <1>3 DEF ItemsAre
<1> QED BY <1>1, <1>2, <1>3, <1>4

(* The other channels are as they were.                                    *)
LEMMA OtherChannels ==
  ASSUME NEW lines, NEW n \in Nat, NEW ls, NEW r, NEW c \in ChannelLines(lines, n),
         ItemsAre(lines, n, ls.channels), IndexOf(lines, c) + 1 = Len(ls.channels),
         OnlyChanged(ls.channels, r.channels, Len(ls.channels)), lines[n + 1].key # "CHANNEL",
         ParentOf(lines, n + 1) = c \/ ParentOf(lines, n + 1) \in DeviceLines(lines, n, c),
         ChannelIs(lines, n + 1, c, r.channels[Len(ls.channels)])
  PROVE  ItemsAre(lines, n + 1, r.channels)
<1>1. ChannelLines(lines, n + 1) = ChannelLines(lines, n) BY LinesNext
<1>2. Len(r.channels) = Len(ls.channels) BY DEF OnlyChanged
<1>3. ASSUME NEW i \in ChannelLines(lines, n), i # c
      PROVE  ChannelIs(lines, n + 1, i, r.channels[IndexOf(lines, i) + 1])
  <2>1. i \in 1 .. n /\ c \in 1 .. n /\ lines[i].key = "CHANNEL" /\ lines[c].key = "CHANNEL"
    BY DEF ChannelLines
  <2>2. /\ ParentOf(lines, i) = 0 /\ ParentOf(lines, c) = 0
        /\ IndexOf(lines, i) + 1 \in 1 .. Len(ls.channels)
        /\ ChannelIs(lines, n, i, ls.channels[IndexOf(lines, i) + 1])
    BY DEF ItemsAre
  <2>3. IndexOf(lines, i) # IndexOf(lines, c) BY <1>3, <2>1, <2>2, IndexDistinct DEF Opens
  <2>4. IndexOf(lines, i) \in Nat /\ IndexOf(lines, c) \in Nat BY <2>1, IndexIs
  <2>5. IndexOf(lines, i) + 1 # Len(ls.channels) BY <2>3, <2>4
  <2>6. r.channels[IndexOf(lines, i) + 1] = ls.channels[IndexOf(lines, i) + 1] BY <2>2, <2>5 DEF OnlyChanged
  <2>7. ParentOf(lines, n + 1) # i /\ ParentOf(lines, n + 1) \notin DeviceLines(lines, n, i)
    <3>1. \A j \in DeviceLines(lines, n, c) : lines[j].key = "DEVICE" /\ ParentOf(lines, j) = c
      BY DEF DeviceLines
    <3>2. \A j \in DeviceLines(lines, n, i) : lines[j].key = "DEVICE" /\ ParentOf(lines, j) = i
      BY DEF DeviceLines
    <3> QED BY <1>3, <2>1, <3>1, <3>2
  <2> QED BY <2>1, <2>2, <2>6, <2>7, ChannelStays
<1> QED BY <1>1, <1>2, <1>3 DEF ItemsAre

LEMMA AtDevice ==
  ASSUME NEW rets, NEW blanks, NEW vals, NEW ls \in Sound(rets, blanks, vals), ls.level = "device",
         NEW lines, NEW n \in Nat, NEW r, OpenAt(lines, Kept(lines, n), ls),
         ItemsAre(lines, n, ls.channels), lines[n + 1].key \notin {"CHANNEL", "DEVICE"},
         InDevice(ls, r, lines[n + 1]), SameLevel(ls, r)
  PROVE  ItemsAre(lines, n + 1, r.channels) /\ OpenAt(lines, Kept(lines, n), r)
<1> DEFINE C == Len(ls.channels)
           old == ls.channels[C]
           new == r.channels[C]
           D == Len(old.devices)
           K == Kept(lines, n)
<1>1. PICK c, d \in K : K = {c, d} /\ ChannelOpen(lines, K, ls, c) /\ DeviceOpen(lines, K, ls, c, d)
  BY DEF OpenAt
<1>2. /\ c \in 1 .. n /\ c \in ChannelLines(lines, n) /\ IndexOf(lines, c) + 1 = C
      /\ ChannelIs(lines, n, c, old)
  BY <1>1, OpenChannelLine
<1>3. /\ d \in 1 .. n /\ c < d /\ lines[d].key = "DEVICE" /\ ParentOf(lines, d) = c
      /\ IndexOf(lines, d) + 1 = D
  BY <1>1 DEF DeviceOpen, Kept, Alive
<1>4. d \in DeviceLines(lines, n, c) BY <1>3 DEF DeviceLines
<1>5. ParentOf(lines, n + 1) = d BY <1>1, <1>3, ParentFound
<1>6. /\ OnlyChanged(ls.channels, r.channels, C) /\ new.channel_id = old.channel_id /\ new.fields = old.fields
      /\ OnlyChanged(old.devices, new.devices, D) /\ new.devices[D].device_id = old.devices[D].device_id
      /\ new.devices[D].fields["PRIORITY"] = Priority(lines[n + 1], old.devices[D].fields["PRIORITY"])
  BY DEF InDevice
<1> HIDE DEF C, old, new, D, K
<1>7. DevicesAre(lines, n + 1, c, new.devices)
  <2>1. DeviceLines(lines, n + 1, c) = DeviceLines(lines, n, c) BY LinesNext
  <2>2. DevicesAre(lines, n, c, old.devices) BY <1>2 DEF ChannelIs
  <2>3. Len(new.devices) = Len(old.devices) BY <1>6 DEF OnlyChanged
  <2>4. ASSUME NEW j \in DeviceLines(lines, n, c)
        PROVE  DeviceIs(lines, n + 1, j, new.devices[IndexOf(lines, j) + 1])
    <3>1. j \in 1 .. n /\ lines[j].key = "DEVICE" /\ ParentOf(lines, j) = c BY DEF DeviceLines
    <3>2. /\ IndexOf(lines, j) + 1 \in 1 .. Len(old.devices)
          /\ DeviceIs(lines, n, j, old.devices[IndexOf(lines, j) + 1])
      BY <2>2 DEF DevicesAre
    <3>3. CASE j = d
      <4>1. DeviceIs(lines, n, d, old.devices[D]) BY <1>3, <3>2, <3>3
      <4>2. PriorityTo(lines, n + 1, d) = Priority(lines[n + 1], PriorityTo(lines, n, d))
        BY <1>3, <1>5, PriorityNext
      <4>3. DeviceIs(lines, n + 1, d, new.devices[D]) BY <1>6, <4>1, <4>2 DEF DeviceIs
      <4> QED BY <1>3, <3>3, <4>3
    <3>4. CASE j # d
      <4>1. IndexOf(lines, j) # IndexOf(lines, d) BY <1>3, <3>1, <3>4, IndexDistinct DEF Opens
      <4>2. IndexOf(lines, j) \in Nat /\ IndexOf(lines, d) \in Nat BY <1>3, <3>1, IndexIs
      <4>3. IndexOf(lines, j) + 1 # D BY <1>3, <4>1, <4>2
      <4>4. new.devices[IndexOf(lines, j) + 1] = old.devices[IndexOf(lines, j) + 1]
        BY <1>6, <3>2, <4>3 DEF OnlyChanged
      <4> QED BY <1>5, <3>1, <3>2, <3>4, <4>4, DeviceStays
    <3> QED BY <3>3, <3>4
  <2> QED BY <2>1, <2>2, <2>3, <2>4 DEF DevicesAre
<1>8. PriorityTo(lines, n + 1, c) = PriorityTo(lines, n, c) BY <1>2, <1>3, <1>5, PriorityNext
<1>9. ChannelIs(lines, n + 1, c, new) BY <1>2, <1>6, <1>7, <1>8 DEF ChannelIs
<1>10. ItemsAre(lines, n + 1, r.channels)
  BY <1>2, <1>4, <1>5, <1>6, <1>9, OtherChannels DEF C, new
<1>11. /\ Len(r.channels) = Len(ls.channels)
       /\ Len(r.channels[Len(r.channels)].devices) = Len(ls.channels[Len(ls.channels)].devices)
  BY <1>6 DEF OnlyChanged, C, old, new
<1>12. ChannelOpen(lines, K, r, c) /\ DeviceOpen(lines, K, r, c, d)
  BY <1>1, <1>11 DEF ChannelOpen, DeviceOpen, SameLevel
<1> QED BY <1>1, <1>10, <1>12 DEF OpenAt, SameLevel, K

LEMMA NewPriority ==
  \A id : /\ NewDevice(id).device_id = id /\ NewDevice(id).fields["PRIORITY"] = 0
          /\ NewChannel(id).channel_id = id /\ NewChannel(id).fields["PRIORITY"] = 0
          /\ NewChannel(id).devices = <<>>
BY PriorityField DEF NewDevice, NewChannel, ZeroFields

LEMMA Appended ==
  ASSUME NEW S, NEW s \in Seq(S), NEW e
  PROVE  /\ Len(Append(s, e)) = Len(s) + 1 /\ Append(s, e)[Len(s) + 1] = e
         /\ \A q \in 1 .. Len(s) : Append(s, e)[q] = s[q]
BY AppendProperties

LEMMA AtChannel ==
  ASSUME NEW rets, NEW blanks, NEW vals, NEW ls \in Sound(rets, blanks, vals), ls.level = "channel",
         NEW lines, NEW n \in Nat, NEW r, OpenAt(lines, Kept(lines, n), ls),
         ItemsAre(lines, n, ls.channels), lines[n + 1].key # "CHANNEL",
         InChannel(ls, r, lines[n + 1])
  PROVE  /\ ItemsAre(lines, n + 1, r.channels)
         /\ lines[n + 1].key # "DEVICE" => OpenAt(lines, Kept(lines, n), r)
         /\ lines[n + 1].key = "DEVICE" => OpenAt(lines, Kept(lines, n) \cup {n + 1}, r)
<1> DEFINE C == Len(ls.channels)
           old == ls.channels[C]
           new == r.channels[C]
           D == Len(old.devices)
           K == Kept(lines, n)
           line == lines[n + 1]
<1>1. PICK c \in K : K = {c} /\ ChannelOpen(lines, K, ls, c) BY DEF OpenAt
<1>2. /\ c \in 1 .. n /\ c \in ChannelLines(lines, n) /\ IndexOf(lines, c) + 1 = C
      /\ ChannelIs(lines, n, c, old) /\ lines[c].blank < line.blank
  BY <1>1, OpenChannelLine
<1>3. ParentOf(lines, n + 1) = c BY <1>1, ParentFound
<1>4. /\ OnlyChanged(ls.channels, r.channels, C) /\ new.channel_id = old.channel_id
      /\ new.fields["PRIORITY"] = Priority(line, old.fields["PRIORITY"])
      /\ line.key # "DEVICE" => new.devices = old.devices /\ SameLevel(ls, r)
      /\ line.key = "DEVICE" =>
           /\ new.devices = Append(old.devices, NewDevice(D))
           /\ r.level = "device" /\ r.channel_indent = ls.channel_indent /\ r.device_indent = line.blank
  BY DEF InChannel
<1>5. old.devices \in Seq(Devices(vals)) /\ D \in Nat
  <2>1. old \in ChannelSet(vals) BY CurrentChannel
  <2> HIDE DEF old
  <2> QED BY <2>1 DEF ChannelSet
<1>6. DevicesAre(lines, n, c, old.devices) BY <1>2 DEF ChannelIs
<1>7. ASSUME NEW j \in DeviceLines(lines, n, c)
      PROVE  /\ j \in 1 .. n /\ IndexOf(lines, j) + 1 \in 1 .. D
             /\ DeviceIs(lines, n + 1, j, old.devices[IndexOf(lines, j) + 1])
  <2>1. j \in 1 .. n /\ lines[j].key = "DEVICE" BY DEF DeviceLines
  <2>2. j # c BY <1>2, <2>1 DEF ChannelLines
  <2>3. IndexOf(lines, j) + 1 \in 1 .. D /\ DeviceIs(lines, n, j, old.devices[IndexOf(lines, j) + 1])
    BY <1>6 DEF DevicesAre
  <2> QED BY <1>3, <2>1, <2>2, <2>3, DeviceStays
<1> HIDE DEF C, old, new, D, K, line
<1>8. line.key # "DEVICE" => DevicesAre(lines, n + 1, c, new.devices) /\ OpenAt(lines, K, r)
  <2> SUFFICES ASSUME line.key # "DEVICE" PROVE DevicesAre(lines, n + 1, c, new.devices) /\ OpenAt(lines, K, r)
    OBVIOUS
  <2>1. new.devices = old.devices /\ SameLevel(ls, r) BY <1>4
  <2>2. DeviceLines(lines, n + 1, c) = DeviceLines(lines, n, c) BY LinesNext DEF line
  <2>3. DevicesAre(lines, n + 1, c, new.devices) BY <1>6, <1>7, <2>1, <2>2 DEF DevicesAre, D
  <2>4. Len(r.channels) = Len(ls.channels) BY <1>4 DEF OnlyChanged
  <2>5. ChannelOpen(lines, K, r, c) BY <1>1, <2>1, <2>4 DEF ChannelOpen, SameLevel
  <2>6. OpenAt(lines, K, r) BY <1>1, <2>1, <2>5 DEF OpenAt, SameLevel
  <2> QED BY <2>3, <2>6
<1>9. line.key = "DEVICE" =>
        DevicesAre(lines, n + 1, c, new.devices) /\ OpenAt(lines, K \cup {n + 1}, r)
  <2> SUFFICES ASSUME line.key = "DEVICE"
               PROVE  DevicesAre(lines, n + 1, c, new.devices) /\ OpenAt(lines, K \cup {n + 1}, r)
    OBVIOUS
  <2> DEFINE device == NewDevice(D)
  <2>1. /\ new.devices = Append(old.devices, device) /\ r.level = "device"
        /\ r.channel_indent = ls.channel_indent /\ r.device_indent = line.blank
    BY <1>4
  <2>2. DeviceLines(lines, n + 1, c) = DeviceLines(lines, n, c) \cup {n + 1}
    BY <1>3, LinesNext DEF line
  <2>3. DeviceLines(lines, n, c) \in SUBSET (1 .. n) BY DEF DeviceLines
  <2>4. IndexOf(lines, n + 1) = D
    <3>1. (n + 1) - 1 = n OBVIOUS
    <3>2. Similar(lines, n + 1) = DeviceLines(lines, n, c)
      BY <1>3, <3>1 DEF Similar, DeviceLines, Opens, line
    <3>3. n + 1 \in Nat \ {0} OBVIOUS
    <3> QED BY <1>6, <3>2, <3>3, IndexIs DEF DevicesAre, D
  <2>5. device.device_id = D /\ device.fields["PRIORITY"] = 0 BY NewPriority
  <2>6. DeviceIs(lines, n + 1, n + 1, device) BY <2>4, <2>5, NewItem DEF DeviceIs
  <2> HIDE DEF device
  <2>7. /\ Len(new.devices) = D + 1 /\ new.devices[D + 1] = device
        /\ \A q \in 1 .. D : new.devices[q] = old.devices[q]
    BY <1>5, <2>1, Appended DEF D
  <2>8. DevicesAre(lines, n + 1, c, new.devices)
    <3>1. Len(new.devices) = Cardinality(DeviceLines(lines, n + 1, c))
      BY <1>6, <2>2, <2>3, <2>7, OneMore DEF DevicesAre, D
    <3>2. ASSUME NEW j \in DeviceLines(lines, n, c)
          PROVE  /\ IndexOf(lines, j) + 1 \in 1 .. D + 1
                 /\ DeviceIs(lines, n + 1, j, new.devices[IndexOf(lines, j) + 1])
      <4>1. IndexOf(lines, j) + 1 \in 1 .. D /\ DeviceIs(lines, n + 1, j, old.devices[IndexOf(lines, j) + 1])
        BY <1>7
      <4>2. new.devices[IndexOf(lines, j) + 1] = old.devices[IndexOf(lines, j) + 1] BY <2>7, <4>1
      <4>3. IndexOf(lines, j) + 1 \in 1 .. D + 1 BY <1>5, <4>1
      <4> QED BY <4>1, <4>2, <4>3
    <3>3. IndexOf(lines, n + 1) + 1 \in 1 .. D + 1 BY <1>5, <2>4
    <3>4. DeviceIs(lines, n + 1, n + 1, new.devices[IndexOf(lines, n + 1) + 1]) BY <2>4, <2>6, <2>7
    <3> QED BY <2>2, <2>7, <3>1, <3>2, <3>3, <3>4 DEF DevicesAre
  <2>9. Len(r.channels) = Len(ls.channels) BY <1>4 DEF OnlyChanged
  <2>10. ChannelOpen(lines, K \cup {n + 1}, r, c) BY <1>1, <2>1, <2>9 DEF ChannelOpen
  <2>11. DeviceOpen(lines, K \cup {n + 1}, r, c, n + 1)
    <3>1. c < n + 1 BY <1>2
    <3>2. IndexOf(lines, n + 1) + 1 = Len(r.channels[Len(r.channels)].devices)
      BY <2>4, <2>7, <2>9 DEF new, C
    <3> QED BY <1>2, <1>3, <2>1, <3>1, <3>2 DEF DeviceOpen, line
  <2>12. K \cup {n + 1} = {c, n + 1} BY <1>1
  <2>13. OpenAt(lines, K \cup {n + 1}, r) BY <2>1, <2>10, <2>11, <2>12 DEF OpenAt
  <2> QED BY <2>8, <2>13
<1>10. ChannelIs(lines, n + 1, c, new)
  <2>1. PriorityTo(lines, n + 1, c) = Priority(line, PriorityTo(lines, n, c))
    BY <1>2, <1>3, PriorityNext DEF line
  <2>2. DevicesAre(lines, n + 1, c, new.devices)
    BY <1>8, <1>9
  <2> QED BY <1>2, <1>4, <2>1, <2>2 DEF ChannelIs
<1>11. ItemsAre(lines, n + 1, r.channels) BY <1>2, <1>3, <1>4, <1>10, OtherChannels DEF C, new
<1> QED BY <1>8, <1>9, <1>11 DEF K, line

LEMMA AtLogger ==
  ASSUME NEW rets, NEW blanks, NEW vals, NEW ls \in Sound(rets, blanks, vals), ls.level = "logger",
         NEW lines, NEW n \in Nat, NEW r, OpenAt(lines, Kept(lines, n), ls),
         ItemsAre(lines, n, ls.channels), InLogger(ls, r, lines[n + 1])
  PROVE  /\ ItemsAre(lines, n + 1, r.channels) /\ lines[n + 1].key # "DEVICE"
         /\ lines[n + 1].key # "CHANNEL" => OpenAt(lines, Kept(lines, n), r)
         /\ lines[n + 1].key = "CHANNEL" => OpenAt(lines, Kept(lines, n) \cup {n + 1}, r)
<1> DEFINE K == Kept(lines, n)
           line == lines[n + 1]
           size == Len(ls.channels)
           channel == NewChannel(size)
<1>1. K = {} BY DEF OpenAt
<1>2. ParentOf(lines, n + 1) = 0 BY ParentFound
<1>3. ls.channels \in Seq(ChannelSet(vals)) /\ size \in Nat BY DEF Sound, States
<1>4. /\ line.key # "CHANNEL" => r.channels = ls.channels /\ SameLevel(ls, r) /\ line.key # "DEVICE"
      /\ line.key = "CHANNEL" =>
           r.channels = Append(ls.channels, channel) /\ r.level = "channel" /\ r.channel_indent = line.blank
  BY DEF InLogger
<1>5. ASSUME NEW i \in ChannelLines(lines, n)
      PROVE  /\ i \in 1 .. n /\ ParentOf(lines, i) = 0 /\ IndexOf(lines, i) + 1 \in 1 .. size
             /\ ChannelIs(lines, n + 1, i, ls.channels[IndexOf(lines, i) + 1])
  <2>1. i \in 1 .. n BY DEF ChannelLines
  <2>2. 0 \notin DeviceLines(lines, n, i) BY DEF DeviceLines
  <2>3. /\ ParentOf(lines, i) = 0 /\ IndexOf(lines, i) + 1 \in 1 .. size
        /\ ChannelIs(lines, n, i, ls.channels[IndexOf(lines, i) + 1])
    BY DEF ItemsAre
  <2>4. ParentOf(lines, n + 1) # i BY <1>2, <2>1
  <2> QED BY <1>2, <2>1, <2>2, <2>3, <2>4, ChannelStays
<1>6. size = Cardinality(ChannelLines(lines, n)) BY DEF ItemsAre
<1>7. channel.channel_id = size /\ channel.fields["PRIORITY"] = 0 /\ channel.devices = <<>> BY NewPriority
<1> HIDE DEF K, line, size, channel
<1>8. ASSUME line.key # "CHANNEL"
      PROVE  ItemsAre(lines, n + 1, r.channels) /\ line.key # "DEVICE" /\ OpenAt(lines, K, r)
  <2>1. r.channels = ls.channels /\ SameLevel(ls, r) /\ line.key # "DEVICE" BY <1>4, <1>8
  <2>2. ChannelLines(lines, n + 1) = ChannelLines(lines, n) BY <1>8, LinesNext DEF line
  <2>3. ItemsAre(lines, n + 1, r.channels) BY <1>5, <1>6, <2>1, <2>2 DEF ItemsAre, size
  <2>4. OpenAt(lines, K, r) BY <1>1, <2>1 DEF OpenAt, SameLevel
  <2> QED BY <2>1, <2>3, <2>4
<1>9. ASSUME line.key = "CHANNEL"
      PROVE  ItemsAre(lines, n + 1, r.channels) /\ OpenAt(lines, K \cup {n + 1}, r)
  <2>1. r.channels = Append(ls.channels, channel) /\ r.level = "channel" /\ r.channel_indent = line.blank
    BY <1>4, <1>9
  <2>2. ChannelLines(lines, n + 1) = ChannelLines(lines, n) \cup {n + 1} BY <1>9, LinesNext DEF line
  <2>3. ChannelLines(lines, n) \in SUBSET (1 .. n) BY DEF ChannelLines
  <2>4. IndexOf(lines, n + 1) = size
    <3>1. (n + 1) - 1 = n OBVIOUS
    <3>2. Similar(lines, n + 1) \in SUBSET ChannelLines(lines, n)
      BY <1>9, <3>1 DEF Similar, ChannelLines, line
    <3>3. ChannelLines(lines, n) \in SUBSET Similar(lines, n + 1)
      BY <1>2, <1>5, <1>9, <3>1 DEF Similar, ChannelLines, Opens, line
    <3>4. n + 1 \in Nat \ {0} OBVIOUS
    <3>5. Similar(lines, n + 1) = ChannelLines(lines, n) BY <3>2, <3>3
    <3> QED BY <1>6, <3>4, <3>5, IndexIs
  <2>5. /\ Len(r.channels) = size + 1 /\ r.channels[size + 1] = channel
        /\ \A q \in 1 .. size : r.channels[q] = ls.channels[q]
    BY <1>3, <2>1, Appended DEF size
  <2>6. ChannelIs(lines, n + 1, n + 1, channel)
    <3>1. DeviceLines(lines, n + 1, n + 1) = {} /\ PriorityTo(lines, n + 1, n + 1) = 0 BY NewItem
    <3>2. Len(channel.devices) = Cardinality(DeviceLines(lines, n + 1, n + 1))
      BY <1>7, <3>1, FS_EmptySet
    <3>3. DevicesAre(lines, n + 1, n + 1, channel.devices) BY <3>1, <3>2 DEF DevicesAre
    <3> QED BY <1>7, <2>4, <3>1, <3>3 DEF ChannelIs
  <2>7. ItemsAre(lines, n + 1, r.channels)
    <3>1. Len(r.channels) = Cardinality(ChannelLines(lines, n + 1)) BY <1>6, <2>2, <2>3, <2>5, OneMore
    <3>2. ASSUME NEW i \in ChannelLines(lines, n)
          PROVE  /\ ParentOf(lines, i) = 0 /\ IndexOf(lines, i) + 1 \in 1 .. size + 1
                 /\ ChannelIs(lines, n + 1, i, r.channels[IndexOf(lines, i) + 1])
      <4>1. ParentOf(lines, i) = 0 /\ IndexOf(lines, i) + 1 \in 1 .. size
            /\ ChannelIs(lines, n + 1, i, ls.channels[IndexOf(lines, i) + 1])
        BY <1>5
      <4>2. r.channels[IndexOf(lines, i) + 1] = ls.channels[IndexOf(lines, i) + 1] BY <2>5, <4>1
      <4>3. IndexOf(lines, i) + 1 \in 1 .. size + 1 BY <1>3, <4>1
      <4> QED BY <4>1, <4>2, <4>3
    <3>3. /\ IndexOf(lines, n + 1) + 1 \in 1 .. size + 1
          /\ ChannelIs(lines, n + 1, n + 1, r.channels[IndexOf(lines, n + 1) + 1])
      BY <1>3, <2>4, <2>5, <2>6
    <3> QED BY <1>2, <2>2, <2>5, <3>1, <3>2, <3>3 DEF ItemsAre
  <2>8. K \cup {n + 1} = {n + 1} BY <1>1
  <2>9. ChannelOpen(lines, K \cup {n + 1}, r, n + 1) BY <1>9, <2>1, <2>4, <2>5 DEF ChannelOpen, line
  <2>10. OpenAt(lines, K \cup {n + 1}, r) BY <2>1, <2>8, <2>9 DEF OpenAt
  <2> QED BY <2>7, <2>10
<1> QED BY <1>8, <1>9 DEF K, line

(* A line that is taken leaves the channels and the open items right.      *)
LEMMA NestStep ==
  ASSUME NEW rets, NEW blanks, NEW vals, NEW ls \in Sound(rets, blanks, vals), ls.ret = "NONE",
         NEW lines, NEW n \in Nat, \A j \in 1 .. n + 1 : lines[j].blank \in Nat,
         ~IsBlankLine(lines[n + 1]), ParseLine(ls, lines[n + 1]).ret = "NONE",
         OpenAt(lines, Alive(lines, n), ls), ItemsAre(lines, n, ls.channels)
  PROVE  LET r == ParseLine(ls, lines[n + 1])
         IN  OpenAt(lines, Alive(lines, n + 1), r) /\ ItemsAre(lines, n + 1, r.channels)
<1> DEFINE line == lines[n + 1]
           open == Opened(ls, line)
           r == ParseLine(ls, line)
           K == Kept(lines, n)
<1>1. Taken(ls, r, line) BY LineTaken
<1>2. /\ open \in Sound(rets, blanks, vals) /\ open.channels = ls.channels
      /\ open.level \in {"logger", "channel", "device"}
  BY OpenedSound
<1>3. OpenAt(lines, K, open) BY OpenNext
<1>4. Alive(lines, n + 1) = IF Opens(line) THEN K \cup {n + 1} ELSE K BY AliveNext
<1>5. ItemsAre(lines, n, open.channels) BY <1>2
<1> HIDE DEF open, r
<1>6. CASE open.level = "device"
  <2>1. line.key \notin {"CHANNEL", "DEVICE"} /\ InDevice(open, r, line) /\ SameLevel(open, r)
    BY <1>1, <1>6 DEF Taken, open
  <2>2. ItemsAre(lines, n + 1, r.channels) /\ OpenAt(lines, K, r)
    BY <1>2, <1>3, <1>5, <1>6, <2>1, AtDevice
  <2> QED BY <1>4, <2>1, <2>2 DEF Opens, r
<1>7. CASE open.level = "channel"
  <2>1. line.key # "CHANNEL" /\ InChannel(open, r, line) BY <1>1, <1>7 DEF Taken, open
  <2>2. /\ ItemsAre(lines, n + 1, r.channels)
        /\ line.key # "DEVICE" => OpenAt(lines, K, r)
        /\ line.key = "DEVICE" => OpenAt(lines, K \cup {n + 1}, r)
    BY <1>2, <1>3, <1>5, <1>7, <2>1, AtChannel
  <2> QED BY <1>4, <2>1, <2>2 DEF Opens, r
<1>8. CASE open.level = "logger"
  <2>1. InLogger(open, r, line) BY <1>1, <1>8 DEF Taken, open
  <2>2. /\ ItemsAre(lines, n + 1, r.channels) /\ line.key # "DEVICE"
        /\ line.key # "CHANNEL" => OpenAt(lines, K, r)
        /\ line.key = "CHANNEL" => OpenAt(lines, K \cup {n + 1}, r)
    BY <1>2, <1>3, <1>5, <1>8, <2>1, AtLogger
  <2> QED BY <1>4, <2>1, <2>2 DEF Opens, r
<1> QED BY <1>2, <1>6, <1>7, <1>8

LEMMA NestStart ==
  ASSUME NEW lines
  PROVE  OpenAt(lines, Alive(lines, 0), StartParse) /\ ItemsAre(lines, 0, StartParse.channels)
<1>1. 1 .. 0 = {} OBVIOUS
<1>2. Alive(lines, 0) = {} /\ ChannelLines(lines, 0) = {} BY <1>1 DEF Alive, ChannelLines
<1>3. StartParse.level = "logger" /\ StartParse.channels = <<>> BY DEF StartParse
<1>4. Len(StartParse.channels) = Cardinality(ChannelLines(lines, 0)) BY <1>2, <1>3, FS_EmptySet
<1> QED BY <1>2, <1>3, <1>4 DEF OpenAt, ItemsAre

(* Lines that each say something, blank ones left out.                     *)
AllEntries(lines, n) == \A i \in 1 .. n : lines[i].blank \in Nat /\ ~IsBlankLine(lines[i])

LEMMA RunNests ==
  ASSUME NEW n \in Nat, NEW lines, AllEntries(lines, n), NEW f, IsRun(f, n, lines),
         NEW rets, NEW blanks, NEW vals, \A i \in 0 .. n : f[i] \in Sound(rets, blanks, vals)
  PROVE  f[n].ret = "NONE" => OpenAt(lines, Alive(lines, n), f[n]) /\ ItemsAre(lines, n, f[n].channels)
<1> DEFINE Right(i) == f[i].ret = "NONE" =>
                         OpenAt(lines, Alive(lines, i), f[i]) /\ ItemsAre(lines, i, f[i].channels)
           S == {i \in 0 .. n : Right(i)}
<1>1. 0 \in S
  <2>1. f[0] = StartParse BY DEF IsRun
  <2> QED BY <2>1, NestStart
<1>2. ASSUME NEW i \in 1 .. n, i - 1 \in S PROVE i \in S
  <2> SUFFICES ASSUME f[i].ret = "NONE"
               PROVE  OpenAt(lines, Alive(lines, i), f[i]) /\ ItemsAre(lines, i, f[i].channels)
    OBVIOUS
  <2> DEFINE m == i - 1
  <2>1. m \in Nat /\ m + 1 = i /\ m \in 0 .. n OBVIOUS
  <2>2. f[i] = ParseLine(f[m], lines[i]) BY DEF IsRun
  <2>3. f[m].ret = "NONE"
    <3>1. f[m].ret # "NONE" => f[i] = f[m] BY <2>2, ErrorStays
    <3> QED BY <3>1
  <2>4. OpenAt(lines, Alive(lines, m), f[m]) /\ ItemsAre(lines, m, f[m].channels) BY <1>2, <2>3
  <2>5. f[m] \in Sound(rets, blanks, vals) BY <2>1
  <2>6. (\A j \in 1 .. i : lines[j].blank \in Nat) /\ ~IsBlankLine(lines[i]) BY DEF AllEntries
  <2> HIDE DEF m
  <2> QED BY <2>1, <2>2, <2>3, <2>4, <2>5, <2>6, NestStep
<1>3. \A i \in 0 .. n : i \in S
  <2> HIDE DEF S
  <2> QED BY <1>1, <1>2, Steps
<1> QED BY <1>3

(* In every file without blank lines that is accepted, whatever its length *)
(* and its values: the channels and devices are the list items, each under *)
(* the item that its indentation says and numbered from 0 without a gap,   *)
(* and a setting reaches the item it is indented under (fn_parse.cpp,      *)
(* ParseLogger, ParseChannel, ParseDevice).                                *)
THEOREM NestingIsRight ==
  ASSUME NEW S, NEW lines \in Seq(S), AllEntries(lines, Len(lines))
  PROVE  NestedIn(lines)
<1> DEFINE n == Len(lines)
           ls == ParseLines(lines)
           rets == Codes \cup {lines[i].ret : i \in 1 .. n}
           blanks == {0} \cup {lines[i].blank : i \in 1 .. n}
           vals == {0, {}} \cup {ValueOf(lines[i].key, lines[i].val) : i \in 1 .. n}
           channels == {i \in DOMAIN lines : lines[i].key = "CHANNEL"}
           devices(i) == {j \in DOMAIN lines : lines[j].key = "DEVICE" /\ ParentOf(lines, j) = i}
<1> SUFFICES ASSUME ls.ret = "NONE"
             PROVE  /\ Len(ls.channels) = Cardinality(channels) /\ Len(ls.channels) \in 1 .. MAX_CHANNEL_SIZE
                    /\ \A i \in channels :
                         LET channel == ls.channels[IndexOf(lines, i) + 1]
                         IN  /\ ParentOf(lines, i) = 0 /\ channel.channel_id = IndexOf(lines, i)
                             /\ channel.fields["PRIORITY"] = PriorityIn(lines, i)
                             /\ Len(channel.devices) = Cardinality(devices(i))
                             /\ Len(channel.devices) <= MAX_DEVICE_SIZE
                             /\ \A j \in devices(i) :
                                  LET device == channel.devices[IndexOf(lines, j) + 1]
                                  IN  /\ device.device_id = IndexOf(lines, j)
                                      /\ device.fields["PRIORITY"] = PriorityIn(lines, j)
  BY DEF NestedIn
<1>1. n \in Nat /\ DOMAIN lines = 1 .. n OBVIOUS
<1>2. Covers(rets, blanks, vals) BY DEF Covers
<1>3. \A i \in 1 .. n : Brings(lines[i], rets, blanks, vals) BY DEF Brings
<1>4. channels = ChannelLines(lines, n) /\ \A i : devices(i) = DeviceLines(lines, n, i)
  BY <1>1 DEF ChannelLines, DeviceLines
<1>5. \A i : PriorityIn(lines, i) = PriorityTo(lines, n, i) BY DEF PriorityIn, PriorityTo, Own
<1>6. WellFormed(ls.channels, vals) BY <1>1, AcceptedIsWellFormed
<1> HIDE DEF n, rets, blanks, vals, channels, devices
<1>7. PICK f : /\ IsRun(f, n, lines) /\ \A i \in 0 .. n : f[i] \in Sound(rets, blanks, vals)
               /\ FoldLeft(ParseLine, StartParse, lines) = f[n]
  BY <1>1, <1>2, <1>3, LinesRun
<1>8. f[n] \in Sound(rets, blanks, vals) BY <1>1, <1>7
<1>9. ls = f[n]
  <2>1. ls = IF f[n].ret = "NONE" /\ f[n].channels = <<>> THEN Fail(f[n], "NO_ANY_CHANNEL") ELSE f[n]
    BY <1>7 DEF ParseLines
  <2>2. Fail(f[n], "NO_ANY_CHANNEL").ret = "NO_ANY_CHANNEL" BY <1>8 DEF Fail, Sound, States
  <2> QED BY <2>1, <2>2
<1> HIDE DEF ls
<1>10. ItemsAre(lines, n, ls.channels)
  <2>1. AllEntries(lines, n) BY DEF n
  <2>2. f[n].ret = "NONE" BY <1>9
  <2> QED BY <1>1, <1>7, <1>9, <2>1, <2>2, RunNests
<1>11. Len(ls.channels) \in 1 .. MAX_CHANNEL_SIZE /\ Len(ls.channels) = Cardinality(channels)
  BY <1>4, <1>6, <1>10 DEF WellFormed, ItemsAre
<1>12. ASSUME NEW i \in channels
       PROVE  LET channel == ls.channels[IndexOf(lines, i) + 1]
              IN  /\ ParentOf(lines, i) = 0 /\ channel.channel_id = IndexOf(lines, i)
                  /\ channel.fields["PRIORITY"] = PriorityIn(lines, i)
                  /\ Len(channel.devices) = Cardinality(devices(i))
                  /\ Len(channel.devices) <= MAX_DEVICE_SIZE
                  /\ \A j \in devices(i) :
                       LET device == channel.devices[IndexOf(lines, j) + 1]
                       IN  /\ device.device_id = IndexOf(lines, j)
                           /\ device.fields["PRIORITY"] = PriorityIn(lines, j)
  <2> DEFINE channel == ls.channels[IndexOf(lines, i) + 1]
  <2>1. /\ ParentOf(lines, i) = 0 /\ IndexOf(lines, i) + 1 \in 1 .. Len(ls.channels)
        /\ ChannelIs(lines, n, i, channel)
    BY <1>4, <1>10 DEF ItemsAre
  <2>2. Len(channel.devices) <= MAX_DEVICE_SIZE
    BY <1>6, <2>1 DEF WellFormed, ChannelsNumbered, DevicesNumbered
  <2> HIDE DEF channel
  <2>3. DevicesAre(lines, n, i, channel.devices) BY <2>1 DEF ChannelIs
  <2>4. \A j \in devices(i) : DeviceIs(lines, n, j, channel.devices[IndexOf(lines, j) + 1])
    BY <1>4, <2>3 DEF DevicesAre
  <2>5. Len(channel.devices) = Cardinality(devices(i)) BY <1>4, <2>3 DEF DevicesAre
  <2> QED BY <1>5, <2>1, <2>2, <2>4, <2>5 DEF ChannelIs, DeviceIs, channel
<1> QED BY <1>11, <1>12

-----------------------------------------------------------------------------
(* The lines of a text                                                     *)

PlainChars == STRING \ {"eol"}
Lexed(cut) == [i \in DOMAIN cut |-> Lex_Line(cut[i])]
IsCut(h, n, text) == h[0] = << <<>> >> /\ \A i \in 1 .. n : h[i] = CutAt(h[i - 1], text[i])
CutLines == {ls \in Seq(Seq(PlainChars)) : ls # <<>>}

LEMMA CutPlain ==
  ASSUME NEW ls \in CutLines, NEW ch \in STRING
  PROVE  CutAt(ls, ch) \in CutLines
<1>1. ls \in Seq(Seq(PlainChars)) /\ ls # <<>> BY DEF CutLines
<1>2. CASE ch = "eol"
  <2>1. <<>> \in Seq(PlainChars) OBVIOUS
  <2> QED BY <1>1, <1>2, <2>1 DEF CutAt, CutLines
<1>3. CASE ch # "eol"
  <2>1. ch \in PlainChars BY <1>3 DEF PlainChars
  <2>2. CutAt(ls, ch) \in Seq(Seq(PlainChars)) /\ CutAt(ls, ch) # <<>>
    BY <1>1, <2>1, CutStep
  <2> QED BY <2>2 DEF CutLines
<1> QED BY <1>2, <1>3

LEMMA CutRun ==
  ASSUME NEW text \in Seq(STRING)
  PROVE  \E h : /\ IsCut(h, Len(text), text) /\ \A i \in 0 .. Len(text) : h[i] \in CutLines
                /\ LinesOf(text) = Lexed(h[Len(text)])
<1> DEFINE n == Len(text)
           base == << <<>> >>
           step == [x \in (1 .. n) \X CutLines |-> CutAt(x[2], text[x[1]])]
           g == CutFcn(text)
<1>0. n \in Nat /\ DOMAIN text = 1 .. n /\ \A i \in 1 .. n : text[i] \in STRING OBVIOUS
<1> HIDE DEF n
<1>1. \A i \in 1 .. n : \A v \in CutLines : CutAt(v, text[i]) \in CutLines BY <1>0, CutPlain
<1>2. base \in CutLines
  <2>1. <<>> \in Seq(PlainChars) OBVIOUS
  <2> QED BY <2>1 DEF CutLines
<1> HIDE DEF base
<1>3. \A i \in 1 .. n : \A v \in CutLines : step[<<i, v>>] = CutAt(v, text[i]) OBVIOUS
<1> HIDE DEF step
<1>4. PICK k \in [SUBSET (1 .. n) -> CutLines] : \A s \in SUBSET (1 .. n) : k[s] = FoldStep(base, step, k, s)
  <2>1. \A i \in 1 .. n : \A v \in CutLines : step[<<i, v>>] \in CutLines BY <1>1, <1>3
  <2> HIDE DEF g
  <2>2. FoldDefined(n, CutLines, base, step) BY <1>0, <1>2, <2>1, FoldExists
  <2> QED BY <2>2 DEF FoldDefined
<1>5. \A s \in SUBSET (1 .. n) : s # {} => Max(s) \in 1 .. n /\ s \ {Max(s)} \in SUBSET (1 .. n)
  BY <1>0, MaxIn
<1>6. k = [s \in SUBSET DOMAIN text |->
             IF s = {} THEN base ELSE CutAt(k[s \ {Max(s)}], text[Max(s)])]
  <2>1. ASSUME NEW s \in SUBSET (1 .. n)
        PROVE  k[s] = IF s = {} THEN base ELSE CutAt(k[s \ {Max(s)}], text[Max(s)])
    BY <1>3, <1>4, <1>5 DEF FoldStep
  <2> QED BY <1>0, <2>1
<1>7. g = [s \in SUBSET DOMAIN text |->
             IF s = {} THEN base ELSE CutAt(g[s \ {Max(s)}], text[Max(s)])]
  BY <1>6 DEF CutFcn, base
<1> HIDE DEF g
<1> DEFINE h == [i \in 0 .. n |-> g[1 .. i]]
<1>8. h[0] = base
  <2>1. h[0] = g[1 .. 0] BY <1>0
  <2>2. 1 .. 0 = {} OBVIOUS
  <2>3. {} \in SUBSET DOMAIN text OBVIOUS
  <2>4. g[{}] = base BY <1>7, <2>3
  <2> QED BY <2>1, <2>2, <2>4
<1>9. ASSUME NEW i \in 1 .. n PROVE h[i] = CutAt(h[i - 1], text[i])
  <2>1. i \in 0 .. n /\ i - 1 \in 0 .. n /\ i \in Nat BY <1>0
  <2>2. h[i] = g[1 .. i] /\ h[i - 1] = g[1 .. i - 1] BY <2>1
  <2>3. 1 .. i \in SUBSET DOMAIN text /\ 1 .. i # {}
    <3>1. i \in 1 .. i /\ 1 .. i \subseteq 1 .. n BY <1>0, <2>1
    <3> QED BY <1>0, <3>1
  <2>4. Max(1 .. i) = i
    <3>1. i \in 1 .. i /\ 1 .. i \in SUBSET (1 .. i) BY <2>1
    <3> QED BY <2>1, <3>1, MaxOf
  <2>5. (1 .. i) \ {i} = 1 .. i - 1 BY <2>1
  <2>6. g[1 .. i] = CutAt(g[(1 .. i) \ {Max(1 .. i)}], text[Max(1 .. i)]) BY <1>7, <2>3
  <2> QED BY <2>2, <2>4, <2>5, <2>6
<1>10. LinesOf(text) = Lexed(h[n])
  <2>1. h[n] = g[DOMAIN text] BY <1>0
  <2>2. LinesOf(text) = [i \in DOMAIN g[DOMAIN text] |-> Lex_Line(g[DOMAIN text][i])]
    BY TextFolded DEF g
  <2> QED BY <2>1, <2>2 DEF Lexed
<1> HIDE DEF h
<1> DEFINE S == {i \in 0 .. n : h[i] \in CutLines}
<1>11. 0 \in S BY <1>0, <1>2, <1>8
<1>12. \A i \in 1 .. n : i - 1 \in S => i \in S BY <1>0, <1>1, <1>9
<1>13. \A i \in 0 .. n : i \in S
  <2> HIDE DEF S
  <2> QED BY <1>0, <1>11, <1>12, Steps
<1> QED BY <1>8, <1>9, <1>10, <1>13 DEF IsCut, n, base

LEMMA PlainLine ==
  ASSUME NEW t \in Seq(PlainChars)
  PROVE  LineEnd(t, Lex_Line(t)) /\ Lex_Line(t) \in LexStates /\ FoundIn(t) /\ t \in Seq(Chars)
<1>1. DOMAIN t = 1 .. Len(t) /\ Len(t) \in Nat /\ \A i \in 1 .. Len(t) : t[i] \in PlainChars OBVIOUS
<1>2. t \in Seq(Chars)
  <2>1. PlainChars \subseteq Chars BY DEF Chars, PlainChars
  <2> QED BY <2>1, SeqMonotonic
<1>3. \A i \in DOMAIN t : t[i] # "eol" BY <1>1 DEF PlainChars
<1> QED BY <1>2, <1>3, LineRead, LexerIsRight

LEMMA LexedLines ==
  ASSUME NEW text \in Seq(STRING)
  PROVE  LinesOf(text) \in Seq(LexStates)
<1>1. PICK h : (\A i \in 0 .. Len(text) : h[i] \in CutLines) /\ LinesOf(text) = Lexed(h[Len(text)]) BY CutRun
<1> DEFINE cut == h[Len(text)]
<1>2. cut \in Seq(Seq(PlainChars))
  <2>1. Len(text) \in Nat OBVIOUS
  <2> QED BY <1>1, <2>1 DEF CutLines
<1>3. LinesOf(text) = [i \in 1 .. Len(cut) |-> Lex_Line(cut[i])] BY <1>1, <1>2 DEF Lexed
<1> HIDE DEF cut
<1>4. \A i \in 1 .. Len(cut) : Lex_Line(cut[i]) \in LexStates BY <1>2, PlainLine
<1> QED BY <1>2, <1>3, <1>4

-----------------------------------------------------------------------------
(* The lines of a text that are not blank                                 *)

Begins(u, t) == Len(u) <= Len(t) /\ \A i \in 1 .. Len(u) : u[i] = t[i]

LEMMA StepsFrom ==
  ASSUME NEW m \in Nat, NEW n \in Nat, NEW S, m \in S, \A i \in m + 1 .. n : i - 1 \in S => i \in S
  PROVE  \A i \in m .. n : i \in S
<1> DEFINE B == {i \in m .. n : i \notin S}
<1> SUFFICES ASSUME B # {} PROVE FALSE OBVIOUS
<1>1. PICK k \in B : \A j \in B : ~(j < k)
  <2>1. B \in SUBSET Nat OBVIOUS
  <2> HIDE DEF B
  <2> QED BY <2>1, SmallestNat
<1>2. k # m /\ k \in m .. n OBVIOUS
<1>3. k - 1 \in S BY <1>1, <1>2
<1> QED BY <1>2, <1>3

-----------------------------------------------------------------------------
(* The files that are checked                                              *)

Written == {line \in LexStates : ~IsBlankLine(line)}

LEMMA WrittenEntries == \A lines \in Seq(Written) : AllEntries(lines, Len(lines)) /\ NestedIn(lines)
<1> SUFFICES ASSUME NEW lines \in Seq(Written) PROVE AllEntries(lines, Len(lines)) /\ NestedIn(lines) OBVIOUS
<1>1. \A i \in 1 .. Len(lines) : lines[i] \in Written OBVIOUS
<1>2. AllEntries(lines, Len(lines)) BY <1>1 DEF AllEntries, Written, LexStates
<1>3. NestedIn(lines)
  <2> HIDE DEF Written
  <2> QED BY <1>2, NestingIsRight
<1> QED BY <1>2, <1>3

EntriesFcn(lines) ==
  CHOOSE g : g = [s \in SUBSET DOMAIN lines |->
                    IF s = {} THEN <<>> ELSE AddEntry(g[s \ {Max(s)}], lines[Max(s)])]

LEMMA EntriesFolded == \A lines : FoldLeft(AddEntry, <<>>, lines) = EntriesFcn(lines)[DOMAIN lines]
BY DEF FoldLeft, MapThenFoldSet, EntriesFcn

AreEntries(h, n, lines) == h[0] = <<>> /\ \A i \in 1 .. n : h[i] = AddEntry(h[i - 1], lines[i])

LEMMA EntriesRun ==
  ASSUME NEW text \in Seq(STRING)
  PROVE  \E h : /\ AreEntries(h, Len(LinesOf(text)), LinesOf(text))
                /\ \A i \in 0 .. Len(LinesOf(text)) : h[i] \in Seq(Written)
                /\ EntriesOf(text) = h[Len(LinesOf(text))]
<1> DEFINE lines == LinesOf(text)
           n == Len(lines)
           V == Seq(Written)
           step == [x \in (1 .. n) \X V |-> AddEntry(x[2], lines[x[1]])]
           g == EntriesFcn(lines)
           base == <<>>
<1>1. lines \in Seq(LexStates) BY LexedLines
<1> HIDE DEF lines
<1>2. n \in Nat /\ DOMAIN lines = 1 .. n /\ \A i \in 1 .. n : lines[i] \in LexStates BY <1>1
<1> HIDE DEF n
<1>3. \A i \in 1 .. n : \A v \in V : AddEntry(v, lines[i]) \in V BY <1>2 DEF AddEntry, Written
<1>4. base \in V OBVIOUS
<1> HIDE DEF V, base
<1>5. \A i \in 1 .. n : \A v \in V : step[<<i, v>>] = AddEntry(v, lines[i]) OBVIOUS
<1> HIDE DEF step
<1>6. PICK k \in [SUBSET (1 .. n) -> V] : \A s \in SUBSET (1 .. n) : k[s] = FoldStep(base, step, k, s)
  <2>1. \A i \in 1 .. n : \A v \in V : step[<<i, v>>] \in V BY <1>3, <1>5
  <2> HIDE DEF g
  <2>2. FoldDefined(n, V, base, step) BY <1>2, <1>4, <2>1, FoldExists
  <2> QED BY <2>2 DEF FoldDefined
<1>7. \A s \in SUBSET (1 .. n) : s # {} => Max(s) \in 1 .. n /\ s \ {Max(s)} \in SUBSET (1 .. n)
  BY <1>2, MaxIn
<1>8. k = [s \in SUBSET DOMAIN lines |->
             IF s = {} THEN base ELSE AddEntry(k[s \ {Max(s)}], lines[Max(s)])]
  <2>1. ASSUME NEW s \in SUBSET (1 .. n)
        PROVE  k[s] = IF s = {} THEN base ELSE AddEntry(k[s \ {Max(s)}], lines[Max(s)])
    BY <1>5, <1>6, <1>7 DEF FoldStep
  <2> QED BY <1>2, <2>1
<1>9. g = [s \in SUBSET DOMAIN lines |->
             IF s = {} THEN base ELSE AddEntry(g[s \ {Max(s)}], lines[Max(s)])]
  BY <1>8 DEF EntriesFcn, base
<1> HIDE DEF g
<1> DEFINE h == [i \in 0 .. n |-> g[1 .. i]]
<1>10. h[0] = base
  <2>1. h[0] = g[1 .. 0] BY <1>2
  <2>2. 1 .. 0 = {} OBVIOUS
  <2>3. {} \in SUBSET DOMAIN lines OBVIOUS
  <2>4. g[{}] = base BY <1>9, <2>3
  <2> QED BY <2>1, <2>2, <2>4
<1>11. ASSUME NEW i \in 1 .. n PROVE h[i] = AddEntry(h[i - 1], lines[i])
  <2>1. i \in 0 .. n /\ i - 1 \in 0 .. n /\ i \in Nat BY <1>2
  <2>2. h[i] = g[1 .. i] /\ h[i - 1] = g[1 .. i - 1] BY <2>1
  <2>3. 1 .. i \in SUBSET DOMAIN lines /\ 1 .. i # {}
    <3>1. i \in 1 .. i /\ 1 .. i \subseteq 1 .. n BY <1>2, <2>1
    <3> QED BY <1>2, <3>1
  <2>4. Max(1 .. i) = i
    <3>1. i \in 1 .. i /\ 1 .. i \in SUBSET (1 .. i) BY <2>1
    <3> QED BY <2>1, <3>1, MaxOf
  <2>5. (1 .. i) \ {i} = 1 .. i - 1 BY <2>1
  <2>6. g[1 .. i] = AddEntry(g[(1 .. i) \ {Max(1 .. i)}], lines[Max(1 .. i)]) BY <1>9, <2>3
  <2> QED BY <2>2, <2>4, <2>5, <2>6
<1>12. EntriesOf(text) = h[n]
  <2>1. h[n] = g[1 .. n] BY <1>2
  <2>2. EntriesOf(text) = g[1 .. n] BY <1>2, EntriesFolded DEF EntriesOf, g, lines
  <2> QED BY <2>1, <2>2
<1> HIDE DEF h
<1> DEFINE S == {i \in 0 .. n : h[i] \in V}
<1>13. 0 \in S BY <1>2, <1>4, <1>10
<1>14. \A i \in 1 .. n : i - 1 \in S => i \in S BY <1>2, <1>3, <1>11
<1>15. \A i \in 0 .. n : i \in S
  <2> HIDE DEF S
  <2> QED BY <1>2, <1>13, <1>14, Steps
<1> QED BY <1>10, <1>11, <1>12, <1>15 DEF AreEntries, n, lines, base, V

LEMMA EntriesWritten ==
  ASSUME NEW text \in Seq(STRING)
  PROVE  EntriesOf(text) \in Seq(Written)
<1>1. LinesOf(text) \in Seq(LexStates) BY LexedLines
<1>2. Len(LinesOf(text)) \in Nat BY <1>1
<1> QED BY <1>2, EntriesRun

LEMMA EntriesBegin ==
  ASSUME NEW h, NEW n \in Nat, NEW lines, AreEntries(h, n, lines),
         \A i \in 0 .. n : h[i] \in Seq(Written), NEW m \in 0 .. n
  PROVE  Begins(h[m], h[n])
<1> DEFINE S == {i \in m .. n : Begins(h[m], h[i])}
<1>0. m \in Nat /\ m <= n OBVIOUS
<1>1. m \in S
  <2>1. h[m] \in Seq(Written) OBVIOUS
  <2>2. Len(h[m]) \in Nat BY <2>1
  <2> QED BY <1>0, <2>2 DEF Begins
<1>2. ASSUME NEW i \in m + 1 .. n, i - 1 \in S PROVE i \in S
  <2>1. i \in 1 .. n /\ i \in m .. n /\ i - 1 \in 0 .. n BY <1>0
  <2>2. h[i] = AddEntry(h[i - 1], lines[i]) BY <2>1 DEF AreEntries
  <2> DEFINE a == h[m]
             b == h[i - 1]
  <2>3. a \in Seq(Written) /\ b \in Seq(Written) /\ Begins(a, b) BY <1>2, <2>1
  <2> HIDE DEF a, b, Written
  <2>4. CASE h[i] = b BY <2>1, <2>3, <2>4 DEF a
  <2>5. CASE h[i] = Append(b, lines[i])
    <3>1. Len(a) \in Nat /\ Len(b) \in Nat BY <2>3
    <3>2. Len(h[i]) = Len(b) + 1 /\ \A q \in 1 .. Len(b) : h[i][q] = b[q] BY <2>3, <2>5, Appended
    <3>3. Begins(a, h[i]) BY <2>3, <3>1, <3>2 DEF Begins
    <3> QED BY <2>1, <3>3 DEF a
  <2> QED BY <2>2, <2>4, <2>5 DEF AddEntry, b
<1> HIDE DEF S
<1>3. \A i \in m .. n : i \in S BY <1>0, <1>1, <1>2, StepsFrom
<1>4. n \in S BY <1>0, <1>3
<1> QED BY <1>4 DEF S

(* In every text, comments and blank lines included: what is read is what  *)
(* the lines that are not blank say, and if it is accepted, each of these  *)
(* reaches the item that it is indented under (fn_parse.cpp, ParseLogger,  *)
(* which leaves a line without a key out).                                 *)
THEOREM TextIsItsEntries ==
  ASSUME NEW text \in Seq(STRING)
  PROVE  ParseLogger(text) = ParseLines(EntriesOf(text)) /\ NestedIn(EntriesOf(text))
<1> DEFINE lines == LinesOf(text)
           n == Len(lines)
           e == EntriesOf(text)
           k == Len(e)
           rets == Codes \cup {lines[i].ret : i \in 1 .. n} \cup {e[i].ret : i \in 1 .. k}
           blanks == {0} \cup {lines[i].blank : i \in 1 .. n} \cup {e[i].blank : i \in 1 .. k}
           vals == {0, {}} \cup {ValueOf(lines[i].key, lines[i].val) : i \in 1 .. n}
                           \cup {ValueOf(e[i].key, e[i].val) : i \in 1 .. k}
<1>1. lines \in Seq(LexStates) /\ e \in Seq(Written) BY LexedLines, EntriesWritten
<1>2. n \in Nat /\ DOMAIN lines = 1 .. n /\ k \in Nat /\ DOMAIN e = 1 .. k BY <1>1
<1>3. PICK h : /\ AreEntries(h, n, lines) /\ \A i \in 0 .. n : h[i] \in Seq(Written)
               /\ e = h[n]
  BY EntriesRun
<1>4. NestedIn(e) BY <1>1, WrittenEntries
<1>5. ParseLogger(text) = ParseLines(lines) BY DEF ParseLogger
<1>6. Covers(rets, blanks, vals) BY DEF Covers
<1>7. \A i \in 1 .. n : Brings(lines[i], rets, blanks, vals) BY DEF Brings
<1>8. \A i \in 1 .. k : Brings(e[i], rets, blanks, vals) BY DEF Brings
<1> HIDE DEF lines, n, e, k, rets, blanks, vals
<1>9. PICK f : IsRun(f, n, lines) /\ FoldLeft(ParseLine, StartParse, lines) = f[n]
  BY <1>2, <1>6, <1>7, LinesRun
<1>10. PICK g : IsRun(g, k, e) /\ FoldLeft(ParseLine, StartParse, e) = g[k]
  BY <1>2, <1>6, <1>8, LinesRun
<1>11. f[n] = g[k]
  <2> DEFINE S == {i \in 0 .. n : f[i] = g[Len(h[i])]}
  <2>1. 0 \in S
    <3>1. h[0] = <<>> /\ f[0] = StartParse /\ g[0] = StartParse BY <1>3, <1>9, <1>10 DEF AreEntries, IsRun
    <3>2. Len(h[0]) = 0 BY <3>1
    <3> QED BY <1>2, <3>1, <3>2
  <2>2. ASSUME NEW i \in 1 .. n, i - 1 \in S PROVE i \in S
    <3>1. i \in 0 .. n /\ i - 1 \in 0 .. n BY <1>2
    <3>2. h[i] = AddEntry(h[i - 1], lines[i]) /\ f[i] = ParseLine(f[i - 1], lines[i])
      BY <1>3, <1>9 DEF AreEntries, IsRun
    <3>3. CASE IsBlankLine(lines[i])
      <4>1. h[i] = h[i - 1] BY <3>2, <3>3 DEF AddEntry
      <4>2. f[i] = f[i - 1] BY <3>2, <3>3, BlankStays
      <4> QED BY <2>2, <3>1, <4>1, <4>2
    <3>4. CASE ~IsBlankLine(lines[i])
      <4> DEFINE b == h[i - 1]
                 l == Len(b)
      <4>1. h[i] = Append(b, lines[i]) BY <3>2, <3>4 DEF AddEntry
      <4>2. b \in Seq(Written) BY <1>3, <3>1
      <4> HIDE DEF b, Written
      <4>3. l \in Nat BY <4>2
      <4>4. Len(h[i]) = l + 1 /\ h[i][l + 1] = lines[i] BY <4>1, <4>2, Appended
      <4>5. Begins(h[i], e) BY <1>2, <1>3, <3>1, EntriesBegin
      <4> HIDE DEF l
      <4>6. l + 1 <= Len(e) /\ l + 1 \in 1 .. Len(h[i]) BY <4>3, <4>4, <4>5 DEF Begins
      <4>7. l + 1 \in 1 .. k /\ e[l + 1] = lines[i]
        <5>1. e[l + 1] = h[i][l + 1] BY <4>5, <4>6 DEF Begins
        <5> QED BY <1>2, <4>3, <4>4, <4>6, <5>1 DEF k
      <4>8. g[l + 1] = ParseLine(g[l], lines[i])
        <5>1. \A q \in 1 .. k : g[q] = ParseLine(g[q - 1], e[q]) BY <1>10 DEF IsRun
        <5> DEFINE q == l + 1
        <5>2. q \in 1 .. k /\ q - 1 = l /\ e[q] = lines[i] BY <4>3, <4>7
        <5> HIDE DEF q
        <5>3. g[q] = ParseLine(g[l], lines[i]) BY <5>1, <5>2
        <5> QED BY <5>3 DEF q
      <4>9. f[i - 1] = g[l] BY <2>2 DEF l, b
      <4> QED BY <3>1, <3>2, <4>4, <4>8, <4>9
    <3> QED BY <3>3, <3>4
  <2> HIDE DEF S
  <2>3. \A i \in 0 .. n : i \in S BY <1>2, <2>1, <2>2, Steps
  <2>4. n \in S BY <1>2, <2>3
  <2> QED BY <1>3, <2>4 DEF S, k
<1>12. ParseLines(lines) = ParseLines(e) BY <1>9, <1>10, <1>11 DEF ParseLines
<1> QED BY <1>4, <1>5, <1>12 DEF e

LEMMA ReindentedWritten ==
  ASSUME NEW lines \in Seq(Written)
  PROVE  Reindented(lines) \subseteq Seq(Written)
<1>1. Len(lines) \in Nat /\ DOMAIN lines = 1 .. Len(lines) /\ \A i \in 1 .. Len(lines) : lines[i] \in Written
  OBVIOUS
<1>2. ASSUME NEW i \in DOMAIN lines PROVE RemoveAt(lines, i) \in Seq(Written)
  <2> HIDE DEF Written
  <2>1. i \in 1 .. Len(lines) BY <1>1
  <2>2. SubSeq(lines, 1, i - 1) \in Seq(Written)
    <3>1. \A k \in 1 .. i - 1 : lines[k] \in Written BY <1>1, <2>1
    <3>2. 1 \in Int /\ i - 1 \in Int BY <2>1
    <3> QED BY <3>1, <3>2, SubSeqProperties
  <2>3. SubSeq(lines, i + 1, Len(lines)) \in Seq(Written)
    <3>1. \A k \in i + 1 .. Len(lines) : lines[k] \in Written BY <1>1, <2>1
    <3>2. i + 1 \in Int /\ Len(lines) \in Int BY <1>1, <2>1
    <3> QED BY <3>1, <3>2, SubSeqProperties
  <2> QED BY <2>2, <2>3 DEF RemoveAt
<1>3. ASSUME NEW i \in DOMAIN lines, NEW m \in 0 .. 3 PROVE [lines EXCEPT ![i].blank = m] \in Seq(Written)
  <2> DEFINE line == [lines[i] EXCEPT !.blank = m]
  <2>1. [lines EXCEPT ![i].blank = m] = [lines EXCEPT ![i] = line] OBVIOUS
  <2>2. line \in Written
    <3>1. lines[i] \in LexStates /\ ~IsBlankLine(lines[i]) /\ m \in Nat BY <1>1 DEF Written
    <3>2. line \in LexStates BY <3>1 DEF LexStates
    <3>3. line.ret = lines[i].ret /\ line.key = lines[i].key BY <3>1 DEF LexStates
    <3> HIDE DEF line
    <3> QED BY <3>1, <3>2, <3>3 DEF Written, IsBlankLine
  <2> HIDE DEF line, Written
  <2>3. [lines EXCEPT ![i] = line] \in Seq(Written) BY <1>1, <2>2
  <2> QED BY <2>1, <2>3
<1> HIDE DEF Written
<1> SUFFICES ASSUME NEW other \in Reindented(lines) PROVE other \in Seq(Written) OBVIOUS
<1> DEFINE Blank(i, m) == [lines EXCEPT ![i].blank = m]
<1>4. Reindented(lines) = {lines} \cup {RemoveAt(lines, i) : i \in DOMAIN lines}
                                  \cup {Blank(i, m) : i \in DOMAIN lines, m \in 0 .. 3}
  BY DEF Reindented
<1>5. \A i \in DOMAIN lines, m \in 0 .. 3 : Blank(i, m) \in Seq(Written) BY <1>3
<1> HIDE DEF Blank
<1> QED BY <1>2, <1>4, <1>5

LEMMA NothingMisnested == Misnested = {} /\ \A v \in DOMAIN Texts : MisnestedIn[v] = {}
<1>1. ASSUME NEW lines \in Files PROVE NestedIn(lines)
  <2>1. PICK n \in 0 .. MaxLines : lines \in [1 .. n -> Lines] BY DEF Files
  <2>2. n \in Nat BY LineAssumption
  <2>3. lines \in Seq(Lines) /\ Len(lines) = n BY <2>1, <2>2, SeqDef
  <2>4. AllEntries(lines, Len(lines)) BY <2>1, <2>3, LineAssumption DEF AllEntries
  <2> QED BY <2>3, <2>4, NestingIsRight
<1>2. ASSUME NEW v \in DOMAIN Texts, NEW lines \in Reindented(EntriesOf(Texts[v])) PROVE NestedIn(lines)
  <2>1. Texts[v] \in Seq(STRING) BY TextAssumption
  <2>2. lines \in Seq(Written) BY <1>2, <2>1, EntriesWritten, ReindentedWritten
  <2> QED BY <2>2, WrittenEntries
<1> QED BY <1>1, <1>2 DEF Misnested, MisnestedIn

-----------------------------------------------------------------------------
(* What the beginning of a file has in common with the whole               *)

(* A line that was cut off and is accepted all the same.                   *)
SameSetting(a, b) == a.key = b.key /\ a.blank = b.blank /\ a.val[1] = b.val[1]

LEMMA PrefixFirst ==
  ASSUME NEW t \in Seq(Chars), NEW v \in DOMAIN t, NEW val \in Seq(Chars), val # <<>>,
         IsPrefix(val, SubSeq(t, v, Len(t)))
  PROVE  val[1] = t[v]
<1> DEFINE r == SubSeq(t, v, Len(t))
<1>1. Len(r) = Len(t) - v + 1 /\ r \in Seq(Chars) /\ r[1] = t[v] OBVIOUS
<1> HIDE DEF r
<1>2. Len(val) \in Nat \ {0} OBVIOUS
<1>3. SubSeq(val, 1, Len(val)) = SubSeq(r, 1, Len(val)) /\ Len(val) <= Len(r) BY DEF IsPrefix, r
<1>4. SubSeq(val, 1, Len(val))[1] = val[1] BY <1>2
<1>5. SubSeq(r, 1, Len(val))[1] = r[1] BY <1>1, <1>2, <1>3
<1> QED BY <1>1, <1>3, <1>4, <1>5

LEMMA HalfLine ==
  ASSUME NEW u \in Seq(PlainChars), NEW t \in Seq(PlainChars), Begins(u, t),
         Lex_Line(u).ret = "NONE", Lex_Line(t).ret = "NONE"
  PROVE  \/ IsBlankLine(Lex_Line(u))
         \/ SameSetting(Lex_Line(u), Lex_Line(t)) /\ ~IsBlankLine(Lex_Line(u)) /\ ~IsBlankLine(Lex_Line(t))
<1> DEFINE a == Lex_Line(u)
           b == Lex_Line(t)
<1>1. /\ LineEnd(u, a) /\ LineEnd(t, b) /\ a \in LexStates /\ b \in LexStates
      /\ u \in Seq(Chars) /\ t \in Seq(Chars)
  BY PlainLine
<1>2. Len(u) \in Nat /\ DOMAIN u = 1 .. Len(u) /\ Len(t) \in Nat /\ DOMAIN t = 1 .. Len(t) BY <1>1
<1>3. Done(u, a) /\ Done(t, b) BY <1>1 DEF LineEnd
<1> HIDE DEF a, b
<1>4. CASE IsEmpty(u) /\ a.key = "NULL" BY <1>4 DEF IsBlankLine, a
<1>5. CASE ~(IsEmpty(u) /\ a.key = "NULL")
  <2>1. PICK k, c, v \in DOMAIN u :
          /\ IsEntry(u, k, c, v) /\ IsKey(u, k, a)
          /\ a.val # <<>> /\ IsPrefix(a.val, SubSeq(u, v, Len(u)))
    BY <1>3, <1>5 DEF Done
  <2>2. HeadAt(u, k) /\ IsSep(u, k, c) /\ IsVal(u, c, v) BY <1>1, <2>1, EntryIs
  <2>3. DOMAIN u \subseteq DOMAIN t /\ \A i \in DOMAIN u : u[i] = t[i] BY <1>2 DEF Begins
  <2>4. 1 .. k - 1 \subseteq DOMAIN u /\ k + 1 .. c - 1 \subseteq DOMAIN u /\ c + 1 .. v - 1 \subseteq DOMAIN u
    BY <1>2, <2>1
  <2>5. HeadAt(t, k)
    <3>1. \A i \in 1 .. k - 1 : u[i] = t[i] BY <2>3, <2>4
    <3> QED BY <2>1, <2>2, <2>3, <3>1 DEF HeadAt
  <2>6. IsSep(t, k, c) BY <2>1, <2>2, <2>3, <2>4 DEF IsSep, Gap
  <2>7. IsVal(t, c, v) BY <2>1, <2>2, <2>3, <2>4 DEF IsVal, Gap
  <2>8. ~IsEmpty(t) BY <1>1, <2>5, HeadNotEmpty
  <2>9. PICK m, d, w \in DOMAIN t :
          /\ IsEntry(t, m, d, w) /\ IsKey(t, m, b)
          /\ b.val # <<>> /\ IsPrefix(b.val, SubSeq(t, w, Len(t)))
    BY <1>3, <2>8 DEF Done
  <2>10. HeadAt(t, m) /\ IsSep(t, m, d) /\ IsVal(t, d, w) BY <1>1, <2>9, EntryIs
  <2>11. m = k BY <1>1, <2>5, <2>10, OneKey
  <2>12. d = c BY <1>1, <1>2, <2>1, <2>6, <2>10, <2>11, OneSep
  <2>13. w = v BY <1>1, <1>2, <2>1, <2>7, <2>10, <2>12, OneVal
  <2>14. a.key = b.key /\ a.key # "NULL" BY <2>1, <2>2, <2>3, <2>9, <2>11 DEF IsKey, IsSep
  <2>15. a.blank = b.blank
    <3>1. Indent(u, k) = Indent(t, k)
      <4>1. \A i \in 1 .. k - 1 : 1 .. i \subseteq 1 .. k - 1 BY <1>2, <2>1
      <4>2. \A i \in 1 .. k - 1 : (\A j \in 1 .. i : u[j] # "-") <=> (\A j \in 1 .. i : t[j] # "-")
        BY <2>3, <2>4, <4>1
      <4>3. {i \in 1 .. k - 1 : \A j \in 1 .. i : u[j] # "-"} = {i \in 1 .. k - 1 : \A j \in 1 .. i : t[j] # "-"}
        BY <4>2
      <4> QED BY <4>3 DEF Indent
    <3> QED BY <2>1, <2>9, <2>11, <3>1 DEF IsKey
  <2>16. a.val[1] = b.val[1]
    <3>1. a.val \in Seq(Chars) /\ b.val \in Seq(Chars) BY <1>1 DEF LexStates
    <3>2. a.val[1] = u[v] BY <1>1, <2>1, <3>1, PrefixFirst
    <3>3. b.val[1] = t[v] BY <1>1, <2>9, <2>13, <3>1, PrefixFirst
    <3> QED BY <2>1, <2>3, <3>2, <3>3
  <2>17. SameSetting(a, b) BY <2>14, <2>15, <2>16 DEF SameSetting
  <2>18. ~IsBlankLine(a) /\ ~IsBlankLine(b) BY <2>14 DEF IsBlankLine
  <2> QED BY <2>17, <2>18 DEF a, b
<1> QED BY <1>4, <1>5

(* The channels of the one are those of the other, the last being begun.   *)
BeginningOf(chs, all) ==
  LET last == Len(chs)
  IN  /\ last <= Len(all)
      /\ \A c \in 1 .. last - 1 : chs[c] = all[c]
      /\ last # 0 =>
           /\ Len(chs[last].devices) <= Len(all[last].devices)
           /\ \A d \in 1 .. Len(chs[last].devices) - 1 : chs[last].devices[d] = all[last].devices[d]

LEMMA ChannelTypes ==
  ASSUME NEW vals, NEW chs \in Seq(ChannelSet(vals))
  PROVE  /\ Len(chs) \in Nat
         /\ \A c \in 1 .. Len(chs) : chs[c].devices \in Seq(Devices(vals)) /\ Len(chs[c].devices) \in Nat
<1> SUFFICES ASSUME NEW c \in 1 .. Len(chs)
             PROVE  chs[c].devices \in Seq(Devices(vals)) /\ Len(chs[c].devices) \in Nat
  OBVIOUS
<1> DEFINE channel == chs[c]
<1>1. channel \in ChannelSet(vals) OBVIOUS
<1> HIDE DEF channel
<1>2. channel.devices \in Seq(Devices(vals)) BY <1>1 DEF ChannelSet
<1> QED BY <1>2 DEF channel

LEMMA BeginningSelf ==
  ASSUME NEW vals, NEW chs \in Seq(ChannelSet(vals))
  PROVE  BeginningOf(chs, chs)
<1>1. Len(chs) \in Nat /\ \A c \in 1 .. Len(chs) : Len(chs[c].devices) \in Nat BY ChannelTypes
<1> QED BY <1>1 DEF BeginningOf

LEMMA BeginningTrans ==
  ASSUME NEW vals, NEW x \in Seq(ChannelSet(vals)), NEW y \in Seq(ChannelSet(vals)),
         NEW z \in Seq(ChannelSet(vals)), BeginningOf(x, y), BeginningOf(y, z)
  PROVE  BeginningOf(x, z)
<1> DEFINE l == Len(x)
<1>1. /\ Len(x) \in Nat /\ Len(y) \in Nat /\ Len(z) \in Nat
      /\ \A c \in 1 .. Len(x) : Len(x[c].devices) \in Nat
      /\ \A c \in 1 .. Len(y) : Len(y[c].devices) \in Nat
      /\ \A c \in 1 .. Len(z) : Len(z[c].devices) \in Nat
  BY ChannelTypes
<1>2. l <= Len(y) /\ Len(y) <= Len(z) /\ \A c \in 1 .. l - 1 : x[c] = y[c] BY DEF BeginningOf
<1>3. \A c \in 1 .. Len(y) - 1 : y[c] = z[c] BY DEF BeginningOf
<1>4. \A c \in 1 .. l - 1 : x[c] = z[c] BY <1>1, <1>2, <1>3
<1>5. ASSUME l # 0
      PROVE  /\ Len(x[l].devices) <= Len(z[l].devices)
             /\ \A d \in 1 .. Len(x[l].devices) - 1 : x[l].devices[d] = z[l].devices[d]
  <2>1. /\ Len(x[l].devices) <= Len(y[l].devices)
        /\ \A d \in 1 .. Len(x[l].devices) - 1 : x[l].devices[d] = y[l].devices[d]
    BY <1>5 DEF BeginningOf
  <2>2. l \in 1 .. Len(x) /\ l \in 1 .. Len(y) /\ l \in 1 .. Len(z) BY <1>1, <1>2, <1>5
  <2>3. CASE l < Len(y)
    <3>1. y[l] = z[l] BY <1>1, <1>3, <2>2, <2>3
    <3> QED BY <2>1, <3>1
  <2>4. CASE l = Len(y)
    <3>1. /\ Len(y[l].devices) <= Len(z[l].devices)
          /\ \A d \in 1 .. Len(y[l].devices) - 1 : y[l].devices[d] = z[l].devices[d]
      BY <1>5, <2>4 DEF BeginningOf
    <3>2. Len(x[l].devices) \in Nat /\ Len(y[l].devices) \in Nat /\ Len(z[l].devices) \in Nat BY <1>1, <2>2
    <3> DEFINE a == x[l].devices
               b == y[l].devices
               e == z[l].devices
    <3>3. Len(a) <= Len(b) /\ \A d \in 1 .. Len(a) - 1 : a[d] = b[d] BY <2>1
    <3>4. Len(b) <= Len(e) /\ \A d \in 1 .. Len(b) - 1 : b[d] = e[d] BY <3>1
    <3>5. Len(a) \in Nat /\ Len(b) \in Nat /\ Len(e) \in Nat BY <3>2
    <3> HIDE DEF a, b, e
    <3>6. Len(a) <= Len(e) /\ \A d \in 1 .. Len(a) - 1 : a[d] = e[d] BY <3>3, <3>4, <3>5
    <3> QED BY <3>6 DEF a, e
  <2> QED BY <1>1, <1>2, <2>3, <2>4
<1> QED BY <1>1, <1>2, <1>4, <1>5 DEF BeginningOf

(* A line adds to what was there.                                          *)
LEMMA StepAdds ==
  ASSUME NEW rets, NEW blanks, NEW vals, NEW ls \in Sound(rets, blanks, vals),
         NEW r \in Sound(rets, blanks, vals), NEW line, Taken(ls, r, line)
  PROVE  BeginningOf(ls.channels, r.channels)
<1> DEFINE open == Opened(ls, line)
           x == ls.channels
           y == r.channels
           C == Len(x)
<1>1. /\ open \in Sound(rets, blanks, vals) /\ open.channels = x
      /\ open.level \in {"logger", "channel", "device"}
  BY OpenedSound
<1>2. x \in Seq(ChannelSet(vals)) /\ y \in Seq(ChannelSet(vals)) BY DEF Sound, States
<1>3. /\ open.level = "device" => InDevice(open, r, line)
      /\ open.level = "channel" => InChannel(open, r, line)
      /\ open.level = "logger" => InLogger(open, r, line)
  BY DEF Taken
<1> HIDE DEF open, x, y
<1>4. C \in Nat /\ \A c \in 1 .. C : x[c].devices \in Seq(Devices(vals)) /\ Len(x[c].devices) \in Nat
  BY <1>2, ChannelTypes
<1>5. ASSUME OnlyChanged(x, y, C), C \in 1 .. C, Len(x[C].devices) <= Len(y[C].devices),
             \A d \in 1 .. Len(x[C].devices) - 1 : x[C].devices[d] = y[C].devices[d]
      PROVE  BeginningOf(x, y)
  BY <1>4, <1>5 DEF BeginningOf, OnlyChanged
<1>6. CASE open.level = "device"
  <2>1. C \in 1 .. C BY <1>1, <1>6, CurrentChannel
  <2>2. OnlyChanged(x, y, C) /\ OnlyChanged(x[C].devices, y[C].devices, Len(x[C].devices))
    BY <1>1, <1>3, <1>6 DEF InDevice, y
  <2>3. Len(x[C].devices) \in Nat BY <1>4, <2>1
  <2>4. /\ Len(x[C].devices) <= Len(y[C].devices)
        /\ \A d \in 1 .. Len(x[C].devices) - 1 : x[C].devices[d] = y[C].devices[d]
    BY <2>2, <2>3 DEF OnlyChanged
  <2> QED BY <1>5, <2>1, <2>2, <2>4 DEF x, y
<1>7. CASE open.level = "channel"
  <2>1. C \in 1 .. C BY <1>1, <1>7, CurrentChannel
  <2> DEFINE old == x[C].devices
             new == y[C].devices
  <2>2. /\ OnlyChanged(x, y, C)
        /\ new = old \/ new = Append(old, NewDevice(Len(old)))
    BY <1>1, <1>3, <1>7 DEF InChannel, y
  <2>3. old \in Seq(Devices(vals)) BY <1>4, <2>1
  <2> HIDE DEF old, new, C
  <2>4. Len(old) <= Len(new) /\ \A d \in 1 .. Len(old) - 1 : old[d] = new[d]
    <3>1. Len(old) \in Nat BY <2>3
    <3>2. CASE new = old BY <3>1, <3>2
    <3>3. CASE new = Append(old, NewDevice(Len(old))) BY <2>3, <3>1, <3>3, Appended
    <3> QED BY <2>2, <3>2, <3>3
  <2> QED BY <1>5, <2>1, <2>2, <2>4 DEF x, y, old, new
<1>8. CASE open.level = "logger"
  <2>1. y = x \/ y = Append(x, NewChannel(Len(x))) BY <1>1, <1>3, <1>8 DEF InLogger, y
  <2>2. CASE y = x BY <1>2, <2>2, BeginningSelf DEF x, y
  <2>3. CASE y = Append(x, NewChannel(Len(x)))
    <3>1. C <= Len(y) /\ \A c \in 1 .. C : x[c] = y[c] BY <1>2, <1>4, <2>3, Appended
    <3>2. C # 0 => C \in 1 .. C BY <1>4
    <3>3. C # 0 => x[C] = y[C] /\ Len(x[C].devices) \in Nat BY <1>4, <3>1, <3>2
    <3>4. \A c \in 1 .. C - 1 : x[c] = y[c] BY <1>4, <3>1
    <3> HIDE DEF C
    <3>5. /\ C # 0 => Len(x[C].devices) <= Len(y[C].devices)
          /\ C # 0 => \A d \in 1 .. Len(x[C].devices) - 1 : x[C].devices[d] = y[C].devices[d]
      BY <3>3
    <3> QED BY <3>1, <3>4, <3>5 DEF BeginningOf, C, x, y
  <2> QED BY <2>1, <2>2, <2>3
<1> QED BY <1>1, <1>6, <1>7, <1>8

(* So does the cut line, compared with the whole line.                     *)
LEMMA HalfStep ==
  ASSUME NEW rets, NEW blanks, NEW vals, NEW ls \in Sound(rets, blanks, vals),
         NEW q \in Sound(rets, blanks, vals), NEW r \in Sound(rets, blanks, vals),
         NEW half, NEW line, SameSetting(half, line), Taken(ls, q, half), Taken(ls, r, line)
  PROVE  BeginningOf(q.channels, r.channels) /\ q.hot_update = r.hot_update
<1> DEFINE open == Opened(ls, line)
           x == q.channels
           y == r.channels
           z == ls.channels
           C == Len(z)
<1>1. /\ open \in Sound(rets, blanks, vals) /\ open.channels = z
      /\ open.level \in {"logger", "channel", "device"}
  BY OpenedSound
<1>2. Opened(ls, half) = open
  <2>1. LevelOf(ls, half) = LevelOf(ls, line) BY DEF LevelOf, SameSetting
  <2> QED BY <2>1 DEF Opened
<1>3. /\ x \in Seq(ChannelSet(vals)) /\ y \in Seq(ChannelSet(vals)) /\ z \in Seq(ChannelSet(vals))
  BY DEF Sound, States
<1>4. q.hot_update = r.hot_update BY <1>2 DEF Taken, SameSetting, ParseBool
<1>5. half.key = line.key BY DEF SameSetting
<1> HIDE DEF open
<1>6. /\ open.level = "device" => InDevice(open, q, half) /\ InDevice(open, r, line)
      /\ open.level = "channel" => InChannel(open, q, half) /\ InChannel(open, r, line)
      /\ open.level = "logger" => InLogger(open, q, half) /\ InLogger(open, r, line)
  BY <1>2 DEF Taken, open
<1> HIDE DEF x, y, z
<1>7. C \in Nat /\ \A c \in 1 .. C : z[c].devices \in Seq(Devices(vals)) /\ Len(z[c].devices) \in Nat
  BY <1>3, ChannelTypes
<1>8. ASSUME C \in 1 .. C, OnlyChanged(z, x, C), OnlyChanged(z, y, C), Len(x[C].devices) <= Len(y[C].devices),
             \A d \in 1 .. Len(x[C].devices) - 1 : x[C].devices[d] = y[C].devices[d]
      PROVE  BeginningOf(x, y)
  <2>1. Len(x) = C /\ Len(y) = C BY <1>8 DEF OnlyChanged
  <2>2. \A c \in 1 .. C - 1 : x[c] = y[c] BY <1>7, <1>8 DEF OnlyChanged
  <2> HIDE DEF C
  <2> QED BY <1>7, <1>8, <2>1, <2>2 DEF BeginningOf
<1>9. CASE open.level = "device"
  <2>1. C \in 1 .. C BY <1>1, <1>9, CurrentChannel
  <2> DEFINE old == z[C].devices
             a == x[C].devices
             b == y[C].devices
  <2>2. /\ OnlyChanged(z, x, C) /\ OnlyChanged(old, a, Len(old))
        /\ OnlyChanged(z, y, C) /\ OnlyChanged(old, b, Len(old))
    BY <1>1, <1>6, <1>9 DEF InDevice, x, y
  <2>3. Len(old) \in Nat BY <1>7, <2>1
  <2> HIDE DEF old, a, b, C
  <2>4. Len(a) = Len(old) /\ Len(b) = Len(old) BY <2>2 DEF OnlyChanged
  <2>5. Len(a) <= Len(b) /\ \A d \in 1 .. Len(a) - 1 : a[d] = b[d]
    BY <2>2, <2>3, <2>4 DEF OnlyChanged
  <2> QED BY <1>4, <1>8, <2>1, <2>2, <2>5 DEF x, y, a, b
<1>10. CASE open.level = "channel"
  <2>1. C \in 1 .. C BY <1>1, <1>10, CurrentChannel
  <2> DEFINE old == z[C].devices
             a == x[C].devices
             b == y[C].devices
  <2>2. OnlyChanged(z, x, C) /\ OnlyChanged(z, y, C) /\ a = b
    BY <1>1, <1>5, <1>6, <1>10 DEF InChannel, x, y
  <2>3. x[C].devices \in Seq(Devices(vals))
    <3>1. C \in 1 .. Len(x) BY <2>1, <2>2 DEF OnlyChanged
    <3> QED BY <1>3, <3>1, ChannelTypes
  <2>4. Len(a) \in Nat BY <2>3
  <2> HIDE DEF a, b, C
  <2>5. Len(a) <= Len(b) /\ \A d \in 1 .. Len(a) - 1 : a[d] = b[d] BY <2>2, <2>4
  <2> QED BY <1>4, <1>8, <2>1, <2>2, <2>5 DEF x, y, a, b
<1>11. CASE open.level = "logger"
  <2>1. x = y BY <1>1, <1>5, <1>6, <1>11 DEF InLogger, x, y
  <2> QED BY <1>3, <1>4, <2>1, BeginningSelf DEF x, y
<1> QED BY <1>1, <1>9, <1>10, <1>11

(* The lines of a beginning are those of the text, but for the last one.   *)
CutShort(a, b) ==
  /\ Len(a) <= Len(b) /\ \A i \in 1 .. Len(a) - 1 : a[i] = b[i]
  /\ Begins(a[Len(a)], b[Len(a)])

LEMMA CutShortStep ==
  ASSUME NEW a \in CutLines, NEW b \in CutLines, CutShort(a, b), NEW ch \in STRING
  PROVE  CutShort(a, CutAt(b, ch))
<1> DEFINE m == Len(a)
           n == Len(b)
<1>1. /\ a \in Seq(Seq(PlainChars)) /\ b \in Seq(Seq(PlainChars))
      /\ m \in Nat \ {0} /\ n \in Nat \ {0} /\ m <= n
  BY DEF CutLines, CutShort
<1>2. a[m] \in Seq(PlainChars) /\ b[m] \in Seq(PlainChars) /\ b[n] \in Seq(PlainChars) BY <1>1
<1>3. CASE ch = "eol"
  <2>1. CutAt(b, ch) = Append(b, <<>>) BY <1>3 DEF CutAt
  <2>2. Len(CutAt(b, ch)) = n + 1 /\ \A q \in 1 .. n : CutAt(b, ch)[q] = b[q] BY <1>1, <2>1, Appended
  <2> HIDE DEF m, n
  <2>3. m \in 1 .. n /\ 1 .. m - 1 \subseteq 1 .. n BY <1>1
  <2>4. Len(a) <= Len(CutAt(b, ch)) BY <1>1, <2>2 DEF m
  <2> QED BY <2>2, <2>3, <2>4 DEF CutShort, m
<1>4. CASE ch # "eol"
  <2> DEFINE last == Append(b[n], ch)
             e == [b EXCEPT ![n] = last]
  <2>1. CutAt(b, ch) = e BY <1>4 DEF CutAt
  <2>3. Len(last) = Len(b[n]) + 1 /\ \A q \in 1 .. Len(b[n]) : last[q] = b[n][q] BY <1>2, Appended
  <2>6. last \in Seq(PlainChars)
    <3>1. ch \in PlainChars BY <1>4 DEF PlainChars
    <3> QED BY <1>2, <3>1, AppendProperties
  <2> HIDE DEF last
  <2>2. Len(e) = n /\ e[n] = last /\ \A q \in 1 .. n - 1 : e[q] = b[q] BY <1>1, <2>6
  <2> HIDE DEF m, n, e
  <2>4. Begins(a[m], e[m])
    <3>1. Begins(a[m], b[m]) BY DEF CutShort, m
    <3>2. CASE m < n
      <4>1. m \in 1 .. n - 1 BY <1>1, <3>2
      <4>2. e[m] = b[m] BY <2>2, <4>1
      <4> QED BY <3>1, <4>2
    <3>3. CASE m = n
      <4>1. Len(a[m]) \in Nat /\ Len(b[m]) \in Nat BY <1>2
      <4>2. Len(a[m]) <= Len(b[m]) /\ \A q \in 1 .. Len(a[m]) : a[m][q] = b[m][q] BY <3>1 DEF Begins
      <4>3. e[m] = last /\ Len(last) = Len(b[m]) + 1 /\ \A q \in 1 .. Len(b[m]) : last[q] = b[m][q]
        BY <2>2, <2>3, <3>3
      <4>4. \A q \in 1 .. Len(a[m]) : a[m][q] = last[q] BY <4>1, <4>2, <4>3
      <4>5. Len(a[m]) <= Len(last) BY <4>1, <4>2, <4>3
      <4> QED BY <4>3, <4>4, <4>5 DEF Begins
    <3> QED BY <1>1, <3>2, <3>3
  <2>5. m <= Len(e) /\ \A q \in 1 .. m - 1 : a[q] = e[q]
    <3>1. \A q \in 1 .. m - 1 : a[q] = b[q] BY DEF CutShort, m
    <3>2. \A q \in 1 .. m - 1 : q \in 1 .. n - 1 BY <1>1
    <3> QED BY <1>1, <2>2, <3>1, <3>2
  <2> QED BY <2>1, <2>4, <2>5 DEF CutShort, m
<1> QED BY <1>3, <1>4

LEMMA LinesOfBeginning ==
  ASSUME NEW text \in Seq(STRING), NEW m \in 0 .. Len(text)
  PROVE  \E a, b \in CutLines : /\ CutShort(a, b) /\ LinesOf(text) = Lexed(b)
                                /\ LinesOf(SubSeq(text, 1, m)) = Lexed(a)
<1> DEFINE n == Len(text)
           begin == SubSeq(text, 1, m)
<1>1. n \in Nat /\ m \in Nat /\ m <= n OBVIOUS
<1>2. begin \in Seq(STRING) /\ Len(begin) = m /\ \A i \in 1 .. m : begin[i] = text[i]
  <2>1. \A i \in 1 .. m : text[i] \in STRING BY <1>1
  <2>2. /\ begin \in Seq(STRING) /\ Len(begin) = IF 1 <= m THEN m - 1 + 1 ELSE 0
        /\ \A i \in 1 .. m - 1 + 1 : begin[i] = text[1 + i - 1]
    BY <1>1, <2>1, SubSeqProperties
  <2> HIDE DEF begin
  <2>3. \A i \in 1 .. m : begin[i] = text[i]
    <3> TAKE i \in 1 .. m
    <3>1. i \in 1 .. m - 1 + 1 /\ 1 + i - 1 = i BY <1>1
    <3> QED BY <2>2, <3>1
  <2> QED BY <1>1, <2>2, <2>3
<1>3. PICK h : IsCut(h, n, text) /\ (\A i \in 0 .. n : h[i] \in CutLines) /\ LinesOf(text) = Lexed(h[n])
  BY CutRun
<1> HIDE DEF begin
<1>4. PICK g : IsCut(g, m, begin) /\ LinesOf(begin) = Lexed(g[m]) BY <1>2, CutRun
<1> HIDE DEF n
<1>5. g[m] = h[m]
  <2> DEFINE S == {i \in 0 .. m : g[i] = h[i]}
  <2>1. 0 \in S
    <3>1. g[0] = << <<>> >> BY <1>4, Zenon DEF IsCut
    <3>2. h[0] = << <<>> >> BY <1>3, Zenon DEF IsCut
    <3> QED BY <1>1, <3>1, <3>2
  <2>2. ASSUME NEW i \in 1 .. m, i - 1 \in S PROVE i \in S
    <3>1. i \in 1 .. n BY <1>1
    <3>2. g[i] = CutAt(g[i - 1], begin[i]) /\ h[i] = CutAt(h[i - 1], text[i]) BY <1>3, <1>4, <3>1 DEF IsCut
    <3>3. begin[i] = text[i] BY <1>2
    <3> QED BY <2>2, <3>2, <3>3
  <2> HIDE DEF S
  <2>3. \A i \in 0 .. m : i \in S BY <1>1, <2>1, <2>2, Steps
  <2>4. m \in 0 .. m BY <1>1
  <2> QED BY <2>3, <2>4 DEF S
<1> DEFINE T == {i \in m .. n : CutShort(h[m], h[i])}
<1>6. m \in T
  <2>1. h[m] \in CutLines BY <1>1, <1>3
  <2> DEFINE a == h[m]
  <2>2. a \in Seq(Seq(PlainChars)) /\ a # <<>> BY <2>1 DEF CutLines
  <2> HIDE DEF a
  <2>3. a[Len(a)] \in Seq(PlainChars) /\ Len(a) \in Nat BY <2>2
  <2>4. Begins(a[Len(a)], a[Len(a)]) BY <2>3 DEF Begins
  <2>5. CutShort(a, a) BY <2>3, <2>4 DEF CutShort
  <2> QED BY <1>1, <2>5 DEF a
<1>7. ASSUME NEW i \in m + 1 .. n, i - 1 \in T PROVE i \in T
  <2>1. i \in 1 .. n /\ i - 1 \in 0 .. n /\ i \in m .. n /\ m \in 0 .. n BY <1>1
  <2>2. h[i] = CutAt(h[i - 1], text[i]) BY <1>3, <2>1 DEF IsCut
  <2>3. text[i] \in STRING BY <2>1 DEF n
  <2>4. h[m] \in CutLines /\ h[i - 1] \in CutLines /\ CutShort(h[m], h[i - 1]) BY <1>3, <1>7, <2>1
  <2>5. CutShort(h[m], h[i]) BY <2>2, <2>3, <2>4, CutShortStep
  <2> QED BY <2>1, <2>5
<1>8. n \in T
  <2> HIDE DEF T
  <2>1. \A i \in m .. n : i \in T BY <1>1, <1>6, <1>7, StepsFrom
  <2> QED BY <1>1, <2>1
<1>9. h[m] \in CutLines /\ h[n] \in CutLines BY <1>1, <1>3
<1> QED BY <1>3, <1>4, <1>5, <1>8, <1>9 DEF begin

-----------------------------------------------------------------------------
(* The beginning of an accepted file, if it is accepted                    *)

(* hot_update is given in one line at most.                                *)
SaidOnce(text) ==
  \A i, j \in DOMAIN LinesOf(text) :
    LinesOf(text)[i].key = "HOT_UPDATE" /\ LinesOf(text)[j].key = "HOT_UPDATE" => i = j

LEMMA ErrorRemains ==
  ASSUME NEW f, NEW n \in Nat, NEW lines, IsRun(f, n, lines), f[n].ret = "NONE"
  PROVE  \A i \in 0 .. n : f[i].ret = "NONE"
<1> SUFFICES ASSUME NEW m \in 0 .. n, f[m].ret # "NONE" PROVE FALSE OBVIOUS
<1> DEFINE S == {i \in m .. n : f[i].ret # "NONE"}
<1>1. m \in S OBVIOUS
<1>2. ASSUME NEW i \in m + 1 .. n, i - 1 \in S PROVE i \in S
  <2>1. i \in 1 .. n BY <1>2
  <2>2. f[i] = ParseLine(f[i - 1], lines[i]) BY <2>1 DEF IsRun
  <2> QED BY <1>2, <2>2, ErrorStays
<1>3. n \in S
  <2> HIDE DEF S
  <2>1. m \in Nat /\ m <= n OBVIOUS
  <2>2. \A i \in m .. n : i \in S BY <1>1, <1>2, <2>1, StepsFrom
  <2> QED BY <2>1, <2>2
<1> QED BY <1>3

AllTaken(f, n, rets, blanks, vals) ==
  \A j \in 0 .. n : f[j] \in Sound(rets, blanks, vals) /\ f[j].ret = "NONE"

(* One line of a run.                                                      *)
LEMMA RunStep ==
  ASSUME NEW rets, NEW blanks, NEW vals, NEW f, NEW n \in Nat, NEW lines, IsRun(f, n, lines), NEW i \in 1 .. n,
         AllTaken(f, n, rets, blanks, vals)
  PROVE  /\ BeginningOf(f[i - 1].channels, f[i].channels)
         /\ lines[i].key # "HOT_UPDATE" => f[i].hot_update = f[i - 1].hot_update
<1>1. i - 1 \in 0 .. n /\ i \in 0 .. n OBVIOUS
<1>2. /\ f[i - 1] \in Sound(rets, blanks, vals) /\ f[i] \in Sound(rets, blanks, vals)
      /\ f[i - 1].ret = "NONE" /\ f[i].ret = "NONE"
  BY <1>1 DEF AllTaken
<1>3. f[i] = ParseLine(f[i - 1], lines[i]) BY DEF IsRun
<1>4. CASE IsBlankLine(lines[i])
  <2>1. f[i] = f[i - 1] BY <1>3, <1>4, BlankStays
  <2>2. f[i].channels \in Seq(ChannelSet(vals)) BY <1>2 DEF Sound, States
  <2> QED BY <2>1, <2>2, BeginningSelf
<1>5. CASE ~IsBlankLine(lines[i])
  <2>1. Taken(f[i - 1], f[i], lines[i]) BY <1>2, <1>3, <1>5, LineTaken
  <2> QED BY <1>2, <2>1, StepAdds DEF Taken
<1> QED BY <1>4, <1>5

LEMMA RunAdds ==
  ASSUME NEW rets, NEW blanks, NEW vals, NEW f, NEW n \in Nat, NEW lines, IsRun(f, n, lines),
         AllTaken(f, n, rets, blanks, vals), NEW m \in 0 .. n
  PROVE  BeginningOf(f[m].channels, f[n].channels)
<1> DEFINE S == {i \in m .. n : BeginningOf(f[m].channels, f[i].channels)}
<1>0. m \in Nat /\ m <= n OBVIOUS
<1>1. \A i \in 0 .. n : f[i].channels \in Seq(ChannelSet(vals)) BY DEF AllTaken, Sound, States
<1>2. m \in S BY <1>0, <1>1, BeginningSelf
<1>3. ASSUME NEW i \in m + 1 .. n, i - 1 \in S PROVE i \in S
  <2>1. i \in 1 .. n /\ i - 1 \in 0 .. n /\ i \in 0 .. n /\ i \in m .. n BY <1>0
  <2>2. BeginningOf(f[i - 1].channels, f[i].channels) BY <2>1, RunStep
  <2>3. BeginningOf(f[m].channels, f[i - 1].channels) BY <1>3
  <2>4. /\ f[m].channels \in Seq(ChannelSet(vals)) /\ f[i].channels \in Seq(ChannelSet(vals))
        /\ f[i - 1].channels \in Seq(ChannelSet(vals))
    BY <1>1, <2>1
  <2>5. BeginningOf(f[m].channels, f[i].channels) BY <2>2, <2>3, <2>4, BeginningTrans
  <2> QED BY <2>1, <2>5
<1>4. n \in S
  <2> HIDE DEF S
  <2>1. \A i \in m .. n : i \in S BY <1>0, <1>2, <1>3, StepsFrom
  <2> QED BY <1>0, <2>1
<1> QED BY <1>4

Silent(lines, n, m, l) == \A i \in 1 .. n : m < i /\ i <= l => lines[i].key # "HOT_UPDATE"

(* Without a line that says so, hot_update stays as it is.                 *)
LEMMA RunKeepsHot ==
  ASSUME NEW rets, NEW blanks, NEW vals, NEW f, NEW n \in Nat, NEW lines, IsRun(f, n, lines),
         AllTaken(f, n, rets, blanks, vals),
         NEW l \in 0 .. n, NEW m \in 0 .. l,
         Silent(lines, n, m, l)
  PROVE  f[l].hot_update = f[m].hot_update
<1> DEFINE S == {i \in m .. l : f[i].hot_update = f[m].hot_update}
<1>0. m \in Nat /\ l \in Nat /\ m <= l /\ l <= n OBVIOUS
<1>1. m \in S BY <1>0
<1>2. ASSUME NEW i \in m + 1 .. l, i - 1 \in S PROVE i \in S
  <2>1. i \in 1 .. n /\ i \in m .. l /\ m < i /\ i <= l BY <1>0
  <2>2. lines[i].key # "HOT_UPDATE" BY <2>1 DEF Silent
  <2>3. f[i].hot_update = f[i - 1].hot_update BY <2>1, <2>2, RunStep
  <2> QED BY <1>2, <2>1, <2>3
<1>3. l \in S
  <2> HIDE DEF S
  <2>1. \A i \in m .. l : i \in S BY <1>0, <1>1, <1>2, StepsFrom
  <2> QED BY <1>0, <2>1
<1> QED BY <1>3

(* If the beginning of a file is accepted, and so is the file, what the    *)
(* beginning says may be in use until the file is read again: its channels *)
(* and devices are those of the file, the last channel and its last device *)
(* being begun, and hot update is as the file says or off (fn_parse.cpp,   *)
(* ParseLogger, on what HotUpdateLogger reads of a file being written).    *)
THEOREM BeginningIsPart ==
  ASSUME NEW text \in Seq(STRING), NEW m \in 0 .. Len(text), SaidOnce(text),
         ParseLogger(SubSeq(text, 1, m)).ret = "NONE", ParseLogger(text).ret = "NONE"
  PROVE  IsPartOf(ParseLogger(SubSeq(text, 1, m)), ParseLogger(text))
<1> DEFINE part == ParseLogger(SubSeq(text, 1, m))
           whole == ParseLogger(text)
<1>1. PICK a \in CutLines, b \in CutLines :
        CutShort(a, b) /\ LinesOf(text) = Lexed(b) /\ LinesOf(SubSeq(text, 1, m)) = Lexed(a)
  BY LinesOfBeginning
<1> DEFINE u == Lexed(a)
           t == Lexed(b)
           p == Len(a)
           n == Len(b)
           rets == Codes \cup {u[i].ret : i \in 1 .. p} \cup {t[i].ret : i \in 1 .. n}
           blanks == {0} \cup {u[i].blank : i \in 1 .. p} \cup {t[i].blank : i \in 1 .. n}
           vals == {0, {}} \cup {ValueOf(u[i].key, u[i].val) : i \in 1 .. p}
                           \cup {ValueOf(t[i].key, t[i].val) : i \in 1 .. n}
<1>2. /\ a \in Seq(Seq(PlainChars)) /\ b \in Seq(Seq(PlainChars))
      /\ p \in Nat \ {0} /\ n \in Nat \ {0} /\ p <= n
  BY <1>1 DEF CutLines, CutShort
<1>3. DOMAIN u = 1 .. p /\ DOMAIN t = 1 .. n BY <1>2 DEF Lexed
<1>4. \A i \in 1 .. p - 1 : u[i] = t[i]
  <2> SUFFICES ASSUME NEW i \in 1 .. p - 1 PROVE u[i] = t[i] OBVIOUS
  <2>1. i \in 1 .. p /\ i \in 1 .. n /\ a[i] = b[i] BY <1>1, <1>2 DEF CutShort
  <2>2. i \in DOMAIN a /\ i \in DOMAIN b BY <1>2, <2>1
  <2>3. u[i] = Lex_Line(a[i]) /\ t[i] = Lex_Line(b[i]) BY <2>2 DEF Lexed
  <2> QED BY <2>1, <2>3
<1>5. /\ a[p] \in Seq(PlainChars) /\ b[p] \in Seq(PlainChars) /\ Begins(a[p], b[p])
      /\ u[p] = Lex_Line(a[p]) /\ t[p] = Lex_Line(b[p])
  <2>1. p \in 1 .. p /\ p \in 1 .. n BY <1>2
  <2>2. p \in DOMAIN a /\ p \in DOMAIN b BY <1>2, <2>1
  <2>3. a[p] \in Seq(PlainChars) /\ b[p] \in Seq(PlainChars) BY <1>2, <2>2
  <2> QED BY <1>1, <2>2, <2>3 DEF CutShort, Lexed
<1>6. Covers(rets, blanks, vals) BY DEF Covers
<1>7. \A i \in 1 .. p : Brings(u[i], rets, blanks, vals) BY DEF Brings
<1>8. \A i \in 1 .. n : Brings(t[i], rets, blanks, vals) BY DEF Brings
<1>9. \A i, j \in 1 .. n : t[i].key = "HOT_UPDATE" /\ t[j].key = "HOT_UPDATE" => i = j
  BY <1>1, <1>3 DEF SaidOnce
<1>10. part = ParseLines(u) /\ whole = ParseLines(t) BY <1>1 DEF ParseLogger
<1> HIDE DEF u, t, p, n, rets, blanks, vals
<1>11. PICK g : /\ IsRun(g, p, u) /\ \A i \in 0 .. p : g[i] \in Sound(rets, blanks, vals)
                /\ FoldLeft(ParseLine, StartParse, u) = g[p]
  BY <1>2, <1>3, <1>6, <1>7, LinesRun
<1>12. PICK f : /\ IsRun(f, n, t) /\ \A i \in 0 .. n : f[i] \in Sound(rets, blanks, vals)
                /\ FoldLeft(ParseLine, StartParse, t) = f[n]
  BY <1>2, <1>3, <1>6, <1>8, LinesRun
<1>13. /\ part = g[p] /\ g[p].channels # <<>> /\ g[p].ret = "NONE"
       /\ whole = f[n] /\ f[n].ret = "NONE"
  <2>1. g[p] \in Sound(rets, blanks, vals) /\ f[n] \in Sound(rets, blanks, vals) BY <1>2, <1>11, <1>12
  <2>2. part = IF g[p].ret = "NONE" /\ g[p].channels = <<>> THEN Fail(g[p], "NO_ANY_CHANNEL") ELSE g[p]
    BY <1>10, <1>11 DEF ParseLines
  <2>3. whole = IF f[n].ret = "NONE" /\ f[n].channels = <<>> THEN Fail(f[n], "NO_ANY_CHANNEL") ELSE f[n]
    BY <1>10, <1>12 DEF ParseLines
  <2>4. /\ Fail(g[p], "NO_ANY_CHANNEL").ret = "NO_ANY_CHANNEL"
        /\ Fail(f[n], "NO_ANY_CHANNEL").ret = "NO_ANY_CHANNEL"
    BY <2>1 DEF Fail, Sound, States
  <2> QED BY <2>2, <2>3, <2>4
<1> HIDE DEF part, whole
<1>14. \A i \in 0 .. p : g[i].ret = "NONE" BY <1>2, <1>11, <1>13, ErrorRemains
<1>15. \A i \in 0 .. n : f[i].ret = "NONE" BY <1>2, <1>12, <1>13, ErrorRemains
<1>16. AllTaken(f, n, rets, blanks, vals) BY <1>12, <1>15 DEF AllTaken
<1>17. g[p - 1] = f[p - 1]
  <2> DEFINE S == {i \in 0 .. p - 1 : g[i] = f[i]}
  <2>1. 0 \in S BY <1>2, <1>11, <1>12 DEF IsRun
  <2>2. ASSUME NEW i \in 1 .. p - 1, i - 1 \in S PROVE i \in S
    <3>1. i \in 1 .. p /\ i \in 1 .. n /\ i \in 0 .. p - 1 BY <1>2
    <3>2. g[i] = ParseLine(g[i - 1], u[i]) /\ f[i] = ParseLine(f[i - 1], t[i])
      BY <1>11, <1>12, <3>1 DEF IsRun
    <3> QED BY <1>4, <2>2, <3>1, <3>2
  <2> HIDE DEF S
  <2>3. p - 1 \in Nat BY <1>2
  <2>4. \A i \in 0 .. p - 1 : i \in S BY <2>1, <2>2, <2>3, Steps
  <2>5. p - 1 \in S BY <2>3, <2>4
  <2> QED BY <2>5 DEF S
<1>18. p \in 1 .. p /\ p \in 1 .. n /\ p \in 0 .. n /\ p - 1 \in 0 .. n /\ p \in 0 .. p BY <1>2
<1>19. g[p] = ParseLine(f[p - 1], u[p]) /\ f[p] = ParseLine(f[p - 1], t[p])
  BY <1>11, <1>12, <1>17, <1>18 DEF IsRun
<1>20. /\ f[p - 1] \in Sound(rets, blanks, vals) /\ f[p] \in Sound(rets, blanks, vals)
       /\ f[n] \in Sound(rets, blanks, vals) /\ g[p] \in Sound(rets, blanks, vals)
       /\ f[p - 1].ret = "NONE" /\ f[p].ret = "NONE" /\ g[p].ret = "NONE"
  BY <1>2, <1>11, <1>13, <1>16, <1>18 DEF AllTaken
<1>21. f[0].hot_update = FALSE BY <1>12 DEF IsRun, StartParse
<1>22. \/ g[p] = f[p - 1]
       \/ BeginningOf(g[p].channels, f[p].channels) /\ g[p].hot_update = f[p].hot_update
  <2>1. CASE IsBlankLine(u[p]) BY <1>19, <2>1, BlankStays
  <2>2. CASE ~IsBlankLine(u[p])
    <3>1. Taken(f[p - 1], g[p], u[p]) BY <1>19, <1>20, <2>2, LineTaken
    <3>2. u[p].ret = "NONE" BY <3>1 DEF Taken
    <3>3. t[p].ret = "NONE"
      <4> SUFFICES ASSUME t[p].ret # "NONE" PROVE FALSE OBVIOUS
      <4>1. ~IsBlankLine(t[p]) BY DEF IsBlankLine
      <4>2. Taken(f[p - 1], f[p], t[p]) BY <1>19, <1>20, <4>1, LineTaken
      <4> QED BY <4>2 DEF Taken
    <3>4. SameSetting(u[p], t[p]) /\ ~IsBlankLine(t[p]) BY <1>5, <2>2, <3>2, <3>3, HalfLine
    <3>5. Taken(f[p - 1], f[p], t[p]) BY <1>19, <1>20, <3>4, LineTaken
    <3> QED BY <1>20, <3>1, <3>4, <3>5, HalfStep
  <2> QED BY <2>1, <2>2
<1>23. \A i \in 0 .. n : BeginningOf(f[i].channels, f[n].channels)
  <2> SUFFICES ASSUME NEW i \in 0 .. n PROVE BeginningOf(f[i].channels, f[n].channels) OBVIOUS
  <2> QED BY <1>2, <1>12, <1>16, RunAdds
<1>24. n \in Nat /\ IsRun(f, n, t) BY <1>2, <1>12
<1>25. \A i \in 0 .. n : f[i].hot_update \in {f[n].hot_update, FALSE}
  <2> SUFFICES ASSUME NEW i \in 0 .. n PROVE f[i].hot_update \in {f[n].hot_update, FALSE} OBVIOUS
  <2>1. i \in Nat /\ i <= n /\ n \in 0 .. n /\ 0 \in 0 .. i BY <1>2
  <2>2. CASE \E j \in 1 .. n : i < j /\ t[j].key = "HOT_UPDATE"
    <3>1. PICK j \in 1 .. n : i < j /\ t[j].key = "HOT_UPDATE" BY <2>2
    <3>2. Silent(t, n, 0, i) BY <1>9, <2>1, <3>1 DEF Silent
    <3>3. f[i].hot_update = f[0].hot_update BY <1>16, <1>24, <2>1, <3>2, RunKeepsHot
    <3> QED BY <1>21, <3>3
  <2>3. CASE ~ \E j \in 1 .. n : i < j /\ t[j].key = "HOT_UPDATE"
    <3>1. Silent(t, n, i, n) BY <2>3 DEF Silent
    <3>2. f[n].hot_update = f[i].hot_update BY <1>16, <1>24, <2>1, <3>1, RunKeepsHot
    <3> QED BY <3>2
  <2> QED BY <2>2, <2>3
<1>26. BeginningOf(part.channels, whole.channels) /\ part.hot_update \in {whole.hot_update, FALSE}
  <2>1. CASE g[p] = f[p - 1] BY <1>13, <1>18, <1>23, <1>25, <2>1
  <2>2. CASE BeginningOf(g[p].channels, f[p].channels) /\ g[p].hot_update = f[p].hot_update
    <3>1. BeginningOf(f[p].channels, f[n].channels) BY <1>18, <1>23
    <3>2. /\ g[p].channels \in Seq(ChannelSet(vals)) /\ f[p].channels \in Seq(ChannelSet(vals))
          /\ f[n].channels \in Seq(ChannelSet(vals))
      BY <1>20 DEF Sound, States
    <3>3. BeginningOf(g[p].channels, f[n].channels) BY <2>2, <3>1, <3>2, BeginningTrans
    <3> QED BY <1>13, <1>18, <1>25, <2>2, <3>3
  <2> QED BY <1>22, <2>1, <2>2
<1>27. Len(part.channels) # 0
  <2>1. g[p].channels \in Seq(ChannelSet(vals)) BY <1>20 DEF Sound, States
  <2> QED BY <1>13, <2>1
<1>28. IsPartOf(part, whole) BY <1>26, <1>27 DEF IsPartOf, BeginningOf
<1> QED BY <1>28 DEF part, whole

(* A whole text is the beginning of itself.                                *)
LEMMA WholeText == \A text \in Seq(STRING) : SubSeq(text, 1, Len(text)) = text
<1> SUFFICES ASSUME NEW text \in Seq(STRING) PROVE SubSeq(text, 1, Len(text)) = text OBVIOUS
<1> DEFINE n == Len(text)
           s == SubSeq(text, 1, n)
<1>1. n \in Nat /\ text \in [1 .. n -> STRING] OBVIOUS
<1>2. \A i \in 1 .. n : text[i] \in STRING OBVIOUS
<1> HIDE DEF n
<1>3. /\ s \in Seq(STRING) /\ Len(s) = IF 1 <= n THEN n - 1 + 1 ELSE 0
      /\ \A i \in 1 .. n - 1 + 1 : s[i] = text[1 + i - 1]
  BY <1>1, <1>2, SubSeqProperties
<1> HIDE DEF s
<1>4. Len(s) = n /\ \A i \in 1 .. n : s[i] = text[i]
  <2>1. Len(s) = n BY <1>1, <1>3
  <2>2. ASSUME NEW i \in 1 .. n PROVE s[i] = text[i]
    <3>1. i \in 1 .. n - 1 + 1 /\ 1 + i - 1 = i BY <1>1
    <3> QED BY <1>3, <3>1
  <2> QED BY <2>1, <2>2
<1>5. s \in [1 .. n -> STRING] BY <1>3, <1>4
<1>6. s = text BY <1>1, <1>4, <1>5
<1> QED BY <1>6 DEF s, n

(* The beginnings of the texts that are checked.                           *)
LEMMA BeginningsAreParts ==
  ASSUME NEW v \in DOMAIN Texts, SaidOnce(Texts[v])
  PROVE  0 .. Len(Texts[v]) \subseteq Parts[v]
<1> DEFINE text == Texts[v]
<1>1. text \in Seq(STRING) BY TextAssumption
<1>2. Len(text) \in 0 .. Len(text) BY <1>1
<1> SUFFICES ASSUME NEW n \in 0 .. Len(text), Parsed[v][n].ret = "NONE", Parsed[v][Len(text)].ret = "NONE"
             PROVE  IsPartOf(Parsed[v][n], Parsed[v][Len(text)])
  BY DEF Parts
<1>3. Parsed[v][n] = ParseLogger(SubSeq(text, 1, n)) BY DEF Parsed
<1>4. Parsed[v][Len(text)] = ParseLogger(text) BY <1>1, <1>2, WholeText DEF Parsed
<1> HIDE DEF text
<1>5. ParseLogger(SubSeq(text, 1, n)).ret = "NONE" /\ ParseLogger(text).ret = "NONE" BY <1>3, <1>4 DEF text
<1>6. SaidOnce(text) BY DEF text
<1>7. IsPartOf(ParseLogger(SubSeq(text, 1, n)), ParseLogger(text)) BY <1>1, <1>5, <1>6, BeginningIsPart
<1> QED BY <1>3, <1>4, <1>7 DEF text

=============================================================================
