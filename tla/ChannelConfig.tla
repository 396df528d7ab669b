--------------------------- MODULE ChannelConfig ---------------------------
(***************************************************************************)
(* The configuration of running asynchronous channels: threads that log    *)
(* read it word by word in BlockInput, each channel's thread reads it in   *)
(* DispatchLog and replaces it word by word in HotUpdateLogger, and the    *)
(* application sets single words.  The words are plain long longs: each is *)
(* read and written whole, and nothing ties two of them together.          *)
(*                                                                         *)
(* The file is saved by an editor that empties it and writes it in pieces, *)
(* with modification times in whole seconds.                               *)
(***************************************************************************)
EXTENDS ConfigParserCheck

CONSTANTS
  Producers,
  Logs,               \* what may be logged: [chan, priority, CATEGORY, IDENTIFY]
  Categories,         \* bound: the categories an application gives to a log on the way
  Cuts,               \* bound: Cuts[v] are the places where a save of Texts[v] may pause
  Settings,           \* bound: the settings an application may make
  HOTUPDATE_INTERVEL, \* seconds between two looks at the file
  Budgets             \* bound: how many seconds, saves, pauses in them, settings and
                      \* calls of BlockInput there are, together: a run takes one budget

(* The application starts from the whole of the first text.                *)
Whole(v) == [ver |-> v, len |-> Len(Texts[v])]
Content(file) == Parsed[file.ver][file.len]

ASSUME ConfigAssumption ==
  /\ Texts # <<>> /\ Content(Whole(1)).ret = "NONE"
  /\ \A v \in DOMAIN Texts : Cuts[v] \subseteq 1 .. Len(Texts[v])
  /\ HOTUPDATE_INTERVEL \in Nat \ {0}
  /\ Budgets \subseteq [secs : Nat, saves : Nat, pauses : Nat, sets : Nat, logs : Nat]

Channels == 0 .. Len(Content(Whole(1)).channels) - 1

(* Logs name a channel there is, and with any of Categories they are logs  *)
(* too; a setting names a field there is, of the channel (device 0) or of  *)
(* a device, and a batch begins with the first.                            *)
SettingsOf(values) ==
  [kind : {"one"}, chan : Nat, dev : {0}, field : Range(ChannelFields), value : values]
  \cup [kind : {"one"}, chan : Nat, dev : Nat \ {0}, field : Range(DeviceFields), value : values]
  \cup [kind : {"channels"}, chan : {0}, dev : {0}, field : Range(ChannelFields), value : values]
  \cup [kind : {"devices"}, chan : {0}, dev : {1}, field : Range(DeviceFields), value : values,
        out_type : Range(OutTypeOf) \cup {"NULL"}]

ASSUME CallerAssumption ==
  /\ \A log \in Logs : log.chan \in Channels
  /\ \A log \in Logs, category \in Categories : [log EXCEPT !.CATEGORY = category] \in Logs
  /\ Settings \subseteq SettingsOf({s.value : s \in Settings})
NoOne == -1

VARIABLES
  file, mtime,   \* the file, which text and how much of it; its modification time
  now,           \* the clock
  hot_update,    \* Logger::hot_update_
  lock,          \* Logger::state_lock
  conf,          \* per channel: fields and devices; device_size_ is Len(devices)
  yaml_mtime, last_hot_check,
  pc, seen, at,  \* a channel's thread: place, st_mtime it saw, next word to copy
  applied,       \* per channel: the content last copied, or being copied
  queue,         \* per channel: logs in the ring, and who let them in (see Return)
  call,          \* per producer: its BlockInput
  setting,       \* the setter that is running
  touched,       \* history: the words set so far
  left           \* what is left of the budget

disk == <<file, mtime>>
threads == <<yaml_mtime, last_hot_check, pc, seen, at, applied>>
app == <<setting, touched>>
vars == <<disk, now, hot_update, lock, conf, threads, queue, call, app, left>>

-----------------------------------------------------------------------------
(* The filters.                                                            *)

(* One dimension: the half-open range, if there is one, and the mask, if   *)
(* there is one.  A value past the mask is taken modulo its width, as the  *)
(* shift of x86 does; C++ leaves it undefined.                             *)
InRange(f, x, dim) ==
  f[Extend[dim]] > 0 => x >= f[dim] /\ x < f[dim] + f[Extend[dim]]
InMask(f, x, dim) ==
  f[Filter[dim]] # {} => (x % MaskBits) \in f[Filter[dim]]

Passes(f, log) ==
  /\ log.priority >= f["PRIORITY"]
  /\ \A i \in DOMAIN Dims :
       InRange(f, log[Dims[i]], Dims[i]) /\ InMask(f, log[Dims[i]], Dims[i])

(* Slip: one of the two copies of the device test takes a closed range.    *)
DeviceTakesClosed(f, log) ==
  /\ f["ABLE"] # 0 /\ log.priority >= f["PRIORITY"]
  /\ \A i \in DOMAIN Dims :
       LET dim == Dims[i] IN
       /\ f[Extend[dim]] > 0 => log[dim] > f[dim] /\ log[dim] < f[dim] + f[Extend[dim]]
       /\ InMask(f, log[dim], dim)

(* DispatchLog's test of a device.                                         *)
DeviceTakes(f, log) == f["ABLE"] # 0 /\ Passes(f, log)

(* BlockInput's test of a device, from the words it has read.              *)
DeviceWants(f, log) ==
  /\ f["ABLE"] # 0 /\ log.priority >= f["PRIORITY"]
  /\ \A i \in DOMAIN Dims :
       LET dim == Dims[i] IN
       /\ f[Extend[dim]] > 0 => log[dim] >= f[dim] /\ log[dim] < f[dim] + f[Extend[dim]]
       /\ InMask(f, log[dim], dim)

(* The devices DispatchLog hands a log to, and those of them that write    *)
(* it: EnterProcDevice does nothing for a virtual device, nor for one      *)
(* without an out_type, to which both filters are blind.                   *)
Takers(c, log) == {d \in DOMAIN conf[c].devices : DeviceTakes(conf[c].devices[d].fields, log)}
Writes(device) == device.out_type \in {"FILE", "SCREEN", "UDP"}
Writers(c, log) == {d \in Takers(c, log) : Writes(conf[c].devices[d])}

(* What the configuration as it stands says about a log.                   *)
Accepts(c, log) == Passes(conf[c].fields, log) /\ Takers(c, log) # {}

-----------------------------------------------------------------------------
(* The words of a configuration, in the order HotUpdateLogger copies them: *)
(* <<0, f>> of the channel, <<d, f>> of device d, <<d, "NEW">> for the     *)
(* device_size_++ that makes room for a further device.                    *)
PerDevice == Len(DeviceFields) + 1
WordAt(i) ==
  LET k == i - Len(ChannelFields) - 1
      d == k \div PerDevice + 1
  IN  IF k < 0 THEN <<0, ChannelFields[i]>>
      ELSE IF k % PerDevice = 0 THEN <<d, "NEW">> ELSE <<d, DeviceFields[k % PerDevice]>>
WordsOf ==
  [n \in 0 .. MAX_DEVICE_SIZE |->
     [i \in 1 .. Len(ChannelFields) + n * PerDevice |-> WordAt(i)]]
Words(source) == WordsOf[Len(source.devices)]

Word(config, w) ==
  IF w[1] = 0 THEN config.fields[w[2]] ELSE config.devices[w[1]].fields[w[2]]

(* The configuration has the word as the source has it.                    *)
Holds(config, source, w) ==
  /\ w[1] <= Len(config.devices)
  /\ w[2] # "NEW" => Word(config, w) = Word(source, w)

With(config, w, value) ==
  IF w[1] = 0 THEN [config EXCEPT !.fields[w[2]] = value]
  ELSE [config EXCEPT !.devices[w[1]].fields[w[2]] = value]

(* Slip: the words of the channel, or of a device, are replaced at once.   *)
CopiedAtOnce(config, source, w) ==
  CASE w[2] = "NEW" -> [config EXCEPT !.devices =
         Append(@, [source.devices[w[1]] EXCEPT !.fields = ZeroFields(DeviceFields)])]
    [] w[2] # "NEW" /\ w[1] = 0 -> [config EXCEPT !.fields = source.fields]
    [] OTHER -> [config EXCEPT !.devices[w[1]].fields = source.devices[w[1]].fields]

(* Slip: the new device keeps the number it was counted with.              *)
CopiedCounted(config, source, w) ==
  IF w[2] = "NEW"
  THEN [config EXCEPT !.devices =
          Append(@, [device_id |-> Len(@) + 1, out_type |-> source.devices[w[1]].out_type,
                     fields |-> ZeroFields(DeviceFields)])]
  ELSE With(config, w, Word(source, w))

(* The new device has its identity, and in its fields the zeros the        *)
(* segment was cleared with: out of use until its words are copied.        *)
Copied(config, source, w) ==
  IF w[2] = "NEW"
  THEN [config EXCEPT !.devices =
          Append(@, [source.devices[w[1]] EXCEPT !.fields = ZeroFields(DeviceFields)])]
  ELSE With(config, w, Word(source, w))

Configured(channel) == [fields |-> channel.fields, devices |-> channel.devices]

NoCall == [pc |-> "idle"]
NoSetting == [kind |-> "none"]

(* InitFromYMALFile: the file was saved in an earlier second, and no look  *)
(* was taken at it yet.                                                    *)
Init ==
  /\ file = Whole(1) /\ mtime = 0 /\ now = 1
  /\ hot_update = Content(file).hot_update
  /\ lock = NoOne
  /\ conf = [c \in Channels |-> Configured(Content(file).channels[c + 1])]
  /\ yaml_mtime = [c \in Channels |-> 0] /\ last_hot_check = [c \in Channels |-> 0]
  /\ pc = [c \in Channels |-> "drain"] /\ seen = [c \in Channels |-> 0]
  /\ at = [c \in Channels |-> 1] /\ applied = [c \in Channels |-> file]
  /\ queue = [c \in Channels |-> <<>>]
  /\ call = [p \in Producers |-> NoCall]
  /\ setting = NoSetting /\ touched = {}
  /\ left \in Budgets

-----------------------------------------------------------------------------
(* External: time, and the editor that saves the file.                     *)
Tick ==
  /\ left.secs > 0 /\ left' = [left EXCEPT !.secs = @ - 1]
  /\ now' = now + 1
  /\ UNCHANGED <<disk, hot_update, lock, conf, threads, queue, call, app>>

(* Bound: the clock goes on long enough after the last write to be seen.   *)
CanWrite == left.secs >= HOTUPDATE_INTERVEL

BeginSave ==
  /\ left.saves > 0 /\ left' = [left EXCEPT !.saves = @ - 1]
  /\ CanWrite /\ file = Whole(file.ver)
  /\ \E v \in DOMAIN Texts \ {file.ver} : file' = [ver |-> v, len |-> 0]   \* bound: another text
  /\ mtime' = now
  /\ UNCHANGED <<now, hot_update, lock, conf, threads, queue, call, app>>

WriteFile ==
  /\ CanWrite
  /\ \/ /\ file.len < Len(Texts[file.ver]) /\ file' = Whole(file.ver)
        /\ UNCHANGED left
     \/ /\ left.pauses > 0 /\ left' = [left EXCEPT !.pauses = @ - 1]
        /\ \E n \in Cuts[file.ver] : n > file.len /\ file' = [file EXCEPT !.len = n]
  /\ mtime' = now
  /\ UNCHANGED <<now, hot_update, lock, conf, threads, queue, call, app>>

-----------------------------------------------------------------------------
(* A thread that logs: BlockInput reads the words of its channel, then of  *)
(* one device after the other, and tests what it read.  "slot" is the log  *)
(* as its slot will have it.  "before" is what the configuration said when *)
(* the call began, "changes" how often it has changed since (2 stands for  *)
(* more), "stale" whether a word of device dev has, since the call began   *)
(* to read that device.                                                    *)
BeginLog(p) ==
  /\ left.logs > 0 /\ left' = [left EXCEPT !.logs = @ - 1]
  /\ call[p].pc = "idle"
  /\ \E log \in Logs :
       call' = [call EXCEPT ![p] = [pc |-> "channel", log |-> log, slot |-> log, dev |-> 0, next |-> 1,
                                    read |-> <<>>, before |-> Accepts(log.chan, log), changes |-> 0,
                                    stale |-> FALSE]]
  /\ UNCHANGED <<disk, now, hot_update, lock, conf, threads, queue, app>>

(* The call after reading f where fields says what is there.               *)
Reading(p, f, fields) ==
  [call[p] EXCEPT !.read = [x \in DOMAIN @ \cup {f} |-> IF x = f THEN fields[f] ELSE @[x]],
                  !.next = @ + 1]

ReadChannel(p) ==
  /\ call[p].pc = "channel"
  /\ LET f == ChannelFields[call[p].next]
          after == Reading(p, f, conf[call[p].log.chan].fields)
      IN  call' = [call EXCEPT ![p] =
            IF after.next <= Len(ChannelFields) THEN after
            ELSE IF Passes(after.read, after.log)
            THEN [after EXCEPT !.pc = "size", !.dev = 1, !.next = 1, !.read = <<>>]
            ELSE [after EXCEPT !.pc = "blocked", !.read = <<>>]]
  /\ UNCHANGED <<disk, now, hot_update, lock, conf, threads, queue, app, left>>

ReadSize(p) ==
  /\ call[p].pc = "size"
  /\ call' = [call EXCEPT
       ![p].pc = IF call[p].dev <= Len(conf[call[p].log.chan].devices) THEN "device" ELSE "blocked",
       ![p].stale = FALSE]
  /\ UNCHANGED <<disk, now, hot_update, lock, conf, threads, queue, app, left>>

ReadDevice(p) ==
  /\ call[p].pc = "device"
  /\ LET f == DeviceFields[call[p].next]
          after == Reading(p, f, conf[call[p].log.chan].devices[call[p].dev].fields)
      IN  call' = [call EXCEPT ![p] =
            IF after.next <= Len(DeviceFields) THEN after
            ELSE IF DeviceWants(after.read, after.log)
            THEN [after EXCEPT !.pc = "passed", !.read = <<>>]
            ELSE [after EXCEPT !.pc = "size", !.dev = @ + 1, !.next = 1, !.read = <<>>]]
  /\ UNCHANGED <<disk, now, hot_update, lock, conf, threads, queue, app, left>>

(* HoldChannel goes on with a log that passed: the ring, see LogQueue.     *)
(* While the slot is the author's, the category in it may be replaced.     *)
SetCategory(p) ==
  /\ call[p].pc = "passed"
  /\ \E category \in Categories : call' = [call EXCEPT ![p].slot.CATEGORY = category]
  /\ UNCHANGED <<disk, now, hot_update, lock, conf, threads, queue, app, left>>

(* A log that was let in is pushed as its slot has it.  "asked" is the log *)
(* as BlockInput tested it, "by" the device that let it in, "writes"       *)
(* whether that device has an output, "stale" as in the call.              *)
Pushed(k) ==
  [log |-> k.slot, asked |-> k.log, by |-> k.dev, stale |-> k.stale,
   writes |-> Writes(conf[k.log.chan].devices[k.dev])]

Return(p) ==
  /\ call[p].pc \in {"passed", "blocked"}
  /\ call' = [call EXCEPT ![p] = NoCall]
  /\ queue' = IF call[p].pc = "blocked" THEN queue
               ELSE [queue EXCEPT ![call[p].log.chan] = Append(@, Pushed(call[p]))]
  /\ UNCHANGED <<disk, now, hot_update, lock, conf, threads, app, left>>

Producer(p) ==
  BeginLog(p) \/ ReadChannel(p) \/ ReadSize(p) \/ ReadDevice(p) \/ SetCategory(p) \/ Return(p)

(* A word of device d differs in config.  That there is no such device is  *)
(* no such change.                                                         *)
DeviceChanged(c, config, d) ==
  /\ d \in DOMAIN conf[c].devices /\ d \in DOMAIN config.devices
  /\ config.devices[d].fields # conf[c].devices[d].fields

(* The configuration of channel c becomes config; who is looking at it or  *)
(* was let in by it is marked.                                             *)
Counted(k, c, config) ==
  [k EXCEPT !.changes = IF config # conf[c] /\ @ < 2 THEN @ + 1 ELSE @,
            !.stale = @ \/ DeviceChanged(c, config, k.dev)]

Marked(c, config) ==
  [i \in DOMAIN queue[c] |->
     [queue[c][i] EXCEPT !.stale = @ \/ DeviceChanged(c, config, queue[c][i].by)]]

Reconfigure(c, config) ==
  /\ conf' = [conf EXCEPT ![c] = config]
  /\ call' = [p \in Producers |->
                IF call[p].pc # "idle" /\ call[p].log.chan = c THEN Counted(call[p], c, config) ELSE call[p]]
  /\ queue' = [queue EXCEPT ![c] = Marked(c, config)]

-----------------------------------------------------------------------------
(* The channel's thread, in EnterProcChannel.                              *)

(* One log is dispatched: the thread that would change the configuration   *)
(* is the one that reads it here.                                          *)
DispatchLog(c) ==
  /\ pc[c] = "drain" /\ queue[c] # <<>>
  /\ queue' = [queue EXCEPT ![c] = Tail(@)]
  /\ UNCHANGED <<disk, now, hot_update, lock, conf, threads, call, app, left>>

(* The ring was found empty.  When no look at the file is due, the thread  *)
(* sleeps and goes round again.                                            *)
Due(c) == hot_update /\ now - last_hot_check[c] >= HOTUPDATE_INTERVEL

Drained(c) ==
  /\ pc[c] = "drain" /\ queue[c] = <<>> /\ Due(c)
  /\ pc' = [pc EXCEPT ![c] = "look"]
  /\ UNCHANGED <<disk, now, hot_update, lock, conf, yaml_mtime, last_hot_check, seen, at, applied,
                 queue, call, app, left>>

Sleep(c) ==
  /\ pc[c] = "drain" /\ queue[c] = <<>> /\ ~Due(c)
  /\ UNCHANGED vars

(* HotUpdateLogger up to the lock: once per HOTUPDATE_INTERVEL the file's  *)
(* modification time is compared with the one recorded.                    *)
LookAtFile(c) ==
  /\ pc[c] = "look"
  /\ LET goes == Due(c) /\ mtime # yaml_mtime[c]
     IN  /\ last_hot_check' = [last_hot_check EXCEPT ![c] = IF Due(c) THEN now ELSE @]
         /\ pc' = [pc EXCEPT ![c] = IF goes THEN "lock" ELSE "drain"]
         /\ seen' = [seen EXCEPT ![c] = IF goes THEN mtime ELSE @]
  /\ UNCHANGED <<disk, now, hot_update, lock, conf, yaml_mtime, at, applied, queue, call, app, left>>

(* Under state_lock: the time is recorded, whatever is in the file is read *)
(* and parsed, and the rest is skipped if that fails, if hot updates are   *)
(* off, or if the file has no such channel.                                *)
Load(c, times, on) ==
  /\ pc[c] = "lock" /\ lock = NoOne
  /\ yaml_mtime' = times
  /\ LET ls == Content(file)
         good == ls.ret = "NONE" /\ on
         goes == good /\ c < Len(ls.channels)
     IN  /\ hot_update' = IF good THEN ls.hot_update ELSE hot_update
         /\ lock' = IF goes THEN c ELSE NoOne
         /\ pc' = [pc EXCEPT ![c] = IF goes THEN "copy" ELSE "drain"]
         /\ applied' = IF goes THEN [applied EXCEPT ![c] = file] ELSE applied
  /\ seen' = [seen EXCEPT ![c] = 0]
  /\ UNCHANGED <<disk, now, conf, last_hot_check, at, queue, call, app, left>>

(* Slip: hot_update_ is not looked at again under the lock.                *)
LoadConfigUnchecked(c) == Load(c, [yaml_mtime EXCEPT ![c] = seen[c]], TRUE)

(* Slip: the time is recorded for all channels, as InitFromYMALFile does.  *)
LoadConfigForAll(c) == Load(c, [d \in Channels |-> seen[c]], hot_update)

(* The time recorded is the one seen before the lock; hot_update_ is       *)
(* looked at again, for another channel may have turned it off.            *)
LoadConfig(c) == Load(c, [yaml_mtime EXCEPT ![c] = seen[c]], hot_update)

Source(c) == Content(applied[c]).channels[c + 1]

(* The next word that differs is copied.  Storing a word that is there     *)
(* already is no step of its own.                                          *)
CopyWord(c) ==
  /\ pc[c] = "copy"
  /\ LET source == Source(c)
         words == Words(source)
     IN  \E k \in at[c] .. Len(words) :
           /\ ~Holds(conf[c], source, words[k])
           /\ \A j \in at[c] .. k - 1 : Holds(conf[c], source, words[j])
           /\ Reconfigure(c, Copied(conf[c], source, words[k]))
           /\ at' = [at EXCEPT ![c] = k + 1]
  /\ UNCHANGED <<disk, now, hot_update, lock, yaml_mtime, last_hot_check, pc, seen, applied, app, left>>

(* Slip: the update is left when the words of the channel are copied.      *)
EndUpdateEarly(c) ==
  /\ pc[c] = "copy"
  /\ \A k \in at[c] .. Len(ChannelFields) : Holds(conf[c], Source(c), Words(Source(c))[k])
  /\ pc' = [pc EXCEPT ![c] = "drain"] /\ at' = [at EXCEPT ![c] = 1] /\ lock' = NoOne
  /\ UNCHANGED <<disk, now, hot_update, conf, yaml_mtime, last_hot_check, seen, applied, queue, call, app, left>>

EndUpdate(c) ==
  /\ pc[c] = "copy"
  /\ \A k \in at[c] .. Len(Words(Source(c))) : Holds(conf[c], Source(c), Words(Source(c))[k])
  /\ pc' = [pc EXCEPT ![c] = "drain"]
  /\ at' = [at EXCEPT ![c] = 1]
  /\ lock' = NoOne
  /\ UNCHANGED <<disk, now, hot_update, conf, yaml_mtime, last_hot_check, seen, applied, queue, call, app, left>>

Thread(c) == DispatchLog(c) \/ Drained(c) \/ LookAtFile(c) \/ LoadConfig(c) \/ CopyWord(c) \/ EndUpdate(c)

-----------------------------------------------------------------------------
(* The setters of fn_core.cpp, without the lock.  A setting says which     *)
(* channel, device (0 for a word of the channel), field and value; a batch *)
(* has an out_type instead of the first two.                               *)
Store(c, w, value) ==
  /\ Reconfigure(c, With(conf[c], w, value))
  /\ touched' = touched \cup {<<c, w>>}

SetConfig ==
  /\ left.sets > 0 /\ left' = [left EXCEPT !.sets = @ - 1] /\ setting = NoSetting
  /\ \E s \in Settings :
       /\ s.kind = "one"
       /\ IF s.chan \in Channels /\ s.dev <= Len(conf[s.chan].devices)
          THEN Store(s.chan, <<s.dev, s.field>>, s.value)
          ELSE UNCHANGED <<conf, call, queue, touched>>
  /\ UNCHANGED <<disk, now, hot_update, lock, threads, setting>>

(* BatchSetChannelConfig and BatchSetDeviceConfig go through channels, and *)
(* devices; they are at channel chan, device dev.                          *)
BeginBatch ==
  /\ left.sets > 0 /\ left' = [left EXCEPT !.sets = @ - 1] /\ setting = NoSetting
  /\ \E s \in Settings : s.kind \in {"channels", "devices"} /\ setting' = s
  /\ UNCHANGED <<disk, now, hot_update, lock, conf, threads, queue, call, touched>>

NextChannel(s) ==
  IF s.chan + 1 \in Channels
  THEN [s EXCEPT !.chan = @ + 1, !.dev = IF s.kind = "devices" THEN 1 ELSE 0] ELSE NoSetting

BatchChannel ==
  /\ setting.kind = "channels"
  /\ Store(setting.chan, <<0, setting.field>>, setting.value)
  /\ setting' = NextChannel(setting)
  /\ UNCHANGED <<disk, now, hot_update, lock, threads, left>>

BatchDevice ==
  /\ setting.kind = "devices"
  /\ LET c == setting.chan
         d == setting.dev
     IN  IF d > Len(conf[c].devices)
         THEN setting' = NextChannel(setting) /\ UNCHANGED <<conf, call, queue, touched>>
         ELSE /\ setting' = [setting EXCEPT !.dev = d + 1]
              /\ IF setting.out_type \in {conf[c].devices[d].out_type, "NULL"}
                 THEN Store(c, <<d, setting.field>>, setting.value)
                 ELSE UNCHANGED <<conf, call, queue, touched>>
  /\ UNCHANGED <<disk, now, hot_update, lock, threads, left>>

Setter == SetConfig \/ BeginBatch \/ BatchChannel \/ BatchDevice

Next ==
  \/ Tick \/ BeginSave \/ WriteFile
  \/ \E p \in Producers : Producer(p)
  \/ \E c \in Channels : Thread(c) \/ Sleep(c)
  \/ Setter

Spec == Init /\ [][Next]_vars

(* Time passes and the channels' threads run; nobody has to save, to log,  *)
(* or to set anything.                                                     *)
FairSpec == Spec /\ WF_vars(Tick) /\ \A c \in Channels : WF_vars(Thread(c))

-----------------------------------------------------------------------------
ConfTypeOK ==
  /\ file.ver \in DOMAIN Texts /\ file.len \in 0 .. Len(Texts[file.ver])
  /\ mtime \in 0 .. now /\ now \in Nat /\ left.secs \in Nat
  /\ hot_update \in BOOLEAN /\ lock \in Channels \cup {NoOne}
  /\ \A c \in Channels :
       /\ DOMAIN conf[c].fields = Range(ChannelFields)
       /\ Len(conf[c].devices) <= MAX_DEVICE_SIZE
       /\ \A d \in DOMAIN conf[c].devices :
            /\ DOMAIN conf[c].devices[d].fields = Range(DeviceFields)
            /\ conf[c].devices[d].device_id = d - 1
            /\ conf[c].devices[d].out_type \in Range(OutTypeOf) \cup {"NULL"}
       /\ pc[c] \in {"drain", "look", "lock", "copy"} /\ (pc[c] = "copy") = (lock = c)
       /\ yaml_mtime[c] <= now /\ last_hot_check[c] <= now /\ seen[c] <= now

(* Lex_Line accepts exactly the empty lines and the entries, and finds     *)
(* their indentation, dash, key and value, wherever spaces, quotes and     *)
(* comments stand, in all short lines and in those of the file with a      *)
(* mistake: the automaton of fn_parse.cpp:285-420 has no path of its own.  *)
LexerFindsEntries == Misread = {} /\ MisreadIn[file.ver] = {}

(* When a file is accepted, its channels and devices are the list items,   *)
(* each channel holds the devices indented under it, numbered without a    *)
(* gap from 0, and a setting belongs to the item it is indented under:     *)
(* the lines that ParseDevice and ParseChannel hand back reach the right   *)
(* caller, in all short files and in the file with a line moved.           *)
NestingFollowsIndent == Misnested = {} /\ MisnestedIn[file.ver] = {}

(* A file that is read while it is being written (fn_load.cpp:259 reads    *)
(* what is there): if the beginning is accepted at all, every channel and  *)
(* every device but the last one read is as the whole file has it, there   *)
(* is none that the whole file has not, and hot_update is at worst off.    *)
HalfWrittenIsPartial == 0 .. Len(Texts[file.ver]) \subseteq Parts[file.ver]

(* An update is applied whole or not at all: when the thread is not        *)
(* copying, the channel and its devices are what one parse of one content  *)
(* of the file says, but for words the application has set and devices     *)
(* which that file no longer has.                                          *)
UpdateIsWhole ==
  \A c \in Channels : pc[c] # "copy" =>
    \A i \in DOMAIN Words(Source(c)) :
      LET w == Words(Source(c))[i]
      IN  <<c, w>> \notin touched => Holds(conf[c], Source(c), w)

(* BlockInput and DispatchLog have a copy each of the tests of a device:   *)
(* the device that let a log in takes it, and writes it if it had an       *)
(* output when the log was pushed, whatever has become meanwhile of the    *)
(* channel's words and the other devices, and whatever devices were added. *)
(* Excepted is a log whose device has a word changed since the call began  *)
(* to read it, or whose category LogStream::set_category replaced: that    *)
(* one was never tested by BlockInput and may be taken by no device.       *)
LetInIsTaken ==
  \A c \in Channels : \A i \in DOMAIN queue[c] :
    LET entry == queue[c][i]
    IN  ~entry.stale /\ entry.log = entry.asked =>
          /\ entry.by \in Takers(c, entry.log)
          /\ entry.by \in Writers(c, entry.log) <=> entry.writes

(* BlockInput reads word by word what others write word by word.  As long  *)
(* as no more than one word changes meanwhile, or a device is added, its   *)
(* answer is that of the configuration before or after the change; with    *)
(* two changed words it need not be.                                       *)
OneChangeIsAtomic ==
  \A p \in Producers :
    call[p].pc \in {"passed", "blocked"} /\ call[p].changes <= 1 =>
      (call[p].pc = "passed") \in {call[p].before, Accepts(call[p].log.chan, call[p].log)}

(* Once hot_update_ is off no update begins, not even by a thread that was *)
(* already waiting for the lock with a changed file.                       *)
OffMeansOff ==
  [][\A c \in Channels : ~hot_update /\ pc[c] # "copy" => pc'[c] # "copy"]_vars

(* The file will not be written again, and is acceptable.                  *)
Saved ==
  /\ left.saves = 0 /\ file = Whole(file.ver)
  /\ Content(file).ret = "NONE"

Carries(c) ==
  /\ c < Len(Content(file).channels)
  /\ LET source == Content(file).channels[c + 1]
     IN  \A i \in DOMAIN Words(source) :
           <<c, Words(source)[i]>> \in touched \/ Holds(conf[c], source, Words(source)[i])

(* A file whose last write was in a later second than a channel's last     *)
(* look, or has another modification time than the one recorded, reaches   *)
(* the channel, unless it, or a file before it, turns hot updates off.     *)
(* What was read half-written is read again.                               *)
Converges ==
  \A c \in Channels :
    (Saved /\ c < Len(Content(file).channels) /\ (mtime > last_hot_check[c] \/ mtime # yaml_mtime[c]))
      ~> (Carries(c) \/ ~hot_update)

=============================================================================
