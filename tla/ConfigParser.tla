--------------------------- MODULE ConfigParser ---------------------------
(***************************************************************************)
(* The parser of the configuration (fn_parse.cpp) as a function from a     *)
(* text to channels, devices and an error code.                            *)
(*                                                                         *)
(* A text is a sequence of symbols: punctuation and digits one by one, a   *)
(* run of letters as one symbol, "eol" for any line end, "other" for a     *)
(* character the lexer does not know.  Lex_Line starts afresh on each      *)
(* line, so the text is first cut into lines; ParseLogger, ParseChannel    *)
(* and ParseDevice, which hand a line back to their caller when it is not  *)
(* indented far enough, are then one automaton over the lines.             *)
(***************************************************************************)
EXTENDS Integers, Sequences, SequencesExt

CONSTANTS
  MAX_CHANNEL_SIZE, MAX_DEVICE_SIZE,
  MaskBits,   \* width of a filter mask: 64 in the code
  Dims        \* what logs are filtered by: <<"CATEGORY", "IDENTIFY">> in the code,
              \* which treats the two alike; an instance may take one of them

ASSUME ParserAssumption ==
  /\ MAX_CHANNEL_SIZE \in Nat \ {0} /\ MAX_DEVICE_SIZE \in Nat \ {0}
  /\ MaskBits \in Nat \ {0}
  /\ Dims \in Seq({"CATEGORY", "IDENTIFY"}) /\ IsInjective(Dims)

-----------------------------------------------------------------------------
(* The lexer.  Class is the kind of a character as Lex_Line tells them     *)
(* apart; Follow[b][k] is the block type after a character of class k in   *)
(* block b, or the error it is.  A key ends at the first character that is *)
(* not a letter, which is then read as in PRE_SEP.                         *)
ClassNoComment(ch) ==   \* slip: a hash is a letter
  CASE ch \in {"blank", "quote", "eol", "other"} -> ch
    [] ch = "-" -> "dash"
    [] ch = ":" -> "colon"
    [] OTHER    -> "word"

Class(ch) ==
  CASE ch \in {"blank", "quote", "eol", "other"} -> ch
    [] ch = "#" -> "hash"
    [] ch = "-" -> "dash"
    [] ch = ":" -> "colon"
    [] OTHER    -> "word"

Illegal == "ILLEGAL_CHARACTER"
Open == "NOT_CLOSURE"

Follow ==
  [NULL    |-> [blank |-> "NULL",    quote |-> "NULL",    eol |-> "CLEAN", hash |-> "CLEAN",
                dash  |-> "PRE_KEY", colon |-> Illegal,   word |-> "KEY",  other |-> Illegal],
   PRE_KEY |-> [blank |-> "PRE_KEY", quote |-> "PRE_KEY", eol |-> Open,    hash |-> Open,
                dash  |-> Illegal,   colon |-> Illegal,   word |-> "KEY",  other |-> Illegal],
   PRE_SEP |-> [blank |-> "PRE_SEP", quote |-> "PRE_SEP", eol |-> Open,    hash |-> Open,
                dash  |-> Illegal,   colon |-> "PRE_VAL", word |-> Illegal, other |-> Illegal],
   PRE_VAL |-> [blank |-> "PRE_VAL", quote |-> "PRE_VAL", eol |-> Open,    hash |-> Open,
                dash  |-> Illegal,   colon |-> Illegal,   word |-> "VAL",  other |-> Illegal],
   VAL     |-> [blank |-> "VAL",     quote |-> "CLEAN",   eol |-> "CLEAN", hash |-> "CLEAN",
                dash  |-> "VAL",     colon |-> "VAL",     word |-> "VAL",  other |-> Illegal]]

Errors == {Illegal, Open, "ILLEGAL_KEY"}

(* ParseReserve looks only at the letters in which the keys differ; the    *)
(* table has the keys and, in its last lines, other words taken for one.   *)
Reserved ==
  [channel |-> "CHANNEL", device |-> "DEVICE", sync |-> "SYNC",
   disable |-> "DISABLE", hot_update |-> "HOT_UPDATE",
   logger_name |-> "LOGGER_NAME", logger_desc |-> "LOGGER_DESC", shm_key |-> "SHM_KEY",
   priority |-> "PRIORITY",
   category |-> "CATEGORY", category_extend |-> "CATEGORY_EXTEND",
   category_filter |-> "CATEGORY_FILTER",
   identify |-> "IDENTIFY", identify_extend |-> "IDENTIFY_EXTEND",
   identify_filter |-> "IDENTIFY_FILTER",
   out_type |-> "OUT_TYPE", file |-> "FILE", path |-> "PATH", limit_size |-> "LIMIT_SIZE",
   rollback |-> "ROLLBACK", stuff_up |-> "FILE_STUFF_UP", udp_addr |-> "UDP_ADDR",
   screen |-> "SHM_KEY", info |-> "IDENTIFY", debug |-> "DEVICE", udp |-> "UDP_ADDR",
   false |-> "FILE", fatal |-> "FILE"]

ParseReserve(word) == IF word \in DOMAIN Reserved THEN Reserved[word] ELSE "NULL"

NewLine ==
  [ret |-> "NONE", block |-> "NULL", blank |-> 0, array |-> FALSE, key |-> "NULL", val |-> <<>>]

IsBlankLine(line) == line.ret = "NONE" /\ line.key = "NULL"

(* One character of Lex_Line's loop.                                       *)
LexChar(line, ch) ==
  LET class == Class(ch)
      next == Follow[IF line.block = "KEY" THEN "PRE_SEP" ELSE line.block][class]
  IN  IF line.ret # "NONE" \/ line.block = "CLEAN" THEN line
      ELSE IF line.block = "KEY" /\ line.key = "NULL" THEN [line EXCEPT !.ret = "ILLEGAL_KEY"]
      ELSE IF next \in Errors THEN [line EXCEPT !.ret = next]
      ELSE [line EXCEPT
              !.block = next,
              !.blank = IF next = "NULL" THEN @ + 1 ELSE @,
              !.array = @ \/ next = "PRE_KEY",
              !.key   = IF next = "KEY" THEN ParseReserve(ch) ELSE @,
              !.val   = IF next = "VAL" THEN Append(@, ch) ELSE @]

Lex_Line(symbols) == FoldLeft(LexChar, NewLine, Append(symbols, "eol"))

(* All lines of a text; the terminating zero ends the last one.            *)
LinesOf(text) ==
  LET Add(ls, ch) == IF ch = "eol" THEN Append(ls, <<>>)
                     ELSE [ls EXCEPT ![Len(ls)] = Append(@, ch)]
      cut == FoldLeft(Add, << <<>> >>, text)
  IN  [i \in DOMAIN cut |-> Lex_Line(cut[i])]

-----------------------------------------------------------------------------
(* Conversions of values.  Priorities, types and booleans go by the first  *)
(* letter, so one word stands for all that begin like it.                  *)
Digit == [d \in {"0", "1", "2", "3", "4", "5", "6", "7", "8", "9"} |->
            CASE d = "0" -> 0 [] d = "1" -> 1 [] d = "2" -> 2 [] d = "3" -> 3 [] d = "4" -> 4
              [] d = "5" -> 5 [] d = "6" -> 6 [] d = "7" -> 7 [] d = "8" -> 8 [] d = "9" -> 9]

PriorityOf == [trace |-> 0, debug |-> 1, info |-> 2, warn |-> 3, error |-> 4, alarm |-> 5, fatal |-> 6]
ParsePriority(val) == IF val[1] \in DOMAIN PriorityOf THEN PriorityOf[val[1]] ELSE 0

OutTypeOf == [file |-> "FILE", screen |-> "SCREEN", udp |-> "UDP", virtual |-> "VIRTUAL"]
ParseOutType(val) == IF val[1] \in DOMAIN OutTypeOf THEN OutTypeOf[val[1]] ELSE "NULL"

ParseBool(val) == val[1] \notin {"0", "false", "fatal", "file"}

ParseChannelType(val) == IF val[1] = "sync" THEN "SYNC" ELSE "ASYNC"

(* atoi: the digits before the first character that is none.               *)
Atoi(val) ==
  LET Take(a, ch) == IF a.end \/ ch \notin DOMAIN Digit THEN [a EXCEPT !.end = TRUE]
                     ELSE [a EXCEPT !.n = 10 * @ + Digit[ch]]
  IN  FoldLeft(Take, [n |-> 0, end |-> FALSE], val).n

(* The set of bits, each run of digits being one.  A run of MaskBits or    *)
(* more shifts past the mask: undefined, and on x86 taken modulo the width.*)
ParseBitArray(val) ==
  LET Close(a) == IF a.run = -1 THEN a.bits ELSE a.bits \cup {a.run % MaskBits}
      Take(a, ch) == IF ch \in DOMAIN Digit
                     THEN [a EXCEPT !.run = Digit[ch] + (IF @ = -1 THEN 0 ELSE 10 * @)]
                     ELSE [bits |-> Close(a), run |-> -1]
  IN  Close(FoldLeft(Take, [bits |-> {}, run |-> -1], val))

(* ParseAddres finds an address and behind it a port; without a port both  *)
(* are zero.                                                               *)
HasAddress(val) ==
  LET Starts(i) == val[i] \in DOMAIN Digit \ {"0"}
      InAddress(i) == val[i] \in DOMAIN Digit \cup {"."}
  IN  \E i, j, k \in DOMAIN val :
        i < j /\ j < k /\ Starts(i) /\ ~InAddress(j) /\ Starts(k)

-----------------------------------------------------------------------------
(* The fields of config_fields_ that the filters read.                     *)
Extend == [CATEGORY |-> "CATEGORY_EXTEND", IDENTIFY |-> "IDENTIFY_EXTEND"]
Filter == [CATEGORY |-> "CATEGORY_FILTER", IDENTIFY |-> "IDENTIFY_FILTER"]

(* In the order of the enumerations ChannelConfigEnum, DeviceConfigEnum.   *)
(* After the priority each dimension has three.                            *)
ChannelFieldAt(i) ==
  LET dim == Dims[(i + 1) \div 3]
  IN  IF i = 1 THEN "PRIORITY" ELSE <<dim, Extend[dim], Filter[dim]>>[((i + 1) % 3) + 1]
ChannelFields == [i \in 1 .. 3 * Len(Dims) + 1 |-> ChannelFieldAt(i)]
DeviceFields == [i \in 1 .. 3 * Len(Dims) + 2 |-> IF i = 1 THEN "ABLE" ELSE ChannelFieldAt(i - 1)]

IsMask(field) == \E i \in DOMAIN Dims : field = Filter[Dims[i]]
ZeroFields(fields) == [f \in Range(fields) |-> IF IsMask(f) THEN {} ELSE 0]

(* What a key stores: the field and its value.                             *)
FieldOf(key) == IF key = "DISABLE" THEN "ABLE" ELSE key
ValueOf(key, val) ==
  CASE key = "PRIORITY" -> ParsePriority(val)
    [] key = "DISABLE" -> IF ParseBool(val) THEN 0 ELSE 1
    [] key \in {"CATEGORY_FILTER", "IDENTIFY_FILTER"} -> ParseBitArray(val)
    [] OTHER -> Atoi(val)
Stored(fields, key, val) ==
  [f \in DOMAIN fields |-> IF f = FieldOf(key) THEN ValueOf(key, val) ELSE fields[f]]

FilterKeys == {"PRIORITY", "CATEGORY", "CATEGORY_EXTEND", "CATEGORY_FILTER",
               "IDENTIFY", "IDENTIFY_EXTEND", "IDENTIFY_FILTER"}
(* Keys of a file device: kept for the device, not read by the filters.    *)
FileKeys == {"LIMIT_SIZE", "ROLLBACK", "FILE_STUFF_UP", "PATH", "FILE"}

NewDevice(id) == [device_id |-> id, out_type |-> "NULL", fields |-> ZeroFields(DeviceFields)]
NewChannel(id) ==
  [channel_id |-> id, channel_type |-> "ASYNC", fields |-> ZeroFields(ChannelFields), devices |-> <<>>]

(* LexState: what was parsed so far, at which level the parser is, and the *)
(* indentation of the open channel and device.                             *)
StartParseOn ==         \* slip: hot updates are on until the file says otherwise
  [ret |-> "NONE", level |-> "logger", channel_indent |-> 0, device_indent |-> 0,
   hot_update |-> TRUE, channels |-> <<>>]

StartParse ==
  [ret |-> "NONE", level |-> "logger", channel_indent |-> 0, device_indent |-> 0,
   hot_update |-> FALSE, channels |-> <<>>]

Fail(ls, code) == [ls EXCEPT !.ret = code]

(* A list item must be next in its list, and the list not be full.         *)
IndexError(line, size, max) ==
  CASE ~line.array -> "NOT_ARRAY"
    [] line.array /\ size >= max -> "INDEX_OUT_MAX"
    [] line.array /\ size < max /\ Atoi(line.val) # size -> "INDEX_NOT_SEQUENCE"
    [] OTHER -> "NONE"

(* The switch of ParseDevice.                                              *)
ParseDevice(ls, line) ==
  LET c == Len(ls.channels)
      d == Len(ls.channels[c].devices)
      type == ParseOutType(line.val)
  IN  CASE line.key = "OUT_TYPE" ->
             IF type = "NULL" THEN Fail(ls, "UNDEFINED_DEVICE_TYPE")
             ELSE [ls EXCEPT !.channels[c].devices[d].out_type = type]
        [] line.key \in FilterKeys \cup {"DISABLE"} ->
             [ls EXCEPT !.channels[c].devices[d].fields = Stored(@, line.key, line.val)]
        [] line.key = "UDP_ADDR" -> IF HasAddress(line.val) THEN ls ELSE Fail(ls, "ILLEGAL_ADDR_IP")
        [] line.key \in FileKeys -> ls
        [] OTHER -> Fail(ls, "UNDEFINED_DEVICE_KEY")

(* The switch of ParseChannel.                                             *)
ParseChannel(ls, line) ==
  LET c == Len(ls.channels)
      size == Len(ls.channels[c].devices)
      error == IndexError(line, size, MAX_DEVICE_SIZE)
  IN  CASE line.key = "SYNC" -> [ls EXCEPT !.channels[c].channel_type = ParseChannelType(line.val)]
        [] line.key \in FilterKeys ->
             [ls EXCEPT !.channels[c].fields = Stored(@, line.key, line.val)]
        [] line.key = "DEVICE" ->
             IF error # "NONE" THEN Fail(ls, error)
             ELSE [ls EXCEPT !.channels[c].devices = Append(@, NewDevice(size)),
                             !.level = "device", !.device_indent = line.blank]
        [] OTHER -> Fail(ls, "UNDEFINED_CHANNEL_KEY")

(* The switch of ParseLogger's loop.                                       *)
ParseGlobal(ls, line) ==
  LET size == Len(ls.channels)
      error == IndexError(line, size, MAX_CHANNEL_SIZE)
  IN  CASE line.key = "HOT_UPDATE" -> [ls EXCEPT !.hot_update = ParseBool(line.val)]
        [] line.key \in {"LOGGER_NAME", "LOGGER_DESC", "SHM_KEY"} -> ls
        [] line.key = "CHANNEL" ->
             IF error # "NONE" THEN Fail(ls, error)
             ELSE [ls EXCEPT !.channels = Append(@, NewChannel(size)),
                             !.level = "channel", !.channel_indent = line.blank]
        [] OTHER -> Fail(ls, "UNDEFINED_GLOBAL_KEY")

(* Slip: a device is left only at the indentation of its channel.          *)
LevelOfLate(ls, line) ==
  CASE ls.level = "device" /\ line.blank > ls.channel_indent -> "device"
    [] ls.level = "channel" /\ line.blank > ls.channel_indent -> "channel"
    [] OTHER -> "logger"

(* Who gets the line: ParseDevice and ParseChannel hand it back when it is *)
(* not indented deeper than the line that opened them.                     *)
LevelOf(ls, line) ==
  CASE ls.level = "device" /\ line.blank > ls.device_indent -> "device"
    [] ls.level = "device" /\ line.blank <= ls.device_indent /\ line.blank > ls.channel_indent -> "channel"
    [] ls.level = "channel" /\ line.blank > ls.channel_indent -> "channel"
    [] OTHER -> "logger"

ParseLine(ls, line) ==
  LET level == LevelOf(ls, line)
      open == [ls EXCEPT !.level = level]
  IN  CASE ls.ret # "NONE" \/ IsBlankLine(line) -> ls
        [] ls.ret = "NONE" /\ line.ret # "NONE" -> Fail(ls, line.ret)
        [] OTHER -> CASE level = "device"  -> ParseDevice(open, line)
                      [] level = "channel" -> ParseChannel(open, line)
                      [] level = "logger"  -> ParseGlobal(open, line)

ParseLines(lines) ==
  LET ls == FoldLeft(ParseLine, StartParse, lines)
  IN  IF ls.ret = "NONE" /\ ls.channels = <<>> THEN Fail(ls, "NO_ANY_CHANNEL") ELSE ls

ParseLogger(text) == ParseLines(LinesOf(text))

=============================================================================
