-------------------------- MODULE ChannelConfigMC --------------------------
(* ChannelConfig on small instances: three configuration files, two        *)
(* channels, and the sample texts and lines of ConfigParserCheck.          *)
EXTENDS ChannelConfig, TLC

CONSTANTS p1

(* A line "key: value" indented by blanks, or "- key: value".              *)
Entry(blanks, key, val) == [i \in 1 .. blanks |-> "blank"] \o <<key, ":", "blank">> \o val \o <<"eol">>
Item(blanks, key, val) == [i \in 1 .. blanks |-> "blank"] \o <<"-">> \o Entry(0, key, val)

Device(n, type, able, low, count) ==
  Item(1, "device", <<n>>) \o Entry(2, "disable", <<able>>)
    \o (IF type = "none" THEN <<>> ELSE Entry(2, "out_type", <<type>>))
    \o Entry(2, "category", <<low>>) \o Entry(2, "category_extend", <<count>>)

(* The file at the start; the range of channel 0 moved, that of its device *)
(* narrowed and another device without an output added, and channel 1's    *)
(* device disabled; hot updates turned off, a filter, and another out_type *)
(* for channel 0's device.  A file just emptied is refused.                *)
Text1 ==
  Entry(0, "hot_update", <<"true">>)
  \o Item(0, "channel", <<"0">>) \o Entry(1, "category", <<"2">>) \o Entry(1, "category_extend", <<"2">>)
  \o Device("0", "file", "false", "0", "0")
  \o Item(0, "channel", <<"1">>) \o Device("0", "screen", "false", "0", "0")
Text2 ==
  <<"#", "warn", "eol">> \o Entry(0, "hot_update", <<"true">>)
  \o Item(0, "channel", <<"0">>) \o Entry(1, "category", <<"0">>) \o Entry(1, "category_extend", <<"4">>)
  \o Device("0", "file", "false", "0", "2") \o Device("1", "none", "false", "3", "1")
  \o Item(0, "channel", <<"1">>) \o Device("0", "screen", "true", "0", "0")
Text3 ==
  Item(0, "channel", <<"0">>) \o Entry(1, "category_filter", <<"0", ",", "3">>)
  \o Device("0", "virtual", "false", "0", "0")
  \o Item(0, "channel", <<"1">>) \o Entry(1, "priority", <<"error">>) \o Device("0", "screen", "false", "0", "0")
  \o Entry(0, "hot_update", <<"false">>)
MCTexts == <<Text1, Text2, Text3>>

MCDims == <<"CATEGORY">>

(* A save may pause in the second device or before the second channel of   *)
(* the second text, and before any device of the third.                    *)
LineEnd(v, k) ==
  CHOOSE i \in DOMAIN MCTexts[v] :
    MCTexts[v][i] = "eol" /\ Cardinality({j \in 1 .. i : MCTexts[v][j] = "eol"}) = k
MCCuts == <<{}, {LineEnd(2, 12), LineEnd(2, 14)}, {LineEnd(3, 2)}>>

Log(chan, priority, category) == [chan |-> chan, priority |-> priority, CATEGORY |-> category]
MCCategories == {4}
MCLogs == {Log(0, 3, 3), Log(0, 3, 4)}
MCSettings ==
  {[kind |-> "one", chan |-> 0, dev |-> 1, field |-> "ABLE", value |-> 0],
   [kind |-> "one", chan |-> 1, dev |-> 0, field |-> "PRIORITY", value |-> 4],
   [kind |-> "one", chan |-> 0, dev |-> 2, field |-> "ABLE", value |-> 0],
   [kind |-> "channels", chan |-> 0, dev |-> 0, field |-> "CATEGORY", value |-> 3],
   [kind |-> "devices", chan |-> 0, dev |-> 1, out_type |-> "FILE", field |-> "PRIORITY", value |-> 3],
   [kind |-> "devices", chan |-> 0, dev |-> 1, out_type |-> "NULL", field |-> "CATEGORY_EXTEND", value |-> 4]}

Budget(seconds, saves, pauses, settings, calls) ==
  [secs |-> seconds, saves |-> saves, pauses |-> pauses, sets |-> settings, logs |-> calls]
(* Saves that pause and follow each other; a log against an update; a      *)
(* setter against an update; a log against two setters.                    *)
MCBudgets ==
  {Budget(2, 1, 1, 0, 0), Budget(2, 2, 0, 0, 0), Budget(1, 1, 0, 0, 1), Budget(1, 1, 0, 1, 0),
   Budget(0, 0, 0, 2, 1)}

MCSymbols == {"blank", "quote", "#", "-", ":", "category", "1", "other", "warn"}
MCLines ==
  {Lex_Line(Front(text)) : text \in
    {Item(0, "channel", <<"0">>), Item(0, "channel", <<"1">>), Entry(0, "channel", <<"0">>),
     Item(1, "channel", <<"1">>),
     Item(1, "device", <<"0">>), Item(2, "device", <<"0">>), Item(2, "device", <<"1">>),
     Entry(1, "priority", <<"warn">>), Entry(2, "priority", <<"error">>), Entry(3, "priority", <<"fatal">>)}}

=============================================================================
