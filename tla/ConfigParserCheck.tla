------------------------- MODULE ConfigParserCheck -------------------------
(***************************************************************************)
(* What ConfigParser computes, against definitions written without its     *)
(* automata, for all texts and all sequences of lines up to a bound.       *)
(***************************************************************************)
EXTENDS ConfigParser, FiniteSets, FiniteSetsExt

CONSTANTS
  Symbols, MaxSymbols,   \* bound: texts of at most MaxSymbols of Symbols
  Lines, MaxLines,       \* bound: files of at most MaxLines of Lines
  Texts                  \* whole configuration files

ASSUME TextAssumption == Texts \in Seq(Seq(STRING))
ASSUME SymbolAssumption == MaxSymbols \in Nat /\ Symbols \subseteq STRING \ {"eol"}
ASSUME LineAssumption ==
  MaxLines \in Nat /\ \A line \in Lines : line.blank \in Nat /\ ~IsBlankLine(line)

Space == {"blank", "quote"}

(* The form of a line that configures something: spaces, perhaps a dash,   *)
(* a known key, a colon, a value; nothing strange before the value ends.   *)
IsEntry(t, k, c, v) ==
  /\ k < c /\ c < v
  /\ \A i \in 1 .. k - 1 : t[i] \in Space \cup {"-"}
  /\ Cardinality({i \in 1 .. k - 1 : t[i] = "-"}) <= 1
  /\ ParseReserve(t[k]) # "NULL"
  /\ t[c] = ":"
  /\ \A i \in k + 1 .. c - 1 : t[i] \in Space
  /\ \A i \in c + 1 .. v - 1 : t[i] \in Space
  /\ Class(t[v]) = "word"
  /\ \A i \in v .. Len(t) : t[i] = "other" => \E j \in v .. i : t[j] \in {"quote", "#"}

(* A line with nothing on it, or only a comment.                           *)
IsEmpty(t) ==
  \A i \in DOMAIN t : t[i] \notin Space => \E j \in 1 .. i : t[j] = "#" /\ \A k \in 1 .. j - 1 : t[k] \in Space

(* Two runs of letters do not touch: they would be one.                    *)
IsLetters(ch) == Class(ch) = "word" /\ ch \notin DOMAIN Digit \cup {".", ","}
Proper(t) == \A i \in 2 .. Len(t) : ~(IsLetters(t[i - 1]) /\ IsLetters(t[i]))

LineTexts == {t \in UNION {[1 .. n -> Symbols] : n \in 0 .. MaxSymbols} : Proper(t)}

(* The lines of a text as they are, and each with one symbol typed wrong,  *)
(* too much, or left out.                                                  *)
TextLines(text) ==
  LET ends == {0, Len(text) + 1} \cup {i \in DOMAIN text : text[i] = "eol"}
      From(i) == SubSeq(text, i + 1, Min({j \in ends : j > i}) - 1)
  IN  {From(i) : i \in ends \ {Len(text) + 1}}
Typos(t) ==
  {t} \cup {RemoveAt(t, i) : i \in DOMAIN t}
      \cup {ReplaceAt(t, i, ch) : i \in DOMAIN t, ch \in Symbols}
      \cup {InsertAt(t, i, ch) : i \in 1 .. Len(t) + 1, ch \in Symbols}
Mistyped(text) == {t \in UNION {Typos(l) : l \in TextLines(text)} : Proper(t)}

FoundIn(t) ==
  LET line == Lex_Line(t)
  IN  /\ line.ret = "NONE" <=> IsEmpty(t) \/ \E k, c, v \in DOMAIN t : IsEntry(t, k, c, v)
      /\ \A k, c, v \in DOMAIN t : IsEntry(t, k, c, v) =>
           /\ line.key = ParseReserve(t[k])
           /\ line.array = (\E i \in 1 .. k - 1 : t[i] = "-")
           /\ line.blank = Cardinality({i \in 1 .. k - 1 : \A j \in 1 .. i : t[j] # "-"})
           /\ line.val # <<>> /\ IsPrefix(line.val, SubSeq(t, v, Len(t)))

Misread == {t \in LineTexts : ~FoundIn(t)}
MisreadIn == [v \in DOMAIN Texts |-> {t \in Mistyped(Texts[v]) : ~FoundIn(t)}]

-----------------------------------------------------------------------------
(* Files as sequences of lines.                                            *)
Files == UNION {[1 .. n -> Lines] : n \in 0 .. MaxLines}

Opens(line) == line.key \in {"CHANNEL", "DEVICE"}

(* The line that a line belongs to by its indentation: the last list item  *)
(* that is indented less, with nothing in between that is not indented     *)
(* more than the item; 0 is the logger.                                    *)
ParentOf(lines, i) ==
  Max({0} \cup {j \in 1 .. i - 1 :
                  /\ Opens(lines[j]) /\ lines[j].blank < lines[i].blank
                  /\ \A k \in j + 1 .. i - 1 : lines[k].blank > lines[j].blank})

(* How many lines like line i there are before it under the same parent.   *)
IndexOf(lines, i) ==
  Cardinality({j \in 1 .. i - 1 : Opens(lines[j]) /\ lines[j].key = lines[i].key
                                  /\ ParentOf(lines, j) = ParentOf(lines, i)})

(* The priority of the item opened in line i: that of its last own line    *)
(* that sets one.                                                          *)
PriorityIn(lines, i) ==
  LET own == {j \in i + 1 .. Len(lines) : lines[j].key = "PRIORITY" /\ ParentOf(lines, j) = i}
  IN  IF own = {} THEN 0 ELSE ParsePriority(lines[Max(own)].val)

NestedIn(lines) ==
  LET ls == ParseLines(lines)
      channels == {i \in DOMAIN lines : lines[i].key = "CHANNEL"}
      devices(i) == {j \in DOMAIN lines : lines[j].key = "DEVICE" /\ ParentOf(lines, j) = i}
  IN  ls.ret = "NONE" =>
        /\ Len(ls.channels) = Cardinality(channels) /\ Len(ls.channels) \in 1 .. MAX_CHANNEL_SIZE
        /\ \A i \in channels :
             LET channel == ls.channels[IndexOf(lines, i) + 1]
             IN  /\ ParentOf(lines, i) = 0 /\ channel.channel_id = IndexOf(lines, i)
                 /\ channel.fields["PRIORITY"] = PriorityIn(lines, i)
                 /\ Len(channel.devices) = Cardinality(devices(i))
                 /\ Len(channel.devices) <= MAX_DEVICE_SIZE
                 /\ \A j \in devices(i) :
                      LET device == channel.devices[IndexOf(lines, j) + 1]
                      IN  /\ device.device_id = IndexOf(lines, j)
                          /\ device.fields["PRIORITY"] = PriorityIn(lines, j)

(* The lines of a text as they are, with one left out, or with one         *)
(* indented otherwise.                                                     *)
Reindented(lines) ==
  {lines} \cup {RemoveAt(lines, i) : i \in DOMAIN lines}
          \cup {[lines EXCEPT ![i].blank = n] : i \in DOMAIN lines, n \in 0 .. 3}

(* The lines of a text that are not blank.                                 *)
AddEntry(entries, line) == IF IsBlankLine(line) THEN entries ELSE Append(entries, line)
EntriesOf(text) == FoldLeft(AddEntry, <<>>, LinesOf(text))

Misnested == {lines \in Files : ~NestedIn(lines)}
MisnestedIn == [v \in DOMAIN Texts |-> {lines \in Reindented(EntriesOf(Texts[v])) : ~NestedIn(lines)}]

-----------------------------------------------------------------------------
(* What each beginning of each text is parsed to.                          *)
Parsed == [v \in DOMAIN Texts |-> [n \in 0 .. Len(Texts[v]) |-> ParseLogger(SubSeq(Texts[v], 1, n))]]

(* part may be in use until whole is read.                                 *)
IsPartOf(part, whole) ==
  LET last == Len(part.channels)
  IN  /\ part.hot_update \in {whole.hot_update, FALSE}
      /\ last <= Len(whole.channels)
      /\ \A c \in 1 .. last - 1 : part.channels[c] = whole.channels[c]
      /\ Len(part.channels[last].devices) <= Len(whole.channels[last].devices)
      /\ \A d \in 1 .. Len(part.channels[last].devices) - 1 :
           part.channels[last].devices[d] = whole.channels[last].devices[d]

(* The beginnings of a text that are refused or are part of it.            *)
Parts == [v \in DOMAIN Texts |->
  {n \in 0 .. Len(Texts[v]) :
     LET part == Parsed[v][n]
         whole == Parsed[v][Len(Texts[v])]
     IN  part.ret = "NONE" /\ whole.ret = "NONE" => IsPartOf(part, whole)}]

=============================================================================
