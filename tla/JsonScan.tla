------------------------------ MODULE JsonScan ------------------------------
(***************************************************************************)
(* The JSON scanner (src/json.h), the text cache_save writes and the two   *)
(* loaders that judge a file with the scanner (src/core/cache.c,           *)
(* src/core/config.c).  A text is a sequence of characters; only those the *)
(* scanner tells apart have names here.  The six keys of a trigger object  *)
(* are one key with one string value, and there is no white space.         *)
(***************************************************************************)
EXTENDS Naturals, Sequences, FiniteSets, SequencesExt

CONSTANTS
  DepthLimit,   \* JSON_DEPTH_LIMIT
  MaxItems      \* MAX_TRIGGERS

\* A list of objects in an object is not too deep.
ASSUME ScanAssumption ==
  /\ DepthLimit \in Nat /\ DepthLimit >= 2
  /\ MaxItems \in Nat \ {0}

LeftBrace == "{"
RightBrace == "}"
Comma == ","
Quote == "quote"
Escape == "esc"
Newline == "newline"   \* any control character that has an escape of its own
Opening == {LeftBrace, "["}
Closing == {RightBrace, "]"}
NotFound == 0

VersionKey == <<"V">>
DateKey == <<"D">>
TriggersKey == <<"T">>
MemberKey == <<"M">>
FormatVersion == <<"2">>

-----------------------------------------------------------------------------
\* One character of a string: after an escape anything goes, a quote ends it.
InString(s, c) ==
  [s EXCEPT !.escaped = ~s.escaped /\ c = Escape,
            !.string = s.escaped \/ c # Quote]

\* Mutant: brackets count inside strings as well.
MatchStepInStrings(open, close, limit, s, c, k) ==
  IF s.end # NotFound \/ s.refused THEN s
  ELSE IF c = open THEN [s EXCEPT !.depth = @ + 1, !.refused = s.depth >= limit]
  ELSE IF c = close THEN [s EXCEPT !.depth = @ - 1,
                                   !.end = IF s.depth = 1 THEN k ELSE NotFound]
  ELSE s

\* Only brackets of the kind that was opened count, and none inside a string.
MatchStep(open, close, limit, s, c, k) ==
  IF s.end # NotFound \/ s.refused THEN s
  ELSE IF s.string THEN InString(s, c)
  ELSE IF c = Quote THEN [s EXCEPT !.string = TRUE]
  ELSE IF c = open THEN [s EXCEPT !.depth = @ + 1, !.refused = s.depth >= limit]
  ELSE IF c = close THEN [s EXCEPT !.depth = @ - 1,
                                   !.end = IF s.depth = 1 THEN k ELSE NotFound]
  ELSE s

\* Where the bracket at k is closed.
FindMatching(text, k, limit) ==
  LET open == text[k]
      close == IF open = LeftBrace THEN RightBrace ELSE "]"
      start == [depth |-> 1, string |-> FALSE, escaped |-> FALSE,
                end |-> NotFound, refused |-> FALSE]
      after[n \in k..Len(text)] ==
        IF n = k THEN start ELSE MatchStep(open, close, limit, after[n - 1], text[n], n)
  IN after[Len(text)].end

-----------------------------------------------------------------------------
\* A string is a key only at depth 1 and in front of a colon.
KeyStep(key, text, s, k) ==
  LET c == text[k] IN
  IF s.at # NotFound \/ s.refused THEN s
  ELSE IF s.string
       THEN LET t == InString(s, c)
                isKey == /\ ~t.string /\ s.depth = 1
                         /\ k < Len(text) /\ text[k + 1] = ":"
                         /\ SubSeq(text, s.start + 1, k - 1) = key
            IN IF isKey THEN [t EXCEPT !.at = k + 2] ELSE t
  ELSE IF c = Quote THEN [s EXCEPT !.string = TRUE, !.start = k]
  ELSE IF c \in Opening THEN [s EXCEPT !.depth = @ + 1, !.refused = s.depth >= DepthLimit]
  ELSE IF c \in Closing THEN [s EXCEPT !.depth = @ - 1]
  ELSE s

FindKey(key, text) ==
  LET start == [depth |-> 0, string |-> FALSE, escaped |-> FALSE, start |-> 0,
                at |-> NotFound, refused |-> FALSE]
      after[n \in 0..Len(text)] ==
        IF n = 0 THEN start ELSE KeyStep(key, text, after[n - 1], n)
  IN after[Len(text)].at

\* The characters of the string that starts at k, up to its closing quote or,
\* where the text is cut off, to its end.
StringEnd(text, k) ==
  LET start == [string |-> TRUE, escaped |-> FALSE]
      after[n \in (k - 1)..Len(text)] ==
        IF n = k - 1 THEN start ELSE InString(after[n - 1], text[n])
      ends == {n \in k..Len(text) : ~after[n].string}
  IN IF ends = {} THEN Len(text) + 1 ELSE Min(ends)

\* The character behind an escape, and back.
Letter(c) == IF c = Newline THEN "n" ELSE c
Lettered(c) == IF c = "n" THEN Newline ELSE c

\* An escape goes, unless what follows it is not one of the escaped characters.
UnescapeStep(s, c) ==
  IF s.escaped
  THEN [text |-> s.text \o (IF c \in {Quote, Escape, "n"} THEN <<Lettered(c)>> ELSE <<Escape, c>>),
        escaped |-> FALSE]
  ELSE IF c = Escape THEN [s EXCEPT !.escaped = TRUE]
  ELSE [s EXCEPT !.text = Append(@, c)]

Unescaped(raw) ==
  LET after[n \in 0..Len(raw)] ==
        IF n = 0 THEN [text |-> <<>>, escaped |-> FALSE]
        ELSE UnescapeStep(after[n - 1], raw[n])
      s == after[Len(raw)]
  IN IF s.escaped THEN Append(s.text, Escape) ELSE s.text

NoValue == [found |-> FALSE, text |-> <<>>]
Found(text) == [found |-> TRUE, text |-> text]

ExtractValue(text, k) ==
  IF k > Len(text) THEN Found(<<>>)
  ELSE IF text[k] = Quote
       THEN Found(Unescaped(SubSeq(text, k + 1, StringEnd(text, k + 1) - 1)))
  ELSE IF text[k] \in Opening
       THEN LET end == FindMatching(text, k, DepthLimit)
            IN IF end = NotFound THEN NoValue ELSE Found(SubSeq(text, k, end))
  ELSE LET ends == {n \in k..Len(text) : text[n] \in Closing \cup {Comma}}
           end == IF ends = {} THEN Len(text) + 1 ELSE Min(ends)
       IN Found(SubSeq(text, k, end - 1))

GetValue(key, text) ==
  LET k == FindKey(key, text) IN IF k = NotFound THEN NoValue ELSE ExtractValue(text, k)

-----------------------------------------------------------------------------
\* Mutant: an escape is written as it is.
EscapedQuoteOnly(c) == IF c \in {Quote, Newline} THEN <<Escape, Letter(c)>> ELSE <<c>>

\* json_write_escaped
EscapedCharacter(c) ==
  IF c \in {Quote, Escape, Newline} THEN <<Escape, Letter(c)>> ELSE <<c>>

Escaped(raw) ==
  LET written[n \in 0..Len(raw)] ==
        IF n = 0 THEN <<Quote>> ELSE written[n - 1] \o EscapedCharacter(raw[n])
  IN Append(written[Len(raw)], Quote)

Pair(key, value) == <<Quote>> \o key \o <<Quote, ":">> \o value

Object(trigger) == <<LeftBrace>> \o Pair(MemberKey, Escaped(trigger)) \o <<RightBrace>>

\* The objects, with a comma before all but the first.
Joined(triggers) ==
  LET written[n \in 0..Len(triggers)] ==
        IF n = 0 THEN <<>>
        ELSE written[n - 1] \o (IF n = 1 THEN <<>> ELSE <<Comma>>) \o Object(triggers[n])
  IN written[Len(triggers)]

\* The text of a list of triggers.
CacheText(cache) ==
  <<LeftBrace>> \o Pair(VersionKey, FormatVersion)
  \o <<Comma>> \o Pair(DateKey, Escaped(cache.date))
  \o <<Comma>> \o Pair(TriggersKey, <<"[">> \o Joined(cache.triggers) \o <<"]">>)
  \o <<RightBrace>>

-----------------------------------------------------------------------------
Refused == [ok |-> FALSE, date |-> <<>>, triggers |-> <<>>]

\* A turn of the loop that reads an array from s.at on: the scan ends at "]" or
\* where no complete object follows; an object without the key, or anything but
\* a comma or "]" behind it, refuses the file.
NextItem(text, s) ==
  LET opens == {m \in s.at..Len(text) : text[m] = LeftBrace}
      open == Min(opens)
      end == FindMatching(text, open, Len(text))
      value == GetValue(MemberKey, SubSeq(text, open, end))
  IN IF s.ended \/ s.at > Len(text) THEN s
     ELSE IF text[s.at] = "]" \/ opens = {} \/ end = NotFound THEN [s EXCEPT !.ended = TRUE]
     ELSE IF ~value.found \/ end = Len(text) THEN [s EXCEPT !.ended = TRUE, !.ok = FALSE]
     ELSE IF text[end + 1] \notin {Comma, "]"} THEN [s EXCEPT !.ended = TRUE, !.ok = FALSE]
     ELSE [s EXCEPT !.at = IF text[end + 1] = Comma THEN end + 2 ELSE end + 1,
                    !.list = Append(@, value.text)]

\* As many objects as there is room for.
Items(text) ==
  LET start == [at |-> 2, list |-> <<>>, ok |-> TRUE, ended |-> FALSE]
      after[n \in 0..MaxItems] == IF n = 0 THEN start ELSE NextItem(text, after[n - 1])
  IN after[MaxItems]

CacheLoad(text) ==
  LET version == GetValue(VersionKey, text)
      date == GetValue(DateKey, text)
      array == GetValue(TriggersKey, text)
      items == Items(array.text)
  IN IF \/ ~version.found \/ version.text # FormatVersion
        \/ ~date.found \/ ~array.found \/ array.text = <<>>
     THEN Refused
     ELSE IF array.text[1] # "[" \/ ~items.ok THEN Refused
     ELSE [ok |-> TRUE, date |-> date.text, triggers |-> items.list]

\* config_load takes a file that is exactly one object.
ConfigAccepts(text) ==
  /\ text # <<>> /\ text[1] = LeftBrace
  /\ FindMatching(text, 1, DepthLimit) = Len(text)
=============================================================================
