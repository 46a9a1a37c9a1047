---------------------------- MODULE PromptText ----------------------------
(***************************************************************************)
(* What the approval prompt does to a text before it shows it: characters  *)
(* a terminal would act on are escaped, and a field of the card is cut off *)
(* in the summary and broken into lines in the raw view.  A text is a      *)
(* sequence of characters; BS is the backslash, and NL, CR, TAB, ESC, ZWJ  *)
(* are characters a terminal does not show as they are.                    *)
(***************************************************************************)
EXTENDS Integers, SequencesExt

CONSTANTS
    Char,         \* the characters used in this instance
    PrefixWidth,  \* widths of a label with its indentation
    INNER_WIDTH,  \* characters of a line of the card: 76 in the code
    MaxLength     \* bound: characters of the text

PromptAssumption ==
    /\ \A w \in PrefixWidth : w \in 0 .. INNER_WIDTH - 1
    /\ MaxLength \in Nat

VARIABLE value

PREVIEW_SUFFIX == <<".", ".", ".">>
---------------------------------------------------------------------------
(* Escapes.                                                                *)

\* One control character and one format character stand for all of them.
Escape(c) ==
    CASE c = "BS" -> <<"BS", "BS">>
      [] c = "NL" -> <<"BS", "n">>
      [] c = "CR" -> <<"BS", "r">>
      [] c = "TAB" -> <<"BS", "t">>
      [] c = "ESC" -> <<"BS", "u", "{", "1", "b", "}">>
      [] c = "ZWJ" -> <<"BS", "u", "{", "2", "0", "0", "d", "}">>
      [] OTHER -> <<c>>

sanitize_for_tty(input) == FlattenSeq([i \in DOMAIN input |-> Escape(input[i])])
---------------------------------------------------------------------------
(* Lines of the card.                                                      *)

Take(s, n) == SubSeq(s, 1, n)

truncate_chars(input, max_chars) ==
    IF Len(input) <= max_chars THEN input
    ELSE IF max_chars <= Len(PREVIEW_SUFFIX) THEN Take(PREVIEW_SUFFIX, max_chars)
    ELSE Take(input, max_chars - Len(PREVIEW_SUFFIX)) \o PREVIEW_SUFFIX

AtLeastOne(n) == IF n = 0 THEN 1 ELSE n

\* Mutant: a line takes one character more than its limit.
split_by_width_OffByOne(input, first_width, continuation_width) ==
    LET add(lines, c) ==
            LET limit == IF Len(lines) = 1 THEN AtLeastOne(first_width)
                         ELSE AtLeastOne(continuation_width)
            IN  IF Len(Last(lines)) > limit THEN Append(lines, <<c>>)
                ELSE Front(lines) \o <<Append(Last(lines), c)>>
    IN  FoldLeft(add, <<<<>>>>, input)

\* The current line is full when it has as many characters as its limit.
split_by_width(input, first_width, continuation_width) ==
    LET add(lines, c) ==
            LET limit == IF Len(lines) = 1 THEN AtLeastOne(first_width)
                         ELSE AtLeastOne(continuation_width)
            IN  IF Len(Last(lines)) = limit THEN Append(lines, <<c>>)
                ELSE Front(lines) \o <<Append(Last(lines), c)>>
    IN  FoldLeft(add, <<<<>>>>, input)

\* A line that does not fit into the card is cut off here as well.
write_card_text_line(text) == truncate_chars(text, INNER_WIDTH)

\* The lines of a field: in the raw view the label is repeated as blanks.
write_card_field(w, input, full) ==
    LET sanitized == sanitize_for_tty(input)
        prefix == [i \in 1 .. w |-> " "]
        width == INNER_WIDTH - w
        segments == IF full THEN split_by_width(sanitized, width, width)
                    ELSE <<truncate_chars(sanitized, width)>>
    IN  [i \in DOMAIN segments |-> write_card_text_line(prefix \o segments[i])]
---------------------------------------------------------------------------
(* The value of a field grows by one character, until the next one comes.  *)

PromptInit == value = <<>>
PromptNext ==
    \/ Len(value) < MaxLength /\ \E c \in Char : value' = Append(value, c)
    \/ value # <<>> /\ value' = <<>>
PromptSpec == PromptInit /\ [][PromptNext]_value
---------------------------------------------------------------------------
(* Reading the escapes back, without looking at how they were written.     *)

ReadOne(s) ==
    LET starts(text) == IsPrefix(text, s)
    IN  CASE s[1] # "BS" -> [char |-> s[1], used |-> 1]
          [] starts(<<"BS", "BS">>) -> [char |-> "BS", used |-> 2]
          [] starts(<<"BS", "n">>) -> [char |-> "NL", used |-> 2]
          [] starts(<<"BS", "r">>) -> [char |-> "CR", used |-> 2]
          [] starts(<<"BS", "t">>) -> [char |-> "TAB", used |-> 2]
          [] starts(<<"BS", "u", "{", "1", "b", "}">>) -> [char |-> "ESC", used |-> 6]
          [] starts(<<"BS", "u", "{", "2", "0", "0", "d", "}">>) -> [char |-> "ZWJ", used |-> 8]
          [] OTHER -> [char |-> "unreadable", used |-> Len(s)]

RECURSIVE ReadBack(_)
ReadBack(s) ==
    IF s = <<>> THEN <<>>
    ELSE LET first == ReadOne(s)
         IN  <<first.char>> \o ReadBack(SubSeq(s, first.used + 1, Len(s)))

\* What the user sees can be read in one way only: no two values, one of which
\* may spell out the escapes of the other, are shown alike (sanitize_for_tty).
ShownIsUnambiguous == ReadBack(sanitize_for_tty(value)) = value

\* The raw view shows every character of a value: no line of it is too long
\* for the card, which would cut it off, wherever the lines break.
RawViewIsComplete ==
    \A w \in PrefixWidth :
        LET lines == write_card_field(w, value, TRUE)
        IN  /\ \A i \in DOMAIN lines : Len(lines[i]) <= INNER_WIDTH
            /\ FlattenSeq([i \in DOMAIN lines |-> SubSeq(lines[i], w + 1, Len(lines[i]))])
                   = sanitize_for_tty(value)

\* A summary that leaves something out says so: it is the whole value, or it
\* ends in the dots, and it always fits into the card.
SummaryTellsTheCut ==
    \A w \in PrefixWidth :
        LET line == write_card_field(w, value, FALSE)[1]
            shown == SubSeq(line, w + 1, Len(line))
            dots == Take(PREVIEW_SUFFIX, IF INNER_WIDTH - w < 3 THEN INNER_WIDTH - w ELSE 3)
        IN  /\ Len(line) <= INNER_WIDTH
            /\ shown = sanitize_for_tty(value) \/ IsSuffix(dots, shown)
===========================================================================
