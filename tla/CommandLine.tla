---------------------------- MODULE CommandLine ----------------------------
(***************************************************************************)
(* What the words of a command line mean: the options that a program       *)
(* describes to cxxopts, the values that cxxopts reads from a text, and    *)
(* the two programs that walk over argv themselves.  A text is a sequence  *)
(* of characters.  A result is <<>> for an exception,   *)
(* or <<value>>.                                                           *)
(***************************************************************************)
EXTENDS Integers, Sequences, SequencesExt

Dash == "-"

\* [[:alnum:]], of the characters that occur here.
Alnum(ch) == ch \notin {Dash, "_", "=", ",", " "}

-----------------------------------------------------------------------------
(* cxxopts: an option as a program writes it, a specifier such as          *)
(* "g,gpu" and a value that knows its type, its default and the text that  *)
(* stands for it where none is given.  Of both texts there is one or none. *)

\* value<T>(): only a bool comes with the two texts.
standard_value(type) ==
  [type     |-> type,
   default  |-> IF type = "flag" THEN <<<<"f", "a", "l", "s", "e">>>> ELSE <<>>,
   implicit |-> IF type = "flag" THEN <<<<"t", "r", "u", "e">>>> ELSE <<>>]

default_value(v, given)  == [v EXCEPT !.default = <<given>>]
implicit_value(v, given) == [v EXCEPT !.implicit = <<given>>]
no_implicit_value(v)    == [v EXCEPT !.implicit = <<>>]

\* SplitSwitchDef: a letter and a comma, spaces, a name; each may be missing.
ShortSwitch(text) == IF Len(text) > 1 /\ Alnum(text[1]) /\ text[2] = "," THEN <<text[1]>> ELSE <<>>
LongStart(text) ==
  CHOOSE k \in 2 * Len(ShortSwitch(text)) + 1 .. Len(text) + 1 :
    /\ k <= Len(text) => text[k] # " "
    /\ \A j \in 2 * Len(ShortSwitch(text)) + 1 .. k - 1 : text[j] = " "
LongSwitch(text) == SubSeq(text, LongStart(text), Len(text))

IsSpecifier(text) ==
  LET long == LongSwitch(text)
  IN  \A k \in DOMAIN long : Alnum(long[k]) \/ (k > 1 /\ long[k] \in {Dash, "_"})

\* ParseArgument: --name, --name=value, or -letters.
NameEnd(w)  == CHOOSE k \in 1 .. Len(w) + 1 : /\ k <= Len(w) => w[k] = "="
                                              /\ \A j \in 1 .. k - 1 : w[j] # "="
LongWord(w) == /\ NameEnd(w) > 4 /\ w[1] = Dash /\ w[2] = Dash /\ Alnum(w[3])
               /\ \A k \in 4 .. NameEnd(w) - 1 : Alnum(w[k]) \/ w[k] \in {Dash, "_"}
ShortWord(w) == Len(w) > 1 /\ w[1] = Dash /\ \A k \in 2 .. Len(w) : Alnum(w[k])

-----------------------------------------------------------------------------
(* The values that cxxopts reads from a text.                              *)

Digits == <<"0", "1", "2", "3", "4", "5", "6", "7", "8", "9", "a", "b", "c", "d", "e", "f">>

DigitOf(base, ch) == {d \in 0 .. base - 1 : Digits[d + 1] = ch}

\* SplitInteger: an optional sign, an optional 0x, letters and digits.
Negative(text) == text # <<>> /\ text[1] = Dash
Unsigned(text) == IF Negative(text) THEN Tail(text) ELSE text
Base(text)     == LET u == Unsigned(text) IN IF Len(u) > 2 /\ u[1] = "0" /\ u[2] = "x" THEN 16 ELSE 10
Numerals(text) == IF Base(text) = 16 THEN SubSeq(Unsigned(text), 3, Len(Unsigned(text))) ELSE Unsigned(text)

\* How many values an integer of that many bits has.
Span(bits) ==
  LET power[k \in 0 .. bits] == IF k = 0 THEN 1 ELSE 2 * power[k - 1] IN power[bits]

\* Mutation of Push: a leading 0 is taken for an overflow.
PushStrict(base, bits, result, ch) ==
  {next \in {(r * base + d) % Span(bits) : r \in result, d \in DigitOf(base, ch)} :
     \A r \in result : r < next}

\* One character: the set of the new result, empty for what is no digit and
\* for an overflow, which the code takes to have happened if the result is
\* smaller than before.
Push(base, bits, result, ch) ==
  {next \in {(r * base + d) % Span(bits) : r \in result, d \in DigitOf(base, ch)} :
     \A r \in result : r <= next}

\* check_signed_range and checked_negate.
InRange(bits, signed, negative, u) ==
  IF signed THEN u <= IF negative THEN Span(bits - 1) ELSE Span(bits - 1) - 1 ELSE ~negative

\* A number without a digit is refused.
ReadDigits(base, bits, numerals) ==
  LET read[k \in 0 .. Len(numerals)] ==
        IF k = 0 THEN {0} ELSE Push(base, bits, read[k - 1], numerals[k])
  IN  IF numerals = <<>> THEN {} ELSE read[Len(numerals)]

Signed(bits, signed, negative, u) ==
  IF \E n \in u : InRange(bits, signed, negative, n)
  THEN LET n == CHOOSE n \in u : TRUE IN <<IF negative THEN -n ELSE n>>
  ELSE <<>>

integer_parser(bits, signed, text) ==
  Signed(bits, signed, Negative(text), ReadDigits(Base(text), bits, Numerals(text)))

\* The first letter may also be a capital one, which is left out.
boolean_parser(text) == CASE text \in {<<"t">>, <<"t", "r", "u", "e">>, <<"1">>} -> <<TRUE>>
                          [] text \in {<<"f">>, <<"f", "a", "l", "s", "e">>, <<"0">>} -> <<FALSE>>
                          [] OTHER -> <<>>

\* std::getline up to each comma: a last empty token is none.
Tokens(text) ==
  LET cuts == {i \in DOMAIN text : text[i] = ","}
      ends == IF text = <<>> \/ Len(text) \in cuts THEN cuts ELSE cuts \cup {Len(text) + 1}
      From(e) == IF \E c \in cuts : c < e THEN 1 + CHOOSE c \in cuts : c < e /\ \A d \in cuts : d < e => d <= c
                 ELSE 1
  IN  [k \in 1 .. Cardinality(ends) |->
         LET e == SetToSortSeq(ends, <)[k] IN SubSeq(text, From(e), e - 1)]

\* parse_value for a vector: every token has to be accepted.
AllRead(values) == IF \E k \in DOMAIN values : values[k] = <<>> THEN <<>> ELSE <<FlattenSeq(values)>>
ReadTokens(bits, tokens) == AllRead([k \in DOMAIN tokens |-> integer_parser(bits, FALSE, tokens[k])])

vector_parser(bits, text) == ReadTokens(bits, Tokens(text))

-----------------------------------------------------------------------------
(* cxxopts without regular expressions: each text is walked by hand.       *)

IntegerByHand(bits, signed, text) ==
  LET unsigned == IF Negative(text) THEN Tail(text) ELSE text
      hex      == Len(unsigned) > 1 /\ unsigned[1] = "0" /\ unsigned[2] = "x"
  IN  Signed(bits, signed, Negative(text),
             ReadDigits(IF hex THEN 16 ELSE 10, bits, IF hex THEN SubSeq(unsigned, 3, Len(unsigned)) ELSE unsigned))

\* The end of the name that starts at i: the first place that goes on with
\* none of its characters.
NameStop(text, i) == CHOOSE k \in i .. Len(text) + 1 :
  /\ k <= Len(text) => ~Alnum(text[k]) /\ (k > i => text[k] \notin {Dash, "_"})
  /\ \A j \in i .. k - 1 : Alnum(text[j]) \/ (j > i /\ text[j] \in {Dash, "_"})

\* <<the letter and the name>>; what is no name at all is not refused.
SwitchByHand(text) ==
  LET from == LongStart(text)
      to   == NameStop(text, from)
  IN  IF to > from /\ to <= Len(text) THEN <<>>
      ELSE <<<<ShortSwitch(text), SubSeq(text, from, to - 1)>>>>

\* <<name, value>> of a word that matches; a group has no value, <<>>.
LongByHand(w) ==
  LET to == NameStop(w, 3)
  IN  CASE to - 3 > 1 /\ to > Len(w) -> <<<<SubSeq(w, 3, to - 1), <<>>>>>>
        [] to - 3 > 1 /\ to <= Len(w) -> IF w[to] = "=" THEN <<<<SubSeq(w, 3, to - 1), <<SubSeq(w, to + 1, Len(w))>>>>>> ELSE <<>>
        [] OTHER -> <<>>
GroupByHand(w) == IF Len(w) > 1 /\ \A k \in 2 .. Len(w) : Alnum(w[k]) THEN <<<<Tail(w), <<>>>>>> ELSE <<>>
ArgumentByHand(w) == CASE Len(w) > 1 /\ w[1] = Dash /\ w[2] = Dash -> LongByHand(w)
                       [] w # <<>> /\ w[1] = Dash /\ (Len(w) = 1 \/ w[2] # Dash) -> GroupByHand(w)
                       [] OTHER -> <<>>

TrueByHand  == {<<"t", "r", "u", "e">>, <<"1">>}
FalseByHand == {<<"f", "a", "l", "s", "e">>, <<"0">>}
BooleanByHand(text) == CASE text \in TrueByHand  -> <<TRUE>>
                         [] text \in FalseByHand -> <<FALSE>>
                         [] OTHER -> <<>>

\* With them: what the expressions match.
MatchedSwitch(text) == IF IsSpecifier(text) THEN <<<<ShortSwitch(text), LongSwitch(text)>>>> ELSE <<>>
MatchedArgument(w)  == CASE LongWord(w) -> <<<<SubSeq(w, 3, NameEnd(w) - 1),
                                          IF NameEnd(w) > Len(w) THEN <<>> ELSE <<SubSeq(w, NameEnd(w) + 1, Len(w))>>>>>>
                    [] ShortWord(w) -> <<<<Tail(w), <<>>>>>>
                    [] OTHER -> <<>>

-----------------------------------------------------------------------------
(* The help text: a line per option, its names in one column and its       *)
(* description, broken into lines, in another.  An option has the fields   *)
(* of its value, short, long, arg_help and desc.                           *)

Blanks(n) == [i \in 1 .. n |-> " "]
IsBlank(ch) == ch \in {" ", "\t"}

format_option(o) ==
  LET arg == IF o.arg_help = <<>> THEN <<"a", "r", "g">> ELSE o.arg_help
  IN  Blanks(2)
        \o (IF o.short = <<>> THEN Blanks(3) ELSE <<Dash>> \o o.short \o IF o.long = <<>> THEN <<>> ELSE <<",">>)
        \o (IF o.long = <<>> THEN <<>> ELSE <<" ", Dash, Dash>> \o o.long)
        \o CASE o.type = "flag" -> <<>>
             [] o.type # "flag" /\ o.implicit # <<>> ->
                  <<" ", "[", "=">> \o arg \o <<"(", "=">> \o o.implicit[1] \o <<")", "]">>
             [] OTHER -> <<" ">> \o arg

\* The default is told, unless it is the false of a flag; `:' stands for the
\* wording and `q' for the quotes around an empty text.
Described(o) ==
  IF o.default = <<>> \/ (o.type = "flag" /\ o.default[1] = <<"f", "a", "l", "s", "e">>) THEN o.desc
  ELSE o.desc \o <<" ", "(", ":", " ">> \o (IF o.default[1] = <<>> THEN <<"q">> ELSE o.default[1]) \o <<")">>

\* Tabulators go to the next multiple of eight, counted from the line's start.
Expanded(text) ==
  FoldLeft(LAMBDA t, ch : CASE ch = "\n" -> [out |-> Append(t.out, ch), size |-> 0]
                            [] ch = "\t" -> [out |-> t.out \o Blanks(8 - (t.size % 8)), size |-> 8 * (t.size \div 8 + 1)]
                            [] OTHER     -> [out |-> Append(t.out, ch), size |-> t.size + 1],
           [out |-> <<>>, size |-> 0], text).out

\* One round of the loop that breaks the text into lines of at most `allowed'
\* characters: at newlines, and before the last word, if it did not start
\* the line; further lines are indented by `start'.
Round(text, start, allowed, s) ==
  LET space    == IF IsBlank(text[s.previous]) THEN s.current ELSE s.lastSpace
      stop     == CHOOSE k \in s.current .. Len(text) : text[k] # "\n" /\ \A j \in s.current .. k - 1 : text[j] = "\n"
      newline  == stop > s.current
      breaks   == newline \/ s.size >= allowed
      back     == ~newline /\ breaks /\ space # s.startLine
      current  == IF back THEN space ELSE stop
      previous == CASE newline -> stop - 1 [] back -> space [] OTHER -> s.previous
      ended    == SubSeq(text, s.startLine, current - 1) \o
                    (IF text[previous] = "\n" THEN <<>> ELSE <<"\n">>) \o Blanks(start)
  IN  [current        |-> current + 1,
       previous       |-> current,
       startLine      |-> IF breaks THEN current ELSE s.startLine,
       lastSpace      |-> IF breaks THEN current ELSE space,
       size           |-> IF breaks THEN 1 ELSE s.size + 1,
       onlyWhiteSpace |-> breaks \/ (s.onlyWhiteSpace /\ IsBlank(text[s.current])),
       result         |-> IF breaks THEN s.result \o ended ELSE s.result]

\* No character is gone back over twice.
Rounds(text, start, allowed, first) ==
  FoldLeft(LAMBDA s, k : IF s.current > Len(text) THEN s ELSE Round(text, start, allowed, s),
           first, [k \in 1 .. 2 * Len(text) |-> k])

\* What is left is ignored if only white space was seen since the last break.
Broken(text, start, allowed) ==
  LET s == Rounds(text, start, allowed,
                  [current |-> 1, previous |-> 1, startLine |-> 1, lastSpace |-> 1, size |-> 0,
                   onlyWhiteSpace |-> TRUE, result |-> <<>>])
  IN  IF s.onlyWhiteSpace THEN s.result ELSE s.result \o SubSeq(text, s.startLine, s.previous - 1)

format_description(o, start, allowed, tab_expansion) ==
  Broken(Append(IF tab_expansion THEN Expanded(Described(o)) ELSE Described(o), " "), start, allowed)

OPTION_LONGEST  == 30
OPTION_DESC_GAP == 2

\* One group: [name, options]; positional options are not shown unless told.
Shown(group, hidden) == SelectSeq(group.options, LAMBDA o : o.long \notin hidden)
Longest(options) ==
  FoldLeft(LAMBDA n, o : IF Len(format_option(o)) > n THEN Len(format_option(o)) ELSE n, 0, options)
Column(options) == OPTION_DESC_GAP + IF Longest(options) < OPTION_LONGEST THEN Longest(options) ELSE OPTION_LONGEST
Allowed(width, column) == IF width > 10 + column THEN width - column ELSE 10

\* A long option is followed by a line of its own.
OptionLine(o, column, width, tab_expansion) ==
  LET names == format_option(o)
  IN  names \o (IF Len(names) > column - OPTION_DESC_GAP THEN <<"\n">> \o Blanks(column) ELSE Blanks(column - Len(names)))
            \o format_description(o, column, Allowed(width, column), tab_expansion) \o <<"\n">>

help_one_group(group, hidden, width, tab_expansion) ==
  LET options == Shown(group, hidden)
  IN  (IF group.name = <<>> THEN <<>> ELSE <<" ">> \o group.name \o <<":", "\n">>)
        \o FlattenSeq([k \in DOMAIN options |-> OptionLine(options[k], Column(options), width, tab_expansion)])

\* The groups asked for; an empty line follows each but the last asked for.
generate_group_help(help, names, hidden, width, tab_expansion) ==
  FlattenSeq([k \in DOMAIN names |->
    LET text == IF names[k] \in DOMAIN help
                THEN help_one_group([name |-> names[k], options |-> help[names[k]]], hidden, width, tab_expansion)
                ELSE <<>>
    IN  IF text = <<>> \/ k = Len(names) THEN text ELSE Append(text, "\n")])

-----------------------------------------------------------------------------
(* Walking over argv: options come first, each a dash and a letter; those  *)
(* in `valued' take the rest of their word, if `joins', or else the next.  *)

Needs(word, valued) == Len(word) > 1 /\ word[2] \in valued
Letter(word) == IF Len(word) > 1 THEN word[2] ELSE "none"

\* Mutation of Apart: an option takes the next word even if its value is joined.
ApartAlways(word, valued, joins) == Needs(word, valued)

Apart(word, valued, joins) == Needs(word, valued) /\ ~(joins /\ Len(word) > 2)

\* parse_cmdline from word i on: the settings <<letter, value>> in order,
\* and the word that ends them.  A missing value advances past the end of
\* argv: the loop goes on behind it, `next' is n + 2 and nothing is known.
Walk(words, valued, joins) ==
  LET n == Len(words)
      from[i \in 1 .. n + 2] ==
        IF i > n \/ words[i][1] # Dash THEN [settings |-> <<>>, next |-> i]
        ELSE LET apart == Apart(words[i], valued, joins)
                 value == CASE apart /\ i < n -> words[i + 1]
                            [] Needs(words[i], valued) /\ ~apart -> SubSeq(words[i], 3, Len(words[i]))
                            [] OTHER -> <<>>
                 rest  == from[IF apart THEN i + 2 ELSE i + 1]
             IN  [settings |-> <<<<Letter(words[i]), value>>>> \o rest.settings, next |-> rest.next]
  IN  from[1]

VmValued    == {"l", "o"}
CacheValued == {"l", "s", "i", "c", "a", "w", "d", "k", "p", "x", "y"}

\* simple-vm exits without an argument, and takes the word that ends the
\* options for its image even if there is none.
get_opt(words) ==
  LET w == Walk(words, VmValued, FALSE)
  IN  CASE words = <<>>             -> <<"exit">>
        [] w.next > Len(words) + 1  -> <<"astray">>
        [] w.next = Len(words) + 1 /\ words # <<>> -> <<"crash">>
        [] OTHER                    -> <<w.settings, words[w.next]>>

\* The cache simulator: a file name may also be an option's value.
opts(words) ==
  LET w == Walk(words, CacheValued, TRUE)
  IN  CASE w.next > Len(words) + 1 -> <<"astray">>
        [] w.next = Len(words) + 1 -> <<w.settings, <<>>>>
        [] OTHER                   -> <<w.settings, words[w.next]>>

-----------------------------------------------------------------------------
(* What a parser promises.                                                 *)

\* The number that a text of digits denotes.
Denoted(text) ==
  LET ds == Numerals(text)
      number[k \in 0 .. Len(ds)] ==
        IF k = 0 THEN 0
        ELSE number[k - 1] * Base(text) + CHOOSE d \in DigitOf(Base(text), ds[k]) : TRUE
  IN  IF Negative(text) THEN -number[Len(ds)] ELSE number[Len(ds)]

IsNumeral(text) == /\ Numerals(text) # <<>>
                   /\ \A k \in DOMAIN Numerals(text) : DigitOf(Base(text), Numerals(text)[k]) # {}

Fits(bits, signed, n) ==
  IF signed THEN n \in -Span(bits - 1) .. Span(bits - 1) - 1 ELSE n \in 0 .. Span(bits) - 1

\* A number that fits is read as what it denotes.  One that does not is
\* refused, or else congruent: the test for overflow does not find them all.
IntegerRead(bits, signed, text, r) ==
  /\ r # <<>> => /\ IsNumeral(text) /\ Fits(bits, signed, r[1])
                 /\ (r[1] - Denoted(text)) % Span(bits) = 0
  /\ IsNumeral(text) /\ Fits(bits, signed, Denoted(text)) /\ (Negative(text) => signed) =>
       r = <<Denoted(text)>>

\* The value is the next word: the option has one, and it is not joined.
Wants(word, valued, joins) ==
  \E l \in valued : word = <<Dash, l>> \/ (~joins /\ Len(word) > 2 /\ word[2] = l)

\* The roles of the words: options, their values, and the rest.
Roles(words, valued, joins) ==
  CHOOSE role \in [DOMAIN words -> {"option", "value", "rest"}] :
    \A i \in DOMAIN words :
      /\ role[i] = "value"  <=> i > 1 /\ role[i - 1] = "option" /\ Wants(words[i - 1], valued, joins)
      /\ role[i] = "option" <=> /\ role[i] # "value" /\ words[i][1] = Dash
                                /\ \A j \in 1 .. i - 1 : role[j] # "rest"

\* Every option is set once, in order and with its own value, and the walk
\* ends at the first word of the rest; or a value is missing.
Walked(words, valued, joins, r) ==
  LET role    == Roles(words, valued, joins)
      Are(x)  == SelectSeq([i \in DOMAIN words |-> i], LAMBDA i : role[i] = x)
      options == Are("option")
      rest    == Are("rest")
      missing == words # <<>> /\ role[Len(words)] = "option" /\ Wants(words[Len(words)], valued, joins)
  IN  /\ r = <<"astray">> <=> missing
      /\ r = <<"crash">> => rest = <<>>
      /\ Len(r) = 2 =>
           /\ r[2] = IF rest = <<>> THEN <<>> ELSE words[rest[1]]
           /\ Len(r[1]) = Len(options)
           /\ \A k \in DOMAIN options :
                /\ r[1][k][1] = Letter(words[options[k]])
                /\ Wants(words[options[k]], valued, joins) => r[1][k][2] = words[options[k] + 1]

\* A text that one build accepts the other reads in the same way, but for a
\* bare t or f, and for specifiers with something that is no name.
SwitchesAgree(r) == r.matched # <<>> => r.walked = r.matched
BooleansAgree(text, r) == r.matched = r.walked \/ text \in {<<"t">>, <<"f">>}

Lines(text) == {SubSeq(text, l[1], l[2]) : l \in {ab \in (DOMAIN text) \X (DOMAIN text) :
  /\ ab[1] = 1 \/ text[ab[1] - 1] = "\n"
  /\ ab[2] = Len(text) \/ text[ab[2] + 1] = "\n"
  /\ \A k \in ab[1] .. ab[2] : text[k] # "\n"}}

\* The last character of the text, alone behind a blank, a newline, or a word
\* that fills a line.
IsSolid(ch) == ~IsBlank(ch) /\ ch # "\n"
LoneEnd(text, allowed) ==
  \E n \in DOMAIN text : /\ IsSolid(text[n]) /\ \A k \in n + 1 .. Len(text) : ~IsSolid(text[k])
                         /\ \/ n > 1 /\ ~IsSolid(text[n - 1])
                            \/ n > allowed /\ \A k \in n - allowed .. n : IsSolid(text[k])

\* The description of an option goes through the breaking into lines
\* unchanged, and no line is longer than allowed.  Only a last character that
\* stands alone behind a break may be lost.
Laid(o, start, allowed, r) ==
  LET all == SelectSeq(Described(o), IsSolid)
  IN  /\ \/ SelectSeq(r, IsSolid) = all
         \/ LoneEnd(Described(o), allowed) /\ SelectSeq(r, IsSolid) = Front(all)
      /\ \A line \in Lines(r) : Len(line) <= start + allowed

\* The help of several groups: each option that is shown begins one line, the
\* options of a group stand in their order, and the groups in theirs.
Helped(help, names, hidden, r) ==
  LET known   == SelectSeq(names, LAMBDA n : n \in DOMAIN help)
      expects == FlattenSeq([k \in DOMAIN known |->
                   [j \in DOMAIN Shown([options |-> help[known[k]]], hidden) |->
                      format_option(Shown([options |-> help[known[k]]], hidden)[j])]])
      begins  == {i \in DOMAIN r : (i = 1 \/ r[i - 1] = "\n") /\ \E t \in Range(expects) : IsPrefix(t, SubSeq(r, i, Len(r)))}
      sorted  == SelectSeq([i \in DOMAIN r |-> i], LAMBDA i : i \in begins)
  IN  /\ Len(sorted) = Len(expects)
      /\ \A k \in DOMAIN sorted : IsPrefix(expects[k], SubSeq(r, sorted[k], Len(r)))
=============================================================================
