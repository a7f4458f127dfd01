------------------------------ MODULE Options ------------------------------
(***************************************************************************)
(* cxxopts: options are added, then one command line is parsed.  The       *)
(* parser works through argv word by word; a word may hold several short   *)
(* options, take the next word for its value, or be a positional argument. *)
(* Then the defaults are filled in, and last come the words after "--".    *)
(* An exception ends the program.                                          *)
(*                                                                         *)
(* Names and texts are sequences of characters.  A value is stored under   *)
(* the hash of the option's names put together, which is taken to have no  *)
(* collisions of its own.                                                  *)
(***************************************************************************)
EXTENDS CommandLine

CONSTANTS Setups,   \* what programs add, and the command lines they are given
          NumberBits \* the width of a number

\* A value has one of four types, and of the texts for its default and its
\* implicit value one or none.  Words and names are arbitrary.
Types   == {"flag", "number", "list", "text"}
OneText == {texts \in Seq(Seq(STRING)) : Len(texts) <= 1}
Definition == [opts : Seq(STRING), value : [type : Types, default : OneText, implicit : OneText]]
SetupOK(s) == /\ DOMAIN s = {"definitions", "positional", "allow", "argv"}
              /\ s.argv \in Seq(Seq(STRING)) /\ s.definitions \in Seq(Definition)
              /\ s.positional \in Seq(Seq(STRING))

ASSUME SetupsAssumption == \A s \in Setups : SetupOK(s)

VARIABLES
  setup,        \* [definitions of [opts, value], positional, allow, argv]
  m_options,    \* the option of each name
  phase,        \* "adding", "words", "group", "defaults", "rest", "done" or "thrown"
  current,      \* the word at hand, argv[current]
  letter,       \* in a group of short options, the one at hand
  next,         \* next_positional
  m_parsed,     \* [type, count, default, store] by hash
  m_sequential, \* <<long name, text>> of every value given
  unmatched

optionVars == <<setup, m_options, phase, current, letter, next, m_parsed, m_sequential, unmatched>>

argv == setup.argv
Word == argv[current]

OptionsInit == /\ setup \in Setups
               /\ m_options = [name \in {} |-> <<>>]
               /\ phase = "adding" /\ current = 1 /\ letter = 0 /\ next = 1
               /\ m_parsed = [hash \in {} |-> <<>>]
               /\ m_sequential = <<>> /\ unmatched = <<>>

Throw == phase' = "thrown" /\ UNCHANGED <<setup, m_options, current, letter, next, m_parsed, m_sequential, unmatched>>

-----------------------------------------------------------------------------
(* Adding.                                                                 *)

\* A long name of one letter is the short one.
ShortName(text) == IF Len(LongSwitch(text)) = 1 THEN LongSwitch(text) ELSE ShortSwitch(text)
LongName(text)  == IF Len(LongSwitch(text)) = 1 THEN ShortSwitch(text) ELSE LongSwitch(text)

Nameless(text) == \/ Len(ShortSwitch(text)) + Len(LongSwitch(text)) = 0
                  \/ Len(LongSwitch(text)) = 1 /\ ShortSwitch(text) # <<>>

\* OptionDetails: the names and the value of a definition.
Details(d) == [short |-> ShortName(d.opts), long |-> LongName(d.opts),
               type |-> d.value.type, default |-> d.value.default, implicit |-> d.value.implicit]

\* A map with a value under some keys.
With(map, keys, value) == [key \in DOMAIN map \cup keys |-> IF key \in keys THEN value ELSE map[key]]

NamesOf(o) == {o.short, o.long} \ {<<>>}
Exists(o)  == NamesOf(o) \cap DOMAIN m_options # {}

AddOption ==
  /\ phase = "adding" /\ setup.definitions # <<>>
  /\ LET d == Head(setup.definitions)
         o == Details(d)
     IN  IF ~IsSpecifier(d.opts) \/ Nameless(d.opts) \/ Exists(o) THEN Throw
         ELSE /\ m_options' = With(m_options, NamesOf(o), o)
              /\ setup' = [setup EXCEPT !.definitions = Tail(@)]
              /\ UNCHANGED <<phase, current, letter, next, m_parsed, m_sequential, unmatched>>

Parse == /\ phase = "adding" /\ setup.definitions = <<>>
         /\ phase' = "words"
         /\ UNCHANGED <<setup, m_options, current, letter, next, m_parsed, m_sequential, unmatched>>

-----------------------------------------------------------------------------
(* Values.                                                                 *)

\* Mutation of Hash: only the short name counts.
HashShort(o) == o.short

Hash(o)  == o.long \o o.short
Entry(o) == IF Hash(o) \in DOMAIN m_parsed THEN m_parsed[Hash(o)]
            ELSE [type |-> o.type, count |-> 0, default |-> FALSE, store |-> <<>>]

Result(v)        == IF v = <<>> THEN <<>> ELSE <<v>>
Added(store, v)  == IF v = <<>> THEN <<>> ELSE <<store \o v[1]>>

\* abstract_value::parse: <<the new contents of the store>>, or <<>>.
Stored(type, store, text) ==
  CASE type = "flag"   -> Result(boolean_parser(text))
    [] type = "number" -> Result(integer_parser(NumberBits, FALSE, text))
    [] type = "list"   -> Added(store, vector_parser(NumberBits, text))
    [] type = "text"   -> <<<<text>>>>

Parsed(o, text) == Stored(Entry(o).type, Entry(o).store, text)

\* store: what is parsed of the text.
parse_option(o, text, store) ==
  /\ m_parsed' = With(m_parsed, {Hash(o)}, [Entry(o) EXCEPT !.count = @ + 1, !.store = store[1]])
  /\ m_sequential' = Append(m_sequential, <<o.long, text>>)

\* The next word is there to be an option's value.
HasNext == current < Len(argv)

\* checked_parse_arg: the text, if there is one, and the words it takes.
Argument(o) == CASE o.implicit # <<>> -> o.implicit
                 [] o.implicit = <<>> /\ HasNext -> <<argv[current + 1]>>
                 [] OTHER -> <<>>

\* Mutation of WordsOf: the value is parsed once more, as a word of its own.
WordsOfOne(o) == 1

WordsOf(o) == IF o.implicit = <<>> THEN 2 ELSE 1

\* Option o is given in the word at hand, which it ends.
GiveParsed(o, text, words, store) ==
  IF store = <<>> THEN Throw
  ELSE /\ parse_option(o, text[1], store)
       /\ phase' = "words" /\ letter' = 0 /\ current' = current + words
       /\ UNCHANGED <<setup, m_options, next, unmatched>>

Give(o, text, words) == GiveParsed(o, text, words, IF text = <<>> THEN <<>> ELSE Parsed(o, text[1]))

-----------------------------------------------------------------------------
(* Positional arguments.                                                   *)

\* The argument called name is left behind: it is no container and has a value.
Passed(name) == /\ name \in DOMAIN m_options
                /\ m_options[name].type # "list"
                /\ Entry(m_options[name]).count > 0

\* Where consume_positional stops: at one that may take the word, or the end.
Place == CHOOSE j \in next .. Len(setup.positional) + 1 :
            /\ j <= Len(setup.positional) => ~Passed(setup.positional[j])
            /\ \A k \in next .. j - 1 : Passed(setup.positional[k])

ConsumedParsed(next_phase, o, store) ==
  IF store = <<>> THEN Throw
  ELSE /\ parse_option(o, Word, store)
       /\ next' = IF o.type = "list" THEN Place ELSE Place + 1
       /\ current' = current + 1 /\ phase' = next_phase
       /\ UNCHANGED <<setup, m_options, letter, unmatched>>

Consumed(next_phase) ==
  LET name == setup.positional[Place]
  IN  IF name \in DOMAIN m_options
      THEN ConsumedParsed(next_phase, m_options[name], Parsed(m_options[name], Word))
      ELSE Throw

IsPlace == Place <= Len(setup.positional)

-----------------------------------------------------------------------------
(* One word.                                                               *)

\* A word may be empty.
Dashed(word) == word # <<>> /\ word[1] = Dash

EndOfOptions == current <= Len(argv) /\ argv[current] = <<Dash, Dash>>
InWords == phase = "words" /\ current <= Len(argv)

EndWords == /\ phase = "words"
            /\ current > Len(argv) \/ EndOfOptions
            /\ phase' = "defaults"
            /\ current' = IF current > Len(argv) THEN current ELSE current + 1
            /\ UNCHANGED <<setup, m_options, letter, next, m_parsed, m_sequential, unmatched>>

PlainWord ==
  /\ InWords /\ ~EndOfOptions /\ ~LongWord(Word) /\ ~ShortWord(Word)
  /\ CASE Dashed(Word) /\ Len(Word) > 1 /\ ~setup.allow -> Throw
       [] ~(Dashed(Word) /\ Len(Word) > 1 /\ ~setup.allow) /\ IsPlace -> Consumed("words")
       [] OTHER -> /\ unmatched' = Append(unmatched, Word)
                   /\ next' = Place /\ current' = current + 1
                   /\ UNCHANGED <<setup, m_options, phase, letter, m_parsed, m_sequential>>

LongOption ==
  /\ InWords /\ ~EndOfOptions /\ LongWord(Word)
  /\ LET name   == SubSeq(Word, 3, NameEnd(Word) - 1)
         o      == m_options[name]
         joined == NameEnd(Word) <= Len(Word)
     IN  CASE name \in DOMAIN m_options ->
                Give(o, IF joined THEN <<SubSeq(Word, NameEnd(Word) + 1, Len(Word))>> ELSE Argument(o),
                     IF joined THEN 1 ELSE WordsOf(o))
           [] name \notin DOMAIN m_options /\ setup.allow ->
                /\ unmatched' = Append(unmatched, Word) /\ current' = current + 1
                /\ UNCHANGED <<setup, m_options, phase, letter, next, m_parsed, m_sequential>>
           [] OTHER -> Throw

Group == /\ InWords /\ ~EndOfOptions /\ ~LongWord(Word) /\ ShortWord(Word)
         /\ phase' = "group" /\ letter' = 2
         /\ UNCHANGED <<setup, m_options, current, next, m_parsed, m_sequential, unmatched>>

\* The next letter of a group, or after the last one the next word.
Letters == IF letter < Len(Word) THEN phase' = phase /\ letter' = letter + 1 /\ UNCHANGED current
           ELSE phase' = "words" /\ letter' = 0 /\ current' = current + 1

\* An option that takes no value, in front of another letter.
Flag(o, store) ==
  IF store = <<>> THEN Throw
  ELSE /\ parse_option(o, o.implicit[1], store) /\ Letters
       /\ UNCHANGED <<setup, m_options, next, unmatched>>

ShortOption ==
  /\ phase = "group"
  /\ LET name == <<Word[letter]>>
         o    == m_options[name]
         last == letter = Len(Word)
     IN  CASE name \notin DOMAIN m_options ->
                IF setup.allow
                THEN Letters /\ UNCHANGED <<setup, m_options, next, m_parsed, m_sequential, unmatched>>
                ELSE Throw
           [] name \in DOMAIN m_options /\ ~last /\ o.implicit # <<>> -> Flag(o, Parsed(o, o.implicit[1]))
           [] OTHER -> Give(o, IF last THEN Argument(o) ELSE <<SubSeq(Word, letter + 1, Len(Word))>>,
                            IF last THEN WordsOf(o) ELSE 1)

-----------------------------------------------------------------------------
(* After the words.                                                        *)

Lacking == {o \in Range(m_options) : o.default # <<>> /\ Entry(o).count = 0 /\ ~Entry(o).default}

\* One option after the other, in the order of an unordered map.
DefaultParsed(o, store) ==
  IF store = <<>> THEN Throw
  ELSE /\ m_parsed' = With(m_parsed, {Hash(o)}, [Entry(o) EXCEPT !.default = TRUE, !.store = store[1]])
       /\ UNCHANGED <<setup, m_options, phase, current, letter, next, m_sequential, unmatched>>

parse_default == phase = "defaults" /\ \E o \in Lacking : DefaultParsed(o, Parsed(o, o.default[1]))

EndDefaults == /\ phase = "defaults" /\ Lacking = {}
               /\ phase' = "rest"
               /\ UNCHANGED <<setup, m_options, current, letter, next, m_parsed, m_sequential, unmatched>>

RestWord == phase = "rest" /\ current <= Len(argv) /\ IsPlace /\ Consumed("rest")

\* The words that no positional argument takes, and finalise_aliases.
Finish == /\ phase = "rest"
          /\ current > Len(argv) \/ ~IsPlace
          /\ unmatched' = unmatched \o SubSeq(argv, current, Len(argv))
          /\ m_parsed' = [hash \in DOMAIN m_parsed \cup {Hash(o) : o \in Range(m_options)} |->
               IF hash \in DOMAIN m_parsed THEN m_parsed[hash]
               ELSE Entry(CHOOSE o \in Range(m_options) : Hash(o) = hash)]
          /\ phase' = "done"
          /\ UNCHANGED <<setup, m_options, current, letter, next, m_sequential>>

Ended == phase \in {"done", "thrown"} /\ UNCHANGED optionVars

OptionsNext == \/ AddOption \/ Parse
               \/ EndWords \/ PlainWord \/ LongOption \/ Group \/ ShortOption
               \/ parse_default \/ EndDefaults \/ RestWord \/ Finish \/ Ended

\* ParseResult::count and operator[].
CountOf(name) == IF name \in DOMAIN m_options THEN m_parsed[Hash(m_options[name])].count ELSE 0
Value(name) == m_parsed[Hash(m_options[name])].store

-----------------------------------------------------------------------------
OptionsTypeOK ==
  /\ phase \in {"adding", "words", "group", "defaults", "rest", "done", "thrown"}
  /\ current \in 1 .. Len(argv) + 1 /\ next \in 1 .. Len(setup.positional) + 1
  /\ \A name \in DOMAIN m_options : name \in NamesOf(m_options[name])

OptionsSpec == OptionsInit /\ [][OptionsNext]_optionVars

\* Options whose names are put together to the same text share their value.
Alone(o) == \A p \in Range(m_options) : p.long \o p.short = o.long \o o.short => p = o

\* The texts of the values under a long name.
TextsOf(long, values) ==
  LET texts[n \in 0 .. Len(values)] ==
        IF n = 0 THEN <<>>
        ELSE IF values[n][1] = long THEN Append(texts[n - 1], values[n][2]) ELSE texts[n - 1]
  IN  texts[Len(values)]

\* The elements of a list that is given by several texts.
ListOf(texts) ==
  LET list[n \in 0 .. Len(texts)] ==
        IF n = 0 THEN <<>> ELSE list[n - 1] \o vector_parser(NumberBits, texts[n])[1]
  IN  list[Len(texts)]

Texts(o) == TextsOf(o.long, m_sequential)

\* The texts that count: a default that came first is one of them.
All(o, e) == IF e.default THEN o.default \o Texts(o) ELSE Texts(o)

\* What they mean: a list holds them all, of the others the last one counts.
MeaningOf(o, all) ==
  CASE all = <<>> -> <<>>
    [] all # <<>> /\ o.type = "list" -> ListOf(all)
    [] OTHER -> Stored(o.type, <<>>, all[Len(all)])[1]

Meaning(o, e) == MeaningOf(o, All(o, e))

Occurrences(s, x) == Cardinality({k \in DOMAIN s : s[k] = x})
Values(x) == Cardinality({k \in DOMAIN m_sequential : m_sequential[k][2] = x})

\* The values that do not come from a word of their own.
Joined == (UNION {{SubSeq(argv[i], k, Len(argv[i])) : k \in 3 .. Len(argv[i]) + 1} :
                    i \in {j \in DOMAIN argv : Dashed(argv[j])}})
            \cup (UNION {Range(o.implicit) : o \in Range(m_options)})

(* A command line that is accepted is accounted for, whatever the mixture  *)
(* of groups, values, positional arguments and "--": every option's count  *)
(* is the number of values that it was given, under either of its names,   *)
(* its value is what they mean, an option without a value has its default, *)
(* and every word that is no option is found exactly once among the values *)
(* and the unmatched words.                                                *)
WordsAccountedFor ==
  phase = "done" =>
    /\ \A o \in Range(m_options) :
         Alone(o) /\ o.long # <<>> =>
           LET e == m_parsed[Hash(o)]
           IN  /\ e.count = Len(Texts(o)) /\ \A name \in NamesOf(o) : CountOf(name) = e.count
               /\ e.store = Meaning(o, e)
               /\ o.default # <<>> /\ e.count = 0 => e.default
    /\ \A w \in Range(argv) \ Joined :
         ~Dashed(w) => Occurrences(argv, w) = Occurrences(unmatched, w) + Values(w)
=============================================================================
