------------------------------ MODULE UnitText ------------------------------
(***************************************************************************)
(* What wsmr writes for others to read again, character by character: the  *)
(* escaped instance names of src/units/escape.rs, the command lines that   *)
(* shlex_join (src/units/templates.rs) makes for the ExecStart lines of    *)
(* the drop-ins and for the replies of the application daemon, and lists   *)
(* of names joined with ':'.  The readers are systemd and the shell, as    *)
(* far as these texts need them, and split_colon (src/main.rs).            *)
(*                                                                         *)
(* CompResolve and AppLaunch take from here which words come back as they  *)
(* were.  What is not modelled: a line break inside a word, the specifiers *)
(* (%) and variables ($) that systemd replaces in a word after splitting,  *)
(* and what its backslash escapes stand for.                               *)
(***************************************************************************)
EXTENDS Naturals, Sequences, SequencesExt, TLC

CONSTANTS
    Alphabet,   \* the characters of the words
    MaxText     \* bound: words and characters

\* The UTF-8 bytes of a character, as two hexadecimal digits each.  The letters
\* x and d and the digit 2 stand for all letters and digits.
Utf8 ==
    "x" :> << <<"7", "8">> >>  @@ "d" :> << <<"6", "4">> >>  @@ "2" :> << <<"3", "2">> >>
 @@ "-" :> << <<"2", "d">> >>  @@ "/" :> << <<"2", "f">> >>  @@ "." :> << <<"2", "e">> >>
 @@ " " :> << <<"2", "0">> >>  @@ "'" :> << <<"2", "7">> >>  @@ "\"" :> << <<"2", "2">> >>
 @@ "%" :> << <<"2", "5">> >>  @@ "$" :> << <<"2", "4">> >>  @@ "\\" :> << <<"5", "c">> >>
 @@ ":" :> << <<"3", "a">> >>  @@ "é" :> << <<"c", "3">>, <<"a", "9">> >>

ASSUME AlphabetAssumption == Alphabet \subseteq DOMAIN Utf8 /\ MaxText \in Nat

Alphanumeric == {"x", "d", "2"}

\* Each element of a sequence replaced by a sequence, and these one behind the other.
Each(s, Piece(_)) == FlattenSeq([i \in DOMAIN s |-> Piece(s[i])])

BytesOf(text) == Each(text, LAMBDA c : Utf8[c])

-----------------------------------------------------------------------------
(* Instance names.                                                         *)

is_allowed(c) == c \in Alphanumeric \cup {".", "_", ":"}

char2cesc(c) == Each(Utf8[c], LAMBDA byte : <<"\\", "x">> \o byte)

\* Mutant: the backslash is left as it is.
simple_systemd_escape_Backslash(text, start) ==
    IF start /\ text # <<>> /\ Head(text) = "."
    THEN char2cesc(".") \o Each(Tail(text), LAMBDA c : IF c = "/" THEN <<"-">>
                                ELSE IF is_allowed(c) \/ c = "\\" THEN <<c>> ELSE char2cesc(c))
    ELSE Each(text, LAMBDA c : IF c = "/" THEN <<"-">>
                    ELSE IF is_allowed(c) \/ c = "\\" THEN <<c>> ELSE char2cesc(c))

EscapeChar(c) ==
    IF c = "/" THEN <<"-">> ELSE IF is_allowed(c) THEN <<c>> ELSE char2cesc(c)

simple_systemd_escape(text, start) ==
    IF start /\ text # <<>> /\ Head(text) = "."
    THEN char2cesc(".") \o Each(Tail(text), EscapeChar)
    ELSE Each(text, EscapeChar)

\* systemd's %I: '-' is a '/', \xHH is that byte.
Unescape(name) ==
    LET step(st, c) ==
          IF st.esc # <<>> /\ Len(st.esc) = 3
          THEN [bytes |-> Append(st.bytes, <<st.esc[3], c>>), esc |-> <<>>]
          ELSE IF st.esc # <<>> \/ c = "\\" THEN [st EXCEPT !.esc = Append(@, c)]
          ELSE [st EXCEPT !.bytes = @ \o Utf8[IF c = "-" THEN "/" ELSE c]]
    IN FoldLeft(step, [bytes |-> <<>>, esc |-> <<>>], name).bytes

-----------------------------------------------------------------------------
(* Command lines.                                                          *)

Safe(c) == c \in Alphanumeric \cup {"@", "%", "+", "=", ":", ",", ".", "/", "-", "_"}

\* Mutant: nothing is written for an empty word.
shlex_quote_NoEmpty(word) ==
    IF \A i \in DOMAIN word : Safe(word[i]) THEN word
    ELSE <<"'">> \o Each(word, LAMBDA c : IF c = "'" THEN <<"'", "\"", "'", "\"", "'">> ELSE <<c>>)
                 \o <<"'">>

shlex_quote(word) ==
    IF word = <<>> THEN <<"'", "'">>
    ELSE IF \A i \in DOMAIN word : Safe(word[i]) THEN word
    ELSE <<"'">> \o Each(word, LAMBDA c : IF c = "'" THEN <<"'", "\"", "'", "\"", "'">> ELSE <<c>>)
                 \o <<"'">>

\* Words with a character between them.
Join(words, between) ==
    FlattenSeq([i \in DOMAIN words |-> (IF i = 1 THEN <<>> ELSE <<between>>) \o words[i]])

shlex_join(words) == Join([i \in DOMAIN words |-> shlex_quote(words[i])], " ")

\* A reader between two characters: the words so far, the one it is in, the
\* quote it is in, and whether it met what it does not read literally.
NoQuote == "none"
Reader  == [words |-> <<>>, word |-> <<>>, within |-> FALSE, quote |-> NoQuote, bad |-> FALSE]

Takes(r, c)  == [r EXCEPT !.word = Append(@, c), !.within = TRUE]
Opens(r, c)  == [r EXCEPT !.quote = c, !.within = TRUE]
Closes(r)    == [r EXCEPT !.quote = NoQuote]
Rejects(r)   == [r EXCEPT !.bad = TRUE]
EndsWord(r)  == IF r.within
                THEN [r EXCEPT !.words = Append(@, r.word), !.word = <<>>, !.within = FALSE]
                ELSE r

\* The text is read to its end, and as these words.
SplitsInto(text, Step(_, _), list) ==
    LET r == FoldLeft(Step, Reader, text)
    IN ~r.bad /\ r.quote = NoQuote /\ EndsWord(r).words = list

\* systemd's extract_first_word: both quotes alike, and a backslash starts an
\* escape inside of them too.
SystemdStep(r, c) ==
    IF c = "\\" THEN Rejects(r)
    ELSE IF c = r.quote THEN Closes(r)
    ELSE IF r.quote # NoQuote THEN Takes(r, c)
    ELSE IF c \in {"'", "\""} THEN Opens(r, c)
    ELSE IF c = " " THEN EndsWord(r)
    ELSE Takes(r, c)

\* sh: nothing but the quote is special between single quotes.
ShellStep(r, c) ==
    IF c = r.quote THEN Closes(r)
    ELSE IF r.quote = "'" THEN Takes(r, c)
    ELSE IF c \in {"\\", "$"} THEN Rejects(r)
    ELSE IF r.quote = "\"" THEN Takes(r, c)
    ELSE IF c \in {"'", "\""} THEN Opens(r, c)
    ELSE IF c = " " THEN EndsWord(r)
    ELSE Takes(r, c)

-----------------------------------------------------------------------------
(* Lists of names.                                                         *)

\* Mutant: empty names are dropped.
split_colon_Compact(text) ==
    LET step(r, c) == IF c = ":" THEN EndsWord(r) ELSE Takes(r, c)
    IN EndsWord(FoldLeft(step, Reader, text)).words

\* Nothing for an empty text, otherwise what is between the colons.
split_colon(text) ==
    LET step(names, c) ==
          IF c = ":" THEN Append(names, <<>>)
          ELSE [names EXCEPT ![Len(names)] = Append(@, c)]
    IN IF text = <<>> THEN <<>> ELSE FoldLeft(step, <<<<>>>>, text)

-----------------------------------------------------------------------------
(* All words of these characters, up to the bound.                         *)

VARIABLE words

Size == Len(Each(words, LAMBDA word : <<"">> \o word))

Init == words = <<>>

AnotherWord == words' = Append(words, <<>>)

AnotherCharacter ==
    /\ words # <<>>
    /\ \E c \in Alphabet : words' = [words EXCEPT ![Len(words)] = Append(@, c)]

Next == Size < MaxText /\ (AnotherWord \/ AnotherCharacter)

Spec == Init /\ [][Next]_words

-----------------------------------------------------------------------------
(* Properties.                                                             *)

Hold(c) == \E i \in DOMAIN words : Contains(words[i], c)

\* systemd makes of an instance name what was escaped, byte by byte, so that no
\* two compositors share a unit; at the start of a unit name, too.
EscapeIsUndone ==
    \A i \in DOMAIN words, start \in BOOLEAN :
        Unescape(simple_systemd_escape(words[i], start)) = BytesOf(words[i])

\* The words of a joined line come back: to a shell, which evaluates a reply of the
\* daemon, whatever is in them; to systemd, which splits the ExecStart of a
\* drop-in, empty ones and those with spaces and quotes in them, unless there is a
\* backslash.
JoinedWordsComeBack ==
    /\ SplitsInto(shlex_join(words), ShellStep, words)
    /\ ~Hold("\\") => SplitsInto(shlex_join(words), SystemdStep, words)

\* The names that a drop-in carries come back from the argument they are joined
\* to, unless there is a colon in one, or a single one that is empty.
JoinedNamesComeBack ==
    (~Hold(":") /\ words # <<<<>>>>) => split_colon(Join(words, ":")) = words
=============================================================================
