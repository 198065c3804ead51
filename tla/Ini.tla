-------------------------------- MODULE Ini --------------------------------
(***************************************************************************)
(* stconfig/ini.go: a configuration read from an INI file, changed, saved  *)
(* and read again, with a crash in the middle of a Save.                   *)
(*                                                                         *)
(* A file is a sequence of lines: "blank", "comment" (c), "section"        *)
(* (name), "kv" (key, val) and "bad" for a line that stops the parser.     *)
(* A comment is the sequence of the comments that were glued together, as  *)
(* the strings are; a value is [q, v] where q says that it has quotes.     *)
(***************************************************************************)
EXTENDS Integers, SequencesExt, TLC

CONSTANTS
  Files,      \* the files that users write
  Keys, Names, Values, Comments,  \* arguments of the calls; <<>> is "no comment"
  MaxEdits    \* bound: calls that change the configuration, and Saves

VARIABLES
  file,    \* the lines of the file
  config,  \* the Config of the running program, NoConfig without one
  saved,   \* the Config that the last Save wrote, NoConfig if the user wrote the file
  torn,    \* the last Save stopped half way
  edits    \* number of calls so far

iniVars == <<file, config, saved, torn, edits>>

Empty    == [v \in {} |-> v]
Section  == [com |-> <<>>, values |-> Empty, comments |-> Empty, keys |-> <<>>]
NoConfig == [err |-> TRUE]
NewConfig == [err |-> FALSE, main |-> Section, sections |-> Empty, sectionkeys |-> <<>>]

Put(f, k, v) == (k :> v) @@ f
Unquoted(val) == [val EXCEPT !.q = FALSE]
NoValue == [q |-> FALSE, v |-> ""]

-----------------------------------------------------------------------------
(* Reading *)

\* values[key] = value, commentValues[key] = comment, and the key at the end of keys, again if it
\* is there already.
AddKey(sec, line, comment) ==
  [sec EXCEPT !.values = Put(@, line.key, Unquoted(line.val)),
              !.comments = Put(@, line.key, comment), !.keys = Append(@, line.key)]

\* One round of the loop of readIniFile; in is currentSection as <<name>>, <<>> for nil.
readLine(s, line) ==
  IF s.config.err THEN s ELSE
  CASE line.k = "blank" -> s
    [] line.k = "comment" -> [s EXCEPT !.comment = @ \o line.c]
    [] line.k = "section" ->
         [s EXCEPT !.in = <<line.name>>, !.comment = <<>>,
            !.config = IF line.name \in DOMAIN @.sections THEN @
                       ELSE [@ EXCEPT !.sections = Put(@, line.name, [Section EXCEPT !.com = s.comment]),
                                      !.sectionkeys = Append(@, line.name)]]
    [] line.k = "kv" ->
         [s EXCEPT !.comment = <<>>,
            !.config = IF s.in = <<>> THEN [@ EXCEPT !.main = AddKey(@, line, s.comment)]
                       ELSE [@ EXCEPT !.sections[s.in[1]] = AddKey(@, line, s.comment)]]
    [] OTHER -> [s EXCEPT !.config = NoConfig]

readIniFile(lines) ==
  FoldLeft(readLine, [config |-> NewConfig, in |-> <<>>, comment |-> <<>>], lines).config

string(values, key, def) == IF key \in DOMAIN values THEN values[key] ELSE def

String(c, key, def) == string(c.main.values, key, def)
StringSection(c, name, key, def) ==
  IF name \in DOMAIN c.sections THEN string(c.sections[name].values, key, def) ELSE def

-----------------------------------------------------------------------------
(* Writing *)

CommentLine(c) == IF c = <<>> THEN <<>> ELSE <<[k |-> "comment", c |-> c]>>

\* Mutant: comments are written below their keys.
KeyLinesBelow(sec) ==
  FlattenSeq([i \in DOMAIN sec.keys |->
    LET key == sec.keys[i]
    IN <<[k |-> "kv", key |-> key, val |-> sec.values[key]]>> \o CommentLine(sec.comments[key])])

KeyLines(sec) ==
  FlattenSeq([i \in DOMAIN sec.keys |->
    LET key == sec.keys[i]
    IN CommentLine(sec.comments[key]) \o <<[k |-> "kv", key |-> key, val |-> sec.values[key]]>>])

\* What Save writes.
Lines(c) ==
  KeyLines(c.main)
    \o FlattenSeq([i \in DOMAIN c.sectionkeys |->
         LET name == c.sectionkeys[i]
         IN IF name \notin DOMAIN c.sections THEN <<>>
            ELSE <<[k |-> "blank"]>> \o CommentLine(c.sections[name].com)
                   \o <<[k |-> "section", name |-> name]>> \o KeyLines(c.sections[name])])

\* What a line may look like after some of its WriteString calls: a key or a bracket alone is
\* refused by the parser, "key = " has an empty value.
Pieces(line) ==
  CASE line.k = "kv" -> {<<[k |-> "bad"]>>, <<[line EXCEPT !.val = NoValue]>>}
    [] line.k = "section" -> {<<[k |-> "bad"]>>}
    [] OTHER -> {<<>>}

IniInit ==
  /\ file \in Files /\ config = NoConfig /\ saved = NoConfig /\ torn = FALSE /\ edits = 0

LoadINI ==
  /\ config.err
  /\ config' = readIniFile(file)
  /\ UNCHANGED <<file, saved, torn, edits>>

Edit == ~config.err /\ edits < MaxEdits /\ edits' = edits + 1

\* configSection.set
set(sec, key, val, comment) ==
  IF key \in DOMAIN sec.values
  THEN [sec EXCEPT !.values[key] = val, !.comments[key] = IF comment = <<>> THEN @ ELSE comment]
  ELSE [sec EXCEPT !.values = Put(@, key, val), !.comments = Put(@, key, comment),
                   !.keys = Append(@, key)]

Set(key, val, comment) ==
  /\ Edit
  /\ config' = [config EXCEPT !.main = set(@, key, val, comment)]
  /\ UNCHANGED <<file, saved, torn>>

SectionSet(name, key, val, comment) ==
  /\ Edit
  /\ config' = IF name \in DOMAIN config.sections
               THEN [config EXCEPT !.sections[name] = set(@, key, val, comment)]
               ELSE [config EXCEPT !.sections = Put(@, name, set(Section, key, val, comment)),
                                   !.sectionkeys = Append(@, name)]
  /\ UNCHANGED <<file, saved, torn>>

\* The name stays in sectionkeys.
DelSection(name) ==
  /\ Edit
  /\ config' = [config EXCEPT !.sections = [n \in DOMAIN @ \ {name} |-> @[n]]]
  /\ UNCHANGED <<file, saved, torn>>

\* Save returns; the file was truncated and written again.
Save ==
  /\ Edit
  /\ file' = Lines(config) /\ saved' = config /\ torn' = FALSE
  /\ UNCHANGED config

\* The program dies in Save after some lines and a piece of the next one.
SaveTorn ==
  /\ Edit
  /\ \E n \in 0 .. Len(Lines(config)) - 1 :
       \E piece \in {<<>>} \cup Pieces(Lines(config)[n + 1]) :
         file' = SubSeq(Lines(config), 1, n) \o piece
  /\ saved' = config /\ torn' = TRUE /\ config' = NoConfig

\* The program ends.
Exit == ~config.err /\ config' = NoConfig /\ UNCHANGED <<file, saved, torn, edits>>

IniNext ==
  \/ LoadINI \/ Save \/ SaveTorn \/ Exit
  \/ \E key \in Keys, val \in Values, c \in Comments : Set(key, val, c)
  \/ \E name \in Names, key \in Keys, val \in Values, c \in Comments : SectionSet(name, key, val, c)
  \/ \E name \in Names : DelSection(name)

-----------------------------------------------------------------------------
\* Line i is in the section <<name>>, or in none: <<>>.
SectionOf(lines, i) ==
  LET heads == {j \in 1 .. i : lines[j].k = "section"}
  IN IF heads = {} THEN <<>> ELSE <<lines[Max(heads)].name>>

\* The lines that assign to key in a section.
Assigns(lines, sec, key) ==
  {i \in DOMAIN lines : lines[i].k = "kv" /\ lines[i].key = key /\ SectionOf(lines, i) = sec}

Get(c, sec, key) ==
  IF sec = <<>> THEN String(c, key, NoValue) ELSE StringSection(c, sec[1], key, NoValue)

Places == {<<>>} \cup {<<name>> : name \in Names}

\* What the getters return after LoadINI is the last assignment to the key in any of the parts of
\* its section, without quotes, and the default if there is none.
LastAssignmentWins ==
  ~config.err /\ edits = 0 =>
    \A sec \in Places, key \in Keys :
      LET a == Assigns(file, sec, key)
      IN Get(config, sec, key) = IF a = {} THEN NoValue ELSE Unquoted(file[Max(a)].val)

\* What Save wrote is what LoadINI reads: every value (without quotes), the comments of keys and
\* sections, and no section that DelSection took away, whatever was edited before.
SaveThenLoad ==
  ~saved.err /\ ~torn =>
    LET c == readIniFile(file)
    IN /\ ~c.err /\ DOMAIN c.sections = DOMAIN saved.sections
       /\ \A sec \in Places, key \in Keys : Get(c, sec, key) = Unquoted(Get(saved, sec, key))
       /\ c.main.comments = saved.main.comments
       /\ \A n \in DOMAIN c.sections : /\ c.sections[n].com = saved.sections[n].com
                                       /\ c.sections[n].comments = saved.sections[n].comments

\* A program that only loads and saves leaves the file alone: what it would write is what is there
\* (values without quotes), unless a section was deleted and made again, which Save writes twice.
SaveIsStable ==
  ~saved.err /\ ~torn /\ IsInjective(saved.sectionkeys) =>
    Lines(readIniFile(file)) =
      [i \in DOMAIN file |-> IF file[i].k = "kv" THEN [file[i] EXCEPT !.val = Unquoted(@)] ELSE file[i]]

\* A Save that dies loses settings but invents none: LoadINI then fails, or gives for each key the
\* saved value, the empty one of a line cut at its value, or the default.
TornSaveInventsNothing ==
  ~saved.err /\ torn =>
    LET c == readIniFile(file)
    IN ~c.err => \A sec \in Places, key \in Keys :
                   Get(c, sec, key) \in {Unquoted(Get(saved, sec, key)), NoValue}

\* The file is a faithful copy of the settings: LoadINI reads what is assigned in it, Save writes what
\* LoadINI reads back and leaves a file alone that did not change, and a Save that dies invents nothing.
SettingsKept == LastAssignmentWins /\ SaveThenLoad /\ SaveIsStable /\ TornSaveInventsNothing
=============================================================================
