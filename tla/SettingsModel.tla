--------------------------- MODULE SettingsModel ---------------------------
(***************************************************************************)
(* The class SettingsModel: how config.txt is read and written.  A line is *)
(* an option and what follows its delimiter; a text is what is left of     *)
(* that without its first and last character, which the code takes to be   *)
(* quotes.  A line without a delimiter is its option's own name, shortened *)
(* in the same way, so it is a line like any other.                        *)
(***************************************************************************)
EXTENDS Integers, Sequences, SequencesExt

CONSTANTS Texts,      \* the texts a value may be
          stoi,       \* std::stoi on the texts that it can convert
          to_string,  \* std::to_string on the numbers those stand for
          find        \* the level names that a text is found in

cLevelTexts == <<"Trace", "Debug", "Info", "Warning", "Error">>

NumberOptions == {"MaxBuffer", "MaxRetriesAfterFatalError",
                  "MaxRetriesWhenReadWriteFailed", "MaxReadTimeoutMS",
                  "MaxWriteTimeoutMS"}

\* In the order SaveToFile writes them.
OptionNames == <<"LogLevel", "XLinkIp", "XLinkPort", "MaxBuffer",
                 "MaxRetriesAfterFatalError", "MaxRetriesWhenReadWriteFailed",
                 "MaxReadTimeoutMS", "MaxWriteTimeoutMS">>

Options == ToSet(OptionNames)

Defaults ==
    [option \in Options |->
        CASE option = "LogLevel"  -> "Info"
          [] option = "XLinkIp"   -> "127.0.0.1"
          [] option = "XLinkPort" -> "34523"
          [] option = "MaxBuffer" -> 1000
          [] option \in {"MaxRetriesAfterFatalError",
                         "MaxRetriesWhenReadWriteFailed"} -> 5000
          [] OTHER -> 2]

\* What stoi takes, it gives back as the number that to_string writes.
ASSUME TextAssumption ==
    /\ ToSet(cLevelTexts) \cup {Defaults["XLinkIp"], Defaults["XLinkPort"]} \subseteq Texts
    /\ "none" \notin Texts
    /\ DOMAIN stoi \subseteq Texts
    /\ \A number \in DOMAIN to_string : /\ to_string[number] \in DOMAIN stoi
                                       /\ stoi[to_string[number]] = number
    /\ \A text \in DOMAIN stoi : stoi[text] \in DOMAIN to_string
    /\ {Defaults[option] : option \in NumberOptions} \subseteq DOMAIN to_string
    /\ find \in [Texts -> SUBSET ToSet(cLevelTexts)]
    /\ \A level \in ToSet(cLevelTexts) : find[level] = {level}

\* The level whose name contains the text; the last one if there are more.
ConvertLogLevelStringToLevel(text) ==
    LET Found(level) == level \in find[text]
        last == SelectLastInSeq(cLevelTexts, Found)
    IN IF last = 0 THEN Defaults["LogLevel"] ELSE cLevelTexts[last]

ConvertLogLevelToString(level) == level

\* The value of a line: nothing where the option is unknown, has no parameter
\* or takes a number that cannot be read.
Readable(line) ==
    /\ line.option \in Options
    /\ line.result # "none"
    /\ line.option \in NumberOptions => line.result \in DOMAIN stoi

Value(line) ==
    CASE line.option = "LogLevel"      -> ConvertLogLevelStringToLevel(line.result)
      [] line.option \in NumberOptions -> stoi[line.result]
      [] OTHER                         -> line.result

\* Mutant: what cannot be read puts the option back to its default.
ReadLine_Resets(settings, line) ==
    IF line.option \notin Options THEN settings
    ELSE [settings EXCEPT ![line.option] =
              IF Readable(line) THEN Value(line) ELSE Defaults[line.option]]

ReadLine(settings, line) ==
    IF Readable(line) THEN [settings EXCEPT ![line.option] = Value(line)]
                      ELSE settings

\* A last line that no newline ends is not read.
LineCount(file) ==
    IF file.ended \/ file.lines = <<>> THEN Len(file.lines) ELSE Len(file.lines) - 1

SavedText(settings, option) ==
    CASE option = "LogLevel"      -> ConvertLogLevelToString(settings[option])
      [] option \in NumberOptions -> to_string[settings[option]]
      [] OTHER                    -> settings[option]

\* Mutant: the default is written for the log level.
SaveToFile_DefaultLevel(settings) ==
    [lines |-> [i \in DOMAIN OptionNames |->
                   [option |-> OptionNames[i],
                    result |-> SavedText([settings EXCEPT !["LogLevel"] = "Info"],
                                         OptionNames[i])]],
     ended |-> TRUE]

SaveToFile(settings) ==
    [lines |-> [i \in DOMAIN OptionNames |->
                   [option |-> OptionNames[i],
                    result |-> SavedText(settings, OptionNames[i])]],
     ended |-> TRUE]

-----------------------------------------------------------------------------

\* What a reader of the first lines of a file expects of an option: the last
\* readable one for it counts, and the default where there is none.
ConfiguredBy(lines, count, option) ==
    LET Sets(line) == line.option = option /\ Readable(line)
        last == SelectLastInSubSeq(lines, 1, count, Sets)
    IN IF last = 0 THEN Defaults[option] ELSE Value(lines[last])

Configured(file, option) == ConfiguredBy(file.lines, LineCount(file), option)
=============================================================================
