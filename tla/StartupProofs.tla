--------------------------- MODULE StartupProofs ---------------------------
(***************************************************************************)
(* The settings are what config.txt says, and what was saved is loaded     *)
(* again.  The walk over the USB devices keeps account of its handles, and *)
(* uses the list it has freed only after a call has failed.  All this for  *)
(* any files, settings, devices and failures.                              *)
(***************************************************************************)
EXTENDS Startup, TLAPS

\* The position that becomes a handle is one of the list.
Positions == lCount \in Nat /\ (open = "walk" => lCount # 0)

\* A walk that goes on in a freed list has seen a call fail.
FreedByFailure ==
    /\ failures \in 0..MaxFailures
    /\ lDevices = "freed" /\ mDeviceHandle = 0 /\ open \in {"walk", "crashed"}
           => failures < MaxFailures
    /\ open = "crashed" => lDevices = "freed" /\ mDeviceHandle = 0

IInv == HandlesAccounted /\ Positions /\ FreedByFailure

-----------------------------------------------------------------------------

\* At the beginning no list was taken and no device opened.
LEMMA InitIInv == Init => IInv
BY StartupAssumption DEF Init, Device!Init, IInv, HandlesAccounted, Positions,
                         FreedByFailure

\* Each way a device of the list can turn out.
LEMMA OpenStepIInv == IInv /\ Device!OpenStep => IInv'
<1> SUFFICES ASSUME IInv, Device!OpenStep PROVE IInv'
  OBVIOUS
<1> USE StartupAssumption
    DEF IInv, HandlesAccounted, Positions, FreedByFailure, Device!Failure,
        Device!Walking, Device!FreeDeviceList, Device!NextDevice
<1>1. CASE Device!GetDeviceList
  BY <1>1 DEF Device!GetDeviceList
<1>2. CASE Device!UseFreedList
  BY <1>2 DEF Device!UseFreedList
<1>3. CASE Device!QueryFails
  BY <1>3 DEF Device!QueryFails
<1>4. CASE Device!NotMatching
  BY <1>4 DEF Device!NotMatching
<1>5. CASE Device!OpenFails
  BY <1>5 DEF Device!OpenFails
<1>6. CASE Device!ClaimFails
  BY <1>6 DEF Device!ClaimFails
<1>7. CASE Device!Claim
  BY <1>7 DEF Device!Claim
<1>8. CASE Device!Return
  BY <1>8 DEF Device!Return
<1>9. QED
  BY <1>1, <1>2, <1>3, <1>4, <1>5, <1>6, <1>7, <1>8 DEF Device!OpenStep

\* Between two walks only the calls that may fail are counted.
LEMMA BetweenIInv ==
    IInv /\ (LoadFromFile \/ OpenConnection \/ Device!Call \/ Replug \/ Done
             \/ UNCHANGED deviceVars) => IInv'
<1> SUFFICES ASSUME IInv,
                    \/ LoadFromFile \/ OpenConnection \/ Device!Call \/ Replug \/ Done
                    \/ UNCHANGED deviceVars
             PROVE  IInv'
  OBVIOUS
<1> USE StartupAssumption
    DEF IInv, HandlesAccounted, Positions, FreedByFailure, Device!Failure,
        deviceVars
<1>1. CASE LoadFromFile \/ Done \/ UNCHANGED deviceVars
  BY <1>1 DEF LoadFromFile, LoadLine, LoadEnds, Done, vars
<1>2. CASE OpenConnection
  BY <1>2 DEF OpenConnection
<1>3. CASE Device!Call
  BY <1>3 DEF Device!Call
<1>4. CASE Replug
  BY <1>4 DEF Replug, Device!Replug
<1>5. QED
  BY <1>1, <1>2, <1>3, <1>4

\* IInv holds in every reachable state of the start.
THEOREM Invariance == Spec => []IInv
<1>1. IInv /\ [Next]_vars => IInv'
  BY OpenStepIInv, BetweenIInv DEF Next, OpenDevice, vars
<1>2. QED
  BY InitIInv, <1>1, PTL DEF Spec

\* HandlesAccounted: every handle Open opened on its way is closed, but the one
\* it returns.
THEOREM NoHandleLost == Spec => []HandlesAccounted
<1>1. IInv => HandlesAccounted
  BY DEF IInv
<1>2. QED
  BY <1>1, Invariance, PTL

\* FreedListUnused: the frees inside Open's loop harm nobody as long as libusb
\* answers; the loop is left right after the success that freed the list.
THEOREM FreedOnlyAfterFailure == Spec => []FreedListUnused
<1>1. IInv => FreedListUnused
  BY DEF IInv, FreedByFailure, FreedListUnused
<1>2. QED
  BY <1>1, Invariance, PTL

-----------------------------------------------------------------------------
(* The settings.                                                           *)

Line == [option : STRING, result : Texts \cup {"none"}]

FileOK(aFile) == aFile \in [lines : Seq(Line), ended : BOOLEAN]

\* What an option may be set to.
ValuesOf(option) ==
    IF option = "LogLevel" THEN ToSet(cLevelTexts)
    ELSE IF option \in NumberOptions THEN DOMAIN to_string
    ELSE Texts

Settings == {values \in [Options -> UNION {ValuesOf(option) : option \in Options}] :
                \A option \in Options : values[option] \in ValuesOf(option)}

\* Why SettingsAsConfigured holds: at every line the settings are what a reader
\* of the lines before it expects.
LoadInv ==
    /\ FileOK(file)
    /\ settings \in Settings
    /\ linesRead \in Nat
    /\ main = "load" =>
          /\ linesRead <= LineCount(file)
          /\ \A option \in Options :
                settings[option] = ConfiguredBy(file.lines, linesRead, option)

\* There are eight options: a level, two texts and five numbers.
LEMMA OptionFacts ==
    /\ DOMAIN OptionNames = 1..8
    /\ Options = NumberOptions \cup {"LogLevel", "XLinkIp", "XLinkPort"}
    /\ "LogLevel" \notin NumberOptions
    /\ "XLinkIp" \notin NumberOptions
    /\ "XLinkPort" \notin NumberOptions
    /\ \A option \in Options : \E i \in 1..8 : OptionNames[i] = option
    /\ \A i \in 1..8 : OptionNames[i] \in Options
    /\ \A i, j \in 1..8 : OptionNames[i] = OptionNames[j] => i = j
<1>1. OptionNames = <<"LogLevel", "XLinkIp", "XLinkPort", "MaxBuffer",
                      "MaxRetriesAfterFatalError", "MaxRetriesWhenReadWriteFailed",
                      "MaxReadTimeoutMS", "MaxWriteTimeoutMS">>
  BY DEF OptionNames
<1>2. DOMAIN OptionNames = 1..8
  BY <1>1
<1>3. Options = {OptionNames[i] : i \in 1..8}
  BY <1>2 DEF Options, ToSet
<1>4. \A i \in 1..8 : i = 1 \/ i = 2 \/ i = 3 \/ i = 4 \/ i = 5 \/ i = 6 \/ i = 7 \/ i = 8
  OBVIOUS
<1>5. Options = {"LogLevel", "XLinkIp", "XLinkPort", "MaxBuffer",
                 "MaxRetriesAfterFatalError", "MaxRetriesWhenReadWriteFailed",
                 "MaxReadTimeoutMS", "MaxWriteTimeoutMS"}
  BY <1>1, <1>3, <1>4
<1>6. \A i, j \in 1..8 : OptionNames[i] = OptionNames[j] => i = j
  BY <1>1, <1>4
<1> QED
  BY <1>2, <1>3, <1>5, <1>6 DEF NumberOptions

\* The last of the five levels of a set.
LEMMA LastLevel ==
    ASSUME NEW found \in SUBSET (1..5), found # {}
    PROVE  Max(found) \in found
<1>1. \E last \in found : \A i \in found : last >= i
  <2>1. CASE 5 \in found
    BY <2>1
  <2>2. CASE 5 \notin found /\ 4 \in found
    BY <2>2
  <2>3. CASE 5 \notin found /\ 4 \notin found /\ 3 \in found
    BY <2>3
  <2>4. CASE 5 \notin found /\ 4 \notin found /\ 3 \notin found /\ 2 \in found
    BY <2>4
  <2>5. CASE 5 \notin found /\ 4 \notin found /\ 3 \notin found /\ 2 \notin found
    <3>1. \A i \in 1..5 : i = 1 \/ i = 2 \/ i = 3 \/ i = 4 \/ i = 5
      OBVIOUS
    <3>2. \A i \in found : i = 1
      BY <2>5, <3>1
    <3>3. PICK last \in found : TRUE
      OBVIOUS
    <3> QED
      BY <3>2, <3>3
  <2> QED
    BY <2>1, <2>2, <2>3, <2>4, <2>5
<1> QED
  BY <1>1 DEF Max

\* A text becomes one of the levels, and a level's name that level again.
LEMMA LevelOK ==
    ASSUME NEW text \in Texts
    PROVE  /\ ConvertLogLevelStringToLevel(text) \in ToSet(cLevelTexts)
           /\ text \in ToSet(cLevelTexts) => ConvertLogLevelStringToLevel(text) = text
<1> DEFINE found == {i \in 1..Len(cLevelTexts) : cLevelTexts[i] \in find[text]}
<1>1. /\ DOMAIN cLevelTexts = 1..5 /\ Len(cLevelTexts) = 5
      /\ \A i, j \in 1..5 : cLevelTexts[i] = cLevelTexts[j] => i = j
      /\ "Info" = cLevelTexts[3]
  <2>1. \A i \in 1..5 : i = 1 \/ i = 2 \/ i = 3 \/ i = 4 \/ i = 5
    OBVIOUS
  <2> QED
    BY <2>1 DEF cLevelTexts
<1>2. ToSet(cLevelTexts) = {cLevelTexts[i] : i \in 1..5}
  BY <1>1 DEF ToSet
<1>3. ConvertLogLevelStringToLevel(text) =
          IF found = {} THEN "Info" ELSE cLevelTexts[Max(found)]
  <2>1. Defaults["LogLevel"] = "Info"
    BY OptionFacts DEF Defaults
  <2>2. found # {} => Max(found) # 0
    BY <1>1, LastLevel
  <2> QED
    BY <2>1, <2>2 DEF ConvertLogLevelStringToLevel, SelectLastInSeq
<1>4. found # {} => Max(found) \in found
  BY <1>1, LastLevel
<1>5. ASSUME text \in ToSet(cLevelTexts)
      PROVE  found # {} /\ \A i \in found : cLevelTexts[i] = text
  BY <1>1, <1>2, <1>5, TextAssumption
<1> HIDE DEF found
<1> QED
  BY <1>1, <1>2, <1>3, <1>4, <1>5 DEF found

\* What a line sets its option to is something the option may be set to.
LEMMA ValueOK ==
    ASSUME NEW line \in Line, Readable(line)
    PROVE  line.option \in Options /\ Value(line) \in ValuesOf(line.option)
<1>1. line.option \in Options /\ line.result \in Texts
  BY DEF Readable, Line
<1>2. CASE line.option = "LogLevel"
  BY <1>1, <1>2, OptionFacts, LevelOK DEF Value, ValuesOf
<1>3. CASE line.option \in NumberOptions
  BY <1>3, OptionFacts, TextAssumption DEF Value, ValuesOf, Readable
<1>4. CASE line.option # "LogLevel" /\ line.option \notin NumberOptions
  BY <1>1, <1>4 DEF Value, ValuesOf
<1> QED
  BY <1>1, <1>2, <1>3, <1>4

\* One line more.
LEMMA ConfiguredStep ==
    ASSUME NEW lines \in Seq(Line), NEW count \in Nat, count < Len(lines),
           NEW option
    PROVE  ConfiguredBy(lines, count + 1, option) =
               IF lines[count + 1].option = option /\ Readable(lines[count + 1])
               THEN Value(lines[count + 1]) ELSE ConfiguredBy(lines, count, option)
<1> DEFINE Sets(line) == line.option = option /\ Readable(line)
           before == {i \in 1..count : Sets(lines[i])}
           after  == {i \in 1..(count + 1) : Sets(lines[i])}
<1>1. /\ ConfiguredBy(lines, count, option) =
             (LET last == IF before # {} THEN Max(before) ELSE 0
              IN  IF last = 0 THEN Defaults[option] ELSE Value(lines[last]))
      /\ ConfiguredBy(lines, count + 1, option) =
             (LET last == IF after # {} THEN Max(after) ELSE 0
              IN  IF last = 0 THEN Defaults[option] ELSE Value(lines[last]))
  BY DEF ConfiguredBy, SelectLastInSubSeq
<1>2. CASE Sets(lines[count + 1])
  <2>1. count + 1 \in after /\ \A i \in after : count + 1 >= i
    BY <1>2
  <2>2. \A i \in after : (\A j \in after : i >= j) => i = count + 1
    BY <2>1
  <2>3. Max(after) = count + 1
    BY <2>1, <2>2 DEF Max
  <2> QED
    BY <1>1, <1>2, <2>1, <2>3
<1>3. CASE ~Sets(lines[count + 1])
  <2>1. after = before
    BY <1>3
  <2> QED
    BY <1>1, <1>3, <2>1
<1> QED
  BY <1>2, <1>3

\* A file has as many lines to be read as it has, or one less.
LEMMA LineCountOK ==
    ASSUME NEW aFile, FileOK(aFile)
    PROVE  LineCount(aFile) \in 0..Len(aFile.lines)
BY DEF FileOK, LineCount

\* The defaults are values.
LEMMA DefaultsOK == Defaults \in Settings
<1>1. ASSUME NEW option \in Options
      PROVE  Defaults[option] \in ValuesOf(option)
  <2>1. CASE option = "LogLevel"
    <3>1. DOMAIN cLevelTexts = 1..5 /\ cLevelTexts[3] = "Info"
      BY DEF cLevelTexts
    <3>2. "Info" \in ToSet(cLevelTexts)
      BY <3>1 DEF ToSet
    <3> QED
      BY <2>1, <3>2, OptionFacts DEF Defaults, ValuesOf
  <2>2. CASE option \in NumberOptions
    BY <2>2, OptionFacts, TextAssumption DEF ValuesOf
  <2>3. CASE option \in {"XLinkIp", "XLinkPort"}
    BY <2>3, OptionFacts, TextAssumption DEF ValuesOf
  <2> QED
    BY <2>1, <2>2, <2>3, OptionFacts
<1>2. Defaults = [option \in Options |-> Defaults[option]]
  BY DEF Defaults
<1> QED
  BY <1>1, <1>2 DEF Settings

\* One line changes at most its own option.
LEMMA ReadLineOK ==
    ASSUME NEW values \in Settings, NEW line \in Line
    PROVE  /\ ReadLine(values, line) \in Settings
           /\ \A option \in Options :
                 ReadLine(values, line)[option] =
                     IF line.option = option /\ Readable(line) THEN Value(line)
                                                              ELSE values[option]
<1>1. CASE Readable(line)
  <2>1. line.option \in Options /\ Value(line) \in ValuesOf(line.option)
    BY <1>1, ValueOK
  <2>2. ReadLine(values, line) =
            [option \in Options |-> IF option = line.option THEN Value(line)
                                                           ELSE values[option]]
    BY <1>1 DEF ReadLine, Settings
  <2>3. \A option \in Options :
            ReadLine(values, line)[option] \in ValuesOf(option)
    BY <2>1, <2>2 DEF Settings
  <2> QED
    BY <1>1, <2>2, <2>3 DEF Settings
<1>2. CASE ~Readable(line)
  BY <1>2 DEF ReadLine
<1> QED
  BY <1>1, <1>2

\* A file that does not exist has no lines.
LEMMA NoFileOK == FileOK(NoFile) /\ LineCount(NoFile) = 0
BY DEF FileOK, NoFile, LineCount

\* Before the first line the defaults are what a reader expects.
LEMMA InitLoadInv == Init => LoadInv
<1> SUFFICES ASSUME Init PROVE LoadInv
  OBVIOUS
<1>1. FileOK(file)
  BY NoFileOK, StartupAssumption DEF Init, FileOK, Line
<1>2. linesRead = 0 /\ settings = Defaults
  BY DEF Init
<1>3. \A option \in Options : ConfiguredBy(file.lines, 0, option) = Defaults[option]
  BY DEF ConfiguredBy, SelectLastInSubSeq
<1>4. 0 <= LineCount(file)
  BY <1>1, LineCountOK
<1> QED
  BY <1>1, <1>2, <1>3, <1>4, DefaultsOK DEF LoadInv

\* Nothing but LoadFromFile's steps touches the file or the settings.
LEMMA LoadStep == LoadInv /\ [Next]_vars => LoadInv'
<1> SUFFICES ASSUME LoadInv, [Next]_vars PROVE LoadInv'
  OBVIOUS
<1>1. CASE LoadLine
  <2> DEFINE line == file.lines[linesRead + 1]
  <2>1. /\ file.lines \in Seq(Line) /\ linesRead \in Nat
        /\ linesRead < Len(file.lines) /\ linesRead + 1 <= LineCount(file)
    <3>1. file.lines \in Seq(Line) /\ LineCount(file) \in 0..Len(file.lines)
      BY LineCountOK DEF LoadInv, FileOK
    <3>2. linesRead \in Nat /\ linesRead < LineCount(file)
      BY <1>1 DEF LoadLine, LoadInv
    <3>3. Len(file.lines) \in Nat
      BY <3>1
    <3> QED
      BY <3>1, <3>2, <3>3
  <2>2. line \in Line
    BY <2>1
  <2>3. /\ main = "load"
        /\ settings' = ReadLine(settings, line)
        /\ linesRead' = linesRead + 1
        /\ UNCHANGED <<file, main>>
    BY <1>1 DEF LoadLine
  <2>4. settings \in Settings
    BY DEF LoadInv
  <2>5. ASSUME NEW option \in Options
        PROVE  settings'[option] = ConfiguredBy(file.lines, linesRead + 1, option)
    <3>1. settings[option] = ConfiguredBy(file.lines, linesRead, option)
      BY <2>3 DEF LoadInv
    <3>2. settings'[option] = IF line.option = option /\ Readable(line)
                              THEN Value(line) ELSE settings[option]
      BY <2>2, <2>3, <2>4, ReadLineOK
    <3>3. ConfiguredBy(file.lines, linesRead + 1, option) =
              IF line.option = option /\ Readable(line)
              THEN Value(line) ELSE ConfiguredBy(file.lines, linesRead, option)
      BY <2>1, ConfiguredStep
    <3> QED
      BY <3>1, <3>2, <3>3
  <2>6. settings' \in Settings
    BY <2>2, <2>3, <2>4, ReadLineOK
  <2>7. FileOK(file)
    BY DEF LoadInv
  <2> QED
    BY <2>1, <2>3, <2>5, <2>6, <2>7 DEF LoadInv
<1>2. CASE LoadEnds
  BY <1>2, NoFileOK DEF LoadEnds, LoadInv
<1>3. CASE UNCHANGED <<file, linesRead, settings>> /\ (main' = "load" => main = "load")
  BY <1>3 DEF LoadInv
<1>4. CASE OpenConnection
  BY <1>3, <1>4 DEF OpenConnection
<1>5. CASE OpenDevice
  BY <1>3, <1>5 DEF OpenDevice, TurnEnds
<1>6. CASE Replug \/ Done \/ UNCHANGED vars
  BY <1>3, <1>6 DEF Replug, Done, vars
<1> QED
  BY <1>1, <1>2, <1>4, <1>5, <1>6 DEF Next, LoadFromFile

\* So it is at every moment.
THEOREM LoadInvariance == Spec => []LoadInv
BY InitLoadInv, LoadStep, PTL DEF Spec

\* SettingsAsConfigured: LoadFromFile's one pass over the lines, in which each
\* line may overwrite or leave alone what was set, ends with the last readable
\* line of every option, for any file.
THEOREM LoadedAsConfigured == Spec => SettingsAsConfigured
<1>1. ASSUME LoadInv, [Next]_vars, main = "load", main' # "load"
      PROVE  \A option \in Options : settings'[option] = Configured(file, option)
  <2>1. LoadEnds
    BY <1>1 DEF Next, LoadFromFile, LoadLine, OpenConnection, OpenDevice, Replug,
       Done, vars
  <2> QED
    BY <1>1, <2>1 DEF LoadEnds, LoadInv, Configured
<1>2. LoadInv /\ [Next]_vars =>
          [main = "load" /\ main' # "load" =>
              \A option \in Options : settings'[option] = Configured(file, option)]_vars
  BY <1>1
<1> QED
  BY <1>2, LoadInvariance, PTL DEF Spec, SettingsAsConfigured

-----------------------------------------------------------------------------
(* What was saved.                                                         *)

\* The file that SaveToFile writes has one line for each option, and each is
\* read as what the option was.
LEMMA SavedIsConfigured ==
    ASSUME NEW values \in Settings, NEW option \in Options
    PROVE  Configured(SaveToFile(values), option) = values[option]
<1> DEFINE saved == SaveToFile(values)
           Sets(line) == line.option = option /\ Readable(line)
           found == {i \in 1..8 : Sets(saved.lines[i])}
<1>1. /\ saved.ended = TRUE
      /\ saved.lines = [i \in 1..8 |-> [option |-> OptionNames[i],
                                       result |-> SavedText(values, OptionNames[i])]]
  BY OptionFacts DEF SaveToFile
<1>2. Len(saved.lines) = 8
  BY <1>1
<1>3. PICK at \in 1..8 : OptionNames[at] = option
  BY OptionFacts
<1>4. SavedText(values, option) \in Texts
  BY OptionFacts, TextAssumption
     DEF SavedText, Settings, ValuesOf, ConvertLogLevelToString
<1>5. Readable(saved.lines[at]) /\ Value(saved.lines[at]) = values[option]
  <2>1. saved.lines[at] = [option |-> option, result |-> SavedText(values, option)]
    BY <1>1, <1>3
  <2>2. SavedText(values, option) # "none"
    BY <1>4, TextAssumption
  <2>3. values[option] \in ValuesOf(option)
    BY DEF Settings
  <2>4. CASE option = "LogLevel"
    <3>1. SavedText(values, option) = values[option]
      BY <2>4, OptionFacts DEF SavedText, ConvertLogLevelToString
    <3>2. values[option] \in ToSet(cLevelTexts)
      BY <2>3, <2>4 DEF ValuesOf
    <3> QED
      BY <1>4, <2>1, <2>2, <2>4, <3>1, <3>2, LevelOK, OptionFacts DEF Readable, Value
  <2>5. CASE option \in NumberOptions
    <3>1. SavedText(values, option) = to_string[values[option]]
      BY <2>5, OptionFacts DEF SavedText
    <3>2. values[option] \in DOMAIN to_string
      BY <2>3, <2>5, OptionFacts DEF ValuesOf
    <3> QED
      BY <2>1, <2>2, <2>5, <3>1, <3>2, OptionFacts, TextAssumption DEF Readable, Value
  <2>6. CASE option \in {"XLinkIp", "XLinkPort"}
    BY <2>1, <2>2, <2>6, OptionFacts DEF Readable, Value, SavedText
  <2> QED
    BY <2>4, <2>5, <2>6, OptionFacts
<1>6. found = {at}
  BY <1>1, <1>3, <1>5, OptionFacts
<1>7. Max(found) = at
  BY <1>6 DEF Max
<1>8. Configured(saved, option) =
          (LET last == IF found # {} THEN Max(found) ELSE 0
           IN  IF last = 0 THEN Defaults[option] ELSE Value(saved.lines[last]))
  <2>1. LineCount(saved) = 8
    BY <1>1, <1>2 DEF LineCount
  <2> HIDE DEF saved
  <2>2. Configured(saved, option) = ConfiguredBy(saved.lines, 8, option)
    BY <2>1 DEF Configured
  <2> QED
    BY <2>2 DEF ConfiguredBy, SelectLastInSubSeq
<1>9. found # {} /\ at # 0
  BY <1>6
<1> HIDE DEF found, saved
<1> QED
  BY <1>5, <1>7, <1>8, <1>9 DEF saved

\* RoundTrip: whatever the settings are, the file they are saved to says so.
THEOREM SavedAsTheyAre == Spec => []RoundTrip
<1>1. LoadInv => RoundTrip
  BY SavedIsConfigured DEF LoadInv, RoundTrip
<1> QED
  BY <1>1, LoadInvariance, PTL

\* A program that finds the file another one has saved starts with the settings
\* of that one.
THEOREM SavedSettingsComeBack ==
    ASSUME NEW saved \in Settings
    PROVE  Spec /\ file = SaveToFile(saved) => [](main # "load" => settings = saved)
<1> DEFINE Back == IF main = "load" THEN file = SaveToFile(saved) ELSE settings = saved
<1>1. Init /\ file = SaveToFile(saved) => Back
  BY DEF Init
<1>2. ASSUME LoadInv, Back, [Next]_vars
      PROVE  Back'
  <2>1. CASE LoadEnds
    <3>1. \A option \in Options : settings[option] = saved[option]
      BY <1>2, <2>1, SavedIsConfigured DEF LoadEnds, LoadInv, Configured
    <3>2. settings = saved
      BY <1>2, <3>1 DEF LoadInv, Settings
    <3> QED
      BY <2>1, <3>2 DEF LoadEnds
  <2>2. CASE ~LoadEnds /\ main = "load"
    BY <1>2, <2>2 DEF Next, LoadFromFile, LoadLine, OpenConnection, OpenDevice,
       Replug, Done, vars
  <2>3. CASE main # "load"
    <3>1. UNCHANGED settings /\ main' # "load"
      BY <1>2, <2>3 DEF Next, LoadFromFile, LoadLine, LoadEnds, OpenConnection,
         OpenDevice, TurnEnds, Replug, Done, vars
    <3> QED
      BY <1>2, <2>3, <3>1
  <2> QED
    BY <2>1, <2>2, <2>3
<1>3. Back => (main # "load" => settings = saved)
  OBVIOUS
<1> QED
  BY <1>1, <1>2, <1>3, LoadInvariance, PTL DEF Spec
=============================================================================
