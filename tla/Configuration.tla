--------------------------- MODULE Configuration ----------------------------
(***************************************************************************)
(* The configuration manager (Common/src/ConfigurationManager.cpp) and the *)
(* algorithm that keeps its parameters in it (configure, initializeHOG and *)
(* the constructor in Detection/src/HOGDetectionAlgorithm.cpp).  One       *)
(* thread owns the algorithm, another one loads, saves and edits the       *)
(* configuration; the program may be killed at any moment, also while the  *)
(* file is being written.                                                  *)
(*                                                                         *)
(* A text is known by what the program can tell about it: whether it has a *)
(* point, and what stoi and stof make of it (the text of the number, or    *)
(* Fails).  A value is its type with the text that saveToFile writes for   *)
(* it.                                                                     *)
(*                                                                         *)
(* The file consists of raw lines.  What saveToFile writes for a header or *)
(* an entry, and what loadFromFile reads in a line, are two tables, so     *)
(* that nothing says that one undoes the other: keys and texts are written *)
(* as they are, and a line is trimmed, tested for a comment and a header   *)
(* and split at its first '='.                                             *)
(***************************************************************************)
EXTENDS Naturals, Sequences, SequencesExt, FiniteSets, Functions

CONSTANTS
  Text,           (* The texts.                                            *)
  Fails,          (* The result of stoi and stof when they throw.          *)
  HasPoint,       (* The texts with a '.' in them.                         *)
  StoI, StoF,     (* The number that the beginning of a text stands for.   *)
  RawLine,        (* The lines of a file, as they stand there.             *)
  HeaderLine,     (* The line "[c]" of each category c.                    *)
  EntryLines,     (* The lines that "k = t" makes for a key k and a text t:*)
                  (* more than one if there is a newline in them.          *)
  Read,           (* What loadFromFile reads in a line.                    *)
  CutShort,       (* What can be left of a line whose writing was cut off. *)
  CategoryOrder,  (* The categories, as std::map orders them.              *)
  KeyOrder,       (* The keys, as std::map orders them.                    *)
  Parameters,     (* Bound: what configure is called with.                 *)
  Edits,          (* Bound: the values that setValue is called with.       *)
  UserFiles,      (* Bound: the file that the first run finds.             *)
  MaxOps          (* Bound: operations, restarts included.                 *)

Category == ToSet(CategoryOrder)
Key      == ToSet(KeyOrder)
Param    == <<"hitThreshold", "scaleFactor", "minNeighbors">>
Default  == [hitThreshold |-> "0.5", scaleFactor |-> "1.1", minNeighbors |-> "3"]

Value == [type : {"INTEGER", "FLOAT", "BOOLEAN", "STRING"}, text : Text]

(* What is read in a line: nothing, the category that stringToCategory
   makes of a header, or an entry.                                         *)
Line == [kind : {"skipped"}] \cup [kind : {"header"}, name : Category]
          \cup [kind : {"entry"}, key : Key, text : Text]

ASSUME ConfigurationAssumption ==
  /\ HasPoint \subseteq Text /\ {"true", "false", "0"} \cup Range(Default) \subseteq Text
  /\ StoI \in [Text -> Text \cup {Fails}] /\ StoF \in [Text -> Text \cup {Fails}]
  /\ Read \in [RawLine -> Line] /\ CutShort \in [RawLine -> SUBSET RawLine]
  /\ HeaderLine \in [Category -> RawLine] /\ EntryLines \in [Key -> [Text -> Seq(RawLine)]]
  /\ \A c \in Category : /\ Read[HeaderLine[c]] = [kind |-> "header", name |-> c]
                         /\ \A rest \in CutShort[HeaderLine[c]] : Read[rest].kind # "entry"
  /\ \A line \in RawLine : \A rest \in CutShort[line] :
       Read[line].kind = "entry" /\ Read[rest].kind = "entry" => Read[rest].key = Read[line].key
  /\ CategoryOrder \in Seq(Category) /\ {"DETECTION", "SYSTEM"} \subseteq Category
  /\ KeyOrder \in Seq(Key) /\ Range(Param) \subseteq Key
  /\ Parameters \subseteq [Range(Param) -> Text] /\ UserFiles \subseteq Seq(RawLine)
  /\ Edits \subseteq [category : Category, key : Key, value : Value]
  /\ MaxOps \in Nat

VARIABLES
  conf,        (* m_configuration: the values of each category by key.     *)
  file,        (* The lines of the configuration file.                     *)
  configMutex, (* "save" while saveToFile runs, else "free".               *)
  toWrite,     (* The lines that saveToFile has not written yet.           *)
  hog,         (* m_config of the algorithm, the number of each parameter. *)
  doing,       (* The algorithm: "idle", "configure" or "initialize".      *)
  parameter,   (* The one that it stores or fetches next, by its place.    *)
  saved,       (* History: the configuration of the last saveToFile.       *)
  complete,    (* History: "user" before the first save, "no" until the    *)
               (* last one has written everything, then "yes".             *)
  ops          (* The operations so far.                                   *)

managerVars       == <<conf, file, configMutex, toWrite, saved, complete>>
hogVars           == <<hog, doing, parameter>>
configurationVars == <<managerVars, hogVars, ops>>

Operation == ops < MaxOps /\ ops' = ops + 1

Put(c, k, v) == [conf EXCEPT ![c] = [x \in DOMAIN @ \cup {k} |-> IF x = k THEN v ELSE @[x]]]

Empty == [c \in Category |-> <<>>]

-----------------------------------------------------------------------------
(* How loadFromFile makes a value of a text.                               *)

(* Mutant: the exceptions of stoi and stof do not lead to a string.        *)
ParsedUnchecked(t) ==
  IF t \in {"true", "false"} THEN [type |-> "BOOLEAN", text |-> t]
  ELSE IF t \in HasPoint THEN [type |-> "FLOAT", text |-> StoF[t]]
  ELSE [type |-> "INTEGER", text |-> StoI[t]]

Parsed(t) ==
  CASE t \in {"true", "false"}                  -> [type |-> "BOOLEAN", text |-> t]
    [] t \in HasPoint /\ StoF[t] # Fails        -> [type |-> "FLOAT",   text |-> StoF[t]]
    [] t \notin HasPoint /\ StoI[t] # Fails     -> [type |-> "INTEGER", text |-> StoI[t]]
    [] OTHER                                    -> [type |-> "STRING",  text |-> t]

(* The members of ConfigValue that the constructor of another type zeroes. *)
FloatValue(v) == IF v.type = "FLOAT" THEN v.text ELSE "0"
IntValue(v)   == IF v.type = "INTEGER" THEN v.text ELSE "0"

(* loadFromFile: entries go to the category of the last header, SYSTEM
   before the first one; what the configuration has besides them stays.    *)
CategoryAt(lines, i) ==
  LET headers == {j \in 1 .. i : lines[j].kind = "header"}
  IN  IF headers = {} THEN "SYSTEM"
      ELSE lines[CHOOSE j \in headers : \A h \in headers : h <= j].name

LinesRead(raw) == [i \in DOMAIN raw |-> Read[raw[i]]]

EntriesOf(lines) ==
  [c \in Category |-> [k \in Key |->
     {i \in DOMAIN lines : lines[i].kind = "entry" /\ lines[i].key = k /\ CategoryAt(lines, i) = c}]]

LoadedBy(entries) ==
  [c \in Category |->
     [k \in DOMAIN conf[c] \cup {x \in Key : entries[c][x] # {}} |->
        IF entries[c][k] = {} THEN conf[c][k]
        ELSE Parsed(Read[file[CHOOSE i \in entries[c][k] : \A j \in entries[c][k] : j <= i]].text)]]

(* saveToFile: the categories with their keys, in the order of the maps.
   The header of a category without keys is left out: it says nothing.     *)
SectionOf(c, values) ==
  IF DOMAIN values = {} THEN <<>>
  ELSE <<HeaderLine[c]>> \o
       FlattenSeq([n \in DOMAIN KeyOrder |->
         LET k == KeyOrder[n] IN IF k \in DOMAIN values THEN EntryLines[k][values[k].text] ELSE <<>>])

LinesOf(configuration) ==
  FlattenSeq([i \in DOMAIN CategoryOrder |->
                SectionOf(CategoryOrder[i], configuration[CategoryOrder[i]])])

-----------------------------------------------------------------------------
(* The operations of the manager: each locks m_configMutex.                *)

Load(entries) ==
  /\ Operation /\ configMutex = "free"
  /\ conf' = LoadedBy(entries)
  /\ UNCHANGED <<file, configMutex, toWrite, saved, complete, hogVars>>

(* Mutant: the headers are skipped.                                        *)
LoadFromFileFlat ==
  Load([c \in Category |-> [k \in Key |->
          {i \in DOMAIN file : c = "SYSTEM" /\ Read[file[i]].kind = "entry" /\ Read[file[i]].key = k}]])

LoadFromFile == Load(EntriesOf(LinesRead(file)))

(* Opening the file truncates it.                                          *)
SaveBegin ==
  /\ Operation /\ configMutex = "free"
  /\ configMutex' = "save"
  /\ file' = <<>>
  /\ toWrite' = LinesOf(conf)
  /\ saved' = conf /\ complete' = "no"
  /\ UNCHANGED <<conf, hogVars>>

SaveLine ==
  /\ configMutex = "save" /\ toWrite # <<>>
  /\ file' = Append(file, Head(toWrite))
  /\ toWrite' = Tail(toWrite)
  /\ UNCHANGED <<conf, configMutex, saved, complete, hogVars, ops>>

(* What is left of the line that was being written when writing ended.     *)
Rest(line) == {<<>>} \cup {<<rest>> : rest \in CutShort[line]}

(* A write fails, and the stream takes nothing more: nobody asks it, and
   saveToFile returns RC_SUCCESS.                                          *)
SaveFails ==
  /\ configMutex = "save" /\ toWrite # <<>>
  /\ \E rest \in Rest(Head(toWrite)) : file' = file \o rest
  /\ toWrite' = <<>> /\ configMutex' = "free"
  /\ UNCHANGED <<conf, saved, complete, hogVars, ops>>

SaveEnd ==
  /\ configMutex = "save" /\ toWrite = <<>>
  /\ configMutex' = "free"
  /\ complete' = "yes"
  /\ UNCHANGED <<conf, file, toWrite, saved, hogVars, ops>>

SetValue ==
  /\ Operation /\ configMutex = "free"
  /\ \E e \in Edits : conf' = Put(e.category, e.key, e.value)
  /\ UNCHANGED <<file, configMutex, toWrite, saved, complete, hogVars>>

RemoveKey ==
  /\ Operation /\ configMutex = "free"
  /\ \E e \in Edits :
        /\ e.key \in DOMAIN conf[e.category]
        /\ conf' = [conf EXCEPT ![e.category] = Restrict(@, DOMAIN @ \ {e.key})]
  /\ UNCHANGED <<file, configMutex, toWrite, saved, complete, hogVars>>

Clear ==
  /\ Operation /\ configMutex = "free"
  /\ conf' = Empty
  /\ UNCHANGED <<file, configMutex, toWrite, saved, complete, hogVars>>

-----------------------------------------------------------------------------
(* The algorithm: configure stores its three parameters, initializeHOG
   fetches them, one locked access after the other.                        *)

TypeOfParam(p) == IF p = "minNeighbors" THEN "INTEGER" ELSE "FLOAT"

StepDone ==
  IF parameter = Len(Param) THEN doing' = "idle" /\ parameter' = 1
  ELSE parameter' = parameter + 1 /\ UNCHANGED doing

Configure ==
  /\ Operation /\ doing = "idle"
  /\ hog' \in Parameters
  /\ doing' = "configure" /\ parameter' = 1
  /\ UNCHANGED managerVars

Store(p) == conf' = Put("DETECTION", p, [type |-> TypeOfParam(p), text |-> hog[p]])

(* Mutant: setValue does not lock m_configMutex.                           *)
StoreUnlocked ==
  /\ doing = "configure"
  /\ Store(Param[parameter])
  /\ StepDone
  /\ UNCHANGED <<file, configMutex, toWrite, hog, saved, complete, ops>>

StoreParameter ==
  /\ doing = "configure" /\ configMutex = "free"
  /\ Store(Param[parameter])
  /\ StepDone
  /\ UNCHANGED <<file, configMutex, toWrite, hog, saved, complete, ops>>

(* setHOGConfig                                                            *)
Initialize ==
  /\ Operation /\ doing = "idle"
  /\ doing' = "initialize" /\ parameter' = 1
  /\ UNCHANGED <<managerVars, hog>>

GetValue(c, k, default) == IF k \in DOMAIN conf[c] THEN conf[c][k] ELSE default

Fetched(p) ==
  LET v == GetValue("DETECTION", p, [type |-> TypeOfParam(p), text |-> Default[p]])
  IN  IF TypeOfParam(p) = "INTEGER" THEN IntValue(v) ELSE FloatValue(v)

FetchParameter ==
  /\ doing = "initialize" /\ configMutex = "free"
  /\ hog' = [hog EXCEPT ![Param[parameter]] = Fetched(Param[parameter])]
  /\ StepDone
  /\ UNCHANGED <<managerVars, ops>>

-----------------------------------------------------------------------------
(* The program starts: the configuration is empty, and the constructor of
   the algorithm calls initializeHOG.                                      *)
ConfigurationInit ==
  /\ conf = Empty
  /\ file \in UserFiles
  /\ configMutex = "free" /\ toWrite = <<>>
  /\ hog = Default /\ doing = "initialize" /\ parameter = 1
  /\ saved = Empty /\ complete = "user"
  /\ ops = 0

RestartProgram ==
  /\ Operation
  /\ IF toWrite = <<>> THEN UNCHANGED file
     ELSE \E rest \in Rest(Head(toWrite)) : file' = file \o rest
  /\ conf' = Empty /\ configMutex' = "free" /\ toWrite' = <<>>
  /\ hog' = Default /\ doing' = "initialize" /\ parameter' = 1
  /\ UNCHANGED <<saved, complete>>

ConfigurationNext ==
  \/ LoadFromFile \/ SaveBegin \/ SaveLine \/ SaveFails \/ SaveEnd
  \/ SetValue \/ RemoveKey \/ Clear
  \/ Configure \/ StoreParameter \/ Initialize \/ FetchParameter
  \/ RestartProgram

ConfigurationSpec == ConfigurationInit /\ [][ConfigurationNext]_configurationVars

-----------------------------------------------------------------------------
IsConfiguration(f) ==
  /\ DOMAIN f = Category
  /\ \A c \in Category :
       DOMAIN f[c] \subseteq Key /\ \A k \in DOMAIN f[c] : f[c][k] \in Value

(* Every variable stays in its range.                                      *)
ConfigurationTypeOK ==
  /\ IsConfiguration(conf) /\ IsConfiguration(saved)
  /\ file \in Seq(RawLine) /\ toWrite \in Seq(RawLine)
  /\ configMutex \in {"free", "save"} /\ (toWrite # <<>> => configMutex = "save")
  /\ hog \in [Range(Param) -> Text]
  /\ doing \in {"idle", "configure", "initialize"} /\ parameter \in DOMAIN Param
  /\ complete \in {"user", "no", "yes"} /\ ops \in 0 .. MaxOps

(* saveToFile writes one configuration: what other threads store meanwhile
   has to wait.                                                            *)
OneConfigurationSaved ==
  [][configMutex = "save" /\ configMutex' = "save" => conf' = conf]_configurationVars

Entries(configuration) == {e \in Category \X Key : e[2] \in DOMAIN configuration[e[1]]}

(* A value stands in one line, in which its key is read; and what is read
   there as its text.                                                      *)
Legible(k, v) ==
  LET lines == EntryLines[k][v.text]
  IN  Len(lines) = 1 /\ Read[lines[1]].kind = "entry" /\ Read[lines[1]].key = k

TextRead(k, v) == Read[EntryLines[k][v.text][1]].text

AllLegible(configuration) ==
  \A e \in Entries(configuration) : Legible(e[2], configuration[e[1]][e[2]])

(* A program that starts and loads the file finds the last configuration
   that was saved, as far as the texts tell the values, if each of its
   values can be read at all; after a kill in the middle of the save, or a
   write that failed, it finds nothing else, and one value at most that was
   cut short.                                                              *)
LoadRestoresSaved ==
  [][LoadFromFile /\ conf = Empty /\ complete # "user" /\ AllLegible(saved) =>
       LET cut == {e \in Entries(conf') :
                     /\ e \in Entries(saved)
                     /\ conf'[e[1]][e[2]] # Parsed(TextRead(e[2], saved[e[1]][e[2]]))}
       IN  /\ Entries(conf') \subseteq Entries(saved)
           /\ Cardinality(cut) <= 1
           /\ complete = "yes" => cut = {} /\ Entries(conf') = Entries(saved)]_configurationVars

(* The algorithm loads its configuration from the manager if it is there
   (HOGDetectionAlgorithm.cpp:48): a number stored for a parameter is the
   number it gets.  The code breaks it: a number without a point is loaded
   as an INTEGER, and the float of an INTEGER is 0.                        *)
AlgorithmGetsStoredNumber ==
  [][FetchParameter /\ Param[parameter] \in DOMAIN conf["DETECTION"] =>
       LET v == conf["DETECTION"][Param[parameter]]
       IN  v.type \in {"INTEGER", "FLOAT"} => hog'[Param[parameter]] = v.text]_configurationVars

(* The configuration stays typed, and a save is of one state of it.        *)
SavesAreConsistent == []ConfigurationTypeOK /\ OneConfigurationSaved
=============================================================================
