-------------------------- MODULE MCConfiguration ---------------------------
(* Texts and files for TLC.  "1e+10" is how a float of that size is
   printed; stoi reads the 1.  "2" is how the float 2.0 is printed.  " 12"
   loses its blank when it is read, and "x\n[SYSTEM]" makes a header.  In the
   line of the key "log=level" the key "log" is read.  Of the two
   hand-written files one has a number without a point for a float.

   A raw line stands here as the key and the text that make it, a header as
   its category after "[", and a line without a '=' after "-".             *)
EXTENDS Configuration

MCText == {"", "0", "1", "2", "3", "0.5", "1.1", "1.", "1e+10", "true", "false", "tr", "12 fps", "12",
           " 12", "x", "x\n[SYSTEM]", "level = .."}

MCHasPoint == {"0.5", "1.1", "1."}

MCStoI == [t \in MCText |->
  CASE t \in {"0", "1", "2", "3", "12"} -> t
    [] t = "0.5"                  -> "0"
    [] t \in {"1.1", "1.", "1e+10"} -> "1"
    [] t \in {"12 fps", " 12"}    -> "12"
    [] OTHER                      -> Fails]

MCStoF == [t \in MCText |->
  CASE t \in {"0", "1", "2", "3", "12", "0.5", "1.1", "1e+10"} -> t
    [] t = "1."                   -> "1"
    [] t \in {"12 fps", " 12"}    -> "12"
    [] OTHER                      -> Fails]

MCCategoryOrder == <<"DETECTION", "SYSTEM">>
MCKeyOrder      == <<"hitThreshold", "log", "log=level", "minNeighbors", "name", "scaleFactor">>

Keys == ToSet(MCKeyOrder)
Skipped == <<"-", "">>

MCRawLine == (Keys \X MCText) \cup {<<"[", c>> : c \in ToSet(MCCategoryOrder)} \cup {Skipped}

MCHeaderLine == [c \in ToSet(MCCategoryOrder) |-> <<"[", c>>]

MCEntryLines == [k \in Keys |-> [t \in MCText |->
  IF t = "x\n[SYSTEM]" THEN <<<<k, "x">>, <<"[", "SYSTEM">>>> ELSE <<<<k, t>>>>]]

MCRead == [line \in MCRawLine |->
  CASE line = Skipped           -> [kind |-> "skipped"]
    [] line[1] = "["            -> [kind |-> "header", name |-> line[2]]
    [] line[1] = "log=level"    -> [kind |-> "entry", key |-> "log", text |-> "level = .."]
    [] line[2] = " 12"          -> [kind |-> "entry", key |-> line[1], text |-> "12"]
    [] OTHER                    -> [kind |-> "entry", key |-> line[1], text |-> line[2]]]

CutTexts(t) ==
  CASE t = "1.1" -> {"", "1", "1."}
    [] t = "1e+10" -> {"", "1"}
    [] t = "true" -> {"", "tr"}
    [] t = "12 fps" -> {"", "1", "12"}
    [] t = " 12" -> {"", "1"}
    [] OTHER -> {""}

MCCutShort == [line \in MCRawLine |->
  {Skipped} \cup IF line[1] \in Keys THEN {<<line[1], t>> : t \in CutTexts(line[2])} ELSE {}]

MCParameters == {[hitThreshold |-> "0.5", scaleFactor |-> "1e+10", minNeighbors |-> "3"],
                 [hitThreshold |-> "0", scaleFactor |-> "1.1", minNeighbors |-> "2"]}

Edit(c, k, type, t) == [category |-> c, key |-> k, value |-> [type |-> type, text |-> t]]

MCEdits == {Edit("SYSTEM", "name", "STRING", "12 fps"), Edit("DETECTION", "name", "BOOLEAN", "true"),
            Edit("DETECTION", "log", "STRING", " 12"), Edit("SYSTEM", "log=level", "BOOLEAN", "true"),
            Edit("DETECTION", "name", "STRING", "x\n[SYSTEM]")}

MCUserFiles ==
  {<<>>,
   <<<<"name", "true">>, <<"[", "DETECTION">>, <<"scaleFactor", "2">>, Skipped, <<"minNeighbors", "tr">>>>}
=============================================================================
