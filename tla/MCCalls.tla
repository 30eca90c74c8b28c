------------------------------ MODULE MCCalls -------------------------------
(* Small inputs for Calls.  The limits are those of the program, among them  *)
(* the ones at which the number in the marker gains two digits.              *)
EXTENDS Calls

MCLimits ==
  {[max |-> m, omit |-> o, percent |-> p, short |-> {100 * b : b \in 1..9}] :
     m \in {0, 200, 266, 300, 512, 517, 531, 600}, o \in {0, 148, 500}, p \in {5, 55, 80, 95}}

\* The texts a loop of three turns is needed for, and those around a change of
\* the number of digits.
MCLengths == 1..20 \cup 60..70 \cup 85..110 \cup 120..140 \cup 255..275 \cup 330..360
             \cup 990..1005 \cup {9990, 99900}

MCTerms ==
  {"very", "the", "thanks", "that", "is", "function", "make", "sure", "cat", "client"}

MCCollapses == <<"make", "sure">> :> "cat"

MCDictionary ==
  [minimal |-> {"function"}, standard |-> {"function", "very"},
   aggressive |-> {"function", "very", "make"}]

MCWords ==
  {<<Term(t)>> : t \in {"very", "thanks", "that", "is", "function"}}
  \cup {<<Mark(",")>>, <<Ident(1)>>, <<Url(1)>>, <<Ident(2), Slash(1)>>,
        <<Term("the"), Slash(1), Url(2)>>, <<Term("client"), Url(1)>>,
        <<Term("function"), Slash(2)>>, <<Term("thanks"), Url(2), Slash(1)>>,
        <<Url(1), Term("the"), Slash(1), Url(2)>>,
        <<Mark("/"), Term("the")>>, <<Mark("/"), Term("function"), Slash(1)>>,
        <<Mark("/"), Term("thanks")>>, <<Mark("./"), Term("client"), Slash(1)>>,
        <<Mark("/"), Term("client"), Slash(2)>>,
        <<Mark("./"), Term("that")>>, <<Term("function"), Mark("/")>>,
        <<Hole(0)>>, <<Term("cat"), Slash(1), Hole(1)>>}

MCLines ==
  {<<v, w>> : v, w \in MCWords}
  \cup {<<<<Term("make")>>, <<Term("sure")>>, <<Url(1)>>, <<Ident(1)>>>>,
        <<<<Mark("/"), Term("make")>>, <<Term("sure"), Slash(1)>>, <<Term("client")>>>>}

MCOthers == {<<<<Ident(1), Slash(2)>>, <<Mark(",")>>>>, <<<<Hole(1)>>, <<Url(2)>>>>}

MCFields == {"max_text_chars", "jl_min_chars", "caveman_level", "lsh_enabled",
             "audit_log_dir", "rate_limit_capacity"}

MCKind ==
  [max_text_chars |-> "int", jl_min_chars |-> "int", caveman_level |-> "str",
   lsh_enabled |-> "bool", audit_log_dir |-> "path", rate_limit_capacity |-> "int"]

MCDefault ==
  [max_text_chars |-> Typed("int", "12000"), jl_min_chars |-> Typed("int", "4000"),
   caveman_level |-> Typed("str", "standard"), lsh_enabled |-> Typed("bool", "false"),
   audit_log_dir |-> Typed("path", ".middleout-logs"),
   rate_limit_capacity |-> Typed("int", "120")]

MCAccepts ==
  [max_text_chars |-> {Typed("int", "12000"), Typed("int", "600")},
   caveman_level |-> {Typed("str", "standard"), Typed("str", "ultra")}]

MCOtherCase == [anthropic_api_key |-> "ANTHROPIC_API_KEY", path |-> "PATH"]

Raw(text, type) ==
  [text |-> text, reads |-> IF type = "garbage" THEN Garbage ELSE Typed(type, text),
   yes |-> IF text = "1" THEN "true" ELSE "false"]

MCRaws == {Blank, Raw("600", "int"), Raw("1", "int"), Raw("ultra", "garbage")}

MCEnvironments ==
  {[f \in MCFields |-> IF f = g THEN x ELSE IF f = h THEN y ELSE Unset] :
     g \in {"max_text_chars", "caveman_level"},
     h \in MCFields \ {"max_text_chars", "caveman_level", "rate_limit_capacity"},
     x, y \in MCRaws \cup {Unset}}

MCDocuments ==
  {[max_text_chars |-> Typed("str", "600"), lsh_enabled |-> Typed("bool", "true")],
   [max_text_chars |-> Typed("int", "600"), rate_limit_capacity |-> Typed("int", "5"),
    audit_log_dir |-> Typed("str", "logs")],
   [caveman_level |-> Typed("str", "ultra"), jl_min_chars |-> Typed("str", "many")]}

Policy(input, level) ==
  [Vanilla EXCEPT !.input = input, !.caveman = [enabled |-> TRUE, level |-> level]]

MCRules ==
  <<[star |-> FALSE, models |-> {"opus"}, endpoint |-> "v1/messages",
     policy |-> Policy(TRUE, "wild")],
    [star |-> FALSE, models |-> {"opus", "haiku"}, endpoint |-> AnyEndpoint,
     policy |-> Policy(FALSE, "lite")],
    [star |-> TRUE, models |-> {"opus", "haiku", "other"}, endpoint |-> "v1/messages",
     policy |-> Policy(TRUE, "ultra")]>>

MCToggles ==
  [input : BOOLEAN, output : BOOLEAN, jl : BOOLEAN, adaptive : BOOLEAN,
   caveman : [enabled : BOOLEAN, level : {"lite", "saved"}],
   rtk : [enabled : {TRUE}, level : {"minimal", "standard"}],
   json_aware : [enabled : {FALSE}, level : {"safe"}],
   lsh : [enabled : BOOLEAN, level : {"standard"}]]

MCTiers == <<40, 60, 80>>

MCSizes == {0, 2047, 2048, 319999, 320000, 479999, 480000, 639999, 640000, 800000}
=============================================================================
