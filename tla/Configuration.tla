--------------------------- MODULE Configuration ----------------------------
(***************************************************************************)
(* load_settings() (config.py): what the process starts with, out of the   *)
(* environment, the first TOML file found, and the built-in defaults, or   *)
(* that it does not start.  Values are typed, for TOML gives any type to   *)
(* any field.                                                              *)
(***************************************************************************)
EXTENDS Integers, SequencesExt

CONSTANTS
  Fields,
  Kind,         \* Fields -> "int", "float", "bool", "str" or "path": how the
                \* environment variable is read
  Default,      \* Fields -> typed values
  Mapped,       \* the fields _TOML_FIELD_MAP can reach
  Checked,      \* the fields load_settings() checks,
  Numeric,      \* those of them with a range, and
  Accepts,      \* Checked -> the values it lets pass
  BlockedNames, \* BLOCKED_AUTH_ENV_VARS
  OtherCase,    \* spelling of a blocked name -> the name in upper case
  Unset, Absent, Broken

\* A value is its type and how it is written.  Of the string in an environment
\* variable, text is the string, reads what int() or float() makes of it, and
\* yes whether _bool_env() takes it for true.
Garbage == [type |-> "garbage"]
Blank == [text |-> "", reads |-> Garbage, yes |-> "false"]

Typed(type, v) == [type |-> type, v |-> v]

ASSUME ConfigurationAssumption ==
  /\ Kind \in [Fields -> {"int", "float", "bool", "str", "path"}]
  /\ Mapped \subseteq Fields /\ Checked \subseteq Fields /\ Numeric \subseteq Checked
  /\ \A f \in Checked : Default[f] \in Accepts[f]
  /\ \A f \in Checked : \A x \in Accepts[f] : f \in Numeric => x.type \in {"int", "float"}

\* _bool_env(), _int_env(), _float_env(), os.getenv() and _resolve_path(): the
\* value of field f when its variable is raw and the layer below says below.
FromEnv(f, raw, below) ==
  CASE Kind[f] \in {"int", "float"} ->
         IF raw \in {Unset, Blank} THEN below
         ELSE IF raw.reads.type \in {"int", Kind[f]} THEN Typed(Kind[f], raw.reads.v)
         ELSE Garbage
    [] Kind[f] = "bool" ->
         IF raw = Unset THEN below ELSE Typed("bool", raw.yes)
    [] Kind[f] = "str" ->
         IF raw = Unset THEN below ELSE Typed("str", raw.text)
    [] Kind[f] = "path" ->
         IF raw \notin {Unset, Blank} THEN Typed("path", raw.text)
         ELSE IF below.type = "str" /\ below.v # "" THEN Typed("path", below.v)
         ELSE Default[f]

\* The file that counts: <<MIDDLEOUT_CONFIG, the working directory's, the home
\* directory's>>, the first if it is named at all.  A name that leads nowhere
\* is passed over.
Found(named, files) ==
  LET there == {i \in (IF named THEN 1 ELSE 2)..3 : files[i] # Absent}
  IN IF there = {} THEN Absent ELSE files[Min(there)]

\* _flatten_toml(): keys of the map, with values of any type.
Flat(doc) == IF doc = Absent THEN [f \in {} |-> Garbage] ELSE Restrict(doc, DOMAIN doc \cap Mapped)

\* Mutant: the file goes before the environment.
ResolvedFileFirst(env, doc) ==
  [f \in Fields |-> IF f \in DOMAIN Flat(doc) THEN Flat(doc)[f]
                    ELSE FromEnv(f, env[f], Default[f])]

\* Settings(): each field by its default_factory.
Resolved(env, doc) ==
  [f \in Fields |->
     FromEnv(f, env[f], IF f \in DOMAIN Flat(doc) THEN Flat(doc)[f] ELSE Default[f])]

\* The checks at the end of load_settings(): a number of another type raises
\* TypeError where it is compared, except that a bool is a number.
Sound(s) ==
  \A f \in Checked :
    \/ s[f] \in Accepts[f]
    \/ /\ f \in Numeric /\ s[f].type = "bool"
       /\ Typed("int", IF s[f].v = "true" THEN "1" ELSE "0") \in Accepts[f]

\* A variable with a blocked name, in any case and with any value.
KeySet(names) == \E n \in names : OtherCase[n] \in BlockedNames

Refused == [started |-> FALSE]

\* names are those in the environment beside the settings' own.
Load(names, env, named, files) ==
  LET doc == Found(named, files)
      s   == Resolved(env, doc)
  IN IF KeySet(names) \/ doc = Broken THEN Refused
     ELSE IF (\E f \in Fields : s[f] = Garbage) \/ ~Sound(s) THEN Refused
     ELSE [started |-> TRUE, settings |-> s]
=============================================================================
