------------------------------- MODULE Calls --------------------------------
(***************************************************************************)
(* The parts of the program that are functions of their arguments, called  *)
(* one at a time with every input of a bounded set.                        *)
(***************************************************************************)
EXTENDS MiddleOut, ProseEngines, Configuration, RequestOptions

CONSTANTS
  Lengths,      \* of texts, beyond the limit they are cut to
  Blanks,       \* lengths of the run of blanks in a text
  Lines,        \* lines of prose,
  Others,       \* and some to stand beside them
  Environments, Documents, Names,
  Toggles,      \* snapshots of the runtime settings
  Sizes,        \* of payloads, in characters
  Nothing

\* Digits knows every number that is printed.
ASSUME CallsAssumption ==
  /\ Nothing \notin {"middle_out", "prose", "load", "options"}
  /\ Lengths \subseteq Nat /\ Blanks \subseteq Nat
  /\ Lines \cup Others \subseteq Seq(Seq(Piece))
  /\ \A line \in Lines \cup Others : \A i \in DOMAIN line : WellFormed(line[i])
  /\ Toggles \subseteq Snapshot /\ Sizes \subseteq Nat
  /\ \A o \in Limits, extra \in Lengths :
       Larger(o.max, 0) + extra <= MaxLength /\ extra - o.max <= MaxLength

VARIABLE call   \* the last call: its function, arguments and result

Endpoints == {"v1/messages", "v1/complete"}

\* <<MIDDLEOUT_CONFIG, cwd, home>>: at most two documents are there.
Directories ==
  {d \in [1..3 -> Documents \cup {Absent, Broken}] : \E i \in 1..3 : d[i] = Absent}

CallMiddleOut ==
  \E o \in Limits, extra \in Lengths, b \in Blanks :
    LET n    == Larger(o.max, 0) + extra
        at   == First(n, o).head
        text == [length |-> n, from |-> at - b + 1, to |-> at + b]
    IN call' = [fn |-> "middle_out", text |-> text, o |-> o,
                result |-> MiddleOutText(text, o)]

CallProse ==
  \E line \in Lines, other \in Others, code \in BOOLEAN :
    \E e \in {<<"caveman", l>> : l \in CavemanLevels} \cup {<<"rtk", l>> : l \in RtkLevels} :
      LET text == <<<<[code |-> FALSE, words |-> line]>>,
                    <<[code |-> code, words |-> other]>>,
                    <<[code |-> code, words |-> other]>>>>
      IN call' = [fn |-> "prose", text |-> text, engine |-> e[1],
                  result |-> Prose(text, e[1], e[2])]

CallLoad ==
  \E names \in Names, env \in Environments, named \in BOOLEAN, files \in Directories :
    call' = [fn |-> "load", names |-> names, env |-> env, named |-> named,
             files |-> files, result |-> Load(names, env, named, files)]

CallOptions ==
  \E rt \in Toggles, model \in Models \cup {NoModel}, endpoint \in Endpoints, n \in Sizes :
    call' = [fn |-> "options", rt |-> rt, model |-> model, endpoint |-> endpoint,
             chars |-> n, result |-> Options(rt, model, endpoint, n)]

Idle == [fn |-> Nothing]

Init == call = Idle

Return == call # Idle /\ call' = Idle

Next ==
  \/ call = Idle /\ (CallMiddleOut \/ CallProse \/ CallLoad \/ CallOptions)
  \/ Return

Spec == Init /\ [][Next]_call

-----------------------------------------------------------------------------
WasCut == call.fn = "middle_out" /\ call.result.cut

\* "so the audit's `omitted` value in the marker actually matches the chars
\* we're omitting" (compression.py:99-103): three turns of the loop are enough
\* for every text, whichever digits change; whatever else is missing next to
\* the marker was blank; and no character is kept on both sides of it, although
\* head and tail are never cut below 64.
CountExact ==
  WasCut =>
    LET r == call.result
        n == call.text.length
    IN /\ r.shown = n - r.head - r.tail /\ r.shown > 0
       /\ \A i \in (r.upto + 1)..r.head \cup (n - r.tail + 1)..(r.onwards - 1) :
            i \in call.text.from..call.text.to

\* The marker is paid for out of the limit, up to the 64 characters the
\* shorter side is topped up to; a limit too small for a marker gives way to
\* 128 characters beside it.  Where at least the length of a marker has to be
\* won, cutting never makes a text longer, neither for the floors nor for the
\* digits.
NearLimit ==
  WasCut =>
    LET length == ResultLength(call.text, call.result)
        mark   == MarkerLength(call.result.shown, call.text.length)
    IN /\ length <= Larger(call.o.max, 128 + mark) + 64
       /\ call.o.omit >= MarkerWords + 18 => length < call.text.length

-----------------------------------------------------------------------------
\* The terms some table has an opinion on.
Named ==
  UNION ({Filler, Articles, Pleasantries, Clausal, Copulas, Abbreviated}
           \cup {{p[1], p[2], Collapses[p]} : p \in DOMAIN Collapses}
           \cup {Dictionary[l] : l \in RtkLevels})

\* What an engine may take, change or move.
Loose(p) == p.kind \in {"short", "mark"} \/ (p.kind = "term" /\ p.of \in Named)

Sheltered(word) ==
  FlattenSeq([j \in DOMAIN word |-> IF Loose(word[j]) THEN <<>> ELSE <<word[j]>>])

Protected(line) == FlattenSeq([i \in DOMAIN line |-> Sheltered(line[i])])

Foreign(line) == \E i \in DOMAIN line : \E p \in ToSet(line[i]) : p.kind = "hole"

\* A path before the URL in one word, as in "mirror/https://...".
UrlBehindPath(line) ==
  \E i \in DOMAIN line :
    /\ IndexOfUrl(line[i]) # {}
    /\ \E s \in PathStart(line[i]) : \A u \in IndexOfUrl(line[i]) : s < u

\* Code, URLs, identifiers and what follows the first component of a path come
\* through untouched, all of them and in their order, and so does every term
\* no table names.  That is less than caveman.py:72 ("camelCase, snake_case,
\* paths, dot-paths") promises: the first component of a path, with or without
\* a slash before it, is a plain word to both engines.  And it fails where a
\* path begins before the URL of a word: there a placeholder is caught in
\* another and the URL is lost.  Only a placeholder the client wrote itself
\* makes the engine fail.
Verbatim ==
  call.fn = "prose" =>
    \A i \in DOMAIN call.text : \A j \in DOMAIN call.text[i] :
      LET line == call.text[i][j]
          out  == call.result.segments[i][j]
      IN IF call.result.raised
           THEN \E k \in DOMAIN call.text : \E l \in DOMAIN call.text[k] :
                  Foreign(call.text[k][l].words)
         ELSE IF i = 2 \/ line.code THEN out = line.words
         ELSE Foreign(line.words) \/
                (Protected(out) = Protected(line.words) <=> ~UrlBehindPath(line.words))

-----------------------------------------------------------------------------
Loaded == call.fn = "load" /\ call.result.started

Started(env, files) == Load(call.names, env, call.named, files)

EnvShields ==
  Loaded =>
    \A files \in Directories :
      Started(call.env, files).started =>
        \A f \in Fields : call.env[f] \notin {Unset, Blank} =>
          Started(call.env, files).settings[f] = call.result.settings[f]

FirstFileOnly ==
  call.fn = "load" =>
    \A files \in Directories :
      (\E i \in (IF call.named THEN 1 ELSE 2)..3 :
         /\ call.files[i] # Absent
         /\ \A j \in (IF call.named THEN 1 ELSE 2)..i : files[j] = call.files[j])
        => Started(call.env, files) = call.result

\* The environment goes before the file, and of the files "first match wins"
\* (config.py:3-13): nothing a lower layer holds is seen
\* through a variable that says something, whatever other files the process had
\* found; and one file counts: none behind the first that is there has any
\* influence, not even to fill in what that one leaves out, or because it can
\* not be read.
LayersInOrder == EnvShields /\ FirstFileOnly

-----------------------------------------------------------------------------
Rank(e, setting) ==
  IF ~Runs(e, setting) THEN 0 ELSE CHOOSE i \in DOMAIN Levels[e] : Levels[e][i] = setting.level

Gentler(x, y) ==
  \/ x.raw
  \/ ~y.raw /\ \A e \in Engines : Rank(e, x.engines[e]) <= Rank(e, y.engines[e])

\* Under the adaptive policy a longer payload is never compressed more gently
\* than a shorter one of the same model, across the floor and every tier.
LargerNeverGentler ==
  call.fn = "options" /\ call.rt.adaptive =>
    \A n \in Sizes : n >= call.chars =>
      Gentler(call.result, Options(call.rt, call.model, call.endpoint, n))

\* Once a policy is configured, the dashboard's toggles for what a policy
\* governs change nothing in any request, except that input compression can be
\* turned off as a whole.
PolicyGoverns ==
  call.fn = "options" /\ PolicyActive =>
    \A rt \in Toggles :
      /\ rt.input = call.rt.input /\ rt.input
      /\ rt.adaptive = call.rt.adaptive
      /\ rt.json_aware = call.rt.json_aware /\ rt.lsh = call.rt.lsh
      => Options(rt, call.model, call.endpoint, call.chars) = call.result
=============================================================================
