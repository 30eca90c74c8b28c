---------------------------- MODULE ProseEngines ----------------------------
(***************************************************************************)
(* compress_caveman() and compress_rtk(): prose is shortened line by line, *)
(* while URLs and identifiers wait in a list of placeholders and fenced or *)
(* indented code is passed through.  A line is a sequence of words between *)
(* spaces, a word a sequence of pieces: a plain term, an identifier, a URL, *)
(* a slash and what follows it where a path can be told, a mark, or a       *)
(* numbered placeholder the client itself wrote.                           *)
(***************************************************************************)
EXTENDS Integers, SequencesExt

CONSTANTS
  Terms,
  Spellings,                   \* tell identifiers, components and URLs apart
  Filler, Articles,            \* terms caveman drops at every level,
  Pleasantries,                \* from standard on,
  Clausal,                     \* from aggressive on,
  Copulas,                     \* and at ultra
  Collapses,                   \* pairs of terms -> the term standing for both
  Abbreviated,                 \* terms caveman abbreviates when aggressive
  Dictionary                   \* RTK level -> terms replaced

CavemanLevels == {"lite", "standard", "aggressive", "ultra"}
RtkLevels == {"minimal", "standard", "aggressive"}

ASSUME ProseAssumption ==
  /\ UNION {Filler, Articles, Pleasantries, Clausal, Copulas, Abbreviated} \subseteq Terms
  /\ Collapses \in [DOMAIN Collapses -> Terms] /\ DOMAIN Collapses \subseteq Terms \X Terms
  /\ Dictionary \in [RtkLevels -> SUBSET Terms]
  /\ Dictionary["minimal"] \subseteq Dictionary["standard"]
  /\ Dictionary["standard"] \subseteq Dictionary["aggressive"]

Term(t) == [kind |-> "term", of |-> t]
Short(t) == [kind |-> "short", of |-> t]
Ident(s) == [kind |-> "ident", of |-> s]
Slash(s) == [kind |-> "slash", of |-> s]
Url(s) == [kind |-> "url", of |-> s]

\* What no pattern takes: a slash with no letter or digit before it, or none
\* behind it; the same with dots; any other mark at the beginning of a word.
Marks == {"/", "./", ","}
Mark(m) == [kind |-> "mark", of |-> m]

\* "\x00k\x00"; what is left of one whose last NUL is cut off, and that NUL.
Hole(k) == [kind |-> "hole", at |-> k]
Stump(k) == [kind |-> "stump", at |-> k]
Nul == [kind |-> "nul"]

\* What a client writes.
Piece ==
  [kind : {"term"}, of : Terms] \cup [kind : {"ident", "slash", "url"}, of : Spellings]
    \cup [kind : {"mark"}, of : Marks] \cup [kind : {"hole"}, at : Nat]

\* How words are made of pieces: a slash piece needs a letter or digit before
\* its slash, and one that ends in a slash counts it to its last component.
WellFormed(word) ==
  \A i \in DOMAIN word :
    /\ word[i].kind = "slash" => i > 1 /\ word[i - 1].kind \notin {"mark", "hole"}
    /\ word[i].kind = "mark" =>
         /\ word[i].of = "," => i = 1
         /\ \A j \in 1..(i - 1) : word[j].kind \notin {"slash", "url"}

-----------------------------------------------------------------------------
IndexOfUrl(word) == {i \in DOMAIN word : word[i].kind = "url"}

\* _URL_RE.sub(stash, ...) on one word, to the end of which a URL runs.
UrlHidden(word, list) ==
  IF IndexOfUrl(word) = {} THEN [word |-> word, list |-> list]
  ELSE LET i == Min(IndexOfUrl(word))
       IN [word |-> Append(SubSeq(word, 1, i - 1), Hole(Len(list))),
           list |-> Append(list, SubSeq(word, i, Len(word)))]

\* Where a path begins: at a slash right behind a letter or digit, for
\* _IDENT_RE wants a word boundary there.  So the first component of a path is
\* as plain a word as any, with or without a slash before it.
PathStart(word) ==
  {i \in 2..Len(word) : word[i].kind = "slash" /\ word[i - 1].kind \notin {"mark", "hole"}}

\* Identifiers are one piece each.
IdentsStashed(word, list) ==
  FoldLeft(LAMBDA acc, p :
             IF p.kind = "ident"
               THEN [word |-> Append(acc.word, Hole(Len(acc.list))),
                     list |-> Append(acc.list, <<p>>)]
               ELSE [word |-> Append(acc.word, p), list |-> acc.list],
           [word |-> <<>>, list |-> list], word)

\* _IDENT_RE.sub(stash, ...) on one word.  A path runs to the last word
\* boundary, which inside "\x00k\x00" is behind the k.
IdentsHidden(word, list) ==
  LET from   == IF PathStart(word) = {} THEN Len(word) + 1 ELSE Min(PathStart(word))
      path   == SubSeq(word, from, Len(word))
      h      == IdentsStashed(SubSeq(word, 1, from - 1), list)
      tears  == path # <<>> /\ Last(path).kind = "hole"
  IN IF path = <<>> THEN h
     ELSE [word |-> Append(h.word, Hole(Len(h.list))) \o (IF tears THEN <<Nul>> ELSE <<>>),
           list |-> Append(h.list,
                           IF tears THEN Append(Front(path), Stump(Last(path).at)) ELSE path)]

\* Each substitution goes over the whole line before the next begins.
OverWords(Hide(_, _), line, list) ==
  FoldLeft(LAMBDA acc, word :
             LET h == Hide(word, acc.list)
             IN [line |-> Append(acc.line, h.word), list |-> h.list],
           [line |-> <<>>, list |-> list], line)

\* Mutant: the second substitution starts a list of its own.
ProtectTwoLists(line) ==
  OverWords(IdentsHidden, OverWords(UrlHidden, line, <<>>).line, <<>>)

\* _protect()
Protect(line) ==
  LET urls == OverWords(UrlHidden, line, <<>>)
  IN OverWords(IdentsHidden, urls.line, urls.list)

\* A number nothing was stashed under: IndexError.
Unknown(line, list) ==
  \E i \in DOMAIN line : \E p \in ToSet(line[i]) : p.kind = "hole" /\ p.at >= Len(list)

\* _restore(): one pass, which does not look inside what it puts back.
RestoredWord(word, list) ==
  FlattenSeq([j \in DOMAIN word |->
                IF word[j].kind = "hole" THEN list[word[j].at + 1] ELSE <<word[j]>>])

Restored(line, list) == [i \in DOMAIN line |-> RestoredWord(line[i], list)]

-----------------------------------------------------------------------------
\* A word is compared with the tables without the marks at its ends.
Core(word) == {i \in DOMAIN word : word[i].kind # "mark"}

IsTerm(word, set) ==
  \E i \in DOMAIN word : Core(word) = {i} /\ word[i].kind = "term" /\ word[i].of \in set

\* _PHRASE_COLLAPSES, from the left, also where a phrase touches a mark or a
\* placeholder.
Phrase(u, v) ==
  /\ u # <<>> /\ v # <<>>
  /\ Last(u).kind = "term" /\ Head(v).kind = "term"
  /\ <<Last(u).of, Head(v).of>> \in DOMAIN Collapses

Seam(u, v) == Front(u) \o <<Term(Collapses[<<Last(u).of, Head(v).of>>])>> \o Tail(v)

Collapsed(line) ==
  FoldLeft(LAMBDA acc, word :
             IF acc # <<>> /\ Phrase(Last(acc), word)
               THEN Append(Front(acc), Seam(Last(acc), word))
               ELSE Append(acc, word),
           <<>>, line)

\* _PLEASANTRY_PATTERNS; they are found in any word that has such a term, and
\* take the blanks behind it with them.
Pleasant(p) == p.kind = "term" /\ p.of \in Pleasantries

PulledUp(line) ==
  FoldLeft(LAMBDA acc, word :
             IF acc # <<>> /\ Last(acc) # <<>> /\ Pleasant(Last(Last(acc)))
               THEN Append(Front(acc), Last(acc) \o word)
               ELSE Append(acc, word),
           <<>>, line)

Polite(word) ==
  FlattenSeq([j \in DOMAIN word |-> IF Pleasant(word[j]) THEN <<>> ELSE <<word[j]>>])

WithoutPleasantries(line) ==
  LET pulled == PulledUp(line) IN [i \in DOMAIN pulled |-> Polite(pulled[i])]

Dropped(word, level) ==
  \/ word = <<>>
  \/ IsTerm(word, Filler \cup Articles)
  \/ level \in {"aggressive", "ultra"} /\ IsTerm(word, Clausal)
  \/ level = "ultra" /\ IsTerm(word, Copulas)

Abbreviate(word, level) ==
  IF level \in {"aggressive", "ultra"} /\ IsTerm(word, Abbreviated)
    THEN [i \in DOMAIN word |-> IF i \in Core(word) THEN Short(word[i].of) ELSE word[i]]
    ELSE word

\* The last clean-up takes the space in front of a punctuation mark, and a
\* word that begins with one moves up to the word before it.
Glued(line) ==
  FoldLeft(LAMBDA acc, word :
             IF acc # <<>> /\ word[1] \in {Mark("./"), Mark(",")}
               THEN Append(Front(acc), Last(acc) \o word)
               ELSE Append(acc, word),
           <<>>, line)

\* _process_prose() between _protect() and _restore().
CavemanWords(line, level) ==
  LET polite == IF level = "lite" THEN line ELSE Collapsed(WithoutPleasantries(line))
      kept   == [i \in DOMAIN polite |->
                   IF Dropped(polite[i], level) THEN <<>>
                   ELSE <<Abbreviate(polite[i], level)>>]
  IN Glued(FlattenSeq(kept))

\* _apply_dict(): whole terms, also where they touch a placeholder.
RtkWords(line, level) ==
  [i \in DOMAIN line |-> [j \in DOMAIN line[i] |->
     LET p == line[i][j]
     IN IF p.kind = "term" /\ p.of \in Dictionary[level] THEN Short(p.of) ELSE p]]

EngineWords(line, engine, level) ==
  IF engine = "caveman" THEN CavemanWords(line, level) ELSE RtkWords(line, level)

\* What becomes of one line of prose.
Line(line, engine, level) ==
  LET p == Protect(line)
      w == EngineWords(p.line, engine, level)
  IN IF Unknown(w, p.list) THEN [raised |-> TRUE]
     ELSE [raised |-> FALSE, line |-> Restored(w, p.list)]

\* Whether segment i of a text split at its fences is code; an open fence runs
\* to the end.
InFence(i) == i % 2 = 0

\* compress_caveman(), compress_rtk(): segments of lines [code, words].  An
\* IndexError in one line is an error of the whole text.
Prose(segments, engine, level) ==
  LET Made(i, j) == LET line == segments[i][j]
                    IN IF InFence(i) \/ line.code THEN [raised |-> FALSE, line |-> line.words]
                       ELSE Line(line.words, engine, level)
  IN IF \E i \in DOMAIN segments : \E j \in DOMAIN segments[i] : Made(i, j).raised
       THEN [raised |-> TRUE]
       ELSE [raised |-> FALSE,
             segments |-> [i \in DOMAIN segments |->
                             [j \in DOMAIN segments[i] |-> Made(i, j).line]]]
=============================================================================
