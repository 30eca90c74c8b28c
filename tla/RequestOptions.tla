--------------------------- MODULE RequestOptions ---------------------------
(***************************************************************************)
(* What is decided about a request before its texts are touched            *)
(* (server.py:836-918): the snapshot of the runtime settings, overridden   *)
(* by the policy router (policies.py), overridden by the adaptive policy   *)
(* (adaptive.py).                                                          *)
(***************************************************************************)
EXTENDS Integers, Sequences

CONSTANTS
  Models, NoModel,
  Rules,        \* the policy router's: sequence of [star, models, endpoint, policy]
  DefaultPolicy,
  CharsPerToken, Context, Floor,
  Tiers         \* upper ends of the tiers but the last, in percent

Engines == {"caveman", "rtk", "json_aware", "lsh"}

\* The levels of each engine, the gentlest first.
Levels ==
  [caveman |-> <<"lite", "standard", "aggressive", "ultra">>,
   rtk |-> <<"minimal", "standard", "aggressive">>,
   json_aware |-> <<"safe", "standard", "aggressive">>,
   lsh |-> <<"conservative", "standard", "aggressive">>]

Known(e) == {Levels[e][i] : i \in DOMAIN Levels[e]}

\* CompressionPolicy(): an empty policy.  max is max_text_chars, which counts
\* when policies are compared and is read nowhere else.
Vanilla ==
  [input |-> TRUE, output |-> FALSE, jl |-> TRUE, max |-> "none",
   caveman |-> [enabled |-> FALSE, level |-> "standard"],
   rtk |-> [enabled |-> FALSE, level |-> "minimal"]]

AnyEndpoint == "*"

\* A level is any text: it is not checked where it is configured.
Setting == [enabled : BOOLEAN, level : STRING]

\* What a request is given of the runtime settings.
Snapshot ==
  [input : BOOLEAN, output : BOOLEAN, jl : BOOLEAN, adaptive : BOOLEAN,
   caveman : Setting, rtk : Setting, json_aware : Setting, lsh : Setting]

ASSUME OptionsAssumption ==
  /\ NoModel \notin Models
  /\ CharsPerToken \in Nat \ {0} /\ Context \in Nat \ {0} /\ Floor \in Nat
  /\ \A i \in DOMAIN Rules : /\ Rules[i].models \subseteq Models
                             /\ Rules[i].star => Rules[i].models = Models
  /\ Tiers \in [1..3 -> Nat] /\ Tiers[1] <= Tiers[2] /\ Tiers[2] <= Tiers[3]

\* _endpoint_match() and _model_match(): no model is matched by "*" alone.
Matches(rule, model, endpoint) ==
  /\ rule.endpoint \in {AnyEndpoint, endpoint}
  /\ IF model = NoModel THEN rule.star ELSE model \in rule.models

\* PolicyRouter.resolve(): the first rule that matches.
Resolve(model, endpoint) ==
  LET fit == {i \in DOMAIN Rules : Matches(Rules[i], model, endpoint)}
  IN IF fit = {} THEN DefaultPolicy
     ELSE Rules[CHOOSE i \in fit : \A j \in fit : i <= j].policy

PolicyActive == Rules # <<>> \/ DefaultPolicy # Vanilla

\* What a policy decides of a snapshot.
Governed == {"output", "jl", "caveman", "rtk"}

\* Mutant: an engine the operator turned on stays on.
OverriddenOr(rt, p) ==
  [f \in DOMAIN rt |->
     IF f \in Governed /\ ~(f = "caveman" /\ rt.caveman.enabled) THEN p[f] ELSE rt[f]]

\* The snapshot with the policy's fields in place of its own.
Overridden(rt, p) == [f \in DOMAIN rt |-> IF f \in Governed THEN p[f] ELSE rt[f]]

\* Mutant: the share of the context that is free decides.
TierOfRoom(chars) ==
  LET Below(i) == (CharsPerToken * Context - chars) * 100
                    < Tiers[i] * CharsPerToken * Context
  IN IF Below(1) THEN 1 ELSE IF Below(2) THEN 2 ELSE IF Below(3) THEN 3 ELSE 4

\* _tier() of _pressure(): 1 is lenient, 4 is max.
Tier(chars) ==
  LET Below(i) == chars * 100 < Tiers[i] * CharsPerToken * Context
  IN IF Below(1) THEN 1 ELSE IF Below(2) THEN 2 ELSE IF Below(3) THEN 3 ELSE 4

\* decide_levels(): what adaptive.py's table says, as far as the server reads it.
Decided(chars) ==
  LET t == Tier(chars)
      At(e) == [enabled |-> TRUE,
                level |-> Levels[e][IF t > Len(Levels[e]) THEN Len(Levels[e]) ELSE t]]
  IN [caveman |-> At("caveman"), rtk |-> At("rtk"), json_aware |-> At("json_aware"),
      lsh |-> At("lsh"), jl |-> t > 1]

ShouldCompress(chars) == chars >= Floor

\* The body goes on as it came.  output is still the policy's.
AsItCame(rt) == [raw |-> TRUE, output |-> rt.output]

Engaged(rt, o) ==
  [raw |-> FALSE, output |-> rt.output, jl |-> o.jl,
   engines |-> [e \in Engines |-> o[e]]]

\* chars is what the payload has after the lingua pass.
Options(rt, model, endpoint, chars) ==
  LET p   == Resolve(model, endpoint)
      now == IF PolicyActive THEN Overridden(rt, p) ELSE rt
  IN IF ~rt.input THEN AsItCame(rt)
     ELSE IF PolicyActive /\ ~p.input THEN AsItCame(now)
     ELSE IF ~now.adaptive THEN Engaged(now, now)
     ELSE IF ~ShouldCompress(chars) THEN AsItCame(now)
     ELSE Engaged(now, Decided(chars))

\* What an engine does at level l: one it does not know raises ValueError,
\* which the driver swallows with the text as it was.
Runs(e, setting) == setting.enabled /\ setting.level \in Known(e)
=============================================================================
