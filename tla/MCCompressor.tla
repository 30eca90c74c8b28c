---------------------------- MODULE MCCompressor ----------------------------
(* Texts: a and b are long and near each other, c is short and near both to  *)
(* the LSH index only, d is like nothing and what lingua makes of b.         *)
EXTENDS Compressor

MCTexts == {"a", "b", "c", "d"}

MCSqueezed == [t \in MCTexts |-> IF t = "b" THEN "d" ELSE t]

MCTouches == {<<"json_aware", "a">>, <<"json_aware", "d">>, <<"caveman", "c">>,
              <<"caveman", Marker>>}

MCJLScore ==
  [p \in MCTexts \X MCTexts |->
     IF p[1] = p[2] THEN 100 ELSE IF {p[1], p[2]} = {"a", "b"} THEN 99 ELSE 0]

MCLSHScore ==
  [p \in MCTexts \X MCTexts |->
     IF p[1] = p[2] THEN 100
     ELSE IF "d" \in {p[1], p[2]} THEN 10
     ELSE IF {p[1], p[2]} = {"a", "b"} THEN 95 ELSE 90]

text(t) == [type |-> "text", text |-> t]
tool(t) == [type |-> "tool_result", text |-> t]
nested(t) == [type |-> "nested", text |-> t]
image == [type |-> "other", text |-> "a"]

System(blocks) == [kind |-> "system", bare |-> FALSE, blocks |-> blocks]
Message(blocks) == [kind |-> "message", bare |-> FALSE, blocks |-> blocks]
Bare(t) == [kind |-> "message", bare |-> TRUE, blocks |-> <<text(t)>>]

MCPayloads ==
  {[lists |-> <<System(<<text("a")>>), Message(<<text("b"), text("c")>>)>>,
    mark |-> <<1, 1>>],
   [lists |-> <<Message(<<tool("a"), nested("b")>>), Message(<<text("b"), tool("a"), text("c")>>)>>,
    mark |-> <<0, 0>>],
   [lists |-> <<Bare("a"), Message(<<text("a"), image, text("b"), text("b")>>)>>,
    mark |-> <<2, 1>>],
   [lists |-> <<Message(<<tool("c"), text("a"), text("c")>>)>>, mark |-> <<1, 2>>]}

Cfg(json, caveman) ==
  [e \in Engines |-> IF e = "json_aware" THEN json ELSE IF e = "caveman" THEN caveman ELSE "off"]

MCOptions ==
  [lingua : BOOLEAN, lsh : BOOLEAN, jl : {TRUE}, cfg : {Cfg("safe", "off")}]
  \cup [lingua : {FALSE}, lsh : {TRUE}, jl : BOOLEAN,
        cfg : {Cfg("aggressive", "off"), Cfg("safe", "full")}]
=============================================================================
