----------------------------- MODULE MCServices -----------------------------
(* A small instance of every part of Services. *)
EXTENDS Services

MCConfigs ==
  {[hello |-> <<[enable |-> e, times |-> a], [enable |-> TRUE, times |-> b]>>] :
     e \in BOOLEAN, a \in SUBSET (1..5), b \in {{2, 3}, {1, 4}}}

MCArguments(port, period, mcpEnable, mcpOnly, instances, monitor, probePort) ==
  [port |-> port, period |-> period, mcpEnable |-> mcpEnable, mcpOnly |-> mcpOnly,
   instances |-> instances, monitor |-> monitor, probePort |-> probePort]
MCGiven ==
  {MCArguments(8080, 10, TRUE, FALSE, 2, 0, 0), MCArguments(8080, 0, FALSE, FALSE, 2, 60, 8080),
   MCArguments(0, 10, FALSE, TRUE, 1, 0, 8081), MCArguments(0, 10, FALSE, FALSE, 1, 0, 8081),
   MCArguments(8080, 10, FALSE, FALSE, 1, 60, 8081)}

MCText(words, block) == [words |-> words, block |-> block, escaped |-> FALSE]
MCUserTexts == {MCText("question", TRUE)}
MCTexts == {MCText("words", FALSE), MCText("json", TRUE)}
MCFlowConfigs ==
  {[filter |-> "null", formats |-> <<"yaml", "json">>, limit |-> 1, logs |-> TRUE],
   [filter |-> "MAXIMAL", formats |-> <<"json">>, limit |-> 2, logs |-> TRUE],
   [filter |-> "MAXIMAL", formats |-> <<>>, limit |-> 0, logs |-> FALSE]}

\* Two requests in one process, or one in each of two.
MCLoads == {{<<"p", 1>>, <<"p", 2>>}, {<<"p", 1>>, <<"q", 1>>}}

MCMessage(type, text, structure) == [type |-> type, text |-> text, structure |-> structure]
MCMessages ==
  {MCMessage("AGENT_FRAMEWORK", "words", "none"), MCMessage("AGENT_FRAMEWORK", "words", "structure"),
   MCMessage("AI", "thought", "none")}

MCShapes == {"reservation", "foreign", "nullmeta", "text", "bytes"}
=============================================================================
