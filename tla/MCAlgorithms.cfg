CONSTANT Algorithms = {"network", "hidden", "server", "manifest", "parameters", "llm", "factories", "fallbacks", "commondefs", "defaults", "external", "resolution", "toolbox", "mcp", "middleware", "arguments", "callSchema"}
SPECIFICATION Spec
CHECK_DEADLOCK FALSE
INVARIANTS NetworksAreWhole ManifestsAreServed ArgumentsAreEnforced ModelsAreChosen ConfigurationIsStable ToolsAreMade
