--------------------------- MODULE MCAgentRegistry ---------------------------
(* Small instances of AgentRegistry: two networks, their files and manifests. *)
EXTENDS AgentRegistry

MCNameOf == [k \in {"hello.hocon", "math.hocon"} |-> IF k = "hello.hocon" THEN "hello" ELSE "math"]

File(v) == [state |-> "good", version |-> v]
Files(h, m) == [k \in {"hello.hocon", "math.hocon"} |-> IF k = "hello.hocon" THEN h ELSE m]
Bool(k, b) == [key |-> k, value |-> [kind |-> "bool", value |-> b]]
Dict(k, d) == [key |-> k, value |-> [kind |-> "dict", dict |-> d]]
Manifest(es) == [parses |-> TRUE, entries |-> es]
Hidden == [serve |-> TRUE, public |-> FALSE]

\* Both served; hello edited and math withdrawn; hello's file gone; a manifest
\* that does not parse.  No network changes its storage.
MCDisks ==
  { [manifests |-> <<Manifest(<<Bool("hello.hocon", TRUE), Dict("math.hocon", Hidden)>>)>>,
     files |-> Files(File(1), File(1))],
    [manifests |-> <<Manifest(<<Bool("hello.hocon", TRUE)>>)>>, files |-> Files(File(2), File(1))],
    [manifests |-> <<Manifest(<<Bool("hello.hocon", TRUE), Dict("math.hocon", Hidden)>>)>>,
     files |-> Files([state |-> "missing", version |-> 0], File(2))],
    [manifests |-> <<[parses |-> FALSE, entries |-> <<>>]>>, files |-> Files(File(1), File(1))] }

\* math is first protected and then public.
MCMovingDisks ==
  { [manifests |-> <<Manifest(<<Bool("hello.hocon", TRUE), Dict("math.hocon", e)>>)>>,
     files |-> Files(File(1), File(1))] : e \in {Hidden, [serve |-> TRUE, public |-> TRUE]} }

MCMaxEdits == 2
MCOneEdit == 1
MCMaxLookups == 1
MCCallers == {"http", "initiator"}
=============================================================================
