------------------------- MODULE ManifestRestoration -------------------------
(***************************************************************************)
(* What a list of manifest files makes a server serve: the filters over the *)
(* entries of one manifest, the reading of the networks it names, and the   *)
(* overlay of the manifests (RegistryManifestRestorer).                     *)
(*                                                                         *)
(* A manifest is [parses, entries], its entries a sequence of [key, value]. *)
(* A value is [kind |-> "bool", value], [kind |-> "dict", dict] with dict a *)
(* function from some of "serve", "public", "mcp" and "periodic", or        *)
(* [kind |-> "other"].  files says of each key what its network's file is.  *)
(***************************************************************************)
EXTENDS Integers, Sequences, SequencesExt

\* dict.get(k, False), of a key with a boolean value
Holds(dict, k) == k \in DOMAIN dict /\ dict[k]

ALL_PERMANENT == {"public", "protected"}

FileStates == {"good", "missing", "broken", "invalid"}

\* The absence of a network, None.
NoNetwork == [version |-> 0, mcp |-> FALSE]
-----------------------------------------------------------------------------
(* The filters over one manifest *)

\* Mutant: an MCP entry is no longer made public.
McpStaysProtected(dict) == IF "mcp" \in DOMAIN dict THEN dict ELSE ("mcp" :> FALSE) @@ dict

\* McpManifestDictConfigFilter: what is offered to MCP is public.
McpFilter(dict) ==
  LET d == IF "mcp" \in DOMAIN dict THEN dict ELSE ("mcp" :> FALSE) @@ dict
  IN IF d["mcp"] THEN ("public" :> TRUE) @@ d ELSE d

Off == [on |-> FALSE, interactions |-> <<>>]
Template == [enable |-> TRUE, cron |-> "default"]

\* The interactions a value of "periodic" asks for: a boolean, a cron string, a
\* dictionary that is one interaction or holds a list, or anything else.
InteractionsOf(value) ==
  CASE value.kind = "cron" -> <<[Template EXCEPT !.cron = value.cron]>>
    [] value.kind = "single" -> <<value.interaction>>
    [] value.kind = "many" -> value.interactions
    [] OTHER -> <<Template>>

\* Mutant: a schedule that is no schedule stays enabled.
AcceptSchedule(i) == IF i.cron = "none" THEN [i EXCEPT !.cron = "default"] ELSE i

\* Late validation of one interaction's schedule.
CheckSchedule(i) ==
  CASE i.cron = "none" -> [i EXCEPT !.cron = "default"]
    [] i.cron = "invalid" -> [i EXCEPT !.enable = FALSE]
    [] OTHER -> i

\* PeriodicManifestDictConfigFilter
PeriodicFilter(dict) ==
  LET isOff == "periodic" \notin DOMAIN dict \/ dict["periodic"].kind = "off"
      checked == LET is == InteractionsOf(dict["periodic"])
                 IN [i \in DOMAIN is |-> CheckSchedule(is[i])]
  IN ("periodic" :> IF isOff THEN Off ELSE [on |-> TRUE, interactions |-> checked]) @@ dict

\* The dictionary a boolean entry stands for.
ExpandBool(b) ==
  [serve |-> b, public |-> b, mcp |-> TRUE, periodic |-> [kind |-> "off"]]

\* ManifestDictConfigFilter: boolean entries become dictionaries, entries that
\* are neither are dropped, and every dictionary goes through its own filters.
DictFilter(entries) ==
  LET kept == SelectSeq(entries, LAMBDA e : e.value.kind # "other")
      Expanded(v) == IF v.kind = "bool" THEN ExpandBool(v.value) ELSE v.dict
  IN [i \in DOMAIN kept |->
        [key |-> kept[i].key, dict |-> PeriodicFilter(McpFilter(Expanded(kept[i].value)))]]
-----------------------------------------------------------------------------
(* One manifest *)

\* restore_one_agent_network(): a file that is missing or does not parse is
\* logged and makes no network.
RestoreNetwork(file) ==
  IF file.state \in {"missing", "broken"} THEN NoNetwork
  ELSE [version |-> file.version, mcp |-> FALSE]

\* read_one_agent_network() and process_one_agent_network(): the network of an
\* entry that is served, valid and marked as an MCP tool if it is one; or None.
ReadNetwork(dict, file) ==
  LET network == IF Holds(dict, "serve") THEN RestoreNetwork(file) ELSE NoNetwork
      usable == network # NoNetwork /\ file.state # "invalid"
  IN IF usable THEN [network EXCEPT !.mcp = Holds(dict, "mcp")] ELSE NoNetwork

\* Mutant: a network that failed to load hides the one of an earlier manifest.
StoreFailures(restored, dict, name, network) ==
  LET storage == IF Holds(dict, "public") THEN "public" ELSE "protected"
  IN [restored EXCEPT !.storage[storage] = (name :> network) @@ @]

\* maybe_store_agent_network(): None is stored for what shall not be served, so
\* that it hides what an earlier manifest says; nothing for what failed.
StoreNetwork(restored, dict, name, network) ==
  LET storage == IF Holds(dict, "public") THEN "public" ELSE "protected"
  IN IF network = NoNetwork /\ Holds(dict, "serve") THEN restored
     ELSE [restored EXCEPT
             !.storage[storage] = (name :> network) @@ @,
             !.periodic = IF dict["periodic"].on
                          THEN (name :> dict["periodic"].interactions) @@ @ ELSE @]

NothingStored == [s \in ALL_PERMANENT |-> <<>>]

\* restore_one_manifest(): its networks are read in parallel and stored in the
\* order of the manifest.  The periodic configurations accumulate in the restorer.
RestoreManifest(entries, files, nameOf, periodic) ==
  LET Store(restored, e) ==
        StoreNetwork(restored, e.dict, nameOf[e.key], ReadNetwork(e.dict, files[e.key]))
  IN FoldLeft(Store, [storage |-> NothingStored, periodic |-> periodic], DictFilter(entries))
-----------------------------------------------------------------------------
(* All manifests *)

\* DictionaryOverlay: a deep update, in which None is a value like any other.
Overlay(basis, overlay) == [s \in ALL_PERMANENT |-> overlay[s] @@ basis[s]]

\* ServedManifestConfigFilter at the end: the entries that are None go.
DropNone(networks) ==
  [s \in ALL_PERMANENT |->
     [n \in {m \in DOMAIN networks[s] : networks[s][m] # NoNetwork} |-> networks[s][n]]]

\* A manifest file that does not parse: restore() raises.
RestoreRaises(manifests) == \E i \in DOMAIN manifests : ~manifests[i].parses

\* restore(): the networks served in each storage, and the periodic interactions.
Restore(manifests, files, nameOf) ==
  LET One(all, m) ==
        LET one == RestoreManifest(m.entries, files, nameOf, all.periodic)
        IN [storage |-> Overlay(all.storage, one.storage), periodic |-> one.periodic]
      whole == FoldLeft(One, [storage |-> NothingStored, periodic |-> <<>>], manifests)
  IN [storage |-> DropNone(whole.storage), periodic |-> whole.periodic]
=============================================================================
