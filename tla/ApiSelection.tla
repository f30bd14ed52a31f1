----------------------------- MODULE ApiSelection -----------------------------
(* Which sources a diagnostic collects and processes (src/processor/api.rs over  *)
(* the registry of src/processor/diagnostic/data_source.rs).                     *)
(*                                                                               *)
(* A registry maps the keys of one product to what sources.yml says of them:     *)
(* tags, whether a source is a processing option and a required one, the options *)
(* and the sources it needs. `--sources` replaces a registry by a file of the    *)
(* user, of which only the presence of the minimum is checked, so dependencies   *)
(* may form cycles or name sources that do not exist. Lists are sequences,       *)
(* because the order of collection is the order of the list.                     *)
EXTENDS Naturals, Sequences, FiniteSets, SequencesExt

CONSTANTS KeyOrder,   \* every key and name, in the order sort() gives
          Legacy      \* historical names and the key each stands for

Err == <<"error">>
Types == {"minimal", "light", "standard", "support"}

\* legacy_key_map
LegacyKeyMap(name) == IF name \in DOMAIN Legacy THEN Legacy[name] ELSE name

\* canonical_source_key: a name that is no key of the registry is an error.
Known(reg, name) == LegacyKeyMap(name) \in DOMAIN reg

\* validate_sources_product
ValidRegistry(reg, minimum) == \A i \in DOMAIN minimum : minimum[i] \in DOMAIN reg

\* IndexSet::insert and IndexSet::swap_remove.
Insert(list, k) == IF Contains(list, k) THEN list ELSE Append(list, k)
SwapRemove(list, k) ==
  IF ~Contains(list, k) THEN list
  ELSE LET i == CHOOSE n \in DOMAIN list : list[n] = k
           last == Len(list)
       IN SubSeq([list EXCEPT ![i] = list[last]], 1, last - 1)

(* ------------------------------- dependencies ------------------------------ *)
\* resolve_deps and resolve_processing_deps: a depth-first walk that marks a key
\* before it follows its dependencies and lists it after them. A key outside
\* `allowed` ends the walk with an error.
RECURSIVE Walk(_, _, _, _)
Walk(st, k, deps, allowed) ==
  IF st.err \/ k \in st.seen THEN st
  ELSE IF k \notin allowed THEN [st EXCEPT !.err = TRUE]
  ELSE LET below == FoldLeft(LAMBDA s, d : Walk(s, d, deps, allowed), [st EXCEPT !.seen = @ \cup {k}], deps[k])
       IN [below EXCEPT !.list = Append(@, k)]

Walked(list, deps, allowed) ==
  FoldLeft(LAMBDA s, k : Walk(s, k, deps, allowed), [list |-> <<>>, seen |-> {}, err |-> FALSE], list)
ListWalked(walk) == IF walk.err THEN Err ELSE walk.list

\* resolve_requested: the minimum is added last and everything needed with it.
Keys == Range(KeyOrder)
ResolveRequested(list, minimum, deps) == Walked(FoldLeft(Insert, list, minimum), deps, Keys).list

\* collect_dependencies, and kb_dependencies, where a source that exists once
\* per space needs the list of spaces.
CollectDeps(reg) == [k \in Keys |-> IF k \in DOMAIN reg THEN reg[k].collect ELSE <<>>]
KbDependencies(reg, list) ==
  [k \in Keys |-> IF Contains(list, k) /\ k \in DOMAIN reg /\ reg[k].spaces THEN <<"kibana_spaces">> ELSE <<>>]

(* -------------------------------- collection ------------------------------- *)
Minimum == [elasticsearch |-> <<"version">>, kibana |-> <<"kibana_status", "kibana_spaces">>,
            logstash |-> <<"logstash_node">>]

\* get_source_keys_with_tag and base_keys.
BaseKeys(reg, type) == SelectSeq(KeyOrder, LAMBDA k : k \in DOMAIN reg /\ type \in reg[k].tags)

\* es_base_apis, kb_base_apis, ls_base_apis: only Elasticsearch asks the
\* registry what a minimal diagnostic is.
BaseApis(product, reg, type) ==
  IF product # "elasticsearch" /\ type = "minimal" THEN Minimum[product] ELSE BaseKeys(reg, type)

\* resolve_keys and resolve_kb: inclusions, then exclusions, then what is needed.
Requested(product, reg, type, include, exclude) ==
  IF \E i \in DOMAIN include : ~Known(reg, include[i]) THEN Err
  ELSE IF \E i \in DOMAIN exclude : ~Known(reg, exclude[i]) THEN Err
  ELSE FoldLeft(LAMBDA l, n : SwapRemove(l, LegacyKeyMap(n)),
                FoldLeft(LAMBDA l, n : Insert(l, LegacyKeyMap(n)), BaseApis(product, reg, type), include),
                exclude)

DepsOf(product, reg, list) == IF product = "kibana" THEN KbDependencies(reg, list) ELSE CollectDeps(reg)
ResolveListed(product, reg, list) ==
  IF list = Err THEN Err ELSE ResolveRequested(list, Minimum[product], DepsOf(product, reg, list))
Resolve(product, reg, type, include, exclude) ==
  ResolveListed(product, reg, Requested(product, reg, type, include, exclude))

\* resolve_collected_keys: a custom diagnostic collects like a support one.
ResolveCollected(product, reg, type, include, exclude) ==
  IF product = "kibana" THEN Err
  ELSE Resolve(product, reg, IF type = "custom" THEN "support" ELSE type, include, exclude)

(* -------------------------------- processing ------------------------------- *)
\* processing_defs: required options first, then by key.
Options(reg) == {k \in DOMAIN reg : reg[k].option # "no"}
ProcessingDefs(reg) ==
  SelectSeq(KeyOrder, LAMBDA k : k \in DOMAIN reg /\ reg[k].option = "required")
  \o SelectSeq(KeyOrder, LAMBDA k : k \in DOMAIN reg /\ reg[k].option = "option")

\* default_processing_selection
Defaults(product, reg, type) ==
  IF type = "custom" THEN ProcessingDefs(reg)
  ELSE SelectSeq(Resolve(product, reg, type, <<>>, <<>>), LAMBDA k : k \in Options(reg))

\* resolve_processing_selection: nothing selected means the defaults; required
\* options are always added, and every option brings the ones it needs.
ResolveSelection(product, reg, type, selected) ==
  IF Options(reg) = {} \/ product = "kibana" THEN Err
  ELSE LET asked == IF selected = <<>> THEN Defaults(product, reg, type)
                    ELSE FoldLeft(LAMBDA l, n : Insert(l, LegacyKeyMap(n)), <<>>, selected)
           required == SelectSeq(ProcessingDefs(reg), LAMBDA k : reg[k].option = "required")
       IN ListWalked(Walked(FoldLeft(Insert, asked, required),
                            [k \in Keys |-> IF k \in DOMAIN reg THEN reg[k].deps ELSE <<>>], Options(reg)))

\* validate_resolved_processing_selection
AllCollected(collected, resolved) == Range(resolved) \subseteq Range(collected)

\* Mutant: the derived selection is not compared with what is collected.
Unchecked(collected, resolved) == resolved

Within(collected, resolved) ==
  IF resolved = Err THEN Err ELSE IF AllCollected(collected, resolved) THEN resolved ELSE Err

\* resolve_processing_selection_with_collect_filters
DerivedFrom(product, reg, type, collected) ==
  IF collected = Err THEN Err
  ELSE Within(collected, ResolveSelection(product, reg, type, SelectSeq(collected, LAMBDA k : k \in Options(reg))))
DerivedSelection(product, reg, type, include, exclude) ==
  DerivedFrom(product, reg, type, ResolveCollected(product, reg, type, include, exclude))

\* validate_processing_selection_with_collect_filters
Validates(collected, resolved) == collected # Err /\ resolved # Err /\ AllCollected(collected, resolved)

\* resolve_processing_options: the form shows every option, with what would be
\* processed marked.
OptionsShown(reg, resolved) ==
  IF resolved = Err THEN Err
  ELSE [k \in Options(reg) |-> [required |-> reg[k].option = "required", selected |-> Contains(resolved, k)]]
ProcessingOptions(product, reg, type, selected) == OptionsShown(reg, ResolveSelection(product, reg, type, selected))

(* -------------------------------- properties ------------------------------- *)
ClosedUnder(S, deps) == \A k \in S : Range(deps[k]) \subseteq S
Least(S, base, deps) ==
  /\ base \subseteq S /\ ClosedUnder(S, deps)
  /\ \A T \in SUBSET S : base \subseteq T /\ ClosedUnder(T, deps) => T = S

\* The keys one can get to from k.
Below(k, deps) == CHOOSE S \in SUBSET Keys : Least(S, Range(deps[k]), deps)

\* No key comes before one it needs, except around a cycle.
NeedsFirst(list, deps) ==
  \A i, j \in DOMAIN list :
    i < j /\ Contains(deps[list[i]], list[j]) => list[i] \in Below(list[j], deps)

NoDuplicates(list) == Cardinality(Range(list)) = Len(list)

\* What is collected is the least list that has what was asked for and not
\* excluded, the minimum, and whatever those need; needed sources come first.
Asked(product, reg, type, include, exclude) ==
  (Range(BaseApis(product, reg, type)) \cup {LegacyKeyMap(n) : n \in Range(include)}) \ {LegacyKeyMap(n) : n \in Range(exclude)}
IsClosure(got, asked, deps) == got # Err => NoDuplicates(got) /\ NeedsFirst(got, deps) /\ Least(Range(got), asked, deps)
CollectedIsClosure(product, reg, type, include, exclude) ==
  IsClosure(Resolve(product, reg, type, include, exclude),
            Asked(product, reg, type, include, exclude) \cup Range(Minimum[product]),
            DepsOf(product, reg, Requested(product, reg, type, include, exclude)))

\* The selection derived for a collection processes only what is collected, has
\* the required options and all that its options need, and is stable: stored and
\* given back as an explicit selection it is accepted and means the same.
SelectionStable(reg, collected, sel, again, shown) ==
  /\ Range(sel) \subseteq Range(collected)
  /\ {k \in DOMAIN reg : reg[k].option = "required"} \subseteq Range(sel)
  /\ \A k \in Range(sel) : Range(reg[k].deps) \subseteq Range(sel)
  /\ Validates(collected, again)
  /\ Range(again) = Range(sel)
  /\ \A k \in Options(reg) : (shown[k].required => shown[k].selected) /\ (shown[k].selected <=> Contains(sel, k))
SelectionHolds(product, reg, type, collected, sel) ==
  sel # Err => SelectionStable(reg, collected, sel, ResolveSelection(product, reg, type, sel),
                               ProcessingOptions(product, reg, type, sel))
SelectionIsCollected(product, reg, type, include, exclude) ==
  SelectionHolds(product, reg, type, ResolveCollected(product, reg, type, include, exclude),
                 DerivedSelection(product, reg, type, include, exclude))
===============================================================================
