----------------------------- MODULE BlockReports -----------------------------
(***************************************************************************)
(* The block states of all versions under ids of the limbo's own, and back  *)
(* to the ids of one version (crates/blocks_report, whose build script      *)
(* computes both from the reports of Minecraft's data generator, and        *)
(* crates/blocks_report_data).                                              *)
(*                                                                         *)
(* A report is a version with the states its blocks have: the name of the   *)
(* block, its properties, the id in this version and whether it is the      *)
(* block's default. The order of the states within a report is that of a    *)
(* hash map.                                                                *)
(***************************************************************************)
EXTENDS Integers, Sequences, FiniteSets, SequencesExt

CONSTANTS
    BlocksReports,              \* the reports, by version, oldest first
    BlockEntityTypes,           \* versions and the ids of their block entities
    TransparentBlocks,          \* TRANSPARENT_BLOCK_PATTERNS
    LightEmittingBlocks,        \* LIGHT_EMITTING_BLOCKS: names and levels
    HashMapOrder(_)             \* the states of a report, in some order

\* Properties are a set of names with values.
NoProperties == {}

Key(state) == [name |-> state.name, properties |-> state.properties]
Keys(report) == {Key(s) : s \in report.states}

\* The states in the order in which they are discovered.
Discovered(reports) ==
    FoldLeft(LAMBDA before, report : before \o HashMapOrder(Keys(report) \ ToSet(before)),
             <<>>, reports)

StateData(internal_id, name) ==
    [internal_id |-> internal_id,
     transparent |-> name \in TransparentBlocks,
     light |-> IF name \in DOMAIN LightEmittingBlocks
               THEN LightEmittingBlocks[name] % 16 ELSE 0]

\* The last report that has the block says which state is its default.
DefaultProperties(name) ==
    LET Defaults(i) == {s \in BlocksReports[i].states : s.name = name /\ s.default}
        last == CHOOSE i \in DOMAIN BlocksReports :
                    /\ Defaults(i) # {}
                    /\ \A j \in (i + 1)..Len(BlocksReports) : Defaults(j) = {}
    IN  (CHOOSE s \in Defaults(last) : TRUE).properties

\* build_internal_id_mapping: each block's states and its default state
InternalMapping ==
    LET keys == Discovered(BlocksReports)
        StatesOf(name) == {i \in DOMAIN keys : keys[i].name = name}
    IN  [name \in {keys[i].name : i \in DOMAIN keys} |->
           LET default == CHOOSE i \in StatesOf(name) :
                             keys[i].properties = DefaultProperties(name)
           IN  [states |-> {[properties |-> keys[i].properties,
                             state_data |-> StateData(i - 1, name)] : i \in StatesOf(name)},
                default_state_data |-> StateData(default - 1, name)]]

FALLBACK_STONE_ID == 1

HasBlocksReport(pvn) == \E i \in DOMAIN BlocksReports : BlocksReports[i].pvn = pvn
BlocksReportOf(pvn) ==
    BlocksReports[CHOOSE i \in DOMAIN BlocksReports : BlocksReports[i].pvn = pvn]

InternalIds ==
    UNION {{s.state_data.internal_id : s \in InternalMapping[n].states} : n \in DOMAIN InternalMapping}

InternalIdOf(state) ==
    (CHOOSE s \in InternalMapping[state.name].states :
        s.properties = state.properties).state_data.internal_id

\* build_report_mappings: a state that a version does not have is stone there.
\* get_block_report_id_mapping has no other versions.
ReportMapping ==
    [pvn \in {BlocksReports[i].pvn : i \in DOMAIN BlocksReports} |->
       [id \in InternalIds |->
          LET here == {s \in BlocksReportOf(pvn).states : InternalIdOf(s) = id}
          IN  IF here = {} THEN FALLBACK_STONE_ID ELSE (CHOOSE s \in here : TRUE).id]]

\* parse_state_string, of a string that is taken apart into a name and properties
IsKnownState(mapping, block) ==
    /\ block.name \in DOMAIN mapping
    /\ block.properties # NoProperties =>
         \E s \in mapping[block.name].states : s.properties = block.properties

ParseStateString(mapping, block) ==
    LET states == mapping[block.name]
    IN  IF block.properties = NoProperties THEN states.default_state_data
        ELSE (CHOOSE s \in states.states : s.properties = block.properties).state_data

\* get_block_entity_lookup: the closest version with data, else the latest
BlockEntityTypeLookup(pvn) ==
    LET older == {i \in DOMAIN BlockEntityTypes : BlockEntityTypes[i].pvn <= pvn}
        closest == IF older = {} THEN Len(BlockEntityTypes)
                   ELSE CHOOSE i \in older : \A j \in older : j <= i
    IN  BlockEntityTypes[closest].type_map

=============================================================================
