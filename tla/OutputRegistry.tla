--------------------------- MODULE OutputRegistry ---------------------------
(***************************************************************************)
(* The compositor's output registry (state/output_registry.rs), the layout *)
(* resolver that decides which outputs are enabled and primary             *)
(* (state/output_layout.rs) and the per-output workspace mapping           *)
(* (state/workspace_output_state.rs), as operators on values.              *)
(*                                                                         *)
(* A registry is a sequence of entries in registration order: the order    *)
(* matters, because the first entry is the fallback whenever no entry      *)
(* carries the primary flag.  Output ids start at 1, so 0 stands for       *)
(* Option::None.  An output name "drm-<n>" is the number n.                *)
(***************************************************************************)
EXTENDS Naturals, Sequences, FiniteSets, SequencesExt

NoOutput == 0
NoName == 99

Entry == [id : Nat \ {NoOutput}, name : Nat, primary : BOOLEAN]

(* The one sequence that lists a set of numbers in increasing order, as a  *)
(* singleton set: Vec::retain and Iterator::filter keep the order.         *)
InOrder(S) ==
    {p \in SetToSeqs(S) : \A i, j \in 1..Cardinality(S) : i < j => p[i] < p[j]}

(* OutputRegistry::list, projected on the ids and the names. *)
Ids(reg) == {reg[i].id : i \in 1..Len(reg)}
Names(reg) == {reg[i].name : i \in 1..Len(reg)}

(* OutputRegistry::by_id and by_name as positions, 0 when there is none. *)
PositionOfId(reg, id) == SelectInSeq(reg, LAMBDA e : e.id = id)
PositionOfName(reg, name) == SelectInSeq(reg, LAMBDA e : e.name = name)

(* The id registered under a name, NoOutput when the name is unknown. *)
IdOfName(reg, name) ==
    IF name \in Names(reg) THEN reg[PositionOfName(reg, name)].id ELSE NoOutput

(* OutputRegistry::primary: the first flagged entry, else the first entry. *)
FallbackId(reg) ==
    IF reg = <<>>
    THEN NoOutput
    ELSE LET flagged == {i \in 1..Len(reg) : reg[i].primary}
             pos == IF flagged = {} THEN 1 ELSE Min(flagged)
         IN  reg[pos].id

(* OutputRegistry::upsert: a known name keeps its entry and its id. *)
Upsert(reg, nextId, name) ==
    IF name \in Names(reg)
    THEN reg
    ELSE Append(reg, [id |-> nextId + 1, name |-> name, primary |-> reg = <<>>])

(* The id counter after the same upsert. *)
NextIdAfter(reg, nextId, name) ==
    IF name \in Names(reg) THEN nextId ELSE nextId + 1

(* OutputRegistry::ensure_primary_after_mutation. *)
EnsurePrimary(reg) ==
    IF reg = <<>> \/ \E i \in 1..Len(reg) : reg[i].primary
    THEN reg
    ELSE [reg EXCEPT ![1].primary = TRUE]

(* Mutant: the last entry goes, whichever was meant. *)
RemoveEntryLast(reg, pos) == EnsurePrimary(RemoveAt(reg, Len(reg)))

(* OutputRegistry::remove_by_id and remove_by_name, at a known position. *)
RemoveEntry(reg, pos) == EnsurePrimary(RemoveAt(reg, pos))

(* OutputRegistry::reconfigure_by_name with primary = Some(flag). *)
SetPrimary(reg, name, flag) ==
    [i \in 1..Len(reg) |->
        IF reg[i].name = name THEN [reg[i] EXCEPT !.primary = flag] ELSE reg[i]]

(* sync_primary_flags_from_resolved_layout: the resolved outputs are       *)
(* written in order, so the last one of a name decides.                    *)
SyncPrimaryFlags(reg, resolved) ==
    LET last(name) == SelectLastInSeq(resolved, LAMBDA r : r.name = name)
    IN  [i \in 1..Len(reg) |->
            IF last(reg[i].name) = 0
            THEN reg[i]
            ELSE [reg[i] EXCEPT !.primary = resolved[last(reg[i].name)].primary]]

-----------------------------------------------------------------------------
(* A configuration: the names whose entry says enabled = false, and the    *)
(* name whose entry says primary = true (NoName when there is none).       *)
Config == [off : SUBSET Nat, primary : Nat]

(* OutputLayout::resolve followed by enforce_at_least_one_enabled.         *)
(* Exactly one output is primary: the configured one when it is enabled    *)
(* and connected, else the first enabled one.                              *)
Resolve(names, cfg) ==
    LET on == {i \in 1..Len(names) : names[i] \notin cfg.off}
        chosen == {i \in on : names[i] = cfg.primary}
        primary == CASE chosen # {} -> Min(chosen)
                     [] chosen = {} /\ on # {} -> Min(on)
                     [] OTHER -> 1
    IN  [i \in 1..Len(names) |->
            [name |-> names[i],
             enabled |-> on = {} \/ i \in on,
             primary |-> i = primary]]

NamesOf(reg) == [i \in 1..Len(reg) |-> reg[i].name]

-----------------------------------------------------------------------------
(* Mutants: mappings are never dropped, or always start over; focus is only *)
(* repaired when there is none, or always goes to the primary output.      *)
SyncedMappingKeepsGone(reg, mapping, globalActive) ==
    [id \in Ids(reg) \cup DOMAIN mapping |->
        IF id \in DOMAIN mapping THEN mapping[id] ELSE globalActive]

SyncedMappingRestarts(reg, mapping, globalActive) == [id \in Ids(reg) |-> globalActive]

SyncedFocusIfNone(reg, focus) == IF focus # NoOutput THEN focus ELSE FallbackId(reg)

SyncedFocusPrimary(reg, focus) == FallbackId(reg)

(* WorkspaceOutputState::sync_outputs_with_workspace_state: mappings of    *)
(* unregistered outputs are dropped, new outputs start on the global       *)
(* active workspace, and a focus on nothing or on an unregistered output   *)
(* falls back to the primary or first output.                              *)
SyncedMapping(reg, mapping, globalActive) ==
    [id \in Ids(reg) |->
        IF id \in DOMAIN mapping THEN mapping[id] ELSE globalActive]

SyncedFocus(reg, focus) ==
    IF focus \in Ids(reg) THEN focus ELSE FallbackId(reg)
=============================================================================
