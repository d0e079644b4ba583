-------------------------- MODULE OutputLifecycle --------------------------
(***************************************************************************)
(* The life of an output in meridian-compositor: start-up, connector scans *)
(* (hotplug), live configuration reloads, and the input that moves focus   *)
(* or switches workspaces.                                                 *)
(*                                                                         *)
(* One callback of the event loop may run several handlers, and each of    *)
(* them ends by broadcasting a snapshot to the shell, so the states        *)
(* between two handlers are visible.  The variable `work` holds the        *)
(* handlers the running callback has left; the next callback starts only   *)
(* when it is empty.  The hardware changes underneath at any time.         *)
(***************************************************************************)
EXTENDS OutputRegistry

CONSTANTS
    Connectors,  \* connector handles, in the order the kernel lists them
    NumCrtcs,    \* CRTCs of the GPU; any connector can be driven by any CRTC
    Configs,     \* the configurations a user may write
    Workspaces,  \* workspace indices
    MaxId        \* bound: no new output once this many ids were given out

ASSUME LifecycleAssumption ==
    /\ Connectors \subseteq Nat /\ Connectors # {}
    /\ NumCrtcs \in Nat \ {0}
    /\ Configs # {} /\ Configs \subseteq Config
    /\ 0 \in Workspaces
    /\ MaxId \in Nat

VARIABLES
    connected,     \* hardware: connectors with a display attached
    order,         \* history: "dock" as long as displays came and left as with
                   \* a docking station and no configuration disabled one
    config,        \* MeridianState::output_config_entries
    registry,      \* OutputRegistry::outputs
    nextId,        \* OutputRegistry::next_id
    outputs,       \* MeridianState::outputs, the Wayland outputs
    drm,           \* DrmBackend::outputs
    disabled,      \* DrmBackend::disabled_outputs
    focused,       \* WorkspaceOutputState::focused_output
    mapping,       \* WorkspaceOutputState::active_workspace_by_output
    globalActive,  \* WorkspaceManager::active
    work           \* handlers the running callback has still to run

hardware == <<connected, order>>
registered == <<registry, nextId>>
backend == <<outputs, drm, disabled>>
workspaceState == <<focused, mapping>>
vars == <<connected, order, config, registry, nextId, outputs, drm, disabled,
          focused, mapping, globalActive, work>>

Crtcs == 1..NumCrtcs

OutputRec == [conn : Connectors, name : Nat]
DrmRec == [conn : Connectors, crtc : Crtcs, name : Nat, id : Nat]
DisabledRec == [conn : Connectors, crtc : Crtcs, name : Nat]

Step == [op : {"boot"}, conn : Connectors, crtc : Crtcs, name : Nat, enabled : BOOLEAN]
        \cup [op : {"primaries"}, names : Seq(Nat)]
        \cup [op : {"add"}, conns : SUBSET Connectors]
        \cup [op : {"remove"}, conn : Connectors, id : Nat]
        \cup [op : {"apply"}, name : Nat, toggled : BOOLEAN, primary : BOOLEAN]
        \cup [op : {"sync"}]

TypeOK ==
    /\ connected \subseteq Connectors
    /\ order \in {"dock", "any"}
    /\ config \in Configs
    /\ registry \in Seq(Entry)
    /\ nextId \in Nat
    /\ outputs \in Seq(OutputRec)
    /\ drm \in Seq(DrmRec)
    /\ disabled \subseteq DisabledRec
    /\ focused \in Nat
    /\ DOMAIN mapping \subseteq Nat
    /\ mapping \in [DOMAIN mapping -> Workspaces]
    /\ globalActive \in Workspaces
    /\ work \in Seq(Step)

-----------------------------------------------------------------------------
Idle == work = <<>>

Running(op) == work # <<>> /\ Head(work).op = op

(* post_output_state_change, as far as focus and workspaces go: every      *)
(* change of the registry ends with it.                                    *)
SyncWorkspaceState ==
    /\ mapping' = SyncedMapping(registry', mapping, globalActive)
    /\ focused' = SyncedFocus(registry', focused)

(* handle_output_added_or_updated, for a registry that then gets its       *)
(* primary flags from `resolved`.                                          *)
RegisterOutput(name, resolved) ==
    /\ registry' = SyncPrimaryFlags(Upsert(registry, nextId, name), resolved)
    /\ nextId' = NextIdAfter(registry, nextId, name)
    /\ mapping' = SyncedMapping(registry', mapping, globalActive)
    /\ focused' = SyncedFocus(Upsert(registry, nextId, name), focused)

(* handle_output_removed and its variant in the disable path. *)
UnregisterOutput(pos) ==
    /\ registry' = RemoveEntry(registry, pos)
    /\ nextId' = nextId
    /\ SyncWorkspaceState

(* Mutant: the id is read before the output is registered. *)
PushOutputEarlyId(conn, crtc, name) ==
    /\ outputs' = Append(outputs, [conn |-> conn, name |-> name])
    /\ drm' = Append(drm, [conn |-> conn, crtc |-> crtc, name |-> name,
                           id |-> IdOfName(registry, name)])

(* The DrmOutput pushed after registration. *)
PushOutput(conn, crtc, name) ==
    /\ outputs' = Append(outputs, [conn |-> conn, name |-> name])
    /\ drm' = Append(drm, [conn |-> conn, crtc |-> crtc, name |-> name,
                           id |-> IdOfName(registry', name)])

DrmPositionOfConnector(conn) == SelectInSeq(drm, LAMBDA d : d.conn = conn)
DrmPositionOfName(name) == SelectInSeq(drm, LAMBDA d : d.name = name)
OutputPositionOfName(name) == SelectInSeq(outputs, LAMBDA o : o.name = name)

(* pick_crtc: the first CRTC no enabled output occupies. *)
FreeCrtcs == Crtcs \ {drm[i].crtc : i \in 1..Len(drm)}

(* DrmBackend::disabled_outputs.retain(name differs) followed by push. *)
Stored(rec) == {d \in disabled : d.name # rec.name} \cup {rec}

(* Mutant: disabled outputs are forgotten. *)
EnabledConnectors == {drm[i].conn : i \in 1..Len(drm)}

(* The connectors a scan takes for known. *)
KnownConnectors ==
    {drm[i].conn : i \in 1..Len(drm)} \cup {d.conn : d \in disabled}

-----------------------------------------------------------------------------
(* init_drm: connectors are named and given CRTCs in the order found. *)
BootSteps(conns, cfg) ==
    LET names == [i \in 1..Len(conns) |-> i - 1]
        resolved == Resolve(names, cfg)
    IN  Append([i \in 1..Len(conns) |->
                   [op |-> "boot", conn |-> conns[i], crtc |-> i,
                    name |-> names[i], enabled |-> resolved[i].enabled]],
               [op |-> "primaries", names |-> names])

Init ==
    /\ config \in Configs
    /\ \E n \in 1..NumCrtcs : \E conns \in [1..n -> Connectors] :
          /\ \A i, j \in 1..n : i < j => conns[i] < conns[j]
          /\ connected = {conns[i] : i \in 1..n}
          /\ work = BootSteps(conns, config)
    /\ registry = <<>> /\ nextId = 0
    /\ outputs = <<>> /\ drm = <<>> /\ disabled = {}
    /\ focused = NoOutput /\ mapping = <<>>
    /\ globalActive = 0
    /\ order = IF config.off = {} THEN "dock" ELSE "any"

(* One connector of init_drm; flags are synchronised once all are there. *)
BootOutput ==
    /\ Running("boot")
    /\ LET s == Head(work)
       IN  IF s.enabled
           THEN /\ RegisterOutput(s.name, <<>>)
                /\ PushOutput(s.conn, s.crtc, s.name)
                /\ UNCHANGED disabled
           ELSE /\ disabled' = disabled \cup
                      {[conn |-> s.conn, crtc |-> s.crtc, name |-> s.name]}
                /\ UNCHANGED <<registered, workspaceState, outputs, drm>>
    /\ work' = Tail(work)
    /\ UNCHANGED <<hardware, config, globalActive>>

(* Mutant: the flags of the upserts stay. *)
BootPrimariesSkipped ==
    /\ Running("primaries")
    /\ work' = Tail(work)
    /\ UNCHANGED <<hardware, config, registered, backend, workspaceState, globalActive>>

(* sync_primary_flags_from_resolved_layout at the end of start-up. *)
BootPrimaries ==
    /\ Running("primaries")
    /\ registry' = SyncPrimaryFlags(registry, Resolve(Head(work).names, config))
    /\ work' = Tail(work)
    /\ UNCHANGED <<hardware, config, nextId, backend, workspaceState, globalActive>>

-----------------------------------------------------------------------------
(* The history goes on: it says "dock" only while every event was one.      *)
Docked(still) == order' = IF still THEN order ELSE "any"

(* The display attached to a connector comes and goes.  With a docking     *)
(* station they leave in the reverse order they came, and only once the    *)
(* compositor has caught up with the last change.                          *)
Plug(c) ==
    /\ c \notin connected
    /\ connected' = connected \cup {c}
    /\ Docked(KnownConnectors \subseteq connected)
    /\ UNCHANGED <<config, registered, backend, workspaceState, globalActive, work>>

Unplug(c) ==
    /\ c \in connected
    /\ connected' = connected \ {c}
    /\ Docked(/\ KnownConnectors = connected
              /\ Len(outputs) > 1
              /\ outputs[Len(outputs)].conn = c)
    /\ UNCHANGED <<config, registered, backend, workspaceState, globalActive, work>>

(* scan_drm_connectors_for_h5b: classify every change first, then add the  *)
(* new connectors (in hash order), then remove the vanished ones.  The id  *)
(* of a removal is looked up now, before the additions run.                *)
ScanConnectors ==
    /\ Idle
    /\ LET added == connected \ KnownConnectors
           gone == {i \in 1..Len(drm) : drm[i].conn \notin connected}
           lost == {d.conn : d \in disabled} \ connected
           remove(conn, id) == [op |-> "remove", conn |-> conn, id |-> id]
       IN  /\ added # {} \/ gone # {} \/ lost # {}
           /\ \E pos \in InOrder(gone), conns \in SetToSeqs(lost) :
                 work' = (IF added = {} THEN <<>> ELSE <<[op |-> "add", conns |-> added]>>)
                         \o [k \in 1..Len(pos) |->
                               remove(drm[pos[k]].conn,
                                      IdOfName(registry, drm[pos[k]].name))]
                         \o [k \in 1..Len(conns) |-> remove(conns[k], NoOutput)]
    /\ UNCHANGED <<hardware, config, registered, backend, workspaceState, globalActive>>

AddDone(c) ==
    LET rest == Head(work).conns \ {c}
    IN  work' = IF rest = {} THEN Tail(work)
                ELSE <<[op |-> "add", conns |-> rest]>> \o Tail(work)

(* A hotplugged output is named after the number of Wayland outputs,       *)
(* whatever names those carry.                                             *)
GeneratedName == Len(outputs)

(* add_drm_output_via_hotplug_pipeline. *)
AddOutput(c) ==
    /\ Running("add") /\ c \in Head(work).conns
    /\ c \in connected
    /\ FreeCrtcs # {}
    /\ nextId < MaxId
    /\ LET name == GeneratedName
           crtc == Min(FreeCrtcs)
           resolved == Resolve(Append(NamesOf(registry), name), config)
           mine == SelectInSeq(resolved, LAMBDA r : r.name = name)
       IN  IF resolved[mine].enabled
           THEN /\ RegisterOutput(name, resolved)
                /\ PushOutput(c, crtc, name)
                /\ UNCHANGED disabled
           ELSE /\ disabled' = Stored([conn |-> c, crtc |-> crtc, name |-> name])
                /\ UNCHANGED <<registered, workspaceState, outputs, drm>>
    /\ AddDone(c)
    /\ UNCHANGED <<hardware, config, globalActive>>

(* Every early return of the same function: the display is gone again, no  *)
(* CRTC is free, or the device, a mode or the swapchain is not available.  *)
AddOutputSkipped(c) ==
    /\ Running("add") /\ c \in Head(work).conns
    /\ AddDone(c)
    /\ UNCHANGED <<hardware, config, registered, backend, workspaceState, globalActive>>

(* remove_drm_output_via_hotplug_pipeline for an enabled output.  The      *)
(* Wayland output is found by name, the registry entry by the id of the    *)
(* candidate or, without one, by name.                                     *)
RemoveOutput ==
    /\ Running("remove")
    /\ LET pos == DrmPositionOfConnector(Head(work).conn)
           name == drm[pos].name
           wl == OutputPositionOfName(name)
           id == IF Head(work).id # NoOutput THEN Head(work).id
                 ELSE IdOfName(registry, name)
       IN  /\ pos # 0
           /\ drm' = RemoveAt(drm, pos)
           /\ outputs' = IF wl = 0 THEN outputs ELSE RemoveAt(outputs, wl)
           /\ IF id \in Ids(registry)
              THEN UnregisterOutput(PositionOfId(registry, id))
              ELSE UNCHANGED <<registered, workspaceState>>
    /\ work' = Tail(work)
    /\ UNCHANGED <<hardware, config, disabled, globalActive>>

(* The same handler for an output the configuration disables. *)
RemoveDisabled ==
    /\ Running("remove")
    /\ LET c == Head(work).conn
       IN  /\ DrmPositionOfConnector(c) = 0
           /\ disabled' = {d \in disabled : d.conn # c}
    /\ work' = Tail(work)
    /\ UNCHANGED <<hardware, config, registered, outputs, drm, workspaceState, globalActive>>

-----------------------------------------------------------------------------
(* reload_config: the resolver runs once over the registered and the       *)
(* disabled outputs, then reapply_output_layout visits them in that order. *)
ReloadConfig(cfg) ==
    /\ Idle
    /\ cfg # config
    /\ config' = cfg
    /\ \E rest \in SetToSeqs({d.name : d \in disabled} \ Names(registry)) :
          LET resolved == Resolve(NamesOf(registry) \o rest, cfg)
              step(r) == [op |-> "apply", name |-> r.name, primary |-> r.primary,
                          toggled |-> (r.name \in config.off) # (r.name \in cfg.off)]
          IN  work' = IF resolved = <<>> THEN <<>>
                      ELSE Append([i \in 1..Len(resolved) |-> step(resolved[i])],
                                  [op |-> "sync"])
    /\ Docked(cfg.off = {})
    /\ UNCHANGED <<connected, registered, backend, workspaceState, globalActive>>

(* An output whose enabled setting did not change: only its flag is set. *)
ApplyPrimary ==
    /\ Running("apply") /\ ~Head(work).toggled
    /\ registry' = SetPrimary(registry, Head(work).name, Head(work).primary)
    /\ work' = Tail(work)
    /\ UNCHANGED <<hardware, config, nextId, backend, workspaceState, globalActive>>

(* The setting went to false.  The decision reads the configuration entry, *)
(* not the resolved layout.                                                *)
ApplyDisable ==
    /\ Running("apply") /\ Head(work).toggled /\ Head(work).name \in config.off
    /\ LET name == Head(work).name
           pos == DrmPositionOfName(name)
       IN  IF pos = 0
           THEN UNCHANGED <<registered, backend, workspaceState>>
           ELSE /\ drm' = RemoveAt(drm, pos)
                /\ disabled' = Stored([conn |-> drm[pos].conn, crtc |-> drm[pos].crtc,
                                       name |-> name])
                /\ \E kept \in InOrder({i \in 1..Len(outputs) : outputs[i].name # name}) :
                      outputs' = [k \in 1..Len(kept) |-> outputs[kept[k]]]
                /\ IF name \in Names(registry)
                   THEN UnregisterOutput(PositionOfName(registry, name))
                   ELSE /\ UNCHANGED registered
                        /\ SyncWorkspaceState
    /\ work' = Tail(work)
    /\ UNCHANGED <<hardware, config, globalActive>>

(* The setting went to true: build_and_register_disabled_output on the     *)
(* CRTC the output had before.  The resolved primary flag is not applied.  *)
ApplyEnable ==
    /\ Running("apply") /\ Head(work).toggled /\ Head(work).name \notin config.off
    /\ \E d \in disabled :
          /\ d.name = Head(work).name
          /\ d.conn \in connected
          /\ nextId < MaxId
          /\ disabled' = disabled \ {d}
          /\ RegisterOutput(d.name, <<>>)
          /\ PushOutput(d.conn, d.crtc, d.name)
    /\ work' = Tail(work)
    /\ UNCHANGED <<hardware, config, globalActive>>

(* The output is not in the disabled list, or cannot be built and is put   *)
(* back there.                                                             *)
ApplyEnableSkipped ==
    /\ Running("apply") /\ Head(work).toggled /\ Head(work).name \notin config.off
    /\ work' = Tail(work)
    /\ UNCHANGED <<hardware, config, registered, backend, workspaceState, globalActive>>

FinishReload ==
    /\ Running("sync")
    /\ UNCHANGED registered
    /\ SyncWorkspaceState
    /\ work' = Tail(work)
    /\ UNCHANGED <<hardware, config, backend, globalActive>>

-----------------------------------------------------------------------------
(* update_focused_output_from_point / _from_surface on a registered output. *)
FocusOutput(id) ==
    /\ Idle
    /\ id \in Ids(registry) \ {focused}
    /\ focused' = id
    /\ UNCHANGED <<hardware, config, registered, backend, mapping, globalActive, work>>

(* switch_workspace_for_focused_output. *)
SwitchWorkspace(ws) ==
    /\ Idle
    /\ LET target == SyncedFocus(registry, focused)
       IN  mapping' = IF target = NoOutput THEN mapping
                      ELSE [id \in DOMAIN mapping \cup {target} |->
                              IF id = target THEN ws ELSE mapping[id]]
    /\ globalActive' = ws
    /\ UNCHANGED <<hardware, config, registered, backend, focused, work>>

-----------------------------------------------------------------------------
Next ==
    \/ BootOutput \/ BootPrimaries
    \/ \E c \in Connectors : Plug(c) \/ Unplug(c)
    \/ ScanConnectors
    \/ \E c \in Connectors : AddOutput(c) \/ AddOutputSkipped(c)
    \/ RemoveOutput \/ RemoveDisabled
    \/ \E cfg \in Configs : ReloadConfig(cfg)
    \/ ApplyPrimary \/ ApplyDisable \/ ApplyEnable \/ ApplyEnableSkipped
    \/ FinishReload
    \/ \E id \in 1..nextId : FocusOutput(id)
    \/ \E ws \in Workspaces : SwitchWorkspace(ws)

Spec == Init /\ [][Next]_vars

-----------------------------------------------------------------------------
(* Safety. *)

(* Each registered output shows exactly one workspace, and no unregistered *)
(* output keeps a mapping, also between two handlers of one callback       *)
(* (docs/WORKSPACES.md, invariants 3 and 6): every path that changes the   *)
(* registry re-synchronises the mapping.                                   *)
MappingMatchesRegistry == DOMAIN mapping = Ids(registry)

(* Focus is on a registered output whenever there is one: a removal, a     *)
(* disable or a removal through a stale id never leaves focus dangling.    *)
FocusIsRegistered ==
    IF registry = <<>> THEN focused = NoOutput ELSE focused \in Ids(registry)

(* The registry never holds two entries of one name or of one id, and      *)
(* every id was handed out by the counter, even when hotplug generates a   *)
(* name that is already taken.                                             *)
RegistryIdentity ==
    /\ \A i, j \in 1..Len(registry) :
          i # j => /\ registry[i].name # registry[j].name
                   /\ registry[i].id # registry[j].id
    /\ \A i \in 1..Len(registry) : registry[i].id \in 1..nextId

(* No connector is driven twice, or both driven and kept as disabled, over *)
(* any interleaving of scans, failed re-enables and reloads.               *)
ConnectorTrackedOnce ==
    /\ \A i, j \in 1..Len(drm) : i # j => drm[i].conn # drm[j].conn
    /\ \A i \in 1..Len(drm) : \A d \in disabled : d.conn # drm[i].conn

(* A registered output always has a DRM output of its name behind it, so   *)
(* the shell is never told of an output nothing renders.                   *)
RegisteredIsDriven ==
    \A i \in 1..Len(registry) : \E j \in 1..Len(drm) : drm[j].name = registry[i].name

(* Ids are unique over time: an id that enters the registry is larger than *)
(* every id handed out before (docs/WORKSPACES.md, Output Add), and the    *)
(* counter never goes back.                                                *)
IdsNeverReused ==
    [][/\ nextId' >= nextId
       /\ \A id \in Ids(registry') \ Ids(registry) : id \in nextId+1..nextId']_vars

(* A handler never moves the focus off an output that stays: it moves only *)
(* by input between callbacks, from no output at all, or off an output     *)
(* that left the registry.                                                 *)
FocusStable ==
    [][focused' # focused =>
          \/ focused \notin Ids(registry')
          \/ Idle /\ registry' = registry /\ focused' \in Ids(registry)]_vars

(* A hotplug or a reload never changes the workspace shown on an output    *)
(* that stays.                                                             *)
MappingStable ==
    [][work # <<>> =>
          \A id \in DOMAIN mapping \cap DOMAIN mapping' : mapping'[id] = mapping[id]]_vars

-----------------------------------------------------------------------------
(* Agreement of the three output lists.  It holds while names stay unique, *)
(* as with a docking station: a name that hotplug generates twice breaks   *)
(* it.                                                                     *)

(* Between callbacks the registry and the DRM backend list the same        *)
(* outputs under the same ids, and so do the Wayland outputs.              *)
ListsAgree ==
    Idle => /\ Ids(registry) = {drm[i].id : i \in 1..Len(drm)}
            /\ \A i \in 1..Len(drm) : drm[i].id = IdOfName(registry, drm[i].name)
            /\ {outputs[i] : i \in 1..Len(outputs)}
                  = {[conn |-> drm[i].conn, name |-> drm[i].name] : i \in 1..Len(drm)}

(* Between callbacks exactly one output is primary if there is an output,  *)
(* and it is the configured one when that one is registered.               *)
ConfiguredPrimary ==
    Idle /\ config.primary \in Names(registry)
        => FallbackId(registry) = IdOfName(registry, config.primary)

(* With a docking station, between callbacks registry, Wayland outputs and *)
(* DRM outputs list the same outputs under the same names, and the         *)
(* configured output is the primary one.                                   *)
DockAgrees == order = "dock" => ListsAgree /\ ConfiguredPrimary

=============================================================================
