---------------------------- MODULE NodeRegistry ----------------------------
(***************************************************************************)
(* The lights of one config entry: the node list in the entry's options,   *)
(* the flows that put lights on the mesh and into the list                 *)
(* (config_flow.py), the removals, and the entities' view of the list      *)
(* (_nodes_from_entry).  A change of the list only schedules a reload; the *)
(* reload unloads the entry and sets it up again in steps of its own, with *)
(* awaits between them, and either half may fail (__init__.py).            *)
(*                                                                         *)
(* A flow picks an address, waits for the provisioning session, asks its   *)
(* user two more questions and only then adds the light to the list.  A    *)
(* settings record stands for the model and the readback settings of a     *)
(* node; "legacy" is the same setting where older versions kept it, on the *)
(* entry.                                                                  *)
(***************************************************************************)
EXTENDS Integers, FiniteSets, FiniteSetsExt

CONSTANTS
  Flows,            \* config and options flows that can be open at once
  Lights,           \* factory-reset lights
  First,            \* the light the entry was created with
  Elements,         \* how many addresses each light occupies
  ElementsPerNode,  \* ELEMENTS_PER_NODE
  FirstAddress,     \* DEFAULT_NODE_ADDRESS
  LastAddress,      \* bound on the addresses
  Settings, Default, Unset,
  MaxSteps          \* bound on removals, resets and changes

ASSUME RegistryAssumption ==
  /\ First \notin Lights /\ Elements \in [Lights \cup {First} -> Nat \ {0}]
  /\ ElementsPerNode \in Nat \ {0} /\ {FirstAddress, LastAddress, MaxSteps} \subseteq Nat
  /\ FirstAddress <= LastAddress
  /\ Default \in Settings /\ Unset \notin Settings

Address == FirstAddress .. LastAddress
Node == [light : Lights \cup {First}, at : Address, span : Nat, set : Settings \cup {Unset}]
Nowhere == 0

VARIABLES
  nodes,     \* entry.options[CONF_NODES]
  legacy,    \* the entry-wide option, if there is one
  stored,    \* nodes and legacy as Home Assistant stores them
  shown,     \* runtime_data.nodes: what the entities were built from, if there are any
  entry,     \* where the entry is in being loaded, unloaded and set up
  due,       \* reloads scheduled and not begun
  flow,      \* per flow: what it is about to add
  onMesh,    \* where each light really is
  steps,     \* removals, resets and changes so far
  owed,      \* history: the lights added and not removed since, with their addresses
  removed,   \* history: a light has been removed from the list
  squeezed,  \* history: a light larger than the allocator assumes was let in after that
  overlap    \* history: two flows have been between address and list at once

vars == <<nodes, legacy, stored, shown, entry, due, flow, onMesh, steps, owed, removed, squeezed, overlap>>

Idle == [phase |-> "idle"]
FlowState == {Idle} \cup [phase : {"provisioning", "form"}, kind : {"join", "options"},
                          light : Lights, at : Address, read : SUBSET Node]
View == [at : Address, set : Settings]
Phases == {"setup", "loading", "forward", "loaded", "unloading", "retry", "error", "stuck"}

view == <<shown, entry, due>>
options == <<nodes, legacy, stored>>
history == <<owed, removed, squeezed, overlap>>

-----------------------------------------------------------------------------
\* Mutant: a node takes one address.
OccupiedPrimaries(list) == {n.at : n \in list}

\* _occupied_addresses and _next_free_node_address.
Occupied(list) == UNION {n.at .. n.at + n.span - 1 : n \in list}
Free(taken) == {c \in Address : /\ (c - FirstAddress) % ElementsPerNode = 0
                                /\ (c .. c + ElementsPerNode - 1) \cap taken = {}}

\* _nodes_from_entry: an empty list falls back to the entry's first light.
Resolved(list, wide) ==
  LET or(own) == IF own # Unset THEN own ELSE IF wide # Unset THEN wide ELSE Default
  IN  IF list = {} THEN {[at |-> FirstAddress, set |-> or(Unset)]}
      ELSE {[at |-> n.at, set |-> or(n.set)] : n \in list}

\* The first light is recorded with as many elements as the allocator assumes: its
\* own count is lost on the way (see Provisioning).
Init == /\ \E own \in Settings \cup {Unset} :
             nodes = {[light |-> First, at |-> FirstAddress, span |-> ElementsPerNode, set |-> own]}
        /\ legacy \in Settings \cup {Unset}
        /\ stored = <<nodes, legacy>>
        /\ shown = {} /\ entry = "setup" /\ due = 0
        /\ flow = [f \in Flows |-> Idle]
        /\ onMesh = [l \in Lights \cup {First} |-> IF l = First THEN FirstAddress ELSE Nowhere]
        /\ steps = 0 /\ owed = {<<First, FirstAddress>>}
        /\ removed = FALSE /\ squeezed = FALSE /\ overlap = FALSE

TypeOK == /\ nodes \subseteq Node /\ legacy \in Settings \cup {Unset}
          /\ stored \in (SUBSET Node) \X (Settings \cup {Unset})
          /\ shown \subseteq View /\ entry \in Phases /\ due \in Nat
          /\ flow \in [Flows -> FlowState]
          /\ onMesh \in [Lights \cup {First} -> Address \cup {Nowhere}]
          /\ steps \in 0 .. MaxSteps
          /\ owed \subseteq (Lights \cup {First}) \X Address /\ {removed, squeezed, overlap} \subseteq BOOLEAN

\* Mutant: set-up registers the listener last, when the platforms are set up.
ListeningLate == entry \in {"loaded", "unloading"}

\* add_update_listener is called in the step of set-up that reads the list, and
\* undone when the unload has ended.
Listening == entry \in {"forward", "loaded", "unloading"}

\* async_update_entry: options equal to the old ones change nothing; others are
\* stored, and the update listener, if there is one, has a reload scheduled.  before
\* is what the old options are worth when they are compared.
UpdateEntry(before, list, wide) ==
  /\ nodes' = list
  /\ legacy' = IF before = <<list, wide>> THEN legacy ELSE wide
  /\ stored' = IF before = <<list, wide>> THEN stored ELSE <<list, wide>>
  /\ due' = IF before # <<list, wide>> /\ Listening THEN due + 1 ELSE due
  /\ UNCHANGED <<shown, entry>>

-----------------------------------------------------------------------------
\* async_reload waits for the entry's setup lock; an entry that is not loaded has
\* nothing to unload.
ReloadStarts == /\ due > 0 /\ entry \in {"loaded", "retry", "error"}
                /\ due' = due - 1
                /\ entry' = IF entry = "loaded" THEN "unloading" ELSE "setup"
                /\ UNCHANGED <<options, shown, flow, onMesh, steps, history>>

InPhase(f, phase) == flow[f] # Idle /\ flow[f].phase = phase

\* async_unload_entry: the entities go, then the link shuts down, which waits for a
\* provisioning session that has the link's lock.  When either raises, Home
\* Assistant will not touch the entry again, nor begin a reload, before it restarts.
Unloaded == /\ entry = "unloading" /\ \A f \in Flows : ~InPhase(f, "provisioning")
            /\ \/ entry' = "setup" /\ shown' = {} /\ due' = due
               \/ entry' = "stuck" /\ shown' \in {{}, shown} /\ due' = 0
            /\ UNCHANGED <<options, flow, onMesh, steps, history>>

\* async_setup_entry up to the store's await: not ready when no light is in reach.
SetUpBegins == /\ entry = "setup"
               /\ entry' \in {"loading", "retry"}
               /\ UNCHANGED <<options, shown, due, flow, onMesh, steps, history>>
RetryComes == /\ entry = "retry"
              /\ entry' = "setup"
              /\ UNCHANGED <<options, shown, due, flow, onMesh, steps, history>>

\* The store has answered or raised.  The list is read only now, and the listener is
\* registered before the platforms are awaited.
StoreLoaded == /\ entry = "loading"
               /\ \/ entry' = "forward" /\ shown' = Resolved(nodes, legacy)
                  \/ entry' = "error" /\ UNCHANGED shown
               /\ UNCHANGED <<options, due, flow, onMesh, steps, history>>
Forwarded == /\ entry = "forward"
             /\ entry' = "loaded"
             /\ UNCHANGED <<options, shown, due, flow, onMesh, steps, history>>

-----------------------------------------------------------------------------
\* async_step_join_existing, async_step_provision_node: the address is picked
\* from the list as it is now, the link is the entry's.  A join wants it loaded.
Submit(f, l, kind) ==
  /\ IF kind = "join" THEN entry = "loaded" ELSE entry \in {"forward", "loaded", "unloading"}
  /\ flow[f] = Idle
  /\ onMesh[l] = Nowhere /\ \A g \in Flows : flow[g] # Idle => flow[g].light # l
  /\ Free(Occupied(nodes)) # {}
  /\ flow' = [flow EXCEPT ![f] = [phase |-> "provisioning", kind |-> kind, light |-> l,
                                  at |-> Min(Free(Occupied(nodes))), read |-> nodes]]
  /\ overlap' = (overlap \/ \E g \in Flows : flow[g] # Idle)
  /\ squeezed' = (squeezed \/ (removed /\ Elements[l] > ElementsPerNode))
  /\ UNCHANGED <<options, view, onMesh, steps, owed, removed>>

Provisioned(f) ==
  /\ InPhase(f, "provisioning")
  /\ onMesh' = [onMesh EXCEPT ![flow[f].light] = flow[f].at]
  /\ flow' = [flow EXCEPT ![f].phase = "form"]
  /\ UNCHANGED <<options, view, steps, owed, removed, squeezed, overlap>>

\* The session failed before the light took the address, or the bind after it.
ProvisionFails(f) ==
  /\ InPhase(f, "provisioning")
  /\ onMesh' \in {onMesh, [onMesh EXCEPT ![flow[f].light] = flow[f].at]}
  /\ flow' = [flow EXCEPT ![f] = Idle]
  /\ UNCHANGED <<options, view, steps, owed, removed, squeezed, overlap>>

\* The user closes the dialog.
Abandon(f) == /\ InPhase(f, "form")
              /\ flow' = [flow EXCEPT ![f] = Idle]
              /\ UNCHANGED <<options, view, onMesh, steps, owed, removed, squeezed, overlap>>

Added(f, own) == [light |-> flow[f].light, at |-> flow[f].at,
                  span |-> Elements[flow[f].light], set |-> own]

\* Mutant: the list is the one the flow read when it began.
CompleteStale(f, own) ==
  /\ InPhase(f, "form")
  /\ flow[f].kind = "join" => entry = "loaded"
  /\ UpdateEntry(<<nodes, legacy>>, flow[f].read \cup {Added(f, own)},
                 IF flow[f].kind = "join" THEN legacy ELSE Unset)
  /\ owed' = owed \cup {<<flow[f].light, flow[f].at>>}
  /\ flow' = [flow EXCEPT ![f] = Idle]
  /\ UNCHANGED <<onMesh, steps, removed, squeezed, overlap>>

\* _complete_join keeps the entry's other options, and raises while the entry is not
\* loaded, so that the form is still there; _complete_provision, an options flow,
\* replaces all options.
Complete(f, own) ==
  /\ InPhase(f, "form")
  /\ flow[f].kind = "join" => entry = "loaded"
  /\ UpdateEntry(<<nodes, legacy>>, nodes \cup {Added(f, own)},
                 IF flow[f].kind = "join" THEN legacy ELSE Unset)
  /\ owed' = owed \cup {<<flow[f].light, flow[f].at>>}
  /\ flow' = [flow EXCEPT ![f] = Idle]
  /\ UNCHANGED <<onMesh, steps, removed, squeezed, overlap>>

-----------------------------------------------------------------------------
Counted == steps < MaxSteps /\ steps' = steps + 1

Without(ats) == {n \in nodes : n.at \notin ats}

\* async_step_remove_node: refuses to remove every light.
RemoveNodes(ats) ==
  /\ Counted
  /\ Without(ats) # {} /\ Without(ats) # nodes
  /\ UpdateEntry(<<nodes, legacy>>, Without(ats), Unset)
  /\ owed' = {o \in owed : o[2] \notin ats} /\ removed' = TRUE
  /\ UNCHANGED <<flow, onMesh, squeezed, overlap>>

\* async_remove_config_entry_device: the last one may go too.
RemoveDevice(at) ==
  /\ Counted
  /\ \E n \in nodes : n.at = at
  /\ UpdateEntry(<<nodes, legacy>>, Without({at}), legacy)
  /\ owed' = {o \in owed : o[2] # at} /\ removed' = TRUE
  /\ UNCHANGED <<flow, onMesh, squeezed, overlap>>

\* _complete_set_model changes the node's dictionary, which the options share,
\* before Home Assistant compares the options.
SetModel(n, own) ==
  /\ Counted
  /\ n \in nodes
  /\ LET list == (nodes \ {n}) \cup {[n EXCEPT !.set = own]} IN
     UpdateEntry(<<list, legacy>>, list, Unset)
  /\ UNCHANGED <<flow, onMesh, owed, removed, squeezed, overlap>>

\* Home Assistant restarts; flows do not survive it.
Restart == /\ Counted
           /\ nodes' = stored[1] /\ legacy' = stored[2]
           /\ shown' = {} /\ entry' = "setup" /\ due' = 0
           /\ flow' = [f \in Flows |-> Idle]
           /\ UNCHANGED <<stored, onMesh, owed, removed, squeezed, overlap>>

\* The user resets a light: it leaves the mesh and can be provisioned again.
Reset(l) == /\ Counted
            /\ onMesh[l] # Nowhere /\ \A f \in Flows : flow[f] # Idle => flow[f].light # l
            /\ onMesh' = [onMesh EXCEPT ![l] = Nowhere]
            /\ UNCHANGED <<options, view, flow, owed, removed, squeezed, overlap>>

Next == \/ \E f \in Flows, l \in Lights, kind \in {"join", "options"} : Submit(f, l, kind)
        \/ \E f \in Flows : Provisioned(f) \/ ProvisionFails(f) \/ Abandon(f)
        \/ \E f \in Flows, own \in Settings : Complete(f, own)
        \/ \E ats \in SUBSET Address : RemoveNodes(ats)
        \/ \E at \in Address : RemoveDevice(at)
        \/ \E n \in nodes, own \in Settings : SetModel(n, own)
        \/ ReloadStarts \/ Unloaded \/ SetUpBegins \/ RetryComes \/ StoreLoaded \/ Forwarded
        \/ Restart
        \/ \E l \in Lights : Reset(l)

Spec == Init /\ [][Next]_vars

-----------------------------------------------------------------------------
\* The addresses a light really answers to.
Ground(n) == n.at .. n.at + Elements[n.light] - 1
Apart(m, n) == Ground(m) \cap Ground(n) = {}

\* Flows complete in any order and remove each other's ground, settings are changed
\* that are never stored, Home Assistant restarts: and no light that was added is
\* missing from the list, nor is one there that was removed.
EveryLightIsKept == {<<n.light, n.at>> : n \in nodes} = owed

\* Once the entry is loaded and no reload is waiting, the entities are those of the
\* lights on the list: no change is missed that came while the entry was unloading,
\* waited for its store, its platforms or a retry, or had failed (__init__.py:96-125).
ListIsShown ==
  entry \in {"forward", "loaded"} /\ due = 0 /\ nodes # {}
    => {v.at : v \in shown} = {n.at : n \in nodes}

\* One flow at a time, and a first light no larger than is recorded of it: no two
\* lights of the list ever share an address.  The later lights may be larger than
\* the allocator assumes, but not once a removal has left a gap that it would take
\* to be enough.
OneByOneApart ==
  ~overlap /\ ~squeezed /\ Elements[First] <= ElementsPerNode
    => \A m, n \in nodes : m # n => Apart(m, n)
=============================================================================
