# Formal model of ha-godox-mesh

TLA+ specifications, TLC configurations and TLAPS proofs for the Home Assistant
integration in `custom_components/godox_mesh` and the library it is built on,
`src/godox_mesh_bt`. `custom_components/godox_mesh/_lib` is a generated copy of the
library; the modules are models of the library, and of the integration where the
integration uses it. Line numbers below are those of the modelled commit.

`tlc -config X.cfg M` checks a module, `tlapm M.tla` its proofs.

## 1. The system

One Home Assistant config entry is one Bluetooth mesh network. All of it runs on one
asyncio loop: the concurrency is that of coroutines that interleave at awaits, timers,
Bluetooth callbacks, cancellation, the radio, and a process that may die. The command
line is a second user of the library, with a state file of its own.

    number / select / switch --signals--> GodoxLight  --calls--> GodoxMeshLink --> GodoxController
                                          (light.py)             (mesh.py)         (controller.py)
                                              |                   |  |  |              |
      config and options flows -- options --> |     gateway.py <--+  |  +--> store.py  +--> ProxyClient
      (config_flow.py, __init__.py)           |                      v                      (client.py)
             |                       polls, restore        SequenceReserver (sequence.py)     |
             +--> ProvisioningSession, ConfigSession --> ProvisioningClient, ProxyClient      |
                                                                                              v
      godox-mesh (cli.py) --> mesh_state.json (state.py), GodoxController              crypto.py, protocol.py

| Component | State | Operations | Hard behaviour |
|---|---|---|---|
| Sequence reserver (`sequence.py`) | next number, reserved mark | take, observe, persist callback | restart between any two calls, block boundaries |
| Network counter (`controller.py`, `mesh.py`, `store.py`, `config_session.py`) | counter, reserver, cached mark, delayed save, disk | stamp and write, bind session, delayed save, flush, shutdown, removal | bytes out before the write returns, failing sessions, death within the save delay |
| Mesh link (`mesh.py`) | lock and its waiters, connection, idle timer, activity, failures, shutdown flag | command, provision, idle disconnect, release, shutdown | everyone behind one lock, cancellation at any await, drops |
| Gateway selection (`gateway.py`, `mesh.py`) | fail times, drop times, current gateway, nodes tried | select, retry loop, drop callback | adverts that change while a connect is awaited |
| Proxy session (`controller.py`, `client.py`) | connection, subscription, filter, events, pending write | connect, requests, disconnect | acknowledgements that share an event, late replies, reconnect over a dropped client |
| Mesh packets (`crypto.py`) | none | pack and unpack with derived keys and nonces | two ends that must build the same nonce; the end of the number range |
| Light entity (`light.py`) | attributes, its lock, miss count | turn_on with confirmation, turn_off, polls, restore, four signals | unacknowledged writes, callbacks that bypass the lock |
| Number, select, switch entities (`number.py`, `select.py`, `switch.py`, `models.py`) | own values and the light's shared values | set, restore, sibling signals | memory changed before a write that may raise |
| Frames and tables (`protocol.py`, `capabilities.py`) | none | build, parse, look up | ranges and defaults |
| Node registry (`config_flow.py`, `__init__.py`) | node list, stored options, entities | provision flows, remove, set model, device removal, reload | several flows open at once, long awaits between reading and writing |
| Provisioning and configuration (`provisioning*.py`, `config_session.py`, `config.py`) | place in the exchange, keys, queue, record | provision, key add and bind | an alternating exchange that may stop anywhere, unacknowledged messages |
| Proxy segments (`client.py`) | write lock, reassembly buffer | `write_proxy`, `_reassemble` | writes given up half way, caps, timeouts |
| Command line (`cli.py`, `state.py`) | the state file | on, off, set, dry runs, rebind, import, provision | a file without a lock, saved in place |

What makes each correct: no sequence number goes on air twice unless the accounting was
lost in a known way; storage never moves back; an idle connection is closed and a used
one is not; nothing opens a connection after shutdown; a broken proxy is let go of and
its sibling tried; a session offered to commands can bring their replies, and an answer
is one to the question; what is sent can be read by the lights and by nobody else; the
light does what its controls show; every light that was added is on the list, no two
lights share an address, and what is recorded of a light is what it took; a message is
reassembled whole or not at all; a dry run tells the truth.

## 2. Modules

| Module | Models | Composes with |
|---|---|---|
| `SequenceBlocks` | the arithmetic of `sequence.py` as operators on a (next, mark) pair | |
| `SequenceReserver` | take and observe over restarts from a durably persisted mark (proved, no run) | extends `SequenceBlocks` |
| `ReplayProtection` | abstract: the replay protection list of the nodes and a source that may lose track | |
| `MeshSequence` | the counter from setup to crash or removal | extends `SequenceBlocks`, implements `ReplayProtection` |
| `MeshLink` | all holders of the link's lock | its "connecting" is `GatewaySelection` and `ProxySession`, its "operating" `MeshSequence` and `StatusRequest` |
| `GatewaySelection` | `async_select_gateway` and the loop of `_async_connect` | |
| `MeshPackets` | PDUs, keys and nonces over ideal ciphers | |
| `StatusRequest` | requests, replies, and the slots and events between | |
| `ProxySession` | connect, use and disconnect of one proxy | extends `StatusRequest` and `MeshPackets` |
| `LightEntity` | `GodoxLight` over one light | |
| `GodoxFrames`, `GodoxModels`, `LightCommands` | frames and replies; the capability look-ups; the setters of controller and link | each extends the one before |
| `Siblings` | the light entity beside its number, select and switch entities | extends `LightCommands` |
| `NodeRegistry` | the node list and the flows that change it | |
| `ProvisioningPdus` | PDUs and key derivation of the exchange, as terms | |
| `Provisioning` | an attempt to add a light, and the light | extends `ProvisioningPdus` |
| `PacketChannel` | abstract: a lossy channel that keeps packets whole and in order | |
| `ProxySegments` | segmentation and reassembly, one against the other | implements `PacketChannel` |
| `CommandLine` | invocations of `godox-mesh` over shared state files | |
| `MC...` | constants for TLC | |
| `...Proofs` | the theorems of the module named; `MeshSequenceProofs` those of `SequenceBlocks` and `SequenceReserver` too, `MeshLinkProofs` those of `GatewaySelection`, `ProxyClientProofs` those of `ProxySession` and `ProxySegments`, `SiblingsProofs` with lemmas about `GodoxFrames`, `GodoxModels` and `LightCommands` | |

### How state and actions correspond to the code

**MeshSequence.** `counter` is `controller.state.sequence_number`, `reserver` the link's
`SequenceReserver`, `cached` and `pending` the store's number and Home Assistant's
coalesced save, `disk` what is stored, `session` the copy a `ConfigSession` works on.
A write is three steps: `BeginWrite` packs the PDU with the counter, `Transmit` puts the
bytes on air, and `WriteReturns` (counter and reserver move) or `WriteRaises` (they do not)
follows; the bytes can be out before `write_proxy` returns, and it can return with no byte
out. A bind session sends two PDUs with numbers of its own and is adopted at its end
(`BindDone`) or not at all (`BindRaises`). `rpl` is what the nodes have seen; `faults`
records the five ways in which accounting can be lost.

**MeshLink.** `queue` holds the callers of the `asyncio.Lock` in the order of their calls,
its head owns it; `stage` is the await at which the head is suspended. The idle timer is
the activity number it captured. A timer that fires joins the queue with that number. A
command that fails on a live connection leaves it open until `MaxFailures` in a row.
Cancellation of the holder and of a waiter are separate actions, because a
`CancelledError` passes every `except Exception`.

**GatewaySelection.** The three dictionaries and the current gateway are those of the
link; `heard` and `named` stand for the manager's last service infos. A failed connect and
the next selection are one step, since nothing is awaited between them. Ties of the sort
are left open.

**ProxySession and StatusRequest.** `phase` is the await of `connect` or `disconnect` in
progress, `client` the `ProxyClient` (which connection, `_started`, the callbacks), `proxy` and
`coming` the other end and its notifications on their way. `acks` is `proxy_ack_event`, together with
which acknowledgements set it: the event itself cannot tell, and that is what `AckIsItsOwn` is
about. A dropped connection is made again without having been closed, as `_get_controller` of
the link does. Every PDU is packed by `MeshPackets`, so `wire` holds what was really encrypted with
what, and a counter at its limit makes packing raise where the code does. `StatusRequest` has one
slot and one event per kind of reply; `age` says for which request a reply was made, which
the code does not know.

**LightEntity.** `jobs` is the entity's lock and its waiters, `bus` the calls waiting for the
link, served in order. `stage` names the await of the command or poll in progress. A
service call is an element of a small set of requests; colour values are abstracted to the
mode that carries them. `shared` is `data.brightness_pct` of the light: written by a turn_on (`light.py:433`) and by
a confirmation that failed after a reading (`light.py:519`), not by a poll, and carried by the next gel. A gel's
call goes to the link past the lock, as a slider's does. `seen` is history for the properties.

**Siblings.** Here the values count and the polls do not: the level is that of a light without polls and without
failed confirmations, and no property of `Siblings` relates it to the shared one; that is done in
`LightEntity`. `data` is `GodoxRuntimeData`; `bus` holds
whole frames built by `LightCommands` from what the controls hold when the call is made; the lamp keeps
the last frame of each family. A number's setter changes `data`, signals the light and ends;
the light's callback queues a frame. A selection is two steps (`PickHalf`, `PickGel`, `PickKnob`, then
`PickEnds`, where the write returns or raises). `seen` says what a property may count on: `synced` (the last frame with a look arrived), `astray` (one of the two moves
listed below), `paired`, and `stale` (selects whose own last choice raised).

**NodeRegistry.** `nodes` and `legacy` are the entry's options, `stored` what Home
Assistant has on disk, `shown` the nodes of `runtime_data`. A flow is "provisioning" between
the choice of an address and the end of the session, then "form" until its user completes
it. `owed` pairs every light added and not
removed with the address it was given. `UpdateEntry` compares the options as Home Assistant does, and with them the effect of
changing a dictionary in place; a change stores the options and, while there is a listener, schedules a reload (`due`).
The reload is a sequence of its own: `entry` says where the entry is between being unloaded, finding a light in
reach (or being tried again later, "retry"), waiting for its store, reading the list and registering the listener (one step,
nothing is awaited between `__init__.py:96` and `:114`), and forwarding to the platforms. A set-up may fail ("error"),
and so may an unload ("stuck": Home Assistant will not touch the entry before it restarts). Flows complete and lights are removed at any of
these points.

**Provisioning.** `Script` is the order of sends and waits of `ProvisioningSession`; `step` how much
of it is done, `got` what came back, `state` the `MeshState` built at its end and later completed by
the flow or the link. Both ends compute confirmation, random, salt and keys for
themselves, as terms, so two fields hashed in different orders would show as an exchange that
fails. The light is external: it answers as the Mesh Profile says, or refuses, or sends something else
(`LightMisbehaves`). `trouble` is, per light, what went wrong in its attempts.

**ProxySegments.** A PDU's body is the sequence of its positions, so a mixture of two
messages or a missing piece is visible in what is delivered. `Channel` maps it to `PacketChannel`: a
packet enters when its last segment is written and leaves when that segment arrives.

**CommandLine.** An invocation is the sequence of steps it has yet to take (`Program`), each one
load, save or PDU of the command's handler: find the file, save, raise the number by
`--seq-bump`, save, open, handshake, session. Nothing locks the file, so two
invocations interleave between any load and save. `file` is the state file at its two
places, torn if a save died in it; `rpl` is what the lights of each network have seen; `plan` is
the list a dry run printed, used up by the invocation that follows.

## 3. What the runs check

Passing runs:

| Run | Properties | What it shows |
|---|---|---|
| `mesh_sequence` | `StoreTracksMark`, `DiskNeverRegresses`, `NodesAcceptEverything` | a repeated number needs one of the five losses; until then the link implements `ReplayProtection` |
| `mesh_link` | `IdleCloseIsIdle`, `ShutDownStaysDown`, `WedgeIsCut`, `SomeoneWillClose`, `IdleConnectionIsReleased`, `ShutdownCompletes` | who may close, who may use and who must close the connection |
| `gateway` | `FailureMovesOn`, `SteadyFirst`, `EveryFailureCounts` | a failed node is passed over, a flaky one ranks last, a round ends |
| `proxy_session` | `AnswerArrivedSince`, `ReadyIsHeard`, `AckIsItsOwn`, `OffIsClosed`, `PeerReads`, `SetupEnds` | what a session offered to commands can do, whose answer is taken for whose, what a failed setup leaves behind, who can read what is sent, and that connect and disconnect end |
| `light` | `LedsAreOn`, `LevelStands`, `ShowsWhatWasMeasured`, `ShowsWhatWasCommanded`, `GelKeepsLevel`, `HolderIsServed` | what a turn_on leaves on the light and in Home Assistant, with polls, sliders and gels in between, and which level a gel carries |
| `siblings` | `LampObeysControls`, `PairIsTheLamps` | once all is quiet the light does what its controls show together |
| `registry` | `EveryLightIsKept`, `ListIsShown`, `OneByOneApart` | no light is lost by interleaved flows, no change of the list is missed by a reload that is due, under way or failing, flows one at a time never overlap lights |
| `proxy_segments` | `PacketsComeInOrder`, `NothingElseIsLost` | the two halves implement `PacketChannel`, and only those packets are lost that must be |
| `provisioning` | `RecordOpensTheLight`, `ListedIsBound`, `StrandedHadTrouble`, `QuietAttemptSucceeds`, `NothingElseLeaks`, `AttemptEnds` | who ends up with which keys, what a broken attempt leaves behind, and that every attempt ends |
| `command_line` | `IgnoredNeedsTrouble`, `PlanIsKept` | what it takes for the lights to ignore an invocation, and that a dry run prints the numbers that are then used |

Runs that show where a statement of the repository does not hold:

| Run | Statement | Counterexample |
|---|---|---|
| `link_held` | `README.md:183-184`, the connection is held for five idle minutes, "then released" | a command cancels the timer, fails on a live connection, and nothing arms it again |
| `span_lost` | `config_flow.py:795-797`, the recorded span is "what the light itself reported" | the first light of a network reports three elements and is recorded with two |

The two liveness properties of `MeshLink` and `link_held` fit together: `IdleConnectionIsReleased` speaks of
a connection last used with success, `HeldThenReleased` of any.

The type invariants are not among the runs' properties: those of `MeshSequence`, `MeshLink`, `GatewaySelection`, `LightEntity`,
`NodeRegistry`, `ProxySegments` and `Siblings` are proved, and `Provisioning`, `ProxySession` and `CommandLine` have typings in their
proofs.

### Other places where code and text part

Met while modelling and part of the models, with no run of their own.

Sequence numbers:

- `mesh.py:13` "Sequence numbers never repeat": a write that raises with its bytes out
  (`controller.py:475`) and a bind session that raises between its PDUs (`mesh.py:468`) each
  leave the counter on a number the nodes have seen. They are the faults "write" and "bind".
- `mesh.py:14-16` "persisted ahead of use": the reserver hears of a number after it was
  sent, so the first number of a run goes on air below no mark (the fault "inflight").
- `store.py:28-30`, losing the last seconds of writes "can never replay a number": a process that dies while the
  save of a new mark waits (`store.py:68`) restarts inside the block (the fault "lostsave").
- `crypto.py:610`: past 2^24 - 1 packing raises, on every command until the counter is reset; in
  `ProxySession` a session at the edge is ready and can send nothing.

Requests and selection:

- `controller.py:704-717`, `request_status` returns that light's status: replies are filed by kind
  (`controller.py:690`), so a late reply of another light answers it.
- `gateway.py:97-98`: a second failure of a node in one round raises without a new stamp
  (`mesh.py:544`), so the next command picks it again without a new advert; for the same
  reason a strong node that keeps advertising can end a round before a weaker one was tried.
- `const.py:159`: a drop during setup is measured from the connection before it, since
  `_connected_at` is set when the setup has finished (`mesh.py:555`).
- `tests_ha/test_lifecycle.py:387-389` calls an idle timer beaten by a command
  unreachable: the command cancels the timer only once it holds the lock, so a timer that
  fires while it waits queues behind it. `StartIdle` handles it.

The light and its siblings:

- `light.py:90` "they show what was last commanded": a tint change while an effect runs ends
  it on the light only (`light.py:303-308`), and a slider moved during the first turn_on is not
  sent (`light.py:365`). `ShowsWhatWasCommanded` and `LampObeysControls` exclude exactly these moves.
- `light.py:457-461`: a command that waited behind the poll that made the entity unavailable
  makes it available again. `light.py:215`: what the first poll reads is replaced by the
  restored value. `light.py:225`: the interval starts a poll whether or not the last one has
  got the lock, so polls pile up on a slow link.
- `models.py:50`: `current_effect` is not cleared by the sliders that end an effect (`light.py:283-301`,
  `356-366`), so the speed slider keeps the ceiling of the effect that ended (`number.py:111-127`).
- A coordinate slider moved while the light is off is overruled by the next plain turn_on; a turn_on with an
  effect in that mode ends by sending the old coordinate, and the effect is cleared (`light.py:469-475`).
- `select.py:169-170` "Brightness follows the light, so picking a gel does not also change how bright the room is": a gel
  carries `data.brightness_pct`, the level last commanded, and that is not always the one the light has, nor the one Home Assistant
  shows. (a) A poll that reads another level, set at the light's own controls, changes the attribute and not
  `brightness_pct` (`light.py:672-676`): a gel takes the light back to the level of the last turn_on. (b) A
  confirmation that fails after a reading shares what was read (`light.py:519`), but one without any
  reading shows the level before the command (`light.py:521`) and leaves the wished one shared. (c) A command that
  raises or is cancelled in its first power write leaves the new level shown and the old one shared; in its frame, the new one
  shared and perhaps not arrived; and a frame may be lost without a trace. (d) After a restart `brightness_pct` is
  empty (`models.py:62`), and a gel goes to 100 % (`select.py:171`). `LightEntity` has all of these paths. `GelKeepsLevel` says
  that there are no others: it is silent (`seen.apart`) from such an event, a restart included, to the arrival of the next turn_on's frame.
- `capabilities.py:81`, `speed_max` is "0 when it has no speed": for every effect of the newer generation it is 100 (`:90-91`), also for
  those whose frame has no speed (`protocol.py:1007`, `1016-1018`), so the slider moves and the frame stays as it was. `EffectShown` says which.
- `select.py:249-264`: when the write of a control-mode choice raises, the changed half stays in memory, and the
  next choice of the other select sends it, while the select that failed shows its old option.
- `capabilities.py:398-440`: the effects 0, 1 and 2 have frames in `protocol.py` (the colour-block builders), but the loader of
  the table drops them for models of the newer generation.

Lights and entries:

- `__init__.py:149-150`, a removed light must not "come back on the next reload": the last light removed leaves an
  empty list, which is read as the entry's first light (`__init__.py:218`).
- `const.py:190-192` and `config_flow.py:1167`: two flows open at once pick the same
  address, and a light with more elements than the allocator steps by can reach into the
  next one's addresses. `OneByOneApart` states the two conditions that rule this out.
- `config_flow.py:1094` changes the node's dictionary in place; the new options equal the
  old ones, so nothing is stored or reloaded. `config_flow.py:953` replaces all options and
  with them the entry-wide settings of older versions.
- `provisioning_client.py:82` and `:92-96`: `connect` opens the connection before it subscribes, outside of `run`'s
  `try`, so a subscription that fails leaves it open; `disconnect` suppresses only an `Exception` of `stop_notify`, so a
  cancellation there skips the disconnect itself, and a disconnect that raises may have closed nothing. `NothingElseLeaks`
  says that these are all.
- `__init__.py:200`: while an entry waits for a retry, or its set-up or unload failed, it has no listener and its list
  changes without a reload; the next set-up reads the list.
- `state.py:237-246`: `next_sequence` builds a state without `num_elements`, and so do the overrides of `cli.py` and
  `parse_mesh_state` of the flows; each falls back to two.

Command line:

- A dry run with `--seq-bump` saves the file. Overrides (`--sequence-number`, keys, addresses) reach the file with the next save.
- `provision` with a given `--net-key` starts a network that exists at number 1; `setup --import` gives a
  network a second file with a counter of its own; the numbers of a `rebind` that fails are not saved. `IgnoredNeedsTrouble` counts
  all of these as trouble.
- A dry run of `set` without values prints a frame (100 %, 5600 K) that the command never sends
  (`cli.py:444-458`, `controller.py:570`). `PlanIsKept` is about the numbers.

### Bounds, and why they are enough

- `MeshSequence`: blocks of three and numbers up to seven give a start inside a
  block, on a boundary, and two boundary crossings; nothing depends on the size of a block.
  The theorems hold for all sizes.
- `MeshLink`: five calls are the longest story of a property (a command that opens, one that
  fails, a timer behind a third, release, shutdown); `MaxFailures` is 2 so that both sides of the limit
  are reached. The theorems hold for every number of calls.
- `GatewaySelection`: two nodes (one known by address, one only by its adverts), times up to 3
  with thresholds 1, 1 and 2, so every stamp can be on either side of each threshold. The theorems hold for
  every set of nodes and all thresholds.
- `ProxySession`: one light, two kinds of request, two requests, two connects (a late answer and the request or
  the connect it disturbs). The counter starts five below 2^24: one connect takes two numbers and a request
  one, so the limit is met within a handshake and within a request. The theorems hold for every number.
- `LightEntity`: two commands or polls and one slider move, gel or panel action: a command and what
  interrupts it (2.8 million states). Two levels, one effect, two confirmation attempts, two misses. The
  theorems hold for every number of each.
- `Siblings`: any three actions on either of two rows of the table, which between them have every colour
  mode, tint, coordinates, the second temperature range, gels, both effect generations, control modes and
  switches. Three actions are a command, a move that changes what it left, and one that reads
  the result.
- `NodeRegistry` (390 000 states): two flows, two more lights, of one and three elements, beside a first one of two, two removals,
  resets, changes or restarts; eight addresses, so that gaps open between lights and there
  is always an address left.
- `Provisioning`: two lights, of three elements and of two, two attempts in all, by either path: one that breaks off
  anywhere and one that follows, at the same light or at another.
- `ProxySegments`: two writers and two PDUs on connections of two GATT limits: in segments of three a PDU takes
  one, two or three, and one of them is over the cap; in writes of eight all go whole, the one over the cap as well. The
  theorems hold for all lengths, limits, caps and numbers of writers.
- `CommandLine`: three invocations, two of which may overlap, over two networks and two places; a bump of two and an
  override of four around a first number of five, so each lies on either side of what the lights have seen.
  Processes and networks are interchangeable (symmetry; the properties are invariants).

`CHECK_DEADLOCK` is off where the bounds on calls, steps or time let a run end; `MeshSequence`
has no such bound and is checked for deadlock.

### Fairness

- `MeshLink`, `WF_vars(Holder)`: whoever holds the lock goes on, because
  every await under it is bounded by a timeout of the library or of the Bluetooth stack (connect,
  write, disconnect) and a woken waiter is scheduled by the loop. `WF_vars(TimerFires)`: an armed
  `async_call_later` fires. Nothing is assumed of calls, cancellations, drops or the radio.
- `ProxySession`, `WF_everything(Progress)`: every await of connect and disconnect returns, raises or times out. The
  waits for a beacon and for acknowledgements have timeouts of the code's own; nothing is assumed of the proxy.
- `Provisioning`, `WF_vars(Attempt)`: each await of an attempt returns, raises or times out (`recv_pdu` after ten seconds). The
  light and the link may do nothing at all.

## 4. What is proved

For every value of the constants, from the named assumptions on them only
(`BlockSizeAssumption`, `SequenceAssumption`, `LinkAssumption`, `GatewayAssumption`, `RequestAssumption`,
`SessionAssumption`, `LightAssumption`, `SiblingsAssumption`, `SegmentAssumption`, `RegistryAssumption`, `ProvisioningAssumption`,
`CommandLineAssumption`):

- `MeshSequenceProofs`: `TypeCorrect`, `ReplayNeedsAFault`, `MarksAgree`, `RefinesReplayProtection`,
  `DiskIsMonotone`. `ReplayNeedsFault` is not inductive. `IInv` adds `Discipline` (an operation runs only
  while the link is up, a session is ahead of the controller by what it packed), `StoreTracksMark`,
  `CounterWithinBlock` and `Accounted`: without a fault, the nodes' lists lie at or below the next
  number the process, or its successor, would use. A crash is the step that needs
  `StoreTracksMark`: with no save pending and the frontier within the mark, the restart point
  covers the frontier. The refinement maps `trusted` to "no fault": a fresh number is `Accept`, a
  number below the list is `Replay` and needs a fault, a new fault is `LoseTrack`, all else stutters.
  The module also proves of `SequenceReserver` `ReserverNeverReissues` and `SpentStaysBelowTheMark` (the mark is
  never below the next number, and the durable mark is the reserver's), from lemmas about `SequenceBlocks`
  (`BlockEnd(n) > n`, what taking and observing do to a pair).
- `MeshLinkProofs`: `LinkTypeCorrect`, `IdleClosesOnlyTheIdle`, `DownForGood`, `WedgesAreCut`,
  `IdleTimerIsArmed`. `IInv` adds `StageFits` (where the holder is suspended says what it is), `Down`
  (after shutdown only closers get past their first step), `IdleKnown` (a timer, armed or queued,
  knows no later activity than the present one, and a queued one that knows the present one
  has seen an idle period), `StrikesCounted` (the code's counter is never behind the failures on this
  connection) and `Attended` (a connection last used with success has its timer, is in somebody's
  hands, or has a closer in the queue). Three lemmas say what joining, leaving and
  dropping out keep of the queue; the step proof goes through the actions one by one.
- `MeshLinkProofs`, second half, of `GatewaySelection`: `FailuresMoveOn`, `FailuresCount`, `TheSteadyComeFirst`, the action
  properties of the run, and `GatewayTypesHold`.
  They need one invariant, `HeardBefore` (no advert the manager holds is of a later time than now), because a node is
  usable again only by an advert newer than its failure.
- `ProxyClientProofs`, first half, of `ProxySession`: `AnswersAreNew`, `TheReadyAreHeard`, `AcksAreTheirOwn`, `TheOffAreClosed`, from one inductive
  invariant. `Listening` follows the subscription through the setup, `Whitelisted` the filter, `Fresh` what
  a connection starts with, `AckOnce` where the acknowledgement of the filter type is (on its way or in the
  event, never both, and gone once it has ended its own wait), `EventIsFresh` that a set event of a kind being asked for was set by a reply that
  came since. `ThePeerReads` rests on lemmas about `MeshPackets`: only the network's own privacy key takes the
  mask off and it changes nothing else (`OnlyItsNetUnmasks`), so the receiver builds the sender's nonce and the
  ideal cipher opens (`ConfigIsRead`, `NetworkIsOpened` and what is built on them).
- `ProxyClientProofs`, second half, of `ProxySegments`: `RefinesPacketChannel` (what is written and what is read make
  a channel that keeps packets whole, once and in order), `OnlyTheLongIsLost` and `SegmentTypesHold`, all from
  `SegmentsInvariance`. A segment on air does not say how long its PDU is or how much of it went before; the invariant
  therefore says that there *is* a sequence of pieces, one per segment on air, such that (`Line`) each piece follows
  its predecessor at once or begins a PDU, the first follows what the receiver holds (`AtRx`), the closing ones are
  those of the PDUs written last, in order, and whoever has the lock goes on where the last piece ends. `Accounted`
  counts what arrived against what has room. A step keeps `Line` with the sequence it had, or with one piece more or
  fewer. A message given up leaves pieces without an end: the next piece begins a PDU, and what the receiver held is
  dropped with it. A connection that ends empties the sequence.
- `LightEntityProofs`: `OneLostWriteIsHarmless`, `CommandsKeepTheirLevel`, `MeasuredLevelsShow`,
  `QuietLightsAgree`, `GelsKeepTheLevel`, `HoldersWaitForTheLink` and `TypesHold`: every property of the run. `Placed` says what call the holder waits for
  at each await, `Lit` what is known of the LEDs after the first and after the second power write, `Levelled` that a level is
  confirmed only for a command that carries one and in a mode where it can be, `InStep` that the
  last frame with a look among the calls that wait (or the light itself, if none does) is what the attributes say. `InStep` covers
  the time between a command's first look and its end although the light counts as off then: a slider's frame may already be on
  the way. The queue of calls is seen only through `HasJob`, `OneJob`, `JobDoes`, `Shows` and `Ends`, with one lemma
  each for a call made, served and withdrawn. `GelsKeepTheLevel` rests on one invariant more, `Sharing`: while nothing listed above has
  happened, light, attributes, `brightness_pct` and every frame on its way have one level, except between the start
  of a turn_on and the arrival of its frame. Then the frames ahead of the command's call still have the old level, as the
  light has until then (`AheadCarries`), those behind it the new one (`BehindCarries`): so whatever a slider or a gel sent meanwhile is
  overruled, or agrees.
- `SiblingsProofs`: `QuietLampsObey` and `PairsAreSentWhole`, every property of the run, and
  `ValuesStayInRange` and `CallersWaitTheirTurn`, for every row that the table may have (`IsCapabilities`), every
  setting and any number of commands, moves and selections. The first part is about bytes: for each family of frames,
  what the light reads from the frame that an entity has built (`ReadsCct` to `ReadsKnob`; with what the entity hands
  over `EffectReads`, `WhiteReads`, `HueReads`, `CoordinateReads`, `ChannelsRead`) is what the entity displays,
  whatever the values in their ranges: the two bytes of a level, a hue or a coordinate join to what was split, the
  tint's byte gives its sign back, and the selector of a newer effect belongs to one symbol only. The second part is
  the invariant. `TypeInv` has the ranges, among them that the colour temperature is within the limits its control
  shows just then, which is why no builder refuses a look. `CallsInv` says which calls may wait: at most one of
  turn_on or turn_off, the one its await names, and at most one of a select. `PairInv` says that a control frame on
  its way carries the whole pair, except between the two steps of a selection. `ObeyInv` is the heart: of the calls that wait, those of sliders and the look of a command on its
  way *count* (`Counts`); the last of these asks for what the controls show (`LastReads`), and when none is left the
  light does it. Neither half is inductive without the other: serving the last call that counts turns one into the
  other, and a slider moved afterwards turns it back.
- `NodeRegistryProofs`: `NoLightIsLost`, `EntitiesFollowTheList`, `LightsStayApart` and `TypesHold`. The first needs only that the
  options in memory and the stored ones have the same lights at the same addresses (`Agree`). The second is inductive by itself, step
  by step of the reload: from the step of set-up that reads the list to the end of the unload there is a listener, so a
  change either schedules a reload, which makes `due` positive, or comes before the list is read again. With a listener
  registered after the platforms instead (`ListeningLate`) TLC finds a change that is never shown. The third needs why the allocator
  works: until a removal every free slot lies beyond every light (`Packed`), so a light larger than its slot does no harm;
  after one, only a light that fits may take a gap (`Reserves`); and a slot picked is still free when the flow
  ends because no other flow ended meanwhile (`Alone`).
- `ProvisioningProofs`: `RecordsOpenLights`, `ListedLightsAreBound`, `StrandingTakesTrouble`, `QuietAttemptsSucceed`,
  `AttemptsCloseTheirs`: every safety property of the run. The last needs `Shut` (no connection is open where an attempt begins, its bind begins or its
  form waits), so what is left open is left by a step that ends the attempt, and of these only a failed subscription, a `disconnect` that
  raises or is cancelled, and the end that has closed, leave it (`EndBlames`). `Decrypted` says why a record opens its light: Complete comes only from a light that
  has read Data, and it reads Data only with keys made from the same five fields. `InStep` places both ends in the exchange as
  long as nothing went wrong, `Configured` the two configuration messages, and `Held` says that the light took the state that the
  attempt still holds.
- `CommandLineProofs`: `LightsHearUnlessTrouble`, `DryRunsAreHonest`: both properties of the run, for any number of invocations. `InOrder` says what
  all programs have in common of what is left of them (a raised number is saved at once, the file is opened before the
  first PDU, a PDU that is out is still going to be saved); `Calm` that without trouble one process runs, no network has two files, and a
  file lies past its lights unless the process that uses it has sent and not saved; `Planned` what the printed plan and the
  rest of the program have to do with each other.

What proving showed about the models:

- `IgnoredNeedsTrouble` did not hold of the first version of `CommandLine` with one invocation more than its run has: a bump clears
  a lowered number only if no other file of the network is left behind its lights, and provisioning with a key that any file already has
  makes a second history. `Ahead` and the trouble "reprovisioned" say so now.
- `EveryLightIsKept` spoke of lights; with their addresses it also says that none is moved.
- The allocator's range has to be nonempty (`RegistryAssumption`), and nobody may be called "nobody" (`CommandLineAssumption`).
- `LightHearsConfig` chose by guards that overlapped.
- `PacketsComeInOrder` did not hold of connections of different GATT limits as it stood: a PDU over the cap is lost
  when it is cut, but arrives in one write of a larger connection, which `_reassemble` passes on without looking at
  the cap, and `Fitting` counted it among those that fit. It has to fit whole in every connection now, and the run has
  two sizes, in which TLC finds the counterexample to the old form as well.
- The controls of `Siblings` displayed a temperature to the kelvin and a speed for effects that take none; the frame
  has hundreds and no such field. `EffectShown` and `ColourShown` are in the units of the frame now.
- The temperature a light starts with was 5600 K whatever its range; the code clamps it (`light.py:170`). And
  `IsCapabilities` has the bounds of all rows of the table: with ranges of any ends a temperature could be asked that
  the frame's builder refuses.
- `Reads` said nothing of a frame that no family has; it is `Unparsed` now.

Only model-checked: the four liveness properties, `IdleConnectionIsReleased`, `ShutdownCompletes`, `SetupEnds` and
`AttemptEnds` (fairness and `ENABLED` are outside the proof system's reach), and the two properties the code
violates, which have no theorem to be stated. Every other property of every run is proved. What a fold computes for
every input (the colour blocks of effect frames) would need induction over data, which the provers cannot
instantiate; the frames that the entities send carry none.

## 5. What is not modelled, and why

- The battery sensor: one poll that shows what a battery request of `ProxySession` returns.
- Forms, their parsing, discovery by advert, and the first-time setup dialog up to the exchange:
  input without interleaving. The dialog's entry is where `NodeRegistry` and `Provisioning` ("setup") start.
- The 186 rows of the capability table and the names of options: data. Checksums of frames: they separate no two
  frames that the models tell apart.
- Scanner, inspector and raw commands, logging: one look, and formatting.
- `GodoxMeshClient` (a raw client that nothing else uses), service caching and retries of the Bluetooth connector.
- Research, firmware and build scripts, the vendored copy: no part of the running system, or a copy of what is modelled.
- A light's firmware is external: it obeys a frame that arrives, answers or stays silent.
- A reload that the user asks for, and the device registry's pruning of lights that are gone: neither changes the list.
  `ListIsShown` compares addresses: a setting changed in place (`config_flow.py:1094`) is not stored and not shown before the next
  reload, and an empty list, which only the last removal leaves, is shown as the first light. An unload may fail at any
  time in the model, a set-up wherever it awaits.
- Home Assistant's own machinery (service dispatch, `Store`, config entry reload) is modelled as
  the code uses it and marked external.
- The strength of ciphers: they are ideal in `MeshPackets` and `ProvisioningPdus`.
- The IV update procedure: the code has none; numbers stop at the width of the field.

## 6. Plan

Done: all modules of section 2.

To extend the model:

1. An abstract `Connection` (closed, open, used; closed when idle) which `MeshLink` implements.
2. The setup dialog beside others: the same light in two flows that both make a network.
3. `ProxySession` in place of `Connects` in `MeshLink`, on an instance of two calls.

Every safety property that a run checks is proved. What is left to prove goes with the extensions: that
`MeshLink` implements `Connection`, and its theorems once more with `ProxySession` in place of `Connects`.
