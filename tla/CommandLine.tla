---------------------------- MODULE CommandLine ----------------------------
(***************************************************************************)
(* cli.py and state.py: invocations of godox-mesh that share one network   *)
(* through mesh_state.json.  An invocation finds the file, loads it, may   *)
(* save the address it found and a raised sequence number, loads it again, *)
(* and then saves it after every PDU.  No lock guards the file: invocations*)
(* interleave between any load and the save that follows it.  The save     *)
(* truncates before it writes: a process that dies in one leaves a torn    *)
(* file, and one that loads meanwhile fails.  (The handshake and its waits *)
(* are in ProxySession.)                                                   *)
(*                                                                         *)
(* An invocation is the sequence of steps it has yet to take.              *)
(***************************************************************************)
EXTENDS Integers, Sequences, SequencesExt

CONSTANTS
  Processes,  \* processes that may run at the same time
  Nets,       \* network keys
  Bumps,      \* values of --seq-bump
  Overrides,  \* values of --sequence-number
  FirstSeq,   \* the number in a state file brought from elsewhere
  MaxBegun, MaxShared  \* bounds on the invocations of a run, and on those that may overlap

None == -1    \* an option that is not given

ASSUME CommandLineAssumption ==
  /\ Bumps \subseteq Nat /\ Overrides \subseteq Nat
  /\ FirstSeq \in Nat /\ {MaxBegun, MaxShared} \subseteq Nat
  /\ "nobody" \notin Processes

VARIABLES
  file,     \* the state file at each path
  proc,     \* each process: its steps left, path, state in memory and options
  rpl,      \* the lowest number the network's lights still accept
  ignored,  \* the last PDU bore a number below it
  trouble,  \* what happened since the file was known to be ahead of the lights
  plan,     \* the last dry run's numbers not yet used, and whether they were kept to
  begun     \* invocations so far

vars == <<file, proc, rpl, ignored, trouble, plan, begun>>

Paths == {"local", "config"}
State(net, seq, address) ==
  [whole |-> TRUE, exists |-> TRUE, net |-> net, seq |-> seq, address |-> address]
Unreadable(exists) ==
  [whole |-> FALSE, exists |-> exists, net |-> "none", seq |-> 0, address |-> FALSE]
Absent == Unreadable(FALSE)
Torn == Unreadable(TRUE)

Gone == [todo |-> <<>>, path |-> "local", mem |-> Absent, bump |-> 0, seq |-> None,
         kind |-> "none", settings |-> <<>>, unsaved |-> FALSE]
Running(p) == proc[p].todo # <<>>
NoPlan == [by |-> "nobody", settings |-> <<>>, left |-> <<>>, kept |-> TRUE]

Init == /\ \E net \in Nets : /\ file = [path \in Paths |-> IF path = "config"
                                                          THEN State(net, FirstSeq, FALSE) ELSE Absent]
                             /\ rpl = [n \in Nets |-> IF n = net THEN FirstSeq ELSE 0]
        /\ proc = [p \in Processes |-> Gone]
        /\ ignored = FALSE /\ trouble = {} /\ plan = NoPlan /\ begun = 0

-----------------------------------------------------------------------------
\* _get_controller: the address found, the number raised, the state opened.
Prelude(bump) == <<"find", "save">> \o (IF bump > 0 THEN <<"raise", "save">> ELSE <<>>)
                                    \o <<"open">>

\* Mutant: connecting is taken to use no numbers of its own.
HandshakeOnce == <<"pdu", "save">>

\* connect: two filter PDUs, each followed by _advance_state.
Handshake == <<"pdu", "save", "pdu", "save">>

\* GodoxController.rebind: the numbers of the session are saved together, at its end.
Session == <<"pdu", "pdu", "save">>

\* _cmd_rebind looks for no address in the file.
Rebind(bump) == (IF bump > 0 THEN <<"raise", "save">> ELSE <<>>)
                  \o <<"open">> \o Handshake \o Session

\* What each command does.  on stands for off and set; a set without a value stops
\* after the connection, as a death there does.
Program(kind, bump) ==
  CASE kind = "on"     -> Prelude(bump) \o Handshake \o <<"pdu", "save">>
    [] kind = "dry"    -> Prelude(bump) \o <<"plan">>
    [] kind = "rebind" -> Rebind(bump)

Alone(p) == \A q \in Processes \ {p} : ~Running(q)
MayBegin(p) == ~Running(p) /\ begun < MaxBegun /\ (begun < MaxShared \/ Alone(p))
Overlapped(p) == IF Alone(p) THEN {} ELSE {"overlap"}

\* resolve_mesh_state_path: the file of the working directory before the user's.
Resolved(here) == IF here /\ file["local"].exists THEN "local" ELSE "config"

Begin(p, kind, here, bump, seq) ==
  LET settings == <<Resolved(here), seq>> IN
  /\ MayBegin(p)
  /\ begun' = begun + 1
  /\ file[Resolved(here)].exists
  /\ proc' = [proc EXCEPT ![p] =
       [todo |-> Program(kind, bump), path |-> Resolved(here), mem |-> Absent, bump |-> bump,
        seq |-> seq, kind |-> kind, settings |-> settings, unsaved |-> FALSE]]
  /\ trouble' = trouble \cup Overlapped(p)
  /\ plan' = IF bump > 0 \/ ~Alone(p) THEN NoPlan
             ELSE CASE kind = "dry" -> [NoPlan EXCEPT !.by = p]
                    [] kind = "on" /\ plan.by = "nobody" /\ plan.settings = settings ->
                         [plan EXCEPT !.by = p]
                    [] OTHER -> NoPlan
  /\ UNCHANGED <<file, rpl, ignored>>

\* setup --import: the file is copied to the user's place.
Import(p) ==
  /\ MayBegin(p) /\ file["local"].whole
  /\ begun' = begun + 1
  /\ proc' = [proc EXCEPT ![p] =
       [todo |-> <<"save">>, path |-> "config", mem |-> file["local"], bump |-> 0, seq |-> None,
        kind |-> "setup", settings |-> <<>>, unsaved |-> FALSE]]
  /\ trouble' = trouble \cup Overlapped(p) \cup {"copied"}
  /\ plan' = NoPlan
  /\ UNCHANGED <<file, rpl, ignored>>

\* provision ends: the light has joined a network, whose state starts at 1 again.
Provision(p, net) ==
  /\ MayBegin(p)
  /\ begun' = begun + 1
  /\ proc' = [proc EXCEPT ![p] =
       [todo |-> <<"save">>, path |-> "local", mem |-> State(net, 1, FALSE), bump |-> 0, seq |-> None,
        kind |-> "provision", settings |-> <<>>, unsaved |-> FALSE]]
  /\ trouble' = trouble \cup Overlapped(p)
                  \cup (IF rpl[net] > 1 \/ \E path \in Paths : file[path].net = net
                        THEN {"reprovisioned"} ELSE {})
  /\ plan' = NoPlan
  /\ UNCHANGED <<file, rpl, ignored>>

-----------------------------------------------------------------------------
At(p, step) == Running(p) /\ Head(proc[p].todo) = step
Goes(p, mem) == proc' = [proc EXCEPT ![p].todo = Tail(@), ![p].mem = mem]
Quits(p) == proc' = [proc EXCEPT ![p] = Gone]

\* MeshState.load: a file that is missing or torn raises.
Loads(p, step) == At(p, step) /\ file[proc[p].path].whole /\ UNCHANGED <<file, rpl, ignored, plan, begun>>
BeingSaved(path) == \E q \in Processes : At(q, "save") /\ proc[q].path = path
LoadRaises(p) == /\ At(p, "find") \/ At(p, "raise") \/ At(p, "open")
                 /\ ~file[proc[p].path].whole \/ BeingSaved(proc[p].path)
                 /\ Quits(p)
                 /\ UNCHANGED <<file, rpl, ignored, trouble, plan, begun>>

\* The address the command line gives or a scan finds is saved when it is new,
\* but not by a dry run; or the scan finds no light.
Find(p) ==
  LET q == proc[p] f == file[q.path] IN
  /\ Loads(p, "find")
  /\ \/ IF f.address \/ q.kind = "dry"
        THEN proc' = [proc EXCEPT ![p].todo = Tail(Tail(@))]
        ELSE Goes(p, [f EXCEPT !.address = TRUE])
     \/ ~f.address /\ Quits(p)
  /\ UNCHANGED trouble

\* The bump, for a dry run as well.
Raise(p) == /\ Loads(p, "raise")
            /\ Goes(p, [file[proc[p].path] EXCEPT !.seq = @ + proc[p].bump])
            /\ UNCHANGED trouble

\* The controller's state, and _apply_mesh_overrides: the numbers go on from the
\* one given, in the file too.
Open(p) ==
  LET q == proc[p] f == file[q.path] IN
  /\ Loads(p, "open")
  /\ Goes(p, IF q.seq = None THEN f ELSE [f EXCEPT !.seq = q.seq])
  /\ trouble' = IF q.seq # None /\ q.seq < f.seq THEN trouble \cup {"lowered"} ELSE trouble

\* _dry_run_control prints the numbers of the connection and of the command.
Plan(p) ==
  LET q == proc[p] IN
  /\ At(p, "plan")
  /\ Goes(p, q.mem)
  /\ plan' = IF plan.by = p
             THEN [by |-> "nobody", settings |-> q.settings, kept |-> TRUE,
                   left |-> <<q.mem.seq, q.mem.seq + 1, q.mem.seq + 2>>]
             ELSE NoPlan
  /\ UNCHANGED <<file, rpl, ignored, trouble, begun>>

\* After a bump every file may be known to be ahead of its lights again.
Ahead(p) == LET q == proc[p] IN
  /\ Alone(p) /\ q.bump > 0 /\ q.mem.seq >= rpl[q.mem.net] /\ ~q.unsaved
  /\ \A path \in Paths \ {q.path} :
       file[path].whole => file[path].net # q.mem.net /\ file[path].seq >= rpl[file[path].net]

Save(p) == LET q == proc[p] IN
  /\ At(p, "save")
  /\ file' = [file EXCEPT ![q.path] = q.mem]
  /\ proc' = [proc EXCEPT ![p].todo = Tail(@), ![p].unsaved = FALSE]
  /\ IF Ahead(p) THEN trouble' = {} /\ ignored' = FALSE ELSE UNCHANGED <<trouble, ignored>>
  /\ UNCHANGED <<rpl, plan, begun>>

\* A PDU with the number in memory: the lights hear it or it is lost.  A light
\* takes no number below the lowest it accepts, and says nothing of it.
Heard(p) == LET n == proc[p].mem.seq net == proc[p].mem.net IN
  /\ ignored' = (n < rpl[net])
  /\ rpl' = IF n < rpl[net] THEN rpl ELSE [rpl EXCEPT ![net] = n + 1]

\* The PDU has the number the plan gave it; the last of the plan is the command's.
Kept(p) ==
  LET asPlanned == /\ Head(plan.left) = proc[p].mem.seq
                   /\ Len(plan.left) = 1 <=> proc[p].todo = <<"pdu", "save">>
  IN plan' = IF plan.by = p /\ plan.left # <<>>
             THEN [plan EXCEPT !.left = Tail(@), !.kept = @ /\ asPlanned]
             ELSE plan

\* Mutant: write_proxy returns and the number stays.
PduStuck(p) ==
  /\ At(p, "pdu")
  /\ Heard(p) \/ UNCHANGED <<rpl, ignored>>
  /\ Kept(p)
  /\ proc' = [proc EXCEPT ![p].todo = Tail(@), ![p].unsaved = TRUE]
  /\ UNCHANGED <<file, trouble, begun>>

\* write_proxy returns, and next_sequence moves on.
Pdu(p) ==
  /\ At(p, "pdu")
  /\ Heard(p) \/ UNCHANGED <<rpl, ignored>>
  /\ Kept(p)
  /\ proc' = [proc EXCEPT ![p].todo = Tail(@), ![p].mem.seq = @ + 1, ![p].unsaved = TRUE]
  /\ UNCHANGED <<file, trouble, begun>>

\* Connecting or writing raises; the PDU may be out already.
PduRaises(p) ==
  /\ At(p, "pdu")
  /\ \/ Heard(p) /\ trouble' = trouble \cup {"raised"}
     \/ UNCHANGED <<rpl, ignored>>
        /\ trouble' = IF proc[p].unsaved THEN trouble \cup {"raised"} ELSE trouble
  /\ Quits(p) /\ plan' = NoPlan
  /\ UNCHANGED <<file, begun>>

\* The process is killed between two steps, or in the middle of a save.
Killed(p) == /\ Running(p) /\ Quits(p)
             /\ \/ UNCHANGED file
                \/ At(p, "save") /\ file' = [file EXCEPT ![proc[p].path] = Torn]
             /\ trouble' = IF proc[p].unsaved THEN trouble \cup {"killed"} ELSE trouble
             /\ plan' = NoPlan
             /\ UNCHANGED <<rpl, ignored, begun>>

Next == \E p \in Processes :
          \/ \E kind \in {"on", "dry"}, here \in BOOLEAN, bump \in Bumps,
                seq \in Overrides \cup {None} : Begin(p, kind, here, bump, seq)
          \/ \E here \in BOOLEAN, bump \in Bumps : Begin(p, "rebind", here, bump, None)
          \/ Import(p)
          \/ \E net \in Nets : Provision(p, net)
          \/ LoadRaises(p) \/ Find(p) \/ Raise(p) \/ Open(p) \/ Plan(p)
          \/ Save(p) \/ Pdu(p) \/ PduRaises(p) \/ Killed(p)

Spec == Init /\ [][Next]_vars

-----------------------------------------------------------------------------
\* README.md:312 (a number at or below one a light has seen is dropped without a
\* word) and cli.py:164 (--seq-bump, "use if device ignores commands due to RPL"):
\* the lights ignore a PDU only after two invocations overlapped, one died or failed
\* with a number out and not saved, a lower number was asked for, or a network got a
\* second state file or was provisioned anew under its old key; and a bump that lifts
\* the last file that was behind its lights past them ends that.
IgnoredNeedsTrouble == ignored => trouble # {}

\* cli.py:409, test_cli.py:277: the numbers a dry run prints are those the connection
\* and the command then use, each its own, when nothing else ran between.
PlanIsKept == plan.kept
=============================================================================
