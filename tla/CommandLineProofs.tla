------------------------- MODULE CommandLineProofs -------------------------
(***************************************************************************)
(* The invocations of CommandLine, for any number of them at once, any     *)
(* networks, and any bumps and numbers asked for.                          *)
(*                                                                         *)
(* As long as nothing in trouble has happened one process runs at a time,  *)
(* each network has one state file, and that file lies past the network's  *)
(* lights except while the process that uses it has sent a PDU and not yet *)
(* saved; then the state it holds in memory does.  That the last step of   *)
(* every program is a save, and that a program opens the file before its   *)
(* first PDU, is what makes each of these survive its end.                 *)
(***************************************************************************)
EXTENDS CommandLine, SequenceTheorems, TLAPS

-----------------------------------------------------------------------------
(* Types. *)

Steps == {"find", "save", "raise", "open", "pdu", "plan"}
Contents == [whole : BOOLEAN, exists : BOOLEAN, net : Nets \cup {"none"}, seq : Nat,
             address : BOOLEAN]
Settings == (Paths \X (Overrides \cup {None})) \cup {<<>>}
Invocation == [todo : Seq(Steps), path : Paths, mem : Contents, bump : Nat,
               seq : Overrides \cup {None},
               kind : {"none", "on", "dry", "rebind", "setup", "provision"},
               settings : Settings, unsaved : BOOLEAN]

Plans == [by : Processes \cup {"nobody"}, settings : Settings, left : Seq(Nat), kept : BOOLEAN]

Typed == /\ file \in [Paths -> Contents]
         /\ \A path \in Paths : file[path].whole => file[path].exists /\ file[path].net \in Nets
         /\ proc \in [Processes -> Invocation]
         /\ \A p \in Processes : proc[p].mem.whole => proc[p].mem.exists /\ proc[p].mem.net \in Nets
         /\ rpl \in [Nets -> Nat] /\ ignored \in BOOLEAN
         /\ plan \in Plans

-----------------------------------------------------------------------------
(* The numbers and the lights. *)

\* What the programs have in common, said of what is left of one: an address or a
\* raised number is saved at once, what was loaded is whole, the file is opened before
\* the first PDU, and after it there are only PDUs and saves, a save the last.
Orderly(todo, loaded) ==
  /\ \A i \in 1 .. Len(todo) : todo[i] \in {"find", "raise"} => i < Len(todo) /\ todo[i + 1] = "save"
  /\ \A i \in 1 .. Len(todo) :
       todo[i] = "save" => IF i = 1 THEN loaded ELSE todo[i - 1] \in {"find", "raise", "pdu"}
  /\ \A i \in 1 .. Len(todo) :
       todo[i] \in {"pdu", "plan"} => loaded \/ \E j \in 1 .. i - 1 : todo[j] = "open"
  /\ \A i \in 1 .. Len(todo) : todo[i] = "pdu" =>
       i < Len(todo) /\ \A j \in i .. Len(todo) : todo[j] \in {"pdu", "save"}

\* A number that is out and not saved is still going to be.
Owing(q) == q.unsaved => q.todo # <<>> /\ \A i \in 1 .. Len(q.todo) : q.todo[i] \in {"pdu", "save"}

InOrder == \A p \in Processes : Orderly(proc[p].todo, proc[p].mem.whole) /\ Owing(proc[p])

BeingUsed(path) == \E p \in Processes : Running(p) /\ proc[p].unsaved /\ proc[p].path = path

\* Without trouble.
Calm ==
  trouble = {} =>
    /\ ~ignored
    /\ \A p, q \in Processes : Running(p) /\ Running(q) => p = q
    /\ \A path \in Paths :
         file[path].whole /\ ~BeingUsed(path) => file[path].seq >= rpl[file[path].net]
    /\ \A path, other \in Paths :
         path # other /\ file[path].whole /\ file[other].whole => file[path].net # file[other].net
    /\ \A p \in Processes : Running(p) /\ proc[p].mem.whole =>
         /\ proc[p].mem.seq >= rpl[proc[p].mem.net]
         /\ \A path \in Paths \ {proc[p].path} :
              file[path].whole => file[path].net # proc[p].mem.net

-----------------------------------------------------------------------------
(* The plan of a dry run. *)

Full == <<"find", "save", "open", "pdu", "save", "pdu", "save", "pdu", "save">>
Dry == <<"find", "save", "open", "plan">>

EndOf(todo, program) ==
  /\ Len(todo) <= Len(program)
  /\ \A i \in 1 .. Len(todo) : todo[i] = program[Len(program) - Len(todo) + i]

From(n, numbers) == \A i \in 1 .. Len(numbers) : numbers[i] = n + i - 1

\* The number that an invocation with these settings would open the file with.
Opens(settings) == IF settings[2] = None THEN file[settings[1]].seq ELSE settings[2]

\* A plan that nobody has begun to carry out.
Promise == /\ plan.settings \in Paths \X (Overrides \cup {None})
           /\ Len(plan.left) = 3 /\ From(Opens(plan.settings), plan.left)

\* The PDUs that are left of a command when this many steps are.
PdusIn(steps) == CASE steps = 6 -> 3 [] steps \in {4, 5} -> 2 [] steps \in {2, 3} -> 1 [] OTHER -> 0

Left(todo) == Len(todo)

\* The dry run that is making the plan.
Planning(q) == /\ plan.left = <<>> /\ EndOf(q.todo, Dry) /\ Left(q.todo) # 3
               /\ q.settings = <<q.path, q.seq>>
               /\ Left(q.todo) = 1 => q.mem.seq = Opens(q.settings)

\* The command that is carrying it out.
Carrying(q) == /\ EndOf(q.todo, Full)
               /\ q.settings = plan.settings /\ q.settings = <<q.path, q.seq>>
               /\ Left(q.todo) \in {7, 8, 9} => Promise
               /\ Left(q.todo) = 8 => q.mem.seq = file[q.path].seq
               /\ Left(q.todo) \in 1 .. 6 => /\ From(q.mem.seq, plan.left)
                                             /\ Len(plan.left) = PdusIn(Left(q.todo))

Follows(p) == /\ Alone(p) /\ proc[p].bump = 0
              /\ \/ proc[p].kind = "dry" /\ Planning(proc[p])
                 \/ proc[p].kind = "on" /\ Carrying(proc[p])

Planned ==
  /\ plan.kept
  /\ plan.by = "nobody" =>
       IF plan.left = <<>> THEN plan.settings = <<>>
       ELSE Promise /\ \A p \in Processes : ~Running(p)
  /\ \A p \in Processes : plan.by = p /\ Running(p) => Follows(p)

IInv == Typed /\ InOrder /\ Calm /\ Planned

-----------------------------------------------------------------------------
(* The programs. *)

Lifted == <<"find", "save", "raise", "save", "open", "pdu", "save", "pdu", "save", "pdu", "save">>
LiftedDry == <<"find", "save", "raise", "save", "open", "plan">>
Bind == <<"open", "pdu", "save", "pdu", "save", "pdu", "pdu", "save">>
LiftedBind == <<"raise", "save", "open", "pdu", "save", "pdu", "save", "pdu", "pdu", "save">>

\* A program spelled out, without a bump and with one.
LEMMA Spelled ==
  ASSUME NEW bump \in Nat
  PROVE  /\ ~ (bump > 0) => /\ Program("on", bump) = Full
                           /\ Program("dry", bump) = Dry
                           /\ Program("rebind", bump) = Bind
         /\ bump > 0 => /\ Program("on", bump) = Lifted
                       /\ Program("dry", bump) = LiftedDry
                       /\ Program("rebind", bump) = LiftedBind
<1>1. ASSUME ~ (bump > 0) PROVE Program("on", bump) = Full
  <2>1. Program("on", bump) \in Seq(Steps) /\ Full \in Seq(Steps)
    BY <1>1 DEF Program, Prelude, Rebind, Handshake, Session, Steps, Full
  <2>2. Len(Program("on", bump)) = 9 /\ Len(Full) = 9
    BY <1>1 DEF Program, Prelude, Rebind, Handshake, Session, Full
  <2>3. \A i \in 1 .. 9 : Program("on", bump)[i] = Full[i]
    BY <1>1 DEF Program, Prelude, Rebind, Handshake, Session, Full
  <2>. QED  BY <2>1, <2>2, <2>3, SeqEqual
<1>2. ASSUME bump > 0 PROVE Program("on", bump) = Lifted
  <2>1. Program("on", bump) \in Seq(Steps) /\ Lifted \in Seq(Steps)
    BY <1>2 DEF Program, Prelude, Rebind, Handshake, Session, Steps, Lifted
  <2>2. Len(Program("on", bump)) = 11 /\ Len(Lifted) = 11
    BY <1>2 DEF Program, Prelude, Rebind, Handshake, Session, Lifted
  <2>3. \A i \in 1 .. 11 : Program("on", bump)[i] = Lifted[i]
    BY <1>2 DEF Program, Prelude, Rebind, Handshake, Session, Lifted
  <2>. QED  BY <2>1, <2>2, <2>3, SeqEqual
<1>3. ASSUME ~ (bump > 0) PROVE Program("dry", bump) = Dry
  <2>1. Program("dry", bump) \in Seq(Steps) /\ Dry \in Seq(Steps)
    BY <1>3 DEF Program, Prelude, Rebind, Handshake, Session, Steps, Dry
  <2>2. Len(Program("dry", bump)) = 4 /\ Len(Dry) = 4
    BY <1>3 DEF Program, Prelude, Rebind, Handshake, Session, Dry
  <2>3. \A i \in 1 .. 4 : Program("dry", bump)[i] = Dry[i]
    BY <1>3 DEF Program, Prelude, Rebind, Handshake, Session, Dry
  <2>. QED  BY <2>1, <2>2, <2>3, SeqEqual
<1>4. ASSUME bump > 0 PROVE Program("dry", bump) = LiftedDry
  <2>1. Program("dry", bump) \in Seq(Steps) /\ LiftedDry \in Seq(Steps)
    BY <1>4 DEF Program, Prelude, Rebind, Handshake, Session, Steps, LiftedDry
  <2>2. Len(Program("dry", bump)) = 6 /\ Len(LiftedDry) = 6
    BY <1>4 DEF Program, Prelude, Rebind, Handshake, Session, LiftedDry
  <2>3. \A i \in 1 .. 6 : Program("dry", bump)[i] = LiftedDry[i]
    BY <1>4 DEF Program, Prelude, Rebind, Handshake, Session, LiftedDry
  <2>. QED  BY <2>1, <2>2, <2>3, SeqEqual
<1>5. ASSUME ~ (bump > 0) PROVE Program("rebind", bump) = Bind
  <2>1. Program("rebind", bump) \in Seq(Steps) /\ Bind \in Seq(Steps)
    BY <1>5 DEF Program, Prelude, Rebind, Handshake, Session, Steps, Bind
  <2>2. Len(Program("rebind", bump)) = 8 /\ Len(Bind) = 8
    BY <1>5 DEF Program, Prelude, Rebind, Handshake, Session, Bind
  <2>3. \A i \in 1 .. 8 : Program("rebind", bump)[i] = Bind[i]
    BY <1>5 DEF Program, Prelude, Rebind, Handshake, Session, Bind
  <2>. QED  BY <2>1, <2>2, <2>3, SeqEqual
<1>6. ASSUME bump > 0 PROVE Program("rebind", bump) = LiftedBind
  <2>1. Program("rebind", bump) \in Seq(Steps) /\ LiftedBind \in Seq(Steps)
    BY <1>6 DEF Program, Prelude, Rebind, Handshake, Session, Steps, LiftedBind
  <2>2. Len(Program("rebind", bump)) = 10 /\ Len(LiftedBind) = 10
    BY <1>6 DEF Program, Prelude, Rebind, Handshake, Session, LiftedBind
  <2>3. \A i \in 1 .. 10 : Program("rebind", bump)[i] = LiftedBind[i]
    BY <1>6 DEF Program, Prelude, Rebind, Handshake, Session, LiftedBind
  <2>. QED  BY <2>1, <2>2, <2>3, SeqEqual
<1>. QED  BY <1>1, <1>2, <1>3, <1>4, <1>5, <1>6

\* Every one of them is orderly.
LEMMA ProgramsOrderly ==
  ASSUME NEW kind \in {"on", "dry", "rebind"}, NEW bump \in Nat
  PROVE  Program(kind, bump) \in Seq(Steps) /\ Orderly(Program(kind, bump), FALSE)
<1>1. Full \in Seq(Steps) /\ Orderly(Full, FALSE)
  BY DEF Full, Orderly, Steps
<1>2. Lifted \in Seq(Steps) /\ Orderly(Lifted, FALSE)
  BY DEF Lifted, Orderly, Steps
<1>3. Dry \in Seq(Steps) /\ Orderly(Dry, FALSE)
  BY DEF Dry, Orderly, Steps
<1>4. LiftedDry \in Seq(Steps) /\ Orderly(LiftedDry, FALSE)
  BY DEF LiftedDry, Orderly, Steps
<1>5. Bind \in Seq(Steps) /\ Orderly(Bind, FALSE)
  BY DEF Bind, Orderly, Steps
<1>6. LiftedBind \in Seq(Steps) /\ Orderly(LiftedBind, FALSE)
  BY DEF LiftedBind, Orderly, Steps
<1>. QED  BY <1>1, <1>2, <1>3, <1>4, <1>5, <1>6, Spelled

\* A step takes the head off what is left.
LEMMA OrderlyTail ==
  ASSUME NEW todo \in Seq(Steps), todo # <<>>, NEW loaded \in BOOLEAN, Orderly(todo, loaded),
         NEW after \in BOOLEAN, loaded \/ Head(todo) \in {"find", "raise", "open"} => after
  PROVE  Tail(todo) \in Seq(Steps) /\ Orderly(Tail(todo), after)
<1>. DEFINE rest == Tail(todo)
<1>1. /\ rest \in Seq(Steps) /\ Len(rest) = Len(todo) - 1 /\ Len(todo) \in Nat /\ Len(todo) >= 1
      /\ \A i \in 1 .. Len(rest) : rest[i] = todo[i + 1]
      /\ Head(todo) = todo[1]
  OBVIOUS
<1>. HIDE DEF rest
<1>2. \A i \in 1 .. Len(rest) : rest[i] \in {"find", "raise"} => i < Len(rest) /\ rest[i + 1] = "save"
  BY <1>1 DEF Orderly
<1>3. \A i \in 1 .. Len(rest) :
        rest[i] = "save" => IF i = 1 THEN after ELSE rest[i - 1] \in {"find", "raise", "pdu"}
  <2>. SUFFICES ASSUME NEW i \in 1 .. Len(rest), rest[i] = "save"
                PROVE  IF i = 1 THEN after ELSE rest[i - 1] \in {"find", "raise", "pdu"}
    OBVIOUS
  <2>1. todo[i] \in {"find", "raise", "pdu"}
    BY <1>1 DEF Orderly
  <2>2. CASE i = 1
    BY <1>1, <2>1, <2>2 DEF Orderly
  <2>3. CASE i # 1
    BY <1>1, <2>1, <2>3
  <2>. QED  BY <2>2, <2>3
<1>4. \A i \in 1 .. Len(rest) :
        rest[i] \in {"pdu", "plan"} => after \/ \E j \in 1 .. i - 1 : rest[j] = "open"
  <2>. SUFFICES ASSUME NEW i \in 1 .. Len(rest), rest[i] \in {"pdu", "plan"}, ~after
                PROVE  \E j \in 1 .. i - 1 : rest[j] = "open"
    OBVIOUS
  <2>1. PICK j \in 1 .. i : todo[j] = "open"
    BY <1>1 DEF Orderly
  <2>2. j # 1
    BY <1>1, <2>1
  <2>3. (j - 1) \in 1 .. i - 1 /\ rest[j - 1] = "open"
    BY <1>1, <2>1, <2>2
  <2>. QED  BY <2>3
<1>5. \A i \in 1 .. Len(rest) : rest[i] = "pdu" =>
        i < Len(rest) /\ \A j \in i .. Len(rest) : rest[j] \in {"pdu", "save"}
  <2>. SUFFICES ASSUME NEW i \in 1 .. Len(rest), rest[i] = "pdu"
                PROVE  i < Len(rest) /\ \A j \in i .. Len(rest) : rest[j] \in {"pdu", "save"}
    OBVIOUS
  <2>1. i + 1 < Len(todo) /\ \A j \in i + 1 .. Len(todo) : todo[j] \in {"pdu", "save"}
    BY <1>1 DEF Orderly
  <2>. QED  BY <1>1, <2>1
<1>. QED  BY <1>1, <1>2, <1>3, <1>4, <1>5 DEF Orderly, rest

\* A search that saves nothing drops its save as well.
LEMMA OrderlySkip ==
  ASSUME NEW todo \in Seq(Steps), todo # <<>>, NEW loaded \in BOOLEAN, Orderly(todo, loaded),
         Head(todo) = "find"
  PROVE  Tail(Tail(todo)) \in Seq(Steps) /\ Orderly(Tail(Tail(todo)), loaded)
<1>. DEFINE next == Tail(todo)  rest == Tail(next)
<1>1. todo[1] = "find" /\ Len(todo) \in Nat /\ Len(todo) >= 2 /\ todo[2] = "save"
  <2>1. todo[1] = "find" /\ Len(todo) \in Nat /\ Len(todo) >= 1
    OBVIOUS
  <2>2. 1 \in 1 .. Len(todo) /\ todo[1] \in {"find", "raise"}
    BY <2>1
  <2>3. 1 < Len(todo) /\ todo[1 + 1] = "save"
    BY <2>2 DEF Orderly
  <2>. QED  BY <2>1, <2>3
<1>2. /\ rest \in Seq(Steps) /\ Len(rest) = Len(todo) - 2
      /\ \A i \in 1 .. Len(rest) : rest[i] = todo[i + 2]
  <2>1. /\ next \in Seq(Steps) /\ Len(next) = Len(todo) - 1
        /\ \A i \in 1 .. Len(next) : next[i] = todo[i + 1]
    BY <1>1
  <2>. HIDE DEF next
  <2>2. /\ rest \in Seq(Steps) /\ Len(rest) = Len(next) - 1
        /\ \A i \in 1 .. Len(rest) : rest[i] = next[i + 1]
    BY <1>1, <2>1
  <2>3. Len(rest) = Len(todo) - 2
    BY <1>1, <2>1, <2>2
  <2>4. ASSUME NEW i \in 1 .. Len(rest) PROVE rest[i] = todo[i + 2]
    <3>1. i + 1 \in 1 .. Len(next) /\ (i + 1) + 1 = i + 2
      BY <1>1, <2>1, <2>2
    <3>. QED  BY <2>1, <2>2, <3>1
  <2>. QED  BY <2>2, <2>3, <2>4
<1>. HIDE DEF rest
<1>3. \A i \in 1 .. Len(rest) : rest[i] \in {"find", "raise"} => i < Len(rest) /\ rest[i + 1] = "save"
  <2>. SUFFICES ASSUME NEW i \in 1 .. Len(rest), rest[i] \in {"find", "raise"}
                PROVE  i < Len(rest) /\ rest[i + 1] = "save"
    OBVIOUS
  <2>1. i + 2 < Len(todo) /\ todo[i + 2 + 1] = "save" /\ i + 2 + 1 = i + 1 + 2
    BY <1>1, <1>2 DEF Orderly
  <2>. QED  BY <1>1, <1>2, <2>1
<1>4. \A i \in 1 .. Len(rest) :
        rest[i] = "save" => IF i = 1 THEN loaded ELSE rest[i - 1] \in {"find", "raise", "pdu"}
  <2>. SUFFICES ASSUME NEW i \in 1 .. Len(rest), rest[i] = "save"
                PROVE  IF i = 1 THEN loaded ELSE rest[i - 1] \in {"find", "raise", "pdu"}
    OBVIOUS
  <2>1. todo[i + 1] \in {"find", "raise", "pdu"}
    BY <1>1, <1>2 DEF Orderly
  <2>2. i # 1
    BY <1>1, <2>1
  <2>. QED  BY <1>2, <2>1, <2>2
<1>5. \A i \in 1 .. Len(rest) :
        rest[i] \in {"pdu", "plan"} => loaded \/ \E j \in 1 .. i - 1 : rest[j] = "open"
  <2>. SUFFICES ASSUME NEW i \in 1 .. Len(rest), rest[i] \in {"pdu", "plan"}, ~loaded
                PROVE  \E j \in 1 .. i - 1 : rest[j] = "open"
    OBVIOUS
  <2>1. PICK j \in 1 .. i + 1 : todo[j] = "open"
    BY <1>1, <1>2 DEF Orderly
  <2>2. j # 1 /\ j # 2
    BY <1>1, <2>1
  <2>3. (j - 2) \in 1 .. i - 1 /\ rest[j - 2] = "open"
    BY <1>2, <2>1, <2>2
  <2>. QED  BY <2>3
<1>6. \A i \in 1 .. Len(rest) : rest[i] = "pdu" =>
        i < Len(rest) /\ \A j \in i .. Len(rest) : rest[j] \in {"pdu", "save"}
  <2>. SUFFICES ASSUME NEW i \in 1 .. Len(rest), rest[i] = "pdu"
                PROVE  i < Len(rest) /\ \A j \in i .. Len(rest) : rest[j] \in {"pdu", "save"}
    OBVIOUS
  <2>1. i + 2 < Len(todo) /\ \A j \in i + 2 .. Len(todo) : todo[j] \in {"pdu", "save"}
    BY <1>1, <1>2 DEF Orderly
  <2>. QED  BY <1>2, <2>1
<1>. QED  BY <1>2, <1>3, <1>4, <1>5, <1>6 DEF Orderly, rest, next

\* What a step at the head of a program says of it.
LEMMA AtHead ==
  ASSUME Typed, InOrder, NEW p \in Processes, NEW step \in Steps, At(p, step)
  PROVE  /\ proc[p] \in Invocation /\ proc[p].todo \in Seq(Steps)
         /\ proc[p].todo # <<>> /\ proc[p].todo[1] = step /\ Len(proc[p].todo) >= 1
         /\ Orderly(proc[p].todo, proc[p].mem.whole) /\ Owing(proc[p])
         /\ step \notin {"pdu", "save"} => ~proc[p].unsaved
         /\ step \in {"pdu", "plan", "save"} => proc[p].mem.whole
         /\ step = "pdu" => /\ Len(proc[p].todo) > 1
                            /\ \A i \in 1 .. Len(proc[p].todo) : proc[p].todo[i] \in {"pdu", "save"}
<1>1. /\ proc[p] \in Invocation /\ proc[p].todo \in Seq(Steps)
      /\ Orderly(proc[p].todo, proc[p].mem.whole) /\ Owing(proc[p])
  BY DEF Typed, InOrder, Invocation
<1>2. proc[p].todo # <<>> /\ Head(proc[p].todo) = step
  BY DEF At, Running
<1>3. Len(proc[p].todo) \in Nat /\ Len(proc[p].todo) >= 1 /\ proc[p].todo[1] = step
  BY <1>1, <1>2
<1>4. step \notin {"pdu", "save"} => ~proc[p].unsaved
  BY <1>3 DEF Owing, InOrder
<1>5. step \in {"pdu", "plan"} => proc[p].mem.whole
  BY <1>1, <1>3 DEF Orderly
<1>6. step = "save" => proc[p].mem.whole
  BY <1>1, <1>3 DEF Orderly
<1>7. step = "pdu" => /\ Len(proc[p].todo) > 1
                      /\ \A i \in 1 .. Len(proc[p].todo) : proc[p].todo[i] \in {"pdu", "save"}
  BY <1>1, <1>3 DEF Orderly
<1>. QED  BY <1>1, <1>2, <1>3, <1>4, <1>5, <1>6, <1>7

-----------------------------------------------------------------------------
(* What a step does to its own process, and that it leaves the others alone. *)

Others(p) == \A q \in Processes \ {p} : proc'[q] = proc[q]

Same(p) == /\ proc'[p].path = proc[p].path /\ proc'[p].bump = proc[p].bump
           /\ proc'[p].seq = proc[p].seq /\ proc'[p].kind = proc[p].kind
           /\ proc'[p].settings = proc[p].settings

LEMMA GoesOn ==
  ASSUME Typed, NEW p \in Processes, proc[p].todo # <<>>, NEW mem \in Contents, Goes(p, mem)
  PROVE  /\ proc' \in [Processes -> Invocation] /\ Others(p) /\ Same(p)
         /\ proc'[p].todo = Tail(proc[p].todo) /\ proc'[p].mem = mem
         /\ proc'[p].unsaved = proc[p].unsaved
<1>1. proc \in [Processes -> Invocation] /\ proc[p].todo \in Seq(Steps) /\ proc[p] \in Invocation
  BY DEF Typed, Invocation
<1>2. Tail(proc[p].todo) \in Seq(Steps)
  BY <1>1
<1>. DEFINE q == [proc[p] EXCEPT !.todo = Tail(@), !.mem = mem]
<1>3. proc' = [proc EXCEPT ![p] = q]
  BY <1>1 DEF Goes, Invocation
<1>4. /\ q \in Invocation /\ q.todo = Tail(proc[p].todo) /\ q.mem = mem
      /\ q.path = proc[p].path /\ q.bump = proc[p].bump /\ q.seq = proc[p].seq
      /\ q.kind = proc[p].kind /\ q.settings = proc[p].settings /\ q.unsaved = proc[p].unsaved
  BY <1>1, <1>2 DEF Invocation
<1>. HIDE DEF q
<1>5. proc' \in [Processes -> Invocation] /\ proc'[p] = q /\ Others(p)
  BY <1>1, <1>3, <1>4 DEF Others
<1>. QED  BY <1>4, <1>5 DEF Same

LEMMA SkipsSave ==
  ASSUME Typed, NEW p \in Processes, NEW todo \in Seq(Steps),
         proc' = [proc EXCEPT ![p].todo = todo]
  PROVE  /\ proc' \in [Processes -> Invocation] /\ Others(p) /\ Same(p)
         /\ proc'[p].todo = todo /\ proc'[p].mem = proc[p].mem
         /\ proc'[p].unsaved = proc[p].unsaved
<1>1. proc \in [Processes -> Invocation] /\ proc[p] \in Invocation
  BY DEF Typed, Invocation
<1>. DEFINE q == [proc[p] EXCEPT !.todo = todo]
<1>3. proc' = [proc EXCEPT ![p] = q]
  BY <1>1 DEF Invocation
<1>4. /\ q \in Invocation /\ q.todo = todo /\ q.mem = proc[p].mem
      /\ q.path = proc[p].path /\ q.bump = proc[p].bump /\ q.seq = proc[p].seq
      /\ q.kind = proc[p].kind /\ q.settings = proc[p].settings /\ q.unsaved = proc[p].unsaved
  BY <1>1 DEF Invocation
<1>. HIDE DEF q
<1>5. proc' \in [Processes -> Invocation] /\ proc'[p] = q /\ Others(p)
  BY <1>1, <1>3, <1>4 DEF Others
<1>. QED  BY <1>4, <1>5 DEF Same

LEMMA Saves ==
  ASSUME Typed, NEW p \in Processes, proc[p].todo # <<>>,
         proc' = [proc EXCEPT ![p].todo = Tail(@), ![p].unsaved = FALSE]
  PROVE  /\ proc' \in [Processes -> Invocation] /\ Others(p) /\ Same(p)
         /\ proc'[p].todo = Tail(proc[p].todo) /\ proc'[p].mem = proc[p].mem
         /\ proc'[p].unsaved = FALSE
<1>1. proc \in [Processes -> Invocation] /\ proc[p].todo \in Seq(Steps) /\ proc[p] \in Invocation
  BY DEF Typed, Invocation
<1>2. Tail(proc[p].todo) \in Seq(Steps)
  BY <1>1
<1>. DEFINE q == [proc[p] EXCEPT !.todo = Tail(@), !.unsaved = FALSE]
<1>3. proc' = [proc EXCEPT ![p] = q]
  BY <1>1 DEF Invocation
<1>4. /\ q \in Invocation /\ q.todo = Tail(proc[p].todo) /\ q.mem = proc[p].mem
      /\ q.path = proc[p].path /\ q.bump = proc[p].bump /\ q.seq = proc[p].seq
      /\ q.kind = proc[p].kind /\ q.settings = proc[p].settings /\ q.unsaved = FALSE
  BY <1>1, <1>2 DEF Invocation
<1>. HIDE DEF q
<1>5. proc' \in [Processes -> Invocation] /\ proc'[p] = q /\ Others(p)
  BY <1>1, <1>3, <1>4 DEF Others
<1>. QED  BY <1>4, <1>5 DEF Same

LEMMA Becomes ==
  ASSUME Typed, NEW p \in Processes, NEW q \in Invocation, proc' = [proc EXCEPT ![p] = q]
  PROVE  proc' \in [Processes -> Invocation] /\ Others(p) /\ proc'[p] = q
BY DEF Typed, Others

LEMMA Sends ==
  ASSUME Typed, NEW p \in Processes, proc[p].todo # <<>>,
         proc' = [proc EXCEPT ![p].todo = Tail(@), ![p].mem.seq = @ + 1, ![p].unsaved = TRUE]
  PROVE  /\ proc' \in [Processes -> Invocation] /\ Others(p) /\ Same(p)
         /\ proc'[p].todo = Tail(proc[p].todo) /\ proc'[p].unsaved = TRUE
         /\ proc'[p].mem.whole = proc[p].mem.whole /\ proc'[p].mem.exists = proc[p].mem.exists
         /\ proc'[p].mem.net = proc[p].mem.net /\ proc'[p].mem.seq = proc[p].mem.seq + 1
<1>1. /\ proc \in [Processes -> Invocation] /\ proc[p].todo \in Seq(Steps) /\ proc[p] \in Invocation
      /\ proc[p].mem \in Contents
  BY DEF Typed, Invocation
<1>2. Tail(proc[p].todo) \in Seq(Steps)
  BY <1>1
<1>. DEFINE m == [proc[p].mem EXCEPT !.seq = @ + 1]
            q == [proc[p] EXCEPT !.todo = Tail(@), !.mem = m, !.unsaved = TRUE]
<1>3. proc' = [proc EXCEPT ![p] = q]
  BY <1>1 DEF Invocation, Contents
<1>4. /\ m \in Contents /\ m.whole = proc[p].mem.whole /\ m.exists = proc[p].mem.exists
      /\ m.net = proc[p].mem.net /\ m.seq = proc[p].mem.seq + 1
  BY <1>1 DEF Contents
<1>5. /\ q \in Invocation /\ q.todo = Tail(proc[p].todo) /\ q.mem = m
      /\ q.path = proc[p].path /\ q.bump = proc[p].bump /\ q.seq = proc[p].seq
      /\ q.kind = proc[p].kind /\ q.settings = proc[p].settings /\ q.unsaved = TRUE
  <2>. HIDE DEF m
  <2>. QED  BY <1>1, <1>2, <1>4 DEF Invocation
<1>. HIDE DEF q, m
<1>6. proc' \in [Processes -> Invocation] /\ proc'[p] = q /\ Others(p)
  <2>1. q \in Invocation
    BY <1>5
  <2>. QED  BY <1>3, <2>1, Becomes
<1>. QED  BY <1>4, <1>5, <1>6 DEF Same

LEMMA GoneIsAnInvocation ==
  /\ Gone \in Invocation /\ Gone.todo = <<>> /\ Gone.unsaved = FALSE /\ Gone.mem.whole = FALSE
  /\ Orderly(Gone.todo, Gone.mem.whole) /\ Owing(Gone)
<1>1. Absent \in Contents /\ Absent.whole = FALSE
  BY DEF Absent, Unreadable, Contents
<1>2. <<>> \in Seq(Steps) /\ None \in Overrides \cup {None} /\ "local" \in Paths
  BY DEF None, Paths
<1>3. Gone \in Invocation
  BY <1>1, <1>2 DEF Gone, Invocation, Settings
<1>4. Gone.todo = <<>> /\ Gone.unsaved = FALSE /\ Gone.mem.whole = FALSE
  BY <1>1 DEF Gone
<1>. QED  BY <1>3, <1>4 DEF Orderly, Owing

-----------------------------------------------------------------------------
(* Without trouble the lights hear every number. *)

\* A step that loads the file, or nothing, and sends nothing.
LEMMA CalmWhenLoading ==
  ASSUME Typed, Calm, NEW p \in Processes, Running(p), Others(p), UNCHANGED <<file, rpl, ignored>>,
         trouble' = {} => trouble = {},
         proc'[p].path = proc[p].path, ~proc[p].unsaved, ~proc'[p].unsaved,
         trouble' = {} /\ proc'[p].mem.whole =>
           \/ proc'[p].mem = proc[p].mem
           \/ LET f == file[proc[p].path] IN
              f.whole /\ proc'[p].mem.net = f.net /\ proc'[p].mem.seq >= f.seq
              /\ proc'[p].mem.seq \in Nat
  PROVE  Calm'
<1>. SUFFICES ASSUME trouble' = {}
              PROVE  /\ ~ignored'
                     /\ \A o, q \in Processes : Running(o)' /\ Running(q)' => o = q
                     /\ \A path \in Paths : file'[path].whole /\ ~BeingUsed(path)' =>
                          file'[path].seq >= rpl'[file'[path].net]
                     /\ \A path, other \in Paths :
                          path # other /\ file'[path].whole /\ file'[other].whole =>
                            file'[path].net # file'[other].net
                     /\ \A q \in Processes : Running(q)' /\ proc'[q].mem.whole =>
                          /\ proc'[q].mem.seq >= rpl'[proc'[q].mem.net]
                          /\ \A path \in Paths \ {proc'[q].path} :
                               file'[path].whole => file'[path].net # proc'[q].mem.net
  BY DEF Calm
<1>1. /\ ~ignored
      /\ \A o, q \in Processes : Running(o) /\ Running(q) => o = q
      /\ \A path \in Paths : file[path].whole /\ ~BeingUsed(path) =>
           file[path].seq >= rpl[file[path].net]
      /\ \A path, other \in Paths :
           path # other /\ file[path].whole /\ file[other].whole => file[path].net # file[other].net
      /\ \A q \in Processes : Running(q) /\ proc[q].mem.whole =>
           /\ proc[q].mem.seq >= rpl[proc[q].mem.net]
           /\ \A path \in Paths \ {proc[q].path} :
                file[path].whole => file[path].net # proc[q].mem.net
  BY DEF Calm
<1>2. \A q \in Processes : q # p => ~Running(q) /\ ~Running(q)'
  BY <1>1 DEF Others, Running
<1>3. \A path \in Paths : ~BeingUsed(path) /\ ~BeingUsed(path)'
  BY <1>2 DEF BeingUsed
<1>4. ASSUME Running(p)', proc'[p].mem.whole
      PROVE  /\ proc'[p].mem.seq >= rpl[proc'[p].mem.net]
             /\ \A path \in Paths \ {proc[p].path} :
                  file[path].whole => file[path].net # proc'[p].mem.net
  <2>1. CASE proc'[p].mem = proc[p].mem
    BY <1>1, <1>4, <2>1
  <2>2. CASE /\ file[proc[p].path].whole /\ proc'[p].mem.net = file[proc[p].path].net
             /\ proc'[p].mem.seq >= file[proc[p].path].seq /\ proc'[p].mem.seq \in Nat
    <3>1. proc[p].path \in Paths
      BY DEF Typed, Invocation
    <3>2. /\ file[proc[p].path].net \in Nets /\ file[proc[p].path].seq \in Nat
          /\ rpl[file[proc[p].path].net] \in Nat
      BY <2>2, <3>1 DEF Typed, Contents
    <3>3. file[proc[p].path].seq >= rpl[file[proc[p].path].net]
      BY <1>1, <1>3, <2>2, <3>1
    <3>4. proc'[p].mem.seq >= rpl[proc'[p].mem.net]
      BY <2>2, <3>2, <3>3
    <3>. QED  BY <1>1, <2>2, <3>1, <3>4
  <2>. QED  BY <1>4, <2>1, <2>2
<1>5. \A q \in Processes : Running(q)' /\ proc'[q].mem.whole =>
        /\ proc'[q].mem.seq >= rpl[proc'[q].mem.net]
        /\ \A path \in Paths \ {proc'[q].path} :
             file[path].whole => file[path].net # proc'[q].mem.net
  BY <1>2, <1>4
<1>. QED  BY <1>1, <1>2, <1>3, <1>5

\* An end that leaves no number unsaved; it may tear the file.
LEMMA CalmWhenEnding ==
  ASSUME Typed, Calm, NEW p \in Processes, Running(p), Others(p), proc'[p] = Gone,
         trouble' = {} => trouble = {} /\ ~proc[p].unsaved /\ UNCHANGED <<rpl, ignored>>,
         file' = file \/ file' = [file EXCEPT ![proc[p].path] = Torn]
  PROVE  Calm'
<1>. SUFFICES ASSUME trouble' = {}
              PROVE  /\ ~ignored'
                     /\ \A o, q \in Processes : Running(o)' /\ Running(q)' => o = q
                     /\ \A path \in Paths : file'[path].whole /\ ~BeingUsed(path)' =>
                          file'[path].seq >= rpl'[file'[path].net]
                     /\ \A path, other \in Paths :
                          path # other /\ file'[path].whole /\ file'[other].whole =>
                            file'[path].net # file'[other].net
                     /\ \A q \in Processes : Running(q)' /\ proc'[q].mem.whole =>
                          /\ proc'[q].mem.seq >= rpl'[proc'[q].mem.net]
                          /\ \A path \in Paths \ {proc'[q].path} :
                               file'[path].whole => file'[path].net # proc'[q].mem.net
  BY DEF Calm
<1>1. /\ ~ignored
      /\ \A o, q \in Processes : Running(o) /\ Running(q) => o = q
      /\ \A path \in Paths : file[path].whole /\ ~BeingUsed(path) =>
           file[path].seq >= rpl[file[path].net]
      /\ \A path, other \in Paths :
           path # other /\ file[path].whole /\ file[other].whole => file[path].net # file[other].net
  BY DEF Calm
<1>2. \A q \in Processes : ~Running(q)' /\ (q # p => ~Running(q))
  BY <1>1, GoneIsAnInvocation DEF Others, Running
<1>3. \A path \in Paths : ~BeingUsed(path)
  BY <1>2 DEF BeingUsed
<1>4. \A path \in Paths : file'[path].whole => file'[path] = file[path]
  <2>1. Torn.whole = FALSE
    BY DEF Torn, Unreadable
  <2>. QED  BY <2>1 DEF Typed
<1>. QED  BY <1>1, <1>2, <1>3, <1>4

\* A process that begins while no other runs, with a state that is new or none.
LEMMA CalmWhenBeginning ==
  ASSUME Typed, Calm, NEW p \in Processes, ~Running(p), Others(p), UNCHANGED <<file, rpl, ignored>>,
         ~proc'[p].unsaved,
         trouble' = {} => trouble = {} /\ Alone(p),
         trouble' = {} /\ proc'[p].mem.whole =>
           /\ proc'[p].mem.seq >= rpl[proc'[p].mem.net]
           /\ \A path \in Paths : file[path].net # proc'[p].mem.net
  PROVE  Calm'
<1>. SUFFICES ASSUME trouble' = {}
              PROVE  /\ ~ignored'
                     /\ \A o, q \in Processes : Running(o)' /\ Running(q)' => o = q
                     /\ \A path \in Paths : file'[path].whole /\ ~BeingUsed(path)' =>
                          file'[path].seq >= rpl'[file'[path].net]
                     /\ \A path, other \in Paths :
                          path # other /\ file'[path].whole /\ file'[other].whole =>
                            file'[path].net # file'[other].net
                     /\ \A q \in Processes : Running(q)' /\ proc'[q].mem.whole =>
                          /\ proc'[q].mem.seq >= rpl'[proc'[q].mem.net]
                          /\ \A path \in Paths \ {proc'[q].path} :
                               file'[path].whole => file'[path].net # proc'[q].mem.net
  BY DEF Calm
<1>1. /\ ~ignored
      /\ \A path \in Paths : file[path].whole /\ ~BeingUsed(path) =>
           file[path].seq >= rpl[file[path].net]
      /\ \A path, other \in Paths :
           path # other /\ file[path].whole /\ file[other].whole => file[path].net # file[other].net
  BY DEF Calm
<1>2. \A q \in Processes : ~Running(q) /\ (q # p => ~Running(q)')
  BY DEF Alone, Others, Running
<1>3. \A path \in Paths : ~BeingUsed(path) /\ ~BeingUsed(path)'
  BY <1>2 DEF BeingUsed
<1>. QED  BY <1>1, <1>2, <1>3

\* A save; after a bump it may end what trouble there was.
LEMMA CalmWhenSaving ==
  ASSUME Typed, Calm, NEW p \in Processes, Running(p), Others(p), rpl' = rpl,
         proc'[p].path = proc[p].path, proc'[p].mem = proc[p].mem, ~proc'[p].unsaved,
         proc[p].mem.whole, file' = [file EXCEPT ![proc[p].path] = proc[p].mem],
         IF Ahead(p) THEN trouble' = {} /\ ignored' = FALSE ELSE UNCHANGED <<trouble, ignored>>
  PROVE  Calm'
<1>. SUFFICES ASSUME trouble' = {}
              PROVE  /\ ~ignored'
                     /\ \A o, q \in Processes : Running(o)' /\ Running(q)' => o = q
                     /\ \A path \in Paths : file'[path].whole /\ ~BeingUsed(path)' =>
                          file'[path].seq >= rpl'[file'[path].net]
                     /\ \A path, other \in Paths :
                          path # other /\ file'[path].whole /\ file'[other].whole =>
                            file'[path].net # file'[other].net
                     /\ \A q \in Processes : Running(q)' /\ proc'[q].mem.whole =>
                          /\ proc'[q].mem.seq >= rpl'[proc'[q].mem.net]
                          /\ \A path \in Paths \ {proc'[q].path} :
                               file'[path].whole => file'[path].net # proc'[q].mem.net
  BY DEF Calm
<1>. DEFINE here == proc[p].path  m == proc[p].mem
<1>1. /\ here \in Paths /\ file'[here] = m
      /\ \A path \in Paths \ {here} : file'[path] = file[path]
  BY DEF Typed, Invocation
<1>2. /\ ~ignored'
      /\ \A q \in Processes : q # p => ~Running(q)
      /\ m.seq >= rpl[m.net]
      /\ \A path \in Paths \ {here} : file[path].whole => file[path].net # m.net
      /\ \A path \in Paths \ {here} : file[path].whole => file[path].seq >= rpl[file[path].net]
  <2>1. CASE Ahead(p)
    BY <2>1 DEF Ahead, Alone
  <2>2. CASE ~Ahead(p)
    <3>1. trouble = {} /\ ignored' = ignored
      BY <2>2
    <3>2. \A q \in Processes : q # p => ~Running(q)
      BY <3>1 DEF Calm
    <3>3. \A path \in Paths \ {here} : ~BeingUsed(path)
      BY <3>2 DEF BeingUsed
    <3>4. m.seq >= rpl[m.net] /\ \A path \in Paths \ {here} : file[path].whole => file[path].net # m.net
      BY <3>1 DEF Calm
    <3>5. \A path \in Paths \ {here} : file[path].whole => file[path].seq >= rpl[file[path].net]
      BY <3>1, <3>3 DEF Calm
    <3>6. ~ignored'
      BY <3>1 DEF Calm
    <3>. QED  BY <3>2, <3>4, <3>5, <3>6
  <2>. QED  BY <2>1, <2>2
<1>3. \A q \in Processes : q # p => ~Running(q)'
  BY <1>2 DEF Others, Running
<1>4. \A path, other \in Paths : path # other /\ file'[path].whole /\ file'[other].whole =>
        file'[path].net # file'[other].net
  BY <1>1, <1>2 DEF Paths
<1>5. \A path \in Paths : file'[path].whole => file'[path].seq >= rpl'[file'[path].net]
  BY <1>1, <1>2
<1>6. \A q \in Processes : Running(q)' /\ proc'[q].mem.whole =>
        /\ proc'[q].mem.seq >= rpl'[proc'[q].mem.net]
        /\ \A path \in Paths \ {proc'[q].path} :
             file'[path].whole => file'[path].net # proc'[q].mem.net
  BY <1>1, <1>2, <1>3
<1>. QED  BY <1>2, <1>3, <1>4, <1>5, <1>6

\* A PDU: only its own file falls behind, and it is being used.
LEMMA CalmWhenSending ==
  ASSUME Typed, Calm, NEW p \in Processes, Running(p), Running(p)', Others(p),
         UNCHANGED <<file, trouble>>, proc[p].mem.whole,
         proc'[p].path = proc[p].path, proc'[p].unsaved,
         proc'[p].mem.net = proc[p].mem.net, proc'[p].mem.seq = proc[p].mem.seq + 1,
         Heard(p) \/ UNCHANGED <<rpl, ignored>>
  PROVE  Calm'
<1>. SUFFICES ASSUME trouble' = {}
              PROVE  /\ ~ignored'
                     /\ \A o, q \in Processes : Running(o)' /\ Running(q)' => o = q
                     /\ \A path \in Paths : file'[path].whole /\ ~BeingUsed(path)' =>
                          file'[path].seq >= rpl'[file'[path].net]
                     /\ \A path, other \in Paths :
                          path # other /\ file'[path].whole /\ file'[other].whole =>
                            file'[path].net # file'[other].net
                     /\ \A q \in Processes : Running(q)' /\ proc'[q].mem.whole =>
                          /\ proc'[q].mem.seq >= rpl'[proc'[q].mem.net]
                          /\ \A path \in Paths \ {proc'[q].path} :
                               file'[path].whole => file'[path].net # proc'[q].mem.net
  BY DEF Calm
<1>. DEFINE here == proc[p].path  n == proc[p].mem.seq  net == proc[p].mem.net
<1>1. here \in Paths /\ n \in Nat /\ net \in Nets /\ rpl[net] \in Nat
  BY DEF Typed, Invocation, Contents
<1>2. /\ ~ignored
      /\ \A q \in Processes : q # p => ~Running(q)
      /\ n >= rpl[net]
      /\ \A path \in Paths \ {here} : file[path].whole => file[path].net # net
      /\ \A path \in Paths : file[path].whole /\ ~BeingUsed(path) =>
           file[path].seq >= rpl[file[path].net]
      /\ \A path, other \in Paths :
           path # other /\ file[path].whole /\ file[other].whole => file[path].net # file[other].net
  BY DEF Calm
<1>3. /\ ~ignored' /\ rpl'[net] \in Nat /\ n + 1 >= rpl'[net]
      /\ \A other \in Nets \ {net} : rpl'[other] = rpl[other]
  <2>1. CASE Heard(p)
    <3>1. ~ (n < rpl[net])
      BY <1>1, <1>2
    <3>2. ~ignored' /\ rpl' = [rpl EXCEPT ![net] = n + 1]
      BY <2>1, <3>1 DEF Heard
    <3>3. rpl \in [Nets -> Nat]
      BY DEF Typed
    <3>. QED  BY <1>1, <3>2, <3>3
  <2>2. CASE UNCHANGED <<rpl, ignored>>
    BY <1>1, <1>2, <2>2
  <2>. QED  BY <2>1, <2>2
<1>4. \A q \in Processes : q # p => ~Running(q)'
  BY <1>2 DEF Others, Running
<1>5. \A path \in Paths : ~BeingUsed(path)' => path # here /\ ~BeingUsed(path)
  BY <1>2 DEF BeingUsed
<1>6. \A path \in Paths : file[path].whole => file[path].net \in Nets
  BY DEF Typed
<1>7. \A path \in Paths : file'[path].whole /\ ~BeingUsed(path)' =>
        file'[path].seq >= rpl'[file'[path].net]
  BY <1>2, <1>3, <1>5, <1>6
<1>8. \A q \in Processes : Running(q)' /\ proc'[q].mem.whole =>
        /\ proc'[q].mem.seq >= rpl'[proc'[q].mem.net]
        /\ \A path \in Paths \ {proc'[q].path} :
             file'[path].whole => file'[path].net # proc'[q].mem.net
  BY <1>1, <1>2, <1>3, <1>4
<1>. QED  BY <1>2, <1>3, <1>4, <1>7, <1>8

-----------------------------------------------------------------------------
(* A dry run's plan is kept. *)

LEMMA PlanGone ==
  ASSUME plan' = NoPlan
  PROVE  Planned'
<1>1. plan'.by = "nobody" /\ plan'.left = <<>> /\ plan'.settings = <<>> /\ plan'.kept = TRUE
  BY DEF NoPlan
<1>2. "nobody" \notin Processes
  BY CommandLineAssumption
<1>. QED  BY <1>1, <1>2 DEF Planned

\* A step of a process matters to the plan only if it is the one that follows it.
LEMMA PlanStep ==
  ASSUME Typed, Planned, NEW p \in Processes, Running(p), Others(p), plan' = plan,
         plan.by = p /\ Running(p)' /\ Follows(p) => Follows(p)'
  PROVE  Planned'
<1>1. plan.kept /\ \A q \in Processes : plan.by = q /\ Running(q) => Follows(q)
  BY DEF Planned
<1>2. plan.by = "nobody" => plan.left = <<>> /\ plan.settings = <<>>
  BY DEF Planned
<1>3. ASSUME NEW q \in Processes, plan'.by = q, Running(q)' PROVE Follows(q)'
  <2>1. CASE q = p
    BY <1>1, <1>3, <2>1
  <2>2. CASE q # p
    <3>1. Running(q)
      BY <1>3, <2>2 DEF Others, Running
    <3>2. Alone(q)
      BY <1>1, <1>3, <3>1 DEF Follows
    <3>. QED  BY <2>2, <3>2 DEF Alone
  <2>. QED  BY <2>1, <2>2
<1>. QED  BY <1>1, <1>2, <1>3 DEF Planned

LEMMA StillAlone ==
  ASSUME NEW p \in Processes, Alone(p), Others(p)
  PROVE  Alone(p)'
BY DEF Alone, Others, Running

LEMMA EndOfTail ==
  ASSUME NEW todo \in Seq(Steps), todo # <<>>, NEW program \in Seq(Steps), EndOf(todo, program)
  PROVE  /\ Tail(todo) \in Seq(Steps) /\ EndOf(Tail(todo), program)
         /\ Left(Tail(todo)) = Left(todo) - 1 /\ Left(Tail(todo)) \in Nat
         /\ Tail(todo) = <<>> <=> Left(todo) = 1
<1>. DEFINE rest == Tail(todo)
<1>1. /\ rest \in Seq(Steps) /\ Len(rest) = Len(todo) - 1 /\ Len(todo) \in Nat
      /\ \A i \in 1 .. Len(rest) : rest[i] = todo[i + 1]
  OBVIOUS
<1>2. Len(program) \in Nat
  OBVIOUS
<1>. HIDE DEF rest
<1>3. Len(rest) <= Len(program)
  BY <1>1, <1>2 DEF EndOf
<1>4. ASSUME NEW i \in 1 .. Len(rest) PROVE rest[i] = program[Len(program) - Len(rest) + i]
  <2>1. i + 1 \in 1 .. Len(todo) /\ Len(program) - Len(todo) + (i + 1) = Len(program) - Len(rest) + i
    BY <1>1, <1>2
  <2>2. todo[i + 1] = program[Len(program) - Len(todo) + (i + 1)]
    BY <2>1 DEF EndOf
  <2>. QED  BY <1>1, <2>1, <2>2
<1>5. Left(rest) = Left(todo) - 1 /\ Left(rest) \in Nat
  BY <1>1 DEF Left
<1>6. rest = <<>> <=> Left(todo) = 1
  BY <1>1 DEF Left
<1>. QED  BY <1>1, <1>3, <1>4, <1>5, <1>6 DEF EndOf, rest

LEMMA EndOfSkip ==
  ASSUME NEW todo \in Seq(Steps), todo # <<>>, Left(todo) # 1, NEW program \in Seq(Steps),
         EndOf(todo, program), Left(todo) \in Nat
  PROVE  /\ Tail(Tail(todo)) \in Seq(Steps) /\ EndOf(Tail(Tail(todo)), program)
         /\ Left(Tail(Tail(todo))) = Left(todo) - 2
<1>. DEFINE next == Tail(todo)
<1>1. /\ next \in Seq(Steps) /\ next # <<>> /\ EndOf(next, program)
      /\ Left(next) = Left(todo) - 1
  BY EndOfTail
<1>. HIDE DEF next
<1>2. /\ Tail(next) \in Seq(Steps) /\ EndOf(Tail(next), program)
      /\ Left(Tail(next)) = Left(next) - 1
  BY <1>1, EndOfTail
<1>3. Left(Tail(next)) = Left(todo) - 2
  BY <1>1, <1>2
<1>. QED  BY <1>2, <1>3 DEF next

LEMMA Programs == Dry \in Seq(Steps) /\ Full \in Seq(Steps)
BY DEF Dry, Full, Steps

\* Where in a dry run, and in a command, its next step stands.
LEMMA DryHeads ==
  ASSUME NEW todo \in Seq(Steps), todo # <<>>, EndOf(todo, Dry)
  PROVE  /\ Left(todo) \in 1 .. 4
         /\ Left(todo) = 4 => todo[1] = "find"
         /\ Left(todo) = 3 => todo[1] = "save"
         /\ Left(todo) = 2 => todo[1] = "open"
         /\ Left(todo) = 1 => todo[1] = "plan"
<1>1. /\ Len(Dry) = 4 /\ Dry[1] = "find" /\ Dry[2] = "save" /\ Dry[3] = "open"
      /\ Dry[4] = "plan"
  BY DEF Dry
<1>2. PICK n \in Nat : n = Left(todo) /\ n = Len(todo) /\ n >= 1
  BY DEF Left
<1>3. n \in 1 .. 4 /\ 1 \in 1 .. Len(todo)
  <2>1. n <= Len(Dry) /\ n >= 1
    BY <1>2 DEF EndOf
  <2>2. n <= 4
    BY <1>1, <2>1
  <2>3. n \in 1 .. 4
    BY <2>1, <2>2
  <2>4. 1 \in 1 .. Len(todo)
    BY <1>2
  <2>. QED  BY <2>3, <2>4
<1>4. todo[1] = Dry[Len(Dry) - Len(todo) + 1]
  BY <1>3 DEF EndOf
<1>5. ASSUME n = 4 PROVE todo[1] = Dry[1]
  <2>1. Len(Dry) - Len(todo) + 1 = 1
    BY <1>1, <1>2, <1>5
  <2>. QED  BY <1>4, <2>1
<1>6. ASSUME n = 3 PROVE todo[1] = Dry[2]
  <2>1. Len(Dry) - Len(todo) + 1 = 2
    BY <1>1, <1>2, <1>6
  <2>. QED  BY <1>4, <2>1
<1>7. ASSUME n = 2 PROVE todo[1] = Dry[3]
  <2>1. Len(Dry) - Len(todo) + 1 = 3
    BY <1>1, <1>2, <1>7
  <2>. QED  BY <1>4, <2>1
<1>8. ASSUME n = 1 PROVE todo[1] = Dry[4]
  <2>1. Len(Dry) - Len(todo) + 1 = 4
    BY <1>1, <1>2, <1>8
  <2>. QED  BY <1>4, <2>1
<1>9. Left(todo) = n
  BY <1>2
<1>. QED  BY <1>1, <1>3, <1>5, <1>6, <1>7, <1>8, <1>9

LEMMA FullHeads ==
  ASSUME NEW todo \in Seq(Steps), todo # <<>>, EndOf(todo, Full)
  PROVE  /\ Left(todo) \in 1 .. 9
         /\ Left(todo) = 9 => todo[1] = "find"
         /\ Left(todo) \in {8, 5, 3, 1} => todo[1] = "save"
         /\ Left(todo) = 7 => todo[1] = "open"
         /\ Left(todo) \in {6, 4, 2} => todo[1] = "pdu"
<1>1. /\ Len(Full) = 9 /\ Full[1] = "find" /\ Full[2] = "save" /\ Full[3] = "open"
      /\ Full[4] = "pdu" /\ Full[5] = "save" /\ Full[6] = "pdu" /\ Full[7] = "save"
      /\ Full[8] = "pdu" /\ Full[9] = "save"
  BY DEF Full
<1>2. PICK n \in Nat : n = Left(todo) /\ n = Len(todo) /\ n >= 1
  BY DEF Left
<1>3. n \in 1 .. 9 /\ 1 \in 1 .. Len(todo)
  <2>1. n <= Len(Full) /\ n >= 1
    BY <1>2 DEF EndOf
  <2>2. n <= 9
    BY <1>1, <2>1
  <2>3. n \in 1 .. 9
    BY <2>1, <2>2
  <2>4. 1 \in 1 .. Len(todo)
    BY <1>2
  <2>. QED  BY <2>3, <2>4
<1>4. todo[1] = Full[Len(Full) - Len(todo) + 1]
  BY <1>3 DEF EndOf
<1>5. ASSUME n = 9 PROVE todo[1] = Full[1]
  <2>1. Len(Full) - Len(todo) + 1 = 1
    BY <1>1, <1>2, <1>5
  <2>. QED  BY <1>4, <2>1
<1>6. ASSUME n = 8 PROVE todo[1] = Full[2]
  <2>1. Len(Full) - Len(todo) + 1 = 2
    BY <1>1, <1>2, <1>6
  <2>. QED  BY <1>4, <2>1
<1>7. ASSUME n = 7 PROVE todo[1] = Full[3]
  <2>1. Len(Full) - Len(todo) + 1 = 3
    BY <1>1, <1>2, <1>7
  <2>. QED  BY <1>4, <2>1
<1>8. ASSUME n = 6 PROVE todo[1] = Full[4]
  <2>1. Len(Full) - Len(todo) + 1 = 4
    BY <1>1, <1>2, <1>8
  <2>. QED  BY <1>4, <2>1
<1>9. ASSUME n = 5 PROVE todo[1] = Full[5]
  <2>1. Len(Full) - Len(todo) + 1 = 5
    BY <1>1, <1>2, <1>9
  <2>. QED  BY <1>4, <2>1
<1>10. ASSUME n = 4 PROVE todo[1] = Full[6]
  <2>1. Len(Full) - Len(todo) + 1 = 6
    BY <1>1, <1>2, <1>10
  <2>. QED  BY <1>4, <2>1
<1>11. ASSUME n = 3 PROVE todo[1] = Full[7]
  <2>1. Len(Full) - Len(todo) + 1 = 7
    BY <1>1, <1>2, <1>11
  <2>. QED  BY <1>4, <2>1
<1>12. ASSUME n = 2 PROVE todo[1] = Full[8]
  <2>1. Len(Full) - Len(todo) + 1 = 8
    BY <1>1, <1>2, <1>12
  <2>. QED  BY <1>4, <2>1
<1>13. ASSUME n = 1 PROVE todo[1] = Full[9]
  <2>1. Len(Full) - Len(todo) + 1 = 9
    BY <1>1, <1>2, <1>13
  <2>. QED  BY <1>4, <2>1
<1>14. Left(todo) = n
  BY <1>2
<1>. QED  BY <1>1, <1>3, <1>5, <1>6, <1>7, <1>8, <1>9, <1>10, <1>11, <1>12, <1>13, <1>14

\* The steps of the process that makes the plan, or keeps to it.
LEMMA FollowsFind ==
  ASSUME Typed, NEW p \in Processes, Follows(p), At(p, "find"), Others(p), Same(p),
         UNCHANGED <<file, plan>>,
         \/ proc'[p].todo = Tail(Tail(proc[p].todo))
         \/ /\ proc[p].kind # "dry" /\ proc'[p].todo = Tail(proc[p].todo)
            /\ proc'[p].mem.seq = file[proc[p].path].seq
  PROVE  Follows(p)'
<1>. DEFINE todo == proc[p].todo
<1>1. /\ todo \in Seq(Steps) /\ todo # <<>>
      /\ todo[1] = "find"
  <2>1. todo \in Seq(Steps) /\ todo # <<>> /\ Head(todo) = "find"
    BY DEF Typed, Invocation, At, Running
  <2>. QED  BY <2>1
<1>2. /\ Alone(p) /\ Alone(p)' /\ proc'[p].bump = 0 /\ proc'[p].kind = proc[p].kind
      /\ proc'[p].settings = proc[p].settings /\ proc'[p].path = proc[p].path
      /\ proc'[p].seq = proc[p].seq
  BY StillAlone DEF Follows, Same
<1>3. CASE proc[p].kind = "dry" /\ Planning(proc[p])
  <2>1. EndOf(todo, Dry)
    BY <1>3 DEF Planning
  <2>2. Left(todo) = 4
    BY <1>1, <2>1, DryHeads
  <2>3. EndOf(Tail(todo), Dry) /\ Tail(todo) # <<>>
    <3>1. Left(todo) # 1
      BY <2>2
    <3>. QED  BY <1>1, <2>1, <3>1, EndOfTail, Programs
  <2>4. EndOf(Tail(Tail(todo)), Dry) /\ Left(Tail(Tail(todo))) = 2
    <3>1. Left(todo) \in Nat /\ Left(todo) # 1
      BY <2>2
    <3>2. EndOf(Tail(Tail(todo)), Dry) /\ Left(Tail(Tail(todo))) = Left(todo) - 2
      BY <1>1, <2>1, <3>1, EndOfSkip, Programs
    <3>. QED  BY <2>2, <3>2
  <2>5. Planning(proc[p])'
    BY <1>2, <1>3, <2>4 DEF Planning
  <2>. QED  BY <1>2, <1>3, <2>5 DEF Follows
<1>4. CASE proc[p].kind = "on" /\ Carrying(proc[p])
  <2>1. EndOf(todo, Full)
    BY <1>4 DEF Carrying
  <2>2. Left(todo) = 9
    BY <1>1, <2>1, FullHeads
  <2>3. EndOf(Tail(todo), Full) /\ Tail(todo) # <<>>
    <3>1. Left(todo) # 1
      BY <2>2
    <3>. QED  BY <1>1, <2>1, <3>1, EndOfTail, Programs
  <2>4. EndOf(Tail(Tail(todo)), Full) /\ Left(Tail(Tail(todo))) = 7
    <3>1. Left(todo) \in Nat /\ Left(todo) # 1
      BY <2>2
    <3>2. EndOf(Tail(Tail(todo)), Full) /\ Left(Tail(Tail(todo))) = Left(todo) - 2
      BY <1>1, <2>1, <3>1, EndOfSkip, Programs
    <3>. QED  BY <2>2, <3>2
  <2>5. Promise'
    BY <1>4, <2>2 DEF Carrying, Promise, Opens
  <2>6. Carrying(proc[p])'
    <3>1. CASE proc'[p].todo = Tail(Tail(todo))
      BY <1>2, <1>4, <2>4, <2>5, <3>1 DEF Carrying
    <3>2. CASE proc'[p].todo = Tail(todo) /\ proc'[p].mem.seq = file[proc[p].path].seq
      <4>1. Left(proc'[p].todo) = 8
        BY <1>1, <2>1, <2>2, <3>2, EndOfTail, Programs
      <4>. QED  BY <1>2, <1>4, <2>3, <2>5, <3>2, <4>1 DEF Carrying
    <3>. QED  BY <3>1, <3>2
  <2>. QED  BY <1>2, <1>4, <2>6 DEF Follows
<1>. QED  BY <1>3, <1>4 DEF Follows

LEMMA FollowsOpen ==
  ASSUME Typed, NEW p \in Processes, Follows(p), At(p, "open"), Others(p), Same(p),
         UNCHANGED <<file, plan>>, proc'[p].todo = Tail(proc[p].todo),
         proc'[p].mem.seq = IF proc[p].seq = None THEN file[proc[p].path].seq ELSE proc[p].seq
  PROVE  Follows(p)'
<1>. DEFINE todo == proc[p].todo
<1>1. /\ todo \in Seq(Steps) /\ todo # <<>>
      /\ todo[1] = "open"
  <2>1. todo \in Seq(Steps) /\ todo # <<>> /\ Head(todo) = "open"
    BY DEF Typed, Invocation, At, Running
  <2>. QED  BY <2>1
<1>2. /\ Alone(p)' /\ proc'[p].bump = 0 /\ proc'[p].kind = proc[p].kind
      /\ proc'[p].settings = proc[p].settings /\ proc'[p].path = proc[p].path
      /\ proc'[p].seq = proc[p].seq
  BY StillAlone DEF Follows, Same
<1>3. CASE proc[p].kind = "dry" /\ Planning(proc[p])
  <2>1. EndOf(todo, Dry)
    BY <1>3 DEF Planning
  <2>2. Left(todo) = 2
    BY <1>1, <2>1, DryHeads
  <2>3. EndOf(Tail(todo), Dry) /\ Left(Tail(todo)) = 1
    BY <1>1, <2>1, <2>2, EndOfTail, Programs
  <2>4. proc'[p].mem.seq = Opens(proc[p].settings)'
    BY <1>2, <1>3 DEF Planning, Opens
  <2>5. Planning(proc[p])'
    BY <1>2, <1>3, <2>3, <2>4 DEF Planning
  <2>. QED  BY <1>2, <1>3, <2>5 DEF Follows
<1>4. CASE proc[p].kind = "on" /\ Carrying(proc[p])
  <2>1. EndOf(todo, Full)
    BY <1>4 DEF Carrying
  <2>2. Left(todo) = 7
    BY <1>1, <2>1, FullHeads
  <2>3. EndOf(Tail(todo), Full) /\ Left(Tail(todo)) = 6
    BY <1>1, <2>1, <2>2, EndOfTail, Programs
  <2>4. proc'[p].mem.seq = Opens(plan.settings) /\ Promise
    BY <1>4, <2>2 DEF Carrying, Opens
  <2>5. From(proc'[p].mem.seq, plan'.left) /\ Len(plan'.left) = PdusIn(6)
    BY <2>4 DEF Promise, PdusIn
  <2>6. Carrying(proc[p])'
    BY <1>2, <1>4, <2>3, <2>5 DEF Carrying
  <2>. QED  BY <1>2, <1>4, <2>6 DEF Follows
<1>. QED  BY <1>3, <1>4 DEF Follows

LEMMA FollowsSave ==
  ASSUME Typed, NEW p \in Processes, Follows(p), At(p, "save"), Others(p), Same(p),
         file' = [file EXCEPT ![proc[p].path] = proc[p].mem], plan' = plan,
         proc'[p].todo = Tail(proc[p].todo), proc'[p].mem = proc[p].mem, Running(p)'
  PROVE  Follows(p)'
<1>. DEFINE todo == proc[p].todo
<1>1. /\ todo \in Seq(Steps) /\ todo # <<>>
      /\ todo[1] = "save"
      /\ proc[p].path \in Paths /\ file \in [Paths -> Contents]
  <2>1. todo \in Seq(Steps) /\ todo # <<>> /\ Head(todo) = "save"
    BY DEF Typed, Invocation, At, Running
  <2>. QED  BY <2>1 DEF Typed, Invocation
<1>2. /\ Alone(p)' /\ proc'[p].bump = 0 /\ proc'[p].kind = proc[p].kind
      /\ proc'[p].settings = proc[p].settings /\ proc'[p].path = proc[p].path
      /\ proc'[p].seq = proc[p].seq
  BY StillAlone DEF Follows, Same
<1>3. CASE proc[p].kind = "dry" /\ Planning(proc[p])
  BY <1>1, <1>3, DryHeads DEF Planning
<1>4. CASE proc[p].kind = "on" /\ Carrying(proc[p])
  <2>1. EndOf(todo, Full)
    BY <1>4 DEF Carrying
  <2>2. Left(todo) \in {8, 5, 3, 1}
    BY <1>1, <2>1, FullHeads
  <2>3. EndOf(Tail(todo), Full)
    BY <1>1, <2>1, EndOfTail, Programs
  <2>4. CASE Left(todo) = 8
    <3>1. proc[p].mem.seq = file[proc[p].path].seq /\ Promise
      BY <1>4, <2>4 DEF Carrying
    <3>2. \A path \in Paths : file'[path].seq = file[path].seq
      BY <1>1, <3>1
    <3>3. Opens(plan.settings)' = Opens(plan.settings)
      BY <3>1, <3>2 DEF Opens, Promise
    <3>4. Promise'
      BY <3>1, <3>3 DEF Promise
    <3>5. Left(proc'[p].todo) = 7
      BY <1>1, <2>1, <2>4, EndOfTail, Programs
    <3>6. Carrying(proc[p])'
      BY <1>2, <1>4, <2>3, <3>4, <3>5 DEF Carrying
    <3>. QED  BY <1>2, <1>4, <3>6 DEF Follows
  <2>5. CASE Left(todo) \in {5, 3, 1}
    <3>1. /\ From(proc[p].mem.seq, plan.left) /\ Len(plan.left) = PdusIn(Left(todo))
      BY <1>4, <2>5 DEF Carrying
    <3>2. Left(todo) # 1
      BY <1>1, <2>1, EndOfTail, Programs DEF Running
    <3>3. Left(Tail(todo)) = Left(todo) - 1
      BY <1>1, <2>1, EndOfTail, Programs
    <3>4. PdusIn(Left(todo)) = PdusIn(Left(Tail(todo))) /\ Left(Tail(todo)) \in {4, 2}
      BY <2>5, <3>2, <3>3 DEF PdusIn
    <3>5. Carrying(proc[p])'
      BY <1>2, <1>4, <2>3, <3>1, <3>4 DEF Carrying
    <3>. QED  BY <1>2, <1>4, <3>5 DEF Follows
  <2>. QED  BY <2>2, <2>4, <2>5
<1>. QED  BY <1>3, <1>4 DEF Follows

\* Only the last PDU of a command is followed by one save and nothing else.
LEMMA LastPdu ==
  ASSUME NEW todo \in Seq(Steps), EndOf(todo, Full)
  PROVE  Left(todo) = 2 <=> todo = <<"pdu", "save">>
<1>. DEFINE last == <<"pdu", "save">>
<1>1. last \in Seq(Steps) /\ Len(last) = 2 /\ last[1] = "pdu" /\ last[2] = "save"
  BY DEF Steps
<1>2. Len(Full) = 9 /\ Full[8] = "pdu" /\ Full[9] = "save"
  BY DEF Full
<1>. HIDE DEF last
<1>3. todo = last => Left(todo) = 2
  BY <1>1 DEF Left
<1>4. ASSUME Left(todo) = 2 PROVE todo = last
  <2>1. Len(todo) = Len(last) /\ 1 \in 1 .. Len(todo) /\ 2 \in 1 .. Len(todo)
    BY <1>1, <1>4 DEF Left
  <2>2. Len(Full) - Len(todo) + 1 = 8 /\ Len(Full) - Len(todo) + 2 = 9
    BY <1>2, <1>4 DEF Left
  <2>3. todo[1] = last[1]
    BY <1>1, <1>2, <2>1, <2>2 DEF EndOf
  <2>4. todo[2] = last[2]
    BY <1>1, <1>2, <2>1, <2>2 DEF EndOf
  <2>5. \A i \in 1 .. Len(todo) : todo[i] = last[i]
    BY <1>1, <2>1, <2>3, <2>4
  <2>. QED  BY <1>1, <2>1, <2>5, SeqEqual
<1>. QED  BY <1>3, <1>4 DEF last

\* The numbers that follow the first.
LEMMA FromTail ==
  ASSUME NEW n \in Nat, NEW numbers \in Seq(Nat), numbers # <<>>, From(n, numbers)
  PROVE  /\ Head(numbers) = n /\ Tail(numbers) \in Seq(Nat)
         /\ Len(Tail(numbers)) = Len(numbers) - 1 /\ From(n + 1, Tail(numbers))
<1>. DEFINE rest == Tail(numbers)
<1>1. /\ rest \in Seq(Nat) /\ Len(rest) = Len(numbers) - 1 /\ Len(numbers) \in Nat
      /\ Head(numbers) = numbers[1] /\ 1 \in 1 .. Len(numbers)
      /\ \A i \in 1 .. Len(rest) : rest[i] = numbers[i + 1]
  OBVIOUS
<1>. HIDE DEF rest
<1>2. numbers[1] = n + 1 - 1
  BY <1>1 DEF From
<1>3. ASSUME NEW i \in 1 .. Len(rest) PROVE rest[i] = (n + 1) + i - 1
  <2>1. i + 1 \in 1 .. Len(numbers)
    BY <1>1
  <2>2. numbers[i + 1] = n + (i + 1) - 1
    BY <2>1 DEF From
  <2>. QED  BY <1>1, <2>2
<1>. QED  BY <1>1, <1>2, <1>3 DEF From, rest

\* The PDU of a command that keeps to the plan has the plan's next number.
LEMMA PduKeepsThePlan ==
  ASSUME Typed, Planned, NEW p \in Processes, plan.by = p, At(p, "pdu"), Others(p), Same(p),
         file' = file, Kept(p),
         proc'[p].todo = Tail(proc[p].todo), proc'[p].mem.seq = proc[p].mem.seq + 1
  PROVE  Planned' /\ plan' \in Plans
<1>. DEFINE todo == proc[p].todo  left == plan.left  n == proc[p].mem.seq
<1>1. /\ todo \in Seq(Steps) /\ todo # <<>> /\ todo[1] = "pdu"
      /\ Running(p) /\ n \in Nat /\ left \in Seq(Nat) /\ plan.kept = TRUE
  <2>1. todo \in Seq(Steps) /\ todo # <<>> /\ Head(todo) = "pdu" /\ Running(p)
    BY DEF Typed, Invocation, At, Running
  <2>2. n \in Nat /\ left \in Seq(Nat) /\ plan.kept = TRUE
    BY DEF Typed, Plans, Invocation, Contents, Planned
  <2>. QED  BY <2>1, <2>2
<1>2. Follows(p)
  BY <1>1 DEF Planned
<1>3. proc[p].kind = "on" /\ Carrying(proc[p])
  <2>1. CASE proc[p].kind = "dry" /\ Planning(proc[p])
    BY <1>1, <2>1, DryHeads DEF Planning
  <2>. QED  BY <1>2, <2>1 DEF Follows
<1>4. EndOf(todo, Full) /\ Left(todo) \in {6, 4, 2}
  <2>1. EndOf(todo, Full)
    BY <1>3 DEF Carrying
  <2>. QED  BY <1>1, <2>1, FullHeads
<1>5. From(n, left) /\ Len(left) = PdusIn(Left(todo))
  BY <1>3, <1>4 DEF Carrying
<1>6. PICK m \in Nat : m = PdusIn(Left(todo)) /\ m > 0 /\ (m = 1 <=> Left(todo) = 2)
  BY <1>4 DEF PdusIn
<1>7. left # <<>>
  BY <1>1, <1>5, <1>6
<1>8. /\ Head(left) = n /\ Tail(left) \in Seq(Nat) /\ From(n + 1, Tail(left))
      /\ Len(Tail(left)) = m - 1
  BY <1>1, <1>5, <1>6, <1>7, FromTail
<1>9. Len(left) = 1 <=> todo = <<"pdu", "save">>
  <2>1. Len(left) = m
    BY <1>5, <1>6
  <2>. QED  BY <1>1, <1>4, <1>6, <2>1, LastPdu
<1>10. plan' = [plan EXCEPT !.left = Tail(@), !.kept = @ /\ TRUE]
  BY <1>7, <1>8, <1>9 DEF Kept
<1>11. /\ plan'.left = Tail(left) /\ plan'.kept = TRUE /\ plan'.by = p
       /\ plan'.settings = plan.settings /\ plan' \in Plans
  BY <1>1, <1>8, <1>10 DEF Typed, Plans
<1>12. /\ Tail(todo) \in Seq(Steps) /\ EndOf(Tail(todo), Full) /\ Left(Tail(todo)) = Left(todo) - 1
  BY <1>1, <1>4, EndOfTail, Programs
<1>13. Left(Tail(todo)) \in {5, 3, 1} /\ PdusIn(Left(Tail(todo))) = m - 1
  BY <1>4, <1>6, <1>12 DEF PdusIn
<1>14. Carrying(proc[p])'
  <2>1. /\ proc'[p].settings = plan'.settings
        /\ proc'[p].settings = <<proc'[p].path, proc'[p].seq>>
    BY <1>3, <1>11 DEF Carrying, Same
  <2>2. From(proc'[p].mem.seq, plan'.left) /\ Len(plan'.left) = PdusIn(Left(proc'[p].todo))
    BY <1>8, <1>11, <1>13
  <2>3. EndOf(proc'[p].todo, Full) /\ Left(proc'[p].todo) \in {5, 3, 1}
    BY <1>12, <1>13
  <2>. QED  BY <2>1, <2>2, <2>3 DEF Carrying
<1>15. Follows(p)'
  BY <1>2, <1>3, <1>14, StillAlone DEF Follows, Same
<1>. QED  BY <1>11, <1>15, CommandLineAssumption DEF Planned

\* A dry run that ends leaves the promise its settings make.
LEMMA PlanIsMade ==
  ASSUME Typed, Planned, NEW p \in Processes, plan.by = p, At(p, "plan"), Others(p), file' = file,
         proc'[p].todo = Tail(proc[p].todo),
         plan' = [by |-> "nobody", settings |-> proc[p].settings, kept |-> TRUE,
                  left |-> <<proc[p].mem.seq, proc[p].mem.seq + 1, proc[p].mem.seq + 2>>]
  PROVE  Planned'
<1>. DEFINE todo == proc[p].todo  n == proc[p].mem.seq
<1>1. /\ todo \in Seq(Steps) /\ todo # <<>> /\ todo[1] = "plan"
      /\ Running(p) /\ n \in Nat
      /\ proc[p].path \in Paths /\ proc[p].seq \in Overrides \cup {None}
  <2>1. todo \in Seq(Steps) /\ todo # <<>> /\ Head(todo) = "plan" /\ Running(p)
    BY DEF Typed, Invocation, At, Running
  <2>. QED  BY <2>1 DEF Typed, Invocation, Contents
<1>2. Follows(p)
  BY <1>1 DEF Planned
<1>3. Planning(proc[p])
  <2>1. CASE proc[p].kind = "on" /\ Carrying(proc[p])
    <3>1. EndOf(todo, Full)
      BY <2>1 DEF Carrying
    <3>. QED  BY <1>1, <3>1, FullHeads
  <2>. QED  BY <1>2, <2>1 DEF Follows
<1>4. EndOf(todo, Dry) /\ Left(todo) = 1
  <2>1. EndOf(todo, Dry)
    BY <1>3 DEF Planning
  <2>. QED  BY <1>1, <2>1, DryHeads
<1>5. Tail(todo) = <<>>
  BY <1>1, <1>4, EndOfTail, Programs
<1>6. \A q \in Processes : ~Running(q)'
  BY <1>2, <1>5 DEF Follows, Alone, Others, Running
<1>7. /\ plan'.by = "nobody" /\ plan'.settings = proc[p].settings /\ plan'.kept = TRUE
      /\ plan'.left = <<n, n + 1, n + 2>>
  OBVIOUS
<1>8. Len(plan'.left) = 3 /\ From(n, plan'.left) /\ plan'.left # <<>>
  BY <1>1, <1>7 DEF From
<1>9. Opens(plan.settings)' = n
  <2>1. n = Opens(proc[p].settings) /\ plan'.settings = proc[p].settings
    BY <1>3, <1>4, <1>7 DEF Planning
  <2>. QED  BY <2>1 DEF Opens
<1>10. plan'.settings \in Paths \X (Overrides \cup {None})
  BY <1>1, <1>3, <1>7 DEF Planning
<1>11. Promise'
  BY <1>8, <1>9, <1>10 DEF Promise
<1>. QED  BY <1>6, <1>7, <1>8, <1>11, CommandLineAssumption DEF Planned

-----------------------------------------------------------------------------
(* The steps. *)

LEMMA NoPlanIsAPlan == NoPlan \in Plans
BY DEF NoPlan, Plans, Settings

LEMMA TypedStep ==
  ASSUME Typed, NEW p \in Processes, proc' \in [Processes -> Invocation], Others(p),
         proc'[p].mem.whole => proc'[p].mem.exists /\ proc'[p].mem.net \in Nets,
         UNCHANGED <<file, rpl, ignored>>, plan' \in Plans
  PROVE  Typed'
BY DEF Typed, Others

LEMMA InOrderStep ==
  ASSUME InOrder, NEW p \in Processes, Others(p),
         Orderly(proc'[p].todo, proc'[p].mem.whole), Owing(proc'[p])
  PROVE  InOrder'
BY DEF InOrder, Others

LEMMA Beginning ==
  ASSUME IInv, NEW p \in Processes, NEW q \in Invocation, ~Running(p),
         proc' = [proc EXCEPT ![p] = q], UNCHANGED <<file, rpl, ignored>>, plan' \in Plans,
         q.mem.whole => q.mem.exists /\ q.mem.net \in Nets,
         Orderly(q.todo, q.mem.whole), ~q.unsaved,
         trouble' = {} => trouble = {} /\ Alone(p),
         trouble' = {} /\ q.mem.whole => /\ q.mem.seq >= rpl[q.mem.net]
                                         /\ \A path \in Paths : file[path].net # q.mem.net
  PROVE  Typed' /\ InOrder' /\ Calm' /\ Others(p) /\ proc'[p] = q
<1>1. Typed /\ InOrder /\ Calm
  BY DEF IInv
<1>2. proc' \in [Processes -> Invocation] /\ Others(p) /\ proc'[p] = q
  BY <1>1, Becomes
<1>3. Typed'
  BY <1>1, <1>2, TypedStep
<1>4. Owing(proc'[p])
  BY <1>2 DEF Owing
<1>5. InOrder'
  BY <1>1, <1>2, <1>4, InOrderStep
<1>6. Calm'
  BY <1>1, <1>2, CalmWhenBeginning
<1>. QED  BY <1>2, <1>3, <1>5, <1>6

LEMMA BeginStep ==
  ASSUME IInv, NEW p \in Processes, NEW kind \in {"on", "dry", "rebind"}, NEW here \in BOOLEAN,
         NEW bump \in Bumps, NEW seq \in Overrides \cup {None}, Begin(p, kind, here, bump, seq)
  PROVE  IInv'
<1>. DEFINE settings == <<Resolved(here), seq>>
            q == [todo |-> Program(kind, bump), path |-> Resolved(here), mem |-> Absent,
                  bump |-> bump, seq |-> seq, kind |-> kind, settings |-> settings,
                  unsaved |-> FALSE]
<1>1. /\ ~Running(p) /\ proc' = [proc EXCEPT ![p] = q] /\ UNCHANGED <<file, rpl, ignored>>
      /\ trouble' = trouble \cup Overlapped(p)
      /\ plan' = IF bump > 0 \/ ~Alone(p) THEN NoPlan
                 ELSE CASE kind = "dry" -> [NoPlan EXCEPT !.by = p]
                        [] kind = "on" /\ plan.by = "nobody" /\ plan.settings = settings ->
                             [plan EXCEPT !.by = p]
                        [] OTHER -> NoPlan
  BY DEF Begin, MayBegin
<1>2. bump \in Nat /\ Program(kind, bump) \in Seq(Steps) /\ Orderly(Program(kind, bump), FALSE)
  BY ProgramsOrderly, CommandLineAssumption
<1>3. Absent \in Contents /\ Absent.whole = FALSE
  BY DEF Absent, Unreadable, Contents
<1>4. Resolved(here) \in Paths /\ settings \in Paths \X (Overrides \cup {None})
  BY DEF Resolved, Paths
<1>5. /\ q \in Invocation /\ q.todo = Program(kind, bump) /\ q.path = Resolved(here)
      /\ q.mem = Absent /\ q.bump = bump /\ q.seq = seq /\ q.kind = kind
      /\ q.settings = settings /\ q.unsaved = FALSE
  <2>. HIDE DEF settings
  <2>. QED  BY <1>2, <1>3, <1>4 DEF Invocation, Settings
<1>6. plan \in Plans /\ [plan EXCEPT !.by = p] \in Plans /\ [NoPlan EXCEPT !.by = p] \in Plans
  <2>1. plan \in Plans
    BY DEF IInv, Typed
  <2>. QED  BY <2>1, NoPlanIsAPlan DEF Plans
<1>7. plan' \in Plans
  BY <1>1, <1>6, NoPlanIsAPlan
<1>. HIDE DEF q
<1>8. trouble' = {} => trouble = {} /\ Alone(p)
  BY <1>1 DEF Overlapped
<1>9. Typed' /\ InOrder' /\ Calm' /\ Others(p) /\ proc'[p] = q
  BY <1>1, <1>2, <1>3, <1>5, <1>7, <1>8, Beginning
<1>10. Planned'
  <2>1. CASE plan' = NoPlan
    BY <2>1, PlanGone
  <2>2. CASE /\ ~(bump > 0) /\ Alone(p)
             /\ kind = "dry" /\ plan' = [NoPlan EXCEPT !.by = p]
    <3>1. plan'.by = p /\ plan'.left = <<>> /\ plan'.kept = TRUE
      BY <2>2 DEF NoPlan
    <3>2. q.todo = Dry /\ bump = 0
      BY <1>2, <1>5, <2>2, Spelled
    <3>3. EndOf(Dry, Dry) /\ Left(Dry) = 4
      BY DEF EndOf, Dry, Left
    <3>4. Planning(proc[p])'
      BY <1>5, <1>9, <3>1, <3>2, <3>3 DEF Planning
    <3>5. Follows(p)'
      BY <1>5, <1>9, <2>2, <3>2, <3>4, StillAlone DEF Follows
    <3>. QED  BY <3>1, <3>5, CommandLineAssumption DEF Planned
  <2>3. CASE /\ ~(bump > 0) /\ Alone(p) /\ kind = "on"
             /\ plan.by = "nobody" /\ plan.settings = settings /\ plan' = [plan EXCEPT !.by = p]
    <3>1. Promise /\ plan.kept
      <4>1. plan.settings # <<>>
        BY <1>4, <2>3
      <4>. QED  BY <2>3, <4>1 DEF IInv, Planned
    <3>2. /\ plan'.by = p /\ plan'.left = plan.left /\ plan'.kept = plan.kept
          /\ plan'.settings = settings /\ plan.settings = settings
      BY <1>6, <2>3 DEF Plans
    <3>3. q.todo = Full /\ bump = 0
      BY <1>2, <1>5, <2>3, Spelled
    <3>4. EndOf(Full, Full) /\ Left(Full) = 9
      BY DEF EndOf, Full, Left
    <3>5. Promise'
      BY <1>1, <3>1, <3>2 DEF Promise, Opens
    <3>6. Carrying(proc[p])'
      BY <1>5, <1>9, <3>2, <3>3, <3>4, <3>5 DEF Carrying
    <3>7. Follows(p)'
      BY <1>5, <1>9, <2>3, <3>3, <3>6, StillAlone DEF Follows
    <3>. QED  BY <3>1, <3>2, <3>7, CommandLineAssumption DEF Planned
  <2>. QED  BY <1>1, <2>1, <2>2, <2>3
<1>. QED  BY <1>9, <1>10 DEF IInv

LEMMA ImportStep ==
  ASSUME IInv, NEW p \in Processes, Import(p)
  PROVE  IInv'
<1>. DEFINE q == [todo |-> <<"save">>, path |-> "config", mem |-> file["local"], bump |-> 0,
                  seq |-> None, kind |-> "setup", settings |-> <<>>, unsaved |-> FALSE]
<1>1. /\ ~Running(p) /\ proc' = [proc EXCEPT ![p] = q] /\ UNCHANGED <<file, rpl, ignored>>
      /\ "copied" \in trouble' /\ plan' = NoPlan /\ file["local"].whole
  BY DEF Import, MayBegin
<1>2. /\ file["local"] \in Contents /\ file["local"].exists /\ file["local"].net \in Nets
  BY <1>1 DEF IInv, Typed, Paths
<1>3. <<"save">> \in Seq(Steps) /\ Orderly(<<"save">>, TRUE)
  BY DEF Steps, Orderly
<1>4. q \in Invocation /\ q.todo = <<"save">> /\ q.mem = file["local"] /\ q.unsaved = FALSE
  BY <1>2, <1>3 DEF Invocation, Settings, Paths
<1>. HIDE DEF q
<1>5. q.mem.whole = TRUE
  BY <1>1, <1>2, <1>4 DEF Contents
<1>6. plan' \in Plans
  BY <1>1, NoPlanIsAPlan
<1>7. Typed' /\ InOrder' /\ Calm'
  BY <1>1, <1>2, <1>3, <1>4, <1>5, <1>6, Beginning
<1>. QED  BY <1>1, <1>7, PlanGone DEF IInv

LEMMA ProvisionStep ==
  ASSUME IInv, NEW p \in Processes, NEW net \in Nets, Provision(p, net)
  PROVE  IInv'
<1>. DEFINE q == [todo |-> <<"save">>, path |-> "local", mem |-> State(net, 1, FALSE), bump |-> 0,
                  seq |-> None, kind |-> "provision", settings |-> <<>>, unsaved |-> FALSE]
<1>1. /\ ~Running(p) /\ proc' = [proc EXCEPT ![p] = q] /\ UNCHANGED <<file, rpl, ignored>>
      /\ plan' = NoPlan
      /\ trouble' = trouble \cup Overlapped(p)
                      \cup (IF rpl[net] > 1 \/ \E path \in Paths : file[path].net = net
                            THEN {"reprovisioned"} ELSE {})
  BY DEF Provision, MayBegin
<1>2. /\ State(net, 1, FALSE) \in Contents /\ State(net, 1, FALSE).whole = TRUE
      /\ State(net, 1, FALSE).exists = TRUE /\ State(net, 1, FALSE).net = net
      /\ State(net, 1, FALSE).seq = 1
  BY DEF State, Contents
<1>3. <<"save">> \in Seq(Steps) /\ Orderly(<<"save">>, TRUE)
  BY DEF Steps, Orderly
<1>4. q \in Invocation /\ q.todo = <<"save">> /\ q.mem = State(net, 1, FALSE) /\ q.unsaved = FALSE
  BY <1>2, <1>3 DEF Invocation, Settings, Paths
<1>. HIDE DEF q
<1>5. plan' \in Plans
  BY <1>1, NoPlanIsAPlan
<1>6. trouble' = {} => trouble = {} /\ Alone(p)
  BY <1>1 DEF Overlapped
<1>7. trouble' = {} => 1 >= rpl[net] /\ \A path \in Paths : file[path].net # net
  <2>1. rpl[net] \in Nat
    BY DEF IInv, Typed
  <2>. QED  BY <1>1, <2>1
<1>8. Typed' /\ InOrder' /\ Calm'
  BY <1>1, <1>2, <1>3, <1>4, <1>5, <1>6, <1>7, Beginning
<1>. QED  BY <1>1, <1>8, PlanGone DEF IInv

LEMMA Ending ==
  ASSUME IInv, NEW p \in Processes, Running(p), Quits(p),
         trouble' = {} => trouble = {} /\ ~proc[p].unsaved /\ UNCHANGED <<rpl, ignored>>,
         file' = file \/ file' = [file EXCEPT ![proc[p].path] = Torn],
         rpl' \in [Nets -> Nat], ignored' \in BOOLEAN, plan' = plan \/ plan' = NoPlan
  PROVE  IInv'
<1>1. Typed /\ InOrder /\ Calm /\ Planned
  BY DEF IInv
<1>2. proc' \in [Processes -> Invocation] /\ Others(p) /\ proc'[p] = Gone
  BY <1>1, GoneIsAnInvocation, Becomes DEF Quits
<1>3. Torn \in Contents /\ Torn.whole = FALSE
  BY DEF Torn, Unreadable, Contents
<1>4. plan' \in Plans
  BY <1>1, NoPlanIsAPlan DEF Typed
<1>5. /\ file' \in [Paths -> Contents]
      /\ \A path \in Paths : file'[path].whole => file'[path].exists /\ file'[path].net \in Nets
  BY <1>1, <1>3 DEF Typed
<1>6. Typed'
  BY <1>1, <1>2, <1>4, <1>5, GoneIsAnInvocation DEF Typed, Others
<1>7. InOrder'
  BY <1>1, <1>2, GoneIsAnInvocation, InOrderStep
<1>8. Calm'
  BY <1>1, <1>2, CalmWhenEnding
<1>9. Planned'
  <2>1. CASE plan' = NoPlan
    BY <2>1, PlanGone
  <2>2. CASE plan' = plan
    <3>1. ~Running(p)'
      BY <1>2, GoneIsAnInvocation DEF Running
    <3>. QED  BY <1>1, <1>2, <2>2, <3>1, PlanStep
  <2>. QED  BY <1>4, <2>1, <2>2
<1>. QED  BY <1>6, <1>7, <1>8, <1>9 DEF IInv

LEMMA LoadRaisesStep ==
  ASSUME IInv, NEW p \in Processes, LoadRaises(p)
  PROVE  IInv'
<1>1. PICK step \in {"find", "raise", "open"} : At(p, step)
  BY DEF LoadRaises
<1>2. step \in Steps /\ step \notin {"pdu", "save"}
  BY DEF Steps
<1>3. ~proc[p].unsaved
  BY <1>1, <1>2, AtHead DEF IInv
<1>4. Running(p)
  BY <1>1 DEF At
<1>. QED  BY <1>3, <1>4, Ending DEF LoadRaises, IInv, Typed

LEMMA KilledStep ==
  ASSUME IInv, NEW p \in Processes, Killed(p)
  PROVE  IInv'
<1>1. /\ Running(p) /\ Quits(p) /\ plan' = NoPlan /\ UNCHANGED <<rpl, ignored>>
      /\ file' = file \/ file' = [file EXCEPT ![proc[p].path] = Torn]
      /\ trouble' = IF proc[p].unsaved THEN trouble \cup {"killed"} ELSE trouble
  BY DEF Killed
<1>2. trouble' = {} => trouble = {} /\ ~proc[p].unsaved
  BY <1>1
<1>3. rpl \in [Nets -> Nat] /\ ignored \in BOOLEAN
  BY DEF IInv, Typed
<1>. QED  BY <1>1, <1>2, <1>3, Ending

\* What a PDU does to the lights, by type.
LEMMA HeardTypes ==
  ASSUME Typed, NEW p \in Processes, proc[p].mem.whole, Heard(p)
  PROVE  rpl' \in [Nets -> Nat] /\ ignored' \in BOOLEAN
<1>1. proc[p].mem.seq \in Nat /\ proc[p].mem.net \in Nets /\ rpl \in [Nets -> Nat]
  BY DEF Typed, Invocation, Contents
<1>. QED  BY <1>1 DEF Heard

LEMMA PduRaisesStep ==
  ASSUME IInv, NEW p \in Processes, PduRaises(p)
  PROVE  IInv'
<1>1. At(p, "pdu") /\ Quits(p) /\ plan' = NoPlan /\ file' = file
  BY DEF PduRaises
<1>2. Running(p) /\ proc[p].mem.whole
  BY <1>1, AtHead DEF IInv, Steps, At
<1>3. rpl \in [Nets -> Nat] /\ ignored \in BOOLEAN /\ Typed
  BY DEF IInv, Typed
<1>4. rpl' \in [Nets -> Nat] /\ ignored' \in BOOLEAN
  BY <1>2, <1>3, HeardTypes DEF PduRaises
<1>5. trouble' = {} => trouble = {} /\ ~proc[p].unsaved /\ UNCHANGED <<rpl, ignored>>
  BY DEF PduRaises
<1>. QED  BY <1>1, <1>2, <1>4, <1>5, Ending

LEMMA Loading ==
  ASSUME IInv, NEW p \in Processes, NEW step \in {"find", "raise", "open"}, Loads(p, step),
         proc' \in [Processes -> Invocation], Others(p), Same(p),
         proc'[p].unsaved = proc[p].unsaved, trouble' = {} => trouble = {},
         \/ proc'[p].mem = proc[p].mem
         \/ LET f == file[proc[p].path] IN
            /\ proc'[p].mem.whole = TRUE /\ proc'[p].mem.exists = f.exists
            /\ proc'[p].mem.net = f.net
            /\ trouble' = {} => proc'[p].mem.seq >= f.seq,
         Orderly(proc'[p].todo, proc'[p].mem.whole),
         Running(p)' /\ Follows(p) => Follows(p)'
  PROVE  IInv'
<1>1. Typed /\ InOrder /\ Calm /\ Planned /\ plan \in Plans
  BY DEF IInv, Typed
<1>2. /\ At(p, step) /\ Running(p) /\ file[proc[p].path].whole
      /\ UNCHANGED <<file, rpl, ignored, plan, begun>>
  BY DEF Loads, At
<1>3. step \in Steps /\ step \notin {"pdu", "save"}
  BY DEF Steps
<1>4. ~proc[p].unsaved /\ proc[p].path \in Paths
  BY <1>1, <1>2, <1>3, AtHead DEF Invocation
<1>5. file[proc[p].path].exists /\ file[proc[p].path].net \in Nets
  BY <1>1, <1>2, <1>4 DEF Typed
<1>6. proc'[p].mem.whole => proc'[p].mem.exists /\ proc'[p].mem.net \in Nets
  BY <1>1, <1>5 DEF Typed
<1>7. Typed'
  BY <1>1, <1>2, <1>6, TypedStep
<1>8. Owing(proc'[p])
  BY <1>4 DEF Owing
<1>9. InOrder'
  BY <1>1, <1>8, InOrderStep
<1>10. proc'[p].mem.seq \in Nat /\ proc'[p].path = proc[p].path
  BY DEF Invocation, Contents, Same
<1>11. Calm'
  BY <1>1, <1>2, <1>4, <1>10, CalmWhenLoading
<1>12. Planned'
  BY <1>1, <1>2, PlanStep
<1>. QED  BY <1>7, <1>9, <1>11, <1>12 DEF IInv

LEMMA FindStep ==
  ASSUME IInv, NEW p \in Processes, Find(p)
  PROVE  IInv'
<1>. DEFINE f == file[proc[p].path]
<1>1. Typed /\ InOrder /\ Loads(p, "find") /\ At(p, "find") /\ trouble' = trouble
  BY DEF IInv, Find, Loads
<1>2. /\ proc[p] \in Invocation /\ proc[p].todo \in Seq(Steps) /\ proc[p].todo # <<>>
      /\ Head(proc[p].todo) = "find" /\ proc[p].mem.whole \in BOOLEAN
      /\ Orderly(proc[p].todo, proc[p].mem.whole) /\ ~proc[p].unsaved /\ Running(p)
  BY <1>1, AtHead DEF Steps, At, Invocation, Contents
<1>3. f \in Contents /\ f.whole = TRUE
  BY <1>1, <1>2 DEF Typed, Invocation, Loads, Contents
<1>4. CASE proc' = [proc EXCEPT ![p].todo = Tail(Tail(@))]
  <2>. DEFINE rest == Tail(Tail(proc[p].todo))
  <2>1. rest \in Seq(Steps) /\ Orderly(rest, proc[p].mem.whole)
    BY <1>2, OrderlySkip
  <2>2. proc' = [proc EXCEPT ![p].todo = rest]
    BY <1>4
  <2>. HIDE DEF rest
  <2>3. /\ proc' \in [Processes -> Invocation] /\ Others(p) /\ Same(p)
        /\ proc'[p].todo = rest /\ proc'[p].mem = proc[p].mem
        /\ proc'[p].unsaved = proc[p].unsaved
    BY <1>1, <2>1, <2>2, SkipsSave
  <2>4. Follows(p) => Follows(p)'
    BY <1>1, <2>3, FollowsFind DEF Loads, rest
  <2>. QED  BY <1>1, <2>1, <2>3, <2>4, Loading
<1>5. CASE proc[p].kind # "dry" /\ Goes(p, [f EXCEPT !.address = TRUE])
  <2>. DEFINE m == [f EXCEPT !.address = TRUE]
  <2>1. /\ m \in Contents /\ m.whole = TRUE /\ m.exists = f.exists /\ m.net = f.net
        /\ m.seq = f.seq /\ f.seq \in Nat
    BY <1>3 DEF Contents
  <2>2. Goes(p, m)
    BY <1>5
  <2>. HIDE DEF m
  <2>3. /\ proc' \in [Processes -> Invocation] /\ Others(p) /\ Same(p)
        /\ proc'[p].todo = Tail(proc[p].todo) /\ proc'[p].mem = m
        /\ proc'[p].unsaved = proc[p].unsaved
    BY <1>1, <1>2, <2>1, <2>2, GoesOn
  <2>4. Orderly(proc'[p].todo, proc'[p].mem.whole)
    BY <1>2, <2>1, <2>3, OrderlyTail
  <2>5. Follows(p) => Follows(p)'
    BY <1>1, <1>5, <2>1, <2>3, FollowsFind DEF Loads
  <2>6. proc'[p].mem.seq >= f.seq
    BY <2>1, <2>3
  <2>7. /\ proc'[p].mem.whole = TRUE /\ proc'[p].mem.exists = f.exists
        /\ proc'[p].mem.net = f.net /\ (trouble' = {} => proc'[p].mem.seq >= f.seq)
    BY <2>1, <2>3, <2>6
  <2>. QED  BY <1>1, <2>3, <2>4, <2>5, <2>7, Loading
<1>6. CASE Quits(p)
  BY <1>1, <1>2, <1>6, Ending DEF Loads, Typed
<1>. QED  BY <1>4, <1>5, <1>6 DEF Find

LEMMA RaiseStep ==
  ASSUME IInv, NEW p \in Processes, Raise(p)
  PROVE  IInv'
<1>. DEFINE f == file[proc[p].path]
            m == [f EXCEPT !.seq = @ + proc[p].bump]
<1>1. /\ Typed /\ InOrder /\ Loads(p, "raise") /\ At(p, "raise") /\ trouble' = trouble
      /\ Goes(p, m)
  BY DEF IInv, Raise, Loads
<1>2. /\ proc[p] \in Invocation /\ proc[p].todo \in Seq(Steps) /\ proc[p].todo # <<>>
      /\ Head(proc[p].todo) = "raise" /\ proc[p].todo[1] = "raise" /\ proc[p].mem.whole \in BOOLEAN
      /\ Orderly(proc[p].todo, proc[p].mem.whole) /\ ~proc[p].unsaved /\ Running(p)
  BY <1>1, AtHead DEF Steps, At, Invocation, Contents
<1>3. f \in Contents /\ f.whole = TRUE /\ proc[p].bump \in Nat
  BY <1>1, <1>2 DEF Typed, Invocation, Loads, Contents
<1>4. /\ m \in Contents /\ m.whole = TRUE /\ m.exists = f.exists /\ m.net = f.net
      /\ m.seq >= f.seq
  BY <1>3 DEF Contents
<1>. HIDE DEF m
<1>5. /\ proc' \in [Processes -> Invocation] /\ Others(p) /\ Same(p)
      /\ proc'[p].todo = Tail(proc[p].todo) /\ proc'[p].mem = m
      /\ proc'[p].unsaved = proc[p].unsaved
  BY <1>1, <1>2, <1>4, GoesOn
<1>6. Orderly(proc'[p].todo, proc'[p].mem.whole)
  BY <1>2, <1>4, <1>5, OrderlyTail
<1>7. ~Follows(p)
  BY <1>2, DryHeads, FullHeads DEF Follows, Planning, Carrying
<1>. QED  BY <1>1, <1>4, <1>5, <1>6, <1>7, Loading

LEMMA OpenStep ==
  ASSUME IInv, NEW p \in Processes, Open(p)
  PROVE  IInv'
<1>. DEFINE f == file[proc[p].path]  seq == proc[p].seq
            m == IF seq = None THEN f ELSE [f EXCEPT !.seq = seq]
<1>1. /\ Typed /\ InOrder /\ Loads(p, "open") /\ At(p, "open") /\ Goes(p, m)
      /\ trouble' = IF seq # None /\ seq < f.seq THEN trouble \cup {"lowered"} ELSE trouble
  BY DEF IInv, Open, Loads
<1>2. /\ proc[p] \in Invocation /\ proc[p].todo \in Seq(Steps) /\ proc[p].todo # <<>>
      /\ Head(proc[p].todo) = "open" /\ proc[p].mem.whole \in BOOLEAN
      /\ Orderly(proc[p].todo, proc[p].mem.whole) /\ ~proc[p].unsaved /\ Running(p)
  BY <1>1, AtHead DEF Steps, At, Invocation, Contents
<1>3. /\ f \in Contents /\ f.whole = TRUE /\ f.seq \in Nat /\ (seq # None => seq \in Nat)
  BY <1>1, <1>2, CommandLineAssumption DEF Typed, Invocation, Loads, Contents
<1>4. /\ m \in Contents /\ m.whole = TRUE /\ m.exists = f.exists /\ m.net = f.net
      /\ m.seq = IF seq = None THEN f.seq ELSE seq
  BY <1>3 DEF Contents
<1>. HIDE DEF m
<1>5. /\ proc' \in [Processes -> Invocation] /\ Others(p) /\ Same(p)
      /\ proc'[p].todo = Tail(proc[p].todo) /\ proc'[p].mem = m
      /\ proc'[p].unsaved = proc[p].unsaved
  BY <1>1, <1>2, <1>4, GoesOn
<1>6. Orderly(proc'[p].todo, proc'[p].mem.whole)
  BY <1>2, <1>4, <1>5, OrderlyTail
<1>7. trouble' = {} => trouble = {} /\ m.seq >= f.seq
  BY <1>1, <1>3, <1>4
<1>8. Follows(p) => Follows(p)'
  BY <1>1, <1>4, <1>5, FollowsOpen DEF Loads
<1>. QED  BY <1>1, <1>4, <1>5, <1>6, <1>7, <1>8, Loading

LEMMA PlanningStep ==
  ASSUME IInv, NEW p \in Processes, Plan(p)
  PROVE  IInv'
<1>1. /\ Typed /\ InOrder /\ Calm /\ Planned /\ At(p, "plan") /\ Goes(p, proc[p].mem)
      /\ UNCHANGED <<file, rpl, ignored, trouble>>
  BY DEF IInv, Plan
<1>2. /\ proc[p] \in Invocation /\ proc[p].todo \in Seq(Steps) /\ proc[p].todo # <<>>
      /\ Head(proc[p].todo) = "plan"
      /\ proc[p].mem.whole \in BOOLEAN /\ proc[p].mem \in Contents /\ proc[p].mem.seq \in Nat
      /\ Orderly(proc[p].todo, proc[p].mem.whole) /\ ~proc[p].unsaved /\ Running(p)
  BY <1>1, AtHead DEF Steps, At, Invocation, Contents
<1>3. /\ proc' \in [Processes -> Invocation] /\ Others(p) /\ Same(p)
      /\ proc'[p].todo = Tail(proc[p].todo) /\ proc'[p].mem = proc[p].mem
      /\ proc'[p].unsaved = proc[p].unsaved
  BY <1>1, <1>2, GoesOn
<1>4. Orderly(proc'[p].todo, proc'[p].mem.whole)
  BY <1>2, <1>3, OrderlyTail
<1>5. plan' \in Plans /\ Planned'
  <2>1. CASE plan.by = p
    <3>1. plan' = [by |-> "nobody", settings |-> proc[p].settings, kept |-> TRUE,
                   left |-> <<proc[p].mem.seq, proc[p].mem.seq + 1, proc[p].mem.seq + 2>>]
      BY <2>1 DEF Plan
    <3>2. proc[p].settings \in Settings
      BY <1>2 DEF Invocation
    <3>3. <<proc[p].mem.seq, proc[p].mem.seq + 1, proc[p].mem.seq + 2>> \in Seq(Nat)
      BY <1>2
    <3>4. plan' \in Plans
      BY <3>1, <3>2, <3>3 DEF Plans
    <3>5. Planned'
      BY <1>1, <1>3, <2>1, <3>1, PlanIsMade
    <3>. QED  BY <3>4, <3>5
  <2>2. CASE plan.by # p
    <3>1. plan' = NoPlan
      BY <2>2 DEF Plan
    <3>. QED  BY <3>1, NoPlanIsAPlan, PlanGone
  <2>. QED  BY <2>1, <2>2
<1>6. proc'[p].mem.whole => proc'[p].mem.exists /\ proc'[p].mem.net \in Nets
  BY <1>1, <1>3 DEF Typed
<1>7. Typed'
  BY <1>1, <1>3, <1>5, <1>6, TypedStep
<1>8. InOrder'
  <2>1. Owing(proc'[p])
    BY <1>2, <1>3 DEF Owing
  <2>. QED  BY <1>1, <1>3, <1>4, <2>1, InOrderStep
<1>9. Calm'
  BY <1>1, <1>2, <1>3, CalmWhenLoading DEF Same
<1>. QED  BY <1>5, <1>7, <1>8, <1>9 DEF IInv

LEMMA SaveStep ==
  ASSUME IInv, NEW p \in Processes, Save(p)
  PROVE  IInv'
<1>1. /\ Typed /\ InOrder /\ Calm /\ Planned /\ At(p, "save") /\ plan' = plan /\ rpl' = rpl
      /\ file' = [file EXCEPT ![proc[p].path] = proc[p].mem]
      /\ proc' = [proc EXCEPT ![p].todo = Tail(@), ![p].unsaved = FALSE]
      /\ IF Ahead(p) THEN trouble' = {} /\ ignored' = FALSE ELSE UNCHANGED <<trouble, ignored>>
  BY DEF IInv, Save
<1>2. /\ proc[p] \in Invocation /\ proc[p].todo \in Seq(Steps) /\ proc[p].todo # <<>>
      /\ proc[p].mem.whole = TRUE /\ proc[p].mem \in Contents /\ proc[p].path \in Paths
      /\ Orderly(proc[p].todo, proc[p].mem.whole) /\ Running(p)
  BY <1>1, AtHead DEF Steps, At, Invocation, Contents
<1>3. /\ proc' \in [Processes -> Invocation] /\ Others(p) /\ Same(p)
      /\ proc'[p].todo = Tail(proc[p].todo) /\ proc'[p].mem = proc[p].mem
      /\ proc'[p].unsaved = FALSE
  BY <1>1, <1>2, Saves
<1>4. proc[p].mem.exists /\ proc[p].mem.net \in Nets
  BY <1>1, <1>2 DEF Typed
<1>5. Typed'
  <2>1. /\ file' \in [Paths -> Contents]
        /\ \A path \in Paths : file'[path].whole => file'[path].exists /\ file'[path].net \in Nets
    BY <1>1, <1>2, <1>4 DEF Typed
  <2>2. ignored' \in BOOLEAN
    BY <1>1 DEF Typed
  <2>. QED  BY <1>1, <1>3, <1>4, <2>1, <2>2 DEF Typed, Others
<1>6. InOrder'
  <2>1. Orderly(proc'[p].todo, proc'[p].mem.whole)
    BY <1>2, <1>3, OrderlyTail
  <2>2. Owing(proc'[p])
    BY <1>3 DEF Owing
  <2>. QED  BY <1>1, <1>3, <2>1, <2>2, InOrderStep
<1>7. Calm'
  BY <1>1, <1>2, <1>3, CalmWhenSaving DEF Same
<1>8. Planned'
  BY <1>1, <1>2, <1>3, FollowsSave, PlanStep
<1>. QED  BY <1>5, <1>6, <1>7, <1>8 DEF IInv

LEMMA PduStep ==
  ASSUME IInv, NEW p \in Processes, Pdu(p)
  PROVE  IInv'
<1>1. /\ Typed /\ InOrder /\ Calm /\ Planned /\ At(p, "pdu") /\ Kept(p)
      /\ UNCHANGED <<file, trouble>> /\ (Heard(p) \/ UNCHANGED <<rpl, ignored>>)
      /\ proc' = [proc EXCEPT ![p].todo = Tail(@), ![p].mem.seq = @ + 1, ![p].unsaved = TRUE]
  BY DEF IInv, Pdu
<1>2. /\ proc[p] \in Invocation /\ proc[p].todo \in Seq(Steps) /\ proc[p].todo # <<>>
      /\ proc[p].mem.whole = TRUE /\ Running(p) /\ Len(proc[p].todo) > 1
      /\ Orderly(proc[p].todo, proc[p].mem.whole)
      /\ \A i \in 1 .. Len(proc[p].todo) : proc[p].todo[i] \in {"pdu", "save"}
  BY <1>1, AtHead DEF Steps, At, Invocation, Contents
<1>3. /\ proc' \in [Processes -> Invocation] /\ Others(p) /\ Same(p)
      /\ proc'[p].todo = Tail(proc[p].todo) /\ proc'[p].unsaved = TRUE
      /\ proc'[p].mem.whole = proc[p].mem.whole /\ proc'[p].mem.exists = proc[p].mem.exists
      /\ proc'[p].mem.net = proc[p].mem.net /\ proc'[p].mem.seq = proc[p].mem.seq + 1
  BY <1>1, <1>2, Sends
<1>4. /\ proc'[p].todo # <<>>
      /\ \A i \in 1 .. Len(proc'[p].todo) : proc'[p].todo[i] \in {"pdu", "save"}
  <2>. DEFINE rest == Tail(proc[p].todo)
  <2>1. /\ rest \in Seq(Steps) /\ Len(rest) = Len(proc[p].todo) - 1 /\ Len(proc[p].todo) \in Nat
        /\ \A i \in 1 .. Len(rest) : rest[i] = proc[p].todo[i + 1]
    BY <1>2
  <2>. HIDE DEF rest
  <2>2. rest # <<>>
    BY <1>2, <2>1
  <2>3. \A i \in 1 .. Len(rest) : rest[i] \in {"pdu", "save"}
    BY <1>2, <2>1
  <2>. QED  BY <1>3, <2>2, <2>3 DEF rest
<1>5. plan' \in Plans /\ Planned'
  <2>1. CASE plan.by = p
    BY <1>1, <1>3, <2>1, PduKeepsThePlan
  <2>2. CASE plan.by # p
    <3>1. plan' = plan
      BY <1>1, <2>2 DEF Kept
    <3>2. plan \in Plans
      BY <1>1 DEF Typed
    <3>. QED  BY <1>1, <1>2, <1>3, <2>2, <3>1, <3>2, PlanStep
  <2>. QED  BY <2>1, <2>2
<1>6. Typed'
  <2>1. rpl' \in [Nets -> Nat] /\ ignored' \in BOOLEAN
    BY <1>1, <1>2, HeardTypes DEF Typed
  <2>2. proc'[p].mem.whole => proc'[p].mem.exists /\ proc'[p].mem.net \in Nets
    BY <1>1, <1>3 DEF Typed
  <2>. QED  BY <1>1, <1>3, <1>5, <2>1, <2>2 DEF Typed, Others
<1>7. InOrder'
  <2>1. Orderly(proc'[p].todo, proc'[p].mem.whole)
    BY <1>2, <1>3, OrderlyTail
  <2>2. Owing(proc'[p])
    BY <1>4 DEF Owing
  <2>. QED  BY <1>1, <1>3, <2>1, <2>2, InOrderStep
<1>8. Calm'
  <2>1. Running(p)'
    BY <1>4 DEF Running
  <2>. QED  BY <1>1, <1>2, <1>3, <2>1, CalmWhenSending DEF Same
<1>. QED  BY <1>5, <1>6, <1>7, <1>8 DEF IInv

-----------------------------------------------------------------------------
(* The results. *)

LEMMA Starts ==
  ASSUME Init
  PROVE  IInv
<1>1. PICK net \in Nets :
        /\ file = [path \in Paths |-> IF path = "config" THEN State(net, FirstSeq, FALSE) ELSE Absent]
        /\ rpl = [n \in Nets |-> IF n = net THEN FirstSeq ELSE 0]
  BY DEF Init
<1>2. /\ proc = [p \in Processes |-> Gone] /\ ignored = FALSE /\ trouble = {} /\ plan = NoPlan
  BY DEF Init
<1>3. /\ State(net, FirstSeq, FALSE) \in Contents /\ State(net, FirstSeq, FALSE).whole = TRUE
      /\ State(net, FirstSeq, FALSE).exists = TRUE /\ State(net, FirstSeq, FALSE).net = net
      /\ State(net, FirstSeq, FALSE).seq = FirstSeq
  BY CommandLineAssumption DEF State, Contents
<1>4. Absent \in Contents /\ Absent.whole = FALSE
  BY DEF Absent, Unreadable, Contents
<1>5. /\ file \in [Paths -> Contents] /\ rpl \in [Nets -> Nat]
      /\ \A path \in Paths : file[path].whole =>
           path = "config" /\ file[path].exists /\ file[path].net = net /\ file[path].seq = FirstSeq
      /\ rpl[net] = FirstSeq
  BY <1>1, <1>3, <1>4, CommandLineAssumption
<1>6. \A p \in Processes : ~Running(p) /\ proc[p].mem.whole = FALSE /\ proc[p] = Gone
  BY <1>2, GoneIsAnInvocation DEF Running
<1>7. Typed
  BY <1>2, <1>5, <1>6, GoneIsAnInvocation, NoPlanIsAPlan DEF Typed
<1>8. InOrder
  BY <1>6, GoneIsAnInvocation DEF InOrder
<1>9. Calm
  BY <1>2, <1>5, <1>6, CommandLineAssumption DEF Calm
<1>10. Planned
  BY <1>2, <1>6 DEF Planned, NoPlan
<1>. QED  BY <1>7, <1>8, <1>9, <1>10 DEF IInv

\* What no step of any invocation undoes: one state file to a network, each file past
\* its lights unless a PDU of the one process that runs is not yet saved, and a plan
\* that the next numbers bear out, as long as nothing in trouble has happened.
THEOREM Invariance == Spec => []IInv
<1>1. Init => IInv
  BY Starts
<1>2. IInv /\ [Next]_vars => IInv'
  <2>. SUFFICES ASSUME IInv, [Next]_vars PROVE IInv'
    OBVIOUS
  <2>1. ASSUME NEW p \in Processes, NEW kind \in {"on", "dry"}, NEW here \in BOOLEAN,
               NEW bump \in Bumps, NEW seq \in Overrides \cup {None}, Begin(p, kind, here, bump, seq)
        PROVE  IInv'
    BY <2>1, BeginStep
  <2>2. ASSUME NEW p \in Processes, NEW here \in BOOLEAN, NEW bump \in Bumps,
               Begin(p, "rebind", here, bump, None)
        PROVE  IInv'
    BY <2>2, BeginStep
  <2>3. ASSUME NEW p \in Processes, Import(p) PROVE IInv'
    BY <2>3, ImportStep
  <2>4. ASSUME NEW p \in Processes, NEW net \in Nets, Provision(p, net) PROVE IInv'
    BY <2>4, ProvisionStep
  <2>5. ASSUME NEW p \in Processes, LoadRaises(p) PROVE IInv'
    BY <2>5, LoadRaisesStep
  <2>6. ASSUME NEW p \in Processes, Find(p) PROVE IInv'
    BY <2>6, FindStep
  <2>7. ASSUME NEW p \in Processes, Raise(p) PROVE IInv'
    BY <2>7, RaiseStep
  <2>8. ASSUME NEW p \in Processes, Open(p) PROVE IInv'
    BY <2>8, OpenStep
  <2>9. ASSUME NEW p \in Processes, Plan(p) PROVE IInv'
    BY <2>9, PlanningStep
  <2>10. ASSUME NEW p \in Processes, Save(p) PROVE IInv'
    BY <2>10, SaveStep
  <2>11. ASSUME NEW p \in Processes, Pdu(p) PROVE IInv'
    BY <2>11, PduStep
  <2>12. ASSUME NEW p \in Processes, PduRaises(p) PROVE IInv'
    BY <2>12, PduRaisesStep
  <2>13. ASSUME NEW p \in Processes, Killed(p) PROVE IInv'
    BY <2>13, KilledStep
  <2>14. CASE UNCHANGED vars
    BY <2>14 DEF vars, IInv, Typed, InOrder, Calm, BeingUsed, Running, Planned, Promise, Opens,
                 Follows, Alone, Planning, Carrying
  <2>. QED  BY <2>1, <2>2, <2>3, <2>4, <2>5, <2>6, <2>7, <2>8, <2>9, <2>10, <2>11, <2>12, <2>13,
               <2>14 DEF Next
<1>. QED  BY <1>1, <1>2, PTL DEF Spec

\* README.md:312, cli.py:164: however many invocations there are, and whatever bumps and
\* numbers they are given, the lights ignore one only after trouble of a kind the
\* model names, and a bump that clears it leaves none.
THEOREM LightsHearUnlessTrouble == Spec => []IgnoredNeedsTrouble
<1>1. IInv => IgnoredNeedsTrouble
  BY DEF IInv, Calm, IgnoredNeedsTrouble
<1>. QED  BY <1>1, Invariance, PTL

\* cli.py:409: the numbers a dry run prints are those used, for any settings, however
\* many processes may have come and gone before.
THEOREM DryRunsAreHonest == Spec => []PlanIsKept
<1>1. IInv => PlanIsKept
  BY DEF IInv, Planned, PlanIsKept
<1>. QED  BY <1>1, Invariance, PTL

============================================================================
