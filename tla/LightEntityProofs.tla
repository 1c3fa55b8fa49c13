------------------------- MODULE LightEntityProofs -------------------------
(***************************************************************************)
(* The entity of LightEntity, for any models, levels and requests, any     *)
(* number of calls, moves and panel actions, and any number of attempts    *)
(* and misses.                                                             *)
(*                                                                         *)
(* The proofs see the calls waiting for the link only through what is said *)
(* of them below: whether the holder's is among them and what it does,     *)
(* whether the light is about to be told what to show, and which look it   *)
(* will show when all have been served.                                    *)
(***************************************************************************)
EXTENDS LightEntity, SequenceTheorems, TLAPS

-----------------------------------------------------------------------------
(* The calls that wait for the link. *)

HasJob(b) == \E i \in 1 .. Len(b) : b[i].from = "job"
OneJob(b) == \A i, j \in 1 .. Len(b) : b[i].from = "job" /\ b[j].from = "job" => i = j
JobDoes(b, op) == \A i \in 1 .. Len(b) : b[i].from = "job" => b[i].op = op
SlidersShow(b) == \A i \in 1 .. Len(b) : b[i].from = "slider" => b[i].op = "show"
Shows(b) == \E i \in 1 .. Len(b) : b[i].op = "show"

\* A light that shows look now will show last when every call in b has arrived.
Ends(b, look, last) ==
  /\ ~Shows(b) => look = last
  /\ \A i \in 1 .. Len(b) :
       b[i].op = "show" /\ (\A j \in i + 1 .. Len(b) : b[j].op # "show") => b[i].look = last

\* ... or a gel.
Settles(b, look, last) == Ends(b, look, last) \/ Ends(b, look, Gel)

-----------------------------------------------------------------------------
(* What holds at every step. *)

\* Where the holder of the lock is says what it waits for.
Placed ==
  /\ stage # "start" => jobs # <<>> /\ seen.result = "none"
  /\ stage \in {"body", "again", "settle", "resend"} => Holds("on")
  /\ stage = "power" => ~Holds("poll")
  /\ stage = "check" => ~Holds("off")
  /\ HasJob(bus) <=> stage \notin {"start", "settle"}
  /\ OneJob(bus) /\ SlidersShow(bus)
  /\ stage = "power" => JobDoes(bus, Head(jobs).kind)
  /\ stage \in {"body", "resend"} => JobDoes(bus, "show")
  /\ stage = "again" => JobDoes(bus, "on")
  /\ stage = "check" => JobDoes(bus, "status")

\* The LEDs, after the first power write and after the second.
Lit ==
  /\ LedsAreOn
  /\ Holds("on") /\ stage = "power" => seen.lost = 0
  /\ stage \in {"body", "again"} => (seen.lost = 0 /\ ~seen.touched => light.leds)
  /\ Holds("on") /\ stage \in {"settle", "check", "resend"} =>
       (seen.lost <= 1 /\ ~seen.touched => light.leds)

\* The level of a command, which is confirmed only where it carries one.
Levelled ==
  /\ ShowsWhatWasMeasured
  /\ Holds("on") /\ Head(jobs).level # Keep /\ stage # "start" =>
       /\ ha.level = Head(jobs).level
       /\ stage # "power" => local.pct = Head(jobs).level
  /\ Holds("on") /\ stage \in {"body", "again", "settle", "check", "resend"} =>
       ha.level = local.pct /\ shared = local.pct
  /\ Holds("on") /\ stage \in {"settle", "check", "resend"} =>
       Head(jobs).level # Keep /\ ha.effect = NoEffect
  /\ Holds("on") /\ stage \in {"power", "body", "again"} => local.reported = Unread

BeyondPower == Holds("on") /\ stage \notin {"start", "power"}
Told == seen.set \/ Shows(bus)

\* The last look that is on its way is the one Home Assistant displays, from when a
\* command has sent it, or while the light is on.
InStep ==
  /\ seen.clean /\ ~seen.astray /\ Told /\ (ha.on \/ BeyondPower)
       /\ ~ (Holds("on") /\ stage = "power")
     => Settles(bus, light.look, Aspect(ha))
  /\ BeyondPower => Told
  /\ ~added => jobs = <<Poll>> /\ waiting = <<>> /\ ~Told

IInv == TypeOK /\ Placed /\ Lit /\ Levelled /\ InStep

-----------------------------------------------------------------------------
(* A call is made, served, or withdrawn. *)

LEMMA Appended ==
  ASSUME NEW b \in Seq(Frame), NEW f \in Frame
  PROVE  /\ Append(b, f) \in Seq(Frame)
         /\ HasJob(Append(b, f)) <=> HasJob(b) \/ f.from = "job"
         /\ OneJob(b) /\ (f.from = "job" => ~HasJob(b)) => OneJob(Append(b, f))
         /\ \A op : JobDoes(b, op) /\ (f.from = "job" => f.op = op) => JobDoes(Append(b, f), op)
         /\ SlidersShow(b) /\ (f.from = "slider" => f.op = "show") => SlidersShow(Append(b, f))
         /\ Shows(Append(b, f)) <=> Shows(b) \/ f.op = "show"
<1>. DEFINE c == Append(b, f)
<1>1. /\ c \in Seq(Frame) /\ Len(c) = Len(b) + 1 /\ Len(b) \in Nat /\ c[Len(b) + 1] = f
      /\ \A i \in 1 .. Len(b) : c[i] = b[i]
  OBVIOUS
<1>2. \A i \in 1 .. Len(c) : i = Len(b) + 1 \/ i \in 1 .. Len(b)
  BY <1>1
<1>3. \A i \in 1 .. Len(b) : i \in 1 .. Len(c) /\ i # Len(b) + 1
  BY <1>1
<1>4. Len(b) + 1 \in 1 .. Len(c)
  BY <1>1
<1>. HIDE DEF c
<1>5. HasJob(c) <=> HasJob(b) \/ f.from = "job"
  BY <1>1, <1>2, <1>3, <1>4 DEF HasJob
<1>6. OneJob(b) /\ (f.from = "job" => ~HasJob(b)) => OneJob(c)
  BY <1>1, <1>2, <1>3 DEF HasJob, OneJob
<1>7. \A op : JobDoes(b, op) /\ (f.from = "job" => f.op = op) => JobDoes(c, op)
  BY <1>1, <1>2 DEF JobDoes
<1>8. SlidersShow(b) /\ (f.from = "slider" => f.op = "show") => SlidersShow(c)
  BY <1>1, <1>2 DEF SlidersShow
<1>9. Shows(c) <=> Shows(b) \/ f.op = "show"
  BY <1>1, <1>2, <1>3, <1>4 DEF Shows
<1>. QED  BY <1>1, <1>5, <1>6, <1>7, <1>8, <1>9 DEF c

LEMMA AppendedEnds ==
  ASSUME NEW b \in Seq(Frame), NEW f \in Frame, NEW look, NEW last,
         IF f.op = "show" THEN f.look = last ELSE Ends(b, look, last)
  PROVE  Ends(Append(b, f), look, last)
<1>. DEFINE c == Append(b, f)
<1>1. /\ c \in Seq(Frame) /\ Len(c) = Len(b) + 1 /\ Len(b) \in Nat /\ c[Len(b) + 1] = f
      /\ \A i \in 1 .. Len(b) : c[i] = b[i]
  OBVIOUS
<1>2. \A i \in 1 .. Len(c) : i = Len(b) + 1 \/ i \in 1 .. Len(b)
  BY <1>1
<1>. HIDE DEF c
<1>3. CASE f.op = "show"
  <2>1. Shows(c)
    BY <1>1, <1>3 DEF Shows
  <2>2. ASSUME NEW i \in 1 .. Len(b) PROVE \E j \in i + 1 .. Len(c) : c[j].op = "show"
    BY <1>1, <1>3
  <2>3. c[Len(b) + 1].look = last
    BY <1>1, <1>3
  <2>. QED  BY <1>2, <2>1, <2>2, <2>3 DEF Ends, c
<1>4. CASE f.op # "show"
  <2>1. Ends(b, look, last)
    BY <1>4
  <2>2. ~Shows(c) => ~Shows(b)
    BY <1>1 DEF Shows
  <2>3. ASSUME NEW i \in 1 .. Len(c), c[i].op = "show", \A j \in i + 1 .. Len(c) : c[j].op # "show"
        PROVE  c[i].look = last
    <3>1. i \in 1 .. Len(b) /\ c[i] = b[i]
      BY <1>1, <1>2, <1>4, <2>3
    <3>2. \A j \in i + 1 .. Len(b) : b[j].op # "show"
      BY <1>1, <2>3, <3>1
    <3>. QED  BY <2>1, <2>3, <3>1, <3>2 DEF Ends
  <2>. QED  BY <2>1, <2>2, <2>3 DEF Ends, c
<1>. QED  BY <1>3, <1>4

LEMMA Delivered ==
  ASSUME NEW b \in Seq(Frame), b # <<>>, OneJob(b)
  PROVE  /\ Head(b) \in Frame /\ Tail(b) \in Seq(Frame) /\ OneJob(Tail(b))
         /\ Head(b).from = "job" => HasJob(b) /\ ~HasJob(Tail(b))
         /\ Head(b).from # "job" => (HasJob(Tail(b)) <=> HasJob(b))
         /\ \A op : JobDoes(b, op) => JobDoes(Tail(b), op) /\ (Head(b).from = "job" => Head(b).op = op)
         /\ SlidersShow(b) => SlidersShow(Tail(b)) /\ (Head(b).from = "slider" => Head(b).op = "show")
         /\ Shows(b) <=> Shows(Tail(b)) \/ Head(b).op = "show"
         /\ \A look, last : Ends(b, look, last) =>
              Ends(Tail(b), IF Head(b).op = "show" THEN Head(b).look ELSE look, last)
<1>. DEFINE c == Tail(b)  h == Head(b)
<1>1. /\ c \in Seq(Frame) /\ Len(c) = Len(b) - 1 /\ Len(b) \in Nat /\ Len(b) >= 1
      /\ h = b[1] /\ h \in Frame
      /\ \A i \in 1 .. Len(c) : c[i] = b[i + 1]
  OBVIOUS
<1>. HIDE DEF c, h
<1>2. \A i \in 1 .. Len(c) : i + 1 \in 1 .. Len(b) /\ i + 1 # 1
  BY <1>1
<1>3. ASSUME NEW i \in 1 .. Len(b), i # 1 PROVE i - 1 \in 1 .. Len(c) /\ c[i - 1] = b[i]
  BY <1>1, <1>3
<1>4. 1 \in 1 .. Len(b)
  BY <1>1
<1>5. OneJob(c)
  <2>. SUFFICES ASSUME NEW i \in 1 .. Len(c), NEW j \in 1 .. Len(c),
                       c[i].from = "job", c[j].from = "job"
                PROVE  i = j
    BY DEF OneJob
  <2>1. i + 1 \in 1 .. Len(b) /\ j + 1 \in 1 .. Len(b) /\ c[i] = b[i + 1] /\ c[j] = b[j + 1]
    BY <1>1, <1>2
  <2>2. i + 1 = j + 1
    BY <2>1 DEF OneJob
  <2>. QED  BY <1>1, <2>2
<1>6. h.from = "job" => HasJob(b) /\ ~HasJob(c)
  BY <1>1, <1>2, <1>4 DEF OneJob, HasJob
<1>7. h.from # "job" => (HasJob(c) <=> HasJob(b))
  BY <1>1, <1>2, <1>3 DEF HasJob
<1>8. \A op : JobDoes(b, op) => JobDoes(c, op) /\ (h.from = "job" => h.op = op)
  BY <1>1, <1>2, <1>4 DEF JobDoes
<1>9. SlidersShow(b) => SlidersShow(c) /\ (h.from = "slider" => h.op = "show")
  BY <1>1, <1>2, <1>4 DEF SlidersShow
<1>10. Shows(b) <=> Shows(c) \/ h.op = "show"
  BY <1>1, <1>2, <1>3, <1>4 DEF Shows
<1>11. ASSUME NEW look, NEW last, Ends(b, look, last)
       PROVE  Ends(c, IF h.op = "show" THEN h.look ELSE look, last)
  <2>1. ASSUME ~Shows(c) PROVE (IF h.op = "show" THEN h.look ELSE look) = last
    <3>1. CASE h.op = "show"
      <4>1. \A j \in 2 .. Len(b) : b[j].op # "show"
        BY <1>3, <2>1 DEF Shows
      <4>. QED  BY <1>1, <1>4, <1>11, <3>1, <4>1 DEF Ends
    <3>2. CASE h.op # "show"
      BY <1>10, <1>11, <2>1, <3>2 DEF Ends
    <3>. QED  BY <3>1, <3>2
  <2>2. ASSUME NEW i \in 1 .. Len(c), c[i].op = "show", \A j \in i + 1 .. Len(c) : c[j].op # "show"
        PROVE  c[i].look = last
    <3>1. c[i] = b[i + 1] /\ i + 1 \in 1 .. Len(b)
      BY <1>1, <1>2
    <3>2. ASSUME NEW j \in (i + 1) + 1 .. Len(b) PROVE b[j].op # "show"
      <4>1. j - 1 \in i + 1 .. Len(c) /\ j \in 1 .. Len(b) /\ j # 1
        BY <1>1
      <4>2. c[j - 1] = b[j]
        BY <1>3, <4>1
      <4>. QED  BY <2>2, <4>1, <4>2
    <3>. QED  BY <1>11, <2>2, <3>1, <3>2 DEF Ends
  <2>. QED  BY <2>1, <2>2 DEF Ends
<1>. QED  BY <1>1, <1>5, <1>6, <1>7, <1>8, <1>9, <1>10, <1>11 DEF c, h

LEMMA Withdraws ==
  ASSUME bus \in Seq(Frame), OneJob(bus), SlidersShow(bus)
  PROVE  /\ Withdrawn \in Seq(Frame) /\ OneJob(Withdrawn) /\ ~HasJob(Withdrawn)
         /\ SlidersShow(Withdrawn)
<1>1. CASE \E i \in 1 .. Len(bus) : bus[i].from = "job"
  <2>. DEFINE own == CHOOSE i \in 1 .. Len(bus) : bus[i].from = "job"
              c == [i \in 1 .. Len(bus) - 1 |-> bus[IF i < own THEN i ELSE i + 1]]
  <2>1. own \in 1 .. Len(bus) /\ bus[own].from = "job"
    BY <1>1
  <2>2. Withdrawn = c
    BY <1>1 DEF Withdrawn
  <2>3. Len(bus) \in Nat /\ Len(bus) - 1 \in Nat
    BY <2>1
  <2>. HIDE DEF own
  <2>4. ASSUME NEW i \in 1 .. Len(bus) - 1
        PROVE  \E k \in 1 .. Len(bus) : k # own /\ c[i] = bus[k]
    <3>1. CASE i < own
      BY <2>1, <2>3, <3>1
    <3>2. CASE ~ (i < own)
      <4>1. i + 1 \in 1 .. Len(bus) /\ i + 1 # own /\ c[i] = bus[i + 1]
        BY <2>1, <2>3, <3>2
      <4>. QED  BY <4>1
    <3>. QED  BY <3>1, <3>2
  <2>5. c \in Seq(Frame) /\ Len(c) = Len(bus) - 1
    <3>1. \A i \in 1 .. Len(bus) - 1 : c[i] \in Frame
      BY <2>4
    <3>2. c \in [1 .. Len(bus) - 1 -> Frame]
      BY <3>1
    <3>. QED  BY <2>3, <3>2
  <2>. HIDE DEF c
  <2>6. \A i \in 1 .. Len(c) : \E k \in 1 .. Len(bus) : k # own /\ c[i] = bus[k]
    BY <2>4, <2>5
  <2>7. ~HasJob(c)
    BY <2>1, <2>6 DEF HasJob, OneJob
  <2>8. OneJob(c)
    BY <2>7 DEF HasJob, OneJob
  <2>9. SlidersShow(c)
    BY <2>6 DEF SlidersShow
  <2>. QED  BY <2>2, <2>5, <2>7, <2>8, <2>9
<1>2. CASE ~ \E i \in 1 .. Len(bus) : bus[i].from = "job"
  BY <1>2 DEF Withdrawn, HasJob
<1>. QED  BY <1>1, <1>2

-----------------------------------------------------------------------------
(* What is put into the calls and the jobs, and what a call does. *)

LightType == [leds : BOOLEAN, look : Looks \cup {Gel}, level : Reading]
SharedType == Levels \cup {Untold}

LEMMA Read ==
  ASSUME TypeOK
  PROVE  /\ waiting \in Seq(Job) /\ jobs \in Seq(Job) /\ bus \in Seq(Frame) /\ OneJob(bus)
         /\ ha \in Entity /\ light \in LightType /\ seen \in SeenType
         /\ local \in [prev : Levels, pct : Levels, attempt : 0 .. Attempts,
                       reported : Reading \cup {Unread}]
         /\ used \in [calls : 0 .. MaxCalls, moves : 0 .. MaxMoves]
         /\ shared \in SharedType
  BY DEF TypeOK, OneJob, LightType, SharedType

LEMMA Asks ==
  ASSUME NEW job \in Job
  PROVE  /\ job.kind \in {"on", "off", "poll"}
         /\ job.look \in Looks \cup {"same", "plain"}
         /\ job.level \in Levels \cup {Keep}
  BY DEF Job, Command, Poll

LEMMA PollIsPoll == <<Poll>> # <<>> /\ Head(<<Poll>>).kind = "poll"
  BY DEF Poll

LEMMA Aspects ==
  ASSUME NEW e \in Entity
  PROVE  Aspect(e) \in Looks /\ e.level \in Levels /\ e.mode \in Looks
  BY DEF Entity, Aspect, Looks

LEMMA Headed ==
  ASSUME NEW s \in Seq(Job), NEW j \in Job
  PROVE  /\ Append(s, j) \in Seq(Job) /\ Append(s, j) # <<>>
         /\ s # <<>> => Head(s) \in Job /\ Tail(s) \in Seq(Job) /\ Head(Append(s, j)) = Head(s)
         /\ s = <<>> => Head(Append(s, j)) = j
<1>1. Append(s, j) \in Seq(Job) /\ Append(s, j) # <<>>
  BY AppendProperties
<1>2. ASSUME s # <<>>
      PROVE  Head(s) \in Job /\ Tail(s) \in Seq(Job) /\ Head(Append(s, j)) = Head(s)
  BY <1>2
<1>3. ASSUME s = <<>> PROVE Head(Append(s, j)) = j
  BY <1>3
<1>. QED  BY <1>1, <1>2, <1>3

LEMMA Framed ==
  ASSUME NEW from \in {"job", "slider"}, NEW op \in {"on", "off", "show", "status"},
         NEW look \in Looks \cup {Gel}, NEW level \in Levels
  PROVE  /\ Write(from, op, look, level) \in Frame
         /\ Write(from, op, look, level).from = from
         /\ Write(from, op, look, level).op = op
         /\ Write(from, op, look, level).look = look
         /\ Write(from, op, look, level).level = level
  BY DEF Write, Frame

LEMMA Obeys ==
  ASSUME TypeOK, NEW f \in Frame
  PROVE  /\ Obeyed(f) \in LightType
         /\ Obeyed(f).look = IF f.op = "show" THEN f.look ELSE light.look
         /\ f.op = "on" => Obeyed(f).leds
         /\ f.op \in {"show", "status"} => Obeyed(f).leds = light.leds
<1>1. light \in LightType
  BY Read
<1>2. Levels \subseteq Reading
  BY DEF Reading
<1>. QED  BY <1>1, <1>2 DEF Obeyed, LightType, Frame

\* The holder makes a call when it has none, and the last of them is its own.
LEMMA Calls ==
  ASSUME NEW b \in Seq(Frame), OneJob(b), ~HasJob(b), SlidersShow(b),
         NEW op \in {"on", "off", "show", "status"}, NEW look \in Looks, NEW level \in Levels
  PROVE  LET c == Append(b, Write("job", op, look, level)) IN
         /\ c \in Seq(Frame) /\ OneJob(c) /\ HasJob(c) /\ SlidersShow(c) /\ JobDoes(c, op)
         /\ op = "show" => Shows(c) /\ \A now : Ends(c, now, look)
         /\ op # "show" => /\ Shows(c) <=> Shows(b)
                           /\ \A now, last : Ends(b, now, last) => Ends(c, now, last)
<1>. DEFINE f == Write("job", op, look, level)
<1>1. f \in Frame /\ f.from = "job" /\ f.op = op /\ f.look = look
  BY Framed
<1>2. JobDoes(b, op)
  BY DEF JobDoes, HasJob
<1>. HIDE DEF f
<1>3. op = "show" => \A now : Ends(Append(b, f), now, look)
  BY <1>1, AppendedEnds
<1>4. op # "show" => \A now, last : Ends(b, now, last) => Ends(Append(b, f), now, last)
  BY <1>1, AppendedEnds
<1>5. /\ Append(b, f) \in Seq(Frame) /\ OneJob(Append(b, f)) /\ HasJob(Append(b, f))
      /\ SlidersShow(Append(b, f)) /\ JobDoes(Append(b, f), op)
      /\ Shows(Append(b, f)) <=> Shows(b) \/ op = "show"
  BY <1>1, <1>2, Appended
<1>. QED  BY <1>3, <1>4, <1>5 DEF f

LEMMA SliderCalls ==
  ASSUME NEW b \in Seq(Frame), OneJob(b), SlidersShow(b), NEW look \in Looks \cup {Gel},
         NEW level \in Levels
  PROVE  LET c == Append(b, Write("slider", "show", look, level)) IN
         /\ c \in Seq(Frame) /\ OneJob(c) /\ (HasJob(c) <=> HasJob(b)) /\ SlidersShow(c)
         /\ \A op : JobDoes(b, op) => JobDoes(c, op)
         /\ Shows(c)
         /\ \A now : Ends(c, now, look)
<1>. DEFINE f == Write("slider", "show", look, level)
<1>1. f \in Frame /\ f.from = "slider" /\ f.op = "show" /\ f.look = look
  BY Framed
<1>. HIDE DEF f
<1>2. \A now : Ends(Append(b, f), now, look)
  BY <1>1, AppendedEnds
<1>3. /\ Append(b, f) \in Seq(Frame) /\ OneJob(Append(b, f))
      /\ (HasJob(Append(b, f)) <=> HasJob(b)) /\ SlidersShow(Append(b, f))
      /\ \A op : JobDoes(b, op) => JobDoes(Append(b, f), op)
      /\ Shows(Append(b, f))
  BY <1>1, Appended
<1>. QED  BY <1>2, <1>3 DEF f

\* The call that the link serves, when it is the holder's, is the one of its stage.
LEMMA HolderServed ==
  ASSUME TypeOK, Placed, Served("job")
  PROVE  /\ stage \notin {"start", "settle"}
         /\ Head(bus) \in Frame
         /\ Tail(bus) \in Seq(Frame) /\ OneJob(Tail(bus)) /\ ~HasJob(Tail(bus))
         /\ SlidersShow(Tail(bus))
         /\ stage = "power" => Head(bus).op = Head(jobs).kind
         /\ stage \in {"body", "resend"} => Head(bus).op = "show"
         /\ stage = "again" => Head(bus).op = "on"
         /\ stage = "check" => Head(bus).op = "status"
         /\ Shows(bus) <=> Shows(Tail(bus)) \/ Head(bus).op = "show"
         /\ \A last : Ends(bus, light.look, last) => Ends(Tail(bus), Obeyed(Head(bus)).look, last)
<1>1. bus \in Seq(Frame) /\ OneJob(bus) /\ bus # <<>> /\ Head(bus).from = "job"
  BY Read DEF Served
<1>2. Head(bus) \in Frame
  BY <1>1, Delivered
<1>3. Obeyed(Head(bus)).look = IF Head(bus).op = "show" THEN Head(bus).look ELSE light.look
  BY <1>2, Obeys
<1>4. \A last : Ends(bus, light.look, last) => Ends(Tail(bus), Obeyed(Head(bus)).look, last)
  BY <1>1, <1>3, Delivered
<1>5. /\ Tail(bus) \in Seq(Frame) /\ OneJob(Tail(bus)) /\ ~HasJob(Tail(bus)) /\ HasJob(bus)
      /\ SlidersShow(bus) => SlidersShow(Tail(bus))
      /\ \A op : JobDoes(bus, op) => Head(bus).op = op
      /\ Shows(bus) <=> Shows(Tail(bus)) \/ Head(bus).op = "show"
  BY <1>1, Delivered
<1>. QED  BY <1>2, <1>4, <1>5 DEF Placed

LEMMA SliderServed ==
  ASSUME TypeOK, Placed, Served("slider")
  PROVE  /\ Head(bus) \in Frame /\ Head(bus).op = "show"
         /\ Tail(bus) \in Seq(Frame) /\ OneJob(Tail(bus)) /\ (HasJob(Tail(bus)) <=> HasJob(bus))
         /\ SlidersShow(Tail(bus))
         /\ \A op : JobDoes(bus, op) => JobDoes(Tail(bus), op)
         /\ \A last : Ends(bus, light.look, last) => Ends(Tail(bus), Obeyed(Head(bus)).look, last)
<1>1. bus \in Seq(Frame) /\ OneJob(bus) /\ bus # <<>> /\ Head(bus).from = "slider"
  BY Read DEF Served
<1>2. Head(bus) \in Frame
  BY <1>1, Delivered
<1>3. Obeyed(Head(bus)).look = IF Head(bus).op = "show" THEN Head(bus).look ELSE light.look
  BY <1>2, Obeys
<1>4. \A last : Ends(bus, light.look, last) => Ends(Tail(bus), Obeyed(Head(bus)).look, last)
  BY <1>1, <1>3, Delivered
<1>5. /\ Tail(bus) \in Seq(Frame) /\ OneJob(Tail(bus)) /\ (HasJob(Tail(bus)) <=> HasJob(bus))
      /\ SlidersShow(bus) => SlidersShow(Tail(bus)) /\ Head(bus).op = "show"
      /\ \A op : JobDoes(bus, op) => JobDoes(Tail(bus), op)
  BY <1>1, Delivered
<1>. QED  BY <1>2, <1>4, <1>5 DEF Placed

-----------------------------------------------------------------------------
(* Commands and polls arrive. *)

LEMMA Restores ==
  ASSUME NEW r \in Restored
  PROVE  r \in Entity
<1>. DEFINE S == IF "range" \in Controls THEN BOOLEAN ELSE {FALSE}
<1>1. \A x \in S : x \in BOOLEAN
  OBVIOUS
<1>. HIDE DEF S
<1>2. r \in [on : BOOLEAN, mode : Modes, effect : Effects \cup {NoEffect}, level : Levels,
             selfie : S, available : {TRUE}, misses : {0}]
  BY DEF Restored, S
<1>3. r.selfie \in S /\ r.available \in {TRUE} /\ r.misses \in {0}
  BY <1>2
<1>4. r.selfie \in BOOLEAN
  BY <1>1, <1>3
<1>5. r.available \in BOOLEAN
  BY <1>3
<1>6. r.misses \in Nat
  BY <1>3
<1>7. r = [on |-> r.on, mode |-> r.mode, effect |-> r.effect, level |-> r.level,
           selfie |-> r.selfie, available |-> r.available, misses |-> r.misses]
      /\ r.on \in BOOLEAN /\ r.mode \in Modes /\ r.effect \in Effects \cup {NoEffect}
      /\ r.level \in Levels
  BY <1>2
<1>. QED  BY <1>4, <1>5, <1>6, <1>7 DEF Entity

LEMMA InitHolds ==
  ASSUME Init
  PROVE  IInv
<1>. USE DEF Init
<1>1. <<>> \in Seq(Job) /\ jobs \in Seq(Job)
  <2>1. Poll \in Job
    BY DEF Job
  <2>. QED  BY <2>1
<1>2. bus = <<>> /\ Len(bus) = 0 /\ bus \in Seq(Frame)
  OBVIOUS
<1>3. OneJob(bus) /\ SlidersShow(bus) /\ ~HasJob(bus) /\ ~Shows(bus)
  BY <1>2 DEF OneJob, SlidersShow, HasJob, Shows
<1>4. TypeOK
  <2>1. ha \in Restored
    OBVIOUS
  <2>6. ha \in Entity
    BY <2>1, Restores
  <2>2. local \in [prev : Levels, pct : Levels, attempt : 0 .. Attempts,
                   reported : Reading \cup {Unread}]
    BY LightAssumption
  <2>3. light \in [leds : BOOLEAN, look : Looks \cup {Gel}, level : Reading]
    BY DEF Reading
  <2>4. used \in [calls : 0 .. MaxCalls, moves : 0 .. MaxMoves]
    BY LightAssumption
  <2>5. seen \in SeenType
    BY DEF SeenType
  <2>. QED  BY <1>1, <1>2, <1>3, <2>2, <2>3, <2>4, <2>5, <2>6 DEF TypeOK, OneJob
<1>5. Placed
  BY <1>3 DEF Placed
<1>6. Lit
  BY DEF Lit, LedsAreOn
<1>7. Levelled
  BY DEF Levelled, ShowsWhatWasMeasured
<1>8. InStep
  BY <1>3 DEF InStep, Settles, Told, BeyondPower
<1>. QED  BY <1>4, <1>5, <1>6, <1>7, <1>8 DEF IInv

LEMMA StutterHolds ==
  ASSUME IInv, UNCHANGED vars
  PROVE  IInv'
<1>. USE DEF vars, work
<1>1. TypeOK'
  BY DEF IInv, TypeOK
<1>2. Placed'
  BY DEF IInv, Placed, Holds
<1>3. Lit'
  BY DEF IInv, Lit, LedsAreOn, Holds
<1>4. Levelled'
  BY DEF IInv, Levelled, ShowsWhatWasMeasured, Holds
<1>5. InStep'
  BY DEF IInv, InStep, Told, BeyondPower, Holds, Aspect
<1>. QED  BY <1>1, <1>2, <1>3, <1>4, <1>5 DEF IInv

LEMMA DispatchHolds ==
  ASSUME IInv, NEW job \in Requests, Dispatch(job)
  PROVE  IInv'
<1>. USE DEF IInv, Dispatch
<1>1. TypeOK'
  <2>1. job \in Job
    BY LightAssumption DEF Job
  <2>2. waiting' \in Seq(Job)
    BY <2>1, Headed, Read
  <2>3. MaxCalls \in Nat
    BY LightAssumption
  <2>4. used' \in [calls : 0 .. MaxCalls, moves : 0 .. MaxMoves]
    BY <2>3, Read
  <2>. QED  BY <2>2, <2>4 DEF TypeOK
<1>2. Placed'
  BY DEF Placed, Holds
<1>3. Lit'
  BY DEF Lit, LedsAreOn, Holds
<1>4. Levelled'
  BY DEF Levelled, ShowsWhatWasMeasured, Holds
<1>5. InStep'
  BY DEF InStep, Settles, Told, BeyondPower, Holds, Aspect
<1>. QED  BY <1>1, <1>2, <1>3, <1>4, <1>5

\* A job joins the queue at the lock: whoever holds it still does.
LEMMA Queues ==
  ASSUME IInv, NEW job \in Job, jobs' = Append(jobs, job), added,
         UNCHANGED <<stage, local, bus, ha, light, shared, added, seen>>
  PROVE  /\ jobs' \in Seq(Job)
         /\ Placed' /\ Lit' /\ Levelled' /\ InStep'
<1>. USE DEF IInv
<1>1. jobs' \in Seq(Job) /\ jobs' # <<>> /\ (jobs # <<>> => Head(jobs') = Head(jobs))
  BY Headed, Read
<1>2. stage # "start" => jobs # <<>>
  BY DEF Placed
<1>3. Placed'
  BY <1>1, <1>2 DEF Placed, Holds
<1>4. Lit'
  BY <1>1, <1>2 DEF Lit, LedsAreOn, Holds
<1>5. Levelled'
  BY <1>1, <1>2 DEF Levelled, ShowsWhatWasMeasured, Holds
<1>6. InStep'
  BY <1>1, <1>2 DEF InStep, Settles, Told, BeyondPower, Holds, Aspect
<1>. QED  BY <1>1, <1>3, <1>4, <1>5, <1>6

LEMMA EnterHolds ==
  ASSUME IInv, Enter
  PROVE  IInv'
<1>. USE DEF IInv, Enter
<1>1. added
  BY DEF InStep, Settles
<1>2. Head(waiting) \in Job /\ waiting' \in Seq(Job)
  BY Headed, Read
<1>3. jobs' \in Seq(Job) /\ Placed' /\ Lit' /\ Levelled' /\ InStep'
  BY <1>1, <1>2, Queues
<1>4. TypeOK'
  BY <1>2, <1>3 DEF TypeOK
<1>. QED  BY <1>3, <1>4

LEMMA PollDueHolds ==
  ASSUME IInv, PollDue
  PROVE  IInv'
<1>. USE DEF IInv, PollDue
<1>1. Poll \in Job
  BY DEF Job
<1>2. jobs' \in Seq(Job) /\ Placed' /\ Lit' /\ Levelled' /\ InStep'
  BY <1>1, Queues
<1>3. used' \in [calls : 0 .. MaxCalls, moves : 0 .. MaxMoves]
  <2>1. MaxCalls \in Nat
    BY LightAssumption
  <2>. QED  BY <2>1, Read
<1>4. TypeOK'
  BY <1>2, <1>3 DEF TypeOK
<1>. QED  BY <1>2, <1>4

-----------------------------------------------------------------------------
(* The holder's first steps. *)

LEMMA AskedIs ==
  ASSUME TypeOK, NEW job \in Job
  PROVE  /\ Asked(job) \in Entity
         /\ Asked(job).level = IF job.level = Keep THEN ha.level ELSE job.level
         /\ Asked(job).on = ha.on
<1>1. ha \in Entity /\ job.look \in Looks \cup {"same", "plain"} /\ job.level \in Levels \cup {Keep}
  BY Read, Asks
<1>2. job.look \in Modes => job.look \notin Effects
  BY LightAssumption DEF Modes
<1>. DEFINE mode == IF job.look \in Modes THEN job.look ELSE ha.mode
            effect == IF job.look \in Effects THEN job.look
                      ELSE IF job.look = "same" THEN ha.effect ELSE NoEffect
            level == IF job.level = Keep THEN ha.level ELSE job.level
<1>3. mode \in Modes /\ effect \in Effects \cup {NoEffect} /\ level \in Levels
  BY <1>1 DEF Entity
<1>4. Asked(job) = [ha EXCEPT !.mode = mode, !.effect = effect, !.level = level]
  BY <1>1 DEF Asked, Entity
<1>. HIDE DEF mode, effect
<1>5. Asked(job) \in Entity /\ Asked(job).level = level /\ Asked(job).on = ha.on
  BY <1>1, <1>3, <1>4 DEF Entity
<1>. QED  BY <1>5

LEMMA StartOnHolds ==
  ASSUME IInv, StartOn
  PROVE  IInv'
<1>. USE DEF IInv, StartOn, Holds
<1>. DEFINE job == Head(jobs)
<1>1. job \in Job /\ jobs # <<>> /\ job.kind = "on" /\ stage' = "power" /\ jobs' = jobs
  BY Read, Headed
<1>2. /\ ha' \in Entity /\ ha'.level = IF job.level = Keep THEN ha.level ELSE job.level
      /\ ha'.on = ha.on
  BY <1>1, AskedIs
<1>3. Aspect(ha') \in Looks /\ ha'.level \in Levels /\ ha.level \in Levels
  BY <1>2, Read, Aspects DEF Entity
<1>4. bus \in Seq(Frame) /\ OneJob(bus) /\ ~HasJob(bus) /\ SlidersShow(bus)
  BY Read DEF Placed
<1>5. /\ bus' \in Seq(Frame) /\ OneJob(bus') /\ HasJob(bus') /\ SlidersShow(bus')
      /\ JobDoes(bus', "on")
  BY <1>3, <1>4, Calls
<1>6. local' = [prev |-> ha.level, pct |-> ha'.level, attempt |-> 0, reported |-> Unread]
  OBVIOUS
<1>7. seen' = [seen EXCEPT !.result = "none", !.lost = 0, !.touched = FALSE] /\ seen \in SeenType
  BY Read
<1>8. UNCHANGED <<waiting, jobs, light, shared, added, used>>
  OBVIOUS
<1>9. ~added => jobs = <<Poll>>
  BY DEF InStep, Settles
<1>. HIDE DEF StartOn
<1>10. seen' \in SeenType /\ seen'.result = "none" /\ seen'.lost = 0
  BY <1>7 DEF SeenType
<1>11. TypeOK'
  <2>1. local' \in [prev : Levels, pct : Levels, attempt : 0 .. Attempts,
                    reported : Reading \cup {Unread}]
    BY <1>3, <1>6, LightAssumption
  <2>. QED  BY <1>1, <1>2, <1>5, <1>8, <1>10, <2>1 DEF TypeOK, OneJob
<1>12. Placed'
  BY <1>1, <1>5, <1>10 DEF Placed
<1>13. Lit'
  BY <1>1, <1>10 DEF Lit, LedsAreOn
<1>14. Levelled'
  BY <1>1, <1>2, <1>6, <1>10 DEF Levelled, ShowsWhatWasMeasured
<1>15. InStep'
  <2>1. added
    BY <1>1, <1>9, PollIsPoll
  <2>. QED  BY <1>1, <1>8, <2>1 DEF InStep, Settles, BeyondPower
<1>. QED  BY <1>11, <1>12, <1>13, <1>14, <1>15

LEMMA StartOffHolds ==
  ASSUME IInv, StartOff
  PROVE  IInv'
<1>. USE DEF IInv, StartOff, Holds
<1>. DEFINE job == Head(jobs)
<1>1. job \in Job /\ jobs # <<>> /\ job.kind = "off" /\ stage' = "power" /\ stage = "start"
  BY Read, Headed
<1>2. Aspect(ha) \in Looks /\ ha.level \in Levels
  BY Read, Aspects
<1>3. bus \in Seq(Frame) /\ OneJob(bus) /\ ~HasJob(bus) /\ SlidersShow(bus)
  BY Read DEF Placed
<1>4. /\ bus' \in Seq(Frame) /\ OneJob(bus') /\ HasJob(bus') /\ SlidersShow(bus')
      /\ JobDoes(bus', "off") /\ (Shows(bus') <=> Shows(bus))
      /\ \A now, last : Ends(bus, now, last) => Ends(bus', now, last)
  BY <1>2, <1>3, Calls
<1>5. seen' = [seen EXCEPT !.result = "none"] /\ seen \in SeenType
  BY Read
<1>6. UNCHANGED <<waiting, jobs, local, ha, light, shared, added, used>>
  OBVIOUS
<1>. HIDE DEF StartOff
<1>7. /\ seen' \in SeenType /\ seen'.result = "none" /\ seen'.lost = seen.lost
      /\ seen'.clean = seen.clean /\ seen'.set = seen.set /\ seen'.astray = seen.astray
  BY <1>5 DEF SeenType
<1>8. TypeOK'
  BY <1>1, <1>4, <1>6, <1>7 DEF TypeOK, OneJob
<1>9. Placed'
  BY <1>1, <1>4, <1>6, <1>7 DEF Placed
<1>10. Lit'
  BY <1>1, <1>6, <1>7 DEF Lit, LedsAreOn
<1>11. Levelled'
  BY <1>1, <1>6, <1>7 DEF Levelled, ShowsWhatWasMeasured
<1>12. InStep'
  BY <1>1, <1>4, <1>6, <1>7 DEF InStep, Settles, BeyondPower, Told, Aspect
<1>. QED  BY <1>8, <1>9, <1>10, <1>11, <1>12

LEMMA StartPollHolds ==
  ASSUME IInv, StartPoll
  PROVE  IInv'
<1>. USE DEF IInv, StartPoll, Holds
<1>. DEFINE job == Head(jobs)
<1>1. job \in Job /\ jobs # <<>> /\ job.kind = "poll" /\ stage' = "check" /\ stage = "start"
  BY Read, Headed
<1>2. Aspect(ha) \in Looks /\ ha.level \in Levels
  BY Read, Aspects
<1>3. bus \in Seq(Frame) /\ OneJob(bus) /\ ~HasJob(bus) /\ SlidersShow(bus)
  BY Read DEF Placed
<1>4. /\ bus' \in Seq(Frame) /\ OneJob(bus') /\ HasJob(bus') /\ SlidersShow(bus')
      /\ JobDoes(bus', "status") /\ (Shows(bus') <=> Shows(bus))
      /\ \A now, last : Ends(bus, now, last) => Ends(bus', now, last)
  BY <1>2, <1>3, Calls
<1>5. seen' = [seen EXCEPT !.result = "none"] /\ seen \in SeenType
  BY Read
<1>6. UNCHANGED <<waiting, jobs, local, ha, light, shared, added, used>>
  OBVIOUS
<1>. HIDE DEF StartPoll
<1>7. /\ seen' \in SeenType /\ seen'.result = "none" /\ seen'.lost = seen.lost
      /\ seen'.clean = seen.clean /\ seen'.set = seen.set /\ seen'.astray = seen.astray
  BY <1>5 DEF SeenType
<1>8. TypeOK'
  BY <1>1, <1>4, <1>6, <1>7 DEF TypeOK, OneJob
<1>9. Placed'
  BY <1>1, <1>4, <1>6, <1>7 DEF Placed
<1>10. Lit'
  BY <1>1, <1>6, <1>7 DEF Lit, LedsAreOn
<1>11. Levelled'
  BY <1>1, <1>6, <1>7 DEF Levelled, ShowsWhatWasMeasured
<1>12. InStep'
  BY <1>1, <1>4, <1>6, <1>7 DEF InStep, Settles, BeyondPower, Told, Aspect
<1>. QED  BY <1>8, <1>9, <1>10, <1>11, <1>12

LEMMA SettledHolds ==
  ASSUME IInv, Settled
  PROVE  IInv'
<1>. USE DEF IInv, Settled, Holds
<1>1. stage' = "check" /\ stage = "settle" /\ jobs # <<>> /\ Head(jobs).kind = "on"
  BY DEF Placed
<1>2. Aspect(ha) \in Looks /\ local.pct \in Levels
  BY Read, Aspects
<1>3. bus \in Seq(Frame) /\ OneJob(bus) /\ ~HasJob(bus) /\ SlidersShow(bus)
  BY <1>1, Read DEF Placed
<1>4. /\ bus' \in Seq(Frame) /\ OneJob(bus') /\ HasJob(bus') /\ SlidersShow(bus')
      /\ JobDoes(bus', "status") /\ (Shows(bus') <=> Shows(bus))
      /\ \A now, last : Ends(bus, now, last) => Ends(bus', now, last)
  BY <1>2, <1>3, Calls
<1>5. UNCHANGED <<waiting, jobs, local, ha, light, shared, added, used, seen>>
  OBVIOUS
<1>. HIDE DEF Settled
<1>6. TypeOK'
  BY <1>1, <1>4, <1>5 DEF TypeOK, OneJob
<1>7. Placed'
  BY <1>1, <1>4, <1>5 DEF Placed
<1>8. Lit'
  BY <1>1, <1>5 DEF Lit, LedsAreOn
<1>9. Levelled'
  BY <1>1, <1>5 DEF Levelled, ShowsWhatWasMeasured
<1>10. InStep'
  BY <1>1, <1>4, <1>5 DEF InStep, Settles, BeyondPower, Told, Aspect
<1>. QED  BY <1>6, <1>7, <1>8, <1>9, <1>10

-----------------------------------------------------------------------------
(* The holder's writes are served. *)

LEMMA WrittenDoes ==
  ASSUME TypeOK, Placed, Written
  PROVE  /\ light' \in LightType /\ seen' \in SeenType
         /\ seen'.result = seen.result /\ seen'.touched = seen.touched
         /\ seen'.astray = seen.astray
         /\ seen'.set <=> seen.set \/ Head(bus).op = "show"
         /\ Head(bus).op # "show" => seen'.apart = seen.apart
         /\ Head(bus).op = "show" => (seen'.apart <=> light' # Obeyed(Head(bus)))
         /\ seen'.clean => seen.clean /\ light' = Obeyed(Head(bus))
         /\ Head(bus).op # "on" => seen'.lost = seen.lost
         /\ Head(bus).op = "on" => \/ light'.leds /\ seen'.lost = seen.lost
                                   \/ light' = light /\ seen'.lost = seen.lost + 1
         /\ Head(bus).op \in {"show", "status"} => light'.leds = light.leds
<1>. DEFINE f == Head(bus)  gone == light' # Obeyed(f)
<1>1. f \in Frame /\ light \in LightType /\ seen \in SeenType
  BY Read, HolderServed DEF Written
<1>2. light' \in {Obeyed(f), light}
  BY DEF Written
<1>3. seen' = [seen EXCEPT !.lost = IF gone /\ f.op = "on" THEN @ + 1 ELSE @,
                           !.clean = @ /\ ~gone,
                           !.set = @ \/ f.op = "show",
                           !.apart = IF f.op = "show" THEN gone ELSE @]
  BY DEF Written
<1>4. /\ Obeyed(f) \in LightType
      /\ f.op = "on" => Obeyed(f).leds
      /\ f.op \in {"show", "status"} => Obeyed(f).leds = light.leds
  BY <1>1, Obeys
<1>. HIDE DEF f
<1>. DEFINE lost == IF gone /\ f.op = "on" THEN seen.lost + 1 ELSE seen.lost
            clean == seen.clean /\ ~gone
            set == seen.set \/ f.op = "show"
            apart == IF f.op = "show" THEN gone ELSE seen.apart
<1>5. seen' = [seen EXCEPT !.lost = lost, !.clean = clean, !.set = set, !.apart = apart]
  BY <1>1, <1>3 DEF SeenType
<1>6. lost \in Nat /\ clean \in BOOLEAN /\ set \in BOOLEAN /\ apart \in BOOLEAN
  <2>1. lost \in Nat /\ clean \in BOOLEAN /\ set \in BOOLEAN /\ seen.apart \in BOOLEAN
    BY <1>1 DEF SeenType
  <2>2. gone \in BOOLEAN
    OBVIOUS
  <2>. HIDE DEF gone
  <2>3. apart \in BOOLEAN
    BY <2>1, <2>2
  <2>. QED  BY <2>1, <2>3
<1>14. /\ f.op # "show" => apart = seen.apart
       /\ f.op = "show" => (apart <=> gone)
  OBVIOUS
<1>7. clean => seen.clean /\ light' = Obeyed(f)
  OBVIOUS
<1>8. f.op # "on" => lost = seen.lost
  OBVIOUS
<1>9. f.op = "on" => \/ light'.leds /\ lost = seen.lost
                     \/ light' = light /\ lost = seen.lost + 1
  BY <1>2, <1>4
<1>10. set <=> seen.set \/ f.op = "show"
  OBVIOUS
<1>. HIDE DEF lost, clean, set, apart
<1>11. /\ seen' \in SeenType /\ seen'.lost = lost /\ seen'.clean = clean /\ seen'.set = set
       /\ seen'.result = seen.result /\ seen'.touched = seen.touched
       /\ seen'.astray = seen.astray /\ seen'.apart = apart
  BY <1>1, <1>5, <1>6 DEF SeenType
<1>12. light' \in LightType
  BY <1>1, <1>2, <1>4
<1>13. f.op \in {"show", "status"} => light'.leds = light.leds
  BY <1>2, <1>4
<1>. QED  BY <1>7, <1>8, <1>9, <1>10, <1>11, <1>12, <1>13, <1>14 DEF f

LEMMA PowerDoneHolds ==
  ASSUME IInv, PowerDone
  PROVE  IInv'
<1>. USE DEF IInv, PowerDone, Holds
<1>. DEFINE f == Head(bus)
<1>1. /\ stage = "power" /\ stage' = "body" /\ jobs # <<>> /\ Head(jobs).kind = "on"
      /\ Served("job")
  BY DEF Written
<1>2. /\ f.op = "on" /\ Tail(bus) \in Seq(Frame) /\ OneJob(Tail(bus)) /\ ~HasJob(Tail(bus))
      /\ SlidersShow(Tail(bus))
  BY <1>1, HolderServed
<1>3. Aspect(ha) \in Looks /\ ha.level \in Levels
  BY Read, Aspects
<1>4. bus' = Append(Tail(bus), Write("job", "show", Aspect(ha), ha.level))
  BY DEF Send
<1>5. /\ bus' \in Seq(Frame) /\ OneJob(bus') /\ HasJob(bus') /\ SlidersShow(bus')
      /\ JobDoes(bus', "show") /\ Shows(bus')
      /\ \A now : Ends(bus', now, Aspect(ha))
  <2>. DEFINE b == Tail(bus)  look == Aspect(ha)  level == ha.level
              c == Append(b, Write("job", "show", look, level))
  <2>1. b \in Seq(Frame) /\ OneJob(b) /\ ~HasJob(b) /\ SlidersShow(b)
    BY <1>2
  <2>2. look \in Looks /\ level \in Levels
    BY <1>3
  <2>. HIDE DEF b, look, level
  <2>3. /\ c \in Seq(Frame) /\ OneJob(c) /\ HasJob(c) /\ SlidersShow(c)
        /\ JobDoes(c, "show") /\ Shows(c) /\ \A now : Ends(c, now, look)
    BY <2>1, <2>2, Calls
  <2>4. bus' = c
    BY <1>4 DEF b, look, level
  <2>. QED  BY <2>3, <2>4 DEF look
<1>6. /\ light' \in LightType /\ seen' \in SeenType
      /\ seen'.result = seen.result /\ seen'.touched = seen.touched
      /\ \/ light'.leds /\ seen'.lost = seen.lost
         \/ light' = light /\ seen'.lost = seen.lost + 1
  BY <1>2, WrittenDoes
<1>7. /\ local' = [local EXCEPT !.pct = ha.level] /\ shared' = ha.level
      /\ UNCHANGED <<waiting, jobs, ha, added, used>>
  OBVIOUS
<1>8. /\ local' \in [prev : Levels, pct : Levels, attempt : 0 .. Attempts,
                     reported : Reading \cup {Unread}]
      /\ local'.pct = ha.level /\ local'.reported = local.reported
  BY <1>3, <1>7, Read
<1>. HIDE DEF PowerDone, f
<1>9. TypeOK'
  BY <1>1, <1>3, <1>5, <1>6, <1>7, <1>8 DEF TypeOK, OneJob, LightType
<1>10. Placed'
  BY <1>1, <1>5, <1>6, <1>7 DEF Placed
<1>11. Lit'
  BY <1>1, <1>6, <1>7 DEF Lit, LedsAreOn, Placed
<1>12. Levelled'
  BY <1>1, <1>6, <1>7, <1>8 DEF Levelled, ShowsWhatWasMeasured, Placed
<1>13. InStep'
  <2>1. Aspect(ha)' = Aspect(ha)
    BY <1>7
  <2>2. added
    BY <1>1, PollIsPoll DEF InStep, Settles
  <2>. QED  BY <1>5, <1>7, <2>1, <2>2 DEF InStep, Settles, Told
<1>. QED  BY <1>9, <1>10, <1>11, <1>12, <1>13

LEMMA BodyDoneHolds ==
  ASSUME IInv, BodyDone
  PROVE  IInv'
<1>. USE DEF IInv, BodyDone, Holds
<1>. DEFINE f == Head(bus)
<1>1. /\ stage = "body" /\ stage' = "again" /\ jobs # <<>> /\ Head(jobs).kind = "on"
      /\ Served("job")
  BY DEF Written, Placed
<1>2. /\ f.op = "show" /\ Tail(bus) \in Seq(Frame) /\ OneJob(Tail(bus)) /\ ~HasJob(Tail(bus))
      /\ SlidersShow(Tail(bus))
      /\ \A last : Ends(bus, light.look, last) => Ends(Tail(bus), Obeyed(f).look, last)
  BY <1>1, HolderServed
<1>3. Aspect(ha) \in Looks /\ ha.level \in Levels
  BY Read, Aspects
<1>4. bus' = Append(Tail(bus), Write("job", "on", Aspect(ha), ha.level))
  BY DEF Send
<1>5. /\ bus' \in Seq(Frame) /\ OneJob(bus') /\ HasJob(bus') /\ SlidersShow(bus')
      /\ JobDoes(bus', "on")
      /\ \A now, last : Ends(Tail(bus), now, last) => Ends(bus', now, last)
  BY <1>2, <1>3, <1>4, Calls
<1>6. /\ light' \in LightType /\ seen' \in SeenType
      /\ seen'.result = seen.result /\ seen'.touched = seen.touched
      /\ seen'.astray = seen.astray /\ seen'.set
      /\ seen'.clean => seen.clean /\ light' = Obeyed(f)
      /\ seen'.lost = seen.lost /\ light'.leds = light.leds
  BY <1>2, WrittenDoes
<1>7. UNCHANGED <<waiting, jobs, local, ha, shared, added, used>>
  OBVIOUS
<1>. HIDE DEF BodyDone, f
<1>8. TypeOK'
  BY <1>1, <1>5, <1>6, <1>7 DEF TypeOK, OneJob, LightType
<1>9. Placed'
  BY <1>1, <1>5, <1>6, <1>7 DEF Placed
<1>10. Lit'
  BY <1>1, <1>6, <1>7 DEF Lit, LedsAreOn, Placed
<1>11. Levelled'
  BY <1>1, <1>6, <1>7 DEF Levelled, ShowsWhatWasMeasured, Placed
<1>12. InStep'
  <2>1. Aspect(ha)' = Aspect(ha)
    BY <1>7
  <2>2. added
    BY <1>1, PollIsPoll DEF InStep, Settles
  <2>3. Told /\ BeyondPower
    BY <1>1 DEF InStep, Settles, BeyondPower
  <2>4. ASSUME seen'.clean, ~seen'.astray PROVE Settles(bus', light'.look, Aspect(ha))
    BY <1>1, <1>2, <1>5, <1>6, <2>3, <2>4 DEF InStep, Settles
  <2>. QED  BY <1>6, <1>7, <2>1, <2>2, <2>4 DEF InStep, Settles, Told
<1>. QED  BY <1>8, <1>9, <1>10, <1>11, <1>12

LEMMA ResendDoneHolds ==
  ASSUME IInv, ResendDone
  PROVE  IInv'
<1>. USE DEF IInv, ResendDone, Holds
<1>. DEFINE f == Head(bus)
<1>1. /\ stage = "resend" /\ stage' = "settle" /\ jobs # <<>> /\ Head(jobs).kind = "on"
      /\ Served("job") /\ bus' = Tail(bus)
  BY DEF Written, Placed
<1>2. /\ f.op = "show" /\ bus' \in Seq(Frame) /\ OneJob(bus') /\ ~HasJob(bus')
      /\ SlidersShow(bus')
      /\ \A last : Ends(bus, light.look, last) => Ends(bus', Obeyed(f).look, last)
  BY <1>1, HolderServed
<1>3. /\ light' \in LightType /\ seen' \in SeenType
      /\ seen'.result = seen.result /\ seen'.touched = seen.touched
      /\ seen'.astray = seen.astray /\ seen'.set
      /\ seen'.clean => seen.clean /\ light' = Obeyed(f)
      /\ seen'.lost = seen.lost /\ light'.leds = light.leds
  BY <1>2, WrittenDoes
<1>4. UNCHANGED <<waiting, jobs, local, ha, shared, added, used>>
  OBVIOUS
<1>. HIDE DEF ResendDone, f
<1>5. TypeOK'
  BY <1>1, <1>2, <1>3, <1>4 DEF TypeOK, OneJob, LightType
<1>6. Placed'
  BY <1>1, <1>2, <1>3, <1>4 DEF Placed
<1>7. Lit'
  BY <1>1, <1>3, <1>4 DEF Lit, LedsAreOn, Placed
<1>8. Levelled'
  BY <1>1, <1>3, <1>4 DEF Levelled, ShowsWhatWasMeasured, Placed
<1>9. InStep'
  <2>1. Aspect(ha)' = Aspect(ha)
    BY <1>4
  <2>2. added
    BY <1>1, PollIsPoll DEF InStep, Settles
  <2>3. Told /\ BeyondPower
    BY <1>1 DEF InStep, Settles, BeyondPower
  <2>4. ASSUME seen'.clean, ~seen'.astray PROVE Settles(bus', light'.look, Aspect(ha))
    BY <1>1, <1>2, <1>3, <2>3, <2>4 DEF InStep, Settles
  <2>. QED  BY <1>3, <1>4, <2>1, <2>2, <2>4 DEF InStep, Settles, Told
<1>. QED  BY <1>5, <1>6, <1>7, <1>8, <1>9

-----------------------------------------------------------------------------
(* The holder leaves. *)

LocalType == [prev : Levels, pct : Levels, attempt : 0 .. Attempts,
              reported : Reading \cup {Unread}]

LEMMA Reached ==
  ASSUME TypeOK
  PROVE  /\ Reachable(ha) \in Entity
         /\ \A on \in BOOLEAN :
              LET e == [Reachable(ha) EXCEPT !.on = on] IN
              e \in Entity /\ e.on = on /\ e.level = ha.level /\ Aspect(e) = Aspect(ha)
         /\ \A level \in Levels :
              LET e == [Reachable(ha) EXCEPT !.level = level] IN
              e \in Entity /\ e.on = ha.on /\ e.level = level /\ Aspect(e) = Aspect(ha)
<1>1. ha \in Entity
  BY Read
<1>2. Reachable(ha) \in Entity
  BY <1>1 DEF Reachable, Entity
<1>3. /\ Reachable(ha).on = ha.on /\ Reachable(ha).level = ha.level
      /\ Reachable(ha).mode = ha.mode /\ Reachable(ha).effect = ha.effect
  BY <1>1 DEF Reachable, Entity
<1>4. ASSUME NEW on \in BOOLEAN
      PROVE  LET e == [Reachable(ha) EXCEPT !.on = on] IN
             e \in Entity /\ e.on = on /\ e.level = ha.level /\ Aspect(e) = Aspect(ha)
  BY <1>2, <1>3 DEF Entity, Aspect
<1>5. ASSUME NEW level \in Levels
      PROVE  LET e == [Reachable(ha) EXCEPT !.level = level] IN
             e \in Entity /\ e.on = ha.on /\ e.level = level /\ Aspect(e) = Aspect(ha)
  BY <1>2, <1>3 DEF Entity, Aspect
<1>. QED  BY <1>2, <1>4, <1>5

\* What is left to show when the holder leaves the lock.
LEMMA Leaves ==
  ASSUME IInv, Leave, stage # "start", jobs # <<>>, added',
         bus' \in Seq(Frame), OneJob(bus'), ~HasJob(bus'), SlidersShow(bus'),
         ha' \in Entity, light' \in LightType, seen' \in SeenType, local' \in LocalType,
         shared' \in SharedType,
         used' = used, waiting' = waiting,
         LedsAreOn', ShowsWhatWasMeasured',
         seen'.clean /\ ~seen'.astray /\ (seen'.set \/ Shows(bus')) /\ ha'.on
           => Settles(bus', light'.look, Aspect(ha'))
  PROVE  IInv'
<1>1. jobs' \in Seq(Job) /\ stage' = "start"
  BY Headed, Read DEF Leave, IInv
<1>2. TypeOK'
  BY <1>1 DEF TypeOK, IInv, OneJob, LightType, LocalType, SharedType
<1>3. Placed'
  BY <1>1 DEF Placed
<1>4. Lit'
  BY <1>1 DEF Lit
<1>5. Levelled'
  BY <1>1 DEF Levelled
<1>6. Aspect(ha)' = Aspect(ha')
  BY DEF Aspect
<1>7. InStep'
  BY <1>1, <1>6 DEF InStep, Settles, Told, BeyondPower
<1>. QED  BY <1>2, <1>3, <1>4, <1>5, <1>7 DEF IInv

LEMMA AgainConfirmsHolds ==
  ASSUME IInv, AgainConfirms
  PROVE  IInv'
<1>. USE DEF IInv, AgainConfirms, Holds
<1>. DEFINE f == Head(bus)
<1>1. /\ stage = "again" /\ stage' = "settle" /\ jobs # <<>> /\ Head(jobs).kind = "on"
      /\ Served("job") /\ bus' = Tail(bus)
  BY DEF Written, Placed
<1>2. /\ f.op = "on" /\ bus' \in Seq(Frame) /\ OneJob(bus') /\ ~HasJob(bus')
      /\ SlidersShow(bus')
      /\ \A last : Ends(bus, light.look, last) => Ends(bus', Obeyed(f).look, last)
      /\ Shows(bus) <=> Shows(bus')
  BY <1>1, HolderServed
<1>3. /\ light' \in LightType /\ seen' \in SeenType
      /\ seen'.result = seen.result /\ seen'.touched = seen.touched
      /\ seen'.astray = seen.astray /\ (seen'.set <=> seen.set)
      /\ seen'.clean => seen.clean /\ light' = Obeyed(f)
      /\ \/ light'.leds /\ seen'.lost = seen.lost
         \/ light' = light /\ seen'.lost = seen.lost + 1
  BY <1>2, WrittenDoes
<1>4. UNCHANGED <<waiting, jobs, shared, added, used>>
  OBVIOUS
<1>5. Head(jobs).level # Keep /\ ha.effect = NoEffect
  BY DEF Confirmable
<1>6. ha' \in Entity /\ ha'.on /\ ha'.level = ha.level /\ ha'.effect = ha.effect /\ ha'.mode = ha.mode
  BY Read DEF Entity
<1>7. local' \in LocalType /\ local'.pct = local.pct /\ local'.reported = local.reported
  <2>1. 1 \in 0 .. Attempts
    BY LightAssumption
  <2>2. local' = [local EXCEPT !.attempt = 1]
    OBVIOUS
  <2>. QED  BY <2>1, <2>2, Read DEF LocalType
<1>8. seen.lost \in Nat /\ (seen.lost = 0 /\ ~seen.touched => light.leds)
  BY <1>1, Read DEF Lit, SeenType
<1>9. Told /\ BeyondPower /\ added
  BY <1>1, PollIsPoll DEF InStep, Settles, BeyondPower
<1>. HIDE DEF AgainConfirms, f
<1>10. TypeOK'
  BY <1>1, <1>2, <1>3, <1>4, <1>6, <1>7 DEF TypeOK, OneJob, LightType, LocalType
<1>11. Placed'
  BY <1>1, <1>2, <1>3, <1>4 DEF Placed
<1>12. Lit'
  BY <1>1, <1>3, <1>4, <1>8 DEF Lit, LedsAreOn, Placed
<1>13. Levelled'
  BY <1>1, <1>3, <1>4, <1>5, <1>6, <1>7 DEF Levelled, ShowsWhatWasMeasured, Placed
<1>14. InStep'
  <2>1. Aspect(ha)' = Aspect(ha)
    BY <1>6 DEF Aspect
  <2>2. ASSUME seen'.clean, ~seen'.astray PROVE Settles(bus', light'.look, Aspect(ha))
    BY <1>1, <1>2, <1>3, <1>9, <2>2 DEF InStep, Settles
  <2>. QED  BY <1>2, <1>3, <1>4, <1>9, <2>1, <2>2 DEF InStep, Settles, Told
<1>. QED  BY <1>10, <1>11, <1>12, <1>13, <1>14

LEMMA AgainFinishesHolds ==
  ASSUME IInv, AgainFinishes
  PROVE  IInv'
<1>. USE DEF IInv, AgainFinishes, Holds
<1>. DEFINE f == Head(bus)
<1>1. /\ stage = "again" /\ Leave /\ jobs # <<>> /\ Head(jobs).kind = "on"
      /\ Served("job") /\ bus' = Tail(bus) /\ light' \in {Obeyed(f), light}
      /\ UNCHANGED <<waiting, local, shared, added, used>>
  BY DEF Placed, Finish
<1>2. /\ f \in Frame /\ f.op = "on" /\ bus' \in Seq(Frame) /\ OneJob(bus') /\ ~HasJob(bus')
      /\ SlidersShow(bus')
      /\ \A last : Ends(bus, light.look, last) => Ends(bus', Obeyed(f).look, last)
  BY <1>1, HolderServed
<1>3. Obeyed(f) \in LightType /\ Obeyed(f).leds /\ light \in LightType
  BY <1>2, Obeys, Read
<1>4. /\ ha' \in Entity /\ ha'.on /\ ha'.level = ha.level /\ Aspect(ha') = Aspect(ha)
  BY Reached DEF Finish
<1>5. /\ seen' = [seen EXCEPT !.result = "ok",
                              !.lost = IF light' = Obeyed(f) THEN @ ELSE @ + 1,
                              !.clean = @ /\ light' = Obeyed(f)]
      /\ seen \in SeenType
  BY Read
<1>6. seen.lost = 0 /\ ~seen.touched => light.leds
  BY <1>1 DEF Lit
<1>7. local \in LocalType /\ local.reported = Unread
  BY <1>1, Read DEF LocalType, Levelled
<1>8. Told /\ BeyondPower /\ added
  BY <1>1, PollIsPoll DEF InStep, Settles, BeyondPower
<1>. HIDE DEF AgainFinishes, f
<1>9. /\ seen' \in SeenType /\ seen'.touched = seen.touched /\ seen'.astray = seen.astray
      /\ seen'.lost = IF light' = Obeyed(f) THEN seen.lost ELSE seen.lost + 1
      /\ seen'.clean => seen.clean /\ light' = Obeyed(f)
  <2>. DEFINE same == light' = Obeyed(f)
              lost == IF same THEN seen.lost ELSE seen.lost + 1
              clean == seen.clean /\ same
  <2>1. seen' = [seen EXCEPT !.result = "ok", !.lost = lost, !.clean = clean]
    BY <1>5 DEF SeenType
  <2>2. lost \in Nat /\ clean \in BOOLEAN
    BY <1>5 DEF SeenType
  <2>3. clean => seen.clean /\ same
    OBVIOUS
  <2>4. lost = IF same THEN seen.lost ELSE seen.lost + 1
    OBVIOUS
  <2>. HIDE DEF lost, clean
  <2>5. /\ seen' \in SeenType /\ seen'.touched = seen.touched /\ seen'.astray = seen.astray
        /\ seen'.lost = lost /\ seen'.clean = clean
    BY <1>5, <2>1, <2>2 DEF SeenType
  <2>. QED  BY <2>3, <2>4, <2>5
<1>10. LedsAreOn'
  BY <1>1, <1>3, <1>5, <1>6, <1>9 DEF LedsAreOn, SeenType
<1>11. ShowsWhatWasMeasured'
  BY <1>1, <1>7, LightAssumption DEF ShowsWhatWasMeasured, Unread
<1>12. seen'.clean /\ ~seen'.astray => Settles(bus', light'.look, Aspect(ha'))
  BY <1>1, <1>2, <1>4, <1>8, <1>9 DEF InStep, Settles
<1>13. light' \in LightType /\ shared' \in SharedType
  BY <1>1, <1>3, Read
<1>. QED  BY <1>1, <1>2, <1>4, <1>7, <1>8, <1>9, <1>10, <1>11, <1>12, <1>13, Leaves

LEMMA OffDoneHolds ==
  ASSUME IInv, OffDone
  PROVE  IInv'
<1>. USE DEF IInv, OffDone, Holds
<1>1. /\ stage = "power" /\ Leave /\ jobs # <<>> /\ Head(jobs).kind = "off"
      /\ Served("job") /\ bus' = Tail(bus) /\ UNCHANGED <<waiting, local, shared, added, used>>
  BY DEF Written
<1>2. bus' \in Seq(Frame) /\ OneJob(bus') /\ ~HasJob(bus') /\ SlidersShow(bus')
  BY <1>1, HolderServed
<1>3. light' \in LightType /\ seen' \in SeenType /\ seen'.result = "none"
  BY <1>1, WrittenDoes DEF Placed
<1>4. ha' \in Entity /\ ~ha'.on
  BY Reached
<1>5. added /\ local \in LocalType /\ shared' \in SharedType
  BY <1>1, PollIsPoll, Read DEF InStep, Settles, LocalType
<1>6. LedsAreOn' /\ ShowsWhatWasMeasured'
  BY <1>3 DEF LedsAreOn, ShowsWhatWasMeasured
<1>. HIDE DEF IInv, OffDone
<1>. QED  BY <1>1, <1>2, <1>3, <1>4, <1>5, <1>6, Leaves

-----------------------------------------------------------------------------
(* The level is read back. *)

LEMMA CheckMatchesHolds ==
  ASSUME IInv, CheckMatches
  PROVE  IInv'
<1>. USE DEF IInv, CheckMatches, Holds
<1>. DEFINE f == Head(bus)
<1>1. /\ stage = "check" /\ Leave /\ jobs # <<>> /\ Head(jobs).kind = "on"
      /\ Served("job") /\ bus' = Tail(bus) /\ UNCHANGED <<waiting, light, shared, added, used>>
      /\ light.level = local.pct
  BY DEF Finish
<1>2. /\ f \in Frame /\ f.op = "status" /\ bus' \in Seq(Frame) /\ OneJob(bus') /\ ~HasJob(bus')
      /\ SlidersShow(bus')
      /\ \A last : Ends(bus, light.look, last) => Ends(bus', Obeyed(f).look, last)
  BY <1>1, HolderServed
<1>3. Obeyed(f).look = light.look /\ light \in LightType
  BY <1>2, Obeys, Read
<1>4. /\ ha' \in Entity /\ ha'.on /\ ha'.level = ha.level /\ Aspect(ha') = Aspect(ha)
  BY Reached DEF Finish
<1>5. seen' = [seen EXCEPT !.result = "ok"] /\ seen \in SeenType
  BY Read
<1>6. local' \in LocalType /\ local'.reported = light.level
  BY <1>3, Read DEF LocalType, LightType
<1>7. /\ seen.lost <= 1 /\ ~seen.touched => light.leds
      /\ ha.level = local.pct /\ shared = local.pct
  BY <1>1 DEF Lit, Levelled
<1>8. Told /\ BeyondPower /\ added
  BY <1>1, PollIsPoll DEF InStep, Settles, BeyondPower
<1>. HIDE DEF CheckMatches, f
<1>9. /\ seen' \in SeenType /\ seen'.touched = seen.touched /\ seen'.astray = seen.astray
      /\ seen'.lost = seen.lost /\ seen'.clean = seen.clean
  BY <1>5 DEF SeenType
<1>10. LedsAreOn'
  BY <1>1, <1>7, <1>9 DEF LedsAreOn
<1>11. ShowsWhatWasMeasured'
  BY <1>1, <1>4, <1>6, <1>7 DEF ShowsWhatWasMeasured
<1>12. seen'.clean /\ ~seen'.astray => Settles(bus', light'.look, Aspect(ha'))
  BY <1>1, <1>2, <1>3, <1>4, <1>8, <1>9 DEF InStep, Settles
<1>13. light' \in LightType /\ added' /\ shared' \in SharedType
  BY <1>1, <1>3, <1>8, Read
<1>. HIDE DEF IInv
<1>. QED  BY <1>1, <1>2, <1>4, <1>6, <1>9, <1>10, <1>11, <1>12, <1>13, Leaves

LEMMA CheckRetriesHolds ==
  ASSUME IInv, CheckRetries
  PROVE  IInv'
<1>. USE DEF IInv, CheckRetries, Holds
<1>. DEFINE f == Head(bus)
<1>1. /\ stage = "check" /\ stage' = "resend" /\ jobs # <<>> /\ Head(jobs).kind = "on"
      /\ Served("job") /\ UNCHANGED <<waiting, jobs, ha, light, shared, added, used, seen>>
  BY DEF Unconfirmed
<1>2. /\ Tail(bus) \in Seq(Frame) /\ OneJob(Tail(bus)) /\ ~HasJob(Tail(bus))
      /\ SlidersShow(Tail(bus))
  BY <1>1, HolderServed
<1>3. ha.mode \in Looks /\ ha.effect = NoEffect /\ ha.mode = Aspect(ha) /\ local.pct \in Levels
  BY <1>1, Read, Aspects DEF Levelled, Aspect
<1>4. bus' = Append(Tail(bus), Write("job", "show", ha.mode, local.pct))
  BY DEF Send
<1>5. /\ bus' \in Seq(Frame) /\ OneJob(bus') /\ HasJob(bus') /\ SlidersShow(bus')
      /\ JobDoes(bus', "show") /\ Shows(bus') /\ \A now : Ends(bus', now, ha.mode)
  <2>. DEFINE b == Tail(bus)  look == ha.mode  level == local.pct
              c == Append(b, Write("job", "show", look, level))
  <2>1. b \in Seq(Frame) /\ OneJob(b) /\ ~HasJob(b) /\ SlidersShow(b)
    BY <1>2
  <2>2. look \in Looks /\ level \in Levels
    BY <1>3
  <2>. HIDE DEF b, look, level
  <2>3. /\ c \in Seq(Frame) /\ OneJob(c) /\ HasJob(c) /\ SlidersShow(c)
        /\ JobDoes(c, "show") /\ Shows(c) /\ \A now : Ends(c, now, look)
    BY <2>1, <2>2, Calls
  <2>4. bus' = c
    BY <1>4 DEF b, look, level
  <2>. QED  BY <2>3, <2>4 DEF look
<1>6. local' \in LocalType /\ local'.pct = local.pct
  <2>1. local \in LocalType /\ light.level \in Reading /\ local.attempt + 1 \in 0 .. Attempts
    BY Read, LightAssumption DEF LocalType, LightType
  <2>2. \/ local' = [local EXCEPT !.reported = light.level, !.attempt = local.attempt + 1]
        \/ local' = [local EXCEPT !.attempt = local.attempt + 1]
    BY <2>1 DEF Unconfirmed, LocalType
  <2>. QED  BY <2>1, <2>2 DEF LocalType
<1>7. added
  BY <1>1, PollIsPoll DEF InStep, Settles
<1>. HIDE DEF CheckRetries, f
<1>8. TypeOK'
  BY <1>1, <1>5, <1>6 DEF TypeOK, OneJob, LocalType
<1>9. Placed'
  BY <1>1, <1>5 DEF Placed
<1>10. Lit'
  BY <1>1 DEF Lit, LedsAreOn
<1>11. Levelled'
  BY <1>1, <1>6 DEF Levelled, ShowsWhatWasMeasured, Placed
<1>12. InStep'
  <2>1. Aspect(ha)' = Aspect(ha)
    BY <1>1
  <2>. QED  BY <1>1, <1>3, <1>5, <1>7, <2>1 DEF InStep, Settles, Told
<1>. QED  BY <1>8, <1>9, <1>10, <1>11, <1>12

LEMMA CheckFailsHolds ==
  ASSUME IInv, CheckFails
  PROVE  IInv'
<1>. USE DEF IInv, CheckFails, Holds
<1>1. /\ stage = "check" /\ Leave /\ jobs # <<>> /\ Head(jobs).kind = "on"
      /\ Served("job") /\ bus' = Tail(bus) /\ UNCHANGED <<waiting, light, added, used>>
  OBVIOUS
<1>2. bus' \in Seq(Frame) /\ OneJob(bus') /\ ~HasJob(bus') /\ SlidersShow(bus')
  BY <1>1, HolderServed
<1>3. local \in LocalType /\ light \in LightType /\ ha \in Entity /\ seen \in SeenType
  BY Read DEF LocalType
<1>4. local' \in LocalType
  <2>1. local' = local \/ local' = [local EXCEPT !.reported = light.level]
    OBVIOUS
  <2>2. light.level \in Reading
    BY <1>3 DEF LightType
  <2>. QED  BY <1>3, <2>1, <2>2 DEF LocalType
<1>5. /\ ha' \in Entity /\ shared' \in SharedType
      /\ local'.reported \in Levels =>
           ha'.level = local'.reported /\ shared' = local'.reported
  <2>1. CASE local'.reported \in Levels
    BY <2>1, Reached DEF SharedType
  <2>2. CASE local'.reported \notin Levels
    <3>1. ha' = [ha EXCEPT !.level = local.prev] /\ local.prev \in Levels /\ shared' = shared
      BY <1>3, <2>2 DEF LocalType
    <3>. QED  BY <1>3, <2>2, <3>1, Read DEF Entity
  <2>. QED  BY <2>1, <2>2
<1>6. seen' \in SeenType /\ seen'.result = "unconfirmed" /\ ~seen'.clean
  BY <1>3 DEF SeenType
<1>7. added
  BY <1>1, PollIsPoll DEF InStep, Settles
<1>. HIDE DEF CheckFails
<1>8. LedsAreOn' /\ ShowsWhatWasMeasured'
  BY <1>5, <1>6 DEF LedsAreOn, ShowsWhatWasMeasured
<1>9. light' \in LightType /\ added'
  BY <1>1, <1>3, <1>7
<1>. HIDE DEF IInv
<1>. QED  BY <1>1, <1>2, <1>4, <1>5, <1>6, <1>8, <1>9, Leaves

-----------------------------------------------------------------------------
(* The holder's call ends badly. *)

LEMMA WriteRaisesHolds ==
  ASSUME IInv, WriteRaises
  PROVE  IInv'
<1>. USE DEF IInv, WriteRaises
<1>1. /\ stage \in {"power", "body", "again", "resend"} /\ Leave
      /\ Served("job") /\ bus' = Tail(bus) /\ UNCHANGED <<waiting, local, ha, shared, added, used>>
  OBVIOUS
<1>2. /\ Head(bus) \in Frame /\ bus' \in Seq(Frame) /\ OneJob(bus') /\ ~HasJob(bus')
      /\ SlidersShow(bus')
  BY <1>1, HolderServed
<1>3. local \in LocalType /\ ha \in Entity /\ light' \in LightType
  BY <1>2, Read, Obeys DEF LocalType
<1>4. seen' \in SeenType /\ seen'.result = "raised" /\ ~seen'.clean
  BY Read DEF SeenType
<1>5. jobs # <<>> /\ added
  BY <1>1, PollIsPoll DEF InStep, Settles, Placed, Holds
<1>. HIDE DEF WriteRaises
<1>6. LedsAreOn' /\ ShowsWhatWasMeasured'
  BY <1>4 DEF LedsAreOn, ShowsWhatWasMeasured
<1>7. ha' \in Entity /\ local' \in LocalType /\ added' /\ shared' \in SharedType
  BY <1>1, <1>3, <1>5, Read
<1>. HIDE DEF IInv
<1>. QED  BY <1>1, <1>2, <1>3, <1>4, <1>5, <1>6, <1>7, Leaves

LEMMA CancelCommandHolds ==
  ASSUME IInv, CancelCommand
  PROVE  IInv'
<1>. USE DEF IInv, CancelCommand
<1>1. /\ stage # "start" /\ ~Holds("poll") /\ Leave /\ bus' = Withdrawn
      /\ UNCHANGED <<waiting, local, ha, shared, added, used>>
  OBVIOUS
<1>2. bus' \in Seq(Frame) /\ OneJob(bus') /\ ~HasJob(bus') /\ SlidersShow(bus')
  BY <1>1, Withdraws, Read DEF Placed
<1>3. local \in LocalType /\ ha \in Entity
  BY Read DEF LocalType
<1>4. light' \in LightType
  <2>1. CASE Served("job")
    BY <2>1, HolderServed, Obeys, Read
  <2>2. CASE ~Served("job")
    BY <2>2, Read
  <2>. QED  BY <2>1, <2>2
<1>5. seen' \in SeenType /\ seen'.result = "raised" /\ ~seen'.clean
  BY Read DEF SeenType
<1>6. jobs # <<>> /\ added
  BY <1>1, PollIsPoll DEF InStep, Settles, Placed, Holds
<1>. HIDE DEF CancelCommand
<1>7. LedsAreOn' /\ ShowsWhatWasMeasured'
  BY <1>5 DEF LedsAreOn, ShowsWhatWasMeasured
<1>8. ha' \in Entity /\ local' \in LocalType /\ added' /\ shared' \in SharedType
  BY <1>1, <1>3, <1>6, Read
<1>. HIDE DEF IInv
<1>. QED  BY <1>1, <1>2, <1>4, <1>5, <1>6, <1>7, <1>8, Leaves

-----------------------------------------------------------------------------
(* A poll ends. *)

\* The first poll is followed by restoring, with nothing told to the light; a later
\* one leaves the mode, the effect and whether the light is on.
LEMMA PollHolds ==
  ASSUME IInv, NEW e \in Entity, e.on = ha.on, Aspect(e) = Aspect(ha),
         stage = "check", Holds("poll"), Served("job"), AfterPoll(e), bus' = Tail(bus), Leave,
         UNCHANGED <<waiting, local, shared, light, used, seen>>
  PROVE  IInv'
<1>. USE DEF IInv, Holds
<1>. DEFINE f == Head(bus)
<1>1. /\ f \in Frame /\ f.op = "status" /\ bus' \in Seq(Frame) /\ OneJob(bus') /\ ~HasJob(bus')
      /\ SlidersShow(bus')
      /\ \A last : Ends(bus, light.look, last) => Ends(bus', Obeyed(f).look, last)
      /\ Shows(bus) <=> Shows(bus')
  BY HolderServed
<1>2. Obeyed(f).look = light.look /\ light \in LightType /\ seen \in SeenType /\ local \in LocalType
  BY <1>1, Obeys, Read DEF LocalType
<1>3. jobs # <<>> /\ seen.result = "none" /\ added'
  BY DEF Placed, AfterPoll
<1>4. LedsAreOn' /\ ShowsWhatWasMeasured'
  BY <1>3 DEF LedsAreOn, ShowsWhatWasMeasured
<1>5. ha' \in Entity
  <2>1. CASE added
    BY <2>1 DEF AfterPoll
  <2>2. CASE ~added
    <3>1. PICK r \in Restored :
            ha' = [e EXCEPT !.on = r.on, !.mode = r.mode, !.effect = r.effect, !.level = r.level]
      BY <2>2 DEF AfterPoll
    <3>2. r \in Entity
      BY Restores
    <3>. QED  BY <3>1, <3>2 DEF Entity
  <2>. QED  BY <2>1, <2>2
<1>. HIDE DEF f
<1>6. ASSUME seen'.clean, ~seen'.astray, seen'.set \/ Shows(bus'), ha'.on
      PROVE  Settles(bus', light'.look, Aspect(ha'))
  <2>1. Told
    BY <1>1, <1>6 DEF Told
  <2>2. added
    BY <2>1 DEF InStep, Settles
  <2>3. ha' = e
    BY <2>2 DEF AfterPoll
  <2>. QED  BY <1>1, <1>2, <1>6, <2>1, <2>3 DEF InStep, Settles
<1>7. light' \in LightType /\ seen' \in SeenType /\ local' \in LocalType /\ shared' \in SharedType
  BY <1>2, Read
<1>. HIDE DEF IInv
<1>. QED  BY <1>1, <1>3, <1>4, <1>5, <1>6, <1>7, Leaves

LEMMA PollAnswersHolds ==
  ASSUME IInv, PollAnswers
  PROVE  IInv'
<1>. DEFINE level == IF light.level = 0 THEN ha.level ELSE light.level
            e == [Reachable(ha) EXCEPT !.level = level]
<1>1. ha \in Entity /\ light \in LightType
  BY Read DEF IInv
<1>2. level \in Levels
  BY <1>1 DEF LightType, Entity, Reading
<1>3. AfterPoll(e)
  BY <1>1 DEF PollAnswers, Entity, Reachable
<1>. HIDE DEF level
<1>4. e \in Entity /\ e.on = ha.on /\ Aspect(e) = Aspect(ha)
  BY <1>2, Reached DEF IInv
<1>. HIDE DEF e
<1>. QED  BY <1>3, <1>4, PollHolds DEF PollAnswers

LEMMA PollSilentHolds ==
  ASSUME IInv, PollSilent
  PROVE  IInv'
<1>. DEFINE available == ha.available /\ ha.misses + 1 < MaxMisses
            e == [ha EXCEPT !.misses = ha.misses + 1, !.available = available]
<1>1. ha \in Entity
  BY Read DEF IInv
<1>2. available \in BOOLEAN /\ ha.misses + 1 \in Nat
  BY <1>1 DEF Entity
<1>3. AfterPoll(e)
  BY <1>1 DEF PollSilent, Entity
<1>. HIDE DEF available
<1>4. e \in Entity /\ e.on = ha.on /\ Aspect(e) = Aspect(ha)
  BY <1>1, <1>2 DEF Entity, Aspect
<1>. HIDE DEF e
<1>. QED  BY <1>3, <1>4, PollHolds DEF PollSilent

-----------------------------------------------------------------------------
(* The sliders and the panel. *)

\* A slider's call goes behind the holder's, and shows what the attributes say.
LEMMA Slides ==
  ASSUME IInv, UNCHANGED <<work, light, shared, added>>, added,
         ha' \in Entity, ha'.level = ha.level, ha'.on = ha.on,
         ha.effect = NoEffect => ha'.effect = NoEffect,
         used' \in [calls : 0 .. MaxCalls, moves : 0 .. MaxMoves],
         NEW astray \in BOOLEAN, seen' = [seen EXCEPT !.astray = astray],
         bus' \in Seq(Frame), OneJob(bus'), HasJob(bus') <=> HasJob(bus), SlidersShow(bus'),
         \A op : JobDoes(bus, op) => JobDoes(bus', op),
         Shows(bus) => Shows(bus'),
         ~astray /\ (ha.on \/ BeyondPower) => Settles(bus', light.look, Aspect(ha'))
  PROVE  IInv'
<1>. USE DEF IInv, Holds, work
<1>1. seen \in SeenType
  BY Read
<1>2. /\ seen' \in SeenType /\ seen'.result = seen.result /\ seen'.lost = seen.lost
      /\ seen'.touched = seen.touched /\ seen'.clean = seen.clean /\ seen'.set = seen.set
      /\ seen'.astray = astray
  BY <1>1 DEF SeenType
<1>3. TypeOK'
  BY <1>2 DEF TypeOK, OneJob
<1>4. Placed'
  BY <1>2 DEF Placed
<1>5. Lit'
  BY <1>2 DEF Lit, LedsAreOn
<1>6. Levelled'
  BY DEF Levelled, ShowsWhatWasMeasured
<1>7. InStep'
  <2>1. Aspect(ha)' = Aspect(ha') /\ (BeyondPower' <=> BeyondPower) /\ (Told => Told')
    BY <1>2 DEF Aspect, BeyondPower, Told
  <2>. QED  BY <1>2, <2>1 DEF InStep, Settles
<1>. QED  BY <1>3, <1>4, <1>5, <1>6, <1>7

LEMMA Moved ==
  ASSUME IInv, NEW control, Moves(control)
  PROVE  /\ added /\ UNCHANGED <<work, light, shared, added>>
         /\ used' \in [calls : 0 .. MaxCalls, moves : 0 .. MaxMoves]
         /\ ha \in Entity /\ seen \in SeenType
         /\ bus \in Seq(Frame) /\ OneJob(bus) /\ SlidersShow(bus)
<1>1. MaxMoves \in Nat
  BY LightAssumption
<1>2. used \in [calls : 0 .. MaxCalls, moves : 0 .. MaxMoves]
  BY Read DEF IInv
<1>3. used' \in [calls : 0 .. MaxCalls, moves : 0 .. MaxMoves]
  BY <1>1, <1>2 DEF Moves
<1>. QED  BY <1>3, Read DEF Moves, IInv, Placed

LEMMA TintMovesHolds ==
  ASSUME IInv, TintMoves
  PROVE  IInv'
<1>. DEFINE astray == seen.astray \/ ha.effect # NoEffect
<1>1. /\ Moves("tint") /\ ha' = ha
      /\ bus' = Append(bus, Write("slider", "show", ha.mode, ha.level))
  BY DEF TintMoves
<1>2. /\ added /\ UNCHANGED <<work, light, shared, added>> /\ ha \in Entity /\ seen \in SeenType
      /\ bus \in Seq(Frame) /\ OneJob(bus) /\ SlidersShow(bus)
      /\ used' \in [calls : 0 .. MaxCalls, moves : 0 .. MaxMoves]
  BY <1>1, Moved
<1>3. seen' = [seen EXCEPT !.astray = astray] /\ astray \in BOOLEAN
  BY <1>2 DEF TintMoves, SeenType
<1>4. ha.mode \in Looks /\ ha.level \in Levels
  BY <1>2, Aspects
<1>5. /\ bus' \in Seq(Frame) /\ OneJob(bus') /\ (HasJob(bus') <=> HasJob(bus)) /\ SlidersShow(bus')
      /\ \A op : JobDoes(bus, op) => JobDoes(bus', op)
      /\ Shows(bus')
      /\ \A now : Ends(bus', now, ha.mode)
  BY <1>1, <1>2, <1>4, SliderCalls
<1>6. ~astray => Settles(bus', light.look, Aspect(ha'))
  BY <1>1, <1>5 DEF Aspect, Settles
<1>. HIDE DEF astray
<1>7. ha' \in Entity /\ ha'.level = ha.level /\ ha'.on = ha.on /\ ha'.effect = ha.effect
  BY <1>1, <1>2
<1>. QED  BY <1>2, <1>3, <1>5, <1>6, <1>7, Slides

LEMMA SpeedMovesHolds ==
  ASSUME IInv, SpeedMoves
  PROVE  IInv'
<1>1. /\ Moves("speed") /\ ha' = ha /\ seen' = seen /\ ha.effect # NoEffect
      /\ bus' = Append(bus, Write("slider", "show", ha.effect, ha.level))
  BY DEF SpeedMoves
<1>2. /\ added /\ UNCHANGED <<work, light, shared, added>> /\ ha \in Entity /\ seen \in SeenType
      /\ bus \in Seq(Frame) /\ OneJob(bus) /\ SlidersShow(bus)
      /\ used' \in [calls : 0 .. MaxCalls, moves : 0 .. MaxMoves]
  BY <1>1, Moved
<1>3. seen' = [seen EXCEPT !.astray = seen.astray] /\ seen.astray \in BOOLEAN
  BY <1>1, <1>2 DEF SeenType
<1>4. ha.effect = Aspect(ha) /\ Aspect(ha) \in Looks /\ ha.level \in Levels
  BY <1>1, <1>2, Aspects DEF Aspect
<1>5. /\ bus' \in Seq(Frame) /\ OneJob(bus') /\ (HasJob(bus') <=> HasJob(bus)) /\ SlidersShow(bus')
      /\ \A op : JobDoes(bus, op) => JobDoes(bus', op)
      /\ Shows(bus')
      /\ \A now : Ends(bus', now, ha.effect)
  BY <1>1, <1>2, <1>4, SliderCalls
<1>6. Settles(bus', light.look, Aspect(ha'))
  BY <1>1, <1>4, <1>5 DEF Settles
<1>7. ha' \in Entity /\ ha'.level = ha.level /\ ha'.on = ha.on /\ ha'.effect = ha.effect
  BY <1>1, <1>2
<1>. QED  BY <1>2, <1>3, <1>5, <1>6, <1>7, Slides

LEMMA RangeSwitchesHolds ==
  ASSUME IInv, RangeSwitches
  PROVE  IInv'
<1>. DEFINE astray == seen.astray \/ (~ha.on /\ Holds("on"))
<1>1. /\ Moves("range")
      /\ bus' = IF ha.on THEN Append(bus, Write("slider", "show", "cct", ha.level)) ELSE bus
  BY DEF RangeSwitches
<1>2. /\ added /\ UNCHANGED <<work, light, shared, added>> /\ ha \in Entity /\ seen \in SeenType
      /\ bus \in Seq(Frame) /\ OneJob(bus) /\ SlidersShow(bus)
      /\ used' \in [calls : 0 .. MaxCalls, moves : 0 .. MaxMoves]
  BY <1>1, Moved
<1>3. seen' = [seen EXCEPT !.astray = astray] /\ astray \in BOOLEAN
  BY <1>2 DEF RangeSwitches, SeenType
<1>4. PICK selfie \in BOOLEAN :
        ha' = [ha EXCEPT !.mode = "cct", !.effect = NoEffect, !.selfie = selfie]
  BY DEF RangeSwitches
<1>5. /\ ha' \in Entity /\ ha'.level = ha.level /\ ha'.on = ha.on /\ ha'.effect = NoEffect
      /\ ha'.mode = "cct"
  BY <1>2, <1>4 DEF Entity, Modes
<1>6. Aspect(ha') = "cct" /\ "cct" \in Looks /\ ha.level \in Levels
  BY <1>2, <1>5, Aspects DEF Aspect
<1>7. CASE ha.on
  <2>1. bus' = Append(bus, Write("slider", "show", "cct", ha.level))
    BY <1>1, <1>7
  <2>2. /\ bus' \in Seq(Frame) /\ OneJob(bus') /\ (HasJob(bus') <=> HasJob(bus))
        /\ SlidersShow(bus')
        /\ \A op : JobDoes(bus, op) => JobDoes(bus', op)
        /\ Shows(bus')
        /\ \A now : Ends(bus', now, "cct")
    BY <1>2, <1>6, <2>1, SliderCalls
  <2>3. Settles(bus', light.look, Aspect(ha'))
    BY <1>6, <2>2 DEF Settles
  <2>. HIDE DEF astray
  <2>. QED  BY <1>2, <1>3, <1>5, <2>2, <2>3, Slides
<1>8. CASE ~ha.on
  <2>1. bus' = bus
    BY <1>1, <1>8
  <2>2. ~ (~astray /\ (ha.on \/ BeyondPower))
    BY <1>8 DEF BeyondPower
  <2>. HIDE DEF astray
  <2>. QED  BY <1>2, <1>3, <1>5, <2>1, <2>2, Slides
<1>. QED  BY <1>7, <1>8

LEMMA CoordinatesMoveHolds ==
  ASSUME IInv, CoordinatesMove
  PROVE  IInv'
<1>1. /\ Moves("coordinates") /\ seen' = seen
      /\ bus' = Append(bus, Write("slider", "show", "colour", ha.level))
      /\ ha' = [ha EXCEPT !.mode = "colour", !.effect = NoEffect]
  BY DEF CoordinatesMove
<1>2. /\ added /\ UNCHANGED <<work, light, shared, added>> /\ ha \in Entity /\ seen \in SeenType
      /\ bus \in Seq(Frame) /\ OneJob(bus) /\ SlidersShow(bus)
      /\ used' \in [calls : 0 .. MaxCalls, moves : 0 .. MaxMoves]
  BY <1>1, Moved
<1>3. seen' = [seen EXCEPT !.astray = seen.astray] /\ seen.astray \in BOOLEAN
  BY <1>1, <1>2 DEF SeenType
<1>4. /\ ha' \in Entity /\ ha'.level = ha.level /\ ha'.on = ha.on /\ ha'.effect = NoEffect
      /\ ha'.mode = "colour"
  BY <1>1, <1>2 DEF Entity, Modes
<1>5. Aspect(ha') = "colour" /\ "colour" \in Looks /\ ha.level \in Levels
  BY <1>2, <1>4, Aspects DEF Aspect
<1>6. /\ bus' \in Seq(Frame) /\ OneJob(bus') /\ (HasJob(bus') <=> HasJob(bus)) /\ SlidersShow(bus')
      /\ \A op : JobDoes(bus, op) => JobDoes(bus', op)
      /\ Shows(bus')
      /\ \A now : Ends(bus', now, "colour")
  BY <1>1, <1>2, <1>5, SliderCalls
<1>7. Settles(bus', light.look, Aspect(ha'))
  BY <1>5, <1>6 DEF Settles
<1>. QED  BY <1>2, <1>3, <1>4, <1>6, <1>7, Slides

LEMMA GelLevels ==
  ASSUME TypeOK
  PROVE  GelLevel \in Levels /\ (shared \in Levels => GelLevel = shared)
<1>1. shared \in Levels => shared # Untold
  BY LightAssumption DEF Untold
<1>. QED  BY <1>1, Read, LightAssumption DEF GelLevel, SharedType

LEMMA GelPickedHolds ==
  ASSUME IInv, GelPicked
  PROVE  IInv'
<1>1. /\ Moves("gel") /\ ha' = ha /\ seen' = seen
      /\ bus' = Append(bus, Write("slider", "show", Gel, GelLevel))
  BY DEF GelPicked
<1>2. /\ added /\ UNCHANGED <<work, light, shared, added>> /\ ha \in Entity /\ seen \in SeenType
      /\ bus \in Seq(Frame) /\ OneJob(bus) /\ SlidersShow(bus)
      /\ used' \in [calls : 0 .. MaxCalls, moves : 0 .. MaxMoves]
  BY <1>1, Moved
<1>3. seen' = [seen EXCEPT !.astray = seen.astray] /\ seen.astray \in BOOLEAN
  BY <1>1, <1>2 DEF SeenType
<1>4. GelLevel \in Levels
  BY GelLevels DEF IInv
<1>5. /\ bus' \in Seq(Frame) /\ OneJob(bus') /\ (HasJob(bus') <=> HasJob(bus)) /\ SlidersShow(bus')
      /\ \A op : JobDoes(bus, op) => JobDoes(bus', op)
      /\ Shows(bus')
      /\ \A now : Ends(bus', now, Gel)
  BY <1>1, <1>2, <1>4, SliderCalls
<1>6. Settles(bus', light.look, Aspect(ha'))
  BY <1>5 DEF Settles
<1>7. ha' \in Entity /\ ha'.level = ha.level /\ ha'.on = ha.on /\ ha'.effect = ha.effect
  BY <1>1, <1>2
<1>. QED  BY <1>2, <1>3, <1>5, <1>6, <1>7, Slides

LEMMA SliderDoneHolds ==
  ASSUME IInv, SliderDone
  PROVE  IInv'
<1>. USE DEF IInv, Holds, work
<1>. DEFINE f == Head(bus)
<1>1. /\ Served("slider") /\ light' \in {Obeyed(f), light} /\ bus' = Tail(bus)
      /\ UNCHANGED <<work, ha, shared, added, used>>
      /\ seen' = [seen EXCEPT !.clean = @ /\ light' = Obeyed(f), !.set = TRUE]
  BY DEF SliderDone
<1>2. /\ f \in Frame /\ f.op = "show" /\ bus' \in Seq(Frame) /\ OneJob(bus')
      /\ (HasJob(bus') <=> HasJob(bus)) /\ SlidersShow(bus')
      /\ \A op : JobDoes(bus, op) => JobDoes(bus', op)
      /\ \A last : Ends(bus, light.look, last) => Ends(bus', Obeyed(f).look, last)
      /\ Shows(bus)
  <2>1. f \in Frame /\ f.op = "show"
    BY <1>1, SliderServed
  <2>2. bus \in Seq(Frame) /\ bus # <<>> /\ OneJob(bus)
    BY <1>1, Read DEF Served
  <2>. QED  BY <1>1, <2>1, <2>2, SliderServed, Delivered
<1>3. /\ Obeyed(f) \in LightType /\ Obeyed(f).leds = light.leds /\ light \in LightType
      /\ seen \in SeenType
  BY <1>2, Obeys, Read
<1>. HIDE DEF f
<1>4. /\ seen' \in SeenType /\ seen'.result = seen.result /\ seen'.lost = seen.lost
      /\ seen'.touched = seen.touched /\ seen'.astray = seen.astray /\ seen'.set
      /\ seen'.clean => seen.clean /\ light' = Obeyed(f)
  <2>. DEFINE clean == seen.clean /\ light' = Obeyed(f)
  <2>1. seen' = [seen EXCEPT !.clean = clean, !.set = TRUE]
    BY <1>1, <1>3 DEF SeenType
  <2>2. clean \in BOOLEAN /\ (clean => seen.clean /\ light' = Obeyed(f))
    BY <1>3 DEF SeenType
  <2>. HIDE DEF clean
  <2>. QED  BY <1>3, <2>1, <2>2 DEF SeenType
<1>5. light' \in LightType /\ light'.leds = light.leds
  BY <1>1, <1>3
<1>6. TypeOK'
  BY <1>1, <1>2, <1>4, <1>5 DEF TypeOK, OneJob, LightType
<1>7. Placed'
  BY <1>1, <1>2, <1>4 DEF Placed
<1>8. Lit'
  BY <1>1, <1>4, <1>5 DEF Lit, LedsAreOn
<1>9. Levelled'
  BY <1>1, <1>4 DEF Levelled, ShowsWhatWasMeasured
<1>10. InStep'
  <2>1. Told /\ added
    BY <1>2 DEF Told, InStep
  <2>2. Aspect(ha)' = Aspect(ha) /\ (BeyondPower' <=> BeyondPower)
    BY <1>1 DEF BeyondPower
  <2>3. ASSUME seen'.clean, ~seen'.astray, ha.on \/ BeyondPower,
               ~ (Holds("on") /\ stage = "power")
        PROVE  Settles(bus', light'.look, Aspect(ha))
    BY <1>2, <1>4, <2>1, <2>3 DEF InStep, Settles
  <2>. QED  BY <1>1, <1>4, <2>1, <2>2, <2>3 DEF InStep, Settles, Told
<1>. QED  BY <1>6, <1>7, <1>8, <1>9, <1>10

LEMMA PanelHolds ==
  ASSUME IInv, Panel
  PROVE  IInv'
<1>. USE DEF IInv, Holds, work
<1>1. /\ UNCHANGED <<work, bus, ha, shared, added>>
      /\ light \in LightType /\ seen \in SeenType
  BY Read DEF Panel
<1>2. light' \in LightType /\ light'.look = light.look
  <2>1. CASE light' = [light EXCEPT !.leds = ~@]
    BY <1>1, <2>1 DEF LightType
  <2>2. CASE \E level \in Reading : light' = [light EXCEPT !.level = level]
    BY <1>1, <2>2 DEF LightType
  <2>. QED  BY <2>1, <2>2 DEF Panel
<1>3. used' \in [calls : 0 .. MaxCalls, moves : 0 .. MaxMoves]
  <2>1. MaxMoves \in Nat
    BY LightAssumption
  <2>2. used \in [calls : 0 .. MaxCalls, moves : 0 .. MaxMoves]
    BY Read
  <2>. QED  BY <2>1, <2>2 DEF Panel
<1>4. /\ seen' \in SeenType /\ seen'.result = seen.result /\ seen'.lost = seen.lost
      /\ seen'.touched /\ seen'.clean = seen.clean /\ seen'.set = seen.set
      /\ seen'.astray = seen.astray
  <2>. DEFINE apart == seen.apart \/ light'.level # light.level
  <2>1. seen' = [seen EXCEPT !.touched = TRUE, !.apart = apart] /\ apart \in BOOLEAN
    BY <1>1 DEF Panel, SeenType
  <2>. HIDE DEF apart
  <2>. QED  BY <1>1, <2>1 DEF SeenType
<1>5. TypeOK'
  BY <1>1, <1>2, <1>3, <1>4 DEF TypeOK, LightType
<1>6. Placed'
  BY <1>1, <1>4 DEF Placed
<1>7. Lit'
  BY <1>1, <1>4 DEF Lit, LedsAreOn
<1>8. Levelled'
  BY <1>1, <1>4 DEF Levelled, ShowsWhatWasMeasured
<1>9. InStep'
  <2>1. Aspect(ha)' = Aspect(ha)
    BY <1>1
  <2>. QED  BY <1>1, <1>2, <1>4, <2>1 DEF InStep, Settles, Told, BeyondPower
<1>. QED  BY <1>5, <1>6, <1>7, <1>8, <1>9

-----------------------------------------------------------------------------
(* The level that is shared.  The invariant above holds by now; this one rests *)
(* on it.                                                                      *)

AllCarry(b, n) == \A i \in 1 .. Len(b) : b[i].op = "show" => b[i].level = n
OwnCarries(b, n) == \A i \in 1 .. Len(b) : b[i].from = "job" /\ b[i].op = "show" => b[i].level = n

\* Behind the holder's call, and ahead of it.
BehindCarries(b, n) == \A i, j \in 1 .. Len(b) :
                         b[i].from = "job" /\ i < j /\ b[j].op = "show" => b[j].level = n
AheadCarries(b, n) == \A j \in 1 .. Len(b) :
                        b[j].op = "show" /\ b[j].level # n
                          => \E i \in 1 .. Len(b) : b[i].from = "job" /\ i < j

Starting(stages) == Holds("on") /\ stage \in stages

\* Between the start of a turn_on and its frame, what is shown, shared and carried may
\* differ: what the light is told first is the old level, and what is told last the new.
Sharing ==
  /\ ~added => seen.apart
  /\ ~seen.apart =>
       /\ shared # Untold
       /\ ~Starting({"power", "body"}) =>
            light.level = shared /\ ha.level = shared /\ AllCarry(bus, shared)
       /\ Starting({"power"}) => light.level = shared /\ AheadCarries(bus, shared)
  /\ stage \in {"body", "resend"} => BehindCarries(bus, shared) /\ OwnCarries(bus, shared)

LEMMA AppendedCarries ==
  ASSUME NEW b \in Seq(Frame), NEW f \in Frame, NEW n
  PROVE  LET c == Append(b, f) IN
         /\ AllCarry(b, n) /\ (f.op = "show" => f.level = n) => AllCarry(c, n)
         /\ BehindCarries(b, n) /\ (f.op = "show" => f.level = n) => BehindCarries(c, n)
         /\ ~HasJob(b) => BehindCarries(c, n)
         /\ OwnCarries(b, n) \/ ~HasJob(b) =>
              ((f.from = "job" /\ f.op = "show" => f.level = n) => OwnCarries(c, n))
         /\ AheadCarries(b, n) /\ HasJob(b) => AheadCarries(c, n)
         /\ AllCarry(b, n) /\ (f.op = "show" => f.level = n) => AheadCarries(c, n)
<1>. DEFINE c == Append(b, f)
<1>1. /\ c \in Seq(Frame) /\ Len(c) = Len(b) + 1 /\ Len(b) \in Nat /\ c[Len(b) + 1] = f
      /\ \A i \in 1 .. Len(b) : c[i] = b[i]
  OBVIOUS
<1>2. \A i \in 1 .. Len(c) : i = Len(b) + 1 \/ i \in 1 .. Len(b)
  BY <1>1
<1>3. \A i \in 1 .. Len(b) : i \in 1 .. Len(c) /\ i < Len(b) + 1
  BY <1>1
<1>4. \A i, j \in 1 .. Len(c) : i < j => i \in 1 .. Len(b)
  BY <1>1
<1>. HIDE DEF c
<1>5. AllCarry(b, n) /\ (f.op = "show" => f.level = n) => AllCarry(c, n)
  BY <1>1, <1>2 DEF AllCarry
<1>6. BehindCarries(b, n) /\ (f.op = "show" => f.level = n) => BehindCarries(c, n)
  BY <1>1, <1>2, <1>4 DEF BehindCarries
<1>7. ~HasJob(b) => BehindCarries(c, n)
  BY <1>1, <1>4 DEF BehindCarries, HasJob
<1>8. OwnCarries(b, n) \/ ~HasJob(b) =>
        ((f.from = "job" /\ f.op = "show" => f.level = n) => OwnCarries(c, n))
  BY <1>1, <1>2 DEF OwnCarries, HasJob
<1>9. AheadCarries(b, n) /\ HasJob(b) => AheadCarries(c, n)
  BY <1>1, <1>2, <1>3 DEF AheadCarries, HasJob
<1>10. AllCarry(b, n) /\ (f.op = "show" => f.level = n) => AheadCarries(c, n)
  BY <1>1, <1>2 DEF AllCarry, AheadCarries
<1>. QED  BY <1>5, <1>6, <1>7, <1>8, <1>9, <1>10 DEF c

LEMMA DeliveredCarries ==
  ASSUME NEW b \in Seq(Frame), b # <<>>, NEW n
  PROVE  /\ AllCarry(b, n) => AllCarry(Tail(b), n) /\ (Head(b).op = "show" => Head(b).level = n)
         /\ BehindCarries(b, n) => BehindCarries(Tail(b), n)
         /\ BehindCarries(b, n) /\ Head(b).from = "job" => AllCarry(Tail(b), n)
         /\ OwnCarries(b, n) =>
              /\ OwnCarries(Tail(b), n)
              /\ Head(b).from = "job" /\ Head(b).op = "show" => Head(b).level = n
         /\ AheadCarries(b, n) =>
              /\ Head(b).op = "show" => Head(b).level = n
              /\ Head(b).from # "job" => AheadCarries(Tail(b), n)
<1>. DEFINE c == Tail(b)  h == Head(b)
<1>1. /\ c \in Seq(Frame) /\ Len(c) = Len(b) - 1 /\ Len(b) \in Nat /\ Len(b) >= 1
      /\ h = b[1]
      /\ \A i \in 1 .. Len(c) : c[i] = b[i + 1]
  OBVIOUS
<1>. HIDE DEF c, h
<1>2. \A i \in 1 .. Len(c) : i + 1 \in 1 .. Len(b) /\ 1 < i + 1
  BY <1>1
<1>3. 1 \in 1 .. Len(b) /\ \A i \in 1 .. Len(b) : ~ (i < 1)
  BY <1>1
<1>4. \A i, j \in 1 .. Len(c) : i < j => i + 1 < j + 1
  BY <1>1
<1>5. AllCarry(b, n) => AllCarry(c, n) /\ (h.op = "show" => h.level = n)
  BY <1>1, <1>2, <1>3 DEF AllCarry
<1>6. BehindCarries(b, n) => BehindCarries(c, n)
  BY <1>1, <1>2, <1>4 DEF BehindCarries
<1>7. BehindCarries(b, n) /\ h.from = "job" => AllCarry(c, n)
  BY <1>1, <1>2, <1>3 DEF BehindCarries, AllCarry
<1>8. OwnCarries(b, n) => /\ OwnCarries(c, n)
                          /\ h.from = "job" /\ h.op = "show" => h.level = n
  BY <1>1, <1>2, <1>3 DEF OwnCarries
<1>9. AheadCarries(b, n) => (h.op = "show" => h.level = n)
  BY <1>1, <1>3 DEF AheadCarries
<1>10. ASSUME AheadCarries(b, n), h.from # "job" PROVE AheadCarries(c, n)
  <2>. SUFFICES ASSUME NEW j \in 1 .. Len(c), c[j].op = "show", c[j].level # n
                PROVE  \E i \in 1 .. Len(c) : c[i].from = "job" /\ i < j
    BY DEF AheadCarries
  <2>1. PICK k \in 1 .. Len(b) : b[k].from = "job" /\ k < j + 1
    BY <1>1, <1>2, <1>10 DEF AheadCarries
  <2>2. k # 1
    BY <1>1, <1>10, <2>1
  <2>3. k - 1 \in 1 .. Len(c) /\ c[k - 1] = b[k] /\ k - 1 < j
    BY <1>1, <2>1, <2>2
  <2>. QED  BY <2>1, <2>3
<1>. QED  BY <1>5, <1>6, <1>7, <1>8, <1>9, <1>10 DEF c, h

LEMMA ObeysLevel ==
  ASSUME TypeOK, NEW f \in Frame
  PROVE  Obeyed(f).level = IF f.op = "show" THEN f.level ELSE light.level
<1>1. light \in LightType
  BY Read
<1>. QED  BY <1>1 DEF Obeyed, LightType, Frame

LEMMA SharingStarts ==
  ASSUME Init
  PROVE  Sharing
BY DEF Init, Sharing

\* A command that ends badly makes no promise about the level.
LEMMA SharingLeftApart ==
  ASSUME stage' = "start", added', seen'.apart
  PROVE  Sharing'
BY DEF Sharing

\* Nothing that the level depends on changes, and no turn_on begins.
LEMMA SharingStays ==
  ASSUME IInv, Sharing, UNCHANGED <<stage, bus, shared, light, added>>,
         ha'.level = ha.level, seen'.apart = seen.apart,
         stage # "start" => Head(jobs') = Head(jobs), stage # "start" => jobs' # <<>>
  PROVE  Sharing'
<1>1. stage # "start" => jobs # <<>>
  BY DEF IInv, Placed
<1>2. CASE stage = "start"
  BY <1>2 DEF Sharing, Starting
<1>3. CASE stage # "start"
  <2>1. \A S : Starting(S)' <=> Starting(S)
    BY <1>1, <1>3 DEF Starting, Holds
  <2>. QED  BY <2>1 DEF Sharing
<1>. QED  BY <1>2, <1>3

LEMMA QueueingSharing ==
  ASSUME IInv, Sharing, \/ \E job \in Requests : Dispatch(job)
                        \/ Enter \/ PollDue
  PROVE  Sharing'
<1>1. UNCHANGED <<stage, bus, shared, light, added, ha, seen>>
  BY DEF Dispatch, Enter, PollDue
<1>2. stage # "start" => jobs # <<>>
  BY DEF IInv, Placed
<1>3. \/ jobs' = jobs
      \/ \E job \in Job : jobs' = Append(jobs, job)
  <2>1. CASE \E job \in Requests : Dispatch(job)
    BY <2>1 DEF Dispatch
  <2>2. CASE Enter
    BY <2>2, Headed, Read DEF Enter, IInv
  <2>3. CASE PollDue
    BY <2>3 DEF PollDue, Job
  <2>. QED  BY <2>1, <2>2, <2>3
<1>4. stage # "start" => Head(jobs') = Head(jobs) /\ jobs' # <<>>
  BY <1>2, <1>3, Headed, Read DEF IInv
<1>. QED  BY <1>1, <1>4, SharingStays

-----------------------------------------------------------------------------
(* What the holder does to it. *)

LEMMA StartOnSharing ==
  ASSUME IInv, Sharing, StartOn
  PROVE  Sharing'
<1>1. /\ stage = "start" /\ stage' = "power" /\ jobs' = jobs /\ Holds("on")
      /\ UNCHANGED <<shared, light, added>>
      /\ bus' = Append(bus, Write("job", "on", Aspect(ha'), ha'.level))
      /\ ha' = Asked(Head(jobs))
      /\ seen' = [seen EXCEPT !.result = "none", !.lost = 0, !.touched = FALSE]
  BY DEF StartOn
<1>2. seen'.apart = seen.apart
  BY <1>1, Read DEF IInv, SeenType
<1>3. ha' \in Entity
  BY <1>1, AskedIs, Headed, Read DEF IInv, Holds
<1>4. Aspect(ha') \in Looks \cup {Gel} /\ ha'.level \in Levels
  BY <1>3, Aspects
<1>5. PICK f \in Frame : bus' = Append(bus, f) /\ f.op = "on"
  BY <1>1, <1>4, Framed
<1>6. bus \in Seq(Frame)
  BY Read DEF IInv
<1>7. AllCarry(bus, shared) => AheadCarries(bus', shared)
  BY <1>5, <1>6, AppendedCarries
<1>8. ~Starting({"power", "body"}) /\ ~Starting({"power", "body"})' = FALSE
  BY <1>1 DEF Starting, Holds
<1>. QED  BY <1>1, <1>2, <1>7, <1>8 DEF Sharing

LEMMA HolderSharing ==
  ASSUME IInv, Sharing, StartOff \/ StartPoll \/ Settled
  PROVE  Sharing'
<1>1. /\ jobs' = jobs /\ UNCHANGED <<shared, light, added, ha>>
      /\ seen'.apart = seen.apart
      /\ stage \notin {"power", "body"} /\ stage' \in {"power", "check"}
      /\ stage' = "power" => ~Holds("on")
  BY Read DEF StartOff, StartPoll, Settled, IInv, SeenType, Holds
<1>2. PICK f \in Frame : bus' = Append(bus, f) /\ f.op # "show"
  <2>1. Aspect(ha) \in Looks \cup {Gel} /\ ha.level \in Levels /\ local.pct \in Levels
    BY Read, Aspects DEF IInv
  <2>2. ASSUME NEW op \in {"off", "status"}, NEW look \in Looks \cup {Gel}, NEW level \in Levels,
               bus' = Append(bus, Write("job", op, look, level))
        PROVE  \E f \in Frame : bus' = Append(bus, f) /\ f.op # "show"
    <3>. DEFINE f == Write("job", op, look, level)
    <3>1. f \in Frame /\ f.op # "show"
      BY Framed
    <3>. HIDE DEF f
    <3>. QED  BY <2>2, <3>1 DEF f
  <2>3. CASE StartOff
    BY <2>1, <2>2, <2>3 DEF StartOff
  <2>4. CASE StartPoll
    BY <2>1, <2>2, <2>4 DEF StartPoll
  <2>5. CASE Settled
    BY <2>1, <2>2, <2>5 DEF Settled
  <2>. QED  BY <2>3, <2>4, <2>5
<1>3. bus \in Seq(Frame)
  BY Read DEF IInv
<1>4. AllCarry(bus, shared) => AllCarry(bus', shared)
  BY <1>2, <1>3, AppendedCarries
<1>5. ~Starting({"power", "body"}) /\ ~Starting({"power"})'
  BY <1>1 DEF Starting, Holds
<1>. QED  BY <1>1, <1>4, <1>5 DEF Sharing

LEMMA PowerDoneSharing ==
  ASSUME IInv, Sharing, PowerDone
  PROVE  Sharing'
<1>1. /\ stage' = "body" /\ jobs' = jobs /\ Holds("on") /\ Served("job") /\ added' = added
      /\ shared' = ha.level
      /\ bus' = Append(Tail(bus), Write("job", "show", Aspect(ha), ha.level))
  BY DEF PowerDone, Written, Send
<1>2. Tail(bus) \in Seq(Frame) /\ ~HasJob(Tail(bus)) /\ stage = "power"
  BY <1>1, HolderServed DEF IInv, PowerDone
<1>3. Aspect(ha) \in Looks \cup {Gel} /\ ha.level \in Levels /\ ha.level # Untold
  BY Read, Aspects, LightAssumption DEF IInv, Untold
<1>4. PICK f \in Frame : bus' = Append(Tail(bus), f) /\ f.level = shared'
  BY <1>1, <1>3, Framed
<1>5. BehindCarries(bus', shared') /\ OwnCarries(bus', shared')
  BY <1>2, <1>4, AppendedCarries
<1>6. added
  BY <1>1, <1>2, PollIsPoll DEF IInv, InStep, Holds
<1>7. Starting({"power", "body"})' /\ ~Starting({"power"})'
  BY <1>1 DEF Starting, Holds
<1>. QED  BY <1>1, <1>3, <1>5, <1>6, <1>7 DEF Sharing

\* The frame arrived, and all that waits behind it carries its level; or it was lost.
LEMMA ToldSharing ==
  ASSUME IInv, Sharing, stage \in {"body", "resend"}, Written
  PROVE  /\ ~seen'.apart => light'.level = shared /\ AllCarry(Tail(bus), shared)
         /\ shared # Untold /\ ha.level = shared /\ Holds("on") /\ added
         /\ Tail(bus) \in Seq(Frame)
<1>1. /\ Served("job") /\ light' \in {Obeyed(Head(bus)), light}
      /\ bus \in Seq(Frame) /\ bus # <<>> /\ Head(bus).from = "job"
  BY Read DEF Written, Served, IInv
<1>2. Head(bus) \in Frame /\ Head(bus).op = "show" /\ Tail(bus) \in Seq(Frame)
  BY <1>1, HolderServed DEF IInv
<1>3. seen'.apart <=> light' # Obeyed(Head(bus))
  BY <1>2, WrittenDoes DEF IInv
<1>4. AllCarry(Tail(bus), shared) /\ Head(bus).level = shared
  BY <1>1, <1>2, DeliveredCarries DEF Sharing
<1>5. Obeyed(Head(bus)).level = shared
  BY <1>2, <1>4, ObeysLevel DEF IInv
<1>6. ha.level = shared /\ Holds("on")
  BY DEF IInv, Placed, Levelled
<1>7. added
  BY <1>6, PollIsPoll DEF IInv, InStep, Holds, Placed
<1>8. shared # Untold
  BY Read, LightAssumption DEF IInv, Placed, Levelled, Untold
<1>. QED  BY <1>2, <1>3, <1>4, <1>5, <1>6, <1>7, <1>8

LEMMA BodyDoneSharing ==
  ASSUME IInv, Sharing, BodyDone
  PROVE  Sharing'
<1>1. /\ stage = "body" /\ stage' = "again" /\ Written /\ UNCHANGED <<ha, added, shared>>
      /\ bus' = Append(Tail(bus), Write("job", "on", Aspect(ha), ha.level))
  BY DEF BodyDone, Send
<1>2. /\ ~seen'.apart => light'.level = shared /\ AllCarry(Tail(bus), shared)
      /\ shared # Untold /\ ha.level = shared /\ added /\ Tail(bus) \in Seq(Frame)
  BY <1>1, ToldSharing
<1>3. Aspect(ha) \in Looks \cup {Gel} /\ ha.level \in Levels
  BY Read, Aspects DEF IInv
<1>4. PICK f \in Frame : bus' = Append(Tail(bus), f) /\ f.op = "on"
  <2>. DEFINE f == Write("job", "on", Aspect(ha), ha.level)
  <2>1. f \in Frame /\ f.op = "on"
    BY <1>3, Framed
  <2>2. bus' = Append(Tail(bus), f)
    BY <1>1
  <2>. HIDE DEF f
  <2>. QED  BY <2>1, <2>2
<1>5. AllCarry(Tail(bus), shared) => AllCarry(bus', shared)
  BY <1>2, <1>4, AppendedCarries
<1>. QED  BY <1>1, <1>2, <1>5 DEF Sharing, Starting

LEMMA ResendDoneSharing ==
  ASSUME IInv, Sharing, ResendDone
  PROVE  Sharing'
<1>1. /\ stage = "resend" /\ stage' = "settle" /\ Written /\ UNCHANGED <<ha, added, shared>>
      /\ bus' = Tail(bus)
  BY DEF ResendDone
<1>2. /\ ~seen'.apart => light'.level = shared /\ AllCarry(Tail(bus), shared)
      /\ shared # Untold /\ ha.level = shared /\ added /\ Tail(bus) \in Seq(Frame)
  BY <1>1, ToldSharing
<1>. QED  BY <1>1, <1>2 DEF Sharing, Starting

\* A call of the holder's that shows nothing leaves the level as it is.
LEMMA ServedSharing ==
  ASSUME IInv, Sharing, Served("job"), Head(bus).op # "show", bus' = Tail(bus),
         light' \in {Obeyed(Head(bus)), light}, UNCHANGED shared, seen'.apart = seen.apart,
         added', added => ha'.level = ha.level \/ ha'.level = light.level,
         ~Starting({"power", "body"}), stage' \in {"start", "settle"}
  PROVE  Sharing'
<1>1. bus \in Seq(Frame) /\ bus # <<>>
  BY Read DEF Served, IInv
<1>2. Head(bus) \in Frame
  BY HolderServed DEF IInv
<1>3. light'.level = light.level
  BY <1>2, ObeysLevel DEF IInv
<1>4. AllCarry(bus, shared) => AllCarry(bus', shared)
  BY <1>1, DeliveredCarries
<1>. QED  BY <1>3, <1>4 DEF Sharing, Starting

LEMMA EndsSharing ==
  ASSUME IInv, Sharing, AgainConfirms \/ AgainFinishes \/ OffDone \/ CheckMatches
  PROVE  Sharing'
<1>1. /\ Served("job") /\ bus' = Tail(bus) /\ light' \in {Obeyed(Head(bus)), light}
      /\ UNCHANGED <<shared, added>> /\ stage' \in {"start", "settle"}
      /\ stage \in {"again", "check"} \/ (stage = "power" /\ Holds("off"))
  BY DEF AgainConfirms, AgainFinishes, OffDone, CheckMatches, Written, Finish, Leave
<1>2. Head(bus).op # "show"
  BY <1>1, HolderServed DEF IInv, Holds
<1>3. ha'.level = ha.level
  <2>1. ha \in Entity
    BY Read DEF IInv
  <2>2. CASE AgainConfirms
    BY <2>1, <2>2 DEF AgainConfirms, Entity
  <2>3. CASE AgainFinishes \/ CheckMatches
    BY <2>3, Reached DEF AgainFinishes, CheckMatches, Finish, IInv
  <2>4. CASE OffDone
    BY <2>4, Reached DEF OffDone, IInv
  <2>. QED  BY <2>2, <2>3, <2>4
<1>4. seen'.apart = seen.apart
  <2>1. seen \in SeenType
    BY Read DEF IInv
  <2>2. CASE AgainConfirms \/ OffDone
    BY <1>2, <2>2, WrittenDoes DEF AgainConfirms, OffDone, IInv
  <2>3. CASE AgainFinishes
    BY <2>1, <2>3 DEF AgainFinishes, SeenType
  <2>4. CASE CheckMatches
    BY <2>1, <2>4 DEF CheckMatches, SeenType
  <2>. QED  BY <2>2, <2>3, <2>4
<1>5. added
  BY <1>1, PollIsPoll
     DEF IInv, InStep, Holds, Placed, AgainConfirms, AgainFinishes, OffDone, CheckMatches
<1>6. ~Starting({"power", "body"})
  BY <1>1 DEF Starting, Holds
<1>. QED  BY <1>1, <1>2, <1>3, <1>4, <1>5, <1>6, ServedSharing

LEMMA CheckRetriesSharing ==
  ASSUME IInv, Sharing, CheckRetries
  PROVE  Sharing'
<1>1. /\ stage = "check" /\ stage' = "resend" /\ Holds("on") /\ Served("job")
      /\ UNCHANGED <<jobs, ha, added, shared, light, seen>>
      /\ bus' = Append(Tail(bus), Write("job", "show", ha.mode, local.pct))
  BY DEF CheckRetries, Unconfirmed, Send
<1>2. bus \in Seq(Frame) /\ bus # <<>> /\ Tail(bus) \in Seq(Frame) /\ ~HasJob(Tail(bus))
  BY <1>1, HolderServed, Read DEF IInv, Served
<1>3. ha.mode \in Looks \cup {Gel} /\ local.pct \in Levels /\ shared = local.pct
  BY <1>1, Read, Aspects DEF IInv, Levelled
<1>4. PICK f \in Frame : bus' = Append(Tail(bus), f) /\ f.level = shared
  BY <1>1, <1>3, Framed
<1>5. BehindCarries(bus', shared) /\ OwnCarries(bus', shared)
  BY <1>2, <1>4, AppendedCarries
<1>6. AllCarry(bus, shared) => AllCarry(bus', shared)
  BY <1>2, <1>4, AppendedCarries, DeliveredCarries
<1>. QED  BY <1>1, <1>5, <1>6 DEF Sharing, Starting

LEMMA RaisesSharing ==
  ASSUME IInv, Sharing, CheckFails \/ WriteRaises \/ CancelCommand
  PROVE  Sharing'
<1>1. stage' = "start" /\ added' = added
  BY DEF CheckFails, WriteRaises, CancelCommand, Leave
<1>2. seen'.apart
  BY Read DEF CheckFails, WriteRaises, CancelCommand, IInv, SeenType
<1>3. stage # "start" /\ ~Holds("poll")
  BY DEF CheckFails, WriteRaises, CancelCommand, IInv, Placed, Holds
<1>4. added
  BY <1>3, PollIsPoll DEF IInv, InStep, Holds
<1>. QED  BY <1>1, <1>2, <1>4, SharingLeftApart

LEMMA PollSharing ==
  ASSUME IInv, Sharing, PollAnswers \/ PollSilent
  PROVE  Sharing'
<1>1. /\ Served("job") /\ bus' = Tail(bus) /\ light' = light /\ stage = "check"
      /\ UNCHANGED <<shared, seen>> /\ added' /\ stage' = "start"
  BY DEF PollAnswers, PollSilent, AfterPoll, Leave
<1>2. Head(bus).op # "show"
  BY <1>1, HolderServed DEF IInv
<1>3. ASSUME added PROVE ha'.level = ha.level \/ ha'.level = light.level
  <2>1. ha \in Entity
    BY Read DEF IInv
  <2>2. CASE PollSilent
    BY <1>3, <2>1, <2>2 DEF PollSilent, AfterPoll, Entity
  <2>3. CASE PollAnswers
    BY <1>3, <2>1, <2>3 DEF PollAnswers, AfterPoll, Reachable, Entity
  <2>. QED  BY <2>2, <2>3
<1>4. ~Starting({"power", "body"})
  BY <1>1 DEF Starting
<1>. QED  BY <1>1, <1>2, <1>3, <1>4, ServedSharing

-----------------------------------------------------------------------------
(* What the sliders, the gels and the panel do to it. *)

LEMMA MovesSharing ==
  ASSUME IInv, Sharing,
         TintMoves \/ SpeedMoves \/ RangeSwitches \/ CoordinatesMove \/ GelPicked
  PROVE  Sharing'
<1>1. ha \in Entity /\ ha.level \in Levels /\ bus \in Seq(Frame) /\ seen \in SeenType
      /\ GelLevel \in Levels /\ (shared \in Levels => GelLevel = shared)
      /\ local.pct \in Levels
  BY Read, Aspects, GelLevels DEF IInv
<1>2. UNCHANGED <<work, light, shared, added>> /\ added
  BY DEF TintMoves, SpeedMoves, RangeSwitches, CoordinatesMove, GelPicked, Moves
<1>3. ha'.level = ha.level /\ seen'.apart = seen.apart
  BY <1>1 DEF TintMoves, SpeedMoves, RangeSwitches, CoordinatesMove, GelPicked, Entity, SeenType
<1>4. \/ bus' = bus
      \/ \E f \in Frame : /\ bus' = Append(bus, f) /\ f.from = "slider"
                          /\ f.level = ha.level \/ f.level = GelLevel
  <2>1. ha.mode \in Looks \cup {Gel} /\ {"cct", "colour", Gel} \subseteq Looks \cup {Gel}
    BY <1>1, Aspects DEF Looks, Modes
  <2>2. ha.effect # NoEffect => ha.effect \in Looks \cup {Gel}
    BY <1>1 DEF Entity, Looks
  <2>3. ASSUME NEW look \in Looks \cup {Gel}, NEW level \in {ha.level, GelLevel},
               bus' = Append(bus, Write("slider", "show", look, level))
        PROVE  \E f \in Frame : /\ bus' = Append(bus, f) /\ f.from = "slider"
                                /\ f.level = ha.level \/ f.level = GelLevel
    <3>. DEFINE f == Write("slider", "show", look, level)
    <3>1. level \in Levels
      BY <1>1
    <3>2. f \in Frame /\ f.from = "slider" /\ f.level = level
      BY <3>1, Framed
    <3>. HIDE DEF f
    <3>3. bus' = Append(bus, f)
      BY <2>3 DEF f
    <3>. QED  BY <3>2, <3>3
  <2>4. CASE TintMoves
    BY <2>1, <2>3, <2>4 DEF TintMoves
  <2>5. CASE SpeedMoves
    BY <2>2, <2>3, <2>5 DEF SpeedMoves
  <2>6. CASE RangeSwitches
    BY <2>1, <2>3, <2>6 DEF RangeSwitches
  <2>7. CASE CoordinatesMove
    BY <2>1, <2>3, <2>7 DEF CoordinatesMove
  <2>8. CASE GelPicked
    BY <2>1, <2>3, <2>8 DEF GelPicked
  <2>. QED  BY <2>4, <2>5, <2>6, <2>7, <2>8
<1>5. \A S : Starting(S)' <=> Starting(S)
  BY <1>2 DEF Starting, Holds, work
<1>6. stage' = stage
  BY <1>2 DEF work
<1>7. CASE bus' = bus
  BY <1>2, <1>3, <1>5, <1>6, <1>7 DEF Sharing
<1>8. ASSUME NEW f \in Frame, bus' = Append(bus, f), f.from = "slider",
             f.level = ha.level \/ f.level = GelLevel
      PROVE  Sharing'
  <2>1. shared # Untold => GelLevel = shared
    BY <1>1, Read DEF IInv, SharedType
  <2>2. ASSUME shared # Untold, ~seen.apart, ~Starting({"power", "body"})
        PROVE  AllCarry(bus', shared)
    BY <1>1, <1>8, <2>1, <2>2, AppendedCarries DEF Sharing
  <2>3. ASSUME AheadCarries(bus, shared), Starting({"power"})
        PROVE  AheadCarries(bus', shared)
    <3>1. HasJob(bus)
      BY <2>3 DEF IInv, Placed, Starting
    <3>. QED  BY <1>1, <1>8, <2>3, <3>1, AppendedCarries
  <2>4. ASSUME stage \in {"body", "resend"}
        PROVE  BehindCarries(bus', shared) /\ OwnCarries(bus', shared)
    <3>1. ha.level = shared /\ shared \in Levels
      BY <1>1, <2>4 DEF IInv, Placed, Levelled
    <3>2. f.level = shared
      BY <1>1, <1>8, <3>1
    <3>. QED  BY <1>1, <1>8, <2>4, <3>2, AppendedCarries DEF Sharing
  <2>. QED  BY <1>2, <1>3, <1>5, <1>6, <2>2, <2>3, <2>4 DEF Sharing
<1>. QED  BY <1>4, <1>7, <1>8

LEMMA SliderDoneSharing ==
  ASSUME IInv, Sharing, SliderDone
  PROVE  Sharing'
<1>1. /\ Served("slider") /\ light' \in {Obeyed(Head(bus)), light} /\ bus' = Tail(bus)
      /\ UNCHANGED <<work, ha, shared, added>>
  BY DEF SliderDone
<1>2. bus \in Seq(Frame) /\ bus # <<>> /\ Head(bus).from # "job" /\ seen \in SeenType
  BY <1>1, Read DEF Served, IInv
<1>3. Head(bus) \in Frame /\ Head(bus).op = "show"
  BY <1>1, SliderServed DEF IInv
<1>4. light'.level \in {Head(bus).level, light.level}
  BY <1>1, <1>3, ObeysLevel DEF IInv
<1>5. seen'.apart = seen.apart
  BY <1>2 DEF SliderDone, SeenType
<1>6. /\ AllCarry(bus, shared) => AllCarry(bus', shared) /\ Head(bus).level = shared
      /\ AheadCarries(bus, shared) => AheadCarries(bus', shared) /\ Head(bus).level = shared
      /\ BehindCarries(bus, shared) => BehindCarries(bus', shared)
      /\ OwnCarries(bus, shared) => OwnCarries(bus', shared)
  BY <1>1, <1>2, <1>3, DeliveredCarries
<1>7. (\A S : Starting(S)' <=> Starting(S)) /\ stage' = stage
  BY <1>1 DEF Starting, Holds, work
<1>. QED  BY <1>1, <1>4, <1>5, <1>6, <1>7 DEF Sharing

LEMMA PanelSharing ==
  ASSUME IInv, Sharing, Panel
  PROVE  Sharing'
<1>1. UNCHANGED <<work, bus, ha, shared, added>> /\ seen \in SeenType /\ light \in LightType
  BY Read DEF Panel, IInv
<1>2. ~seen'.apart => ~seen.apart /\ light'.level = light.level
  <2>. DEFINE apart == seen.apart \/ light'.level # light.level
  <2>1. seen' = [seen EXCEPT !.touched = TRUE, !.apart = apart]
    BY <1>1 DEF Panel, SeenType
  <2>2. ~apart => ~seen.apart /\ light'.level = light.level
    OBVIOUS
  <2>. HIDE DEF apart
  <2>3. seen'.apart = apart
    BY <1>1, <2>1 DEF SeenType
  <2>. QED  BY <2>2, <2>3
<1>3. (\A S : Starting(S)' <=> Starting(S)) /\ stage' = stage
  BY <1>1 DEF Starting, Holds, work
<1>. QED  BY <1>1, <1>2, <1>3 DEF Sharing

LEMMA SharingKept ==
  ASSUME IInv, Sharing, [Next]_vars
  PROVE  Sharing'
<1>1. CASE UNCHANGED vars
  BY <1>1 DEF Sharing, Starting, Holds, vars, work
<1>2. CASE (\E job \in Requests : Dispatch(job)) \/ Enter \/ PollDue
  BY <1>2, QueueingSharing
<1>3. CASE StartOn \/ StartOff \/ StartPoll \/ Settled
  BY <1>3, StartOnSharing, HolderSharing
<1>4. CASE PowerDone \/ BodyDone \/ ResendDone \/ CheckRetries
  BY <1>4, PowerDoneSharing, BodyDoneSharing, ResendDoneSharing, CheckRetriesSharing
<1>5. CASE AgainConfirms \/ AgainFinishes \/ OffDone \/ CheckMatches
  BY <1>5, EndsSharing
<1>6. CASE CheckFails \/ WriteRaises \/ CancelCommand
  BY <1>6, RaisesSharing
<1>7. CASE PollAnswers \/ PollSilent
  BY <1>7, PollSharing
<1>8. CASE TintMoves \/ SpeedMoves \/ RangeSwitches \/ CoordinatesMove \/ GelPicked
  BY <1>8, MovesSharing
<1>9. CASE SliderDone \/ Panel
  BY <1>9, SliderDoneSharing, PanelSharing
<1>. QED
  BY <1>1, <1>2, <1>3, <1>4, <1>5, <1>6, <1>7, <1>8, <1>9 DEF Next, Step

-----------------------------------------------------------------------------
(* The theorems. *)

\* What holds of the entity, the commands at its lock, the calls waiting for the link
\* and the light (GodoxLight of light.py) is kept by every step.
THEOREM Invariance == Spec => []IInv
<1>1. ASSUME IInv, [Next]_vars PROVE IInv'
  <2>. SUFFICES IInv'
    OBVIOUS
  <2>1. CASE UNCHANGED vars
    BY <1>1, <2>1, StutterHolds
  <2>2. CASE \E job \in Requests : Dispatch(job)
    BY <1>1, <2>2, DispatchHolds
  <2>3. CASE Enter \/ PollDue
    BY <1>1, <2>3, EnterHolds, PollDueHolds
  <2>4. CASE StartOn \/ StartOff \/ StartPoll
    BY <1>1, <2>4, StartOnHolds, StartOffHolds, StartPollHolds
  <2>5. CASE PowerDone \/ BodyDone \/ AgainConfirms \/ AgainFinishes \/ OffDone
    BY <1>1, <2>5, PowerDoneHolds, BodyDoneHolds, AgainConfirmsHolds, AgainFinishesHolds,
       OffDoneHolds
  <2>6. CASE Settled \/ CheckMatches \/ CheckRetries \/ CheckFails \/ ResendDone
    BY <1>1, <2>6, SettledHolds, CheckMatchesHolds, CheckRetriesHolds, CheckFailsHolds,
       ResendDoneHolds
  <2>7. CASE WriteRaises \/ CancelCommand
    BY <1>1, <2>7, WriteRaisesHolds, CancelCommandHolds
  <2>8. CASE PollAnswers \/ PollSilent
    BY <1>1, <2>8, PollAnswersHolds, PollSilentHolds
  <2>9. CASE TintMoves \/ SpeedMoves \/ RangeSwitches \/ CoordinatesMove \/ GelPicked
    BY <1>1, <2>9, TintMovesHolds, SpeedMovesHolds, RangeSwitchesHolds, CoordinatesMoveHolds,
       GelPickedHolds
  <2>10. CASE SliderDone \/ Panel
    BY <1>1, <2>10, SliderDoneHolds, PanelHolds
  <2>. QED
    BY <1>1, <2>1, <2>2, <2>3, <2>4, <2>5, <2>6, <2>7, <2>8, <2>9, <2>10 DEF Next, Step
<1>. QED  BY InitHolds, <1>1, PTL DEF Spec

\* select.py:169: once all is quiet, a gel carries the level the light has from when a
\* turn_on's frame has arrived, until one is lost, a command raises or the panel changes
\* the level, and again from the next frame that arrives.
THEOREM GelsKeepTheLevel == Spec => []GelKeepsLevel
<1>1. Init => Sharing
  BY SharingStarts
<1>2. ASSUME IInv, Sharing, [Next]_vars PROVE Sharing'
  BY <1>2, SharingKept
<1>3. IInv /\ Sharing => GelKeepsLevel
  <2>. SUFFICES ASSUME IInv, Sharing, jobs = <<>>, ~seen.apart
                PROVE  light.level = GelLevel
    BY DEF GelKeepsLevel
  <2>. QED  BY DEF Sharing, Starting, Holds, GelLevel
<1>. QED  BY Invariance, <1>1, <1>2, <1>3, PTL DEF Spec

\* The state has its types: one call at a time belongs to the holder of the lock, however
\* many sliders have called the link beside it.
THEOREM TypesHold == Spec => []TypeOK
<1>1. IInv => TypeOK
  BY DEF IInv
<1>. QED  BY Invariance, <1>1, PTL

\* light.py:439: the power write is repeated, so a turn_on that ends well leaves the LEDs
\* on although one of the two, whichever, was lost.
THEOREM OneLostWriteIsHarmless == Spec => []LedsAreOn
<1>1. IInv => LedsAreOn
  BY DEF IInv, Lit
<1>. QED  BY Invariance, <1>1, PTL

\* light.py:109: no poll and no slider changes the level a command asked for between its
\* first write and its last.
THEOREM CommandsKeepTheirLevel == Spec => []LevelStands
<1>1. IInv => LevelStands
  BY DEF IInv, Levelled, LevelStands
<1>. QED  BY Invariance, <1>1, PTL

\* light.py:512: whatever the attempts to confirm a level ended with, Home Assistant shows
\* the level the light last reported.
THEOREM MeasuredLevelsShow == Spec => []ShowsWhatWasMeasured
<1>1. IInv => ShowsWhatWasMeasured
  BY DEF IInv, Levelled
<1>. QED  BY Invariance, <1>1, PTL

\* light.py:90: in whatever order the commands and the sliders called the link, when all
\* is quiet the light shows what Home Assistant displays.
THEOREM QuietLightsAgree == Spec => []ShowsWhatWasCommanded
<1>1. IInv => ShowsWhatWasCommanded
  <2>. SUFFICES ASSUME IInv, bus = <<>>, ha.on, seen.clean, seen.set, ~seen.astray, jobs = <<>>
                PROVE  light.look \in {Aspect(ha), Gel}
    BY DEF ShowsWhatWasCommanded
  <2>1. Ends(bus, light.look, Aspect(ha)) \/ Ends(bus, light.look, Gel)
    BY DEF IInv, InStep, Settles, Told, Holds
  <2>2. ~Shows(bus)
    BY DEF Shows
  <2>. QED  BY <2>1, <2>2 DEF Ends
<1>. QED  BY Invariance, <1>1, PTL

\* light.py:387: the lock is never left with a command or a poll that raised or was
\* cancelled, and none goes on beside another's call.
THEOREM HoldersWaitForTheLink == Spec => []HolderIsServed
<1>1. IInv => HolderIsServed
  BY DEF IInv, Placed, HasJob, HolderIsServed
<1>. QED  BY Invariance, <1>1, PTL
=============================================================================
