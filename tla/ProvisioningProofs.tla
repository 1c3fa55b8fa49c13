------------------------- MODULE ProvisioningProofs -------------------------
(***************************************************************************)
(* What Provisioning's run checks of attempts to put lights on a mesh, for *)
(* any number of lights and of attempts.                                   *)
(***************************************************************************)
EXTENDS Provisioning, SequenceTheorems, FiniteSetTheorems, TLAPS

Types == DOMAIN PayloadLength
Woes  == {"subscribe", "close", "unheard", "drop", "other"}

Elems(s) == {s[i] : i \in 1 .. Len(s)}
IsSeq(s) == s \in Seq(Elems(s))

\* Terms have no type; these are the fields they have.
IsTable(f, S) == f = [x \in S |-> f[x]]
IsLight(r) == /\ r = [mode |-> r.mode, got |-> r.got, keys |-> r.keys,
                      app |-> r.app, bound |-> r.bound]
              /\ IsTable(r.got, Types) /\ r.bound \in BOOLEAN
IsState(s) == s = [net |-> s.net, app |-> s.app, address |-> s.address,
                   device |-> s.device, elements |-> s.elements]

Typed == /\ at \in Stages /\ step \in 0 .. 11
         /\ job \in [light : Lights, path : Paths, try : Nat]
         /\ IsTable(got, Types)
         /\ IsSeq(air) /\ IsSeq(rx)
         /\ IsTable(light, Lights) /\ \A l \in Lights : IsLight(light[l])
         /\ trouble \in [Lights -> SUBSET Woes]
         /\ \A s \in state : IsState(s)
         /\ \A r \in records : r.light \in Lights

Bounded == /\ link \in {"closed", "open", "dropped"} /\ leaked \subseteq Lights
           /\ job.try <= MaxTries
           /\ state = {} \/ \E s : state = {s}

\* One of the keys the light took is what d says of it.
Opens(l, d) == \E k \in light[l].keys :
                 k.device = d.device /\ k.net = d.net /\ k.address = d.address

\* Where no connection is open.
ShutStages == {"idle", "opening", "bindopening", "form"}
Shut == at \in ShutStages => link = "closed"

\* From the end of the exchange on there is a state, and the light agrees with it.
Holding == {"closing", "bindopening", "bindsubscribing", "addkey", "bindkey",
            "bindclosing", "form"}
Held == /\ at \in Holding => /\ \E s \in state : state = {s}
                             /\ \A s \in state : Opens(job.light, s)
        /\ at # "idle" => \A r \in records : r.light # job.light

Fresh == /\ at \in {"idle", "opening", "subscribing"} => step = 0
         /\ at \in {"subscribing", "bindsubscribing", "addkey"} => air = <<>>
         /\ at = "subscribing" => rx = <<>>

\* Data is sent last, and Complete comes only from a light that has decrypted it:
\* it made the same keys, or it would have refused.
Ours == [net |-> Net, address |-> NodeAddress, device |-> derive_device_key(Secret, ProvisionSalt)]
Questions == {"invite", "start", "public_key", "confirmation", "random", "data"}
CompleteCame == step = 11 \/ \E p \in Elems(rx) : p.type = "complete" /\ Parses(p)
Decrypted ==
  at = "exchange" =>
    /\ \A p \in Elems(air) : /\ p.type \in Questions
                             /\ p.type = "data" => step >= 10 /\ p = Outgoing("data")
    /\ CompleteCame => step >= 10 /\ Opens(job.light, Ours)

\* With no trouble both ends are at the same place of the exchange: what was sent and
\* is not on the air was heard, and what was heard is answered.
HeardUpTo(n) == /\ n >= 1 => Me.got["invite"] = build_invite(0).payload
                /\ n >= 2 => Me.got["start"] = build_start.payload
                /\ n >= 3 => Me.got["public_key"] = OurKeys.public
                /\ n >= 4 => Me.got["confirmation"] = Outgoing("confirmation").payload
                /\ n >= 5 => Me.got["random"] = OurRandom
Learnt == /\ step >= 2 => got["capabilities"] = Capabilities
          /\ step >= 5 => got["public_key"] = Bytes(64, LightId)
          /\ step >= 9 => got["random"] = LightRandom
Silent == air = <<>> /\ rx = <<>>
Asking(type) == air = <<Outgoing(type)>> /\ rx = <<>>
Answered(type) == air = <<>> /\ rx = Answer(type)
Place ==
  \/ step = 0  /\ Silent
  \/ step = 1  /\ Asking("invite")
  \/ step = 1  /\ Answered("invite")       /\ HeardUpTo(1)
  \/ step = 2  /\ Silent                   /\ HeardUpTo(1)
  \/ step = 3  /\ Asking("start")          /\ HeardUpTo(1)
  \/ step = 3  /\ Silent                   /\ HeardUpTo(2)
  \/ step = 4  /\ air = <<Outgoing("start"), Outgoing("public_key")>> /\ rx = <<>> /\ HeardUpTo(1)
  \/ step = 4  /\ Asking("public_key")     /\ HeardUpTo(2)
  \/ step = 4  /\ Answered("public_key")   /\ HeardUpTo(3)
  \/ step = 5  /\ Silent                   /\ HeardUpTo(3)
  \/ step = 6  /\ Asking("confirmation")   /\ HeardUpTo(3)
  \/ step = 6  /\ Answered("confirmation") /\ HeardUpTo(4)
  \/ step = 7  /\ Silent                   /\ HeardUpTo(4)
  \/ step = 8  /\ Asking("random")         /\ HeardUpTo(4)
  \/ step = 8  /\ Answered("random")       /\ HeardUpTo(5)
  \/ step = 9  /\ Silent                   /\ HeardUpTo(5)
  \/ step = 10 /\ Asking("data")           /\ HeardUpTo(5)
  \/ step = 10 /\ Answered("complete")
  \/ step = 11 /\ Silent
InStep == at = "exchange" /\ trouble[job.light] = {} => link = "open" /\ Learnt /\ Place

\* Where the two configuration messages are, unless one or the link was lost.
Told(s) == light[job.light].app = {s.app}
Add(s)  == Config(s, build_config_app_key_add(s.app))
Bind(s) == Config(s, build_config_model_app_bind(s.address))
Configured ==
  {"unheard", "drop"} \cap trouble[job.light] = {} =>
    /\ at \in {"bindsubscribing", "addkey", "bindkey", "bindclosing"} => link = "open"
    /\ \A s \in state :
         /\ at = "bindkey" => air = <<Add(s)>> \/ (air = <<>> /\ Told(s))
         /\ at = "bindclosing" => \/ air = <<Add(s), Bind(s)>>
                                  \/ air = <<Bind(s)>> /\ Told(s)
                                  \/ air = <<>> /\ Told(s) /\ Me.bound
         /\ at = "form" => Told(s) /\ Me.bound

IInv == /\ Typed /\ Bounded /\ Held /\ Fresh /\ Decrypted /\ InStep /\ Configured
        /\ RecordOpensTheLight /\ ListedIsBound /\ StrandedHadTrouble
        /\ QuietAttemptSucceeds /\ NothingElseLeaks /\ Shut

-----------------------------------------------------------------------------
\* Sequences of terms.
LEMMA Elements ==
  ASSUME NEW s, IsSeq(s)
  PROVE  /\ IsSeq(<<>>) /\ Elems(<<>>) = {}
         /\ \A x : IsSeq(Append(s, x)) /\ Elems(Append(s, x)) = Elems(s) \cup {x}
         /\ s # <<>> => /\ IsSeq(Tail(s)) /\ Elems(Tail(s)) \subseteq Elems(s)
                        /\ Head(s) \in Elems(s)
         /\ \A x : s \o <<x>> = Append(s, x)
         /\ s \o <<>> = s
<1>. USE DEF Elems, IsSeq
<1>1. IsSeq(<<>>) /\ Elems(<<>>) = {}
  OBVIOUS
<1>2. ASSUME NEW x PROVE IsSeq(Append(s, x)) /\ Elems(Append(s, x)) = Elems(s) \cup {x}
  <2>. DEFINE t == Append(s, x)
              S == Elems(s) \cup {x}
  <2>1. s \in Seq(S)
    OBVIOUS
  <2>2. t \in Seq(S) /\ Len(t) = Len(s) + 1 /\ t[Len(s) + 1] = x /\ \A i \in 1 .. Len(s) : t[i] = s[i]
    BY <2>1
  <2>3. Len(s) \in Nat
    OBVIOUS
  <2>4. Elems(t) = S
    <3>. HIDE DEF t
    <3>1. \A i \in 1 .. Len(t) : t[i] \in S
      BY <2>2, <2>3
    <3>2. \A y \in S : \E i \in 1 .. Len(t) : t[i] = y
      <4>1. \A i \in 1 .. Len(s) : i \in 1 .. Len(t)
        BY <2>2, <2>3
      <4>2. Len(s) + 1 \in 1 .. Len(t)
        BY <2>2, <2>3
      <4>. QED
        BY <2>2, <4>1, <4>2
    <3>. QED
      BY <3>1, <3>2
  <2>. QED
    BY <2>2, <2>4
<1>3. ASSUME s # <<>>
      PROVE  IsSeq(Tail(s)) /\ Elems(Tail(s)) \subseteq Elems(s) /\ Head(s) \in Elems(s)
  <2>. DEFINE t == Tail(s)
  <2>1. /\ t \in Seq(Elems(s)) /\ Len(t) = Len(s) - 1 /\ \A i \in 1 .. Len(t) : t[i] = s[i + 1]
        /\ Len(s) \in Nat /\ Len(s) > 0 /\ Head(s) = s[1]
    BY <1>3
  <2>2. Elems(t) \subseteq Elems(s)
    <3>. HIDE DEF t
    <3>1. \A i \in 1 .. Len(t) : i + 1 \in 1 .. Len(s)
      BY <2>1
    <3>2. \A i \in 1 .. Len(t) : t[i] \in Elems(s)
      BY <2>1, <3>1
    <3>. QED
      BY <3>2
  <2>3. t \in Seq(Elems(t))
    <3>. HIDE DEF t
    <3>1. t \in [1 .. Len(t) -> Elems(t)] /\ Len(t) \in Nat
      BY <2>1
    <3>. QED
      BY <3>1
  <2>. QED
    BY <2>1, <2>2, <2>3
<1>4. ASSUME NEW x PROVE s \o <<x>> = Append(s, x)
  <2>. DEFINE S == Elems(s) \cup {x}
  <2>1. s \in Seq(S) /\ x \in S
    OBVIOUS
  <2>. HIDE DEF S
  <2>. QED
    BY <2>1, AppendIsConcat
<1>5. s \o <<>> = s
  BY ConcatEmptySeq
<1>. QED
  BY <1>1, <1>2, <1>3, <1>4, <1>5

LEMMA Appended ==
  ASSUME NEW s, IsSeq(s), NEW x
  PROVE  IsSeq(Append(s, x)) /\ Elems(Append(s, x)) = Elems(s) \cup {x}
  BY Elements

LEMMA Paired ==
  ASSUME NEW x, NEW y
  PROVE  Append(<<x>>, y) = <<x, y>>
<1>0. ASSUME NEW s \in Seq({x, y}), NEW t \in Seq({x, y}), Len(s) = Len(t),
             \A i \in 1 .. Len(s) : s[i] = t[i]
      PROVE  s = t
  BY <1>0
<1>1. /\ Append(<<x>>, y) \in Seq({x, y}) /\ Len(Append(<<x>>, y)) = 2
      /\ Append(<<x>>, y)[1] = x /\ Append(<<x>>, y)[2] = y
  <2>. DEFINE S == {x, y}
              s == <<x>>
  <2>1. s \in Seq(S) /\ Len(s) = 1 /\ s[1] = x /\ y \in S
    OBVIOUS
  <2>. HIDE DEF s, S
  <2>7. s \in Seq(S) /\ y \in S /\ 1 \in 1 .. Len(s)
    BY <2>1
  <2>2. /\ Append(s, y) \in Seq(S) /\ Len(Append(s, y)) = Len(s) + 1
        /\ Append(s, y)[Len(s) + 1] = y
        /\ \A i \in 1 .. Len(s) : Append(s, y)[i] = s[i]
    BY <2>7, AppendProperties
  <2>3. Append(s, y)[1] = s[1] /\ Append(s, y)[Len(s) + 1] = y
    BY <2>2, <2>7
  <2>6. Len(s) + 1 = 2
    BY <2>1
  <2>4. Len(Append(s, y)) = 2 /\ Append(s, y)[2] = y
    BY <2>2, <2>3, <2>6, Zenon
  <2>5. Append(s, y)[1] = x
    BY <2>1, <2>3
  <2>. QED
    BY <2>2, <2>4, <2>5 DEF s, S
<1>2. <<x, y>> \in Seq({x, y}) /\ Len(<<x, y>>) = 2 /\ <<x, y>>[1] = x /\ <<x, y>>[2] = y
  OBVIOUS
<1>. DEFINE s == Append(<<x>>, y)
            t == <<x, y>>
<1>. HIDE DEF s, t
<1>3. \A i \in 1 .. 2 : s[i] = t[i]
  BY <1>1, <1>2 DEF s, t
<1>4. s \in Seq({x, y}) /\ t \in Seq({x, y}) /\ Len(s) = 2 /\ Len(t) = 2
  BY <1>1, <1>2 DEF s, t
<1>5. s = t
  BY <1>0, <1>3, <1>4
<1>. QED
  BY <1>5 DEF s, t

LEMMA ShortSequences ==
  ASSUME NEW x, NEW y
  PROVE  /\ IsSeq(<<>>) /\ Elems(<<>>) = {}
         /\ IsSeq(<<x>>) /\ Elems(<<x>>) = {x}
         /\ Append(<<>>, x) = <<x>> /\ Append(<<x>>, y) = <<x, y>>
         /\ <<>> \o <<x>> = <<x>> /\ <<>> \o <<>> = <<>>
         /\ Head(<<x>>) = x /\ Tail(<<x>>) = <<>>
         /\ Head(<<x, y>>) = x /\ Tail(<<x, y>>) = <<y>>
         /\ <<x>> # <<>> /\ <<x, y>> # <<>>
<1>1. IsSeq(<<>>) /\ Elems(<<>>) = {} /\ IsSeq(<<x>>) /\ Elems(<<x>>) = {x}
  BY DEF IsSeq, Elems
<1>2. ASSUME NEW s \in Seq({x, y}), NEW t \in Seq({x, y}), Len(s) = Len(t),
             \A i \in 1 .. Len(s) : s[i] = t[i]
      PROVE  s = t
  BY <1>2
<1>3. Append(<<>>, x) = <<x>>
  <2>1. /\ Append(<<>>, x) \in Seq({x, y}) /\ Len(Append(<<>>, x)) = 1
        /\ Append(<<>>, x)[1] = x
    OBVIOUS
  <2>2. <<x>> \in Seq({x, y}) /\ Len(<<x>>) = 1 /\ <<x>>[1] = x
    OBVIOUS
  <2>. QED
    BY <1>2, <2>1, <2>2
<1>4. Append(<<x>>, y) = <<x, y>>
  BY Paired, Zenon
<1>5. <<>> \o <<x>> = <<x>> /\ <<>> \o <<>> = <<>>
  BY <1>1, <1>3, Elements
<1>6. Head(<<x>>) = x /\ Tail(<<x>>) = <<>> /\ Head(<<x, y>>) = x /\ Tail(<<x, y>>) = <<y>>
  OBVIOUS
<1>. QED
  BY <1>1, <1>3, <1>4, <1>5, <1>6

-----------------------------------------------------------------------------
\* What the pieces that actions share do.
LEMMA Blamed ==
  ASSUME Typed, NEW what \in Woes, Blame(what)
  PROVE  /\ trouble' \in [Lights -> SUBSET Woes]
         /\ \A l \in Lights : trouble[l] \subseteq trouble'[l]
         /\ what \in trouble'[job.light]
  BY DEF Typed, Blame

LEMMA LightGot ==
  ASSUME NEW r, IsLight(r), NEW g
  PROVE  [r EXCEPT !.got = g] = [mode |-> r.mode, got |-> g, keys |-> r.keys,
                             app |-> r.app, bound |-> r.bound]
<1>. DEFINE q == [mode |-> r.mode, got |-> r.got, keys |-> r.keys, app |-> r.app, bound |-> r.bound]
<1>1. r = q
  BY DEF IsLight
<1>2. [q EXCEPT !.got = g] = [mode |-> r.mode, got |-> g, keys |-> r.keys,
                             app |-> r.app, bound |-> r.bound]
  OBVIOUS
<1>. HIDE DEF q
<1>. QED
  BY <1>1, <1>2, Zenon

LEMMA LightApp ==
  ASSUME NEW r, IsLight(r), NEW a
  PROVE  [r EXCEPT !.app = a] = [mode |-> r.mode, got |-> r.got, keys |-> r.keys,
                             app |-> a, bound |-> r.bound]
<1>. DEFINE q == [mode |-> r.mode, got |-> r.got, keys |-> r.keys, app |-> r.app, bound |-> r.bound]
<1>1. r = q
  BY DEF IsLight
<1>2. [q EXCEPT !.app = a] = [mode |-> r.mode, got |-> r.got, keys |-> r.keys,
                             app |-> a, bound |-> r.bound]
  OBVIOUS
<1>. HIDE DEF q
<1>. QED
  BY <1>1, <1>2, Zenon

LEMMA LightBound ==
  ASSUME NEW r, IsLight(r), NEW b
  PROVE  [r EXCEPT !.bound = b] = [mode |-> r.mode, got |-> r.got, keys |-> r.keys,
                               app |-> r.app, bound |-> b]
<1>. DEFINE q == [mode |-> r.mode, got |-> r.got, keys |-> r.keys, app |-> r.app, bound |-> r.bound]
<1>1. r = q
  BY DEF IsLight
<1>2. [q EXCEPT !.bound = b] = [mode |-> r.mode, got |-> r.got, keys |-> r.keys,
                               app |-> r.app, bound |-> b]
  OBVIOUS
<1>. HIDE DEF q
<1>. QED
  BY <1>1, <1>2, Zenon

LEMMA LightJoins ==
  ASSUME NEW r, IsLight(r), NEW m, NEW k
  PROVE  [r EXCEPT !.mode = m, !.keys = k] = [mode |-> m, got |-> r.got, keys |-> k,
                                              app |-> r.app, bound |-> r.bound]
<1>. DEFINE q == [mode |-> r.mode, got |-> r.got, keys |-> r.keys, app |-> r.app, bound |-> r.bound]
            p == [q EXCEPT !.mode = m]
<1>1. r = q
  BY DEF IsLight
<1>2. p = [mode |-> m, got |-> r.got, keys |-> r.keys, app |-> r.app, bound |-> r.bound]
  OBVIOUS
<1>3. [q EXCEPT !.mode = m, !.keys = k] = [p EXCEPT !.keys = k]
  BY Zenon
<1>. HIDE DEF p, q
<1>4. [p EXCEPT !.keys = k] = [mode |-> m, got |-> r.got, keys |-> k,
                               app |-> r.app, bound |-> r.bound]
  BY <1>2
<1>5. [r EXCEPT !.mode = m, !.keys = k] = [q EXCEPT !.mode = m, !.keys = k]
  BY <1>1, Zenon
<1>. QED
  BY <1>3, <1>4, <1>5, Zenon

LEMMA LightIs ==
  ASSUME NEW m, NEW g, NEW k, NEW a, NEW b \in BOOLEAN, IsTable(g, Types)
  PROVE  IsLight([mode |-> m, got |-> g, keys |-> k, app |-> a, bound |-> b])
  BY DEF IsLight

\* One light changes.
LEMMA LightBecomes ==
  ASSUME Typed, NEW x, IsLight(x), light' = [light EXCEPT ![job.light] = x]
  PROVE  /\ IsTable(light, Lights)' /\ \A l \in Lights : IsLight(light'[l])
         /\ light'[job.light] = x
         /\ \A l \in Lights : l # job.light => light'[l] = light[l]
<1>1. job.light \in Lights /\ IsTable(light, Lights)
  BY DEF Typed
<1>2. light' = [l \in Lights |-> IF l = job.light THEN x ELSE light[l]]
  BY <1>1 DEF IsTable
<1>3. \A l \in Lights : light'[l] = IF l = job.light THEN x ELSE light[l]
  BY <1>2
<1>4. IsTable(light, Lights)'
  BY <1>2 DEF IsTable
<1>. QED
  BY <1>1, <1>3, <1>4 DEF Typed

LEMMA ForgottenIsTable == IsTable(Forgotten, Types)
  BY DEF Forgotten, IsTable, Types

LEMMA LightForgets ==
  ASSUME Typed, Over
  PROVE  /\ IsTable(light, Lights)' /\ \A l \in Lights : IsLight(light'[l])
         /\ \A l \in Lights : /\ light'[l].mode = light[l].mode
                              /\ light'[l].keys = light[l].keys
                              /\ light'[l].app = light[l].app
                              /\ light'[l].bound = light[l].bound
<1>. DEFINE x == [light[job.light] EXCEPT !.got = Forgotten]
<1>1. light' = [light EXCEPT ![job.light] = x] /\ job.light \in Lights
  BY DEF Over, Typed
<1>2. /\ IsLight(x) /\ x.mode = light[job.light].mode /\ x.keys = light[job.light].keys
      /\ x.app = light[job.light].app /\ x.bound = light[job.light].bound
  <2>1. IsLight(light[job.light])
    BY <1>1 DEF Typed
  <2>2. x = [mode |-> light[job.light].mode, got |-> Forgotten, keys |-> light[job.light].keys,
             app |-> light[job.light].app, bound |-> light[job.light].bound]
    BY <2>1, LightGot
  <2>3. light[job.light].bound \in BOOLEAN
    BY <2>1 DEF IsLight
  <2>. HIDE DEF x
  <2>. QED
    BY <2>2, <2>3, LightIs, ForgottenIsTable
<1>. HIDE DEF x
<1>3. /\ IsTable(light, Lights)' /\ \A l \in Lights : IsLight(light'[l])
      /\ light'[job.light] = x /\ \A l \in Lights : l # job.light => light'[l] = light[l]
  BY <1>1, <1>2, LightBecomes
<1>. QED
  BY <1>2, <1>3

LEMMA AnswerIs ==
  ASSUME NEW type
  PROVE  Answer(type) = <<>> \/ \E p : /\ Answer(type) = <<p>>
                                       /\ p.type = "complete" => type = "complete"
<1>1. CASE type = "invite"
  BY <1>1 DEF Answer, Wrap
<1>2. CASE type = "public_key"
  BY <1>2 DEF Answer, Wrap
<1>3. CASE type = "confirmation"
  BY <1>3 DEF Answer, Wrap
<1>4. CASE type = "random"
  BY <1>4 DEF Answer, Wrap
<1>5. CASE type = "complete"
  BY <1>5 DEF Answer, Wrap
<1>6. CASE type = "failed"
  BY <1>6 DEF Answer, Wrap
<1>7. CASE type \notin {"invite", "public_key", "confirmation", "random", "complete", "failed"}
  BY <1>7 DEF Answer
<1>. QED
  BY <1>1, <1>2, <1>3, <1>4, <1>5, <1>6, <1>7

LEMMA Notified ==
  ASSUME Typed, NEW type, Notify(type)
  PROVE  /\ IsSeq(rx)'
         /\ \A p \in Elems(rx') : p \in Elems(rx) \/ (p.type = "complete" => type = "complete")
         /\ trouble' \in [Lights -> SUBSET Woes]
         /\ \A l \in Lights : trouble[l] \subseteq trouble'[l]
<1>1. CASE rx' = rx \o Answer(type) /\ UNCHANGED trouble
  <2>. DEFINE a == Answer(type)
              t == rx \o a
  <2>1. IsSeq(t) /\ \A p \in Elems(t) : p \in Elems(rx) \/ (p.type = "complete" => type = "complete")
    <3>. HIDE DEF a
    <3>1. IsSeq(rx)
      BY DEF Typed
    <3>2. CASE a = <<>>
      <4>1. t = rx
        BY <3>1, <3>2, Elements
      <4>. QED
        BY <3>1, <4>1
    <3>3. ASSUME NEW p, a = <<p>>, p.type = "complete" => type = "complete"
          PROVE  IsSeq(t) /\ \A q \in Elems(t) : q \in Elems(rx) \/ (q.type = "complete" => type = "complete")
      <4>1. t = Append(rx, p)
        BY <3>1, <3>3, Elements
      <4>2. IsSeq(t) /\ Elems(t) = Elems(rx) \cup {p}
        BY <3>1, <4>1, Appended
      <4>. QED
        BY <3>3, <4>2
    <3>. QED
      BY <3>2, <3>3, AnswerIs DEF a
  <2>2. IsSeq(rx)' /\ \A p \in Elems(rx') : p \in Elems(rx) \/ (p.type = "complete" => type = "complete")
    <3>. HIDE DEF t
    <3>1. rx' = t
      BY <1>1 DEF t
    <3>. QED
      BY <2>1, <3>1 DEF IsSeq, Elems
  <2>. QED
    BY <1>1, <2>2 DEF Typed
<1>2. CASE UNCHANGED rx /\ Blame("other")
  BY <1>2, Blamed DEF Typed, IsSeq, Elems, Woes
<1>. QED
  BY <1>1, <1>2 DEF Notify

LEMMA StateIs ==
  ASSUME NEW n, NEW a, NEW d, NEW k, NEW e
  PROVE  IsState([net |-> n, app |-> a, address |-> d, device |-> k, elements |-> e])
  BY DEF IsState

LEMMA AdoptedIs ==
  ASSUME NEW s, IsState(s)
  PROVE  /\ IsState(Adopted(s)) /\ Adopted(s).net = s.net /\ Adopted(s).app = App
         /\ Adopted(s).address = s.address /\ Adopted(s).device = s.device
<1>. DEFINE e == IF job.path = "setup" THEN DefaultElements ELSE s.elements
            q == [net |-> s.net, app |-> s.app, address |-> s.address,
                  device |-> s.device, elements |-> s.elements]
            p == [q EXCEPT !.app = App]
<1>1. s = q
  BY DEF IsState
<1>2. p = [net |-> s.net, app |-> App, address |-> s.address,
           device |-> s.device, elements |-> s.elements]
  OBVIOUS
<1>3. Adopted(s) = [s EXCEPT !.app = App, !.elements = e]
  BY DEF Adopted
<1>. HIDE DEF e, q
<1>4. [s EXCEPT !.app = App, !.elements = e] = [q EXCEPT !.app = App, !.elements = e]
  BY <1>1, Zenon
<1>5. [q EXCEPT !.app = App, !.elements = e] = [p EXCEPT !.elements = e]
  OBVIOUS
<1>. HIDE DEF p
<1>6. [p EXCEPT !.elements = e] = [net |-> s.net, app |-> App, address |-> s.address,
                                   device |-> s.device, elements |-> e]
  BY <1>2
<1>7. Adopted(s) = [net |-> s.net, app |-> App, address |-> s.address,
                    device |-> s.device, elements |-> e]
  BY <1>3, <1>4, <1>5, <1>6
<1>. QED
  BY <1>7, StateIs

\* What the light makes of what it hears.
LEMMA HearingPdu ==
  ASSUME Typed, LightHearsPdu
  PROVE  /\ IsTable(light, Lights)' /\ \A l \in Lights : IsLight(light'[l])
         /\ \A l \in Lights : light'[l].app = light[l].app /\ light'[l].bound = light[l].bound
         /\ \A l \in Lights : l # job.light => light'[l] = light[l]
         /\ \/ ~Agrees(Head(air)) /\ UNCHANGED light /\ Notify("failed")
            \/ /\ Head(air).type = "data" /\ Agrees(Head(air)) /\ Notify("complete")
               /\ light'[job.light].mode = "node"
               /\ light'[job.light].keys =
                    {[net |-> Head(air).payload.value.plain.net,
                      address |-> Head(air).payload.value.plain.address,
                      device |-> k1(LightSecret, LightSessionSalt, "prdk")]}
            \/ /\ Head(air).type # "data" /\ Agrees(Head(air)) /\ Notify(Head(air).type)
               /\ light'[job.light].mode = light[job.light].mode
               /\ light'[job.light].keys = light[job.light].keys
               /\ Head(air).type \in Types =>
                    light'[job.light].got[Head(air).type] = Head(air).payload
               /\ \A t \in Types : t # Head(air).type =>
                    light'[job.light].got[t] = light[job.light].got[t]
<1>. DEFINE pdu == Head(air)
<1>0. job.light \in Lights /\ IsLight(light[job.light]) /\ IsTable(light, Lights)
  BY DEF Typed
<1>1. CASE ~Agrees(pdu)
  <2>1. UNCHANGED light /\ Notify("failed")
    BY <1>1 DEF LightHearsPdu
  <2>. QED
    BY <1>1, <2>1 DEF Typed, IsTable
<1>2. CASE Agrees(pdu) /\ pdu.type = "data"
  <2>. DEFINE keys == {[net |-> pdu.payload.value.plain.net,
                        address |-> pdu.payload.value.plain.address,
                        device |-> k1(LightSecret, LightSessionSalt, "prdk")]}
              x == [light[job.light] EXCEPT !.mode = "node", !.keys = keys]
  <2>1. Notify("complete") /\ light' = [light EXCEPT ![job.light] = x]
    BY <1>2 DEF LightHearsPdu
  <2>. HIDE DEF keys, pdu
  <2>2. x = [mode |-> "node", got |-> light[job.light].got, keys |-> keys,
             app |-> light[job.light].app, bound |-> light[job.light].bound]
    <3>. DEFINE r == light[job.light]
    <3>. HIDE DEF r
    <3>1. [r EXCEPT !.mode = "node", !.keys = keys] =
            [mode |-> "node", got |-> r.got, keys |-> keys, app |-> r.app, bound |-> r.bound]
      <4>1. IsLight(r)
        BY <1>0 DEF r
      <4>. QED
        BY <4>1, LightJoins, Zenon
    <3>. QED
      BY <3>1, Zenon DEF r
  <2>3. IsLight(x) /\ x.mode = "node" /\ x.keys = keys
          /\ x.app = light[job.light].app /\ x.bound = light[job.light].bound
    <3>1. IsTable(light[job.light].got, Types) /\ light[job.light].bound \in BOOLEAN
      BY <1>0 DEF IsLight
    <3>. HIDE DEF x
    <3>. QED
      BY <2>2, <3>1, LightIs
  <2>. HIDE DEF x
  <2>4. /\ IsTable(light, Lights)' /\ \A l \in Lights : IsLight(light'[l])
        /\ light'[job.light] = x
        /\ \A l \in Lights : l # job.light => light'[l] = light[l]
    BY <2>1, <2>3, LightBecomes
  <2>5. \A l \in Lights : light'[l].app = light[l].app /\ light'[l].bound = light[l].bound
    BY <2>3, <2>4
  <2>. QED
    BY <1>2, <2>1, <2>3, <2>4, <2>5 DEF pdu, keys
<1>3. CASE Agrees(pdu) /\ pdu.type # "data"
  <2>. DEFINE r == light[job.light]
              g == [r.got EXCEPT ![pdu.type] = pdu.payload]
              x == [r EXCEPT !.got = g]
  <2>1. Notify(pdu.type) /\ light' = [light EXCEPT ![job.light] = x]
    BY <1>3 DEF LightHearsPdu
  <2>2. /\ IsTable(g, Types)
        /\ pdu.type \in Types => g[pdu.type] = pdu.payload
        /\ \A t \in Types : t # pdu.type => g[t] = r.got[t]
    <3>1. r.got = [t \in Types |-> r.got[t]]
      BY <1>0 DEF IsLight, IsTable
    <3>2. g = [t \in Types |-> IF t = pdu.type THEN pdu.payload ELSE r.got[t]]
      BY <3>1
    <3>. QED
      BY <3>2 DEF IsTable
  <2>. HIDE DEF g
  <2>3. /\ IsLight(x) /\ x.mode = r.mode /\ x.keys = r.keys /\ x.app = r.app
        /\ x.bound = r.bound /\ x.got = g
    <3>0. IsLight(r)
      BY <1>0
    <3>. HIDE DEF r
    <3>1. x = [mode |-> r.mode, got |-> g, keys |-> r.keys, app |-> r.app, bound |-> r.bound]
      BY <3>0, LightGot
    <3>2. r.bound \in BOOLEAN
      BY <3>0 DEF IsLight
    <3>. HIDE DEF x
    <3>. QED
      BY <2>2, <3>1, <3>2, LightIs
  <2>. HIDE DEF x, r
  <2>4. /\ IsTable(light, Lights)' /\ \A l \in Lights : IsLight(light'[l])
        /\ light'[job.light] = x
        /\ \A l \in Lights : l # job.light => light'[l] = light[l]
    BY <2>1, <2>3, LightBecomes
  <2>5. \A l \in Lights : light'[l].app = light[l].app /\ light'[l].bound = light[l].bound
    BY <2>3, <2>4 DEF r
  <2>. QED
    BY <1>3, <2>1, <2>2, <2>3, <2>4, <2>5 DEF r
<1>. QED
  BY <1>1, <1>2, <1>3

LEMMA HearingConfig ==
  ASSUME Typed, LightHearsConfig
  PROVE  /\ IsTable(light, Lights)' /\ \A l \in Lights : IsLight(light'[l])
         /\ \A l \in Lights : light'[l].mode = light[l].mode /\ light'[l].keys = light[l].keys
         /\ \A l \in Lights : l # job.light => light'[l] = light[l]
         /\ LET m == Head(air)
                mine == \E k \in Me.keys : k.device = m.device /\ k.address = m.address
            IN  \/ ~mine /\ light'[job.light] = light[job.light]
                \/ /\ mine /\ m.message.op = "app_key_add"
                   /\ light'[job.light].app = {m.message.app}
                   /\ light'[job.light].bound = light[job.light].bound
                \/ /\ mine /\ m.message.op # "app_key_add"
                   /\ light'[job.light].app = light[job.light].app
                   /\ light'[job.light].bound = (light[job.light].app # {})
<1>. DEFINE r == light[job.light]
            m == Head(air)
            mine == \E k \in Me.keys : k.device = m.device /\ k.address = m.address
            added == [r EXCEPT !.app = {m.message.app}]
            bind == [r EXCEPT !.bound = (r.app # {})]
            x == IF ~mine THEN r ELSE IF m.message.op = "app_key_add" THEN added ELSE bind
<1>0. job.light \in Lights /\ IsLight(r) /\ IsTable(light, Lights)
  BY DEF Typed
<1>1. light' = [light EXCEPT ![job.light] = x]
  BY DEF LightHearsConfig, Me
<1>2. /\ added = [mode |-> r.mode, got |-> r.got, keys |-> r.keys,
                  app |-> {m.message.app}, bound |-> r.bound]
      /\ bind = [mode |-> r.mode, got |-> r.got, keys |-> r.keys,
                 app |-> r.app, bound |-> (r.app # {})]
  <2>. HIDE DEF r, m
  <2>. QED
    BY <1>0, LightApp, LightBound, Zenon
<1>3. IsTable(r.got, Types) /\ r.bound \in BOOLEAN /\ (r.app # {}) \in BOOLEAN
  BY <1>0 DEF IsLight
<1>. HIDE DEF r
<1>4. /\ IsLight(added) /\ added.mode = r.mode /\ added.keys = r.keys
      /\ added.app = {m.message.app} /\ added.bound = r.bound
  <2>. HIDE DEF added
  <2>. QED
    BY <1>2, <1>3, LightIs
<1>5. /\ IsLight(bind) /\ bind.mode = r.mode /\ bind.keys = r.keys
      /\ bind.app = r.app /\ bind.bound = (r.app # {})
  <2>. HIDE DEF bind
  <2>. QED
    BY <1>2, <1>3, LightIs
<1>. HIDE DEF added, bind
<1>6. IsLight(x) /\ x.mode = r.mode /\ x.keys = r.keys
        /\ \/ ~mine /\ x = r
           \/ mine /\ m.message.op = "app_key_add" /\ x = added
           \/ mine /\ m.message.op # "app_key_add" /\ x = bind
  <2>0. IsLight(r)
    BY <1>0 DEF r
  <2>1. CASE ~mine
    <3>1. x = r
      BY <2>1
    <3>. QED
      BY <2>0, <2>1, <3>1
  <2>2. CASE mine /\ m.message.op = "app_key_add"
    <3>1. x = added
      BY <2>2
    <3>. QED
      BY <1>4, <2>2, <3>1
  <2>3. CASE mine /\ m.message.op # "app_key_add"
    <3>1. x = bind
      BY <2>3
    <3>. QED
      BY <1>5, <2>3, <3>1
  <2>. QED
    BY <2>1, <2>2, <2>3
<1>. HIDE DEF x
<1>7. /\ IsTable(light, Lights)' /\ \A l \in Lights : IsLight(light'[l])
      /\ light'[job.light] = x
      /\ \A l \in Lights : l # job.light => light'[l] = light[l]
  BY <1>1, <1>6, LightBecomes
<1>8. \A l \in Lights : light'[l].mode = light[l].mode /\ light'[l].keys = light[l].keys
  BY <1>6, <1>7 DEF r
<1>. QED
  BY <1>4, <1>5, <1>6, <1>7, <1>8 DEF r, m, mine

\* The ways an attempt can end, and what each says went wrong.
EndingStep == \/ OpenFails \/ SubscribeFails \/ CloseRaises \/ Failed \/ BindRaises
              \/ Listed \/ Abandon

LEMMA AttemptIsOver ==
  ASSUME EndingStep
  PROVE  Over /\ (Listed \/ records' = records)
<1>1. Over
  BY DEF EndingStep, OpenFails, SubscribeFails, CloseRaises, Failed, BindRaises, Listed, Abandon,
         DisconnectRaises, Ends
<1>2. Listed \/ records' = records
  BY DEF EndingStep, OpenFails, SubscribeFails, CloseRaises, Failed, BindRaises, Abandon
<1>. QED
  BY <1>1, <1>2

LEMMA EndBlames ==
  ASSUME EndingStep
  PROVE  \/ trouble' = trouble /\ (Failed \/ Listed)
         \/ Blame("other") \/ Blame("subscribe") \/ Blame("close")
BY DEF EndingStep, OpenFails, SubscribeFails, CloseRaises, Failed, BindRaises, Listed, Abandon,
       DisconnectRaises

LEMMA OverKeepsTyped ==
  ASSUME Typed, Over, trouble' \in [Lights -> SUBSET Woes],
         \A r \in records' : r.light \in Lights
  PROVE  Typed'
<1>1. /\ at' \in Stages /\ step' \in 0 .. 11 /\ job' \in [light : Lights, path : Paths, try : Nat]
      /\ \A s \in state' : IsState(s)
  BY DEF Typed, Over, Stages
<1>2. IsTable(got, Types)'
  BY ForgottenIsTable DEF Over, IsTable
<1>3. IsSeq(air)' /\ IsSeq(rx)'
  BY ShortSequences DEF Over, IsSeq, Elems
<1>4. IsTable(light, Lights)' /\ \A l \in Lights : IsLight(light'[l])
  BY LightForgets
<1>. QED
  BY <1>1, <1>2, <1>3, <1>4 DEF Typed, IsLight, IsState

\* The attempt's own steps that leave the lights alone; whatever they did to the wire
\* and to the state has its parts checked one by one.
LEMMA StepKeepsTyped ==
  ASSUME ProvisioningAssumption, Typed, [Next]_vars
  PROVE  Typed'
<1>0. /\ job.light \in Lights /\ job.try \in Nat /\ IsSeq(air) /\ IsSeq(rx) /\ IsTable(got, Types)
      /\ at \in Stages /\ step \in 0 .. 11 /\ trouble \in [Lights -> SUBSET Woes]
  BY DEF Typed
<1>w. {"subscribe", "close", "unheard", "drop", "other"} = Woes
  BY DEF Woes
<1>e. IsSeq(<<>>)
  BY ShortSequences
<1>. USE DEF Stages
<1>1. ASSUME NEW l \in Lights, NEW path \in Paths, Begin(l, path) PROVE Typed'
  <2>1. IsTable(got', Types)
    BY <1>1, ForgottenIsTable DEF Begin
  <2>2. job' \in [light : Lights, path : Paths, try : Nat]
    BY <1>0, <1>1 DEF Begin
  <2>. QED
    BY <1>1, <2>1, <2>2 DEF Begin, wire, kept, Typed, IsTable, IsLight, IsSeq, Elems, IsState
<1>2. CASE Opened \/ BindOpened
  <2>1. IsSeq(air') /\ IsSeq(rx')
    BY <1>2, <1>e DEF Opened, BindOpened
  <2>. QED
    <3>1. at' \in Stages /\ UNCHANGED <<step, job, got, state, light, records, trouble>>
      BY <1>2 DEF Opened, BindOpened, kept
    <3>. QED
      BY <2>1, <3>1 DEF Typed, IsTable, IsLight, IsSeq, Elems, IsState
<1>3. CASE EndingStep
  <2>1. trouble' \in [Lights -> SUBSET Woes]
    BY <1>0, <1>3, <1>w, Blamed, EndBlames
  <2>2. \A r \in records' : r.light \in Lights
    <3>1. CASE Listed
      BY <1>0, <3>1 DEF Listed, Typed
    <3>2. CASE records' = records
      BY <3>2 DEF Typed
    <3>. QED
      BY <1>3, <3>1, <3>2, AttemptIsOver
  <2>. QED
    BY <1>3, <2>1, <2>2, OverKeepsTyped, AttemptIsOver
<1>6. CASE Subscribed \/ BindSubscribed \/ ReceiveRaises
  <2>1. at' \in Stages /\ UNCHANGED <<step, job, got, state, air, rx, light, records, trouble>>
    BY <1>6 DEF Subscribed, BindSubscribed, ReceiveRaises, wire, kept
  <2>. QED
    BY <2>1 DEF Typed, IsTable, IsLight, IsSeq, Elems, IsState
<1>7. CASE ReceiveTimesOut \/ SendRaises \/ Drop
  <2>1. trouble' \in [Lights -> SUBSET Woes]
    BY <1>7, <1>w, Blamed DEF ReceiveTimesOut, SendRaises, Drop
  <2>. QED
    <3>1. at' \in Stages /\ UNCHANGED <<step, job, got, state, air, rx, light, records>>
      BY <1>0, <1>7 DEF ReceiveTimesOut, SendRaises, Drop, wire, kept
    <3>. QED
      BY <2>1, <3>1 DEF Typed, IsTable, IsLight, IsSeq, Elems, IsState
<1>8. CASE SendPdu
  <2>1. IsSeq(air')
    BY <1>0, <1>8, Appended DEF SendPdu
  <2>2. trouble' \in [Lights -> SUBSET Woes]
    BY <1>0, <1>8, <1>w, Blamed DEF SendPdu
  <2>3. step' \in 0 .. 11
    BY <1>0, <1>8 DEF SendPdu, Exchanging, Script
  <2>. QED
    BY <1>8, <2>1, <2>2, <2>3 DEF SendPdu, kept, Typed, IsTable, IsLight, IsSeq, Elems, IsState
<1>9. CASE Receive
  <2>1. IsSeq(rx')
    BY <1>0, <1>9, Elements DEF Receive
  <2>2. step' \in 0 .. 11
    BY <1>0, <1>9 DEF Receive, Exchanging, Script
  <2>3. IsTable(got', Types)
    <3>. DEFINE type == Now.type
                payload == Head(rx).payload
    <3>1. got' = [got EXCEPT ![type] = payload]
      BY <1>9 DEF Receive
    <3>. HIDE DEF type, payload
    <3>2. got' = [t \in Types |-> IF t = type THEN payload ELSE got[t]]
      BY <1>0, <3>1 DEF IsTable
    <3>. QED
      BY <3>2 DEF IsTable
  <2>4. at' = at /\ UNCHANGED <<job, state, air, light, records, trouble>>
    BY <1>9 DEF Receive, kept
  <2>. QED
    BY <2>1, <2>2, <2>3, <2>4 DEF Typed, IsTable, IsLight, IsSeq, Elems, IsState
<1>10. CASE Provisioned
  <2>1. \A s \in state' : IsState(s)
    BY <1>10, StateIs DEF Provisioned
  <2>. QED
    <3>1. at' \in Stages /\ UNCHANGED <<step, job, got, air, rx, light, records, trouble>>
      BY <1>10 DEF Provisioned, wire, kept
    <3>. QED
      BY <2>1, <3>1 DEF Typed, IsTable, IsLight, IsSeq, Elems, IsState
<1>11. CASE Closed
  <2>1. \A s \in state' : IsState(s)
    <3>1. \A s \in state : IsState(Adopted(s))
      BY AdoptedIs DEF Typed
    <3>2. state' = {Adopted(s) : s \in state}
      BY <1>11 DEF Closed
    <3>. QED
      BY <3>1, <3>2
  <2>2. IsSeq(air') /\ IsSeq(rx')
    BY <1>11, <1>e DEF Closed
  <2>. QED
    BY <1>11, <2>1, <2>2 DEF Closed, kept, Typed, IsTable, IsLight, IsSeq, Elems, IsState
<1>12. CASE SendConfig
  <2>1. IsSeq(air')
    BY <1>0, <1>12, Appended DEF SendConfig
  <2>2. trouble' \in [Lights -> SUBSET Woes]
    BY <1>0, <1>12, <1>w, Blamed DEF SendConfig
  <2>3. at' \in Stages /\ UNCHANGED <<step, job, got, state, rx, light, records>>
    BY <1>12 DEF SendConfig, kept
  <2>. QED
    BY <2>1, <2>2, <2>3 DEF Typed, IsTable, IsLight, IsSeq, Elems, IsState
<1>13. CASE BindClosed
  <2>1. trouble' \in [Lights -> SUBSET Woes]
    <3>1. trouble' = [trouble EXCEPT ![job.light] = trouble[job.light] \cup {x \in {"unheard"} : air # <<>>}]
      BY <1>13 DEF BindClosed
    <3>2. trouble[job.light] \cup {x \in {"unheard"} : air # <<>>} \in SUBSET Woes
      BY <1>0 DEF Woes
    <3>. QED
      BY <1>0, <3>1, <3>2
  <2>2. IsSeq(air')
    BY <1>13, <1>e DEF BindClosed
  <2>. QED
    BY <1>13, <2>1, <2>2 DEF BindClosed, kept, Typed, IsTable, IsLight, IsSeq, Elems, IsState
<1>14. CASE LightHearsPdu
  <2>1. IsTable(light, Lights)' /\ \A l \in Lights : IsLight(light'[l])
    BY <1>14, HearingPdu
  <2>2. \E type : Notify(type)
    BY <1>14, HearingPdu
  <2>3. IsSeq(rx)' /\ trouble' \in [Lights -> SUBSET Woes]
    BY <2>2, Notified
  <2>4. IsSeq(air')
    BY <1>0, <1>14, Elements DEF LightHearsPdu
  <2>5. UNCHANGED <<at, step, job, got, state, records>>
    BY <1>14 DEF LightHearsPdu, kept
  <2>. QED
    BY <2>1, <2>3, <2>4, <2>5 DEF Typed, IsTable, IsLight, IsSeq, Elems, IsState
<1>15. CASE LightMisbehaves
  <2>1. IsSeq(rx')
    BY <1>15, ShortSequences DEF LightMisbehaves
  <2>2. trouble' \in [Lights -> SUBSET Woes]
    BY <1>15, <1>w, Blamed DEF LightMisbehaves
  <2>. QED
    BY <1>15, <2>1, <2>2 DEF LightMisbehaves, kept, Typed, IsTable, IsLight, IsSeq, Elems, IsState
<1>16. CASE LightHearsConfig
  <2>1. IsTable(light, Lights)' /\ \A l \in Lights : IsLight(light'[l])
    BY <1>16, HearingConfig
  <2>2. IsSeq(air')
    BY <1>0, <1>16, Elements DEF LightHearsConfig
  <2>3. UNCHANGED <<at, step, job, got, state, rx, records, trouble>>
    BY <1>16 DEF LightHearsConfig, kept
  <2>. QED
    BY <2>1, <2>2, <2>3 DEF Typed, IsTable, IsLight, IsSeq, Elems, IsState
<1>17. ASSUME NEW l \in Lights, Reset(l) PROVE Typed'
  <2>1. light' = [light EXCEPT ![l] = Factory]
    BY <1>17 DEF Reset
  <2>2. IsLight(Factory)
    BY LightIs, ForgottenIsTable DEF Factory, Forgotten
  <2>3. IsTable(light, Lights)' /\ \A m \in Lights : IsLight(light'[m])
    BY <2>1, <2>2 DEF Typed, IsTable
  <2>. QED
    <3>1. UNCHANGED <<at, step, job, got, state, air, rx, records, trouble>>
      BY <1>17 DEF Reset, wire
    <3>. QED
      BY <2>3, <3>1 DEF Typed, IsTable, IsLight, IsSeq, Elems, IsState
<1>18. CASE UNCHANGED vars
  BY <1>18 DEF vars, Typed, IsTable, IsLight, IsSeq, Elems, IsState
<1>. QED
  BY <1>1, <1>2, <1>3, <1>6, <1>7, <1>8, <1>9, <1>10, <1>11, <1>12, <1>13,
     <1>14, <1>15, <1>16, <1>17, <1>18 DEF Next, Attempt, EndingStep

-----------------------------------------------------------------------------
\* What no step does.
LEMMA TroubleStays ==
  ASSUME Typed, [Next]_vars
  PROVE  \A l \in Lights : trouble[l] \subseteq trouble'[l]
<1>w. {"subscribe", "close", "unheard", "drop", "other"} = Woes
  BY DEF Woes
<1>1. CASE UNCHANGED trouble
  BY <1>1
<1>2. CASE \E what \in Woes : Blame(what)
  BY <1>2, Blamed
<1>3. CASE BindClosed
  BY <1>3 DEF BindClosed, Typed
<1>4. CASE LightHearsPdu
  <2>1. \E type : Notify(type)
    BY <1>4, HearingPdu
  <2>. QED
    BY <2>1, Notified
<1>5. CASE Attempt
  <2>1. CASE Opened \/ Subscribed \/ Receive \/ ReceiveRaises \/ Provisioned \/ Closed
             \/ BindOpened \/ BindSubscribed
    BY <1>1, <2>1 DEF Opened, Subscribed, Receive, ReceiveRaises, Provisioned, Closed,
                      BindOpened, BindSubscribed
  <2>2. CASE EndingStep
    BY <1>1, <1>2, <1>w, <2>2, EndBlames
  <2>3. CASE SendPdu \/ SendConfig \/ ReceiveTimesOut \/ SendRaises
    BY <1>1, <1>2, <1>w, <2>3 DEF SendPdu, SendConfig, ReceiveTimesOut, SendRaises
  <2>. QED
    BY <1>3, <1>5, <2>1, <2>2, <2>3 DEF Attempt, EndingStep
<1>6. CASE \/ \E l \in Lights, path \in Paths : Begin(l, path)
           \/ Listed \/ LightHearsConfig \/ \E l \in Lights : Reset(l)
           \/ UNCHANGED vars
  BY <1>1, <1>6 DEF Begin, Listed, LightHearsConfig, Reset, vars
<1>7. CASE Abandon \/ LightMisbehaves \/ Drop
  BY <1>2, <1>w, <1>7 DEF Abandon, LightMisbehaves, Drop
<1>. QED
  BY <1>4, <1>5, <1>6, <1>7 DEF Next

\* A light's keys are its own affair until it is reset, and its configuration until
\* it hears a configuration message.
LEMMA LightsStay ==
  ASSUME Typed, [Next]_vars, NEW l \in Lights
  PROVE  \/ /\ light'[l].mode = light[l].mode /\ light'[l].keys = light[l].keys
            /\ light'[l].app = light[l].app /\ light'[l].bound = light[l].bound
         \/ /\ LightHearsPdu /\ l = job.light
            /\ light'[l].app = light[l].app /\ light'[l].bound = light[l].bound
         \/ /\ LightHearsConfig /\ l = job.light
            /\ light'[l].mode = light[l].mode /\ light'[l].keys = light[l].keys
         \/ /\ Reset(l) /\ light'[l].mode = "factory" 
<1>1. CASE UNCHANGED light
  BY <1>1
<1>2. CASE Over
  BY <1>2, LightForgets
<1>3. CASE LightHearsPdu
  <2>1. l # job.light => light'[l] = light[l]
    BY <1>3, HearingPdu
  <2>2. light'[l].app = light[l].app /\ light'[l].bound = light[l].bound
    BY <1>3, HearingPdu
  <2>. QED
    BY <1>3, <2>1, <2>2
<1>4. CASE LightHearsConfig
  <2>1. l # job.light => light'[l] = light[l]
    BY <1>4, HearingConfig
  <2>2. light'[l].mode = light[l].mode /\ light'[l].keys = light[l].keys
    BY <1>4, HearingConfig
  <2>. QED
    BY <1>4, <2>1, <2>2
<1>5. ASSUME NEW m \in Lights, Reset(m)
      PROVE  light'[l] = light[l] \/ (Reset(l) /\ light'[l].mode = "factory")
  <2>1. light' = [light EXCEPT ![m] = Factory] /\ Factory.mode = "factory"
    BY <1>5 DEF Reset, Factory
  <2>2. light = [k \in Lights |-> light[k]]
    BY DEF Typed, IsTable
  <2>. HIDE DEF Factory
  <2>3. light'[l] = IF l = m THEN Factory ELSE light[l]
    BY <2>1, <2>2
  <2>. QED
    BY <1>5, <2>1, <2>3
<1>6. CASE Attempt
  <2>1. CASE Opened \/ Subscribed \/ Receive \/ ReceiveRaises \/ Provisioned \/ Closed
             \/ BindOpened \/ BindSubscribed \/ ReceiveTimesOut \/ SendRaises
    BY <1>1, <2>1 DEF Opened, Subscribed, Receive, ReceiveRaises, Provisioned, Closed,
                      BindOpened, BindSubscribed, ReceiveTimesOut, SendRaises
  <2>2. CASE OpenFails \/ SubscribeFails \/ CloseRaises \/ BindRaises \/ Failed
    BY <1>2, <2>2, AttemptIsOver DEF EndingStep
  <2>3. CASE SendPdu \/ SendConfig \/ BindClosed
    BY <1>1, <2>3 DEF SendPdu, SendConfig, BindClosed
  <2>. QED
    BY <1>6, <2>1, <2>2, <2>3 DEF Attempt
<1>7. CASE \/ \E k \in Lights, path \in Paths : Begin(k, path)
           \/ LightMisbehaves \/ Drop \/ UNCHANGED vars
  BY <1>1, <1>7 DEF Begin, LightMisbehaves, Drop, vars
<1>8. CASE Listed \/ Abandon
  BY <1>2, <1>8, AttemptIsOver DEF EndingStep
<1>. QED
  BY <1>3, <1>4, <1>5, <1>6, <1>7, <1>8 DEF Next

\* Where the attempt is: one goes on for as long as it is not idle, and its end leaves a
\* light in a list or in trouble.
LEMMA AttemptGoesOn ==
  ASSUME [Next]_vars
  PROVE  /\ at # "idle" => job' = job
         /\ records' = records \/ Listed
         /\ at' # "idle" => records' = records
         /\ at # "idle" /\ at' = "idle" => Over
<1>1. CASE Attempt
  <2>1. CASE Opened \/ Subscribed \/ Receive \/ ReceiveRaises \/ Provisioned \/ Closed
             \/ BindOpened \/ BindSubscribed \/ ReceiveTimesOut \/ SendRaises
    BY <2>1 DEF Opened, Subscribed, Receive, ReceiveRaises, Provisioned, Closed, Exchanging,
                BindOpened, BindSubscribed, ReceiveTimesOut, SendRaises, kept
  <2>2. CASE OpenFails \/ SubscribeFails \/ CloseRaises \/ BindRaises \/ Failed
    <3>1. Over /\ (Listed \/ records' = records)
      BY <2>2, AttemptIsOver DEF EndingStep
    <3>. QED
      BY <3>1 DEF Over
  <2>3. CASE SendPdu \/ SendConfig \/ BindClosed
    BY <2>3 DEF SendPdu, SendConfig, BindClosed, Exchanging, kept
  <2>. QED
    BY <1>1, <2>1, <2>2, <2>3 DEF Attempt
<1>2. CASE Listed \/ Abandon
  <2>1. Over /\ (Listed \/ records' = records)
    BY <1>2, AttemptIsOver DEF EndingStep
  <2>. QED
    BY <2>1 DEF Over
<1>3. CASE \/ \E l \in Lights, path \in Paths : Begin(l, path)
           \/ \E l \in Lights : Reset(l)
           \/ LightMisbehaves \/ Drop \/ UNCHANGED vars
  BY <1>3 DEF Begin, LightMisbehaves, Drop, Reset, kept, vars, Exchanging
<1>4. CASE LightHearsPdu \/ LightHearsConfig
  <2>1. at # "idle" /\ at' = at /\ job' = job /\ records' = records
    BY <1>4 DEF LightHearsPdu, LightHearsConfig, kept
  <2>. QED
    BY <2>1
<1>. QED
  BY <1>1, <1>2, <1>3, <1>4 DEF Next

\* Ends other than a list entry and a failure are ends in trouble.
LEMMA EndsInTrouble ==
  ASSUME Typed, [Next]_vars, at # "idle", at' = "idle"
  PROVE  \/ trouble'[job.light] # {}
         \/ at = "failing" /\ trouble' = trouble
         \/ at = "form" /\ Listed
<1>1. CASE Listed
  BY <1>1 DEF Listed
<1>2. CASE Failed /\ trouble' = trouble
  BY <1>2 DEF Failed
<1>3. CASE Blame("other") \/ Blame("subscribe") \/ Blame("close")
  BY <1>3, Blamed DEF Woes
<1>4. CASE Attempt
  <2>1. CASE Opened \/ Subscribed \/ Receive \/ ReceiveRaises \/ Provisioned \/ Closed
             \/ BindOpened \/ BindSubscribed \/ ReceiveTimesOut \/ SendRaises
    BY <2>1 DEF Opened, Subscribed, Receive, ReceiveRaises, Provisioned, Closed, Exchanging,
                BindOpened, BindSubscribed, ReceiveTimesOut, SendRaises
  <2>2. CASE OpenFails \/ SubscribeFails \/ CloseRaises \/ BindRaises \/ Failed
    BY <1>1, <1>2, <1>3, <2>2, EndBlames DEF EndingStep
  <2>3. CASE SendPdu \/ SendConfig \/ BindClosed
    BY <2>3 DEF SendPdu, SendConfig, BindClosed, Exchanging
  <2>. QED
    BY <1>4, <2>1, <2>2, <2>3 DEF Attempt
<1>5. CASE \/ \E l \in Lights, path \in Paths : Begin(l, path)
           \/ \E l \in Lights : Reset(l)
           \/ LightHearsPdu \/ LightHearsConfig \/ UNCHANGED vars
  BY <1>5 DEF Begin, Reset, LightHearsPdu, LightHearsConfig, vars
<1>6. CASE Abandon \/ LightMisbehaves \/ Drop
  BY <1>3, <1>6 DEF Abandon, LightMisbehaves, Drop
<1>. QED
  BY <1>1, <1>4, <1>5, <1>6 DEF Next

LEMMA StrandedStep ==
  ASSUME Typed, Held, QuietAttemptSucceeds, StrandedHadTrouble, [Next]_vars
  PROVE  StrandedHadTrouble'
<1>1. SUFFICES ASSUME NEW l \in Lights, light'[l].mode = "node", trouble'[l] = {}
               PROVE  HasRecord(l)' \/ InHand(l)'
  BY DEF StrandedHadTrouble
<1>2. trouble[l] = {}
  BY <1>1, TroubleStays
<1>3. CASE LightHearsPdu /\ l = job.light
  BY <1>3 DEF LightHearsPdu, InHand
<1>4. CASE light[l].mode = "node"
  <2>1. HasRecord(l) \/ InHand(l)
    BY <1>2, <1>4 DEF StrandedHadTrouble
  <2>2. CASE HasRecord(l)
    <3>1. records \subseteq records'
      BY AttemptGoesOn DEF Listed
    <3>. QED
      BY <2>2, <3>1 DEF HasRecord
  <2>3. CASE InHand(l) /\ at' # "idle"
    BY <2>3, AttemptGoesOn DEF InHand
  <2>4. CASE InHand(l) /\ at' = "idle"
    <3>1. at = "form" /\ Listed
      <4>1. trouble'[job.light] = {}
        BY <1>1, <2>4 DEF InHand
      <4>2. ~(at = "failing" /\ trouble' = trouble)
        BY <1>2, <2>4 DEF InHand, QuietAttemptSucceeds
      <4>. QED
        BY <2>4, <4>1, <4>2, EndsInTrouble DEF InHand
    <3>2. PICK s \in state : TRUE
      BY <3>1 DEF Held, Holding
    <3>3. \E r \in records' : r.light = job.light
      <4>. DEFINE r == [light |-> job.light, net |-> s.net, app |-> s.app,
                        address |-> s.address, device |-> s.device, elements |-> s.elements]
      <4>1. r \in records'
        BY <3>1, <3>2 DEF Listed
      <4>2. r.light = job.light
        OBVIOUS
      <4>. QED
        BY <4>1, <4>2
    <3>. QED
      BY <2>4, <3>3 DEF HasRecord, InHand
  <2>. QED
    BY <2>1, <2>2, <2>3, <2>4
<1>. QED
  BY <1>1, <1>3, <1>4, LightsStay

\* A connection is left open by a subscription that fails, by a disconnect that raises,
\* and by no other end: the rest disconnect, or have nothing open.
LEMMA EndLeaks ==
  ASSUME Shut, EndingStep
  PROVE  \/ leaked' = leaked
         \/ /\ leaked' = leaked \cup {job.light}
            /\ Blame("subscribe") \/ Blame("close")
<1>1. CASE SubscribeFails
  BY <1>1 DEF SubscribeFails, Ends
<1>2. CASE OpenFails \/ Listed \/ Abandon
  <2>1. Ends(FALSE) /\ link = "closed"
    BY <1>2 DEF OpenFails, Listed, Abandon, Shut, ShutStages
  <2>. QED
    BY <2>1 DEF Ends
<1>3. CASE DisconnectRaises
  BY <1>3 DEF DisconnectRaises, Ends
<1>4. CASE Ends(TRUE)
  BY <1>4 DEF Ends
<1>. QED
  BY <1>1, <1>2, <1>3, <1>4 DEF EndingStep, CloseRaises, Failed, BindRaises

LEMMA LeakedStays ==
  ASSUME Shut, [Next]_vars
  PROVE  \/ leaked' \subseteq leaked
         \/ /\ leaked' = leaked \cup {job.light}
            /\ Blame("subscribe") \/ Blame("close")
<1>1. CASE UNCHANGED leaked
  BY <1>1
<1>2. CASE EndingStep
  BY <1>2, EndLeaks
<1>3. CASE Attempt
  <2>1. CASE Opened \/ Subscribed \/ Receive \/ ReceiveRaises \/ Provisioned \/ Closed
             \/ BindOpened \/ BindSubscribed \/ ReceiveTimesOut \/ SendRaises
    BY <1>1, <2>1 DEF Opened, Subscribed, Receive, ReceiveRaises, Provisioned, Closed,
                      BindOpened, BindSubscribed, ReceiveTimesOut, SendRaises, kept
  <2>2. CASE SendPdu \/ SendConfig \/ BindClosed
    BY <1>1, <2>2 DEF SendPdu, SendConfig, BindClosed, kept
  <2>. QED
    BY <1>2, <1>3, <2>1, <2>2 DEF Attempt, EndingStep
<1>4. CASE \/ \E l \in Lights, path \in Paths : Begin(l, path)
           \/ \E l \in Lights : Reset(l)
           \/ LightMisbehaves \/ Drop \/ UNCHANGED vars
  BY <1>1, <1>4 DEF Begin, Reset, LightMisbehaves, Drop, kept, vars
<1>5. CASE LightHearsPdu \/ LightHearsConfig
  BY <1>1, <1>5 DEF LightHearsPdu, LightHearsConfig, kept
<1>. QED
  BY <1>2, <1>3, <1>4, <1>5 DEF Next, EndingStep

\* The connection: what opens, closes or loses it.
LEMMA LinkStays ==
  ASSUME [Next]_vars
  PROVE  \/ UNCHANGED link /\ (at' \in ShutStages => at \in ShutStages)
         \/ UNCHANGED <<link, at>>
         \/ link' = "closed"
         \/ link' = "open" /\ at' \in {"subscribing", "bindsubscribing"}
         \/ Drop
<1>. USE DEF ShutStages
<1>1. CASE Attempt
  <2>1. CASE Opened \/ Subscribed \/ Receive \/ ReceiveRaises \/ Provisioned \/ Closed
             \/ BindOpened \/ BindSubscribed \/ ReceiveTimesOut \/ SendRaises
    BY <2>1 DEF Opened, Subscribed, Receive, ReceiveRaises, Provisioned, Closed, Exchanging,
                BindOpened, BindSubscribed, ReceiveTimesOut, SendRaises, wire
  <2>2. CASE OpenFails \/ CloseRaises \/ BindRaises \/ Failed \/ SubscribeFails
    <3>1. Over
      BY <2>2, AttemptIsOver DEF EndingStep
    <3>. QED
      BY <3>1 DEF Over
  <2>3. CASE SendPdu \/ SendConfig \/ BindClosed
    BY <2>3 DEF SendPdu, SendConfig, BindClosed, Exchanging
  <2>. QED
    BY <1>1, <2>1, <2>2, <2>3 DEF Attempt
<1>2. CASE Listed \/ Abandon
  BY <1>2, AttemptIsOver DEF EndingStep, Over
<1>3. CASE \/ \E l \in Lights, path \in Paths : Begin(l, path)
           \/ \E l \in Lights : Reset(l)
           \/ LightMisbehaves \/ Drop \/ UNCHANGED vars
  BY <1>3 DEF Begin, Reset, LightMisbehaves, wire, vars
<1>4. CASE LightHearsPdu \/ LightHearsConfig
  BY <1>4 DEF LightHearsPdu, LightHearsConfig
<1>. QED
  BY <1>1, <1>2, <1>3, <1>4 DEF Next

\* The state: what makes one, and what becomes of it.
LEMMA StateStays ==
  ASSUME [Next]_vars
  PROVE  \/ state' = {} /\ at' \notin Holding
         \/ UNCHANGED state /\ (at \in Holding => at' \in Holding)
              /\ (at' \in Holding => at \in Holding)
         \/ Provisioned
         \/ Closed
<1>. USE DEF Holding
<1>1. CASE Attempt
  <2>1. CASE Opened \/ Subscribed \/ Receive \/ ReceiveRaises \/ Provisioned \/ Closed
             \/ BindOpened \/ BindSubscribed \/ ReceiveTimesOut \/ SendRaises
    BY <2>1 DEF Opened, Subscribed, Receive, ReceiveRaises, Exchanging,
                BindOpened, BindSubscribed, ReceiveTimesOut, SendRaises
  <2>2. CASE OpenFails \/ CloseRaises \/ BindRaises \/ Failed \/ SubscribeFails
    <3>1. Over
      BY <2>2, AttemptIsOver DEF EndingStep
    <3>. QED
      BY <3>1 DEF Over
  <2>3. CASE SendPdu \/ SendConfig \/ BindClosed
    BY <2>3 DEF SendPdu, SendConfig, BindClosed, Exchanging
  <2>. QED
    BY <1>1, <2>1, <2>2, <2>3 DEF Attempt
<1>2. CASE Listed \/ Abandon
  BY <1>2, AttemptIsOver DEF EndingStep, Over
<1>3. CASE \/ \E l \in Lights, path \in Paths : Begin(l, path)
           \/ \E l \in Lights : Reset(l)
           \/ LightMisbehaves \/ Drop \/ UNCHANGED vars
  BY <1>3 DEF Begin, Reset, LightMisbehaves, Drop, vars
<1>4. CASE LightHearsPdu \/ LightHearsConfig
  BY <1>4 DEF LightHearsPdu, LightHearsConfig
<1>. QED
  BY <1>1, <1>2, <1>3, <1>4 DEF Next

LEMMA BoundedStep ==
  ASSUME ProvisioningAssumption, Typed, Bounded, Shut, [Next]_vars
  PROVE  Bounded'
<1>0. job.light \in Lights /\ job.try \in Nat /\ job.try <= MaxTries /\ MaxTries \in Nat
  BY DEF Bounded, Typed, ProvisioningAssumption
<1>1. link' \in {"closed", "open", "dropped"}
  BY LinkStays DEF Bounded, Drop
<1>2. leaked' \subseteq Lights
  BY <1>0, LeakedStays DEF Bounded
<1>3. job'.try <= MaxTries
  <2>1. CASE job' = job
    BY <1>0, <2>1
  <2>2. CASE \E l \in Lights, path \in Paths : Begin(l, path)
    BY <1>0, <2>2 DEF Begin
  <2>3. at = "idle" => job' = job \/ \E l \in Lights, path \in Paths : Begin(l, path)
    BY DEF Next, Attempt, Opened, OpenFails, Subscribed, SubscribeFails, SendPdu, Receive,
           ReceiveRaises, ReceiveTimesOut, SendRaises, Provisioned, Closed, CloseRaises,
           Failed, BindOpened, BindSubscribed, SendConfig, BindRaises, BindClosed,
           DisconnectRaises, Ends, Over, Exchanging, Listed, Abandon, LightHearsPdu, LightMisbehaves, LightHearsConfig,
           Drop, Reset, vars
  <2>. QED
    BY <2>1, <2>2, <2>3, AttemptGoesOn
<1>4. state' = {} \/ \E s : state' = {s}
  <2>1. CASE Provisioned
    BY <2>1 DEF Provisioned
  <2>2. CASE Closed
    <3>1. state' = {Adopted(s) : s \in state}
      BY <2>2 DEF Closed
    <3>2. state = {} \/ \E s : state = {s}
      BY DEF Bounded
    <3>3. CASE state = {}
      BY <3>1, <3>3
    <3>4. ASSUME NEW s, state = {s} PROVE state' = {Adopted(s)}
      BY <3>1, <3>4
    <3>. QED
      BY <3>2, <3>3, <3>4
  <2>. QED
    BY <2>1, <2>2, StateStays DEF Bounded
<1>. QED
  BY <1>1, <1>2, <1>3, <1>4 DEF Bounded

LEMMA ShutStep ==
  ASSUME Shut, [Next]_vars
  PROVE  Shut'
BY LinkStays DEF Shut, ShutStages, Drop

LEMMA LeaksStep ==
  ASSUME Typed, Bounded, Shut, NothingElseLeaks, [Next]_vars
  PROVE  NothingElseLeaks'
<1>. SUFFICES ASSUME NEW l \in leaked'
              PROVE  {"subscribe", "close"} \cap trouble'[l] # {}
  BY DEF NothingElseLeaks
<1>1. job.light \in Lights /\ leaked \subseteq Lights
  BY DEF Typed, Bounded
<1>2. CASE l \in leaked
  <2>1. trouble[l] \subseteq trouble'[l]
    BY <1>1, <1>2, TroubleStays
  <2>. QED
    BY <1>2, <2>1 DEF NothingElseLeaks
<1>3. CASE l = job.light /\ (Blame("subscribe") \/ Blame("close"))
  BY <1>3, Blamed DEF Woes
<1>. QED
  BY <1>2, <1>3, LeakedStays

LEMMA FreshStep ==
  ASSUME Typed, Fresh, [Next]_vars
  PROVE  Fresh'
<1>1. CASE Attempt
  <2>1. CASE Subscribed \/ Receive \/ ReceiveRaises \/ Provisioned
             \/ BindSubscribed \/ ReceiveTimesOut \/ SendRaises
    BY <2>1 DEF Subscribed, Receive, ReceiveRaises, Provisioned, Exchanging,
                BindSubscribed, ReceiveTimesOut, SendRaises, wire, Fresh
  <2>2. CASE OpenFails \/ CloseRaises \/ BindRaises \/ Failed \/ SubscribeFails
    <3>1. Over
      BY <2>2, AttemptIsOver DEF EndingStep
    <3>. QED
      BY <3>1 DEF Over, Fresh
  <2>3. CASE SendPdu \/ SendConfig \/ BindClosed
    BY <2>3 DEF SendPdu, SendConfig, BindClosed, Exchanging, Fresh
  <2>4. CASE Opened \/ BindOpened \/ Closed
    BY <2>4 DEF Opened, BindOpened, Closed, Fresh
  <2>. QED
    BY <1>1, <2>1, <2>2, <2>3, <2>4 DEF Attempt
<1>2. CASE Listed \/ Abandon
  BY <1>2, AttemptIsOver DEF EndingStep, Over, Fresh
<1>3. CASE \/ \E l \in Lights, path \in Paths : Begin(l, path)
           \/ \E l \in Lights : Reset(l)
           \/ LightMisbehaves \/ Drop \/ UNCHANGED vars
  BY <1>3 DEF Begin, Reset, LightMisbehaves, Drop, Exchanging, wire, vars, Fresh
<1>4. CASE LightHearsPdu \/ LightHearsConfig
  BY <1>4 DEF LightHearsPdu, LightHearsConfig, Fresh
<1>. QED
  BY <1>1, <1>2, <1>3, <1>4 DEF Next

LEMMA OpensStays ==
  ASSUME NEW l, light'[l].keys = light[l].keys, NEW d, Opens(l, d)
  PROVE  \E k \in light'[l].keys : k.device = d.device /\ k.net = d.net /\ k.address = d.address
  BY DEF Opens

LEMMA HeldStep ==
  ASSUME Typed, Held, Decrypted, [Next]_vars
  PROVE  Held'
<1>0. job.light \in Lights
  BY DEF Typed
<1>1. at' # "idle" => \A r \in records' : r.light # job'.light
  <2>1. CASE at # "idle"
    BY <2>1, AttemptGoesOn DEF Held
  <2>2. CASE \E l \in Lights, path \in Paths : Begin(l, path)
    BY <2>2 DEF Begin, kept
  <2>3. at = "idle" => at' = "idle" \/ \E l \in Lights, path \in Paths : Begin(l, path)
    BY DEF Next, Attempt, Opened, OpenFails, Subscribed, SubscribeFails, SendPdu, Receive,
           ReceiveRaises, ReceiveTimesOut, SendRaises, Provisioned, Closed, CloseRaises,
           Failed, BindOpened, BindSubscribed, SendConfig, BindRaises, BindClosed,
           DisconnectRaises, Ends, Over, Exchanging, Listed, Abandon, LightHearsPdu, LightMisbehaves, LightHearsConfig,
           Drop, Reset, vars
  <2>. QED
    BY <2>1, <2>2, <2>3
<1>2. ASSUME at \in Holding, at' \in Holding
      PROVE  light'[job.light].keys = light[job.light].keys
  <2>1. ~LightHearsPdu /\ \A l \in Lights : ~Reset(l)
    BY <1>2 DEF LightHearsPdu, Reset, Holding
  <2>. QED
    BY <1>0, <2>1, LightsStay
<1>3. ASSUME at' \in Holding
      PROVE  /\ \E s \in state' : state' = {s}
             /\ \A s \in state' : \E k \in light'[job'.light].keys :
                  k.device = s.device /\ k.net = s.net /\ k.address = s.address
  <2>1. CASE Provisioned
    <3>1. at = "exchange" /\ step = 11 /\ light' = light /\ job' = job
      BY <2>1 DEF Provisioned, Script
    <3>2. Opens(job.light, Ours)
      BY <3>1 DEF Decrypted, CompleteCame
    <3>3. PICK a, e : state' = {[net |-> Net, app |-> a, address |-> NodeAddress,
                                 device |-> derive_device_key(Secret, ProvisionSalt), elements |-> e]}
      BY <2>1 DEF Provisioned
    <3>4. /\ Ours.net = Net /\ Ours.address = NodeAddress
          /\ Ours.device = derive_device_key(Secret, ProvisionSalt)
      BY DEF Ours
    <3>5. PICK k \in light[job.light].keys :
            k.device = Ours.device /\ k.net = Ours.net /\ k.address = Ours.address
      BY <3>2 DEF Opens
    <3>. QED
      BY <3>1, <3>3, <3>4, <3>5
  <2>2. CASE Closed
    <3>1. /\ state' = {Adopted(s) : s \in state} /\ light' = light /\ job' = job
          /\ at \in Holding
      BY <2>2 DEF Closed, Holding
    <3>2. PICK s \in state : state = {s}
      BY <3>1 DEF Held
    <3>3. state' = {Adopted(s)}
      BY <3>1, <3>2
    <3>4. IsState(s) /\ Opens(job.light, s)
      BY <3>1, <3>2 DEF Held, Typed
    <3>5. Adopted(s).net = s.net /\ Adopted(s).address = s.address /\ Adopted(s).device = s.device
      BY <3>4, AdoptedIs
    <3>. QED
      BY <3>1, <3>3, <3>4, <3>5 DEF Opens
  <2>3. CASE UNCHANGED state /\ at \in Holding
    <3>1. job' = job
      BY <2>3, AttemptGoesOn DEF Holding
    <3>. QED
      BY <1>2, <1>3, <2>3, <3>1 DEF Held, Opens
  <2>. QED
    BY <1>3, <2>1, <2>2, <2>3, StateStays
<1>. QED
  BY <1>1, <1>3 DEF Held, Opens

LEMMA ListedRecords ==
  ASSUME Typed, Held, Listed
  PROVE  \E s \in state : records' = records \cup
           {[light |-> job.light, net |-> s.net, app |-> s.app,
             address |-> s.address, device |-> s.device, elements |-> s.elements]}
<1>1. PICK s \in state : state = {s}
  BY DEF Listed, Held, Holding
<1>. QED
  BY <1>1 DEF Listed

LEMMA RecordsStep ==
  ASSUME Typed, Held, RecordOpensTheLight, [Next]_vars
  PROVE  RecordOpensTheLight'
<1>0. job.light \in Lights /\ \A r \in records : r.light \in Lights
  BY DEF Typed
<1>1. ASSUME NEW r \in records
      PROVE  \E k \in light'[r.light].keys :
               k.device = r.device /\ k.net = r.net /\ k.address = r.address
  <2>1. ~Reset(r.light)
    BY <1>1 DEF Reset
  <2>2. LightHearsPdu => r.light # job.light
    BY <1>1 DEF Held, LightHearsPdu
  <2>3. light'[r.light].keys = light[r.light].keys
    BY <1>0, <1>1, <2>1, <2>2, LightsStay
  <2>. QED
    BY <1>1, <2>3 DEF RecordOpensTheLight
<1>2. CASE records' = records
  BY <1>1, <1>2 DEF RecordOpensTheLight
<1>3. CASE Listed
  <2>1. PICK s \in state : records' = records \cup
          {[light |-> job.light, net |-> s.net, app |-> s.app,
            address |-> s.address, device |-> s.device, elements |-> s.elements]}
    BY <1>3, ListedRecords
  <2>. DEFINE new == [light |-> job.light, net |-> s.net, app |-> s.app,
                      address |-> s.address, device |-> s.device, elements |-> s.elements]
  <2>2. Opens(job.light, s)
    BY <1>3, <2>1 DEF Held, Holding, Listed
  <2>3. light'[job.light].keys = light[job.light].keys
    BY <1>0, <1>3, LightForgets DEF Listed, Ends
  <2>4. new.light = job.light /\ new.device = s.device /\ new.net = s.net /\ new.address = s.address
    OBVIOUS
  <2>. HIDE DEF new
  <2>5. \E k \in light'[new.light].keys :
          k.device = new.device /\ k.net = new.net /\ k.address = new.address
    BY <2>2, <2>3, <2>4 DEF Opens
  <2>6. records' = records \cup {new}
    BY <2>1 DEF new
  <2>. QED
    BY <1>1, <2>5, <2>6 DEF RecordOpensTheLight
<1>. QED
  BY <1>2, <1>3, AttemptGoesOn

LEMMA ListedBoundStep ==
  ASSUME Typed, Held, Configured, ListedIsBound, [Next]_vars
  PROVE  ListedIsBound'
<1>0. job.light \in Lights /\ \A r \in records : r.light \in Lights
  BY DEF Typed
<1>1. ASSUME NEW r \in records
      PROVE  \/ light'[r.light].bound /\ light'[r.light].app = {r.app}
             \/ {"unheard", "drop"} \cap trouble'[r.light] # {}
  <2>1. ~Reset(r.light)
    BY <1>1 DEF Reset
  <2>2. LightHearsConfig => r.light # job.light
    BY <1>1 DEF Held, LightHearsConfig
  <2>3. light'[r.light].app = light[r.light].app /\ light'[r.light].bound = light[r.light].bound
    BY <1>0, <1>1, <2>1, <2>2, LightsStay
  <2>4. trouble[r.light] \subseteq trouble'[r.light]
    BY <1>0, <1>1, TroubleStays
  <2>. QED
    BY <1>1, <2>3, <2>4 DEF ListedIsBound
<1>2. CASE records' = records
  BY <1>1, <1>2 DEF ListedIsBound
<1>3. CASE Listed
  <2>1. PICK s \in state : records' = records \cup
          {[light |-> job.light, net |-> s.net, app |-> s.app,
            address |-> s.address, device |-> s.device, elements |-> s.elements]}
    BY <1>3, ListedRecords
  <2>. DEFINE new == [light |-> job.light, net |-> s.net, app |-> s.app,
                      address |-> s.address, device |-> s.device, elements |-> s.elements]
  <2>2. \/ {"unheard", "drop"} \cap trouble[job.light] # {}
        \/ light[job.light].app = {s.app} /\ light[job.light].bound
    BY <1>3, <2>1 DEF Configured, Listed, Told, Me
  <2>3. /\ light'[job.light].app = light[job.light].app
        /\ light'[job.light].bound = light[job.light].bound
        /\ trouble' = trouble
    BY <1>0, <1>3, LightForgets DEF Listed, Ends
  <2>4. new.light = job.light /\ new.app = s.app
    OBVIOUS
  <2>. HIDE DEF new
  <2>5. \/ light'[new.light].bound /\ light'[new.light].app = {new.app}
        \/ {"unheard", "drop"} \cap trouble'[new.light] # {}
    BY <2>2, <2>3, <2>4
  <2>6. records' = records \cup {new}
    BY <2>1 DEF new
  <2>. QED
    BY <1>1, <2>5, <2>6 DEF ListedIsBound
<1>. QED
  BY <1>2, <1>3, AttemptGoesOn

\* Where the two configuration messages have got to.
LEMMA ConfiguredStep ==
  ASSUME Typed, Bounded, Held, Fresh, Configured, [Next]_vars
  PROVE  Configured'
<1>0. job.light \in Lights
  BY DEF Typed
<1>1. SUFFICES ASSUME {"unheard", "drop"} \cap trouble'[job'.light] = {},
                      at' \in {"bindsubscribing", "addkey", "bindkey", "bindclosing", "form"}
               PROVE  Configured'
  BY DEF Configured
<1>2. /\ at # "idle"
      /\ \/ BindOpened \/ BindSubscribed \/ SendConfig \/ BindClosed \/ LightHearsConfig
         \/ Drop \/ UNCHANGED vars
  <2>1. CASE Attempt
    <3>1. CASE Opened \/ Subscribed \/ SendPdu \/ Receive \/ ReceiveRaises
               \/ ReceiveTimesOut \/ SendRaises \/ Provisioned \/ Closed
      BY <1>1, <3>1 DEF Opened, Subscribed, SendPdu, Receive, ReceiveRaises,
           ReceiveTimesOut, SendRaises, Provisioned, Closed, Exchanging
    <3>2. CASE OpenFails \/ SubscribeFails \/ CloseRaises \/ Failed \/ BindRaises
      <4>1. at' = "idle"
        BY <3>2, AttemptIsOver DEF EndingStep, Over
      <4>. QED
        BY <1>1, <4>1
    <3>3. CASE BindOpened \/ BindSubscribed \/ SendConfig \/ BindClosed
      BY <3>3 DEF BindOpened, BindSubscribed, SendConfig, BindClosed
    <3>. QED
      BY <2>1, <3>1, <3>2, <3>3 DEF Attempt
  <2>2. CASE Listed \/ Abandon
    BY <1>1, <2>2, AttemptIsOver DEF EndingStep, Over
  <2>3. CASE \/ \E l \in Lights, path \in Paths : Begin(l, path)
             \/ \E l \in Lights : Reset(l)
             \/ LightMisbehaves \/ LightHearsPdu
    BY <1>1, <2>3 DEF Begin, Reset, LightMisbehaves, LightHearsPdu, Exchanging
  <2>4. CASE LightHearsConfig \/ Drop \/ UNCHANGED vars
    <3>1. at # "idle"
      BY <1>1, <2>4 DEF LightHearsConfig, Drop, vars
    <3>. QED
      BY <2>4, <3>1
  <2>. QED
    BY <2>1, <2>2, <2>3, <2>4 DEF Next
<1>3. job' = job /\ {"unheard", "drop"} \cap trouble[job.light] = {}
  <2>1. job' = job
    BY <1>2, AttemptGoesOn
  <2>. QED
    BY <1>0, <1>1, <2>1, TroubleStays
<1>4. ASSUME NEW s \in state PROVE Add(s)' = Add(s) /\ Bind(s)' = Bind(s)
  BY DEF Add, Bind, Config, build_config_app_key_add, build_config_model_app_bind
<1>5. CASE BindOpened \/ BindSubscribed
  <2>1. link' = "open" /\ at' \in {"bindsubscribing", "addkey"}
    BY <1>5 DEF BindOpened, BindSubscribed, wire
  <2>. QED
    BY <2>1 DEF Configured
<1>6. CASE SendConfig
  <2>1. PICK s \in state : state = {s}
    BY <1>6 DEF SendConfig, Held, Holding
  <2>2. /\ link' = "open" /\ state' = state /\ light' = light
        /\ \/ at = "addkey" /\ at' = "bindkey"
           \/ at = "bindkey" /\ at' = "bindclosing"
    BY <1>6 DEF SendConfig
  <2>3. air' = Append(air, Messages(s))
    <3>1. ~Blame("unheard")
      BY <1>0, <1>1, <1>3, Blamed DEF Woes
    <3>. QED
      BY <1>6, <2>1, <3>1 DEF SendConfig
  <2>4. CASE at = "addkey"
    <3>1. air = <<>> /\ Messages(s) = Add(s)
      BY <2>4 DEF Fresh, Messages, Add
    <3>2. air' = <<Add(s)>>
      BY <2>3, <3>1, ShortSequences
    <3>. QED
      BY <1>4, <2>1, <2>2, <2>4, <3>2 DEF Configured
  <2>5. CASE at = "bindkey"
    <3>1. Messages(s) = Bind(s)
      BY <2>5 DEF Messages, Bind
    <3>2. air = <<Add(s)>> \/ (air = <<>> /\ Told(s))
      BY <1>3, <2>1, <2>5 DEF Configured
    <3>3. air' = <<Add(s), Bind(s)>> \/ (air' = <<Bind(s)>> /\ Told(s))
      <4>1. air' = Append(air, Bind(s))
        BY <2>3, <3>1
      <4>2. CASE air = <<Add(s)>>
        BY <4>1, <4>2, Paired
      <4>3. CASE air = <<>> /\ Told(s)
        BY <4>1, <4>3, ShortSequences
      <4>. QED
        BY <3>2, <4>2, <4>3
    <3>4. Told(s)' = Told(s)
      BY <1>3, <2>2 DEF Told
    <3>5. at' = "bindclosing"
      BY <2>2, <2>5
    <3>. QED
      BY <1>4, <2>1, <2>2, <3>3, <3>4, <3>5 DEF Configured
  <2>. QED
    BY <2>2, <2>4, <2>5
<1>7. CASE BindClosed
  <2>1. at = "bindclosing" /\ at' = "form" /\ state' = state /\ light' = light
    BY <1>7 DEF BindClosed
  <2>2. air = <<>>
    <3>1. ASSUME air # <<>> PROVE "unheard" \in trouble'[job.light]
      <4>1. trouble' = [trouble EXCEPT ![job.light] = trouble[job.light] \cup {x \in {"unheard"} : air # <<>>}]
        BY <1>7 DEF BindClosed
      <4>2. trouble'[job.light] = trouble[job.light] \cup {x \in {"unheard"} : air # <<>>}
        BY <1>0, <4>1 DEF Typed
      <4>. QED
        BY <3>1, <4>2
    <3>. QED
      BY <1>1, <1>3, <3>1
  <2>3. \A s \in state : Told(s) /\ Me.bound
    BY <1>3, <2>1, <2>2, ShortSequences DEF Configured
  <2>. QED
    BY <1>3, <2>1, <2>3 DEF Configured, Told, Me
<1>8. CASE LightHearsConfig
  <2>1. /\ air # <<>> /\ link = "open" /\ at' = at /\ state' = state /\ link' = link
        /\ at \in {"bindkey", "bindclosing"} /\ air' = Tail(air)
    BY <1>8 DEF LightHearsConfig
  <2>2. PICK s \in state : state = {s} /\ Opens(job.light, s)
    BY <2>1 DEF Held, Holding
  <2>. DEFINE m == Head(air)
  <2>3. m \in {Add(s), Bind(s)} => \E k \in Me.keys : k.device = m.device /\ k.address = m.address
    BY <2>2 DEF Opens, Me, Add, Bind, Config
  <2>4. /\ m = Add(s) => Told(s)'
        /\ m = Bind(s) => (Told(s) => Told(s)' /\ Me'.bound)
    <3>1. /\ Add(s).message.op = "app_key_add" /\ Add(s).message.app = s.app
          /\ Bind(s).message.op = "model_app_bind"
      BY DEF Add, Bind, Config, build_config_app_key_add, build_config_model_app_bind
    <3>2. CASE m = Add(s)
      <4>1. light'[job.light].app = {m.message.app}
        BY <1>8, <2>3, <3>1, <3>2, HearingConfig
      <4>. QED
        BY <1>3, <3>1, <3>2, <4>1 DEF Told
    <3>3. CASE m = Bind(s) /\ Told(s)
      <4>1. /\ light'[job.light].app = light[job.light].app
            /\ light'[job.light].bound = (light[job.light].app # {})
        BY <1>8, <2>3, <3>1, <3>3, HearingConfig
      <4>. QED
        BY <1>3, <3>1, <3>3, <4>1 DEF Told, Me
    <3>. QED
      BY <3>1, <3>2, <3>3
  <2>5. CASE at = "bindkey"
    <3>1. air = <<Add(s)>>
      BY <1>3, <2>1, <2>2, <2>5 DEF Configured
    <3>2. air' = <<>> /\ m = Add(s)
      BY <2>1, <3>1, ShortSequences
    <3>. QED
      BY <2>1, <2>2, <2>4, <2>5, <3>2 DEF Configured
  <2>6. CASE at = "bindclosing"
    <3>1. air = <<Add(s), Bind(s)>> \/ (air = <<Bind(s)>> /\ Told(s))
      BY <1>3, <2>1, <2>2, <2>6 DEF Configured
    <3>2. \/ m = Add(s) /\ air' = <<Bind(s)>>
          \/ m = Bind(s) /\ air' = <<>> /\ Told(s)
      <4>1. CASE air = <<Add(s), Bind(s)>>
        <5>1. Head(<<Add(s), Bind(s)>>) = Add(s) /\ Tail(<<Add(s), Bind(s)>>) = <<Bind(s)>>
          BY ShortSequences
        <5>. QED
          BY <2>1, <4>1, <5>1
      <4>2. CASE air = <<Bind(s)>> /\ Told(s)
        <5>1. Head(<<Bind(s)>>) = Bind(s) /\ Tail(<<Bind(s)>>) = <<>>
          BY ShortSequences
        <5>. QED
          BY <2>1, <4>2, <5>1
      <4>. QED
        BY <3>1, <4>1, <4>2
    <3>3. \/ air' = <<Bind(s)>> /\ Told(s)'
          \/ air' = <<>> /\ Told(s)' /\ Me'.bound
      BY <2>4, <3>2
    <3>. QED
      BY <1>4, <2>1, <2>2, <2>6, <3>3 DEF Configured
  <2>. QED
    BY <2>1, <2>5, <2>6
<1>9. CASE Drop
  BY <1>0, <1>1, <1>3, <1>9, Blamed DEF Drop, Woes
<1>10. CASE UNCHANGED vars
  BY <1>10 DEF vars, Configured, Told, Me, Add, Bind
<1>. QED
  BY <1>2, <1>5, <1>6, <1>7, <1>8, <1>9, <1>10

-----------------------------------------------------------------------------
\* Terms: equal bytes were computed from equal things.
LEMMA CmacInjective ==
  ASSUME NEW k, NEW t, NEW u, NEW v, aes_cmac(k, t) = aes_cmac(u, v)
  PROVE  k = u /\ t = v
<1>1. aes_cmac(k, t).value = <<k, t>> /\ aes_cmac(u, v).value = <<u, v>>
  BY DEF aes_cmac, Bytes
<1>. QED
  BY <1>1

LEMMA KeyInjective ==
  ASSUME NEW text, NEW salt, NEW label, NEW t, NEW u, k1(text, salt, label) = k1(t, u, label)
  PROVE  text = t /\ salt = u
<1>1. aes_cmac(salt, text) = aes_cmac(u, t)
  BY CmacInjective DEF k1
<1>. QED
  BY <1>1, CmacInjective

LEMMA OutgoingIs ==
  /\ \A type \in Questions : Outgoing(type).type = type
  /\ Outgoing("invite").payload = build_invite(0).payload
  /\ Outgoing("start").payload = build_start.payload
  /\ Outgoing("public_key").payload = OurKeys.public
  /\ Outgoing("random").payload = OurRandom
  /\ Outgoing("confirmation").payload =
       compute_confirmation_value(Secret, ConfirmationSalt, OurRandom)
  /\ Outgoing("data").payload.value =
       [plain |-> PlainData, key |-> derive_session_key(Secret, ProvisionSalt),
        nonce |-> derive_session_nonce(Secret, ProvisionSalt)]
<1>. USE DEF Wrap
<1>1. Outgoing("invite") = build_invite(0) /\ Outgoing("start") = build_start
  BY DEF Outgoing
<1>2. Outgoing("public_key") = Wrap("public_key", OurKeys.public)
  <2>1. Outgoing("public_key") = Sized("public_key", OurKeys.public)
    BY DEF Outgoing, build_public_key
  <2>2. OurKeys.public.length = PayloadLength["public_key"]
    BY DEF OurKeys, generate_p256_keypair, Bytes, PayloadLength
  <2>. QED
    BY <2>1, <2>2 DEF Sized
<1>3. Outgoing("random") = Wrap("random", OurRandom)
  <2>1. Outgoing("random") = Sized("random", OurRandom)
    BY DEF Outgoing, build_random
  <2>2. OurRandom.length = PayloadLength["random"]
    BY DEF OurRandom, Bytes, PayloadLength
  <2>. QED
    BY <2>1, <2>2 DEF Sized
<1>4. Outgoing("confirmation") = Wrap("confirmation",
        compute_confirmation_value(Secret, ConfirmationSalt, OurRandom))
  <2>. DEFINE c == compute_confirmation_value(Secret, ConfirmationSalt, OurRandom)
  <2>1. Outgoing("confirmation") = Sized("confirmation", c)
    BY DEF Outgoing, build_confirmation
  <2>2. c.length = PayloadLength["confirmation"]
    BY DEF compute_confirmation_value, aes_cmac, Bytes, PayloadLength
  <2>. HIDE DEF c
  <2>3. Outgoing("confirmation") = Wrap("confirmation", c)
    BY <2>1, <2>2 DEF Sized
  <2>. QED
    BY <2>3 DEF c
<1>5. Outgoing("data") = Wrap("data", Bytes(33, [plain |-> PlainData,
        key |-> derive_session_key(Secret, ProvisionSalt),
        nonce |-> derive_session_nonce(Secret, ProvisionSalt)]))
  <2>. DEFINE d == Bytes(33, [plain |-> PlainData,
                     key |-> derive_session_key(Secret, ProvisionSalt),
                     nonce |-> derive_session_nonce(Secret, ProvisionSalt)])
  <2>1. Outgoing("data") = Sized("data", d)
    BY DEF Outgoing, build_data, encrypt_provisioning_data
  <2>2. d.length = PayloadLength["data"]
    BY DEF Bytes, PayloadLength
  <2>. HIDE DEF d
  <2>3. Outgoing("data") = Wrap("data", d)
    BY <2>1, <2>2 DEF Sized
  <2>. QED
    BY <2>3 DEF d
<1>6. \A type \in Questions : Outgoing(type).type = type
  BY <1>1, <1>2, <1>3, <1>4, <1>5 DEF Questions, build_invite, build_start
<1>7. Outgoing("data").payload.value =
       [plain |-> PlainData, key |-> derive_session_key(Secret, ProvisionSalt),
        nonce |-> derive_session_nonce(Secret, ProvisionSalt)]
  BY <1>5 DEF Bytes
<1>. QED
  BY <1>1, <1>2, <1>3, <1>4, <1>6, <1>7

LEMMA SameTerms ==
  ASSUME job' = job, got'["capabilities"] = got["capabilities"],
         got'["public_key"] = got["public_key"], got'["random"] = got["random"]
  PROVE  Ours' = Ours /\ Outgoing("data")' = Outgoing("data")
<1>1. Net' = Net /\ NodeAddress' = NodeAddress /\ OurKeys' = OurKeys /\ OurRandom' = OurRandom
  BY DEF Net, NodeAddress, OurKeys, OurRandom, Us
<1>2. Secret' = Secret
  BY <1>1 DEF Secret
<1>3. ConfirmationSalt' = ConfirmationSalt
  BY <1>1 DEF ConfirmationSalt
<1>4. ProvisionSalt' = ProvisionSalt
  BY <1>1, <1>3 DEF ProvisionSalt
<1>5. Ours' = Ours
  BY <1>1, <1>2, <1>4 DEF Ours
<1>6. PlainData' = PlainData
  BY <1>1 DEF PlainData
<1>7. Outgoing("data")' = Outgoing("data")
  BY <1>2, <1>4, <1>6 DEF Outgoing
<1>. QED
  BY <1>5, <1>7

\* The light decrypts what was made with its own keys.
LEMMA AgreedOnData ==
  ASSUME Agrees(Outgoing("data"))
  PROVE  Ours = [net |-> Outgoing("data").payload.value.plain.net,
                 address |-> Outgoing("data").payload.value.plain.address,
                 device |-> k1(LightSecret, LightSessionSalt, "prdk")]
<1>1. Outgoing("data").payload.value.key = k1(LightSecret, LightSessionSalt, "prsk")
  BY OutgoingIs DEF Agrees, Questions
<1>2. k1(Secret, ProvisionSalt, "prsk") = k1(LightSecret, LightSessionSalt, "prsk")
  BY <1>1, OutgoingIs DEF derive_session_key
<1>3. Secret = LightSecret /\ ProvisionSalt = LightSessionSalt
  BY <1>2, KeyInjective
<1>4. Outgoing("data").payload.value.plain = PlainData
  BY OutgoingIs
<1>. QED
  BY <1>3, <1>4 DEF Ours, PlainData, derive_device_key

LEMMA ScriptIs ==
  /\ Len(Script) = 11
  /\ Script[1] = Send("invite") /\ Script[2] = Wait("capabilities") /\ Script[3] = Send("start")
  /\ Script[4] = Send("public_key") /\ Script[5] = Wait("public_key")
  /\ Script[6] = Send("confirmation") /\ Script[7] = Wait("confirmation")
  /\ Script[8] = Send("random") /\ Script[9] = Wait("random")
  /\ Script[10] = Send("data") /\ Script[11] = Wait("complete")
  BY DEF Script

\* What a step of the script sends or waits for.
LEMMA AtSend ==
  ASSUME Typed, Exchanging(FALSE)
  PROVE  \/ step = 0 /\ Now.type = "invite"
         \/ step = 2 /\ Now.type = "start"
         \/ step = 3 /\ Now.type = "public_key"
         \/ step = 5 /\ Now.type = "confirmation"
         \/ step = 7 /\ Now.type = "random"
         \/ step = 9 /\ Now.type = "data"
<1>1. step \in 0 .. 10 /\ Now = Script[step + 1] /\ Now.wait = FALSE
  BY ScriptIs DEF Typed, Exchanging, Now
<1>. QED
  BY <1>1, ScriptIs DEF Send, Wait

LEMMA AtWait ==
  ASSUME Typed, Exchanging(TRUE)
  PROVE  \/ step = 1 /\ Now.type = "capabilities"
         \/ step = 4 /\ Now.type = "public_key"
         \/ step = 6 /\ Now.type = "confirmation"
         \/ step = 8 /\ Now.type = "random"
         \/ step = 10 /\ Now.type = "complete"
<1>1. step \in 0 .. 10 /\ Now = Script[step + 1] /\ Now.wait = TRUE
  BY ScriptIs DEF Typed, Exchanging, Now
<1>. QED
  BY <1>1, ScriptIs DEF Send, Wait

\* The steps an exchange goes on by.
LEMMA ExchangeSteps ==
  ASSUME [Next]_vars, at' \in {"exchange", "failing"}
  PROVE  /\ at \in {"subscribing", "exchange", "failing"} /\ job' = job
         /\ \/ Subscribed \/ SendPdu \/ Receive \/ LightHearsPdu \/ LightMisbehaves
            \/ Drop \/ UNCHANGED vars
            \/ at' = "failing" /\ (ReceiveRaises \/ ReceiveTimesOut \/ SendRaises)
         /\ at' = "exchange" => at \in {"subscribing", "exchange"}
<1>1. CASE Attempt
  <2>1. CASE Opened \/ Closed \/ Provisioned \/ BindOpened \/ BindSubscribed \/ SendConfig \/ BindClosed
    BY <1>1, <2>1 DEF Opened, Closed, Provisioned, BindOpened, BindSubscribed, SendConfig, BindClosed
  <2>2. CASE OpenFails \/ SubscribeFails \/ CloseRaises \/ Failed \/ BindRaises
    BY <2>2, AttemptIsOver DEF EndingStep, Over
  <2>3. CASE Subscribed \/ SendPdu \/ Receive \/ ReceiveRaises \/ ReceiveTimesOut \/ SendRaises
    BY <2>3 DEF Subscribed, SendPdu, Receive, ReceiveRaises, ReceiveTimesOut, SendRaises, Exchanging
  <2>. QED
    BY <1>1, <2>1, <2>2, <2>3 DEF Attempt
<1>2. CASE Listed \/ Abandon
  BY <1>2, AttemptIsOver DEF EndingStep, Over
<1>3. CASE \/ \E l \in Lights, path \in Paths : Begin(l, path)
           \/ \E l \in Lights : Reset(l)
           \/ LightHearsConfig
  BY <1>3 DEF Begin, Reset, LightHearsConfig
<1>4. CASE LightHearsPdu \/ LightMisbehaves \/ Drop \/ UNCHANGED vars
  BY <1>4 DEF LightHearsPdu, LightMisbehaves, Drop, Exchanging, vars
<1>. QED
  BY <1>1, <1>2, <1>3, <1>4 DEF Next

LEMMA DecryptedStep ==
  ASSUME Typed, Fresh, Decrypted, [Next]_vars
  PROVE  Decrypted'
<1>0. /\ job.light \in Lights /\ IsSeq(air) /\ IsSeq(rx) /\ step \in 0 .. 11
  BY DEF Typed
<1>1. SUFFICES ASSUME at' = "exchange"
               PROVE  Decrypted'
  BY DEF Decrypted
<1>2. CASE Subscribed
  <2>1. air' = <<>> /\ rx' = <<>> /\ step' = 0
    BY <1>2 DEF Subscribed, Fresh, wire
  <2>2. Elems(air)' = {} /\ Elems(rx)' = {}
    BY <2>1, ShortSequences DEF Elems
  <2>. QED
    BY <2>1, <2>2 DEF Decrypted, CompleteCame
<1>3. CASE SendPdu
  <2>1. at = "exchange" /\ Exchanging(FALSE) /\ step' = step + 1
          /\ UNCHANGED <<job, got, rx, light>>
    BY <1>3 DEF SendPdu, Exchanging
  <2>2. step # 10 /\ step # 11 /\ step < 10 /\ step' # 11
          /\ Now.type \in Questions /\ (Now.type = "data" => step = 9)
    BY <2>1, AtSend DEF Questions
  <2>3. ~CompleteCame'
    <3>1. ~CompleteCame
      BY <1>0, <2>1, <2>2 DEF Decrypted
    <3>. QED
      BY <2>1, <2>2, <3>1 DEF CompleteCame, Elems, Parses
  <2>4. \A p \in Elems(air') : p \in Elems(air) \/ p = Outgoing(Now.type)
    <3>1. CASE air' = Append(air, Outgoing(Now.type))
      <4>1. Elems(Append(air, Outgoing(Now.type))) = Elems(air) \cup {Outgoing(Now.type)}
        BY <1>0, Appended
      <4>. QED
        BY <3>1, <4>1
    <3>2. CASE air' = air
      BY <3>2
    <3>. QED
      BY <1>3, <3>1, <3>2 DEF SendPdu
  <2>5. Ours' = Ours /\ Outgoing("data")' = Outgoing("data")
    BY <2>1, SameTerms
  <2>6. ASSUME NEW p \in Elems(air')
        PROVE  p.type \in Questions /\ (p.type = "data" => step' >= 10 /\ p = Outgoing("data"))
    <3>1. CASE p \in Elems(air)
      BY <1>0, <2>1, <2>2, <3>1 DEF Decrypted
    <3>2. CASE p = Outgoing(Now.type)
      <4>1. p.type = Now.type
        BY <2>2, <3>2, OutgoingIs
      <4>. QED
        BY <2>1, <2>2, <3>2, <4>1
    <3>. QED
      BY <2>4, <3>1, <3>2
  <2>. QED
    BY <2>3, <2>5, <2>6 DEF Decrypted, Elems
<1>4. CASE Receive
  <2>1. /\ at = "exchange" /\ Exchanging(TRUE) /\ step' = step + 1 /\ rx # <<>>
        /\ rx' = Tail(rx) /\ Head(rx).type = Now.type /\ Parses(Head(rx))
        /\ got' = [got EXCEPT ![Now.type] = Head(rx).payload]
        /\ UNCHANGED <<job, air, light>>
    BY <1>4 DEF Receive, Exchanging
  <2>2. Elems(rx') \subseteq Elems(rx) /\ Head(rx) \in Elems(rx)
    BY <1>0, <2>1, Elements
  <2>3. CASE step = 10
    <3>1. Now.type = "complete"
      BY <2>1, <2>3, AtWait
    <3>2. Opens(job.light, Ours)
      BY <2>1, <2>2, <3>1 DEF Decrypted, CompleteCame
    <3>3. got = [t \in Types |-> got[t]]
      BY DEF Typed, IsTable
    <3>4. /\ got'["capabilities"] = got["capabilities"]
          /\ got'["public_key"] = got["public_key"] /\ got'["random"] = got["random"]
      BY <2>1, <3>1, <3>3 DEF Types, PayloadLength
    <3>5. Ours' = Ours /\ Outgoing("data")' = Outgoing("data")
      BY <2>1, <3>4, SameTerms
    <3>6. Opens(job.light, Ours)'
      BY <2>1, <3>2, <3>5 DEF Opens
    <3>7. \A p \in Elems(air) : p.type \in Questions /\ (p.type = "data" => p = Outgoing("data"))
      BY <2>1 DEF Decrypted
    <3>. QED
      BY <2>1, <2>3, <3>5, <3>6, <3>7 DEF Decrypted, Elems
  <2>4. CASE step # 10
    <3>1. step < 10 /\ step' # 11 /\ step' < 11
      BY <2>1, <2>4, AtWait
    <3>2. ~CompleteCame
      BY <1>0, <2>1, <3>1 DEF Decrypted
    <3>3. ~CompleteCame'
      BY <2>2, <3>1, <3>2 DEF CompleteCame, Elems, Parses
    <3>4. \A p \in Elems(air) : p.type \in Questions /\ p.type # "data"
      BY <1>0, <2>1, <3>1 DEF Decrypted
    <3>. QED
      BY <2>1, <3>3, <3>4 DEF Decrypted, Elems
  <2>. QED
    BY <2>3, <2>4
<1>5. CASE LightHearsPdu
  <2>1. /\ at = "exchange" /\ air # <<>> /\ air' = Tail(air) /\ UNCHANGED <<step, job, got>>
    BY <1>1, <1>5 DEF LightHearsPdu
  <2>2. Elems(air') \subseteq Elems(air) /\ Head(air) \in Elems(air)
    BY <1>0, <2>1, Elements
  <2>3. Ours' = Ours /\ Outgoing("data")' = Outgoing("data")
    BY <2>1, SameTerms
  <2>4. \A p \in Elems(air') : /\ p.type \in Questions
                               /\ p.type = "data" => step >= 10 /\ p = Outgoing("data")
    BY <2>1, <2>2 DEF Decrypted
  <2>5. CASE /\ Head(air).type = "data" /\ Agrees(Head(air))
             /\ light'[job.light].keys =
                  {[net |-> Head(air).payload.value.plain.net,
                    address |-> Head(air).payload.value.plain.address,
                    device |-> k1(LightSecret, LightSessionSalt, "prdk")]}
    <3>1. step >= 10 /\ Head(air) = Outgoing("data")
      BY <2>1, <2>2, <2>5 DEF Decrypted
    <3>2. light'[job.light].keys = {Ours}
      BY <2>5, <3>1, AgreedOnData
    <3>3. Opens(job.light, Ours)'
      BY <2>1, <2>3, <3>2 DEF Opens
    <3>. QED
      BY <2>1, <2>3, <2>4, <3>1, <3>3 DEF Decrypted, Elems
  <2>6. CASE /\ light'[job.light].keys = light[job.light].keys
             /\ \E type : type # "complete" /\ Notify(type)
    <3>1. CompleteCame' => CompleteCame
      <4>1. \A p \in Elems(rx') : p \in Elems(rx) \/ p.type # "complete"
        BY <2>6, Notified
      <4>. QED
        BY <2>1, <4>1 DEF CompleteCame, Elems, Parses
    <3>2. Opens(job.light, Ours) => Opens(job.light, Ours)'
      BY <2>1, <2>3, <2>6 DEF Opens
    <3>. QED
      BY <2>1, <2>3, <2>4, <3>1, <3>2 DEF Decrypted, Elems
  <2>7. Head(air).type # "complete"
    BY <2>1, <2>2 DEF Decrypted, Questions
  <2>. QED
    BY <1>5, <2>5, <2>6, <2>7, HearingPdu
<1>6. CASE LightMisbehaves
  <2>1. /\ at = "exchange" /\ Exchanging(TRUE) /\ UNCHANGED <<step, job, got, air, light>>
        /\ rx' \in {<<Wrap("failed", Bytes(1, 0))>>, <<Wrap(Now.type, Bytes(2, 0))>>,
                    <<Wrap("start", Bytes(5, 0))>>}
    BY <1>6 DEF LightMisbehaves, Exchanging
  <2>2. step' # 11
    BY <2>1, AtWait
  <2>3. ASSUME NEW p, rx' = <<p>>, p.type = "complete", p.payload.length = PayloadLength[p.type]
        PROVE  FALSE
    <3>1. p \in {Wrap("failed", Bytes(1, 0)), Wrap(Now.type, Bytes(2, 0)), Wrap("start", Bytes(5, 0))}
      BY <2>1, <2>3
    <3>2. p.payload.length = 0
      BY <2>3 DEF PayloadLength
    <3>. QED
      BY <2>3, <3>1, <3>2 DEF Wrap, Bytes
  <2>4. \E q : Elems(rx') = {q} /\ rx' = <<q>>
    BY <2>1, ShortSequences
  <2>5. ~CompleteCame'
    BY <2>2, <2>3, <2>4 DEF CompleteCame, Elems, Parses
  <2>6. Outgoing("data")' = Outgoing("data")
    BY <2>1, SameTerms
  <2>. QED
    BY <2>1, <2>5, <2>6 DEF Decrypted, Elems
<1>7. CASE Drop \/ UNCHANGED vars
  <2>1. at' = at /\ UNCHANGED <<step, job, got, air, rx, light>>
    BY <1>7 DEF Drop, vars
  <2>2. Ours' = Ours /\ Outgoing("data")' = Outgoing("data")
    BY <2>1, SameTerms
  <2>. QED
    BY <2>1, <2>2 DEF Decrypted, CompleteCame, Elems, Parses, Opens
<1>. QED
  BY <1>1, <1>2, <1>3, <1>4, <1>5, <1>6, <1>7, ExchangeSteps

-----------------------------------------------------------------------------
\* The quiet exchange.
LEMMA SameLight ==
  ASSUME job' = job, light' = light, got' = got
  PROVE  /\ Capabilities' = Capabilities /\ LightId' = LightId /\ LightRandom' = LightRandom
         /\ \A n \in Nat : HeardUpTo(n)' = HeardUpTo(n)
         /\ \A type \in Questions : Outgoing(type)' = Outgoing(type)
         /\ \A type : Answer(type)' = Answer(type)
<1>1. /\ OurKeys' = OurKeys /\ OurRandom' = OurRandom /\ PlainData' = PlainData
      /\ Capabilities' = Capabilities /\ LightId' = LightId /\ LightRandom' = LightRandom
      /\ Me' = Me
  BY DEF OurKeys, OurRandom, Us, PlainData, Net, NodeAddress, Capabilities, LightId, LightRandom, Me
<1>2. Secret' = Secret /\ ConfirmationSalt' = ConfirmationSalt
  BY <1>1 DEF Secret, ConfirmationSalt
<1>3. ProvisionSalt' = ProvisionSalt
  BY <1>1, <1>2 DEF ProvisionSalt
<1>4. \A type \in Questions : Outgoing(type)' = Outgoing(type)
  BY <1>1, <1>2, <1>3 DEF Outgoing
<1>5. \A n \in Nat : HeardUpTo(n)' = HeardUpTo(n)
  BY <1>1, <1>4 DEF HeardUpTo, Questions
<1>6. LightSecret' = LightSecret /\ LightSalt' = LightSalt
  BY <1>1 DEF LightSecret, LightSalt
<1>7. \A type : Answer(type)' = Answer(type)
  BY <1>1, <1>6 DEF Answer, Confirms
<1>. QED
  BY <1>1, <1>4, <1>5, <1>7

LEMMA SameSecrets ==
  ASSUME Learnt, step >= 5, step \in Nat, HeardUpTo(3)
  PROVE  Secret = LightSecret /\ ConfirmationSalt = LightSalt
<1>1. /\ got["capabilities"] = Capabilities /\ got["public_key"] = Bytes(64, LightId)
      /\ Me.got["invite"] = build_invite(0).payload /\ Me.got["start"] = build_start.payload
      /\ Me.got["public_key"] = OurKeys.public
  BY DEF Learnt, HeardUpTo
<1>2. got["public_key"].value = LightId /\ Me.got["public_key"].value = Us /\ OurKeys.private = Us
  BY <1>1 DEF Bytes, OurKeys, generate_p256_keypair
<1>3. {Us, LightId} = {LightId, Us}
  OBVIOUS
<1>4. Secret = LightSecret
  BY <1>2, <1>3 DEF Secret, LightSecret, ecdh_shared_secret
<1>5. ConfirmationSalt = LightSalt
  BY <1>1 DEF ConfirmationSalt, LightSalt, compute_confirmation_salt, build_confirmation_inputs
<1>. QED
  BY <1>4, <1>5

LEMMA QuietAgrees ==
  ASSUME Learnt, step \in Nat, NEW type \in Questions,
         type = "random" => step >= 5 /\ HeardUpTo(4),
         type = "data" => step >= 9 /\ HeardUpTo(5)
  PROVE  Agrees(Outgoing(type))
<1>1. Outgoing(type).type = type
  BY OutgoingIs
<1>2. CASE type = "random"
  <2>1. HeardUpTo(3) /\ Me.got["confirmation"] = Outgoing("confirmation").payload
    BY <1>2 DEF HeardUpTo
  <2>2. Secret = LightSecret /\ ConfirmationSalt = LightSalt
    BY <1>2, <2>1, SameSecrets
  <2>3. Confirms(OurRandom) = compute_confirmation_value(Secret, ConfirmationSalt, OurRandom)
    BY <2>2 DEF Confirms, compute_confirmation_value
  <2>. QED
    BY <1>1, <1>2, <2>1, <2>3, OutgoingIs DEF Agrees
<1>3. CASE type = "data"
  <2>1. HeardUpTo(3) /\ Me.got["random"] = OurRandom /\ got["random"] = LightRandom
    BY <1>3 DEF HeardUpTo, Learnt
  <2>2. Secret = LightSecret /\ ConfirmationSalt = LightSalt
    BY <1>3, <2>1, SameSecrets
  <2>3. ProvisionSalt = LightSessionSalt
    BY <2>1, <2>2 DEF ProvisionSalt, LightSessionSalt, compute_provision_salt
  <2>4. /\ Outgoing("data").payload.value.key = k1(LightSecret, LightSessionSalt, "prsk")
        /\ Outgoing("data").payload.value.nonce = derive_session_nonce(LightSecret, LightSessionSalt)
    BY <2>2, <2>3, OutgoingIs DEF derive_session_key
  <2>5. Outgoing("data").payload.value.nonce.value = k1(LightSecret, LightSessionSalt, "prsn").value
    BY <2>4 DEF derive_session_nonce, Bytes
  <2>. QED
    BY <1>1, <1>3, <2>4, <2>5 DEF Agrees
<1>4. CASE type \notin {"random", "data"}
  BY <1>1, <1>4 DEF Agrees
<1>. QED
  BY <1>2, <1>3, <1>4

\* A question that the light agrees with is answered, and what it asked is kept.
LEMMA HeardQuietly ==
  ASSUME Typed, LightHearsPdu, trouble[job.light] = {}, trouble'[job.light] = {}, rx = <<>>,
         NEW type \in Questions, Head(air) = Outgoing(type), Agrees(Outgoing(type))
  PROVE  /\ rx' = IF type = "data" THEN Answer("complete") ELSE Answer(type)
         /\ type # "data" => /\ light'[job.light].got[type] = Outgoing(type).payload
                             /\ \A t \in Types : t # type =>
                                  light'[job.light].got[t] = light[job.light].got[t]
<1>1. Outgoing(type).type = type /\ type \in Types
  BY OutgoingIs DEF Questions, Types, PayloadLength
<1>2. ~Blame("other")
  BY Blamed DEF Woes, Typed
<1>3. /\ Notify(IF type = "data" THEN "complete" ELSE type)
      /\ type # "data" => light' = [light EXCEPT ![job.light] =
                                     [@ EXCEPT !.got[Head(air).type] = Head(air).payload]]
  BY <1>1 DEF LightHearsPdu
<1>4. /\ type = "data" => Notify("complete")
      /\ type # "data" => Notify(type)
  BY <1>3
<1>5. rx' = rx \o (IF type = "data" THEN Answer("complete") ELSE Answer(type))
  BY <1>2, <1>4 DEF Notify
<1>6. \A t : <<>> \o Answer(t) = Answer(t)
  <2>1. ASSUME NEW t PROVE <<>> \o Answer(t) = Answer(t)
    BY AnswerIs, ShortSequences
  <2>. QED
    BY <2>1
<1>7. type # "data" => /\ light'[job.light].got[type] = Outgoing(type).payload
                       /\ \A t \in Types : t # type =>
                            light'[job.light].got[t] = light[job.light].got[t]
  <2>. SUFFICES ASSUME type # "data"
                PROVE  /\ light'[job.light].got[type] = Outgoing(type).payload
                       /\ \A t \in Types : t # type =>
                            light'[job.light].got[t] = light[job.light].got[t]
    OBVIOUS
  <2>. QED
    BY <1>1, HearingPdu
<1>. QED
  BY <1>5, <1>6, <1>7

\* How far the light has heard, when the provisioner learns something and when it hears.
LEMMA HeardStays ==
  ASSUME job' = job, light' = light, NEW n \in 0 .. 5, HeardUpTo(n),
         n >= 4 => /\ got'["capabilities"] = got["capabilities"]
                   /\ got'["public_key"] = got["public_key"]
  PROVE  HeardUpTo(n)'
<1>1. OurKeys' = OurKeys /\ OurRandom' = OurRandom /\ Me' = Me
  BY DEF OurKeys, OurRandom, Us, Me
<1>2. CASE n >= 4
  <2>1. Secret' = Secret /\ ConfirmationSalt' = ConfirmationSalt
    BY <1>1, <1>2 DEF Secret, ConfirmationSalt
  <2>2. Outgoing("confirmation")' = Outgoing("confirmation")
    BY <1>1, <2>1 DEF Outgoing
  <2>. QED
    BY <1>1, <2>2 DEF HeardUpTo
<1>3. CASE n < 4
  BY <1>1, <1>3 DEF HeardUpTo
<1>. QED
  BY <1>2, <1>3

Order == <<"invite", "start", "public_key", "confirmation", "random">>
LEMMA HeardMore ==
  ASSUME job' = job, got' = got, NEW n \in 0 .. 4, HeardUpTo(n),
         light'[job.light].got[Order[n + 1]] = Outgoing(Order[n + 1]).payload,
         \A t \in Types : t # Order[n + 1] => light'[job.light].got[t] = light[job.light].got[t]
  PROVE  HeardUpTo(n + 1)'
<1>1. /\ OurKeys' = OurKeys /\ OurRandom' = OurRandom
      /\ Me'.got = light'[job.light].got /\ Me.got = light[job.light].got
  BY DEF OurKeys, OurRandom, Us, Me
<1>2. Outgoing("confirmation")' = Outgoing("confirmation")
  <2>1. Secret' = Secret /\ ConfirmationSalt' = ConfirmationSalt
    BY <1>1 DEF Secret, ConfirmationSalt
  <2>. QED
    BY <1>1, <2>1 DEF Outgoing
<1>3. {"invite", "start", "public_key", "confirmation", "random"} \subseteq Types
  BY DEF Types, PayloadLength
<1>4. /\ Order[1] = "invite" /\ Order[2] = "start" /\ Order[3] = "public_key"
      /\ Order[4] = "confirmation" /\ Order[5] = "random"
  BY DEF Order
<1>5. HeardUpTo(n + 1)' =
        /\ n + 1 >= 1 => Me'.got["invite"] = build_invite(0).payload
        /\ n + 1 >= 2 => Me'.got["start"] = build_start.payload
        /\ n + 1 >= 3 => Me'.got["public_key"] = OurKeys.public
        /\ n + 1 >= 4 => Me'.got["confirmation"] = Outgoing("confirmation").payload
        /\ n + 1 >= 5 => Me'.got["random"] = OurRandom
  BY <1>1, <1>2 DEF HeardUpTo
<1>6. CASE n = 0
  <2>1. light'[job.light].got["invite"] = Outgoing("invite").payload
    <3>1. n + 1 = 1
      BY <1>6
    <3>2. Order[n + 1] = "invite"
      BY <1>4, <3>1
    <3>. QED
      BY <3>2
  <2>2. Me'.got["invite"] = build_invite(0).payload
    BY <1>1, <2>1, OutgoingIs
  <2>. QED
    BY <1>5, <1>6, <2>2 DEF HeardUpTo
<1>7. CASE n = 1
  BY <1>1, <1>3, <1>4, <1>5, <1>7, OutgoingIs DEF HeardUpTo
<1>8. CASE n = 2
  BY <1>1, <1>3, <1>4, <1>5, <1>8, OutgoingIs DEF HeardUpTo
<1>9. CASE n = 3
  BY <1>1, <1>3, <1>4, <1>5, <1>9, OutgoingIs DEF HeardUpTo
<1>10. CASE n = 4
  BY <1>1, <1>3, <1>4, <1>5, <1>10, OutgoingIs DEF HeardUpTo
<1>. QED
  BY <1>6, <1>7, <1>8, <1>9, <1>10

\* What the light answers hangs on what it had before.
LEMMA SameAnswer ==
  ASSUME job' = job, NEW type \in {"invite", "start", "public_key", "confirmation", "random", "complete"},
         type = "confirmation" =>
           \A t \in {"invite", "start", "public_key"} :
             light'[job.light].got[t] = light[job.light].got[t]
  PROVE  Answer(type)' = Answer(type)
<1>1. Capabilities' = Capabilities /\ LightId' = LightId /\ LightRandom' = LightRandom
  BY DEF Capabilities, LightId, LightRandom
<1>2. CASE type = "confirmation"
  <2>1. LightSecret' = LightSecret /\ LightSalt' = LightSalt
    BY <1>1, <1>2 DEF LightSecret, LightSalt, Me
  <2>2. Confirms(LightRandom)' = Confirms(LightRandom)
    BY <1>1, <2>1 DEF Confirms
  <2>. QED
    BY <1>2, <2>2 DEF Answer
<1>3. CASE type # "confirmation"
  BY <1>1, <1>3 DEF Answer
<1>. QED
  BY <1>2, <1>3

LEMMA InStepStep ==
  ASSUME Typed, Fresh, InStep, [Next]_vars
  PROVE  InStep'
<1>0. job.light \in Lights /\ step \in 0 .. 11 /\ IsSeq(air) /\ IsSeq(rx)
  BY DEF Typed
<1>1. SUFFICES ASSUME at' = "exchange", trouble'[job'.light] = {}
               PROVE  (link = "open" /\ Learnt /\ Place)'
  BY DEF InStep
<1>2. job' = job /\ trouble[job.light] = {} /\ trouble'[job.light] = {}
  <2>1. job' = job
    BY <1>1, ExchangeSteps
  <2>. QED
    BY <1>0, <1>1, <2>1, TroubleStays
<1>3. at = "exchange" => link = "open" /\ Learnt /\ Place
  BY <1>2 DEF InStep
<1>4. ~Blame("other") /\ ~Blame("drop")
  BY <1>2, Blamed DEF Woes
<1>5. CASE Subscribed
  <2>1. link' = "open" /\ step' = 0 /\ air' = <<>> /\ rx' = <<>>
    BY <1>5 DEF Subscribed, Fresh, wire
  <2>. QED
    BY <2>1 DEF Learnt, Place, Silent
<1>6. CASE SendPdu
  <2>1. /\ at = "exchange" /\ Exchanging(FALSE) /\ link' = "open" /\ step' = step + 1
        /\ air' = Append(air, Outgoing(Now.type)) /\ UNCHANGED <<job, got, rx, light>>
    BY <1>4, <1>6 DEF SendPdu, Exchanging
  <2>2. /\ \A n \in 0 .. 5 : HeardUpTo(n) => HeardUpTo(n)'
        /\ \A type \in Questions : Outgoing(type)' = Outgoing(type)
        /\ Capabilities' = Capabilities /\ LightId' = LightId /\ LightRandom' = LightRandom
    BY <2>1, SameLight
  <2>3. Learnt'
    BY <1>0, <1>3, <2>1, <2>2, AtSend DEF Learnt
  <2>4. Silent => air' = <<Outgoing(Now.type)>> /\ rx' = <<>>
    BY <2>1, ShortSequences DEF Silent
  <2>5. Place
    BY <1>3, <2>1
  <2>6. CASE step = 0
    <3>1. Silent /\ Now.type = "invite"
      BY <2>1, <2>5, <2>6, AtSend DEF Place
    <3>. QED
      BY <2>1, <2>2, <2>3, <2>4, <2>6, <3>1 DEF Place, Asking, Questions
  <2>7. CASE step = 2
    <3>1. Silent /\ Now.type = "start" /\ HeardUpTo(1)
      BY <2>1, <2>5, <2>7, AtSend DEF Place
    <3>. QED
      BY <2>1, <2>2, <2>3, <2>4, <2>7, <3>1 DEF Place, Asking, Questions
  <2>8. CASE step = 3
    <3>1. Now.type = "public_key"
      BY <2>1, <2>8, AtSend
    <3>2. \/ Asking("start") /\ HeardUpTo(1)
          \/ Silent /\ HeardUpTo(2)
      BY <2>5, <2>8 DEF Place
    <3>3. CASE Asking("start") /\ HeardUpTo(1)
      <4>. DEFINE x == Outgoing("start")
                  y == Outgoing("public_key")
      <4>1. air = <<x>> /\ rx' = <<>> /\ air' = Append(air, y)
        BY <2>1, <3>1, <3>3 DEF Asking
      <4>2. x' = x /\ y' = y
        BY <2>2 DEF Questions
      <4>. HIDE DEF x, y
      <4>3. Append(<<x>>, y) = <<x, y>>
        BY Paired, Zenon
      <4>4. air' = <<x, y>>
        BY <4>1, <4>3, Zenon
      <4>5. air' = <<x', y'>>
        BY <4>2, <4>4, Zenon
      <4>6. air' = <<Outgoing("start")', Outgoing("public_key")'>>
        BY <4>5 DEF x, y
      <4>7. step' = 4 /\ rx' = <<>> /\ HeardUpTo(1)'
        BY <2>1, <2>2, <2>8, <3>3, <4>1
      <4>8. Place'
        BY <4>6, <4>7, Zenon DEF Place
      <4>. QED
        BY <2>1, <2>3, <4>8
    <3>4. CASE Silent /\ HeardUpTo(2)
      BY <2>1, <2>2, <2>3, <2>4, <2>8, <3>1, <3>4 DEF Place, Asking, Questions
    <3>. QED
      BY <3>2, <3>3, <3>4
  <2>9. CASE step = 5
    <3>1. Silent /\ Now.type = "confirmation" /\ HeardUpTo(3)
      BY <2>1, <2>5, <2>9, AtSend DEF Place
    <3>. QED
      BY <2>1, <2>2, <2>3, <2>4, <2>9, <3>1 DEF Place, Asking, Questions
  <2>10. CASE step = 7
    <3>1. Silent /\ Now.type = "random" /\ HeardUpTo(4)
      BY <2>1, <2>5, <2>10, AtSend DEF Place
    <3>. QED
      BY <2>1, <2>2, <2>3, <2>4, <2>10, <3>1 DEF Place, Asking, Questions
  <2>11. CASE step = 9
    <3>1. Silent /\ Now.type = "data" /\ HeardUpTo(5)
      BY <2>1, <2>5, <2>11, AtSend DEF Place
    <3>. QED
      BY <2>1, <2>2, <2>3, <2>4, <2>11, <3>1 DEF Place, Asking, Questions
  <2>. QED
    BY <2>1, <2>6, <2>7, <2>8, <2>9, <2>10, <2>11, AtSend
<1>7. CASE Receive
  <2>1. /\ at = "exchange" /\ Exchanging(TRUE) /\ link' = link /\ step' = step + 1
        /\ rx # <<>> /\ rx' = Tail(rx) /\ got' = [got EXCEPT ![Now.type] = Head(rx).payload]
        /\ UNCHANGED <<job, air, light>>
    BY <1>7 DEF Receive, Exchanging
  <2>2. /\ Now.type \in Types => got'[Now.type] = Head(rx).payload
        /\ \A t \in Types : t # Now.type => got'[t] = got[t]
    <3>1. got = [t \in Types |-> got[t]]
      BY DEF Typed, IsTable
    <3>. QED
      BY <2>1, <3>1
  <2>3. {"capabilities", "public_key", "confirmation", "random", "complete"} \subseteq Types
    BY DEF Types, PayloadLength
  <2>4. Capabilities' = Capabilities /\ LightId' = LightId /\ LightRandom' = LightRandom
    BY <2>1 DEF Capabilities, LightId, LightRandom
  <2>5. Place /\ Learnt
    BY <1>3, <2>1
  <2>a. ASSUME NEW p, rx = <<p>> PROVE rx' = <<>> /\ Head(rx) = p
    BY <2>1, <2>a, ShortSequences
  <2>6. CASE step = 1
    <3>1. Now.type = "capabilities" /\ Answered("invite") /\ HeardUpTo(1)
      BY <2>1, <2>5, <2>6, AtWait DEF Place, Asking
    <3>2. air' = <<>> /\ rx' = <<>> /\ Head(rx).payload = Capabilities
      BY <2>1, <2>a, <3>1 DEF Answered, Answer, Wrap
    <3>3. HeardUpTo(1)'
      BY <2>1, <3>1, HeardStays
    <3>4. Learnt'
      BY <2>1, <2>2, <2>3, <2>4, <2>6, <3>1, <3>2 DEF Learnt
    <3>. QED
      BY <1>3, <2>1, <2>6, <3>2, <3>3, <3>4 DEF Place, Silent
  <2>7. CASE step = 4
    <3>1. Now.type = "public_key" /\ Answered("public_key") /\ HeardUpTo(3)
      BY <2>1, <2>5, <2>7, AtWait DEF Place, Asking
    <3>2. air' = <<>> /\ rx' = <<>> /\ Head(rx).payload = Bytes(64, LightId)
      BY <2>1, <2>a, <3>1 DEF Answered, Answer, Wrap
    <3>3. HeardUpTo(3)'
      BY <2>1, <3>1, HeardStays
    <3>4. Learnt'
      BY <2>1, <2>2, <2>3, <2>4, <2>5, <2>7, <3>1, <3>2 DEF Learnt
    <3>. QED
      BY <1>3, <2>1, <2>7, <3>2, <3>3, <3>4 DEF Place, Silent
  <2>8. CASE step = 6
    <3>1. Now.type = "confirmation" /\ Answered("confirmation") /\ HeardUpTo(4)
      BY <2>1, <2>5, <2>8, AtWait DEF Place, Asking
    <3>2. air' = <<>> /\ rx' = <<>>
      BY <2>1, <2>a, <3>1 DEF Answered, Answer, Wrap
    <3>3. HeardUpTo(4)'
      BY <2>1, <2>2, <2>3, <3>1, HeardStays
    <3>4. Learnt'
      BY <2>1, <2>2, <2>3, <2>4, <2>5, <2>8, <3>1 DEF Learnt
    <3>. QED
      BY <1>3, <2>1, <2>8, <3>2, <3>3, <3>4 DEF Place, Silent
  <2>9. CASE step = 8
    <3>1. Now.type = "random" /\ Answered("random") /\ HeardUpTo(5)
      BY <2>1, <2>5, <2>9, AtWait DEF Place, Asking
    <3>2. air' = <<>> /\ rx' = <<>> /\ Head(rx).payload = LightRandom
      BY <2>1, <2>a, <3>1 DEF Answered, Answer, Wrap
    <3>3. HeardUpTo(5)'
      BY <2>1, <2>2, <2>3, <3>1, HeardStays
    <3>4. Learnt'
      BY <2>1, <2>2, <2>3, <2>4, <2>5, <2>9, <3>1, <3>2 DEF Learnt
    <3>. QED
      BY <1>3, <2>1, <2>9, <3>2, <3>3, <3>4 DEF Place, Silent
  <2>10. CASE step = 10
    <3>1. Now.type = "complete" /\ Answered("complete")
      BY <2>1, <2>5, <2>10, AtWait DEF Place, Asking
    <3>2. air' = <<>> /\ rx' = <<>>
      BY <2>1, <2>a, <3>1 DEF Answered, Answer, Wrap
    <3>4. Learnt'
      BY <2>1, <2>2, <2>3, <2>4, <2>5, <2>10, <3>1 DEF Learnt
    <3>. QED
      BY <1>3, <2>1, <2>10, <3>2, <3>4 DEF Place, Silent
  <2>. QED
    BY <2>1, <2>6, <2>7, <2>8, <2>9, <2>10, AtWait
<1>8. CASE LightMisbehaves
  BY <1>4, <1>8 DEF LightMisbehaves
<1>9. CASE Drop
  BY <1>4, <1>9 DEF Drop
<1>10. CASE UNCHANGED vars
  <2>1. UNCHANGED <<at, step, job, got, link, air, rx, light>>
    BY <1>10 DEF vars
  <2>. QED
    BY <1>1, <1>3, <2>1, SameLight DEF Place, Learnt, Silent, Asking, Answered, Questions
<1>11. CASE LightHearsPdu
  <2>1. /\ at = "exchange" /\ air # <<>> /\ air' = Tail(air) /\ UNCHANGED <<step, job, got, link>>
    BY <1>1, <1>11 DEF LightHearsPdu
  <2>2. link' = "open" /\ Learnt /\ Place
    BY <1>3, <2>1
  <2>3. Learnt'
    <3>1. Capabilities' = Capabilities /\ LightId' = LightId /\ LightRandom' = LightRandom
      BY <2>1 DEF Capabilities, LightId, LightRandom
    <3>. QED
      BY <2>1, <2>2, <3>1 DEF Learnt
  <2>a. ASSUME NEW p, air = <<p>> PROVE air' = <<>> /\ Head(air) = p
    BY <2>1, <2>a, ShortSequences
  <2>b. /\ {"invite", "start", "public_key", "confirmation", "random"} \subseteq Types
        /\ Order[1] = "invite" /\ Order[2] = "start" /\ Order[3] = "public_key"
        /\ Order[4] = "confirmation" /\ Order[5] = "random"
    BY DEF Types, PayloadLength, Order
  <2>4. CASE step = 1 /\ Asking("invite") /\ HeardUpTo(0)
    <3>1. air' = <<>> /\ Head(air) = Outgoing("invite") /\ rx = <<>>
      BY <2>4, <2>a DEF Asking
    <3>2. Agrees(Outgoing("invite"))
      BY <2>2, <2>4, QuietAgrees DEF Questions
    <3>3. /\ rx' = Answer("invite")
          /\ light'[job.light].got["invite"] = Outgoing("invite").payload
          /\ \A t \in Types : t # "invite" => light'[job.light].got[t] = light[job.light].got[t]
      BY <1>2, <1>11, <3>1, <3>2, HeardQuietly DEF Questions
    <3>4. HeardUpTo(1)'
      <4>1. 0 \in 0 .. 4 /\ 0 + 1 = 1 /\ HeardUpTo(0)
        BY <2>4
      <4>. QED
        BY <2>1, <2>b, <3>3, <4>1, HeardMore
    <3>5. Answer("invite")' = Answer("invite")
      BY <2>1, <2>b, <3>3, SameAnswer
    <3>. QED
      BY <2>1, <2>2, <2>3, <2>4, <3>1, <3>3, <3>4, <3>5 DEF Place, Answered
  <2>5. CASE step = 3 /\ Asking("start") /\ HeardUpTo(1)
    <3>1. air' = <<>> /\ Head(air) = Outgoing("start") /\ rx = <<>>
      BY <2>5, <2>a DEF Asking
    <3>2. Agrees(Outgoing("start"))
      BY <2>2, <2>5, QuietAgrees DEF Questions
    <3>3. /\ rx' = Answer("start")
          /\ light'[job.light].got["start"] = Outgoing("start").payload
          /\ \A t \in Types : t # "start" => light'[job.light].got[t] = light[job.light].got[t]
      BY <1>2, <1>11, <3>1, <3>2, HeardQuietly DEF Questions
    <3>4. HeardUpTo(2)'
      <4>1. 1 \in 0 .. 4 /\ 1 + 1 = 2 /\ HeardUpTo(1)
        BY <2>5
      <4>. QED
        BY <2>1, <2>b, <3>3, <4>1, HeardMore
    <3>5. Answer("start") = <<>>
      BY DEF Answer
    <3>. QED
      BY <2>1, <2>2, <2>3, <2>5, <3>1, <3>3, <3>4, <3>5 DEF Place, Silent
  <2>6. CASE /\ step = 4 /\ air = <<Outgoing("start"), Outgoing("public_key")>>
             /\ rx = <<>> /\ HeardUpTo(1)
    <3>1. air' = <<Outgoing("public_key")>> /\ Head(air) = Outgoing("start")
      <4>1. /\ Head(<<Outgoing("start"), Outgoing("public_key")>>) = Outgoing("start")
            /\ Tail(<<Outgoing("start"), Outgoing("public_key")>>) = <<Outgoing("public_key")>>
        BY ShortSequences
      <4>. QED
        BY <2>1, <2>6, <4>1
    <3>2. Agrees(Outgoing("start"))
      BY <2>2, <2>6, <1>0, QuietAgrees DEF Questions
    <3>3. /\ rx' = Answer("start")
          /\ light'[job.light].got["start"] = Outgoing("start").payload
          /\ \A t \in Types : t # "start" => light'[job.light].got[t] = light[job.light].got[t]
      BY <1>2, <1>11, <2>6, <3>1, <3>2, HeardQuietly DEF Questions
    <3>4. HeardUpTo(2)'
      <4>1. 1 \in 0 .. 4 /\ 1 + 1 = 2 /\ HeardUpTo(1)
        BY <2>6
      <4>. QED
        BY <2>1, <2>b, <3>3, <4>1, HeardMore
    <3>5. Answer("start") = <<>>
      BY DEF Answer
    <3>6. Outgoing("public_key")' = Outgoing("public_key")
      BY <2>1 DEF Outgoing, OurKeys, Us
    <3>. QED
      BY <2>1, <2>2, <2>3, <2>6, <3>1, <3>3, <3>4, <3>5, <3>6 DEF Place, Asking
  <2>7. CASE step = 4 /\ Asking("public_key") /\ HeardUpTo(2)
    <3>1. air' = <<>> /\ Head(air) = Outgoing("public_key") /\ rx = <<>>
      BY <2>7, <2>a DEF Asking
    <3>2. Agrees(Outgoing("public_key"))
      BY <2>2, <2>7, QuietAgrees DEF Questions
    <3>3. /\ rx' = Answer("public_key")
          /\ light'[job.light].got["public_key"] = Outgoing("public_key").payload
          /\ \A t \in Types : t # "public_key" => light'[job.light].got[t] = light[job.light].got[t]
      BY <1>2, <1>11, <3>1, <3>2, HeardQuietly DEF Questions
    <3>4. HeardUpTo(3)'
      <4>1. 2 \in 0 .. 4 /\ 2 + 1 = 3 /\ HeardUpTo(2)
        BY <2>7
      <4>. QED
        BY <2>1, <2>b, <3>3, <4>1, HeardMore
    <3>5. Answer("public_key")' = Answer("public_key")
      BY <2>1, <2>b, <3>3, SameAnswer
    <3>. QED
      BY <2>1, <2>2, <2>3, <2>7, <3>1, <3>3, <3>4, <3>5 DEF Place, Answered
  <2>8. CASE step = 6 /\ Asking("confirmation") /\ HeardUpTo(3)
    <3>1. air' = <<>> /\ Head(air) = Outgoing("confirmation") /\ rx = <<>>
      BY <2>8, <2>a DEF Asking
    <3>2. Agrees(Outgoing("confirmation"))
      BY <2>2, <2>8, QuietAgrees DEF Questions
    <3>3. /\ rx' = Answer("confirmation")
          /\ light'[job.light].got["confirmation"] = Outgoing("confirmation").payload
          /\ \A t \in Types : t # "confirmation" => light'[job.light].got[t] = light[job.light].got[t]
      BY <1>2, <1>11, <3>1, <3>2, HeardQuietly DEF Questions
    <3>4. HeardUpTo(4)'
      <4>1. 3 \in 0 .. 4 /\ 3 + 1 = 4 /\ HeardUpTo(3)
        BY <2>8
      <4>. QED
        BY <2>1, <2>b, <3>3, <4>1, HeardMore
    <3>5. Answer("confirmation")' = Answer("confirmation")
      BY <2>1, <2>b, <3>3, SameAnswer
    <3>. QED
      BY <2>1, <2>2, <2>3, <2>8, <3>1, <3>3, <3>4, <3>5 DEF Place, Answered
  <2>9. CASE step = 8 /\ Asking("random") /\ HeardUpTo(4)
    <3>1. air' = <<>> /\ Head(air) = Outgoing("random") /\ rx = <<>>
      BY <2>9, <2>a DEF Asking
    <3>2. Agrees(Outgoing("random"))
      BY <2>2, <2>9, QuietAgrees DEF Questions
    <3>3. /\ rx' = Answer("random")
          /\ light'[job.light].got["random"] = Outgoing("random").payload
          /\ \A t \in Types : t # "random" => light'[job.light].got[t] = light[job.light].got[t]
      BY <1>2, <1>11, <3>1, <3>2, HeardQuietly DEF Questions
    <3>4. HeardUpTo(5)'
      <4>1. 4 \in 0 .. 4 /\ 4 + 1 = 5 /\ HeardUpTo(4)
        BY <2>9
      <4>. QED
        BY <2>1, <2>b, <3>3, <4>1, HeardMore
    <3>5. Answer("random")' = Answer("random")
      BY <2>1, <2>b, <3>3, SameAnswer
    <3>. QED
      BY <2>1, <2>2, <2>3, <2>9, <3>1, <3>3, <3>4, <3>5 DEF Place, Answered
  <2>10. CASE step = 10 /\ Asking("data") /\ HeardUpTo(5)
    <3>1. air' = <<>> /\ Head(air) = Outgoing("data") /\ rx = <<>>
      BY <2>10, <2>a DEF Asking
    <3>2. Agrees(Outgoing("data"))
      BY <2>2, <2>10, QuietAgrees DEF Questions
    <3>3. rx' = Answer("complete")
      BY <1>2, <1>11, <3>1, <3>2, HeardQuietly DEF Questions
    <3>4. Answer("complete")' = Answer("complete")
      BY <2>1, SameAnswer
    <3>. QED
      BY <2>1, <2>2, <2>3, <2>10, <3>1, <3>3, <3>4 DEF Place, Answered
  <2>11. \/ step = 1 /\ Asking("invite")
         \/ step = 3 /\ Asking("start") /\ HeardUpTo(1)
         \/ /\ step = 4 /\ air = <<Outgoing("start"), Outgoing("public_key")>>
            /\ rx = <<>> /\ HeardUpTo(1)
         \/ step = 4 /\ Asking("public_key") /\ HeardUpTo(2)
         \/ step = 6 /\ Asking("confirmation") /\ HeardUpTo(3)
         \/ step = 8 /\ Asking("random") /\ HeardUpTo(4)
         \/ step = 10 /\ Asking("data") /\ HeardUpTo(5)
    BY <2>1, <2>2 DEF Place, Silent, Answered
  <2>12. HeardUpTo(0)
    BY DEF HeardUpTo
  <2>. QED
    BY <2>4, <2>5, <2>6, <2>7, <2>8, <2>9, <2>10, <2>11, <2>12
<1>. QED
  BY <1>1, <1>5, <1>6, <1>7, <1>8, <1>9, <1>10, <1>11, ExchangeSteps

LEMMA QuietStep ==
  ASSUME Typed, InStep, QuietAttemptSucceeds, [Next]_vars
  PROVE  QuietAttemptSucceeds'
<1>0. job.light \in Lights
  BY DEF Typed
<1>1. SUFFICES ASSUME at' = "failing" PROVE trouble'[job'.light] # {}
  BY DEF QuietAttemptSucceeds
<1>2. job' = job /\ trouble[job.light] \subseteq trouble'[job.light]
  BY <1>0, <1>1, ExchangeSteps, TroubleStays
<1>3. CASE trouble[job.light] # {}
  BY <1>2, <1>3
<1>4. CASE ReceiveTimesOut \/ SendRaises \/ Drop \/ LightMisbehaves
  BY <1>0, <1>2, <1>4, Blamed DEF ReceiveTimesOut, SendRaises, Drop, LightMisbehaves, Woes
<1>5. CASE ReceiveRaises /\ trouble[job.light] = {}
  <2>1. at = "exchange" /\ Exchanging(TRUE) /\ rx # <<>>
          /\ (Head(rx).type # Now.type \/ ~Parses(Head(rx)))
    BY <1>5 DEF ReceiveRaises, Exchanging
  <2>2. Place
    BY <1>5, <2>1 DEF InStep
  <2>3. \/ step = 1 /\ Now.type = "capabilities" /\ Answered("invite")
        \/ step = 4 /\ Now.type = "public_key" /\ Answered("public_key")
        \/ step = 6 /\ Now.type = "confirmation" /\ Answered("confirmation")
        \/ step = 8 /\ Now.type = "random" /\ Answered("random")
        \/ step = 10 /\ Now.type = "complete" /\ Answered("complete")
    BY <2>1, <2>2, AtWait DEF Place, Asking, Silent
  <2>4. \A p : Head(<<p>>) = p
    BY ShortSequences
  <2>5. Head(rx).type = Now.type /\ Parses(Head(rx))
    <3>1. CASE Now.type = "capabilities" /\ Answered("invite")
      BY <2>4, <3>1 DEF Answered, Answer, Wrap, Parses, PayloadLength, Capabilities, Bytes
    <3>2. CASE Now.type = "public_key" /\ Answered("public_key")
      BY <2>4, <3>2 DEF Answered, Answer, Wrap, Parses, PayloadLength, Bytes
    <3>3. CASE Now.type = "confirmation" /\ Answered("confirmation")
      BY <2>4, <3>3 DEF Answered, Answer, Wrap, Parses, PayloadLength, Confirms, aes_cmac, Bytes
    <3>4. CASE Now.type = "random" /\ Answered("random")
      BY <2>4, <3>4 DEF Answered, Answer, Wrap, Parses, PayloadLength, LightRandom, Bytes
    <3>5. CASE Now.type = "complete" /\ Answered("complete")
      BY <2>4, <3>5 DEF Answered, Answer, Wrap, Parses, PayloadLength, Nothing
    <3>. QED
      BY <2>3, <3>1, <3>2, <3>3, <3>4, <3>5
  <2>. QED
    BY <2>1, <2>5
<1>6. CASE at = "failing"
  BY <1>0, <1>2, <1>6 DEF QuietAttemptSucceeds
<1>7. CASE Subscribed \/ SendPdu \/ Receive \/ (LightHearsPdu /\ at # "failing")
           \/ (UNCHANGED vars /\ at # "failing")
  BY <1>1, <1>7 DEF Subscribed, SendPdu, Receive, Exchanging, LightHearsPdu, vars
<1>. QED
  BY <1>1, <1>3, <1>4, <1>5, <1>6, <1>7, ExchangeSteps

-----------------------------------------------------------------------------
LEMMA StepKeepsIInv ==
  ASSUME ProvisioningAssumption, IInv, [Next]_vars
  PROVE  IInv'
<1>1. /\ Typed /\ Bounded /\ Held /\ Fresh /\ Decrypted /\ InStep /\ Configured
      /\ RecordOpensTheLight /\ ListedIsBound /\ StrandedHadTrouble
      /\ QuietAttemptSucceeds /\ NothingElseLeaks /\ Shut
  BY DEF IInv
<1>2. Typed' /\ Bounded'
  BY <1>1, StepKeepsTyped, BoundedStep
<1>3. Held' /\ Fresh' /\ Decrypted'
  BY <1>1, HeldStep, FreshStep, DecryptedStep
<1>4. InStep' /\ Configured'
  BY <1>1, InStepStep, ConfiguredStep
<1>5. RecordOpensTheLight' /\ ListedIsBound'
  BY <1>1, RecordsStep, ListedBoundStep
<1>6. StrandedHadTrouble' /\ QuietAttemptSucceeds' /\ NothingElseLeaks' /\ Shut'
  BY <1>1, StrandedStep, QuietStep, LeaksStep, ShutStep
<1>. QED
  BY <1>2, <1>3, <1>4, <1>5, <1>6 DEF IInv

LEMMA InitIInv ==
  ASSUME ProvisioningAssumption, Init
  PROVE  IInv
<1>1. /\ at = "idle" /\ step = 0 /\ got = Forgotten /\ state = {} /\ link = "closed"
      /\ air = <<>> /\ rx = <<>> /\ light = [l \in Lights |-> Factory]
      /\ records = {} /\ leaked = {} /\ trouble = [l \in Lights |-> {}]
      /\ \E l \in Lights : job = [light |-> l, path |-> "setup", try |-> 0]
  BY DEF Init
<1>2. Typed
  <2>1. IsSeq(air) /\ IsSeq(rx) /\ IsTable(got, Types)
    BY <1>1, ShortSequences, ForgottenIsTable
  <2>2. IsLight(Factory)
    BY LightIs, ForgottenIsTable DEF Factory, Forgotten
  <2>3. IsTable(light, Lights) /\ \A l \in Lights : IsLight(light[l])
    BY <1>1, <2>2 DEF IsTable
  <2>4. job \in [light : Lights, path : Paths, try : Nat]
    BY <1>1 DEF Paths
  <2>. QED
    BY <1>1, <2>1, <2>3, <2>4 DEF Typed, Stages
<1>3. Bounded
  BY <1>1 DEF Bounded, ProvisioningAssumption
<1>4. Held /\ Fresh /\ Decrypted /\ InStep /\ QuietAttemptSucceeds
  BY <1>1 DEF Held, Holding, Fresh, Decrypted, InStep, QuietAttemptSucceeds
<1>5. Configured /\ RecordOpensTheLight /\ ListedIsBound /\ NothingElseLeaks /\ Shut
  BY <1>1 DEF Configured, RecordOpensTheLight, ListedIsBound, NothingElseLeaks, Shut
<1>6. StrandedHadTrouble
  <2>1. \A l \in Lights : light[l].mode = "factory"
    BY <1>1 DEF Factory
  <2>. QED
    BY <2>1 DEF StrandedHadTrouble
<1>. QED
  BY <1>2, <1>3, <1>4, <1>5, <1>6 DEF IInv

THEOREM Invariance == Spec => []IInv
<1>1. Init => IInv
  BY InitIInv, ProvisioningAssumption
<1>2. IInv /\ [Next]_vars => IInv'
  BY StepKeepsIInv, ProvisioningAssumption
<1>. QED
  BY <1>1, <1>2, PTL DEF Spec

\* No state of any run is outside the types the run checks: one MeshState at most,
\* and no more attempts than the bound.
THEOREM TypesHold == Spec => []TypeOK
<1>1. IInv => TypeOK
  <2>. SUFFICES ASSUME Typed, Bounded PROVE TypeOK
    BY DEF IInv
  <2>1. Len(Script) = 11
    BY ScriptIs
  <2>2. job \in [light : Lights, path : Paths, try : 0 .. MaxTries]
    BY ProvisioningAssumption DEF Typed, Bounded, ProvisioningAssumption
  <2>3. Cardinality(state) <= 1
    BY FS_EmptySet, FS_Singleton DEF Bounded
  <2>. QED
    BY <2>1, <2>2, <2>3 DEF TypeOK, Typed, Bounded, Woes
<1>. QED
  BY <1>1, Invariance, PTL

\* config_flow.py, _finish_entry and _complete_join: what is recorded of a light is what
\* the light itself took, whatever was lost, refused or reset around it.
THEOREM RecordsOpenLights == Spec => []RecordOpensTheLight
<1>1. IInv => RecordOpensTheLight
  BY DEF IInv
<1>. QED
  BY <1>1, Invariance, PTL

\* config_session.py, ConfigSession.run, which hears no answer: a light that is listed
\* without its application key or binding lost a message or its link on the way.
THEOREM ListedLightsAreBound == Spec => []ListedIsBound
<1>1. IInv => ListedIsBound
  BY DEF IInv
<1>. QED
  BY <1>1, Invariance, PTL

\* A light on a mesh that no entry lists, and no attempt holds, had an attempt that
\* went wrong or was closed.
THEOREM StrandingTakesTrouble == Spec => []StrandedHadTrouble
<1>1. IInv => StrandedHadTrouble
  BY DEF IInv
<1>. QED
  BY <1>1, Invariance, PTL

\* provisioning.py, ProvisioningSession._exchange: the two ends, each from its own keys
\* and what it has heard, never fail one another of themselves.
THEOREM QuietAttemptsSucceed == Spec => []QuietAttemptSucceeds
<1>1. IInv => QuietAttemptSucceeds
  BY DEF IInv
<1>. QED
  BY <1>1, Invariance, PTL

\* provisioning.py, ProvisioningSession.run, and config_session.py, ConfigSession.run:
\* an attempt leaves its connection open only where its subscription failed, before the
\* try, or where disconnect itself did not come to its end.
THEOREM AttemptsCloseTheirs == Spec => []NothingElseLeaks
<1>1. IInv => NothingElseLeaks
  BY DEF IInv
<1>. QED
  BY <1>1, Invariance, PTL
=============================================================================
