--------------------------- MODULE SiblingsProofs ---------------------------
(***************************************************************************)
(* What Siblings' run checks of the controls of one light, for every row   *)
(* of the table of models, every setting and any number of commands,       *)
(* moves and selections.  The last section states the theorems; below are  *)
(* the invariants they rest on and, section by section, what each frame    *)
(* reads as, what each operation does to the values, and what each step    *)
(* keeps.                                                                  *)
(***************************************************************************)
EXTENDS Siblings, SequenceTheorems, WellFoundedInduction, TLAPS

-----------------------------------------------------------------------------
\* The brightness of a command, in tenths of a percent, and a wide channel.
Brightness == 1 .. 1000
PerMille == 0 .. 1000

\* What the light entity and the values it shares with its sliders are.
AllModes == {"cct", "hs", "rgbw", "rgbww", "xy", "brightness"}
Shades == [cct : Int, xy : [1 .. 2 -> Coordinate], hs : (0 .. 360) \X (0 .. 100),
           rgbw : [1 .. 4 -> Byte], rgbww : [1 .. 5 -> Byte], brightness : {0}]
Lights == [on : BOOLEAN, mode : AllModes, shade : Shades, effect : Nat, level : Brightness]
Values == [xy : [1 .. 2 -> Coordinate], speed : Nat, running : Nat, tint : -100 .. 100,
           selfie : BOOLEAN, pct : PerMille, pair : Byte \X Word]
InRange(h, d) == MinKelvin(d) <= h.shade.cct /\ h.shade.cct <= MaxKelvin(d)
Plays(h) == h.effect \in Effects(Model) \cup {NoEffect}

Turns == {"idle", "power", "body", "again", "off"}
SelectControls == {"none", "mode", "frequency", "gel", "fan", "smoothness"}
History == [synced : BOOLEAN, astray : BOOLEAN, paired : BOOLEAN,
            stale : SUBSET (SelectControls \cup {"motion"})]

\* The light entity and the shared values, in the ranges the row of the table gives them.
Fits(h, d) ==
  /\ h \in Lights /\ Plays(h) /\ InRange(h, d)
  /\ h.mode = "brightness" => ~HasTint(Model)
  /\ d \in Values
ArePicks(p) ==
  /\ p = [x \in {"select", "switch"} |-> [control |-> p[x].control, value |-> p[x].value]]
  /\ p["select"].control \in SelectControls /\ p["switch"].control \in {"none", "motion"}
IsLamp(l) == l = [leds |-> l.leds, look |-> l.look, pair |-> l.pair, knobs |-> l.knobs]
IsQueue(q) == q \in Seq(Range(q))

\* Every variable has its type.
TypeInv ==
  /\ device \in Devices
  /\ Fits(ha, data)
  /\ turn \in Turns
  /\ IsQueue(bus)
  /\ DOMAIN shown = Controls
  /\ ArePicks(picks)
  /\ IsLamp(lamp)
  /\ seen \in History

\* What a look's frame asks of the light, whatever the sliders' pair.
Wanted(h, d) == IF h.effect # NoEffect THEN EffectShown(h, d) ELSE ColourShown(h, d, h.shade.xy)

\* Kinds of frames: with a look, of the lesser controls; what a call's frame reads as.
LookKinds == {"cct", "hs", "rgbw", "rgb", "xy", "selfie", "effect"}
KnobKinds == {"fan", "smoothness", "motion"}
Halves == {"mode", "frequency"}
Picked == picks["select"].control
KindOf(c) == Reads(c.frame).kind

\* What each caller may have on the way; a turn and a select each wait for one call.
CallFits(c, t, p) ==
  \/ c.from = "turn" /\ t # "idle" /\ KindOf(c) \in (IF t = "body" THEN LookKinds ELSE {"power"})
  \/ c.from = "slider" /\ KindOf(c) \in LookKinds
  \/ c.from = "select" /\ \/ p \in Halves /\ KindOf(c) = "control"
                          \/ p = "gel" /\ KindOf(c) \in {"none", "gel"}
                          \/ p \in KnobKinds /\ KindOf(c) \in KnobKinds
  \/ c.from = "switch" /\ KindOf(c) = "motion"
CallsFit(q, t, p) ==
  /\ \A i \in 1 .. Len(q) : CallFits(q[i], t, p)
  /\ \A i, j \in 1 .. Len(q) : q[i].from = q[j].from /\ q[i].from \in {"turn", "select"} => i = j
CallsInv == CallsFit(bus, turn, Picked)

\* What is on its way, what the light holds and what the selects display are the pair
\* of the shared values, but for the select whose choice is not carried out yet.
PairInv ==
  /\ \A i \in 1 .. Len(bus) : bus[i].from = "select" /\ Picked \in Halves => Reads(bus[i].frame).pair = data.pair
  /\ seen.paired /\ Picked \notin Halves => lamp.pair = data.pair
  /\ Picked = "mode" => picks["select"].value = data.pair[1]
  /\ Picked = "frequency" => picks["select"].value = data.pair[2]
  /\ Picked # "mode" /\ "mode" \notin seen.stale => shown["mode"] = data.pair[1]
  /\ Picked # "frequency" /\ "frequency" \notin seen.stale => shown["frequency"] = data.pair[2]

\* The calls that decide what the light does in the end: those of the sliders and,
\* while it is on the way, the look of turn_on; a command whose power frame has not
\* been sent has yet to ask for its look, so only moves made since it came count.
Counts(q, t, i) ==
  IF t = "power" THEN q[i].from = "slider" /\ \A j \in 1 .. Len(q) : q[j].from = "turn" => j < i
                 ELSE q[i].from = "slider" \/ (t = "body" /\ q[i].from = "turn")
NoneCounts(q, t) == \A i \in 1 .. Len(q) : ~Counts(q, t, i)
LastReads(q, t, look) ==
  \A i \in 1 .. Len(q) :
     Counts(q, t, i) /\ (\A j \in 1 .. Len(q) : Counts(q, t, j) => j <= i) => Reads(q[i].frame) = look

\* The last call that counts asks for what the controls show, and when none is left the
\* light does it.  A light that is off, or that takes no notice, owes nothing.
Heeded == (ha.on \/ turn \in {"body", "again"}) /\ ~seen.astray
ObeyInv ==
  /\ ha.on /\ ha.mode = "xy" => data.xy = ha.shade.xy
  /\ Heeded =>
       /\ LastReads(bus, turn, Wanted(ha, data))
       /\ NoneCounts(bus, turn) /\ turn # "power" /\ seen.synced /\ lamp.look.kind # "gel"
            => lamp.look = Wanted(ha, data)

-----------------------------------------------------------------------------
\* What each frame reads as.
LEMMA TensOf == ASSUME NEW b \in Int, 0 <= b, b <= 1000
  PROVE /\ b \div 10 \in Int /\ 0 <= b \div 10 /\ b \div 10 <= 100
        /\ b % 10 \in Int /\ 0 <= b % 10 /\ b % 10 <= 9
        /\ 10 * (b \div 10) + (b % 10) = b
        /\ (10 * (b \div 10)) \div 10 = b \div 10
OBVIOUS

LEMMA LevelIs == ASSUME NEW b \in Brightness
  PROVE /\ Percent(b) \in Int /\ 0 <= Percent(b) /\ Percent(b) <= 100 /\ Percent(b) \in Byte
        /\ Tenths(b) \in Int /\ Tenths(b) \in Byte /\ 10 * Percent(b) + Tenths(b) = b
<1>1. b \in Int /\ 1 <= b /\ b <= 1000
  BY DEF Brightness
<1>2. Percent(b) = b \div 10 /\ Tenths(b) = b % 10
  BY <1>1 DEF Percent, Tenths
<1>. QED BY <1>1, <1>2, TensOf DEF Byte

LEMMA WholePercent == ASSUME NEW b \in Brightness
  PROVE 10 * Percent(b) \in Int /\ Percent(10 * Percent(b)) = Percent(b)
<1>1. b \in Int /\ 1 <= b /\ b <= 1000
  BY DEF Brightness
<1>2. Percent(b) = b \div 10
  BY <1>1 DEF Percent
<1>3. 10 * (b \div 10) \in Int /\ 10 * (b \div 10) >= 0
  BY <1>1, TensOf
<1>4. Percent(10 * (b \div 10)) = (10 * (b \div 10)) \div 10
  BY <1>3 DEF Percent
<1>. QED BY <1>1, <1>2, <1>3, <1>4, TensOf

LEMMA ByteIs == ASSUME NEW n \in Int PROVE n \in Byte <=> 0 <= n /\ n <= 255
BY DEF Byte

LEMMA LowIs == ASSUME NEW n \in Int PROVE Low(n) \in Byte /\ High(n) \in Byte
BY DEF Low, High, Byte

LEMMA WordInt == ASSUME NEW n \in Word PROVE n \in Int
BY DEF Word

LEMMA CoordinateInt == ASSUME NEW n \in Coordinate PROVE n \in Int /\ n \in Word
BY DEF Coordinate, Word

LEMMA JoinedIs == ASSUME NEW n \in Word PROVE Joined(High(n), Low(n)) = n
<1>1. n \in Int /\ 0 <= n /\ n < 256 * 256
  BY DEF Word
<1>2. n \div 256 \in Int /\ 0 <= n \div 256 /\ n \div 256 < 256
  BY <1>1
<1>3. (n \div 256) % 256 = n \div 256
  BY <1>2
<1>4. 256 * (n \div 256) + (n % 256) = n
  BY <1>1
<1>. QED BY <1>3, <1>4 DEF Low, High, Joined

\* The colour temperatures a frame can carry.
Kelvins == 0 .. CctMax

LEMMA HundredsIs == ASSUME NEW k \in Kelvins PROVE k \in Int /\ k \div 100 \in Int /\ k \div 100 \in Byte
BY DEF Kelvins, CctMax, Byte

LEMMA V2Five ==
  ASSUME NEW sub, NEW end, NEW a \in Byte, NEW b \in Byte, NEW c \in Byte, NEW d \in Byte, NEW e \in Byte
  PROVE V2(sub, end, <<a, b, c, d, e>>) = [sub |-> sub, end |-> end, data |-> <<a, b, c, d, e>>]
<1>1. Len(<<a, b, c, d, e>>) = 5
  OBVIOUS
<1>2. [i \in 1 .. 5 |-> IF i <= Len(<<a, b, c, d, e>>) THEN <<a, b, c, d, e>>[i] ELSE Pad] = <<a, b, c, d, e>>
  BY <1>1
<1>3. \A i \in 1 .. Len(<<a, b, c, d, e>>) : <<a, b, c, d, e>>[i] \in Byte
  BY <1>1
<1>. QED BY <1>1, <1>2, <1>3 DEF V2, Checked

LEMMA ReadsCct ==
  ASSUME NEW b \in Brightness, NEW min \in Int, NEW max \in Int, NEW kelvin \in Int,
         min <= kelvin, kelvin <= max, kelvin \in Kelvins,
         NEW gm \in Int, -100 <= gm, gm <= 100, NEW tinted \in BOOLEAN
  PROVE Reads(CctFrame(b, kelvin, gm, tinted, 0, min, max)) =
          [kind |-> "cct", level |-> b, kelvin |-> 100 * (kelvin \div 100), tint |-> gm]
<1>0. PICK p, k, g, c, z : /\ p = Percent(b) /\ k = kelvin \div 100 /\ g = Low(gm + 50) /\ c = 0
                           /\ z = IF tinted THEN Low(gm) ELSE 0
  OBVIOUS
<1>1. gm + 50 \in Int
  OBVIOUS
<1>2. p \in Byte /\ k \in Byte /\ g \in Byte /\ c \in Byte /\ z \in Byte
  <2>1. k \in Byte
    BY <1>0, HundredsIs
  <2>. QED BY <1>0, <1>1, <2>1, LevelIs, LowIs, ByteIs
<1>3. CctFrame(b, kelvin, gm, tinted, 0, min, max) = V2(240, Tenths(b), <<p, k, g, c, z>>)
  <2>1. ValidBrightness(b) /\ ValidCct(kelvin, min, max) /\ gm \in -100 .. 100
    BY DEF Brightness, ValidBrightness, ValidCct
  <2>2. (IF 0 \in 0 .. 3 THEN 0 ELSE Pad) = c
    BY <1>0
  <2>. QED BY <1>0, <2>1, <2>2 DEF CctFrame, Checked
<1>4. V2(240, Tenths(b), <<p, k, g, c, z>>) = [sub |-> 240, end |-> Tenths(b), data |-> <<p, k, g, c, z>>]
  BY <1>2, V2Five, SMT
<1>5. TintOf(g) = gm
  BY <1>0 DEF TintOf, Low
<1>6. 10 * p + Tenths(b) = b
  BY <1>0, LevelIs
<1> DEFINE f == [sub |-> 240, end |-> Tenths(b), data |-> <<p, k, g, c, z>>]
<1>7. Level(f) = b
  BY <1>6 DEF Level
<1>8. Reads(f) = [kind |-> "cct", level |-> Level(f), kelvin |-> 100 * k, tint |-> TintOf(g)]
  BY DEF Reads
<1>. HIDE DEF f
<1>9. CctFrame(b, kelvin, gm, tinted, 0, min, max) = f
  BY <1>3, <1>4 DEF f
<1>. QED BY <1>0, <1>5, <1>7, <1>8, <1>9

LEMMA OneFour ==
  ASSUME NEW S, NEW a \in S, NEW b \in S, NEW c \in S, NEW d \in S, NEW e \in S
  PROVE <<a>> \o <<b, c, d, e>> = <<a, b, c, d, e>>
<1>0. PICK q : q = <<a>> \o <<b, c, d, e>>
  OBVIOUS
<1>1. <<a>> \in Seq(S) /\ <<b, c, d, e>> \in Seq(S)
  OBVIOUS
<1>2. q \in Seq(S) /\ Len(q) = 5 /\ q[1] = a /\ q[2] = b /\ q[3] = c /\ q[4] = d /\ q[5] = e
  BY <1>0, <1>1
<1>3. q = <<q[1], q[2], q[3], q[4], q[5]>>
  BY <1>2
<1>. QED BY <1>0, <1>2, <1>3

LEMMA FourTwo ==
  ASSUME NEW S, NEW a \in S, NEW b \in S, NEW c \in S, NEW d \in S, NEW e \in S, NEW f \in S
  PROVE <<a, b, c, d>> \o <<e, f>> = <<a, b, c, d, e, f>>
<1>0. PICK q : q = <<a, b, c, d>> \o <<e, f>>
  OBVIOUS
<1>1. <<a, b, c, d>> \in Seq(S) /\ <<e, f>> \in Seq(S)
  OBVIOUS
<1>2. q \in Seq(S) /\ Len(q) = 6 /\ q[1] = a /\ q[2] = b /\ q[3] = c /\ q[4] = d /\ q[5] = e /\ q[6] = f
  BY <1>0, <1>1
<1>3. q = <<q[1], q[2], q[3], q[4], q[5], q[6]>>
  BY <1>2
<1>. QED BY <1>0, <1>2, <1>3

LEMMA FourThree ==
  ASSUME NEW S, NEW a \in S, NEW b \in S, NEW c \in S, NEW d \in S, NEW e \in S, NEW f \in S, NEW g \in S
  PROVE <<a, b, c, d>> \o <<e, f, g>> = <<a, b, c, d, e, f, g>>
<1>0. PICK q : q = <<a, b, c, d>> \o <<e, f, g>>
  OBVIOUS
<1>1. <<a, b, c, d>> \in Seq(S) /\ <<e, f, g>> \in Seq(S)
  OBVIOUS
<1>2. q \in Seq(S) /\ Len(q) = 7 /\ q[1] = a /\ q[2] = b /\ q[3] = c /\ q[4] = d /\ q[5] = e /\ q[6] = f /\ q[7] = g
  BY <1>0, <1>1
<1>3. q = <<q[1], q[2], q[3], q[4], q[5], q[6], q[7]>>
  BY <1>2
<1>. QED BY <1>0, <1>2, <1>3

LEMMA V2Three ==
  ASSUME NEW sub, NEW end, NEW a \in Byte, NEW b \in Byte, NEW c \in Byte
  PROVE V2(sub, end, <<a, b, c>>) = [sub |-> sub, end |-> end, data |-> <<a, b, c, Pad, Pad>>]
<1>1. Len(<<a, b, c>>) = 3
  OBVIOUS
<1>2. [i \in 1 .. 5 |-> IF i <= Len(<<a, b, c>>) THEN <<a, b, c>>[i] ELSE Pad] = <<a, b, c, Pad, Pad>>
  BY <1>1
<1>3. \A i \in 1 .. Len(<<a, b, c>>) : <<a, b, c>>[i] \in Byte
  BY <1>1
<1>. QED BY <1>1, <1>2, <1>3 DEF V2, Checked

LEMMA ReadsHsi ==
  ASSUME NEW b \in Brightness, NEW hue \in 0 .. 360,
         NEW sat \in 0 .. 100
  PROVE Reads(HsiFrame(b, hue, sat, 0)) = [kind |-> "hs", level |-> b, colour |-> <<hue, sat>>]
<1>0. PICK p, lo, hi, z : p = Percent(b) /\ lo = Low(hue) /\ hi = High(hue) /\ z = 0
  OBVIOUS
<1>1. p \in Byte /\ lo \in Byte /\ hi \in Byte /\ sat \in Byte /\ z \in Byte
  BY <1>0, LevelIs, LowIs, ByteIs
<1>2. HsiFrame(b, hue, sat, 0) = V2(241, Tenths(b), <<p, lo, hi, sat, z>>)
  <2>1. ValidBrightness(b) /\ hue \in 0 .. 360 /\ sat \in 0 .. 100
    BY DEF Brightness, ValidBrightness
  <2>. QED BY <1>0, <2>1 DEF HsiFrame, Checked
<1>3. V2(241, Tenths(b), <<p, lo, hi, sat, z>>) = [sub |-> 241, end |-> Tenths(b), data |-> <<p, lo, hi, sat, z>>]
  BY <1>1, V2Five, SMT
<1>4. Joined(hi, lo) = hue
  <2>1. hue \in Word
    BY DEF Word
  <2>. QED BY <1>0, <2>1, JoinedIs
<1>5. 10 * p + Tenths(b) = b
  BY <1>0, LevelIs
<1> DEFINE f == [sub |-> 241, end |-> Tenths(b), data |-> <<p, lo, hi, sat, z>>]
<1>6. Level(f) = b
  BY <1>5 DEF Level
<1>7. Reads(f) = [kind |-> "hs", level |-> Level(f), colour |-> <<Joined(hi, lo), sat>>]
  BY DEF Reads
<1>. HIDE DEF f
<1>8. HsiFrame(b, hue, sat, 0) = f
  BY <1>2, <1>3 DEF f
<1>. QED BY <1>4, <1>6, <1>7, <1>8

LEMMA ReadsRgbw ==
  ASSUME NEW b \in Brightness, NEW r \in Byte, NEW g \in Byte, NEW e \in Byte, NEW w \in Byte
  PROVE Reads(RgbwFrame(b, <<r, g, e, w>>)) = [kind |-> "rgbw", level |-> b, colour |-> <<r, g, e, w>>]
<1>0. PICK p : p = Percent(b)
  OBVIOUS
<1>1. p \in Byte
  BY <1>0, LevelIs
<1>2. RgbwFrame(b, <<r, g, e, w>>) = V2(242, Tenths(b), <<p, r, g, e, w>>)
  <2>1. ValidBrightness(b)
    BY DEF Brightness, ValidBrightness
  <2>2. \A i \in 1 .. 4 : <<r, g, e, w>>[i] \in 0 .. 255
    BY DEF Byte
  <2>3. <<p>> \o <<r, g, e, w>> = <<p, r, g, e, w>>
    BY <1>1, OneFour
  <2>. QED BY <1>0, <2>1, <2>2, <2>3 DEF RgbwFrame, Checked
<1>3. V2(242, Tenths(b), <<p, r, g, e, w>>) = [sub |-> 242, end |-> Tenths(b), data |-> <<p, r, g, e, w>>]
  BY <1>1, V2Five, SMT
<1>5. 10 * p + Tenths(b) = b
  BY <1>0, LevelIs
<1> DEFINE f == [sub |-> 242, end |-> Tenths(b), data |-> <<p, r, g, e, w>>]
<1>6. Level(f) = b
  BY <1>5 DEF Level
<1>7. Reads(f) = [kind |-> "rgbw", level |-> Level(f), colour |-> <<r, g, e, w>>]
  BY DEF Reads
<1>. HIDE DEF f
<1>8. RgbwFrame(b, <<r, g, e, w>>) = f
  BY <1>2, <1>3 DEF f
<1>. QED BY <1>6, <1>7, <1>8

LEMMA ReadsXy ==
  ASSUME NEW b \in Brightness, NEW x \in Coordinate, NEW y \in Coordinate
  PROVE Reads(XyFrame(b, x, y)) = [kind |-> "xy", level |-> b, colour |-> <<x, y>>]
<1>0. PICK p, t, hx, lx, hy, ly : /\ p = Percent(b) /\ t = Tenths(b) /\ hx = High(x) /\ lx = Low(x)
                                   /\ hy = High(y) /\ ly = Low(y)
  OBVIOUS
<1>1. p \in Byte /\ t \in Byte /\ hx \in Byte /\ lx \in Byte /\ hy \in Byte /\ ly \in Byte
  BY <1>0, LevelIs, CoordinateInt, LowIs
<1> DEFINE bytes == <<p, t, hx, lx, hy, ly>>
           f == [sub |-> 250, length |-> 9, data |-> bytes]
<1>2. XyFrame(b, x, y) = V3(250, bytes)
  <2>1. ValidBrightness(b) /\ x \in Coordinate /\ y \in Coordinate
    <3>1. ValidBrightness(b)
      BY DEF Brightness, ValidBrightness
    <3>. QED BY <3>1
  <2>. QED BY <1>0, <2>1 DEF XyFrame, Checked
<1>3. V3(250, bytes) = f
  <2>1. Len(bytes) = 6 /\ \A i \in 1 .. 6 : bytes[i] \in Byte
    BY <1>1
  <2>2. Len(bytes) + 3 \in Byte
    BY <2>1 DEF Byte
  <2>. QED BY <2>1, <2>2 DEF V3, Checked
<1>4. Joined(hx, lx) = x /\ Joined(hy, ly) = y
  BY <1>0, CoordinateInt, JoinedIs
<1>5. 10 * p + t = b
  BY <1>0, LevelIs
<1>6. Level(f) = b
  BY <1>5 DEF Level
<1>7. Reads(f) = [kind |-> "xy", level |-> Level(f), colour |-> <<Joined(hx, lx), Joined(hy, ly)>>]
  BY DEF Reads
<1>. HIDE DEF f
<1>. QED BY <1>2, <1>3, <1>4, <1>6, <1>7

LEMMA ReadsSelfie ==
  ASSUME NEW b \in Brightness, NEW kelvin \in Kelvins
  PROVE Reads(SelfieFrame(b, kelvin)) =
          [kind |-> "selfie", level |-> 10 * Percent(b), kelvin |-> 100 * (kelvin \div 100)]
<1>0. PICK p, k : p = Percent(b) /\ k = kelvin \div 100
  OBVIOUS
<1>1. p \in Byte /\ k \in Byte /\ 5 \in Byte /\ 0 \in Byte /\ 1 \in Byte /\ 2 \in Byte
  BY <1>0, LevelIs, HundredsIs, ByteIs
<1> DEFINE bytes == <<5, 0, 1, 2, p, k>>
           f == [sub |-> 252, length |-> 9, data |-> bytes]
<1>2. SelfieFrame(b, kelvin) = V3(252, bytes)
  <2>1. ValidBrightness(b)
    BY DEF Brightness, ValidBrightness
  <2>2. <<5, 0, 1, 2>> \o <<p, k>> = bytes
    BY <1>1, FourTwo
  <2>3. Len(<<p, k>>) = 2
    OBVIOUS
  <2>. HIDE DEF bytes
  <2>4. Structured(5, 0, <<p, k>>) = V3(252, bytes)
    <3>1. Structured(5, 0, <<p, k>>) = V3(252, <<5, 0, 1, 2>> \o <<p, k>>)
      BY <2>3 DEF Structured
    <3>. QED BY <3>1, <2>2
  <2>. QED BY <1>0, <2>1, <2>4 DEF SelfieFrame, Checked
<1>3. V3(252, bytes) = f
  <2>1. Len(bytes) = 6 /\ \A i \in 1 .. 6 : bytes[i] \in Byte
    BY <1>1
  <2>2. Len(bytes) + 3 \in Byte
    BY <2>1 DEF Byte
  <2>. QED BY <2>1, <2>2 DEF V3, Checked
<1>6. Level(f) = 10 * p
  BY DEF Level
<1>7. Reads(f) = [kind |-> "selfie", level |-> Level(f), kelvin |-> 100 * k]
  BY DEF Reads
<1>. HIDE DEF f
<1>. QED BY <1>0, <1>2, <1>3, <1>6, <1>7

LEMMA ReadsControl ==
  ASSUME NEW mode \in Byte, NEW frequency \in Word
  PROVE Reads(ControlModeFrame(mode, frequency)) = [kind |-> "control", pair |-> <<mode, frequency>>]
<1>0. PICK hi, lo : hi = High(frequency) /\ lo = Low(frequency)
  OBVIOUS
<1>1. hi \in Byte /\ lo \in Byte /\ 3 \in Byte /\ 1 \in Byte
  BY <1>0, WordInt, LowIs, ByteIs
<1> DEFINE bytes == <<3, 1, 1, 3, mode, hi, lo>>
           f == [sub |-> 252, length |-> 10, data |-> bytes]
<1>2. ControlModeFrame(mode, frequency) = V3(252, bytes)
  <2>2. <<3, 1, 1, 3>> \o <<mode, hi, lo>> = bytes
    BY <1>1, FourThree
  <2>3. Len(<<mode, hi, lo>>) = 3
    OBVIOUS
  <2>. HIDE DEF bytes
  <2>4. Structured(3, 1, <<mode, hi, lo>>) = V3(252, bytes)
    <3>1. Structured(3, 1, <<mode, hi, lo>>) = V3(252, <<3, 1, 1, 3>> \o <<mode, hi, lo>>)
      BY <2>3 DEF Structured
    <3>. QED BY <3>1, <2>2, Zenon
  <2>. QED BY <1>0, <2>4 DEF ControlModeFrame, Checked
<1>3. V3(252, bytes) = f
  <2>1. Len(bytes) = 7 /\ \A i \in 1 .. 7 : bytes[i] \in Byte
    BY <1>1
  <2>2. Len(bytes) + 3 \in Byte
    BY <2>1 DEF Byte
  <2>. QED BY <2>1, <2>2 DEF V3, Checked
<1>4. Joined(hi, lo) = frequency
  BY <1>0, WordInt, JoinedIs
<1>7. Reads(f) = [kind |-> "control", pair |-> <<mode, Joined(hi, lo)>>]
  BY DEF Reads
<1>. HIDE DEF f
<1>. QED BY <1>2, <1>3, <1>4, <1>7

LEMMA PerMilleWord == ASSUME NEW n \in PerMille PROVE n \in Word
BY DEF PerMille, Word

LEMMA ReadsWide ==
  ASSUME NEW b \in Brightness, NEW rgb \in Seq(PerMille), Len(rgb) = 3,
         NEW extra \in Seq(PerMille), Len(extra) = 3, NEW type \in Byte
  PROVE Reads(RgbWideFrame(b, rgb, type, extra)) =
          [kind |-> "rgb", level |-> b, type |-> type, colour |-> [i \in 1 .. 6 |-> (rgb \o extra)[i]]]
<1>0. PICK p, t, c : p = Percent(b) /\ t = Tenths(b) /\ c = rgb \o extra
  OBVIOUS
<1>1. p \in Byte /\ t \in Byte
  BY <1>0, LevelIs, Zenon
<1>2. \A i \in 1 .. 6 : c[i] \in PerMille /\ c[i] \in Word
  <2>1. c \in Seq(PerMille) /\ Len(c) = Len(rgb) + Len(extra)
    BY <1>0, ConcatProperties
  <2>2. Len(c) = 6
    BY <2>1
  <2>3. \A i \in 1 .. 6 : c[i] \in PerMille
    BY <2>1, <2>2, ElementOfSeq
  <2>. QED BY <2>3, PerMilleWord
<1> DEFINE w == [i \in 1 .. 12 |-> IF i % 2 = 1 THEN High(c[(i + 1) \div 2]) ELSE Low(c[i \div 2])]
           bytes == <<p, t, type>> \o w
           f == [sub |-> 249, length |-> 18, data |-> bytes]
<1>3. \A i \in 1 .. 6 : High(c[i]) \in Byte /\ Low(c[i]) \in Byte /\ Joined(High(c[i]), Low(c[i])) = c[i]
  BY <1>2, WordInt, LowIs, JoinedIs
<1>4. \A i \in 1 .. 6 : w[2 * i - 1] = High(c[i]) /\ w[2 * i] = Low(c[i])
  <2>1. \A i \in 1 .. 6 : /\ 2 * i - 1 \in 1 .. 12 /\ (2 * i - 1) % 2 = 1 /\ (2 * i - 1 + 1) \div 2 = i
                         /\ 2 * i \in 1 .. 12 /\ (2 * i) % 2 = 0 /\ (2 * i) \div 2 = i
    OBVIOUS
  <2>. QED BY <2>1
<1>5. \A i \in 1 .. 12 : w[i] \in Byte
  <2> SUFFICES ASSUME NEW i \in 1 .. 12 PROVE w[i] \in Byte
    OBVIOUS
  <2>1. CASE i % 2 = 1
    <3>1. (i + 1) \div 2 \in 1 .. 6
      BY <2>1
    <3>. QED BY <2>1, <3>1, <1>3
  <2>2. CASE i % 2 # 1
    <3>1. i \div 2 \in 1 .. 6
      BY <2>2
    <3>. QED BY <2>2, <3>1, <1>3
  <2>. QED BY <2>1, <2>2
<1>6. /\ <<p, t, type>> \in Seq(Byte) /\ Len(<<p, t, type>>) = 3
      /\ w \in Seq(Byte) /\ Len(w) = 12
  <2>1. <<p, t, type>> \in Seq(Byte) /\ Len(<<p, t, type>>) = 3
    BY <1>1
  <2>2. w \in [1 .. 12 -> Byte]
    BY <1>5
  <2>3. w \in Seq(Byte)
    BY <2>2
  <2>4. Len(w) = 12
    BY <2>3
  <2>. QED BY <2>1, <2>3, <2>4
<1>. HIDE DEF w
<1>7. /\ bytes \in Seq(Byte) /\ Len(bytes) = 15 /\ bytes[1] = p /\ bytes[2] = t /\ bytes[3] = type
      /\ \A i \in 1 .. 12 : bytes[3 + i] = w[i]
  <2>0. PICK s : s = <<p, t, type>>
    OBVIOUS
  <2>1. s \in Seq(Byte) /\ Len(s) = 3 /\ s[1] = p /\ s[2] = t /\ s[3] = type
    BY <1>1, <2>0
  <2>2. bytes = s \o w
    BY <2>0
  <2>. HIDE DEF bytes
  <2>3. /\ bytes \in Seq(Byte) /\ Len(bytes) = Len(s) + Len(w)
        /\ \A i \in 1 .. Len(s) + Len(w) : bytes[i] = IF i <= Len(s) THEN s[i] ELSE w[i - Len(s)]
    <3>1. /\ s \o w \in Seq(Byte) /\ Len(s \o w) = Len(s) + Len(w)
          /\ \A i \in 1 .. Len(s) + Len(w) : (s \o w)[i] = IF i <= Len(s) THEN s[i] ELSE w[i - Len(s)]
      <4>1. s \in Seq(Byte) /\ w \in Seq(Byte)
        BY <1>6, <2>1
      <4>. QED BY <4>1, ConcatProperties, Zenon
    <3>. QED BY <3>1, <2>2, Zenon
  <2>4. Len(bytes) = 15 /\ \A i \in 1 .. 15 : bytes[i] = IF i <= 3 THEN s[i] ELSE w[i - 3]
    BY <1>6, <2>1, <2>3
  <2>5. ASSUME NEW i \in 1 .. 12 PROVE bytes[3 + i] = w[i]
    <3>1. 3 + i \in 1 .. 15 /\ ~(3 + i <= 3) /\ (3 + i) - 3 = i
      OBVIOUS
    <3>. QED BY <2>4, <3>1
  <2>6. bytes[1] = s[1] /\ bytes[2] = s[2] /\ bytes[3] = s[3]
    BY <2>4
  <2>. QED BY <2>1, <2>3, <2>4, <2>5, <2>6
<1>8. RgbWideFrame(b, rgb, type, extra) = V3(249, bytes)
  <2>1. ValidBrightness(b)
    BY DEF Brightness, ValidBrightness
  <2>2. \A i \in 1 .. 6 : c[i] \in 0 .. 1000
    <3>1. \A i \in 1 .. 6 : c[i] \in PerMille
      BY <1>2
    <3>. QED BY <3>1, Zenon DEF PerMille
  <2>3. <<Percent(b), Tenths(b), type>> \o [i \in 1 .. 12 |-> IF i % 2 = 1 THEN High(c[(i + 1) \div 2])
                                                                          ELSE Low(c[i \div 2])] = bytes
    BY <1>0 DEF w
  <2>. HIDE DEF bytes
  <2>. QED BY <1>0, <2>1, <2>2, <2>3 DEF RgbWideFrame, Checked
<1>. HIDE DEF bytes
<1>9. V3(249, bytes) = f
  <2>1. Len(bytes) + 3 \in Byte
    BY <1>7 DEF Byte
  <2>2. \A i \in 1 .. Len(bytes) : bytes[i] \in Byte
    <3>1. bytes \in Seq(Byte)
      BY <1>7
    <3>. QED BY <3>1
  <2>. QED BY <1>7, <2>1, <2>2 DEF V3, Checked
<1>10. Level(f) = b
  <2>1. 10 * p + t = b
    BY <1>0, LevelIs
  <2>. QED BY <1>7, <2>1 DEF Level
<1>11. \A i \in 1 .. 6 : Channel(f, i) = c[i]
  <2> SUFFICES ASSUME NEW i \in 1 .. 6 PROVE Channel(f, i) = c[i]
    OBVIOUS
  <2>1. Channel(f, i) = Joined(bytes[2 * i + 2], bytes[2 * i + 3])
    BY DEF Channel
  <2>2. /\ 2 * i - 1 \in 1 .. 12 /\ 2 * i \in 1 .. 12 /\ 2 * i + 2 = 3 + (2 * i - 1) /\ 2 * i + 3 = 3 + 2 * i
    OBVIOUS
  <2>3. bytes[2 * i + 2] = w[2 * i - 1] /\ bytes[2 * i + 3] = w[2 * i]
    BY <1>7, <2>2
  <2>. QED BY <2>1, <2>3, <1>3, <1>4
<1>12. Reads(f) = [kind |-> "rgb", level |-> Level(f), type |-> type, colour |-> [i \in 1 .. 6 |-> Channel(f, i)]]
  <2>1. f.sub = 249 /\ f.data[3] = type
    BY <1>7
  <2>. HIDE DEF f
  <2>. QED BY <2>1 DEF Reads
<1>. HIDE DEF f
<1>13. [i \in 1 .. 6 |-> Channel(f, i)] = [i \in 1 .. 6 |-> (rgb \o extra)[i]]
  BY <1>0, <1>11
<1>. QED BY <1>8, <1>9, <1>10, <1>12, <1>13

LEMMA ReadsOldEffect ==
  ASSUME NEW b \in Brightness, NEW symbol \in Byte, NEW speed \in Byte, NEW version, version # 1
  PROVE Reads(FxFrame(symbol, b, speed, version)) =
          [kind |-> "effect", level |-> 10 * Percent(b), symbol |-> symbol, speed |-> speed]
<1>0. PICK p : p = Percent(b)
  OBVIOUS
<1>1. p \in Byte
  BY <1>0, LevelIs
<1> DEFINE f == [sub |-> 243, end |-> Pad, data |-> <<p, symbol, speed, Pad, Pad>>]
<1>2. FxFrame(symbol, b, speed, version) = V2(243, Pad, <<p, symbol, speed>>)
  <2>1. Percent(b) \in 0 .. 100
    <3>1. Percent(b) \in Int /\ 0 <= Percent(b) /\ Percent(b) <= 100
      BY LevelIs
    <3>. QED BY <3>1
  <2>. QED BY <1>0, <2>1 DEF FxFrame, EffectFrame, Checked
<1>3. V2(243, Pad, <<p, symbol, speed>>) = f
  BY <1>1, V2Three, SMT
<1>4. Level(f) = 10 * p
  BY DEF Level
<1>5. Reads(f) = [kind |-> "effect", level |-> Level(f), symbol |-> symbol, speed |-> speed]
  BY DEF Reads
<1>. HIDE DEF f
<1>. QED BY <1>0, <1>2, <1>3, <1>4, <1>5

\* The fields of the effects of the newer generation.
FxNames == {"speed", "sat", "trigger", "mode", "option", "option_value", "pad", "gm", "frequency",
            "twinkling", "temperature", "light_dark", "ember", "color", "gear", "tone_mode"}

LEMMA FieldIsByte == ASSUME NEW name \in FxNames, NEW speed \in Byte PROVE FxField(name, speed) \in Byte
<1>1. CASE name = "pad"
  BY <1>1 DEF FxField, Pad, Byte
<1>2. CASE name = "speed"
  BY <1>2 DEF FxField
<1>3. CASE name \notin {"pad", "speed"}
  <2>1. FxField(name, speed) = FxDefaults[name]
    BY <1>3 DEF FxField
  <2>2. FxDefaults[name] \in Byte
    BY <1>3 DEF FxNames, FxDefaults, Byte
  <2>. QED BY <2>1, <2>2
<1>. QED BY <1>1, <1>2, <1>3

\* A list of at most seven fields.
LEMMA ColourIs == Colour \in Seq(FxNames) /\ Len(Colour) = 4
BY DEF Colour, FxNames

LEMMA FxRows ==
  ASSUME NEW symbol \in 3 .. 19
  PROVE /\ FxV3[symbol].names \in Seq(FxNames) /\ Len(FxV3[symbol].names) \in 0 .. 7
        /\ FxV3[symbol].selector \in 0 .. 19
<1>3. CASE symbol = 3
  <2>1. FxV3[symbol] = Fx(12, <<"speed", "sat">>)
    BY <1>3 DEF FxV3
  <2>2. <<"speed", "sat">> \in Seq(FxNames) /\ Len(<<"speed", "sat">>) = 2
    BY DEF FxNames
  <2>. QED BY <2>1, <2>2 DEF Fx
<1>4. CASE symbol = 4
  <2>1. FxV3[symbol] = Fx(13, <<"speed", "sat">>)
    BY <1>4 DEF FxV3
  <2>2. <<"speed", "sat">> \in Seq(FxNames) /\ Len(<<"speed", "sat">>) = 2
    BY DEF FxNames
  <2>. QED BY <2>1, <2>2 DEF Fx
<1>5. CASE symbol = 5
  <2>1. FxV3[symbol] = Fx(0, <<"speed", "trigger", "mode">> \o Colour)
    BY <1>5 DEF FxV3
  <2>2. <<"speed", "trigger", "mode">> \in Seq(FxNames) /\ Len(<<"speed", "trigger", "mode">>) = 3
    BY DEF FxNames
  <2>3. <<"speed", "trigger", "mode">> \o Colour \in Seq(FxNames) /\ Len(<<"speed", "trigger", "mode">> \o Colour) = Len(<<"speed", "trigger", "mode">>) + Len(Colour)
    BY <2>2, ColourIs, ConcatProperties
  <2>. QED BY <2>1, <2>2, <2>3, ColourIs DEF Fx
<1>6. CASE symbol = 6
  <2>1. FxV3[symbol] = Fx(1, <<"frequency", "trigger", "twinkling", "temperature">>)
    BY <1>6 DEF FxV3
  <2>2. <<"frequency", "trigger", "twinkling", "temperature">> \in Seq(FxNames) /\ Len(<<"frequency", "trigger", "twinkling", "temperature">>) = 4
    BY DEF FxNames
  <2>. QED BY <2>1, <2>2 DEF Fx
<1>7. CASE symbol = 7
  <2>1. FxV3[symbol] = Fx(2, <<"speed", "light_dark">>)
    BY <1>7 DEF FxV3
  <2>2. <<"speed", "light_dark">> \in Seq(FxNames) /\ Len(<<"speed", "light_dark">>) = 2
    BY DEF FxNames
  <2>. QED BY <2>1, <2>2 DEF Fx
<1>8. CASE symbol = 8
  <2>1. FxV3[symbol] = Fx(3, <<"speed">> \o Colour)
    BY <1>8 DEF FxV3
  <2>2. <<"speed">> \in Seq(FxNames) /\ Len(<<"speed">>) = 1
    BY DEF FxNames
  <2>3. <<"speed">> \o Colour \in Seq(FxNames) /\ Len(<<"speed">> \o Colour) = Len(<<"speed">>) + Len(Colour)
    BY <2>2, ColourIs, ConcatProperties
  <2>. QED BY <2>1, <2>2, <2>3, ColourIs DEF Fx
<1>9. CASE symbol = 9
  <2>1. FxV3[symbol] = Fx(4, <<"speed", "option">>)
    BY <1>9 DEF FxV3
  <2>2. <<"speed", "option">> \in Seq(FxNames) /\ Len(<<"speed", "option">>) = 2
    BY DEF FxNames
  <2>. QED BY <2>1, <2>2 DEF Fx
<1>10. CASE symbol = 10
  <2>1. FxV3[symbol] = Fx(5, <<"speed">>)
    BY <1>10 DEF FxV3
  <2>2. <<"speed">> \in Seq(FxNames) /\ Len(<<"speed">>) = 1
    BY DEF FxNames
  <2>. QED BY <2>1, <2>2 DEF Fx
<1>11. CASE symbol = 11
  <2>1. FxV3[symbol] = Fx(6, <<"speed">>)
    BY <1>11 DEF FxV3
  <2>2. <<"speed">> \in Seq(FxNames) /\ Len(<<"speed">>) = 1
    BY DEF FxNames
  <2>. QED BY <2>1, <2>2 DEF Fx
<1>12. CASE symbol = 12
  <2>1. FxV3[symbol] = Fx(7, <<"speed", "ember">>)
    BY <1>12 DEF FxV3
  <2>2. <<"speed", "ember">> \in Seq(FxNames) /\ Len(<<"speed", "ember">>) = 2
    BY DEF FxNames
  <2>. QED BY <2>1, <2>2 DEF Fx
<1>13. CASE symbol = 13
  <2>1. FxV3[symbol] = Fx(8, <<"speed", "ember", "trigger">> \o Colour)
    BY <1>13 DEF FxV3
  <2>2. <<"speed", "ember", "trigger">> \in Seq(FxNames) /\ Len(<<"speed", "ember", "trigger">>) = 3
    BY DEF FxNames
  <2>3. <<"speed", "ember", "trigger">> \o Colour \in Seq(FxNames) /\ Len(<<"speed", "ember", "trigger">> \o Colour) = Len(<<"speed", "ember", "trigger">>) + Len(Colour)
    BY <2>2, ColourIs, ConcatProperties
  <2>. QED BY <2>1, <2>2, <2>3, ColourIs DEF Fx
<1>14. CASE symbol = 14
  <2>1. FxV3[symbol] = Fx(9, <<"speed">> \o Colour)
    BY <1>14 DEF FxV3
  <2>2. <<"speed">> \in Seq(FxNames) /\ Len(<<"speed">>) = 1
    BY DEF FxNames
  <2>3. <<"speed">> \o Colour \in Seq(FxNames) /\ Len(<<"speed">> \o Colour) = Len(<<"speed">>) + Len(Colour)
    BY <2>2, ColourIs, ConcatProperties
  <2>. QED BY <2>1, <2>2, <2>3, ColourIs DEF Fx
<1>15. CASE symbol = 15
  <2>1. FxV3[symbol] = Fx(10, <<"mode", "color">>)
    BY <1>15 DEF FxV3
  <2>2. <<"mode", "color">> \in Seq(FxNames) /\ Len(<<"mode", "color">>) = 2
    BY DEF FxNames
  <2>. QED BY <2>1, <2>2 DEF Fx
<1>16. CASE symbol = 16
  <2>1. FxV3[symbol] = Fx(11, Colour)
    BY <1>16 DEF FxV3
  <2>. QED BY <2>1, ColourIs DEF Fx
<1>17. CASE symbol = 17
  <2>1. FxV3[symbol] = Fx(17, <<"gear">>)
    BY <1>17 DEF FxV3
  <2>2. <<"gear">> \in Seq(FxNames) /\ Len(<<"gear">>) = 1
    BY DEF FxNames
  <2>. QED BY <2>1, <2>2 DEF Fx
<1>18. CASE symbol = 18
  <2>1. FxV3[symbol] = Fx(19, <<"tone_mode", "speed">>)
    BY <1>18 DEF FxV3
  <2>2. <<"tone_mode", "speed">> \in Seq(FxNames) /\ Len(<<"tone_mode", "speed">>) = 2
    BY DEF FxNames
  <2>. QED BY <2>1, <2>2 DEF Fx
<1>19. CASE symbol = 19
  <2>1. FxV3[symbol] = Fx(18, <<"tone_mode", "speed">>)
    BY <1>19 DEF FxV3
  <2>2. <<"tone_mode", "speed">> \in Seq(FxNames) /\ Len(<<"tone_mode", "speed">>) = 2
    BY DEF FxNames
  <2>. QED BY <2>1, <2>2 DEF Fx
<1>. QED BY <1>3, <1>4, <1>5, <1>6, <1>7, <1>8, <1>9, <1>10, <1>11, <1>12, <1>13, <1>14, <1>15, <1>16, <1>17, <1>18, <1>19

LEMMA SelectorsDiffer ==
  ASSUME NEW s \in 3 .. 19, NEW t \in 3 .. 19, FxV3[s].selector = FxV3[t].selector
  PROVE s = t
<1>1. \A symbol \in 3 .. 19 : FxV3[symbol].selector =
        (IF symbol <= 4 THEN symbol + 9 ELSE IF symbol <= 16 THEN symbol - 5
         ELSE IF symbol = 17 THEN 17 ELSE 37 - symbol)
  <2> SUFFICES ASSUME NEW symbol \in 3 .. 19
               PROVE FxV3[symbol].selector =
                       (IF symbol <= 4 THEN symbol + 9 ELSE IF symbol <= 16 THEN symbol - 5
                        ELSE IF symbol = 17 THEN 17 ELSE 37 - symbol)
    OBVIOUS
  <2>3. CASE symbol = 3
    BY <2>3 DEF FxV3, Fx
  <2>4. CASE symbol = 4
    BY <2>4 DEF FxV3, Fx
  <2>5. CASE symbol = 5
    BY <2>5 DEF FxV3, Fx
  <2>6. CASE symbol = 6
    BY <2>6 DEF FxV3, Fx
  <2>7. CASE symbol = 7
    BY <2>7 DEF FxV3, Fx
  <2>8. CASE symbol = 8
    BY <2>8 DEF FxV3, Fx
  <2>9. CASE symbol = 9
    BY <2>9 DEF FxV3, Fx
  <2>10. CASE symbol = 10
    BY <2>10 DEF FxV3, Fx
  <2>11. CASE symbol = 11
    BY <2>11 DEF FxV3, Fx
  <2>12. CASE symbol = 12
    BY <2>12 DEF FxV3, Fx
  <2>13. CASE symbol = 13
    BY <2>13 DEF FxV3, Fx
  <2>14. CASE symbol = 14
    BY <2>14 DEF FxV3, Fx
  <2>15. CASE symbol = 15
    BY <2>15 DEF FxV3, Fx
  <2>16. CASE symbol = 16
    BY <2>16 DEF FxV3, Fx
  <2>17. CASE symbol = 17
    BY <2>17 DEF FxV3, Fx
  <2>18. CASE symbol = 18
    BY <2>18 DEF FxV3, Fx
  <2>19. CASE symbol = 19
    BY <2>19 DEF FxV3, Fx
  <2>. QED BY <2>3, <2>4, <2>5, <2>6, <2>7, <2>8, <2>9, <2>10, <2>11, <2>12, <2>13, <2>14, <2>15, <2>16, <2>17, <2>18, <2>19
<1>. QED BY <1>1

LEMMA ThreeThen ==
  ASSUME NEW a \in Byte, NEW b \in Byte, NEW c \in Byte, NEW w \in Seq(Byte)
  PROVE LET q == <<a, b, c>> \o w IN
        /\ q \in Seq(Byte) /\ Len(q) = 3 + Len(w) /\ q[1] = a /\ q[2] = b /\ q[3] = c
        /\ \A i \in 1 .. Len(w) : q[3 + i] = w[i]
<1>0. PICK s, q : s = <<a, b, c>> /\ q = s \o w
  OBVIOUS
<1>1. s \in Seq(Byte) /\ Len(s) = 3 /\ s[1] = a /\ s[2] = b /\ s[3] = c
  BY <1>0
<1>2. /\ s \o w \in Seq(Byte) /\ Len(s \o w) = Len(s) + Len(w)
      /\ \A i \in 1 .. Len(s) + Len(w) : (s \o w)[i] = IF i <= Len(s) THEN s[i] ELSE w[i - Len(s)]
  BY <1>1, ConcatProperties, Zenon
<1>3. /\ q \in Seq(Byte) /\ Len(q) = Len(s) + Len(w)
      /\ \A i \in 1 .. Len(s) + Len(w) : q[i] = IF i <= Len(s) THEN s[i] ELSE w[i - Len(s)]
  BY <1>0, <1>2, Zenon
<1>4. Len(w) \in Nat
  OBVIOUS
<1>5. Len(q) = 3 + Len(w) /\ \A i \in 1 .. 3 + Len(w) : q[i] = IF i <= 3 THEN s[i] ELSE w[i - 3]
  BY <1>1, <1>3, <1>4
<1>6. ASSUME NEW i \in 1 .. Len(w) PROVE q[3 + i] = w[i]
  <2>1. 3 + i \in 1 .. 3 + Len(w) /\ ~(3 + i <= 3) /\ (3 + i) - 3 = i
    BY <1>4
  <2>. QED BY <1>5, <2>1
<1>7. q[1] = s[1] /\ q[2] = s[2] /\ q[3] = s[3]
  <2>1. 1 \in 1 .. 3 + Len(w) /\ 2 \in 1 .. 3 + Len(w) /\ 3 \in 1 .. 3 + Len(w)
    BY <1>4
  <2>. QED BY <1>5, <2>1
<1>. QED BY <1>0, <1>1, <1>3, <1>5, <1>6, <1>7

LEMMA FxDataIs ==
  ASSUME NEW symbol \in 3 .. 19, NEW b \in Brightness, NEW speed \in Byte
  PROVE LET names == FxV3[symbol].names
            q == FxData(FxV3[symbol].selector, symbol, b, speed) IN
        /\ q \in Seq(Byte) /\ Len(q) = 3 + Len(names)
        /\ q[1] = Percent(b) /\ q[2] = Tenths(b) /\ q[3] = FxV3[symbol].selector
        /\ \A i \in DOMAIN names : q[3 + i] = FxField(names[i], speed)
<1>0. PICK p, t, selector, names, w : /\ p = Percent(b) /\ t = Tenths(b) /\ selector = FxV3[symbol].selector
                               /\ names = FxV3[symbol].names
                               /\ w = [i \in DOMAIN names |-> FxField(names[i], speed)]
  OBVIOUS
<1>1. p \in Byte /\ t \in Byte
  BY <1>0, LevelIs, Zenon
<1>2. names \in Seq(FxNames) /\ selector \in 0 .. 19
  BY <1>0, FxRows
<1>3. selector \in Byte
  BY <1>2 DEF Byte
<1>4. \A i \in DOMAIN names : names[i] \in FxNames
  BY <1>2
<1>5. \A i \in DOMAIN names : w[i] \in Byte /\ w[i] = FxField(names[i], speed)
  BY <1>0, <1>4, FieldIsByte
<1>6. Len(names) \in Nat /\ DOMAIN names = 1 .. Len(names)
  BY <1>2
<1>7. w \in [1 .. Len(names) -> Byte]
  BY <1>0, <1>5, <1>6
<1>8. w \in Seq(Byte) /\ Len(w) = Len(names)
  <2>1. w \in Seq(Byte) /\ DOMAIN w = 1 .. Len(names)
    BY <1>6, <1>7
  <2>. QED BY <1>6, <2>1
<1>9. FxData(selector, symbol, b, speed) = <<p, t, selector>> \o w
  BY <1>0 DEF FxData
<1>10. LET q == <<p, t, selector>> \o w IN
        /\ q \in Seq(Byte) /\ Len(q) = 3 + Len(w) /\ q[1] = p /\ q[2] = t /\ q[3] = selector
        /\ \A i \in 1 .. Len(w) : q[3 + i] = w[i]
  BY <1>1, <1>3, <1>8, ThreeThen
<1>. HIDE <1>7
<1>11. PICK q : q = FxData(selector, symbol, b, speed)
  OBVIOUS
<1>12. /\ q \in Seq(Byte) /\ Len(q) = 3 + Len(names) /\ q[1] = p /\ q[2] = t /\ q[3] = selector
       /\ \A i \in DOMAIN names : q[3 + i] = FxField(names[i], speed)
  BY <1>5, <1>6, <1>8, <1>9, <1>10, <1>11
<1>. QED BY <1>0, <1>11, <1>12

LEMMA ReadsNewEffect ==
  ASSUME NEW symbol \in 3 .. 19, NEW b \in Brightness, NEW speed \in 0 .. 100
  PROVE Reads(FxFrame(symbol, b, speed, 1)) =
          [kind |-> "effect", level |-> b, symbol |-> symbol,
           speed |-> IF TakesSpeed(symbol) THEN speed ELSE 0]
<1>0. PICK q, names : /\ q = FxData(FxV3[symbol].selector, symbol, b, speed)
                      /\ names = FxV3[symbol].names
  OBVIOUS
<1>1. speed \in Byte
  BY DEF Byte
<1>2. /\ q \in Seq(Byte) /\ Len(q) = 3 + Len(names) /\ q[1] = Percent(b) /\ q[2] = Tenths(b)
      /\ q[3] = FxV3[symbol].selector
      /\ \A i \in DOMAIN names : q[3 + i] = FxField(names[i], speed)
  BY <1>0, <1>1, FxDataIs
<1>3. Len(names) \in 0 .. 7
  BY <1>0, FxRows
<1> DEFINE f == [sub |-> 247, length |-> 6 + Len(names), data |-> q]
<1>4. FxFrame(symbol, b, speed, 1) = V3(247, q)
  <2>1. ValidBrightness(b)
    BY DEF Brightness, ValidBrightness
  <2>2. DOMAIN FxColorBlock = 0 .. 2 /\ DOMAIN FxV3 = 3 .. 19
    BY DEF FxColorBlock, FxV3
  <2>3. symbol \notin DOMAIN FxColorBlock /\ symbol \in DOMAIN FxV3
    BY <2>2
  <2>. QED BY <1>0, <2>1, <2>3 DEF FxFrame, Checked
<1>5. V3(247, q) = f
  <2>1. Len(q) + 3 \in Byte /\ Len(q) + 3 = 6 + Len(names)
    <3>1. PICK m, n : m = Len(q) /\ n = Len(names)
      OBVIOUS
    <3>2. m = 3 + n /\ n \in 0 .. 7
      BY <1>2, <1>3, <3>1, Zenon
    <3>3. m + 3 \in Byte /\ m + 3 = 6 + n
      BY <3>2 DEF Byte
    <3>. QED BY <3>1, <3>3, Zenon
  <2>2. \A i \in 1 .. Len(q) : q[i] \in Byte
    BY <1>2
  <2>. QED BY <2>1, <2>2 DEF V3, Checked
<1>6. Level(f) = b
  <2>1. 10 * q[1] + q[2] = b
    BY <1>2, LevelIs
  <2>2. f.sub = 247 /\ f.data = q
    OBVIOUS
  <2>. HIDE DEF f
  <2>. QED BY <2>1, <2>2 DEF Level
<1>7. Reads(f) = ReadsFx(f)
  BY DEF Reads
<1>8. f.data = q
  OBVIOUS
<1>. HIDE DEF f
<1>9. (CHOOSE s \in DOMAIN FxV3 : FxV3[s].selector = f.data[3]) = symbol
  <2>1. DOMAIN FxV3 = 3 .. 19
    BY DEF FxV3
  <2>2. \A s \in DOMAIN FxV3 : FxV3[s].selector = f.data[3] <=> s = symbol
    BY <1>2, <1>8, <2>1, SelectorsDiffer
  <2>. QED BY <2>1, <2>2
<1>10. TakesSpeed(symbol) => f.data[3 + CHOOSE i \in DOMAIN names : names[i] = "speed"] = speed
  <2> SUFFICES ASSUME TakesSpeed(symbol)
               PROVE f.data[3 + CHOOSE i \in DOMAIN names : names[i] = "speed"] = speed
    OBVIOUS
  <2>1. PICK k : k = CHOOSE i \in DOMAIN names : names[i] = "speed"
    OBVIOUS
  <2>2. \E i \in DOMAIN names : names[i] = "speed"
    BY <1>0 DEF TakesSpeed
  <2>3. k \in DOMAIN names /\ names[k] = "speed"
    BY <2>1, <2>2
  <2>4. f.data[3 + k] = FxField("speed", speed)
    BY <1>2, <1>8, <2>3
  <2>5. FxField("speed", speed) = speed
    BY DEF FxField
  <2>. QED BY <2>1, <2>4, <2>5
<1>11. ReadsFx(f) = [kind |-> "effect", level |-> b, symbol |-> symbol,
                     speed |-> IF TakesSpeed(symbol) THEN speed ELSE 0]
  BY <1>0, <1>6, <1>9, <1>10 DEF ReadsFx
<1>. QED BY <1>4, <1>5, <1>7, <1>11

LEMMA ReadsRefused == Reads(Refused).kind = "none"
<1>1. Refused.sub = -1
  BY DEF Refused
<1>2. PICK f : f = Refused
  OBVIOUS
<1>3. f.sub = -1
  BY <1>1, <1>2
<1>4. Reads(f) = Unparsed
  BY <1>3 DEF Reads
<1>. QED BY <1>2, <1>4 DEF Unparsed

LEMMA ReadsGel ==
  ASSUME NEW b \in Brightness, NEW chip, NEW version
  PROVE LET r == Reads(async_set_color_chip(b, chip, version)) IN
        r.kind = "none" \/ (r.kind = "gel" /\ r.level = b)
<1> DEFINE n == chip.number
           head == <<Percent(b), Tenths(b), chip.brand, 0, High(n), Low(n), 0, 0>>
           S == {Percent(b), Tenths(b), chip.brand, 0, High(n), Low(n), chip.subBrand}
<1>0. PICK p, t : p = Percent(b) /\ t = Tenths(b)
  OBVIOUS
<1>1. 10 * p + t = b
  BY <1>0, LevelIs
<1>2. PICK f : f = async_set_color_chip(b, chip, version)
  OBVIOUS
<1>3. \/ f = Refused
      \/ f = V2(244, t, <<p, chip.brand, n, 20, 20>>)
      \/ f = V3(248, head) \/ f = V3(248, head \o <<chip.subBrand, Low(n)>>)
  BY <1>0, <1>2 DEF async_set_color_chip, set_color_chip, ColorChipFrame, Checked
<1>4. CASE f = Refused
  BY <1>2, <1>4, ReadsRefused
<1>5. CASE f = V2(244, t, <<p, chip.brand, n, 20, 20>>)
  <2>1. CASE f = Refused
    BY <1>2, <2>1, ReadsRefused
  <2>2. CASE f # Refused
    <3>1. f.sub = 244 /\ f.end = t /\ f.data[1] = p
      <4>1. f = [sub |-> 244, end |-> t,
                 data |-> [i \in 1 .. 5 |-> IF i <= Len(<<p, chip.brand, n, 20, 20>>)
                                            THEN <<p, chip.brand, n, 20, 20>>[i] ELSE Pad]]
        BY <1>5, <2>2 DEF V2, Checked
      <4>. QED BY <4>1
    <3>2. Reads(f).kind = "gel" /\ Reads(f).level = Level(f)
      BY <3>1 DEF Reads
    <3>3. Level(f) = b
      BY <3>1, <1>1 DEF Level
    <3>. QED BY <1>2, <3>2, <3>3
  <2>. QED BY <2>1, <2>2
<1>6. ASSUME NEW bytes, bytes[1] = p, bytes[2] = t, f = V3(248, bytes)
      PROVE Reads(f).kind = "none" \/ (Reads(f).kind = "gel" /\ Reads(f).level = b)
  <2>1. CASE f = Refused
    BY <1>2, <2>1, ReadsRefused
  <2>2. CASE f # Refused
    <3>1. f.sub = 248 /\ f.data = bytes
      <4>1. f = [sub |-> 248, length |-> Len(bytes) + 3, data |-> bytes]
        BY <1>6, <2>2 DEF V3, Checked
      <4>. QED BY <4>1
    <3>2. Reads(f).kind = "gel" /\ Reads(f).level = Level(f)
      BY <3>1 DEF Reads
    <3>3. Level(f) = b
      BY <3>1, <1>1, <1>6 DEF Level
    <3>. QED BY <3>2, <3>3
  <2>. QED BY <2>1, <2>2
<1>7. head[1] = p /\ head[2] = t
  BY <1>0
<1>8. (head \o <<chip.subBrand, Low(n)>>)[1] = p /\ (head \o <<chip.subBrand, Low(n)>>)[2] = t
  <2>1. PICK h, e : h = head /\ e = <<chip.subBrand, Low(n)>>
    OBVIOUS
  <2>2. head \in Seq(S) /\ <<chip.subBrand, Low(n)>> \in Seq(S) /\ Len(head) = 8
    OBVIOUS
  <2>3. h \in Seq(S) /\ e \in Seq(S) /\ Len(h) = 8 /\ h[1] = p /\ h[2] = t
    BY <2>1, <2>2, <1>7
  <2>. HIDE DEF head, S
  <2>4. \A i \in 1 .. Len(h) + Len(e) : (h \o e)[i] = IF i <= Len(h) THEN h[i] ELSE e[i - Len(h)]
    BY <2>3, ConcatProperties
  <2>5. Len(e) \in Nat
    BY <2>3
  <2>6. (h \o e)[1] = h[1] /\ (h \o e)[2] = h[2]
    <3>1. Len(h) = 8
      BY <2>3
    <3>2. /\ 1 \in 1 .. Len(h) + Len(e) /\ 1 <= Len(h)
          /\ 2 \in 1 .. Len(h) + Len(e) /\ 2 <= Len(h)
      BY <3>1, <2>5
    <3>. QED BY <2>4, <3>2, Zenon
  <2>. QED BY <2>1, <2>3, <2>6
<1>. HIDE DEF head
<1>. QED BY <1>2, <1>3, <1>4, <1>5, <1>6, <1>7, <1>8

LEMMA ReadsPower == ASSUME NEW on \in BOOLEAN PROVE Reads(PowerFrame(on)).kind = "power"
<1>1. PICK z : z = IF on THEN 0 ELSE 1
  OBVIOUS
<1>2. z \in Byte
  BY <1>1 DEF Byte
<1>3. Len(<<z>>) = 1 /\ \A i \in 1 .. 1 : <<z>>[i] \in Byte
  BY <1>2
<1>4. PICK f : f = V2(254, Pad, <<z>>)
  OBVIOUS
<1>5. f.sub = 254
  BY <1>3, <1>4 DEF V2, Checked
<1>6. Reads(f).kind = "power"
  BY <1>5 DEF Reads
<1>. QED BY <1>1, <1>4, <1>6 DEF PowerFrame

LEMMA ReadsKnob ==
  ASSUME NEW knob \in {"fan", "smoothness", "motion"}, NEW value \in {0, 1}
  PROVE Reads(KnobFrame(knob, value)).kind = knob
<1>1. value \in Byte /\ 1 - value \in Byte
  BY DEF Byte
<1>2. CASE knob = "fan"
  <2>1. Len(<<value>>) = 1 /\ \A i \in 1 .. 1 : <<value>>[i] \in Byte
    BY <1>1
  <2>2. PICK f : f = V2(245, Pad, <<value>>)
    OBVIOUS
  <2>3. f.sub = 245
    BY <2>1, <2>2 DEF V2, Checked
  <2>4. Reads(f).kind = "fan"
    BY <2>3 DEF Reads
  <2>5. KnobFrame(knob, value) = f
    BY <1>2, <2>2 DEF KnobFrame, set_fan_mode, FanFrame, Checked
  <2>. QED BY <1>2, <2>4, <2>5
<1>3. ASSUME NEW register \in {4, 7}, NEW v \in Byte
      PROVE Reads(Structured(3, register, <<v>>)).kind = IF register = 4 THEN "smoothness" ELSE "motion"
  <2>0. 3 \in Byte /\ register \in Byte /\ 1 \in Byte
    BY DEF Byte
  <2>1. PICK h, e, f : h = <<3, register, 1, 1>> /\ e = <<v>> /\ f = V3(252, h \o e)
    OBVIOUS
  <2>2. h \in Seq(Byte) /\ Len(h) = 4 /\ h[1] = 3 /\ h[2] = register /\ e \in Seq(Byte) /\ Len(e) = 1
    BY <2>0, <2>1
  <2>3. /\ h \o e \in Seq(Byte) /\ Len(h \o e) = Len(h) + Len(e)
        /\ \A i \in 1 .. Len(h) + Len(e) : (h \o e)[i] = IF i <= Len(h) THEN h[i] ELSE e[i - Len(h)]
    BY <2>2, ConcatProperties, Zenon
  <2>4. PICK q : q = h \o e
    OBVIOUS
  <2>5. q \in Seq(Byte) /\ Len(q) = 5 /\ q[1] = 3 /\ q[2] = register
    BY <2>2, <2>3, <2>4
  <2>6. f.sub = 252 /\ f.data = q
    <3>1. Len(q) + 3 \in Byte
      BY <2>5 DEF Byte
    <3>2. \A i \in 1 .. Len(q) : q[i] \in Byte
      <4>1. q \in Seq(Byte)
        BY <2>5
      <4>. QED BY <4>1, ElementOfSeq, Zenon
    <3>. QED BY <2>1, <2>4, <3>1, <3>2 DEF V3, Checked
  <2>7. Reads(f).kind = IF register = 4 THEN "smoothness" ELSE "motion"
    BY <2>5, <2>6 DEF Reads
  <2>8. Structured(3, register, <<v>>) = f
    <3>1. Len(<<v>>) = 1
      OBVIOUS
    <3>. QED BY <2>1, <3>1 DEF Structured
  <2>. QED BY <2>7, <2>8
<1>4. CASE knob = "smoothness"
  <2>1. KnobFrame(knob, value) = Structured(3, 4, <<value>>)
    BY <1>1, <1>4 DEF KnobFrame, set_smoothness, SmoothnessFrame, Checked
  <2>. QED BY <1>1, <1>3, <1>4, <2>1
<1>5. CASE knob = "motion"
  <2>1. KnobFrame(knob, value) = Structured(3, 7, <<1 - value>>)
    BY <1>5 DEF KnobFrame, set_motion_recognize, MotionFrame
  <2>. QED BY <1>1, <1>3, <1>5, <2>1
<1>. QED BY <1>2, <1>4, <1>5

-----------------------------------------------------------------------------
\* The rows of the table, and the looks of the controls.
LEMMA RowIs == ASSUME device \in Devices PROVE IsCapabilities(Model) /\ UseXy \in BOOLEAN
BY SiblingsAssumption DEF Model, UseXy

LEMMA RangeIs ==
  ASSUME device \in Devices, NEW d
  PROVE /\ MinKelvin(d) \in Int /\ MaxKelvin(d) \in Int /\ MinKelvin(d) <= MaxKelvin(d)
        /\ 0 <= MinKelvin(d) /\ MaxKelvin(d) <= CctMax
<1>1. /\ Model.minKelvin \in Int /\ Model.maxKelvin \in Int /\ Model.minKelvin <= Model.maxKelvin
      /\ 0 <= Model.minKelvin /\ Model.maxKelvin <= CctMax
  <2>1. Model.minKelvin \in 0 .. Model.maxKelvin /\ Model.maxKelvin \in 0 .. CctMax
    BY RowIs DEF IsCapabilities
  <2>2. CctMax \in Int
    BY DEF CctMax
  <2>. QED BY <2>1, <2>2
<1>2. /\ Model.selfieMin \in Int /\ Model.selfieMax \in Int /\ Model.selfieMin <= Model.selfieMax
      /\ 0 <= Model.selfieMin /\ Model.selfieMax <= CctMax
  <2>1. Model.selfieMin \in 0 .. Model.selfieMax /\ Model.selfieMax \in 0 .. CctMax
    BY RowIs DEF IsCapabilities
  <2>2. CctMax \in Int
    BY DEF CctMax
  <2>. QED BY <2>1, <2>2
<1>. QED BY <1>1, <1>2 DEF MinKelvin, MaxKelvin

LEMMA MinIs == ASSUME NEW a \in Int, NEW b \in Int PROVE Min({a, b}) = IF a <= b THEN a ELSE b
<1>1. \E x \in {a, b} : \A y \in {a, b} : x <= y
  OBVIOUS
<1>2. PICK m : m = Min({a, b})
  OBVIOUS
<1>3. m \in {a, b} /\ \A y \in {a, b} : m <= y
  BY <1>1, <1>2 DEF Min
<1>. QED BY <1>2, <1>3

LEMMA MaxIs == ASSUME NEW a \in Int, NEW b \in Int PROVE Max({a, b}) = IF a >= b THEN a ELSE b
<1>1. \E x \in {a, b} : \A y \in {a, b} : x >= y
  OBVIOUS
<1>2. PICK m : m = Max({a, b})
  OBVIOUS
<1>3. m \in {a, b} /\ \A y \in {a, b} : m >= y
  BY <1>1, <1>2 DEF Max
<1>. QED BY <1>2, <1>3

LEMMA ClampedIs ==
  ASSUME device \in Devices, NEW kelvin \in Int, NEW d
  PROVE Clamped(kelvin, d) \in Int /\ MinKelvin(d) <= Clamped(kelvin, d) /\ Clamped(kelvin, d) <= MaxKelvin(d)
<1>1. PICK lo, hi : lo = MinKelvin(d) /\ hi = MaxKelvin(d)
  OBVIOUS
<1>2. lo \in Int /\ hi \in Int /\ lo <= hi
  BY <1>1, RangeIs
<1>3. PICK m : m = Min({hi, kelvin})
  OBVIOUS
<1>4. m \in Int /\ m <= hi
  BY <1>2, <1>3, MinIs
<1>5. Clamped(kelvin, d) = Max({lo, m})
  BY <1>1, <1>3 DEF Clamped
<1>6. Max({lo, m}) \in Int /\ lo <= Max({lo, m}) /\ Max({lo, m}) <= hi
  BY <1>2, <1>4, MaxIs
<1>. QED BY <1>1, <1>5, <1>6

\* A list of numbers below a bound has a greatest.
LEMMA GreatestByte ==
  ASSUME NEW S \in SUBSET Byte, S # {}
  PROVE \E x \in S : \A y \in S : x >= y
<1> DEFINE T == {255 - x : x \in S}
           R == OpToRel(<, Nat)
<1>1. T \in SUBSET Nat /\ T # {}
  <2>1. \A x \in S : 255 - x \in Nat
    BY DEF Byte
  <2>2. PICK x \in S : TRUE
    OBVIOUS
  <2>3. 255 - x \in T
    OBVIOUS
  <2>. QED BY <2>1, <2>3
<1>2. IsWellFoundedOn(R, Nat)
  BY NatLessThanWellFounded
<1>3. \A x, y \in Nat : x < y => <<x, y>> \in R
  BY DEF OpToRel
<1>. HIDE DEF T, R
<1>4. PICK x \in T : \A y \in T : <<y, x>> \notin R
  BY <1>1, <1>2, WFMin
<1>5. \A y \in T : x <= y
  <2> SUFFICES ASSUME NEW y \in T PROVE x <= y
    OBVIOUS
  <2>1. x \in Nat /\ y \in Nat
    BY <1>1
  <2>2. ~(y < x)
    BY <1>3, <1>4, <2>1
  <2>. QED BY <2>1, <2>2
<1>6. PICK s \in S : x = 255 - s
  BY DEF T
<1>7. \A y \in S : 255 - y \in T
  BY DEF T
<1>8. \A y \in S : s >= y
  BY <1>5, <1>6, <1>7 DEF Byte
<1>. QED BY <1>8

LEMMA SpeedIs ==
  ASSUME device \in Devices, NEW s \in Effects(Model)
  PROVE s \in Byte /\ SpeedMax(Model, s) \in Byte
<1>1. s \in Byte /\ Model.gears[s] \in Int /\ Model.gears[s] >= 0 /\ Model.gears[s] <= 256
  <2>1. s \in DOMAIN Model.gears
    BY DEF Effects
  <2>2. DOMAIN Model.gears \subseteq Byte /\ \A t \in DOMAIN Model.gears : Model.gears[t] \in 0 .. 256
    BY RowIs, Zenon DEF IsCapabilities
  <2>3. PICK n : n = Model.gears[s]
    OBVIOUS
  <2>4. n \in 0 .. 256
    BY <2>1, <2>2, <2>3
  <2>. QED BY <2>1, <2>2, <2>3, <2>4
<1>. QED BY <1>1 DEF SpeedMax, Byte

LEMMA CeilingIs == ASSUME device \in Devices, NEW s PROVE Ceiling(s) \in Byte
<1>1. CASE s \in Effects(Model)
  BY <1>1, SpeedIs DEF Ceiling
<1>2. CASE s \notin Effects(Model)
  <2> DEFINE S == {SpeedMax(Model, e) : e \in Effects(Model)}
  <2>1. CASE Effects(Model) = {}
    BY <1>2, <2>1 DEF Ceiling, MaxEffectSpeed, Byte
  <2>2. CASE Effects(Model) # {}
    <3>1. S \in SUBSET Byte /\ S # {}
      BY <2>2, SpeedIs
    <3>2. Max(S) \in S
      <4>. HIDE DEF S
      <4>. QED BY <3>1, GreatestByte DEF Max
    <3>3. Ceiling(s) = Max(S)
      BY <1>2, <2>2 DEF Ceiling, MaxEffectSpeed
    <3>. QED BY <3>1, <3>2, <3>3
  <2>. QED BY <2>1, <2>2
<1>. QED BY <1>1, <1>2

LEMMA ScaledIs == ASSUME NEW c \in Byte PROVE /\ Wide => Scaled(c) \in PerMille
                                              /\ ~Wide => Scaled(c) = c
                                              /\ Scaled(0) = 0
BY DEF Scaled, PerMille, Byte

LEMMA FourOf ==
  ASSUME NEW n \in {4, 5}, NEW c \in [1 .. n -> Byte]
  PROVE SubSeq(c, 1, 4) = <<c[1], c[2], c[3], c[4]>>
<1>1. c \in Seq(Byte) /\ Len(c) = n
  <2>1. c \in Seq(Byte)
    OBVIOUS
  <2>. QED BY <2>1
<1>2. PICK q : q = SubSeq(c, 1, 4)
  OBVIOUS
<1>3. q \in Seq(Byte) /\ Len(q) = 4 /\ q[1] = c[1] /\ q[2] = c[2] /\ q[3] = c[3] /\ q[4] = c[4]
  BY <1>1, <1>2
<1>4. q = <<q[1], q[2], q[3], q[4]>>
  BY <1>3
<1>. QED BY <1>2, <1>3, <1>4

LEMMA ThreeOne ==
  ASSUME NEW S, NEW a \in S, NEW b \in S, NEW c \in S, NEW d \in S
  PROVE <<a, b, c>> \o <<d>> = <<a, b, c, d>>
<1>0. PICK q : q = <<a, b, c>> \o <<d>>
  OBVIOUS
<1>1. <<a, b, c>> \in Seq(S) /\ <<d>> \in Seq(S)
  OBVIOUS
<1>2. q \in Seq(S) /\ Len(q) = 4 /\ q[1] = a /\ q[2] = b /\ q[3] = c /\ q[4] = d
  BY <1>0, <1>1
<1>3. q = <<q[1], q[2], q[3], q[4]>>
  BY <1>2
<1>. QED BY <1>0, <1>2, <1>3

LEMMA ThreeThree ==
  ASSUME NEW S, NEW a \in S, NEW b \in S, NEW c \in S, NEW d \in S, NEW e \in S, NEW f \in S
  PROVE LET q == <<a, b, c>> \o <<d, e, f>> IN
        q[1] = a /\ q[2] = b /\ q[3] = c /\ q[4] = d /\ q[5] = e /\ q[6] = f
<1>0. PICK q : q = <<a, b, c>> \o <<d, e, f>>
  OBVIOUS
<1>1. <<a, b, c>> \in Seq(S) /\ <<d, e, f>> \in Seq(S)
  OBVIOUS
<1>2. q[1] = a /\ q[2] = b /\ q[3] = c /\ q[4] = d /\ q[5] = e /\ q[6] = f
  BY <1>0, <1>1
<1>. QED BY <1>0, <1>2

LEMMA EffectReads ==
  ASSUME device \in Devices, NEW h \in Lights, NEW d \in Values, h.effect \in Effects(Model)
  PROVE Reads(EffectSent(h, d)) = EffectShown(h, d)
<1> DEFINE e == h.effect
           v == Min({d.speed, SpeedMax(Model, e)})
<1>1. e \in Byte /\ SpeedMax(Model, e) \in Byte /\ d.speed \in Nat /\ h.level \in Brightness
  BY SpeedIs DEF Lights, Values
<1>2. v \in Byte /\ v <= SpeedMax(Model, e)
  <2>1. PICK m, x : m = SpeedMax(Model, e) /\ x = d.speed
    OBVIOUS
  <2>2. m \in Byte /\ x \in Nat
    BY <1>1, <2>1
  <2>3. Min({x, m}) \in Byte /\ Min({x, m}) <= m
    <3>1. x \in Int /\ m \in Int /\ x >= 0 /\ m >= 0 /\ m <= 255
      BY <2>2 DEF Byte
    <3>2. Min({x, m}) = IF x <= m THEN x ELSE m
      BY <3>1, MinIs
    <3>. QED BY <3>1, <3>2 DEF Byte
  <2>. QED BY <2>1, <2>3
<1>3. EffectSent(h, d) = FxFrame(e, h.level, v, Model.effectVersion)
  BY DEF EffectSent, async_set_effect, set_effect
<1>4. CASE Model.effectVersion # 1
  <2>1. Reads(FxFrame(e, h.level, v, Model.effectVersion))
          = [kind |-> "effect", level |-> 10 * Percent(h.level), symbol |-> e, speed |-> v]
    <3>. HIDE DEF e, v
    <3>. QED BY <1>1, <1>2, <1>4, ReadsOldEffect
  <2>. QED BY <1>3, <1>4, <2>1 DEF EffectShown
<1>5. CASE Model.effectVersion = 1
  <2>1. e \in 3 .. 19
    <3>1. e \in DOMAIN FxV3
      BY <1>5 DEF Effects
    <3>2. DOMAIN FxV3 = 3 .. 19
      BY DEF FxV3
    <3>. QED BY <3>1, <3>2
  <2>2. v \in 0 .. 100
    <3>1. SpeedMax(Model, e) = 100
      BY <1>5 DEF SpeedMax
    <3>2. v <= 100
      <4>. HIDE DEF v
      <4>. QED BY <1>2, <3>1
    <3>3. v \in Byte
      BY <1>2
    <3>. HIDE DEF v
    <3>. QED BY <3>2, <3>3 DEF Byte
  <2>3. Reads(FxFrame(e, h.level, v, 1))
          = [kind |-> "effect", level |-> h.level, symbol |-> e, speed |-> IF TakesSpeed(e) THEN v ELSE 0]
    <3>. HIDE DEF e, v
    <3>. QED BY <1>1, <2>1, <2>2, ReadsNewEffect
  <2>. QED BY <1>3, <1>5, <2>3 DEF EffectShown
<1>. QED BY <1>4, <1>5

LEMMA WhiteReads ==
  ASSUME device \in Devices, NEW h \in Lights, NEW d \in Values, NEW xy, InRange(h, d),
         h.mode \in {"cct", "brightness"}
  PROVE Reads(ColorSent(h, d)) = ColourShown(h, d, xy)
<1>1. PICK k, b, t : k = h.shade.cct /\ b = h.level /\ t = d.tint
  OBVIOUS
<1>2. k \in Int /\ b \in Brightness /\ t \in Int /\ -100 <= t /\ t <= 100
  BY <1>1 DEF Lights, Shades, Values
<1>3. PICK min, max : min = MinKelvin(d) /\ max = MaxKelvin(d)
  OBVIOUS
<1>4. min \in Int /\ max \in Int /\ min <= k /\ k <= max
  BY <1>1, <1>3, RangeIs DEF InRange
<1>5. k \in Kelvins
  <2>1. 0 <= min /\ max <= CctMax /\ CctMax \in Int
    BY <1>3, RangeIs DEF CctMax
  <2>. QED BY <1>2, <1>4, <2>1 DEF Kelvins
<1>6. CASE InSelfie(d)
  <2>1. ColorSent(h, d) = SelfieFrame(b, k)
    BY <1>1, <1>6 DEF ColorSent, set_selfie_cct
  <2>2. ColourShown(h, d, xy) = [kind |-> "selfie", level |-> 10 * Percent(b), kelvin |-> 100 * (k \div 100)]
    BY <1>1, <1>6 DEF ColourShown
  <2>. QED BY <1>2, <1>5, <2>1, <2>2, ReadsSelfie
<1>7. CASE ~InSelfie(d)
  <2>0. PICK tinted \in BOOLEAN : tinted = HasTint(Model)
    BY DEF HasTint
  <2>1. ColorSent(h, d) = CctFrame(b, k, t, tinted, 0, min, max)
    <3>1. ColorSent(h, d) = async_set_light(b, k, min, max, t, tinted)
      BY <1>1, <1>3, <1>7, <2>0 DEF ColorSent
    <3>2. b # NotGiven /\ k # NotGiven /\ min # NotGiven /\ max # NotGiven
      <4>1. NotGiven \in Int /\ NotGiven < 0
        BY DEF NotGiven
      <4>2. b > 0 /\ b \in Int
        BY <1>2 DEF Brightness
      <4>3. 0 <= min
        BY <1>3, RangeIs
      <4>. QED BY <4>1, <4>2, <4>3, <1>2, <1>4
    <3>3. set_params(b, k, min, max, t, tinted) = <<CctFrame(b, k, t, tinted, 0, min, max)>>
      BY <3>2 DEF set_params, Given
    <3>. QED BY <3>1, <3>3 DEF async_set_light
  <2>2. ColourShown(h, d, xy) = [kind |-> "cct", level |-> b, kelvin |-> 100 * (k \div 100), tint |-> t]
    BY <1>1, <1>7 DEF ColourShown
  <2>3. Reads(CctFrame(b, k, t, tinted, 0, min, max))
          = [kind |-> "cct", level |-> b, kelvin |-> 100 * (k \div 100), tint |-> t]
    BY <1>2, <1>4, <1>5, ReadsCct
  <2>. QED BY <2>1, <2>2, <2>3
<1>. QED BY <1>6, <1>7

LEMMA HueReads ==
  ASSUME NEW h \in Lights, NEW d, NEW xy, h.mode = "hs"
  PROVE Reads(ColorSent(h, d)) = ColourShown(h, d, xy)
<1>1. PICK b, hue, sat : b = h.level /\ hue = h.shade.hs[1] /\ sat = h.shade.hs[2]
  OBVIOUS
<1>2. b \in Brightness /\ hue \in 0 .. 360 /\ sat \in 0 .. 100 /\ h.shade.hs = <<hue, sat>>
  BY <1>1 DEF Lights, Shades
<1>3. ColorSent(h, d) = HsiFrame(b, hue, sat, 0)
  BY <1>1 DEF ColorSent, async_set_hsi, set_hsi
<1>4. ColourShown(h, d, xy) = [kind |-> "hs", level |-> b, colour |-> <<hue, sat>>]
  BY <1>1, <1>2 DEF ColourShown
<1>. QED BY <1>2, <1>3, <1>4, ReadsHsi

LEMMA CoordinateReads ==
  ASSUME NEW h \in Lights, NEW d, NEW xy, h.mode = "xy", xy = h.shade.xy
  PROVE Reads(ColorSent(h, d)) = ColourShown(h, d, xy)
<1>1. PICK b, x, y : b = h.level /\ x = xy[1] /\ y = xy[2]
  OBVIOUS
<1>2. b \in Brightness /\ x \in Coordinate /\ y \in Coordinate /\ xy = <<x, y>>
  BY <1>1 DEF Lights, Shades
<1>3. ColorSent(h, d) = XyFrame(b, x, y)
  BY <1>1 DEF ColorSent, async_set_xy, set_xy
<1>4. ColourShown(h, d, xy) = [kind |-> "xy", level |-> b, colour |-> <<x, y>>]
  BY <1>1, <1>2 DEF ColourShown
<1>. QED BY <1>2, <1>3, <1>4, ReadsXy

LEMMA ChannelsRead ==
  ASSUME NEW h \in Lights, NEW d, NEW xy, h.mode \in {"rgbw", "rgbww"}
  PROVE Reads(ColorSent(h, d)) = ColourShown(h, d, xy)
<1>1. PICK b, c, n, e, type : /\ b = h.level /\ c = h.shade[h.mode] /\ n = IF h.mode = "rgbw" THEN 4 ELSE 5
                              /\ e = IF n = 4 THEN 0 ELSE c[5]
                              /\ type = IF n = 4 THEN 0 ELSE 1
  OBVIOUS
<1>2. b \in Brightness /\ n \in {4, 5} /\ c \in [1 .. n -> Byte]
  BY <1>1 DEF Lights, Shades
<1>3. 0 \in Byte /\ e \in Byte /\ type \in Byte /\ \A i \in 1 .. 4 : c[i] \in Byte
  <2>1. 0 \in Byte /\ type \in Byte
    BY <1>1 DEF Byte
  <2>. QED BY <1>1, <1>2, <2>1
<1>4. ColorSent(h, d) = ChannelsSent(h, <<c[1], c[2], c[3]>>, <<c[4], e, 0>>, type)
  <2>1. CASE h.mode = "rgbw"
    BY <1>1, <2>1 DEF ColorSent
  <2>2. CASE h.mode = "rgbww"
    BY <1>1, <2>2 DEF ColorSent
  <2>. QED BY <2>1, <2>2
<1> DEFINE s(t) == [i \in DOMAIN t |-> Scaled(t[i])]
<1>5. s(<<c[1], c[2], c[3]>>) = <<Scaled(c[1]), Scaled(c[2]), Scaled(c[3])>>
  OBVIOUS
<1>6. s(<<c[4], e, 0>>) = <<Scaled(c[4]), Scaled(e), Scaled(0)>>
  OBVIOUS
<1>7. CASE ~Wide
  <2>1. ChannelsSent(h, <<c[1], c[2], c[3]>>, <<c[4], e, 0>>, type)
          = RgbwFrame(b, <<Scaled(c[1]), Scaled(c[2]), Scaled(c[3])>> \o <<Scaled(c[4])>>)
    BY <1>1, <1>5, <1>6, <1>7 DEF ChannelsSent, async_set_rgbw, set_rgbw
  <2>2. Scaled(c[1]) = c[1] /\ Scaled(c[2]) = c[2] /\ Scaled(c[3]) = c[3] /\ Scaled(c[4]) = c[4]
    BY <1>3, <1>7, ScaledIs
  <2>3. <<c[1], c[2], c[3]>> \o <<c[4]>> = <<c[1], c[2], c[3], c[4]>>
    BY <1>3, ThreeOne
  <2>4. Reads(RgbwFrame(b, <<c[1], c[2], c[3], c[4]>>))
          = [kind |-> "rgbw", level |-> b, colour |-> <<c[1], c[2], c[3], c[4]>>]
    BY <1>2, <1>3, ReadsRgbw
  <2>5. SubSeq(c, 1, 4) = <<c[1], c[2], c[3], c[4]>>
    BY <1>2, FourOf
  <2>6. ColourShown(h, d, xy) = [kind |-> "rgbw", level |-> b, colour |-> SubSeq(c, 1, 4)]
    BY <1>1, <1>7 DEF ColourShown
  <2>. QED BY <1>4, <2>1, <2>2, <2>3, <2>4, <2>5, <2>6
<1>8. CASE Wide
  <2>1. PICK rgb, extra : /\ rgb = <<Scaled(c[1]), Scaled(c[2]), Scaled(c[3])>>
                          /\ extra = <<Scaled(c[4]), Scaled(e), Scaled(0)>>
    OBVIOUS
  <2>2. ChannelsSent(h, <<c[1], c[2], c[3]>>, <<c[4], e, 0>>, type) = RgbWideFrame(b, rgb, type, extra)
    BY <1>1, <1>5, <1>6, <1>8, <2>1 DEF ChannelsSent, async_set_rgbw, set_rgbw
  <2>3. /\ Scaled(c[1]) \in PerMille /\ Scaled(c[2]) \in PerMille /\ Scaled(c[3]) \in PerMille
        /\ Scaled(c[4]) \in PerMille /\ Scaled(e) \in PerMille /\ Scaled(0) \in PerMille
    BY <1>3, <1>8, ScaledIs
  <2>4. rgb \in Seq(PerMille) /\ Len(rgb) = 3 /\ extra \in Seq(PerMille) /\ Len(extra) = 3
    BY <2>1, <2>3
  <2>5. Reads(RgbWideFrame(b, rgb, type, extra))
          = [kind |-> "rgb", level |-> b, type |-> type, colour |-> [i \in 1 .. 6 |-> (rgb \o extra)[i]]]
    BY <1>2, <1>3, <2>4, ReadsWide
  <2>6. LET q == rgb \o extra IN
        /\ q[1] = Scaled(c[1]) /\ q[2] = Scaled(c[2]) /\ q[3] = Scaled(c[3])
        /\ q[4] = Scaled(c[4]) /\ q[5] = Scaled(e) /\ q[6] = 0
    <3>1. Scaled(0) = 0
      BY <1>3, ScaledIs
    <3>. QED BY <2>1, <2>3, <3>1, ThreeThree
  <2>7. [i \in 1 .. 6 |-> (rgb \o extra)[i]] = [i \in 1 .. 6 |-> IF i \in DOMAIN c THEN Scaled(c[i]) ELSE 0]
    <3>1. DOMAIN c = 1 .. n
      BY <1>2
    <3>2. PICK q : q = rgb \o extra
      OBVIOUS
    <3>3. n = 4 => q[5] = 0
      BY <1>1, <1>3, <2>6, <3>2, ScaledIs
    <3>4. n = 5 => q[5] = Scaled(c[5])
      BY <1>1, <2>6, <3>2
    <3>5. ASSUME NEW i \in 1 .. 6 PROVE q[i] = IF i \in DOMAIN c THEN Scaled(c[i]) ELSE 0
      <4>1. /\ q[1] = Scaled(c[1]) /\ q[2] = Scaled(c[2]) /\ q[3] = Scaled(c[3])
            /\ q[4] = Scaled(c[4]) /\ q[6] = 0
        BY <2>6, <3>2
      <4>2. CASE n = 4
        BY <3>1, <3>3, <4>1, <4>2
      <4>3. CASE n = 5
        BY <3>1, <3>4, <4>1, <4>3
      <4>. QED BY <1>2, <4>2, <4>3
    <3>. QED BY <3>2, <3>5
  <2>8. ColourShown(h, d, xy)
          = [kind |-> "rgb", level |-> b, type |-> type,
             colour |-> [i \in 1 .. 6 |-> IF i \in DOMAIN c THEN Scaled(c[i]) ELSE 0]]
    BY <1>1, <1>8 DEF ColourShown
  <2>. QED BY <1>4, <2>2, <2>5, <2>7, <2>8
<1>. QED BY <1>7, <1>8

\* Every frame with a look reads as what the controls show.
LEMMA ColourReads ==
  ASSUME device \in Devices, NEW h \in Lights, NEW d \in Values, InRange(h, d)
  PROVE Reads(ColorSent(h, d)) = ColourShown(h, d, h.shade.xy)
<1>1. h.mode \in AllModes
  BY DEF Lights
<1>. QED BY <1>1, WhiteReads, HueReads, CoordinateReads, ChannelsRead DEF AllModes

LEMMA ModesAre ==
  ASSUME device \in Devices
  PROVE /\ Modes \subseteq AllModes /\ Modes # {}
        /\ "brightness" \in Modes => ~HasTint(Model)
        /\ HasSelfieCct(Model) => "cct" \in Modes
<1>1. HasTint(Model) \/ HasSelfieCct(Model) => SupportsCct(Model)
  BY RowIs DEF IsCapabilities, HasTint, HasSelfieCct, SupportsCct
<1>2. RgbMode(Model) \subseteq {"rgbw", "rgbww"}
  BY DEF RgbMode
<1> DEFINE white == IF SupportsCct(Model) THEN {"cct"} ELSE {}
           all == white \cup (IF "hsi" \in Model.modes THEN {"hs"} ELSE {})
                   \cup (IF "rgb" \in Model.modes THEN RgbMode(Model) ELSE {})
<1>3. Modes = IF UseXy /\ "xy" \in Model.modes THEN white \cup {"xy"}
              ELSE IF all = {} THEN {"brightness"} ELSE all
  BY DEF Modes, ColorModes
<1>4. /\ all \subseteq {"cct", "hs", "rgbw", "rgbww"} /\ white \subseteq {"cct"}
      /\ SupportsCct(Model) => "cct" \in white /\ "cct" \in all
  BY <1>2
<1>. HIDE DEF white, all
<1>. QED BY <1>1, <1>3, <1>4 DEF AllModes

LEMMA StartModeIs == ASSUME device \in Devices PROVE StartMode(Model, UseXy) \in Modes
<1> DEFINE order == <<"cct", "hs", "rgbw", "rgbww", "xy", "brightness">>
           P(k) == order[k] \in ColorModes(Model, UseXy)
                   /\ \A j \in 1 .. k - 1 : order[j] \notin ColorModes(Model, UseXy)
<1>1. Modes = ColorModes(Model, UseXy)
  BY DEF Modes
<1>2. \E k \in 1 .. 6 : P(k)
  <2>1. /\ order[1] = "cct" /\ order[2] = "hs" /\ order[3] = "rgbw" /\ order[4] = "rgbww"
        /\ order[5] = "xy" /\ order[6] = "brightness"
    OBVIOUS
  <2>2. \E k \in 1 .. 6 : order[k] \in ColorModes(Model, UseXy)
    BY <1>1, <2>1, ModesAre DEF AllModes
  <2>. HIDE DEF order
  <2>4. CASE order[1] \in ColorModes(Model, UseXy)
    BY <2>4
  <2>5. CASE order[1] \notin ColorModes(Model, UseXy) /\ order[2] \in ColorModes(Model, UseXy)
    <3>1. P(2)
      BY <2>5
    <3>. QED BY <3>1
  <2>6. CASE order[1] \notin ColorModes(Model, UseXy) /\ order[2] \notin ColorModes(Model, UseXy)
             /\ order[3] \in ColorModes(Model, UseXy)
    <3>1. P(3)
      BY <2>6
    <3>. QED BY <3>1
  <2>7. CASE order[1] \notin ColorModes(Model, UseXy) /\ order[2] \notin ColorModes(Model, UseXy)
             /\ order[3] \notin ColorModes(Model, UseXy) /\ order[4] \in ColorModes(Model, UseXy)
    <3>1. P(4)
      BY <2>7
    <3>. QED BY <3>1
  <2>8. CASE order[1] \notin ColorModes(Model, UseXy) /\ order[2] \notin ColorModes(Model, UseXy)
             /\ order[3] \notin ColorModes(Model, UseXy) /\ order[4] \notin ColorModes(Model, UseXy)
             /\ order[5] \in ColorModes(Model, UseXy)
    <3>1. P(5)
      BY <2>8
    <3>. QED BY <3>1
  <2>9. CASE order[1] \notin ColorModes(Model, UseXy) /\ order[2] \notin ColorModes(Model, UseXy)
             /\ order[3] \notin ColorModes(Model, UseXy) /\ order[4] \notin ColorModes(Model, UseXy)
             /\ order[5] \notin ColorModes(Model, UseXy)
    <3>1. order[6] \in ColorModes(Model, UseXy)
      BY <2>2, <2>9
    <3>2. P(6)
      BY <2>9, <3>1
    <3>. QED BY <3>2
  <2>. QED BY <2>4, <2>5, <2>6, <2>7, <2>8, <2>9
<1>3. P(CHOOSE k \in 1 .. 6 : P(k))
  <2>. HIDE DEF P
  <2>. QED BY <1>2
<1>. QED BY <1>1, <1>3 DEF StartMode

LEMMA NeutralIs == ASSUME device \in Devices PROVE Neutral \in Shades
<1>1. Neutral.cct \in Int
  <2>1. 5600 \in Int
    OBVIOUS
  <2>2. Clamped(5600, [selfie |-> FALSE]) \in Int
    BY <2>1, ClampedIs
  <2>. QED BY <2>2 DEF Neutral
<1>2. PICK k \in Int : k = Clamped(5600, [selfie |-> FALSE])
  BY <1>1 DEF Neutral
<1>3. 3127 \in Coordinate /\ 3290 \in Coordinate
  BY DEF Coordinate
<1>4. 0 \in Byte
  BY DEF Byte
<1>5. <<3127, 3290>> \in [1 .. 2 -> Coordinate]
  BY <1>3
<1>6. <<0, 0, 0, 0>> \in [1 .. 4 -> Byte] /\ <<0, 0, 0, 0, 0>> \in [1 .. 5 -> Byte]
  BY <1>4
<1>7. <<0, 0>> \in (0 .. 360) \X (0 .. 100)
  OBVIOUS
<1> DEFINE xy == <<3127, 3290>>
           w == <<0, 0, 0, 0>>
           ww == <<0, 0, 0, 0, 0>>
           hs == <<0, 0>>
<1>8. Neutral = [cct |-> k, xy |-> xy, hs |-> hs, rgbw |-> w, rgbww |-> ww, brightness |-> 0]
  BY <1>2 DEF Neutral
<1>9. xy \in [1 .. 2 -> Coordinate] /\ w \in [1 .. 4 -> Byte] /\ ww \in [1 .. 5 -> Byte]
  BY <1>5, <1>6
<1>10. hs \in (0 .. 360) \X (0 .. 100)
  BY <1>7
<1>. HIDE DEF xy, w, ww, hs
<1>. QED BY <1>8, <1>9, <1>10 DEF Shades

-----------------------------------------------------------------------------
\* The queue, and what a frame that arrives changes.
LEMMA OwnRange == ASSUME NEW S, NEW q \in Seq(S) PROVE IsQueue(q)
<1>1. q \in [1 .. Len(q) -> Range(q)] /\ Len(q) \in Nat
  BY DEF Range
<1>. QED BY <1>1 DEF IsQueue

LEMMA PushedIs ==
  ASSUME NEW q, IsQueue(q), NEW c
  PROVE LET r == Append(q, c) IN
        /\ IsQueue(r) /\ Len(q) \in Nat /\ Len(r) = Len(q) + 1
        /\ \A i \in 1 .. Len(q) : r[i] = q[i]
        /\ r[Len(q) + 1] = c
<1> DEFINE S == Range(q) \cup {c}
<1>1. q \in Seq(S) /\ c \in S
  BY DEF IsQueue
<1>. HIDE DEF S
<1>2. Append(q, c) \in Seq(S)
  BY <1>1
<1>3. /\ Len(q) \in Nat /\ Len(Append(q, c)) = Len(q) + 1
      /\ \A i \in 1 .. Len(q) : Append(q, c)[i] = q[i]
      /\ Append(q, c)[Len(q) + 1] = c
  BY <1>1
<1>. QED BY <1>2, <1>3, OwnRange

LEMMA PoppedIs ==
  ASSUME NEW q, IsQueue(q), q # <<>>
  PROVE LET r == Tail(q) IN
        /\ IsQueue(r) /\ Len(q) \in Nat /\ Len(q) >= 1 /\ Len(r) = Len(q) - 1
        /\ \A i \in 1 .. Len(r) : r[i] = q[i + 1]
        /\ Head(q) = q[1]
<1> DEFINE S == Range(q)
<1>1. q \in Seq(S)
  BY DEF IsQueue
<1>. HIDE DEF S
<1>2. Tail(q) \in Seq(S)
  BY <1>1
<1>3. /\ Len(q) \in Nat /\ Len(q) >= 1 /\ Len(Tail(q)) = Len(q) - 1
      /\ \A i \in 1 .. Len(Tail(q)) : Tail(q)[i] = q[i + 1]
      /\ Head(q) = q[1]
  BY <1>1
<1>. QED BY <1>2, <1>3, OwnRange

LEMMA MovedIs ==
  ASSUME NEW q, IsQueue(q), q # <<>>, NEW c
  PROVE LET r == Append(Tail(q), c) IN
        /\ IsQueue(r) /\ Len(q) \in Nat /\ Len(q) >= 1 /\ Len(r) = Len(q)
        /\ \A i \in 1 .. Len(q) - 1 : r[i] = q[i + 1]
        /\ r[Len(q)] = c
        /\ Head(q) = q[1]
<1>1. PICK t : t = Tail(q)
  OBVIOUS
<1>2. /\ IsQueue(t) /\ Len(q) \in Nat /\ Len(q) >= 1 /\ Len(t) = Len(q) - 1
      /\ \A i \in 1 .. Len(t) : t[i] = q[i + 1]
      /\ Head(q) = q[1]
  BY <1>1, PoppedIs
<1>3. PICK r : r = Append(t, c)
  OBVIOUS
<1>4. /\ IsQueue(r) /\ Len(t) \in Nat /\ Len(r) = Len(t) + 1
      /\ \A i \in 1 .. Len(t) : r[i] = t[i]
      /\ r[Len(t) + 1] = c
  BY <1>2, <1>3, PushedIs
<1>5. Len(r) = Len(q) /\ \A i \in 1 .. Len(q) - 1 : r[i] = q[i + 1]
  BY <1>2, <1>4
<1>6. r[Len(q)] = c
  BY <1>2, <1>4
<1>. QED BY <1>1, <1>2, <1>3, <1>4, <1>5, <1>6

LEMMA ObeyedIs ==
  ASSUME IsLamp(lamp), NEW f
  PROVE /\ IsLamp(Obeyed(f))
        /\ Reads(f).kind \in {"power", "fan", "smoothness", "motion", "none"}
             => Obeyed(f).look = lamp.look /\ Obeyed(f).pair = lamp.pair
        /\ Reads(f).kind = "control" => Obeyed(f).look = lamp.look /\ Obeyed(f).pair = Reads(f).pair
        /\ Reads(f).kind \in LookKinds \cup {"gel"}
             => Obeyed(f).look = Reads(f) /\ Obeyed(f).pair = lamp.pair
<1>1. PICK r, l : r = Reads(f) /\ l = Obeyed(f)
  OBVIOUS
<1>2. CASE r.kind = "power"
  <2>1. l = [lamp EXCEPT !.leds = r.on]
    BY <1>1, <1>2 DEF Obeyed
  <2>2. IsLamp(l) /\ l.look = lamp.look /\ l.pair = lamp.pair
    BY <2>1 DEF IsLamp
  <2>. QED BY <1>1, <1>2, <2>2 DEF LookKinds
<1>3. CASE r.kind = "control"
  <2>1. l = [lamp EXCEPT !.pair = r.pair]
    BY <1>1, <1>3 DEF Obeyed
  <2>2. IsLamp(l) /\ l.look = lamp.look /\ l.pair = r.pair
    BY <2>1 DEF IsLamp
  <2>. QED BY <1>1, <1>3, <2>2 DEF LookKinds
<1>4. CASE r.kind \in {"fan", "smoothness", "motion"}
  <2>1. l = [lamp EXCEPT !.knobs[r.kind] = r.value]
    BY <1>1, <1>4 DEF Obeyed
  <2>2. IsLamp(l) /\ l.look = lamp.look /\ l.pair = lamp.pair
    BY <2>1 DEF IsLamp
  <2>. QED BY <1>1, <1>4, <2>2 DEF LookKinds
<1>5. CASE r.kind = "none"
  <2>1. l = lamp
    BY <1>1, <1>5 DEF Obeyed
  <2>. QED BY <1>1, <1>5, <2>1 DEF LookKinds
<1>6. CASE r.kind \notin {"power", "control", "fan", "smoothness", "motion", "none"}
  <2>1. l = [lamp EXCEPT !.look = r]
    BY <1>1, <1>6 DEF Obeyed
  <2>2. IsLamp(l) /\ l.look = r /\ l.pair = lamp.pair
    BY <2>1 DEF IsLamp
  <2>. QED BY <1>1, <1>6, <2>2
<1>. QED BY <1>2, <1>3, <1>4, <1>5, <1>6

-----------------------------------------------------------------------------
\* What each operation does to the light entity and the shared values.
Followed(h, d) == IF h.on /\ d.xy # h.shade.xy
                  THEN [h EXCEPT !.shade.xy = d.xy, !.mode = "xy", !.effect = NoEffect] ELSE h

LEMMA FitsStays ==
  ASSUME device' = device, Fits(ha', data')
  PROVE Fits(ha, data)'
BY DEF Fits, Plays, InRange, MinKelvin, MaxKelvin, InSelfie, Model

LEMMA RangeKept ==
  ASSUME NEW c, NEW d, c.selfie = d.selfie
  PROVE MinKelvin(c) = MinKelvin(d) /\ MaxKelvin(c) = MaxKelvin(d)
BY DEF MinKelvin, MaxKelvin, InSelfie

LEMMA FollowedFits ==
  ASSUME NEW h, NEW d, Fits(h, d)
  PROVE Fits(Followed(h, d), d) /\ Followed(h, d).on = h.on /\ Followed(h, d).level = h.level
<1>1. CASE h.on /\ d.xy # h.shade.xy
  <2>1. PICK g : g = [h EXCEPT !.shade.xy = d.xy, !.mode = "xy", !.effect = NoEffect]
    OBVIOUS
  <2>2. NoEffect \in Nat /\ d.xy \in [1 .. 2 -> Coordinate]
    BY SiblingsAssumption DEF Fits, Values
  <2>3. h \in Lights
    BY DEF Fits
  <2>4. /\ g \in Lights /\ g.on = h.on /\ g.level = h.level /\ g.effect = NoEffect /\ g.mode = "xy"
        /\ g.shade.cct = h.shade.cct
    <3>1. PICK s : s = [h.shade EXCEPT !.xy = d.xy]
      OBVIOUS
    <3>2. s \in Shades /\ s.cct = h.shade.cct
      BY <2>2, <2>3, <3>1 DEF Lights, Shades
    <3>3. g = [h EXCEPT !.shade = s, !.mode = "xy", !.effect = NoEffect]
      BY <2>1, <3>1
    <3>. QED BY <2>2, <2>3, <3>2, <3>3 DEF Lights, AllModes
  <2>5. Plays(g) /\ InRange(g, d)
    BY <2>4 DEF Fits, Plays, InRange
  <2>6. Followed(h, d) = g
    BY <1>1, <2>1 DEF Followed
  <2>. QED BY <2>4, <2>5, <2>6 DEF Fits
<1>2. CASE ~(h.on /\ d.xy # h.shade.xy)
  BY <1>2 DEF Followed
<1>. QED BY <1>1, <1>2

LEMMA AskedIs ==
  ASSUME device \in Devices, NEW r \in device.asks
  PROVE /\ r.level \in 0 .. 1000
        /\ \/ r.ask \in {"same", "clear"} /\ r.ask \notin Modes
           \/ r.ask = "effect" /\ r.ask \notin Modes /\ r.value[1] \in Effects(Model)
           \/ /\ r.ask \in Modes \ {"brightness"}
              /\ r.ask = "cct" => r.value[1] \in Int
              /\ r.ask = "hs" => r.value \in (0 .. 360) \X (0 .. 100)
              /\ r.ask = "xy" => r.value \in [1 .. 2 -> Coordinate]
              /\ r.ask = "rgbw" => r.value \in [1 .. 4 -> Byte]
              /\ r.ask = "rgbww" => r.value \in [1 .. 5 -> Byte]
<1>1. IsAsked(r, device)
  BY SiblingsAssumption
<1>2. ColorModes(device.row, device.useXy) = Modes /\ device.row = Model
  BY DEF Modes, Model, UseXy
<1>3. Modes \subseteq AllModes
  BY ModesAre
<1>4. r.level \in 0 .. 1000
  BY <1>1 DEF IsAsked
<1>5. \/ r.ask \in {"same", "clear"}
      \/ r.ask = "effect" /\ r.value[1] \in Effects(Model)
      \/ /\ r.ask \in Modes \ {"brightness"}
         /\ r.ask = "cct" => r.value[1] \in Int
         /\ r.ask = "hs" => r.value \in (0 .. 360) \X (0 .. 100)
         /\ r.ask = "xy" => r.value \in [1 .. 2 -> Coordinate]
         /\ r.ask = "rgbw" => r.value \in [1 .. 4 -> Byte]
         /\ r.ask = "rgbww" => r.value \in [1 .. 5 -> Byte]
  <2>1. \/ r.ask \in {"same", "clear"}
        \/ r.ask = "effect" /\ r.value[1] \in Effects(Model)
        \/ /\ r.ask \in Modes \ {"brightness"}
           /\ CASE r.ask = "cct"   -> r.value[1] \in Int
                [] r.ask = "hs"    -> r.value \in (0 .. 360) \X (0 .. 100)
                [] r.ask = "xy"    -> r.value \in [1 .. 2 -> Coordinate]
                [] r.ask = "rgbw"  -> r.value \in [1 .. 4 -> Byte]
                [] r.ask = "rgbww" -> r.value \in [1 .. 5 -> Byte]
    BY <1>1, <1>2 DEF IsAsked
  <2>. QED BY <2>1
<1>6. /\ r.ask \in {"same", "clear"} => r.ask \notin Modes
      /\ r.ask = "effect" => r.ask \notin Modes
  BY <1>3 DEF AllModes
<1>. QED BY <1>4, <1>5, <1>6

LEMMA TurnOnFits ==
  ASSUME TypeInv, NEW r \in device.asks, TurnOn(r)
  PROVE /\ Fits(ha', data') /\ ha'.on = ha.on
        /\ data'.pct = data.pct /\ data'.pair = data.pair
        /\ ha.on /\ (ha.mode = "xy" => data.xy = ha.shade.xy)
             => (ha'.mode = "xy" => data'.xy = ha'.shade.xy)
<1>0. device \in Devices /\ Fits(ha, data)
  BY DEF TypeInv
<1>1. PICK h, d : h = ha' /\ d = data'
  OBVIOUS
<1>2. PICK s, m, e, l :
        /\ m = IF r.ask \in Modes THEN r.ask ELSE ha.mode
        /\ s = IF r.ask \in Modes
               THEN [ha.shade EXCEPT ![r.ask] = IF r.ask = "cct" THEN Clamped(r.value[1], data) ELSE r.value]
               ELSE ha.shade
        /\ e = IF r.ask = "effect" THEN r.value[1] ELSE IF r.ask = "same" THEN ha.effect ELSE NoEffect
        /\ l = IF r.level = 0 THEN ha.level ELSE r.level
  OBVIOUS
<1>3. h = [ha EXCEPT !.mode = m, !.shade = s, !.effect = e, !.level = l]
  BY <1>1, <1>2 DEF TurnOn
<1>4. d = IF r.ask = "xy" THEN [data EXCEPT !.xy = r.value] ELSE data
  BY <1>1 DEF TurnOn
<1>5. ha \in Lights /\ data \in Values
  BY <1>0 DEF Fits
<1>6. m \in AllModes /\ (m = "brightness" => ~HasTint(Model))
  BY <1>0, <1>2, <1>5, AskedIs, ModesAre DEF Fits, Lights
<1>7. l \in Brightness
  BY <1>0, <1>2, <1>5, AskedIs DEF Lights, Brightness
<1>8. e \in Nat /\ e \in Effects(Model) \cup {NoEffect}
  <2>1. \A x \in Effects(Model) : x \in Nat
    BY <1>0, SpeedIs DEF Byte
  <2>2. e \in Effects(Model) \cup {NoEffect}
    <3>1. ha.effect \in Effects(Model) \cup {NoEffect}
      BY <1>0 DEF Fits, Plays
    <3>2. r.ask = "effect" => r.value[1] \in Effects(Model)
      BY <1>0, AskedIs, ModesAre DEF AllModes
    <3>. QED BY <1>2, <3>1, <3>2
  <2>. QED BY <2>1, <2>2, SiblingsAssumption
<1>9. /\ s \in Shades /\ MinKelvin(data) <= s.cct /\ s.cct <= MaxKelvin(data)
      /\ r.ask = "xy" => s.xy = r.value
      /\ r.ask # "xy" => s.xy = ha.shade.xy
  <2>0. ha.shade \in Shades /\ MinKelvin(data) <= ha.shade.cct /\ ha.shade.cct <= MaxKelvin(data)
    BY <1>0, <1>5 DEF Fits, Lights, InRange
  <2>1. CASE r.ask \notin Modes
    <3>1. s = ha.shade
      BY <1>2, <2>1
    <3>2. r.ask # "xy"
      BY <1>0, <2>1, AskedIs
    <3>. QED BY <2>0, <3>1, <3>2
  <2>2. CASE r.ask = "cct" /\ r.ask \in Modes
    <3>1. PICK k : k = Clamped(r.value[1], data)
      OBVIOUS
    <3>2. r.value[1] \in Int
      BY <1>0, <2>2, AskedIs
    <3>3. k \in Int /\ MinKelvin(data) <= k /\ k <= MaxKelvin(data)
      BY <1>0, <3>1, <3>2, ClampedIs
    <3>4. s = [ha.shade EXCEPT !.cct = k]
      BY <1>2, <2>2, <3>1
    <3>. QED BY <2>0, <2>2, <3>3, <3>4 DEF Shades
  <2>3. CASE r.ask \in Modes /\ r.ask # "cct"
    <3>1. s = [ha.shade EXCEPT ![r.ask] = r.value]
      BY <1>2, <2>3
    <3>2. r.ask \in {"hs", "xy", "rgbw", "rgbww"}
      BY <1>0, <2>3, AskedIs, ModesAre DEF AllModes
    <3>3. CASE r.ask = "hs"
      <4>1. r.value \in (0 .. 360) \X (0 .. 100)
        BY <1>0, <2>3, <3>3, AskedIs
      <4>2. s = [ha.shade EXCEPT !.hs = r.value]
        BY <3>1, <3>3
      <4>. QED BY <2>0, <3>3, <4>1, <4>2 DEF Shades
    <3>4. CASE r.ask = "xy"
      <4>1. r.value \in [1 .. 2 -> Coordinate]
        BY <1>0, <2>3, <3>4, AskedIs
      <4>2. s = [ha.shade EXCEPT !.xy = r.value]
        BY <3>1, <3>4
      <4>. QED BY <2>0, <3>4, <4>1, <4>2 DEF Shades
    <3>5. CASE r.ask = "rgbw"
      <4>1. r.value \in [1 .. 4 -> Byte]
        BY <1>0, <2>3, <3>5, AskedIs
      <4>2. s = [ha.shade EXCEPT !.rgbw = r.value]
        BY <3>1, <3>5
      <4>. QED BY <2>0, <3>5, <4>1, <4>2 DEF Shades
    <3>6. CASE r.ask = "rgbww"
      <4>1. r.value \in [1 .. 5 -> Byte]
        BY <1>0, <2>3, <3>6, AskedIs
      <4>2. s = [ha.shade EXCEPT !.rgbww = r.value]
        BY <3>1, <3>6
      <4>. QED BY <2>0, <3>6, <4>1, <4>2 DEF Shades
    <3>. QED BY <3>2, <3>3, <3>4, <3>5, <3>6
  <2>. QED BY <2>1, <2>2, <2>3
<1>10. h \in Lights /\ h.on = ha.on /\ h.mode = m /\ h.shade = s /\ h.effect = e
  BY <1>3, <1>5, <1>6, <1>7, <1>8, <1>9 DEF Lights
<1>11. /\ d \in Values /\ d.selfie = data.selfie /\ d.pct = data.pct /\ d.pair = data.pair
       /\ d.xy = IF r.ask = "xy" THEN r.value ELSE data.xy
  <2>1. CASE r.ask = "xy"
    <3>1. r.value \in [1 .. 2 -> Coordinate]
      BY <1>0, <2>1, AskedIs
    <3>2. d = [data EXCEPT !.xy = r.value]
      BY <1>4, <2>1
    <3>. QED BY <1>5, <2>1, <3>1, <3>2 DEF Values
  <2>2. CASE r.ask # "xy"
    BY <1>4, <1>5, <2>2
  <2>. QED BY <2>1, <2>2
<1>12. Fits(h, d)
  <2>1. InRange(h, d)
    BY <1>9, <1>10, <1>11, RangeKept DEF InRange
  <2>2. Plays(h)
    BY <1>8, <1>10 DEF Plays
  <2>. QED BY <1>6, <1>10, <1>11, <2>1, <2>2 DEF Fits
<1>13. ha.on /\ (ha.mode = "xy" => data.xy = ha.shade.xy) => (h.mode = "xy" => d.xy = h.shade.xy)
  BY <1>2, <1>9, <1>10, <1>11
<1>. QED BY <1>1, <1>10, <1>11, <1>12, <1>13

Looks(f, level) == Reads(f).kind \in LookKinds /\ Percent(Reads(f).level) = Percent(level)

LEMMA ColourShows ==
  ASSUME device \in Devices, NEW h, NEW d, NEW xy, Fits(h, d)
  PROVE ColourShown(h, d, xy).kind \in LookKinds /\ Percent(ColourShown(h, d, xy).level) = Percent(h.level)
<1>1. h.level \in Brightness /\ h.mode \in AllModes
  BY DEF Fits, Lights
<1>2. Percent(10 * Percent(h.level)) = Percent(h.level)
  BY <1>1, WholePercent
<1>3. CASE h.mode = "xy"
  BY <1>3 DEF ColourShown, LookKinds
<1>4. CASE h.mode = "hs"
  BY <1>4 DEF ColourShown, LookKinds
<1>5. CASE h.mode \in {"rgbw", "rgbww"} /\ ~Wide
  BY <1>5 DEF ColourShown, LookKinds
<1>6. CASE h.mode \in {"rgbw", "rgbww"} /\ Wide
  BY <1>6 DEF ColourShown, LookKinds
<1>7. CASE h.mode \in {"cct", "brightness"} /\ InSelfie(d)
  BY <1>2, <1>7 DEF ColourShown, LookKinds
<1>8. CASE h.mode \in {"cct", "brightness"} /\ ~InSelfie(d)
  BY <1>8 DEF ColourShown, LookKinds
<1>9. \/ h.mode = "xy" \/ h.mode = "hs" \/ h.mode \in {"rgbw", "rgbww"}
      \/ h.mode \in {"cct", "brightness"}
  BY <1>1 DEF AllModes
<1>. QED BY <1>3, <1>4, <1>5, <1>6, <1>7, <1>8, <1>9, Zenon

LEMMA EffectShows ==
  ASSUME NEW h, NEW d, Fits(h, d)
  PROVE EffectShown(h, d).kind \in LookKinds /\ Percent(EffectShown(h, d).level) = Percent(h.level)
<1>1. Percent(10 * Percent(h.level)) = Percent(h.level)
  BY WholePercent DEF Fits, Lights
<1>. QED BY <1>1 DEF EffectShown, LookKinds

LEMMA ColorLooks ==
  ASSUME device \in Devices, NEW h, NEW d, Fits(h, d)
  PROVE /\ Looks(ColorSent(h, d), h.level)
        /\ h.effect = NoEffect => Reads(ColorSent(h, d)) = Wanted(h, d)
<1>1. Reads(ColorSent(h, d)) = ColourShown(h, d, h.shade.xy)
  BY ColourReads DEF Fits
<1>2. /\ ColourShown(h, d, h.shade.xy).kind \in LookKinds
      /\ Percent(ColourShown(h, d, h.shade.xy).level) = Percent(h.level)
  <2>1. PICK xy : xy = h.shade.xy
    OBVIOUS
  <2>2. /\ ColourShown(h, d, xy).kind \in LookKinds
        /\ Percent(ColourShown(h, d, xy).level) = Percent(h.level)
    BY ColourShows, Zenon
  <2>. QED BY <2>1, <2>2
<1>. QED BY <1>1, <1>2 DEF Looks, Wanted

LEMMA EffectLooks ==
  ASSUME device \in Devices, NEW h, NEW d, Fits(h, d), h.effect # NoEffect
  PROVE Looks(EffectSent(h, d), h.level) /\ Reads(EffectSent(h, d)) = Wanted(h, d)
<1>1. Reads(EffectSent(h, d)) = EffectShown(h, d)
  BY EffectReads DEF Fits, Plays
<1>. QED BY <1>1, EffectShows DEF Looks, Wanted

LEMMA WantedSame ==
  ASSUME NEW h, NEW c, NEW d, c.selfie = d.selfie, c.tint = d.tint, c.speed = d.speed
  PROVE Wanted(h, c) = Wanted(h, d)
<1>1. EffectShown(h, c) = EffectShown(h, d)
  BY DEF EffectShown
<1>2. ColourShown(h, c, h.shade.xy) = ColourShown(h, d, h.shade.xy)
  BY DEF ColourShown, InSelfie
<1>. QED BY <1>1, <1>2 DEF Wanted

\* What a move of a slider does beside the values it sets.
Adjusts ==
  /\ UNCHANGED <<device, shown, turn, picks, lamp>>
  /\ Fits(ha', data')
  /\ ha'.on = ha.on /\ ha'.level = ha.level /\ data'.pct = data.pct /\ data'.pair = data.pair
  /\ ha.on /\ (ha.mode = "xy" => data.xy = ha.shade.xy) => (ha'.mode = "xy" => data'.xy = ha'.shade.xy)
  /\ \E astray \in BOOLEAN :
       /\ seen' = [seen EXCEPT !.astray = astray] /\ (seen.astray => astray)
       /\ \/ /\ bus' = bus
             /\ (ha.on \/ turn \in {"body", "again"}) /\ ~astray => Wanted(ha', data') = Wanted(ha, data)
          \/ \E f : /\ bus' = Append(bus, Call("slider", f))
                    /\ ha.on /\ Looks(f, ha.level)
                    /\ astray \/ Reads(f) = Wanted(ha', data')

LEMMA SpeedAdjusts ==
  ASSUME TypeInv, NEW v \in Speeds, SetSpeed(v)
  PROVE Adjusts
<1>0. device \in Devices /\ Fits(ha, data) /\ v \in Nat /\ seen \in History
  BY SiblingsAssumption DEF TypeInv
<1>1. PICK d : d = [data EXCEPT !.speed = v]
  OBVIOUS
<1>2. data' = d /\ ha' = ha /\ UNCHANGED <<device, shown, turn, picks, lamp>>
  BY <1>1 DEF SetSpeed
<1>3. /\ d \in Values /\ d.selfie = data.selfie /\ d.pct = data.pct /\ d.pair = data.pair
      /\ d.xy = data.xy /\ d.tint = data.tint
  BY <1>0, <1>1 DEF Fits, Values
<1>4. Fits(ha, d)
  BY <1>0, <1>3, RangeKept DEF Fits, InRange
<1>5. PICK astray \in BOOLEAN : astray = (seen.astray \/ Unnoticed)
  BY Zenon
<1>6. seen' = [seen EXCEPT !.astray = astray] /\ (seen.astray => astray) /\ (Unnoticed => astray)
  BY <1>5, Zenon DEF SetSpeed
<1>7. \/ /\ bus' = bus
         /\ (ha.on \/ turn \in {"body", "again"}) /\ ~astray => Wanted(ha, d) = Wanted(ha, data)
      \/ \E f : /\ bus' = Append(bus, Call("slider", f))
                /\ ha.on /\ Looks(f, ha.level)
                /\ astray \/ Reads(f) = Wanted(ha, d)
  <2>1. CASE ha.on /\ ha.effect # NoEffect
    <3>1. bus' = Append(bus, Call("slider", EffectSent(ha, d)))
      BY <1>2, <2>1 DEF SetSpeed, Queued
    <3>. QED BY <1>0, <1>4, <2>1, <3>1, EffectLooks
  <2>2. CASE ha.on /\ ha.effect = NoEffect
    <3>1. bus' = bus
      BY <2>2 DEF SetSpeed
    <3>2. Wanted(ha, d) = Wanted(ha, data)
      BY <1>3, <2>2 DEF Wanted, ColourShown, InSelfie
    <3>. QED BY <3>1, <3>2
  <2>3. CASE ~ha.on
    <3>1. bus' = bus
      BY <2>3 DEF SetSpeed
    <3>. QED BY <1>6, <2>3, <3>1 DEF Unnoticed
  <2>. QED BY <2>1, <2>2, <2>3
<1>. QED BY <1>2, <1>3, <1>4, <1>6, <1>7 DEF Adjusts

LEMMA TintAdjusts ==
  ASSUME TypeInv, NEW v \in Tints, SetTint(v)
  PROVE Adjusts
<1>0. device \in Devices /\ Fits(ha, data) /\ seen \in History
  BY DEF TypeInv
<1>1. PICK d : d = [data EXCEPT !.tint = v]
  OBVIOUS
<1>2. data' = d /\ ha' = ha /\ UNCHANGED <<device, shown, turn, picks, lamp>> /\ HasTint(Model)
  BY <1>1 DEF SetTint
<1>3. v \in -100 .. 100
  <2>1. /\ Model.gmMin \in -100 .. Model.gmMax /\ Model.gmMax \in -100 .. 100
    BY <1>0, RowIs DEF IsCapabilities
  <2>2. v \in Model.gmMin .. Model.gmMax
    BY DEF SetTint
  <2>. QED BY <2>1, <2>2
<1>4. /\ d \in Values /\ d.selfie = data.selfie /\ d.pct = data.pct /\ d.pair = data.pair
      /\ d.xy = data.xy /\ d.speed = data.speed
  BY <1>0, <1>1, <1>3 DEF Fits, Values
<1>5. Fits(ha, d)
  BY <1>0, <1>4, RangeKept DEF Fits, InRange
<1>6. PICK astray \in BOOLEAN : astray = (seen.astray \/ Unnoticed \/ (ha.on /\ ha.effect # NoEffect))
  BY Zenon
<1>7. /\ seen' = [seen EXCEPT !.astray = astray] /\ (seen.astray => astray) /\ (Unnoticed => astray)
      /\ (ha.on /\ ha.effect # NoEffect => astray)
  BY <1>6, Zenon DEF SetTint
<1>8. \/ /\ bus' = bus
         /\ (ha.on \/ turn \in {"body", "again"}) /\ ~astray => Wanted(ha, d) = Wanted(ha, data)
      \/ \E f : /\ bus' = Append(bus, Call("slider", f))
                /\ ha.on /\ Looks(f, ha.level)
                /\ astray \/ Reads(f) = Wanted(ha, d)
  <2>1. CASE ha.on /\ ha.mode = "cct"
    <3>1. bus' = Append(bus, Call("slider", ColorSent(ha, d)))
      BY <1>2, <2>1 DEF SetTint, Queued
    <3>. QED BY <1>0, <1>5, <1>7, <2>1, <3>1, ColorLooks
  <2>2. CASE ha.on /\ ha.mode # "cct"
    <3>1. bus' = bus
      BY <2>2 DEF SetTint
    <3>2. ha.mode \in {"hs", "rgbw", "rgbww", "xy"}
      BY <1>0, <1>2, <2>2 DEF Fits, Lights, AllModes
    <3>3. ColourShown(ha, d, ha.shade.xy) = ColourShown(ha, data, ha.shade.xy)
      BY <1>4, <3>2 DEF ColourShown
    <3>4. ~astray => Wanted(ha, d) = Wanted(ha, data)
      BY <1>7, <2>2, <3>3 DEF Wanted
    <3>. QED BY <3>1, <3>4
  <2>3. CASE ~ha.on
    <3>1. bus' = bus
      BY <2>3 DEF SetTint
    <3>. QED BY <1>7, <2>3, <3>1 DEF Unnoticed
  <2>. QED BY <2>1, <2>2, <2>3
<1>. QED BY <1>2, <1>4, <1>5, <1>7, <1>8 DEF Adjusts

\* The light follows the sliders' pair, here and at the end of turn_on.
LEMMA FollowIs ==
  ASSUME device \in Devices, NEW h, NEW d, Fits(h, d), NEW q, FollowPair(h, d, q)
  PROVE /\ Fits(ha', d) /\ ha'.on = h.on /\ ha'.level = h.level
        /\ h.on /\ ha'.mode = "xy" /\ (h.mode = "xy" \/ d.xy # h.shade.xy) => d.xy = ha'.shade.xy
        /\ \/ bus' = q /\ ha' = h
           \/ \E f : /\ bus' = Append(q, Call("slider", f))
                     /\ h.on /\ Looks(f, h.level) /\ Reads(f) = Wanted(ha', d)
<1>1. PICK g : g = Followed(h, d)
  OBVIOUS
<1>2. Fits(g, d) /\ g.on = h.on /\ g.level = h.level
  BY <1>1, FollowedFits
<1>3. ha' = g
  BY <1>1 DEF FollowPair, Followed
<1>4. h \in Lights
  BY DEF Fits
<1>5. CASE h.on /\ d.xy # h.shade.xy
  <2>1. g = [h EXCEPT !.shade.xy = d.xy, !.mode = "xy", !.effect = NoEffect]
    BY <1>1, <1>5 DEF Followed
  <2>2. g.effect = NoEffect /\ g.shade.xy = d.xy
    BY <1>4, <2>1 DEF Lights, Shades
  <2>3. bus' = Append(q, Call("slider", ColorSent(g, d)))
    BY <1>3, <1>5 DEF FollowPair
  <2>4. Looks(ColorSent(g, d), h.level) /\ Reads(ColorSent(g, d)) = Wanted(g, d)
    BY <1>2, <2>2, ColorLooks
  <2>. QED BY <1>2, <1>3, <1>5, <2>2, <2>3, <2>4
<1>6. CASE ~(h.on /\ d.xy # h.shade.xy)
  <2>1. g = h /\ bus' = q
    BY <1>1, <1>6 DEF Followed, FollowPair
  <2>. QED BY <1>2, <1>3, <1>6, <2>1
<1>. QED BY <1>5, <1>6

LEMMA CoordinateAdjusts ==
  ASSUME TypeInv, NEW axis \in Axes, NEW v \in Points, SetCoordinate(axis, v)
  PROVE Adjusts
<1>0. device \in Devices /\ Fits(ha, data) /\ seen \in History /\ v \in Coordinate
  BY SiblingsAssumption DEF TypeInv
<1>1. PICK d, h, q : d = [data EXCEPT !.xy[axis] = v] /\ h = ha /\ q = bus
  OBVIOUS
<1>2. data' = d /\ UNCHANGED <<device, shown, turn, picks, lamp, seen>>
  BY <1>1 DEF SetCoordinate
<1>3. /\ d \in Values /\ d.selfie = data.selfie /\ d.pct = data.pct /\ d.pair = data.pair
      /\ d.tint = data.tint /\ d.speed = data.speed
  <2>1. PICK xy : xy = [data.xy EXCEPT ![axis] = v]
    OBVIOUS
  <2>2. xy \in [1 .. 2 -> Coordinate]
    BY <1>0, <2>1 DEF Fits, Values, Axes
  <2>3. d = [data EXCEPT !.xy = xy]
    BY <1>1, <2>1
  <2>. QED BY <1>0, <2>2, <2>3 DEF Fits, Values
<1>4. Fits(h, d)
  BY <1>0, <1>1, <1>3, RangeKept DEF Fits, InRange
<1>5. FollowPair(h, d, q)
  BY <1>1, <1>2 DEF SetCoordinate, FollowPair
<1>6. /\ Fits(ha', d) /\ ha'.on = h.on /\ ha'.level = h.level
      /\ h.on /\ ha'.mode = "xy" /\ (h.mode = "xy" \/ d.xy # h.shade.xy) => d.xy = ha'.shade.xy
      /\ \/ bus' = q /\ ha' = h
         \/ \E f : /\ bus' = Append(q, Call("slider", f))
                   /\ h.on /\ Looks(f, h.level) /\ Reads(f) = Wanted(ha', d)
  BY <1>0, <1>4, <1>5, FollowIs
<1>7. Wanted(h, d) = Wanted(h, data)
  BY <1>3, WantedSame
<1>8. seen' = [seen EXCEPT !.astray = seen.astray] /\ seen.astray \in BOOLEAN
  BY <1>0, <1>2 DEF History
<1>9. ha.on => (ha'.mode = "xy" => data'.xy = ha'.shade.xy)
  <2>1. CASE bus' = q /\ ha' = h
    BY <1>1, <1>2, <1>6, <2>1
  <2>2. CASE h.on /\ d.xy # h.shade.xy
    BY <1>1, <1>2, <1>6, <2>2
  <2>3. CASE ~(h.on /\ d.xy # h.shade.xy)
    <3>1. ha' = h
      BY <1>5, <2>3 DEF FollowPair
    <3>. QED BY <1>1, <1>2, <1>6, <2>3, <3>1
  <2>. QED BY <2>1, <2>2, <2>3
<1>. QED BY <1>1, <1>2, <1>3, <1>6, <1>7, <1>8, <1>9 DEF Adjusts

LEMMA RangeAdjusts ==
  ASSUME TypeInv, NEW selfie \in BOOLEAN, SetRange(selfie)
  PROVE Adjusts
<1>0. device \in Devices /\ Fits(ha, data) /\ seen \in History
  BY DEF TypeInv
<1>1. PICK d : d = [data EXCEPT !.selfie = selfie]
  OBVIOUS
<1>2. data' = d /\ UNCHANGED <<device, shown, turn, picks, lamp>> /\ HasSelfieCct(Model)
  BY <1>1 DEF SetRange
<1>3. d \in Values /\ d.pct = data.pct /\ d.pair = data.pair
  BY <1>0, <1>1 DEF Fits, Values
<1>4. ha \in Lights
  BY <1>0 DEF Fits
<1>5. PICK k : k = Clamped(ha.shade.cct, d)
  OBVIOUS
<1>6. k \in Int /\ MinKelvin(d) <= k /\ k <= MaxKelvin(d)
  BY <1>0, <1>4, <1>5, ClampedIs DEF Lights, Shades
<1>7. PICK s, h : s = [ha.shade EXCEPT !.cct = k] /\ h = [ha EXCEPT !.shade = s, !.mode = "cct", !.effect = NoEffect]
  OBVIOUS
<1>8. s \in Shades /\ s.cct = k
  BY <1>4, <1>6, <1>7 DEF Lights, Shades
<1>9. /\ h \in Lights /\ h.mode = "cct" /\ h.effect = NoEffect /\ h.on = ha.on /\ h.level = ha.level
      /\ h.shade.cct = k
  <2>1. NoEffect \in Nat
    BY SiblingsAssumption
  <2>. QED BY <1>4, <1>7, <1>8, <2>1 DEF Lights, AllModes
<1>10. ha' = h
  BY <1>2, <1>5, <1>7 DEF SetRange
<1>11. Fits(h, d)
  BY <1>3, <1>6, <1>9 DEF Fits, InRange, Plays
<1>12. PICK astray \in BOOLEAN : astray = (seen.astray \/ Unnoticed)
  BY Zenon
<1>13. seen' = [seen EXCEPT !.astray = astray] /\ (seen.astray => astray) /\ (Unnoticed => astray)
  BY <1>12, Zenon DEF SetRange
<1>14. \/ /\ bus' = bus
          /\ (ha.on \/ turn \in {"body", "again"}) /\ ~astray => Wanted(h, d) = Wanted(ha, data)
       \/ \E f : /\ bus' = Append(bus, Call("slider", f))
                 /\ ha.on /\ Looks(f, ha.level)
                 /\ astray \/ Reads(f) = Wanted(h, d)
  <2>1. CASE ha.on
    <3>1. bus' = Append(bus, Call("slider", ColorSent(h, d)))
      BY <1>2, <1>10, <2>1 DEF SetRange, Queued
    <3>. QED BY <1>0, <1>9, <1>11, <2>1, <3>1, ColorLooks
  <2>3. CASE ~ha.on
    <3>1. bus' = bus
      BY <2>3 DEF SetRange
    <3>. QED BY <1>13, <2>3, <3>1 DEF Unnoticed
  <2>. QED BY <2>1, <2>3
<1>. QED BY <1>2, <1>3, <1>9, <1>10, <1>11, <1>13, <1>14 DEF Adjusts

LEMMA ColourSame ==
  ASSUME NEW h, NEW c, NEW d, c.selfie = d.selfie, c.tint = d.tint
  PROVE ColourShown(h, c, h.shade.xy) = ColourShown(h, d, h.shade.xy)
BY DEF ColourShown, InSelfie

LEMMA EffectSame ==
  ASSUME NEW h, NEW c, NEW d,
         Min({c.speed, SpeedMax(Model, h.effect)}) = Min({d.speed, SpeedMax(Model, h.effect)})
  PROVE EffectShown(h, c) = EffectShown(h, d)
BY DEF EffectShown

LEMMA LightSame ==
  ASSUME NEW g, NEW h, NEW d, g.mode = h.mode, g.shade = h.shade, g.effect = h.effect, g.level = h.level
  PROVE Wanted(g, d) = Wanted(h, d)
<1>1. EffectShown(g, d) = EffectShown(h, d)
  BY DEF EffectShown
<1>2. ColourShown(g, d, g.shade.xy) = ColourShown(h, d, h.shade.xy)
  BY DEF ColourShown
<1>. QED BY <1>1, <1>2 DEF Wanted

\* What the end of turn_on does to the speed slider.
Calmed(d, e) == [d EXCEPT !.running = e,
                          !.speed = IF MaxEffectSpeed(Model) > 0 THEN Min({@, Ceiling(e)}) ELSE @]

LEMMA ClampedSpeed ==
  ASSUME device \in Devices, NEW h, NEW d, Fits(h, d), NEW e \in Nat, h.effect \in {e, NoEffect}, NEW c,
         c = Calmed(d, e)
  PROVE /\ Fits(h, c) /\ Wanted(h, c) = Wanted(h, d)
        /\ c.xy = d.xy /\ c.pct = d.pct /\ c.pair = d.pair
<1>1. PICK x, y : x = d.speed /\ y = Ceiling(e)
  OBVIOUS
<1>2. x \in Nat /\ y \in Byte
  BY <1>1, CeilingIs DEF Fits, Values
<1>3. PICK z : z = IF MaxEffectSpeed(Model) > 0 THEN Min({x, y}) ELSE x
  OBVIOUS
<1>4. x \in Int /\ y \in Int /\ x >= 0 /\ y >= 0
  BY <1>2 DEF Byte
<1>5. z \in Nat /\ (z = x \/ (z = IF x <= y THEN x ELSE y))
  BY <1>3, <1>4, MinIs
<1>6. c = [d EXCEPT !.running = e, !.speed = z]
  BY <1>1, <1>3 DEF Calmed
<1>7. /\ c \in Values /\ c.selfie = d.selfie /\ c.tint = d.tint /\ c.speed = z
      /\ c.xy = d.xy /\ c.pct = d.pct /\ c.pair = d.pair
  BY <1>5, <1>6 DEF Fits, Values
<1>8. Fits(h, c)
  BY <1>7, RangeKept DEF Fits, InRange
<1>9. CASE h.effect = NoEffect
  <2>1. ColourShown(h, c, h.shade.xy) = ColourShown(h, d, h.shade.xy)
    BY <1>7, ColourSame
  <2>2. Wanted(h, c) = Wanted(h, d)
    BY <1>9, <2>1 DEF Wanted
  <2>. QED BY <1>7, <1>8, <2>2
<1>10. CASE h.effect # NoEffect
  <2>1. e = h.effect /\ e \in Effects(Model)
    BY <1>10 DEF Fits, Plays
  <2>2. y = SpeedMax(Model, e)
    BY <1>1, <2>1 DEF Ceiling
  <2>3. Min({z, y}) = Min({x, y})
    BY <1>4, <1>5, MinIs
  <2>4. EffectShown(h, c) = EffectShown(h, d)
    <3>1. c.speed = z /\ d.speed = x /\ SpeedMax(Model, h.effect) = y
      BY <1>1, <1>7, <2>1, <2>2
    <3>. QED BY <2>3, <3>1, EffectSame
  <2>5. Wanted(h, c) = Wanted(h, d)
    BY <1>10, <2>4 DEF Wanted
  <2>. QED BY <1>7, <1>8, <2>5
<1>. QED BY <1>7, <1>8, <1>9, <1>10

LEMMA AgainIs ==
  ASSUME TypeInv, AgainDone
  PROVE /\ Fits(ha', data') /\ ha'.on /\ ha'.level = ha.level
        /\ data'.pct = data.pct /\ data'.pair = data.pair
        /\ ha'.mode = "xy" => data'.xy = ha'.shade.xy
        /\ \/ bus' = Tail(bus) /\ Wanted(ha', data') = Wanted(ha, data)
           \/ \E f : /\ bus' = Append(Tail(bus), Call("slider", f))
                     /\ Looks(f, ha.level) /\ Reads(f) = Wanted(ha', data')
<1>0. device \in Devices /\ Fits(ha, data)
  BY DEF TypeInv
<1>1. PICK lit, d, q, e : lit = [ha EXCEPT !.on = TRUE] /\ d = data /\ q = Tail(bus) /\ e = ha.effect
  OBVIOUS
<1>2. PICK c : c = Calmed(d, e)
  OBVIOUS
<1>3. data' = c
  BY <1>1, <1>2 DEF AgainDone, Calmed
<1>4. /\ Fits(lit, d) /\ lit.on /\ lit.level = ha.level /\ lit.mode = ha.mode /\ lit.effect = e
      /\ Wanted(lit, d) = Wanted(ha, data)
  <2>1. ha \in Lights
    BY <1>0 DEF Fits
  <2>2. /\ lit \in Lights /\ lit.on = TRUE /\ lit.level = ha.level /\ lit.mode = ha.mode
        /\ lit.effect = ha.effect /\ lit.shade = ha.shade
    BY <1>1, <2>1 DEF Lights
  <2>3. Fits(lit, d)
    BY <1>0, <1>1, <2>2 DEF Fits, Plays, InRange
  <2>4. Wanted(lit, d) = Wanted(ha, data)
    BY <1>1, <2>2, LightSame
  <2>. QED BY <1>1, <2>2, <2>3, <2>4
<1>5. e \in Nat
  BY <1>0, <1>1 DEF Fits, Lights
<1>6. CASE ha.mode = "xy"
  <2>0. Fits(lit, d)
    BY <1>4
  <2>1. FollowPair(lit, d, q)
    BY <1>1, <1>6 DEF AgainDone, FollowPair
  <2>2. /\ Fits(ha', d) /\ ha'.on = lit.on /\ ha'.level = lit.level
        /\ lit.on /\ ha'.mode = "xy" /\ (lit.mode = "xy" \/ d.xy # lit.shade.xy) => d.xy = ha'.shade.xy
        /\ \/ bus' = q /\ ha' = lit
           \/ \E f : /\ bus' = Append(q, Call("slider", f))
                     /\ lit.on /\ Looks(f, lit.level) /\ Reads(f) = Wanted(ha', d)
    BY <1>0, <2>0, <2>1, FollowIs
  <2>3. PICK g : g = ha'
    OBVIOUS
  <2>4. g.effect \in {e, NoEffect}
    <3>1. CASE lit.on /\ d.xy # lit.shade.xy
      <4>1. g = [lit EXCEPT !.shade.xy = d.xy, !.mode = "xy", !.effect = NoEffect]
        BY <2>1, <2>3, <3>1 DEF FollowPair
      <4>2. lit \in Lights
        BY <1>4 DEF Fits
      <4>. QED BY <4>1, <4>2 DEF Lights
    <3>2. CASE ~(lit.on /\ d.xy # lit.shade.xy)
      BY <1>4, <2>1, <2>3, <3>2 DEF FollowPair
    <3>. QED BY <3>1, <3>2
  <2>5. Fits(g, d)
    BY <2>2, <2>3
  <2>6. Fits(g, c) /\ Wanted(g, c) = Wanted(g, d) /\ c.xy = d.xy /\ c.pct = d.pct /\ c.pair = d.pair
    BY <1>0, <1>2, <1>5, <2>4, <2>5, ClampedSpeed
  <2>7. \/ bus' = Tail(bus) /\ Wanted(ha', data') = Wanted(ha, data)
        \/ \E f : /\ bus' = Append(Tail(bus), Call("slider", f))
                  /\ Looks(f, ha.level) /\ Reads(f) = Wanted(ha', data')
    BY <1>1, <1>3, <1>4, <2>2, <2>3, <2>6
  <2>. QED BY <1>1, <1>3, <1>4, <1>6, <2>2, <2>3, <2>6, <2>7
<1>7. CASE ha.mode # "xy"
  <2>1. ha' = lit /\ bus' = Tail(bus)
    BY <1>1, <1>7 DEF AgainDone
  <2>2. Fits(lit, c) /\ Wanted(lit, c) = Wanted(lit, d) /\ c.xy = d.xy /\ c.pct = d.pct /\ c.pair = d.pair
    <3>1. lit.effect \in {e, NoEffect}
      BY <1>4
    <3>2. Fits(lit, d)
      BY <1>4
    <3>. QED BY <1>0, <1>2, <1>5, <3>1, <3>2, ClampedSpeed
  <2>. QED BY <1>1, <1>3, <1>4, <1>7, <2>1, <2>2
<1>. QED BY <1>6, <1>7

-----------------------------------------------------------------------------
\* TypeInv is kept.
LEMMA ServedIs ==
  ASSUME TypeInv, NEW from, Served(from)
  PROVE /\ bus # <<>> /\ IsLamp(lamp')
        /\ bus[1].from = from /\ Head(bus) = bus[1]
        /\ lamp' = Obeyed(bus[1].frame) \/ lamp' = lamp
<1>1. bus # <<>> /\ Head(bus).from = from /\ lamp' \in {Obeyed(Head(bus).frame), lamp}
  BY DEF Served
<1>2. PICK q, c : q = bus /\ c = Head(bus)
  OBVIOUS
<1>3. Head(q) = q[1]
  BY <1>1, <1>2, PoppedIs DEF TypeInv
<1>4. IsLamp(lamp) /\ IsLamp(Obeyed(c.frame))
  <2>1. IsLamp(lamp)
    BY DEF TypeInv
  <2>. QED BY <2>1, ObeyedIs
<1>. QED BY <1>1, <1>2, <1>3, <1>4

LEMMA TypeInit == ASSUME Init PROVE TypeInv
<1>0. PICK on \in BOOLEAN, level \in Levels, effect \in device.restored,
           mode \in Range(Model.controlModes), frequency \in Range(Model.frequencies) :
        /\ ha = [on |-> on, mode |-> StartMode(Model, UseXy), shade |-> Neutral,
                 effect |-> effect, level |-> level]
        /\ data = [xy |-> Neutral.xy, speed |-> 0, running |-> effect, tint |-> 0,
                   selfie |-> FALSE, pct |-> Untold, pair |-> <<mode, frequency>>]
        /\ shown = [c \in Controls |-> CASE c = "mode" -> mode [] c = "frequency" -> frequency
                                         [] OTHER -> 0]
  BY DEF Init
<1>1. device \in Devices
  BY DEF Init
<1>2. level \in Brightness
  BY SiblingsAssumption DEF Brightness
<1>3. effect \in Nat /\ effect \in Effects(Model) \cup {NoEffect}
  <2>1. effect \in Effects(Model) \cup {NoEffect}
    BY <1>1, SiblingsAssumption DEF Model
  <2>2. NoEffect \in Nat
    BY SiblingsAssumption
  <2>. QED BY <1>1, <2>1, <2>2, SpeedIs DEF Byte
<1>4. mode \in Byte /\ frequency \in Word
  <2>1. Model.controlModes \in Seq(Byte) /\ Model.frequencies \in Seq(Word)
    BY <1>1, RowIs DEF IsCapabilities
  <2>. QED BY <2>1 DEF Range
<1>5. PICK m, s : m = StartMode(Model, UseXy) /\ s = Neutral
  OBVIOUS
<1>6. m \in AllModes /\ (m = "brightness" => ~HasTint(Model))
  BY <1>1, <1>5, StartModeIs, ModesAre
<1>7. s \in Shades
  BY <1>1, <1>5, NeutralIs
<1>8. ha \in Lights /\ ha.effect = effect /\ ha.mode = m /\ ha.shade = s
  BY <1>0, <1>2, <1>3, <1>5, <1>6, <1>7 DEF Lights
<1>9. data \in Values /\ data.selfie = FALSE
  <2>1. s.xy \in [1 .. 2 -> Coordinate]
    BY <1>7 DEF Shades
  <2>2. Untold \in PerMille /\ 0 \in -100 .. 100 /\ 0 \in Nat
    BY DEF Untold, PerMille
  <2>. QED BY <1>0, <1>3, <1>4, <1>5, <2>1, <2>2 DEF Values
<1>10. InRange(ha, data)
  <2>1. PICK d : d = [selfie |-> FALSE]
    OBVIOUS
  <2>2. s.cct = Clamped(5600, d)
    BY <1>5, <2>1 DEF Neutral
  <2>3. MinKelvin(d) <= s.cct /\ s.cct <= MaxKelvin(d)
    <3>1. PICK n \in Int : n = 5600
      OBVIOUS
    <3>. QED BY <1>1, <2>2, <3>1, ClampedIs
  <2>4. d.selfie = data.selfie
    BY <1>9, <2>1
  <2>. QED BY <1>8, <2>3, <2>4, RangeKept DEF InRange
<1>11. Fits(ha, data)
  BY <1>3, <1>6, <1>8, <1>9, <1>10 DEF Fits, Plays
<1>12. IsQueue(bus) /\ turn \in Turns
  <2>1. bus = <<>> /\ bus \in Seq({})
    BY DEF Init
  <2>. QED BY <2>1, OwnRange DEF Init, Turns
<1>13. ArePicks(picks)
  BY DEF Init, ArePicks, Idle, SelectControls
<1>14. IsLamp(lamp) /\ seen \in History
  BY DEF Init, IsLamp, History
<1>15. DOMAIN shown = Controls
  BY <1>0
<1>. QED BY <1>1, <1>11, <1>12, <1>13, <1>14, <1>15 DEF TypeInv

\* The fields of TypeInv that a step leaves alone.
LEMMA TypeStays ==
  ASSUME TypeInv, device' = device, Fits(ha', data'), turn' \in Turns, IsQueue(bus'), DOMAIN shown' = Controls,
         ArePicks(picks'), IsLamp(lamp'), seen' \in History
  PROVE TypeInv'
<1>1. device \in Devices
  BY DEF TypeInv
<1>2. Fits(ha, data)'
  BY FitsStays
<1>3. Controls' = Controls
  BY DEF Controls, Knobs
<1>4. ArePicks(picks)' /\ IsLamp(lamp)' /\ IsQueue(bus)'
  BY DEF ArePicks, IsLamp, IsQueue
<1>. QED BY <1>1, <1>2, <1>3, <1>4 DEF TypeInv

\* A picked value becomes half of the pair.
LEMMA HalfFits ==
  ASSUME device \in Devices, NEW h, NEW d, Fits(h, d), NEW i \in {1, 2}, NEW v,
         v \in IF i = 1 THEN Range(Model.controlModes) ELSE Range(Model.frequencies)
  PROVE LET c == [d EXCEPT !.pair[i] = v] IN
        /\ Fits(h, c) /\ c.pair \in Byte \X Word
        /\ c.pair = IF i = 1 THEN <<v, d.pair[2]>> ELSE <<d.pair[1], v>>
        /\ c.selfie = d.selfie /\ c.tint = d.tint /\ c.speed = d.speed /\ c.pct = d.pct /\ c.xy = d.xy
<1>1. Model.controlModes \in Seq(Byte) /\ Model.frequencies \in Seq(Word)
  BY RowIs DEF IsCapabilities
<1>2. /\ i = 1 => v \in Byte
      /\ i = 2 => v \in Word
  BY <1>1 DEF Range
<1>3. PICK p : p = [d.pair EXCEPT ![i] = v]
  OBVIOUS
<1>4. d.pair \in Byte \X Word
  BY DEF Fits, Values
<1>5. p \in Byte \X Word /\ p = IF i = 1 THEN <<v, d.pair[2]>> ELSE <<d.pair[1], v>>
  <2>1. CASE i = 1
    BY <1>2, <1>3, <1>4, <2>1
  <2>2. CASE i = 2
    BY <1>2, <1>3, <1>4, <2>2
  <2>. QED BY <2>1, <2>2
<1>6. PICK c : c = [d EXCEPT !.pair[i] = v]
  OBVIOUS
<1>7. c = [d EXCEPT !.pair = p]
  BY <1>3, <1>6
<1>8. /\ c \in Values /\ c.selfie = d.selfie /\ c.pair = p
      /\ c.tint = d.tint /\ c.speed = d.speed /\ c.pct = d.pct /\ c.xy = d.xy
  BY <1>5, <1>7 DEF Fits, Values
<1>9. Fits(h, c)
  BY <1>8, RangeKept DEF Fits, InRange
<1>. QED BY <1>5, <1>6, <1>8, <1>9

LEMMA PowerIs ==
  ASSUME TypeInv, PowerDone
  PROVE /\ Fits(ha, data') /\ ha' = ha /\ device' = device
        /\ data'.pct = ha.level /\ data'.pair = data.pair /\ Wanted(ha, data') = Wanted(ha, data)
        /\ (ha.mode = "xy" => data.xy = ha.shade.xy) => (ha.mode = "xy" => data'.xy = ha.shade.xy)
<1>0. device \in Devices /\ Fits(ha, data)
  BY DEF TypeInv
<1>1. PICK xy, l : xy = (IF ha.mode = "xy" /\ ha.effect = NoEffect THEN ha.shade.xy ELSE data.xy) /\ l = ha.level
  OBVIOUS
<1>2. PICK d : d = [data EXCEPT !.pct = l, !.xy = xy]
  OBVIOUS
<1>3. data' = d /\ ha' = ha /\ device' = device
  BY <1>1, <1>2 DEF PowerDone
<1>4. xy \in [1 .. 2 -> Coordinate] /\ l \in PerMille
  BY <1>0, <1>1 DEF Fits, Lights, Shades, Values, Brightness, PerMille
<1>5. /\ d \in Values /\ d.pct = l /\ d.xy = xy /\ d.selfie = data.selfie /\ d.pair = data.pair
      /\ d.tint = data.tint /\ d.speed = data.speed
  BY <1>0, <1>2, <1>4 DEF Fits, Values
<1>6. Fits(ha, d)
  BY <1>0, <1>5, RangeKept DEF Fits, InRange
<1>7. Wanted(ha, d) = Wanted(ha, data)
  BY <1>5, WantedSame
<1>. QED BY <1>1, <1>3, <1>5, <1>6, <1>7

LEMMA QueueStep ==
  ASSUME TypeInv
  PROVE /\ \A c : IsQueue(Append(bus, c))
        /\ bus # <<>> => IsQueue(Tail(bus)) /\ \A c : IsQueue(Append(Tail(bus), c))
<1>1. PICK q : q = bus
  OBVIOUS
<1>2. IsQueue(q)
  BY <1>1 DEF TypeInv
<1>3. \A c : IsQueue(Append(q, c))
  BY <1>2, PushedIs
<1>4. q # <<>> => IsQueue(Tail(q))
  BY <1>2, PoppedIs
<1>5. q # <<>> => \A c : IsQueue(Append(Tail(q), c))
  BY <1>2, MovedIs
<1>. QED BY <1>1, <1>3, <1>4, <1>5

LEMMA PickedIs ==
  ASSUME TypeInv, NEW platform, NEW control, NEW value, Picks(platform, control, value),
         \/ platform = "select" /\ control \in SelectControls
         \/ platform = "switch" /\ control = "motion"
  PROVE /\ ArePicks(picks') /\ picks[platform] = Idle
        /\ picks'[platform] = [control |-> control, value |-> value]
        /\ platform = "switch" => picks'["select"] = picks["select"]
        /\ UNCHANGED <<device, ha, shown, turn, lamp>>
<1>1. picks' = [picks EXCEPT ![platform] = [control |-> control, value |-> value]]
  BY DEF Picks
<1>2. ArePicks(picks)
  BY DEF TypeInv
<1>3. ArePicks(picks')
  BY <1>1, <1>2 DEF ArePicks
<1>. QED BY <1>1, <1>2, <1>3 DEF Picks, ArePicks

LEMMA EndedIs ==
  ASSUME TypeInv, NEW platform \in {"select", "switch"}, PickEnds(platform)
  PROVE /\ ArePicks(picks') /\ picks'[platform].control = "none"
        /\ platform = "switch" => picks'["select"] = picks["select"]
        /\ DOMAIN shown' = Controls /\ seen' \in History
        /\ UNCHANGED <<device, ha, data, turn>> /\ bus' = Tail(bus)
        /\ seen'.synced = seen.synced /\ seen'.astray = seen.astray
<1>0. ArePicks(picks) /\ DOMAIN shown = Controls /\ seen \in History
  BY DEF TypeInv
<1>1. picks' = [picks EXCEPT ![platform] = Idle]
  BY DEF PickEnds
<1>2. ArePicks(picks') /\ picks'[platform].control = "none"
  BY <1>0, <1>1 DEF ArePicks, Idle, SelectControls
<1>3. platform = "switch" => picks'["select"] = picks["select"]
  BY <1>0, <1>1 DEF ArePicks
<1>4. PICK p : p = picks[platform]
  OBVIOUS
<1>5. PICK raised \in BOOLEAN :
        /\ shown' = IF raised THEN shown ELSE [shown EXCEPT ![p.control] = p.value]
        /\ seen' = [seen EXCEPT
             !.paired = IF p.control \in {"mode", "frequency"} THEN Arrived ELSE @,
             !.stale = IF raised THEN @ \cup {p.control} ELSE @ \ {p.control}]
  BY <1>4 DEF PickEnds
<1>6. DOMAIN shown' = Controls
  BY <1>0, <1>5
<1>7. p.control \in SelectControls \cup {"motion"}
  BY <1>0, <1>4 DEF ArePicks, SelectControls
<1>8. PICK paired \in BOOLEAN : paired = IF p.control \in {"mode", "frequency"} THEN Arrived ELSE seen.paired
  <2>1. seen.paired \in BOOLEAN /\ Arrived \in BOOLEAN
    BY <1>0, Zenon DEF History, Arrived
  <2>. QED BY <2>1, Zenon
<1>9. PICK stale : stale = IF raised THEN seen.stale \cup {p.control} ELSE seen.stale \ {p.control}
  OBVIOUS
<1>10. seen' = [seen EXCEPT !.paired = paired, !.stale = stale]
  BY <1>5, <1>8, <1>9, Zenon
<1>11. stale \in SUBSET (SelectControls \cup {"motion"})
  BY <1>0, <1>7, <1>9 DEF History
<1>12. /\ seen' \in History
       /\ seen'.synced = seen.synced /\ seen'.astray = seen.astray
  BY <1>0, <1>10, <1>11 DEF History
<1>. QED BY <1>2, <1>3, <1>6, <1>12 DEF PickEnds

LEMMA ArrivedIs == Arrived \in BOOLEAN
BY Zenon DEF Arrived

\* The history after each step of a command.
LEMMA BodySeen ==
  ASSUME TypeInv, BodyDone
  PROVE /\ seen' \in History /\ seen'.synced = Arrived
        /\ seen'.astray = seen.astray /\ seen'.paired = seen.paired /\ seen'.stale = seen.stale
<1>1. PICK arrived \in BOOLEAN : arrived = Arrived
  BY ArrivedIs, Zenon
<1>2. seen' = [seen EXCEPT !.synced = arrived]
  BY <1>1, Zenon DEF BodyDone
<1>3. seen \in History
  BY DEF TypeInv
<1>4. /\ seen' \in History /\ seen'.synced = arrived
      /\ seen'.astray = seen.astray /\ seen'.paired = seen.paired /\ seen'.stale = seen.stale
  BY <1>2, <1>3 DEF History
<1>. QED BY <1>1, <1>4, Zenon

LEMMA SliderSeen ==
  ASSUME TypeInv, SliderDone
  PROVE /\ seen' \in History /\ seen'.synced = Arrived
        /\ seen'.astray = seen.astray /\ seen'.paired = seen.paired /\ seen'.stale = seen.stale
<1>1. PICK arrived \in BOOLEAN : arrived = Arrived
  BY ArrivedIs, Zenon
<1>2. seen' = [seen EXCEPT !.synced = arrived]
  BY <1>1, Zenon DEF SliderDone
<1>3. seen \in History
  BY DEF TypeInv
<1>4. /\ seen' \in History /\ seen'.synced = arrived
      /\ seen'.astray = seen.astray /\ seen'.paired = seen.paired /\ seen'.stale = seen.stale
  BY <1>2, <1>3 DEF History
<1>. QED BY <1>1, <1>4, Zenon

LEMMA RaisedSeen ==
  ASSUME TypeInv, TurnRaises
  PROVE /\ seen' \in History
        /\ seen'.synced = TRUE => seen.synced = TRUE /\ turn = "off"
        /\ seen'.astray = seen.astray /\ seen'.paired = seen.paired /\ seen'.stale = seen.stale
<1>1. PICK synced \in BOOLEAN : synced = (seen.synced /\ turn = "off")
  BY Zenon
<1>3. seen' = [seen EXCEPT !.synced = synced]
  BY <1>1, Zenon DEF TurnRaises
<1>4. seen \in History
  BY DEF TypeInv
<1>5. /\ seen' \in History /\ seen'.synced = synced
      /\ seen'.astray = seen.astray /\ seen'.paired = seen.paired /\ seen'.stale = seen.stale
  BY <1>3, <1>4 DEF History
<1>6. seen.synced \in BOOLEAN
  BY <1>4 DEF History
<1>. QED BY <1>1, <1>5, <1>6, Zenon

LEMMA PowerSeen ==
  ASSUME TypeInv, PowerDone
  PROVE /\ seen' \in History /\ seen'.synced = seen.synced
        /\ seen'.astray = FALSE /\ seen'.paired = seen.paired /\ seen'.stale = seen.stale
BY DEF TypeInv, PowerDone, History

LEMMA Steps ==
  ASSUME TypeInv, [Next]_vars
  PROVE \/ \E r \in device.asks : TurnOn(r)
        \/ TurnOff \/ PowerDone \/ BodyDone \/ AgainDone \/ OffDone \/ TurnRaises
        \/ Adjusts
        \/ SliderDone
        \/ \E i \in {1, 2} : \E v \in IF i = 1 THEN Range(Model.controlModes) ELSE Range(Model.frequencies) :
             PickHalf(i, v)
        \/ \E chip \in Chips : PickGel(chip)
        \/ \E knob \in Knobs, value \in {0, 1} : PickKnob(knob, value)
        \/ \E platform \in {"select", "switch"} : PickEnds(platform)
        \/ UNCHANGED vars
BY SpeedAdjusts, TintAdjusts, CoordinateAdjusts, RangeAdjusts DEF Next

LEMMA TypeStep == ASSUME TypeInv, [Next]_vars PROVE TypeInv'
<1>0. /\ device \in Devices /\ Fits(ha, data) /\ turn \in Turns /\ IsQueue(bus)
      /\ DOMAIN shown = Controls /\ ArePicks(picks) /\ IsLamp(lamp) /\ seen \in History
  BY DEF TypeInv
<1>1. ASSUME NEW r \in device.asks, TurnOn(r) PROVE TypeInv'
  <2>1. IsQueue(bus')
    BY <1>1, QueueStep DEF TurnOn, Queued
  <2>2. /\ device' = device /\ shown' = shown /\ turn' = "power" /\ picks' = picks
        /\ lamp' = lamp /\ seen' = seen
    BY <1>1 DEF TurnOn
  <2>3. Fits(ha', data')
    BY <1>1, TurnOnFits
  <2>. QED BY <1>0, <2>1, <2>2, <2>3, TypeStays DEF Turns
<1>2. ASSUME TurnOff PROVE TypeInv'
  <2>1. IsQueue(bus')
    BY <1>2, QueueStep DEF TurnOff, Queued
  <2>2. /\ device' = device /\ shown' = shown /\ turn' = "off" /\ picks' = picks
        /\ lamp' = lamp /\ seen' = seen /\ ha' = ha /\ data' = data
    BY <1>2 DEF TurnOff
  <2>. QED BY <1>0, <2>1, <2>2, TypeStays DEF Turns
<1>3. ASSUME PowerDone PROVE TypeInv'
  <2>0. bus # <<>> /\ IsLamp(lamp')
    BY <1>3, ServedIs DEF PowerDone
  <2>1. IsQueue(bus')
    BY <1>3, <2>0, QueueStep DEF PowerDone, Then
  <2>2. /\ device' = device /\ shown' = shown /\ turn' = "body" /\ picks' = picks
    BY <1>3 DEF PowerDone
  <2>3. Fits(ha', data')
    BY <1>3, PowerIs
  <2>. QED BY <1>0, <1>3, <2>0, <2>1, <2>2, <2>3, PowerSeen, TypeStays DEF Turns
<1>4. ASSUME BodyDone PROVE TypeInv'
  <2>0. bus # <<>> /\ IsLamp(lamp')
    BY <1>4, ServedIs DEF BodyDone
  <2>1. IsQueue(bus')
    BY <1>4, <2>0, QueueStep DEF BodyDone, Then
  <2>2. /\ device' = device /\ shown' = shown /\ turn' = "again" /\ picks' = picks
        /\ ha' = ha /\ data' = data
    BY <1>4 DEF BodyDone
  <2>. QED BY <1>0, <1>4, <2>0, <2>1, <2>2, BodySeen, TypeStays DEF Turns
<1>5. ASSUME AgainDone PROVE TypeInv'
  <2>0. bus # <<>> /\ IsLamp(lamp')
    BY <1>5, ServedIs DEF AgainDone
  <2>1. IsQueue(bus')
    BY <1>5, <2>0, AgainIs, QueueStep
  <2>2. /\ device' = device /\ shown' = shown /\ turn' = "idle" /\ picks' = picks /\ seen' = seen
    BY <1>5 DEF AgainDone
  <2>3. Fits(ha', data')
    BY <1>5, AgainIs
  <2>. QED BY <1>0, <2>0, <2>1, <2>2, <2>3, TypeStays DEF Turns
<1>6. ASSUME OffDone PROVE TypeInv'
  <2>0. bus # <<>> /\ IsLamp(lamp')
    BY <1>6, ServedIs DEF OffDone
  <2>1. IsQueue(bus')
    BY <1>6, <2>0, QueueStep DEF OffDone
  <2>2. /\ device' = device /\ shown' = shown /\ turn' = "idle" /\ picks' = picks /\ seen' = seen
        /\ data' = data /\ ha' = [ha EXCEPT !.on = FALSE]
    BY <1>6 DEF OffDone
  <2>3. Fits(ha', data')
    <3>1. ha \in Lights
      BY <1>0 DEF Fits
    <3>2. /\ ha' \in Lights /\ ha'.mode = ha.mode /\ ha'.shade = ha.shade /\ ha'.effect = ha.effect
      BY <2>2, <3>1 DEF Lights
    <3>. QED BY <1>0, <2>2, <3>2 DEF Fits, Plays, InRange
  <2>. QED BY <1>0, <2>0, <2>1, <2>2, <2>3, TypeStays DEF Turns
<1>7. ASSUME TurnRaises PROVE TypeInv'
  <2>0. bus # <<>> /\ IsLamp(lamp')
    BY <1>7, ServedIs DEF TurnRaises
  <2>1. IsQueue(bus')
    BY <1>7, <2>0, QueueStep DEF TurnRaises
  <2>2. /\ device' = device /\ shown' = shown /\ turn' = "idle" /\ picks' = picks
        /\ data' = data /\ ha' = ha
    BY <1>7 DEF TurnRaises
  <2>. QED BY <1>0, <1>7, <2>0, <2>1, <2>2, RaisedSeen, TypeStays DEF Turns
<1>8. ASSUME Adjusts PROVE TypeInv'
  <2>1. IsQueue(bus')
    BY <1>0, <1>8, QueueStep DEF Adjusts
  <2>2. /\ device' = device /\ shown' = shown /\ turn' = turn /\ picks' = picks /\ lamp' = lamp
    BY <1>8 DEF Adjusts
  <2>3. seen' \in History
    BY <1>0, <1>8 DEF Adjusts, History
  <2>4. Fits(ha', data')
    BY <1>8 DEF Adjusts
  <2>. QED BY <1>0, <2>1, <2>2, <2>3, <2>4, TypeStays
<1>9. ASSUME SliderDone PROVE TypeInv'
  <2>0. bus # <<>> /\ IsLamp(lamp')
    BY <1>9, ServedIs DEF SliderDone
  <2>1. IsQueue(bus')
    BY <1>9, <2>0, QueueStep DEF SliderDone
  <2>2. /\ device' = device /\ shown' = shown /\ turn' = turn /\ picks' = picks
        /\ data' = data /\ ha' = ha
    BY <1>9 DEF SliderDone
  <2>. QED BY <1>0, <1>9, <2>0, <2>1, <2>2, SliderSeen, TypeStays
<1>10. ASSUME NEW i \in {1, 2}, NEW v \in IF i = 1 THEN Range(Model.controlModes) ELSE Range(Model.frequencies),
              PickHalf(i, v)
       PROVE TypeInv'
  <2>1. IsQueue(bus')
    BY <1>10, QueueStep DEF PickHalf, Queued
  <2>2. ArePicks(picks') /\ UNCHANGED <<device, ha, shown, turn, lamp>>
    BY <1>10, PickedIs DEF PickHalf, SelectControls
  <2>3. seen' = seen /\ data' = [data EXCEPT !.pair[i] = v]
    BY <1>10 DEF PickHalf
  <2>4. Fits(ha, data')
    BY <1>0, <1>10, <2>3, HalfFits
  <2>. QED BY <1>0, <2>1, <2>2, <2>3, <2>4, TypeStays
<1>11. ASSUME NEW chip \in Chips, PickGel(chip) PROVE TypeInv'
  <2>1. IsQueue(bus')
    BY <1>11, QueueStep DEF PickGel, Queued
  <2>2. ArePicks(picks') /\ UNCHANGED <<device, ha, shown, turn, lamp>>
    BY <1>11, PickedIs DEF PickGel, SelectControls
  <2>3. seen' = seen /\ data' = data
    BY <1>11 DEF PickGel
  <2>. QED BY <1>0, <2>1, <2>2, <2>3, TypeStays
<1>12. ASSUME NEW knob \in Knobs, NEW value \in {0, 1}, PickKnob(knob, value) PROVE TypeInv'
  <2>0. knob \in {"fan", "smoothness", "motion"}
    BY <1>0, SiblingsAssumption DEF Knobs
  <2>1. IsQueue(bus')
    BY <1>12, QueueStep DEF PickKnob, Queued
  <2>2. ArePicks(picks') /\ UNCHANGED <<device, ha, shown, turn, lamp>>
    BY <1>12, <2>0, PickedIs DEF PickKnob, SelectControls
  <2>3. seen' = seen /\ data' = data
    BY <1>12 DEF PickKnob
  <2>. QED BY <1>0, <2>1, <2>2, <2>3, TypeStays
<1>13. ASSUME NEW platform \in {"select", "switch"}, PickEnds(platform) PROVE TypeInv'
  <2>0. bus # <<>> /\ IsLamp(lamp')
    BY <1>13, ServedIs DEF PickEnds
  <2>1. /\ ArePicks(picks') /\ DOMAIN shown' = Controls /\ seen' \in History
        /\ UNCHANGED <<device, ha, data, turn>> /\ bus' = Tail(bus)
    BY <1>13, EndedIs
  <2>2. IsQueue(bus')
    BY <2>0, <2>1, QueueStep
  <2>. QED BY <1>0, <2>0, <2>1, <2>2, TypeStays
<1>14. CASE UNCHANGED vars
  BY <1>0, <1>14, TypeStays DEF vars
<1>. QED BY <1>1, <1>2, <1>3, <1>4, <1>5, <1>6, <1>7, <1>8, <1>9, <1>10, <1>11, <1>12, <1>13, <1>14, Steps

-----------------------------------------------------------------------------
\* CallsInv is kept.
LEMMA CallsPush ==
  ASSUME NEW q, IsQueue(q), NEW t, NEW p, NEW u, NEW o, CallsFit(q, t, p),
         \A x : CallFits(x, t, p) => CallFits(x, u, o),
         NEW c, CallFits(c, u, o),
         c.from \in {"turn", "select"} => \A i \in 1 .. Len(q) : q[i].from # c.from
  PROVE CallsFit(Append(q, c), u, o)
<1>1. PICK r : r = Append(q, c)
  OBVIOUS
<1>2. /\ Len(q) \in Nat /\ Len(r) = Len(q) + 1
      /\ \A i \in 1 .. Len(q) : r[i] = q[i]
      /\ r[Len(q) + 1] = c
  BY <1>1, PushedIs
<1>3. ASSUME NEW i \in 1 .. Len(r) PROVE i \in 1 .. Len(q) \/ i = Len(q) + 1
  BY <1>2
<1>4. ASSUME NEW i \in 1 .. Len(r) PROVE CallFits(r[i], u, o)
  <2>1. CASE i \in 1 .. Len(q)
    BY <1>2, <2>1 DEF CallsFit
  <2>2. CASE i = Len(q) + 1
    BY <1>2, <2>2
  <2>. QED BY <1>3, <2>1, <2>2
<1>5. ASSUME NEW i \in 1 .. Len(r), NEW j \in 1 .. Len(r), r[i].from = r[j].from, r[i].from \in {"turn", "select"}
      PROVE i = j
  <2>1. CASE i \in 1 .. Len(q) /\ j \in 1 .. Len(q)
    BY <1>2, <1>5, <2>1 DEF CallsFit
  <2>2. CASE i \in 1 .. Len(q) /\ j = Len(q) + 1
    BY <1>2, <1>5, <2>2
  <2>3. CASE i = Len(q) + 1 /\ j \in 1 .. Len(q)
    BY <1>2, <1>5, <2>3
  <2>. QED BY <1>3, <2>1, <2>2, <2>3
<1>. QED BY <1>1, <1>4, <1>5 DEF CallsFit

LEMMA CallsPop ==
  ASSUME NEW q, IsQueue(q), q # <<>>, NEW t, NEW p, NEW u, NEW o, CallsFit(q, t, p),
         \A x : CallFits(x, t, p) /\ (x.from = q[1].from => x.from \notin {"turn", "select"}) => CallFits(x, u, o)
  PROVE /\ CallsFit(Tail(q), u, o)
        /\ q[1].from \in {"turn", "select"} => \A i \in 1 .. Len(Tail(q)) : Tail(q)[i].from # q[1].from
<1>1. PICK r : r = Tail(q)
  OBVIOUS
<1>2. /\ Len(q) \in Nat /\ Len(q) >= 1 /\ Len(r) = Len(q) - 1
      /\ \A i \in 1 .. Len(r) : r[i] = q[i + 1]
  BY <1>1, PoppedIs
<1>3. ASSUME NEW i \in 1 .. Len(r)
      PROVE /\ i + 1 \in 1 .. Len(q) /\ 1 \in 1 .. Len(q) /\ i + 1 # 1 /\ r[i] = q[i + 1] /\ i \in Int
  BY <1>2
<1>4. q[1].from \in {"turn", "select"} => \A i \in 1 .. Len(r) : r[i].from # q[1].from
  BY <1>3 DEF CallsFit
<1>5. ASSUME NEW i \in 1 .. Len(r) PROVE CallFits(r[i], u, o)
  BY <1>3, <1>4 DEF CallsFit
<1>6. ASSUME NEW i \in 1 .. Len(r), NEW j \in 1 .. Len(r), r[i].from = r[j].from, r[i].from \in {"turn", "select"}
      PROVE i = j
  <2>1. i + 1 = j + 1
    BY <1>3, <1>6 DEF CallsFit
  <2>. QED BY <1>3, <2>1
<1>. QED BY <1>1, <1>4, <1>5, <1>6 DEF CallsFit

LEMMA CallsMove ==
  ASSUME NEW q, IsQueue(q), q # <<>>, NEW t, NEW p, NEW u, NEW o, CallsFit(q, t, p),
         q[1].from = "turn",
         \A x : CallFits(x, t, p) /\ x.from # "turn" => CallFits(x, u, o),
         NEW c, CallFits(c, u, o), c.from # "select"
  PROVE CallsFit(Append(Tail(q), c), u, o)
<1>1. PICK r : r = Tail(q)
  OBVIOUS
<1>2. IsQueue(r) /\ CallsFit(r, u, o) /\ \A i \in 1 .. Len(r) : r[i].from # "turn"
  <2>1. IsQueue(Tail(q))
    BY PoppedIs
  <2>2. CallsFit(Tail(q), u, o) /\ \A i \in 1 .. Len(Tail(q)) : Tail(q)[i].from # "turn"
    BY CallsPop
  <2>. QED BY <1>1, <2>1, <2>2
<1>3. CallsFit(Append(r, c), u, o)
  BY <1>2, CallsPush
<1>. QED BY <1>1, <1>3

LEMMA CallsStays ==
  ASSUME CallsFit(bus', turn', picks'["select"].control)
  PROVE CallsInv'
BY DEF CallsInv, Picked, CallsFit, CallFits, KindOf

LEMMA CallIs == ASSUME NEW from, NEW f PROVE Call(from, f).from = from /\ Call(from, f).frame = f
                                              /\ KindOf(Call(from, f)) = Reads(f).kind
BY DEF Call, KindOf

LEMMA SentLooks ==
  ASSUME device \in Devices, NEW h, NEW d, Fits(h, d)
  PROVE Looks(Sent(h, d), h.level) /\ Reads(Sent(h, d)) = Wanted(h, d)
<1>1. CASE h.effect = NoEffect
  BY <1>1, ColorLooks DEF Sent
<1>2. CASE h.effect # NoEffect
  BY <1>2, EffectLooks DEF Sent
<1>. QED BY <1>1, <1>2

LEMMA CallsInit == ASSUME Init PROVE CallsInv
<1>1. bus = <<>>
  BY DEF Init
<1>. QED BY <1>1 DEF CallsInv, CallsFit

LEMMA PickedCall ==
  ASSUME CallsInv, NEW i \in 1 .. Len(bus), bus[i].from = "select"
  PROVE picks["select"] # Idle
<1>1. CallFits(bus[i], turn, Picked)
  BY DEF CallsInv, CallsFit
<1>2. Picked # "none"
  BY <1>1 DEF CallFits, Halves, KnobKinds
<1>. QED BY <1>2 DEF Picked, Idle

LEMMA GelLevel == ASSUME Fits(ha, data) PROVE (IF data.pct = Untold THEN 1000 ELSE data.pct) \in Brightness
BY DEF Fits, Values, Untold, PerMille, Brightness

LEMMA CallsStep == ASSUME TypeInv, CallsInv, [Next]_vars PROVE CallsInv'
<1>0. /\ device \in Devices /\ Fits(ha, data) /\ turn \in Turns /\ IsQueue(bus) /\ ArePicks(picks)
  BY DEF TypeInv
<1>1. PICK q, t, p : q = bus /\ t = turn /\ p = picks["select"].control
  OBVIOUS
<1>2. IsQueue(q) /\ CallsFit(q, t, p) /\ t \in Turns
  BY <1>0, <1>1 DEF CallsInv, Picked
<1>3. ASSUME NEW u \in {"power", "off", "again"}, NEW on \in BOOLEAN
      PROVE CallFits(Call("turn", PowerFrame(on)), u, p)
  BY CallIs, ReadsPower DEF CallFits
<1>4. t = "idle" => \A i \in 1 .. Len(q) : q[i].from # "turn"
  BY <1>2 DEF CallsFit, CallFits
<1>5. ASSUME NEW u \in {"power", "off"}, t = "idle", turn' = u, picks' = picks, NEW on \in BOOLEAN,
             Queued("turn", PowerFrame(on))
      PROVE CallsInv'
  <2>1. CallFits(Call("turn", PowerFrame(on)), u, p)
    BY <1>3
  <2>2. \A x : CallFits(x, t, p) => CallFits(x, u, p)
    BY <1>5 DEF CallFits
  <2>3. PICK c : c = Call("turn", PowerFrame(on))
    OBVIOUS
  <2>4. c.from = "turn"
    BY <2>3, CallIs
  <2>5. CallsFit(Append(q, c), u, p)
    BY <1>2, <1>4, <1>5, <2>1, <2>2, <2>3, <2>4, CallsPush
  <2>6. bus' = Append(q, c)
    BY <1>1, <1>5, <2>3 DEF Queued
  <2>. QED BY <1>1, <1>5, <2>5, <2>6, CallsStays
<1>6. ASSUME NEW r \in device.asks, TurnOn(r) PROVE CallsInv'
  BY <1>1, <1>5, <1>6 DEF TurnOn
<1>7. ASSUME TurnOff PROVE CallsInv'
  BY <1>1, <1>5, <1>7 DEF TurnOff

\* A served turn leaves no call of a turn behind.
<1>8. ASSUME NEW from, Served(from)
      PROVE q # <<>> /\ q[1].from = from
  BY <1>1, <1>8, ServedIs
<1>9. ASSUME PowerDone PROVE CallsInv'
  <2>1. PICK c : c = Call("turn", Sent(ha, data))
    OBVIOUS
  <2>2. c.from = "turn" /\ CallFits(c, "body", p)
    <3>1. Reads(Sent(ha, data)).kind \in LookKinds
      BY <1>0, SentLooks DEF Looks
    <3>. QED BY <2>1, <3>1, CallIs DEF CallFits
  <2>3. \A x : CallFits(x, t, p) /\ x.from # "turn" => CallFits(x, "body", p)
    BY DEF CallFits
  <2>4. CallsFit(Append(Tail(q), c), "body", p)
    BY <1>2, <1>8, <1>9, <2>2, <2>3, CallsMove DEF PowerDone
  <2>5. bus' = Append(Tail(q), c) /\ turn' = "body" /\ picks' = picks
    BY <1>1, <1>9, <2>1 DEF PowerDone, Then
  <2>. QED BY <1>1, <2>4, <2>5, CallsStays
<1>10. ASSUME BodyDone PROVE CallsInv'
  <2>1. PICK c : c = Call("turn", PowerFrame(TRUE))
    OBVIOUS
  <2>2. c.from = "turn" /\ CallFits(c, "again", p)
    BY <1>3, <2>1, CallIs
  <2>3. \A x : CallFits(x, t, p) /\ x.from # "turn" => CallFits(x, "again", p)
    BY DEF CallFits
  <2>4. CallsFit(Append(Tail(q), c), "again", p)
    BY <1>2, <1>8, <1>10, <2>2, <2>3, CallsMove DEF BodyDone
  <2>5. bus' = Append(Tail(q), c) /\ turn' = "again" /\ picks' = picks
    BY <1>1, <1>10, <2>1 DEF BodyDone, Then
  <2>. QED BY <1>1, <2>4, <2>5, CallsStays
<1>11. ASSUME Served("turn") PROVE CallsFit(Tail(q), "idle", p)
  <2>1. \A x : CallFits(x, t, p) /\ x.from # "turn" => CallFits(x, "idle", p)
    BY DEF CallFits
  <2>. QED BY <1>2, <1>8, <1>11, <2>1, CallsPop
<1>12. ASSUME AgainDone PROVE CallsInv'
  <2>1. turn' = "idle" /\ picks' = picks /\ Served("turn")
    BY <1>12 DEF AgainDone
  <2>2. IsQueue(Tail(q))
    BY <1>2, <1>8, <2>1, PoppedIs
  <2>3. CASE bus' = Tail(bus)
    BY <1>1, <1>11, <2>1, <2>3, CallsStays
  <2>4. ASSUME NEW f, bus' = Append(Tail(bus), Call("slider", f)), Looks(f, ha.level) PROVE CallsInv'
    <3>1. PICK c, r : c = Call("slider", f) /\ r = Tail(q)
      OBVIOUS
    <3>2. c.from = "slider" /\ CallFits(c, "idle", p)
      BY <2>4, <3>1, CallIs DEF CallFits, Looks
    <3>3. CallsFit(Append(r, c), "idle", p)
      BY <1>11, <2>1, <2>2, <3>1, <3>2, CallsPush
    <3>. QED BY <1>1, <2>1, <2>4, <3>1, <3>3, CallsStays
  <2>. QED BY <1>12, <2>3, <2>4, AgainIs
<1>13. ASSUME OffDone \/ TurnRaises PROVE CallsInv'
  BY <1>1, <1>11, <1>13, CallsStays DEF OffDone, TurnRaises
<1>14. ASSUME Adjusts PROVE CallsInv'
  <2>1. turn' = t /\ picks' = picks
    BY <1>1, <1>14 DEF Adjusts
  <2>2. CASE bus' = bus
    BY <1>1, <1>2, <2>1, <2>2, CallsStays
  <2>3. ASSUME NEW f, bus' = Append(bus, Call("slider", f)), Looks(f, ha.level) PROVE CallsInv'
    <3>1. PICK c : c = Call("slider", f)
      OBVIOUS
    <3>2. c.from = "slider" /\ CallFits(c, t, p)
      BY <2>3, <3>1, CallIs DEF CallFits, Looks
    <3>3. CallsFit(Append(q, c), t, p)
      BY <1>2, <3>2, CallsPush
    <3>. QED BY <1>1, <2>1, <2>3, <3>1, <3>3, CallsStays
  <2>. QED BY <1>14, <2>2, <2>3 DEF Adjusts
<1>15. ASSUME SliderDone PROVE CallsInv'
  <2>1. turn' = t /\ picks' = picks /\ Served("slider") /\ bus' = Tail(q)
    BY <1>1, <1>15 DEF SliderDone
  <2>2. CallsFit(Tail(q), t, p)
    BY <1>2, <1>8, <2>1, CallsPop
  <2>. QED BY <1>1, <2>1, <2>2, CallsStays
<1>16. ASSUME NEW control \in SelectControls, NEW value, Picks("select", control, value),
              NEW f, Queued("select", f), CallFits(Call("select", f), t, control)
       PROVE CallsInv'
  <2>1. /\ picks["select"] = Idle /\ turn' = t
        /\ picks'["select"] = [control |-> control, value |-> value]
    BY <1>1, <1>16, PickedIs
  <2>2. p = "none"
    BY <1>1, <2>1 DEF Idle
  <2>3. PICK c : c = Call("select", f)
    OBVIOUS
  <2>4. \A i \in 1 .. Len(q) : q[i].from # "select"
    BY <1>1, <2>1, PickedCall
  <2>5. \A x : CallFits(x, t, p) => CallFits(x, t, control)
    BY <2>2 DEF CallFits, Halves, KnobKinds
  <2>6. CallsFit(Append(q, c), t, control)
    <3>1. c.from = "select"
      BY <2>3, CallIs
    <3>. QED BY <1>2, <1>16, <2>3, <2>4, <2>5, <3>1, CallsPush
  <2>7. bus' = Append(q, c) /\ picks'["select"].control = control
    BY <1>1, <1>16, <2>1, <2>3 DEF Queued
  <2>. QED BY <2>1, <2>6, <2>7, CallsStays
<1>17. ASSUME NEW i \in {1, 2}, NEW v \in IF i = 1 THEN Range(Model.controlModes) ELSE Range(Model.frequencies),
              PickHalf(i, v)
       PROVE CallsInv'
  <2>1. PICK pair : pair = data'.pair
    OBVIOUS
  <2>2. pair[1] \in Byte /\ pair[2] \in Word
    <3>1. data'.pair \in Byte \X Word
      BY <1>0, <1>17, HalfFits DEF PickHalf
    <3>. QED BY <2>1, <3>1
  <2>3. Reads(async_set_control_mode(pair)).kind = "control"
    BY <2>2, ReadsControl DEF async_set_control_mode, set_control_mode
  <2>4. PICK control : control = IF i = 1 THEN "mode" ELSE "frequency"
    OBVIOUS
  <2>5. CallFits(Call("select", async_set_control_mode(pair)), t, control)
    BY <2>3, <2>4, CallIs DEF CallFits, Halves
  <2>6. Picks("select", control, v) /\ Queued("select", async_set_control_mode(pair))
    BY <1>17, <2>1, <2>4 DEF PickHalf
  <2>7. control \in SelectControls
    BY <2>4 DEF SelectControls
  <2>. QED BY <1>16, <2>5, <2>6, <2>7
<1>18. ASSUME NEW chip \in Chips, PickGel(chip) PROVE CallsInv'
  <2>1. PICK b : b = IF data.pct = Untold THEN 1000 ELSE data.pct
    OBVIOUS
  <2>2. b \in Brightness
    BY <1>0, <2>1, GelLevel
  <2>3. PICK f : f = async_set_color_chip(b, chip, Model.chipVersion)
    OBVIOUS
  <2>4. Reads(f).kind \in {"none", "gel"}
    BY <2>2, <2>3, ReadsGel
  <2>5. CallFits(Call("select", f), t, "gel")
    BY <2>4, CallIs DEF CallFits
  <2>6. Picks("select", "gel", chip.number) /\ Queued("select", f)
    BY <1>18, <2>1, <2>3 DEF PickGel
  <2>7. "gel" \in SelectControls
    BY DEF SelectControls
  <2>. QED BY <1>16, <2>5, <2>6, <2>7
<1>19. ASSUME NEW knob \in Knobs, NEW value \in {0, 1}, PickKnob(knob, value) PROVE CallsInv'
  <2>0. knob \in {"fan", "smoothness", "motion"}
    BY <1>0, SiblingsAssumption DEF Knobs
  <2>1. PICK f : f = KnobFrame(knob, value)
    OBVIOUS
  <2>2. Reads(f).kind = knob
    BY <2>0, <2>1, ReadsKnob
  <2>3. CASE knob # "motion"
    <3>1. CallFits(Call("select", f), t, knob)
      BY <2>0, <2>2, <2>3, CallIs DEF CallFits, KnobKinds
    <3>2. Picks("select", knob, value) /\ Queued("select", f)
      BY <1>19, <2>1, <2>3 DEF PickKnob
    <3>3. knob \in SelectControls
      BY <2>0, <2>3 DEF SelectControls
    <3>. QED BY <1>16, <3>1, <3>2, <3>3
  <2>4. CASE knob = "motion"
    <3>1. PICK c : c = Call("switch", f)
      OBVIOUS
    <3>2. c.from = "switch" /\ CallFits(c, t, p)
      BY <2>2, <2>4, <3>1, CallIs DEF CallFits
    <3>3. CallsFit(Append(q, c), t, p)
      BY <1>2, <3>2, CallsPush
    <3>4. Picks("switch", "motion", value) /\ Queued("switch", f)
      BY <1>19, <2>1, <2>4 DEF PickKnob
    <3>5. picks'["select"] = picks["select"] /\ turn' = turn
      BY <3>4, PickedIs
    <3>6. bus' = Append(q, c)
      BY <1>1, <3>1, <3>4 DEF Queued
    <3>. QED BY <1>1, <3>3, <3>5, <3>6, CallsStays
  <2>. QED BY <2>3, <2>4
<1>20. ASSUME PickEnds("select") PROVE CallsInv'
  <2>1. picks'["select"].control = "none" /\ bus' = Tail(q) /\ turn' = t
    BY <1>1, <1>20, EndedIs
  <2>2. q # <<>> /\ q[1].from = "select"
    BY <1>8, <1>20 DEF PickEnds
  <2>3. \A x : CallFits(x, t, p) /\ x.from # "select" => CallFits(x, t, "none")
    BY DEF CallFits
  <2>4. CallsFit(Tail(q), t, "none")
    BY <1>2, <2>2, <2>3, CallsPop
  <2>. QED BY <2>1, <2>4, CallsStays
<1>21. ASSUME PickEnds("switch") PROVE CallsInv'
  <2>1. picks'["select"] = picks["select"] /\ bus' = Tail(q) /\ turn' = t
    BY <1>1, <1>21, EndedIs
  <2>2. q # <<>> /\ q[1].from = "switch"
    BY <1>8, <1>21 DEF PickEnds
  <2>3. CallsFit(Tail(q), t, p)
    BY <1>2, <2>2, CallsPop
  <2>. QED BY <1>1, <2>1, <2>3, CallsStays
<1>22. CASE UNCHANGED vars
  BY <1>1, <1>2, <1>22, CallsStays DEF vars
<1>. QED BY <1>6, <1>7, <1>9, <1>10, <1>12, <1>13, <1>14, <1>15, <1>17, <1>18, <1>19, <1>20, <1>21, <1>22, Steps

-----------------------------------------------------------------------------
\* PairInv is kept.
\* Calls of a select in the queue after a step that adds none.
NoNewPicks == \A i \in 1 .. Len(bus') :
                bus'[i].from = "select" => \E j \in 1 .. Len(bus) : bus[j] = bus'[i]

LEMMA QueueKeeps ==
  ASSUME NEW q, IsQueue(q), NEW r,
         \/ r = q
         \/ q # <<>> /\ r = Tail(q)
         \/ \E c : c.from # "select" /\ r = Append(q, c)
         \/ q # <<>> /\ \E c : c.from # "select" /\ r = Append(Tail(q), c)
  PROVE \A i \in 1 .. Len(r) : r[i].from = "select" => \E j \in 1 .. Len(q) : q[j] = r[i]
<1>1. CASE r = q
  BY <1>1
<1>2. CASE q # <<>> /\ r = Tail(q)
  <2>1. /\ Len(q) \in Nat /\ Len(q) >= 1 /\ Len(r) = Len(q) - 1
        /\ \A i \in 1 .. Len(r) : r[i] = q[i + 1]
    BY <1>2, PoppedIs
  <2>2. \A i \in 1 .. Len(r) : i + 1 \in 1 .. Len(q)
    BY <2>1
  <2>. QED BY <2>1, <2>2
<1>3. ASSUME NEW c, c.from # "select", r = Append(q, c)
      PROVE \A i \in 1 .. Len(r) : r[i].from = "select" => \E j \in 1 .. Len(q) : q[j] = r[i]
  <2>1. /\ Len(q) \in Nat /\ Len(r) = Len(q) + 1
        /\ \A i \in 1 .. Len(q) : r[i] = q[i]
        /\ r[Len(q) + 1] = c
    BY <1>3, PushedIs
  <2>2. \A i \in 1 .. Len(r) : i \in 1 .. Len(q) \/ i = Len(q) + 1
    BY <2>1
  <2>. QED BY <1>3, <2>1, <2>2
<1>4. ASSUME q # <<>>, NEW c, c.from # "select", r = Append(Tail(q), c)
      PROVE \A i \in 1 .. Len(r) : r[i].from = "select" => \E j \in 1 .. Len(q) : q[j] = r[i]
  <2>1. /\ Len(q) \in Nat /\ Len(q) >= 1 /\ Len(r) = Len(q)
        /\ \A i \in 1 .. Len(q) - 1 : r[i] = q[i + 1]
        /\ r[Len(q)] = c
    BY <1>4, MovedIs
  <2>2. \A i \in 1 .. Len(r) : i = Len(q) \/ (i \in 1 .. Len(q) - 1 /\ i + 1 \in 1 .. Len(q))
    BY <2>1
  <2>. QED BY <1>4, <2>1, <2>2
<1>. QED BY <1>1, <1>2, <1>3, <1>4

\* A call that is no control-mode frame leaves the light's pair alone.
LEMMA PairUntouched ==
  ASSUME TypeInv, CallsInv, NEW from, Served(from), from = "select" => Picked \notin Halves
  PROVE lamp'.pair = lamp.pair
<1>1. /\ bus # <<>> /\ bus[1].from = from /\ IsLamp(lamp) /\ IsQueue(bus)
      /\ lamp' = Obeyed(bus[1].frame) \/ lamp' = lamp
  BY ServedIs DEF TypeInv
<1>2. CallFits(bus[1], turn, Picked)
  <2>1. PICK q : q = bus
    OBVIOUS
  <2>2. Len(q) \in Nat /\ Len(q) >= 1
    BY <1>1, <2>1, PoppedIs
  <2>3. 1 \in 1 .. Len(q)
    BY <2>2
  <2>. QED BY <2>1, <2>3 DEF CallsInv, CallsFit
<1>3. PICK f : f = bus[1].frame
  OBVIOUS
<1>4. Reads(f).kind \in LookKinds \cup {"gel", "none", "power", "fan", "smoothness", "motion"}
  BY <1>1, <1>2, <1>3 DEF CallFits, KindOf, KnobKinds
<1>5. Obeyed(f).pair = lamp.pair
  BY <1>1, <1>4, ObeyedIs
<1>. QED BY <1>1, <1>3, <1>5

LEMMA PairStays ==
  ASSUME PairInv, NoNewPicks, picks'["select"] = picks["select"], data'.pair = data.pair,
         lamp'.pair = lamp.pair, seen'.paired = seen.paired,
         "mode" \notin seen'.stale => "mode" \notin seen.stale /\ shown'["mode"] = shown["mode"],
         "frequency" \notin seen'.stale => "frequency" \notin seen.stale /\ shown'["frequency"] = shown["frequency"]
  PROVE PairInv'
BY DEF PairInv, NoNewPicks, Picked

LEMMA PairInit == ASSUME Init PROVE PairInv
<1>1. PICK on \in BOOLEAN, level \in Levels, effect \in device.restored,
           mode \in Range(Model.controlModes), frequency \in Range(Model.frequencies) :
        /\ data = [xy |-> Neutral.xy, speed |-> 0, running |-> effect, tint |-> 0,
                   selfie |-> FALSE, pct |-> Untold, pair |-> <<mode, frequency>>]
        /\ shown = [c \in Controls |-> CASE c = "mode" -> mode [] c = "frequency" -> frequency
                                         [] OTHER -> 0]
  BY DEF Init
<1>2. bus = <<>> /\ seen.paired = FALSE /\ Picked = "none"
  BY DEF Init, Picked, Idle
<1>3. data.pair[1] = mode /\ data.pair[2] = frequency
  BY <1>1
<1>4. shown["mode"] = mode /\ shown["frequency"] = frequency
  BY <1>1 DEF Controls
<1>. QED BY <1>2, <1>3, <1>4 DEF PairInv, Halves

LEMMA PairStep == ASSUME TypeInv, CallsInv, PairInv, [Next]_vars PROVE PairInv'
<1>0. device \in Devices /\ Fits(ha, data) /\ IsQueue(bus) /\ ArePicks(picks) /\ IsLamp(lamp)
      /\ DOMAIN shown = Controls /\ seen \in History
  BY DEF TypeInv
<1>1. PICK q : q = bus
  OBVIOUS
<1>2. ASSUME \/ bus' = bus
             \/ bus # <<>> /\ bus' = Tail(bus)
             \/ \E c : c.from # "select" /\ bus' = Append(bus, c)
             \/ bus # <<>> /\ \E c : c.from # "select" /\ bus' = Append(Tail(bus), c)
      PROVE NoNewPicks
  <2>1. PICK r : r = bus'
    OBVIOUS
  <2>2. \/ r = q
        \/ q # <<>> /\ r = Tail(q)
        \/ \E c : c.from # "select" /\ r = Append(q, c)
        \/ q # <<>> /\ \E c : c.from # "select" /\ r = Append(Tail(q), c)
    BY <1>1, <1>2, <2>1
  <2>3. \A i \in 1 .. Len(r) : r[i].from = "select" => \E j \in 1 .. Len(q) : q[j] = r[i]
    BY <1>0, <1>1, <2>2, QueueKeeps
  <2>. QED BY <1>1, <2>1, <2>3 DEF NoNewPicks
<1>3. ASSUME NEW from, NEW f, from # "select" PROVE Call(from, f).from # "select"
  BY <1>3, CallIs
<1>4. ASSUME (\E r \in device.asks : TurnOn(r)) \/ TurnOff PROVE PairInv'
  <2>1. NoNewPicks
    <3>1. PICK f : bus' = Append(bus, Call("turn", f))
      BY <1>4 DEF TurnOn, TurnOff, Queued
    <3>. QED BY <1>2, <1>3, <3>1
  <2>2. data'.pair = data.pair
    BY <1>4, TurnOnFits DEF TurnOff
  <2>. QED BY <1>4, <2>1, <2>2, PairStays DEF TurnOn, TurnOff
<1>5. ASSUME NEW from \in {"turn", "slider"}, Served(from),
             \/ bus' = Tail(bus)
             \/ \E c : c.from # "select" /\ bus' = Append(Tail(bus), c)
      PROVE NoNewPicks /\ lamp'.pair = lamp.pair
  BY <1>2, <1>5, PairUntouched DEF Served
<1>6. ASSUME PowerDone PROVE PairInv'
  <2>1. NoNewPicks /\ lamp'.pair = lamp.pair
    BY <1>3, <1>5, <1>6 DEF PowerDone, Then
  <2>. QED BY <1>6, <2>1, PowerIs, PowerSeen, PairStays DEF PowerDone
<1>7. ASSUME BodyDone PROVE PairInv'
  <2>1. NoNewPicks /\ lamp'.pair = lamp.pair
    BY <1>3, <1>5, <1>7 DEF BodyDone, Then
  <2>. QED BY <1>7, <2>1, BodySeen, PairStays DEF BodyDone
<1>8. ASSUME AgainDone PROVE PairInv'
  <2>1. \/ bus' = Tail(bus)
        \/ \E c : c.from # "select" /\ bus' = Append(Tail(bus), c)
    BY <1>3, <1>8, AgainIs
  <2>2. NoNewPicks /\ lamp'.pair = lamp.pair
    BY <1>5, <1>8, <2>1 DEF AgainDone
  <2>. QED BY <1>8, <2>2, AgainIs, PairStays DEF AgainDone
<1>9. ASSUME OffDone PROVE PairInv'
  <2>1. NoNewPicks /\ lamp'.pair = lamp.pair
    BY <1>5, <1>9 DEF OffDone
  <2>. QED BY <1>9, <2>1, PairStays DEF OffDone
<1>10. ASSUME TurnRaises PROVE PairInv'
  <2>1. NoNewPicks /\ lamp'.pair = lamp.pair
    BY <1>5, <1>10 DEF TurnRaises
  <2>. QED BY <1>10, <2>1, RaisedSeen, PairStays DEF TurnRaises
<1>11. ASSUME Adjusts PROVE PairInv'
  <2>1. NoNewPicks
    BY <1>2, <1>3, <1>11 DEF Adjusts
  <2>2. seen'.paired = seen.paired /\ seen'.stale = seen.stale
    BY <1>0, <1>11 DEF Adjusts, History
  <2>. QED BY <1>11, <2>1, <2>2, PairStays DEF Adjusts
<1>12. ASSUME SliderDone PROVE PairInv'
  <2>1. NoNewPicks /\ lamp'.pair = lamp.pair
    BY <1>5, <1>12 DEF SliderDone
  <2>. QED BY <1>12, <2>1, SliderSeen, PairStays DEF SliderDone
<1>13. ASSUME NEW i \in {1, 2}, NEW v \in IF i = 1 THEN Range(Model.controlModes) ELSE Range(Model.frequencies),
              PickHalf(i, v)
       PROVE PairInv'
  <2>1. PICK control : control = IF i = 1 THEN "mode" ELSE "frequency"
    OBVIOUS
  <2>2. Picks("select", control, v) /\ control \in SelectControls /\ control \in Halves
    BY <1>13, <2>1 DEF PickHalf, SelectControls, Halves
  <2>3. /\ picks["select"] = Idle /\ picks'["select"] = [control |-> control, value |-> v]
        /\ UNCHANGED <<shown, lamp, seen>>
    BY <1>13, <2>2, PickedIs DEF PickHalf
  <2>4. PICK pair : pair = data'.pair
    OBVIOUS
  <2>5. pair \in Byte \X Word /\ pair = IF i = 1 THEN <<v, data.pair[2]>> ELSE <<data.pair[1], v>>
    BY <1>0, <1>13, <2>4, HalfFits DEF PickHalf
  <2>6. PICK f : f = async_set_control_mode(pair)
    OBVIOUS
  <2>7. Reads(f).pair = pair
    <3>1. pair[1] \in Byte /\ pair[2] \in Word /\ pair = <<pair[1], pair[2]>>
      BY <2>5
    <3>. QED BY <2>6, <3>1, ReadsControl DEF async_set_control_mode, set_control_mode
  <2>8. PICK c : c = Call("select", f)
    OBVIOUS
  <2>9. bus' = Append(q, c)
    BY <1>1, <1>13, <2>4, <2>6, <2>8 DEF PickHalf, Queued
  <2>10. PICK r : r = bus'
    OBVIOUS
  <2>11. /\ Len(q) \in Nat /\ Len(r) = Len(q) + 1
         /\ \A k \in 1 .. Len(q) : r[k] = q[k]
         /\ r[Len(q) + 1] = c
    BY <1>0, <1>1, <2>9, <2>10, PushedIs
  <2>12. \A k \in 1 .. Len(q) : q[k].from # "select"
    BY <1>1, <2>3, PickedCall
  <2>13. \A k \in 1 .. Len(r) : r[k].from = "select" => Reads(r[k].frame).pair = pair
    <3>1. \A k \in 1 .. Len(r) : k \in 1 .. Len(q) \/ k = Len(q) + 1
      BY <2>11
    <3>2. Reads(c.frame).pair = pair
      BY <2>7, <2>8, CallIs
    <3>. QED BY <2>11, <2>12, <3>1, <3>2
  <2>14. Picked' = control /\ picks'["select"].value = v /\ Picked = "none"
    BY <2>3 DEF Picked, Idle
  <2>15. /\ control = "mode" => v = pair[1] /\ pair[2] = data.pair[2]
         /\ control = "frequency" => v = pair[2] /\ pair[1] = data.pair[1]
    BY <2>1, <2>5
  <2>16. /\ "mode" \notin seen.stale => shown["mode"] = data.pair[1]
         /\ "frequency" \notin seen.stale => shown["frequency"] = data.pair[2]
    BY <2>14 DEF PairInv
  <2>17. /\ \A k \in 1 .. Len(bus') : bus'[k].from = "select" => Reads(bus'[k].frame).pair = data'.pair
         /\ Picked' = control /\ picks'["select"].value = v /\ data'.pair = pair
         /\ seen' = seen /\ shown' = shown
    BY <2>3, <2>4, <2>10, <2>13, <2>14
  <2>18. control \in {"mode", "frequency"}
    BY <2>1
  <2>. QED BY <2>2, <2>15, <2>16, <2>17, <2>18 DEF PairInv
<1>14. ASSUME NEW control \in SelectControls \ Halves, NEW value, Picks("select", control, value),
              data' = data, seen' = seen
       PROVE PairInv'
  <2>1. /\ picks["select"] = Idle /\ picks'["select"] = [control |-> control, value |-> value]
        /\ UNCHANGED <<shown, lamp>>
    BY <1>14, PickedIs
  <2>2. Picked' \notin Halves /\ Picked = "none"
    BY <1>14, <2>1 DEF Picked, Idle
  <2>. QED BY <1>14, <2>1, <2>2 DEF PairInv, Halves
<1>15. ASSUME NEW chip \in Chips, PickGel(chip) PROVE PairInv'
  <2>1. "gel" \in SelectControls \ Halves
    BY DEF SelectControls, Halves
  <2>. QED BY <1>14, <1>15, <2>1 DEF PickGel
<1>16. ASSUME NEW knob \in Knobs, NEW value \in {0, 1}, PickKnob(knob, value) PROVE PairInv'
  <2>0. knob \in {"fan", "smoothness", "motion"}
    BY <1>0, SiblingsAssumption DEF Knobs
  <2>1. CASE knob # "motion"
    <3>1. knob \in SelectControls \ Halves
      BY <2>0, <2>1 DEF SelectControls, Halves
    <3>. QED BY <1>14, <1>16, <2>1, <3>1 DEF PickKnob
  <2>2. CASE knob = "motion"
    <3>1. Picks("switch", "motion", value) /\ data' = data /\ seen' = seen
      BY <1>16, <2>2 DEF PickKnob
    <3>2. picks'["select"] = picks["select"] /\ UNCHANGED <<shown, lamp>>
      BY <3>1, PickedIs
    <3>3. NoNewPicks
      BY <1>2, <1>3, <1>16, <2>2 DEF PickKnob, Queued
    <3>. QED BY <3>1, <3>2, <3>3, PairStays
  <2>. QED BY <2>1, <2>2
<1>17. ASSUME NEW platform \in {"select", "switch"}, PickEnds(platform) PROVE PairInv'
  <2>1. /\ bus # <<>> /\ bus[1].from = platform
        /\ lamp' = Obeyed(bus[1].frame) \/ lamp' = lamp
        /\ Served(platform)
    BY <1>17, ServedIs DEF PickEnds
  <2>2. /\ picks'[platform].control = "none" /\ data' = data
        /\ platform = "switch" => picks'["select"] = picks["select"]
    BY <1>17, EndedIs
  <2>3. PICK p : p = picks[platform]
    OBVIOUS
  <2>4. PICK raised \in BOOLEAN :
          /\ shown' = IF raised THEN shown ELSE [shown EXCEPT ![p.control] = p.value]
          /\ seen' = [seen EXCEPT
               !.paired = IF p.control \in {"mode", "frequency"} THEN Arrived ELSE @,
               !.stale = IF raised THEN @ \cup {p.control} ELSE @ \ {p.control}]
    BY <1>17, <2>3 DEF PickEnds
  <2>5. PICK paired \in BOOLEAN : paired = IF p.control \in {"mode", "frequency"} THEN Arrived ELSE seen.paired
    <3>1. seen.paired \in BOOLEAN /\ Arrived \in BOOLEAN
      BY <1>0, ArrivedIs, Zenon DEF History
    <3>. QED BY <3>1, Zenon
  <2>6. PICK stale : stale = IF raised THEN seen.stale \cup {p.control} ELSE seen.stale \ {p.control}
    OBVIOUS
  <2>7. seen' = [seen EXCEPT !.paired = paired, !.stale = stale]
    BY <2>4, <2>5, <2>6, Zenon
  <2>8. seen'.paired = paired /\ seen'.stale = stale
    BY <1>0, <2>7 DEF History
  <2>9. ASSUME NEW half \in Halves
        PROVE /\ p.control # half /\ half \notin stale => half \notin seen.stale /\ shown'[half] = shown[half]
              /\ p.control = half /\ half \notin stale => shown'[half] = p.value
    <3>1. half \in DOMAIN shown
      BY <1>0 DEF Controls, Halves
    <3>. QED BY <2>4, <2>6, <3>1
  <2>10. CASE platform = "switch"
    <3>1. p.control \notin Halves
      BY <1>0, <2>3, <2>10 DEF ArePicks, Halves
    <3>2. paired = seen.paired
      BY <2>5, <3>1 DEF Halves
    <3>3. NoNewPicks
      BY <1>2, <1>17, <2>1 DEF PickEnds
    <3>4. lamp'.pair = lamp.pair
      BY <2>1, <2>10, PairUntouched
    <3>5. "mode" \in Halves /\ "frequency" \in Halves
      BY DEF Halves
    <3>. QED BY <2>2, <2>8, <2>9, <2>10, <3>1, <3>2, <3>3, <3>4, <3>5, PairStays
  <2>11. CASE platform = "select"
    <3>1. Picked' = "none" /\ p.control = Picked /\ p = picks["select"]
      BY <2>2, <2>3, <2>11 DEF Picked
    <3>2. paired => lamp'.pair = data.pair
      <4>1. CASE Picked \notin Halves
        <5>1. paired = seen.paired
          BY <2>5, <3>1, <4>1 DEF Halves
        <5>2. lamp'.pair = lamp.pair
          BY <2>1, <2>11, <4>1, PairUntouched
        <5>. QED BY <4>1, <5>1, <5>2 DEF PairInv
      <4>2. CASE Picked \in Halves /\ paired
        <5>1. PICK f : f = bus[1].frame
          OBVIOUS
        <5>2. Arrived
          BY <2>5, <3>1, <4>2, Zenon DEF Halves
        <5>3. lamp' = Obeyed(f)
          BY <2>1, <5>1, <5>2, ServedIs DEF Arrived
        <5>4. 1 \in 1 .. Len(bus)
          <6>1. Len(q) \in Nat /\ Len(q) >= 1
            BY <1>0, <1>1, <2>1, PoppedIs
          <6>. QED BY <1>1, <6>1
        <5>5. Reads(f).pair = data.pair
          BY <2>1, <2>11, <4>2, <5>1, <5>4 DEF PairInv
        <5>6. Reads(f).kind = "control"
          <6>1. CallFits(bus[1], turn, Picked)
            BY <5>4 DEF CallsInv, CallsFit
          <6>. QED BY <2>1, <2>11, <4>2, <5>1, <6>1 DEF CallFits, KindOf, Halves, KnobKinds
        <5>7. Obeyed(f).pair = Reads(f).pair
          BY <1>0, <5>6, ObeyedIs
        <5>. QED BY <5>3, <5>5, <5>7
      <4>. QED BY <4>1, <4>2
    <3>3. "mode" \notin stale => shown'["mode"] = data.pair[1]
      <4>1. "mode" \in Halves
        BY DEF Halves
      <4>. QED BY <2>9, <3>1, <4>1 DEF PairInv
    <3>4. "frequency" \notin stale => shown'["frequency"] = data.pair[2]
      <4>1. "frequency" \in Halves
        BY DEF Halves
      <4>. QED BY <2>9, <3>1, <4>1 DEF PairInv
    <3>. QED BY <2>2, <2>8, <3>1, <3>2, <3>3, <3>4 DEF PairInv, Halves
  <2>. QED BY <2>10, <2>11
<1>18. CASE UNCHANGED vars
  <2>1. NoNewPicks
    BY <1>2, <1>18 DEF vars
  <2>. QED BY <1>18, <2>1, PairStays DEF vars
<1>. QED BY <1>4, <1>6, <1>7, <1>8, <1>9, <1>10, <1>11, <1>12, <1>13, <1>15, <1>16, <1>17, <1>18, Steps

LEMMA PairGoal == ASSUME PairInv PROVE PairIsTheLamps
BY DEF PairInv, PairIsTheLamps, Picked, Halves

-----------------------------------------------------------------------------
\* What serving the head does to what the light shows.
LEMMA LookServed ==
  ASSUME TypeInv, CallsInv, NEW from, Served(from)
  PROVE /\ \/ lamp'.look = lamp.look
           \/ KindOf(bus[1]) \in LookKinds \cup {"gel"} /\ lamp'.look = Reads(bus[1].frame)
        /\ Arrived /\ KindOf(bus[1]) \in LookKinds => lamp'.look = Reads(bus[1].frame)
        /\ KindOf(bus[1]) = "power" => lamp'.look = lamp.look
        /\ CallFits(bus[1], turn, Picked) /\ bus[1].from = from /\ bus # <<>>
<1>1. /\ bus # <<>> /\ bus[1].from = from /\ IsLamp(lamp) /\ IsQueue(bus) /\ Head(bus) = bus[1]
      /\ lamp' = Obeyed(bus[1].frame) \/ lamp' = lamp
  BY ServedIs DEF TypeInv
<1>2. CallFits(bus[1], turn, Picked)
  <2>1. PICK q : q = bus
    OBVIOUS
  <2>2. Len(q) \in Nat /\ Len(q) >= 1
    BY <1>1, <2>1, PoppedIs
  <2>3. 1 \in 1 .. Len(q)
    BY <2>2
  <2>. QED BY <2>1, <2>3 DEF CallsInv, CallsFit
<1>3. PICK f, k : f = bus[1].frame /\ k = Reads(f).kind
  OBVIOUS
<1>4. KindOf(bus[1]) = k
  BY <1>3 DEF KindOf
<1>5. k \in LookKinds \cup {"gel", "control", "none", "power", "fan", "smoothness", "motion"}
  BY <1>1, <1>2, <1>4 DEF CallFits, KnobKinds
<1>6. Obeyed(f).look = IF k \in LookKinds \cup {"gel"} THEN Reads(f) ELSE lamp.look
  <2>1. CASE k \in LookKinds \cup {"gel"}
    BY <1>1, <1>3, <2>1, ObeyedIs
  <2>2. CASE k = "control"
    BY <1>1, <1>3, <2>2, ObeyedIs DEF LookKinds
  <2>3. CASE k \in {"none", "power", "fan", "smoothness", "motion"}
    BY <1>1, <1>3, <2>3, ObeyedIs DEF LookKinds
  <2>. QED BY <1>5, <2>1, <2>2, <2>3
<1>7. "power" \notin LookKinds \cup {"gel"}
  BY DEF LookKinds
<1>8. Arrived => lamp' = Obeyed(f)
  <2>1. PICK x : x = Head(bus).frame
    OBVIOUS
  <2>2. x = f
    BY <1>1, <1>3, <2>1
  <2>3. Arrived => lamp' = Obeyed(x)
    BY <2>1, Zenon DEF Arrived
  <2>. QED BY <2>2, <2>3
<1>9. lamp'.look = lamp.look \/ (k \in LookKinds \cup {"gel"} /\ lamp'.look = Reads(f))
  <2>1. lamp' = Obeyed(f) \/ lamp' = lamp
    BY <1>1, <1>3
  <2>2. CASE lamp' = Obeyed(f) /\ k \in LookKinds \cup {"gel"}
    BY <1>6, <2>2
  <2>3. CASE lamp' = Obeyed(f) /\ k \notin LookKinds \cup {"gel"}
    BY <1>6, <2>3
  <2>4. CASE lamp' = lamp
    BY <2>4
  <2>. QED BY <2>1, <2>2, <2>3, <2>4
<1>10. ASSUME Arrived, k \in LookKinds PROVE lamp'.look = Reads(f)
  <2>1. lamp' = Obeyed(f)
    BY <1>8, <1>10
  <2>. QED BY <1>6, <1>10, <2>1
<1>11. k = "power" => lamp'.look = lamp.look
  BY <1>7, <1>9
<1>. QED BY <1>1, <1>2, <1>3, <1>4, <1>9, <1>10, <1>11

-----------------------------------------------------------------------------
\* ObeyInv is kept.
LEMMA CountPush ==
  ASSUME NEW q, IsQueue(q), NEW t, NEW c, NEW w, Reads(c.frame) = w,
         c.from = "slider" \/ (c.from = "turn" /\ t = "body")
  PROVE LastReads(Append(q, c), t, w) /\ ~NoneCounts(Append(q, c), t)
<1>1. PICK r, n : r = Append(q, c) /\ n = Len(q) + 1
  OBVIOUS
<1>2. Len(q) \in Nat /\ Len(r) = n /\ r[n] = c
  BY <1>1, PushedIs
<1>3. n \in 1 .. Len(r) /\ \A i \in 1 .. Len(r) : i \in Int /\ i <= n
  BY <1>1, <1>2
<1>4. Counts(r, t, n)
  <2>1. CASE t = "power"
    <3>1. \A j \in 1 .. Len(r) : r[j].from = "turn" => j # n
      BY <1>2, <2>1
    <3>2. \A j \in 1 .. Len(r) : j # n => j < n
      BY <1>1, <1>2, <1>3
    <3>. QED BY <1>2, <2>1, <3>1, <3>2 DEF Counts
  <2>2. CASE t # "power"
    BY <1>2, <2>2 DEF Counts
  <2>. QED BY <2>1, <2>2
<1>5. ASSUME NEW i \in 1 .. Len(r), \A j \in 1 .. Len(r) : Counts(r, t, j) => j <= i
      PROVE Reads(r[i].frame) = w
  <2>1. n <= i /\ i <= n /\ i \in Int /\ n \in Int
    BY <1>1, <1>2, <1>3, <1>4, <1>5
  <2>2. i = n
    BY <2>1
  <2>. QED BY <1>2, <2>2
<1>6. LastReads(r, t, w)
  BY <1>5 DEF LastReads
<1>7. ~NoneCounts(r, t)
  BY <1>3, <1>4 DEF NoneCounts
<1>. QED BY <1>1, <1>6, <1>7

LEMMA CountPast ==
  ASSUME NEW q, IsQueue(q), NEW t, NEW c, c.from # "slider", c.from = "turn" => t \notin {"power", "body"}, NEW w
  PROVE /\ LastReads(q, t, w) => LastReads(Append(q, c), t, w)
        /\ NoneCounts(Append(q, c), t) => NoneCounts(q, t)
<1>1. PICK r, n : r = Append(q, c) /\ n = Len(q) + 1
  OBVIOUS
<1>2. Len(q) \in Nat /\ Len(r) = n /\ r[n] = c /\ \A i \in 1 .. Len(q) : r[i] = q[i]
  BY <1>1, PushedIs
<1>3. /\ \A i \in 1 .. Len(r) : i \in 1 .. Len(q) \/ i = n
      /\ \A i \in 1 .. Len(q) : i \in 1 .. Len(r)
  BY <1>1, <1>2
<1>4. ASSUME NEW i \in 1 .. Len(q) PROVE Counts(r, t, i) = Counts(q, t, i)
  <2>1. CASE t = "power"
    <3>1. r[n].from # "turn"
      BY <1>2, <2>1
    <3>2. (\A j \in 1 .. Len(r) : r[j].from = "turn" => j < i) <=> (\A j \in 1 .. Len(q) : q[j].from = "turn" => j < i)
      BY <1>2, <1>3, <3>1
    <3>. QED BY <1>2, <2>1, <3>2 DEF Counts
  <2>2. CASE t # "power"
    BY <1>2, <2>2 DEF Counts
  <2>. QED BY <2>1, <2>2
<1>5. ~Counts(r, t, n)
  BY <1>2 DEF Counts
<1>6. ASSUME LastReads(q, t, w) PROVE LastReads(r, t, w)
  <2>1. ASSUME NEW i \in 1 .. Len(r), Counts(r, t, i), \A j \in 1 .. Len(r) : Counts(r, t, j) => j <= i
        PROVE Reads(r[i].frame) = w
    <3>1. i \in 1 .. Len(q)
      BY <1>3, <1>5, <2>1
    <3>2. Counts(q, t, i) /\ \A j \in 1 .. Len(q) : Counts(q, t, j) => j <= i
      BY <1>3, <1>4, <2>1, <3>1
    <3>3. Reads(q[i].frame) = w
      BY <1>6, <3>1, <3>2 DEF LastReads
    <3>. QED BY <1>2, <3>1, <3>3
  <2>. QED BY <2>1 DEF LastReads
<1>7. NoneCounts(r, t) => NoneCounts(q, t)
  BY <1>3, <1>4 DEF NoneCounts
<1>. QED BY <1>1, <1>6, <1>7

LEMMA CountPop ==
  ASSUME NEW q, IsQueue(q), q # <<>>, NEW t, NEW u, NEW w,
         \A i \in 1 .. Len(Tail(q)) : Counts(Tail(q), u, i) <=> Counts(q, t, i + 1)
  PROVE /\ LastReads(q, t, w) => LastReads(Tail(q), u, w)
        /\ LastReads(q, t, w) /\ NoneCounts(Tail(q), u) /\ Counts(q, t, 1) => Reads(q[1].frame) = w
        /\ NoneCounts(Tail(q), u) /\ ~Counts(q, t, 1) => NoneCounts(q, t)
<1>1. PICK r : r = Tail(q)
  OBVIOUS
<1>2. /\ Len(q) \in Nat /\ Len(q) >= 1 /\ Len(r) = Len(q) - 1
      /\ \A i \in 1 .. Len(r) : r[i] = q[i + 1]
  BY <1>1, PoppedIs
<1>3. /\ \A i \in 1 .. Len(r) : i \in Int /\ i + 1 \in 1 .. Len(q) /\ 1 <= i + 1
      /\ \A j \in 1 .. Len(q) : j \in Int /\ (j = 1 \/ (j - 1 \in 1 .. Len(r) /\ j - 1 + 1 = j))
      /\ 1 \in 1 .. Len(q)
  BY <1>2
<1>4. \A i \in 1 .. Len(r) : Counts(r, u, i) <=> Counts(q, t, i + 1)
  BY <1>1
<1>5. ASSUME LastReads(q, t, w) PROVE LastReads(r, u, w)
  <2>1. ASSUME NEW i \in 1 .. Len(r), Counts(r, u, i), \A j \in 1 .. Len(r) : Counts(r, u, j) => j <= i
        PROVE Reads(r[i].frame) = w
    <3>1. ASSUME NEW j \in 1 .. Len(q), Counts(q, t, j) PROVE j <= i + 1
      <4>1. CASE j = 1
        BY <1>3, <4>1
      <4>2. CASE j # 1
        <5>1. PICK k \in 1 .. Len(r) : k = j - 1 /\ k + 1 = j
          BY <1>3, <4>2
        <5>2. k <= i
          BY <1>4, <2>1, <3>1, <5>1
        <5>. QED BY <1>3, <5>1, <5>2
      <4>. QED BY <4>1, <4>2
    <3>2. Counts(q, t, i + 1) /\ i + 1 \in 1 .. Len(q)
      BY <1>3, <1>4, <2>1
    <3>3. Reads(q[i + 1].frame) = w
      BY <1>5, <3>1, <3>2 DEF LastReads
    <3>. QED BY <1>2, <3>3
  <2>. QED BY <2>1 DEF LastReads
<1>6. ASSUME LastReads(q, t, w), NoneCounts(r, u), Counts(q, t, 1) PROVE Reads(q[1].frame) = w
  <2>1. ASSUME NEW j \in 1 .. Len(q), Counts(q, t, j) PROVE j <= 1
    <3>1. CASE j = 1
      BY <3>1
    <3>2. CASE j # 1
      <4>1. PICK k \in 1 .. Len(r) : k = j - 1 /\ k + 1 = j
        BY <1>3, <3>2
      <4>. QED BY <1>4, <1>6, <2>1, <4>1 DEF NoneCounts
    <3>. QED BY <3>1, <3>2
  <2>. QED BY <1>3, <1>6, <2>1 DEF LastReads
<1>7. ASSUME NoneCounts(r, u), ~Counts(q, t, 1) PROVE NoneCounts(q, t)
  <2>1. ASSUME NEW j \in 1 .. Len(q) PROVE ~Counts(q, t, j)
    <3>1. CASE j = 1
      BY <1>7, <3>1
    <3>2. CASE j # 1
      <4>1. PICK k \in 1 .. Len(r) : k = j - 1 /\ k + 1 = j
        BY <1>3, <3>2
      <4>. QED BY <1>4, <1>7, <4>1 DEF NoneCounts
    <3>. QED BY <3>1, <3>2
  <2>. QED BY <2>1 DEF NoneCounts
<1>. QED BY <1>1, <1>5, <1>6, <1>7

LEMMA PopCounts ==
  ASSUME NEW q, IsQueue(q), q # <<>>, NEW t
  PROVE \A i \in 1 .. Len(Tail(q)) : Counts(Tail(q), t, i) <=> Counts(q, t, i + 1)
<1>1. PICK r : r = Tail(q)
  OBVIOUS
<1>2. /\ Len(q) \in Nat /\ Len(q) >= 1 /\ Len(r) = Len(q) - 1
      /\ \A i \in 1 .. Len(r) : r[i] = q[i + 1]
  BY <1>1, PoppedIs
<1>3. /\ \A i \in 1 .. Len(r) : i \in Int /\ i >= 1 /\ i + 1 \in 1 .. Len(q)
      /\ \A j \in 1 .. Len(q) : j \in Int /\ (j = 1 \/ (j - 1 \in 1 .. Len(r) /\ j - 1 + 1 = j))
  BY <1>2
<1>4. ASSUME NEW i \in 1 .. Len(r) PROVE Counts(r, t, i) <=> Counts(q, t, i + 1)
  <2>1. (\A j \in 1 .. Len(r) : r[j].from = "turn" => j < i)
          <=> (\A j \in 1 .. Len(q) : q[j].from = "turn" => j < i + 1)
    <3>1. ASSUME \A j \in 1 .. Len(r) : r[j].from = "turn" => j < i,
                 NEW j \in 1 .. Len(q), q[j].from = "turn"
          PROVE j < i + 1
      <4>1. CASE j = 1
        BY <1>3, <4>1
      <4>2. CASE j # 1
        <5>1. PICK k \in 1 .. Len(r) : k = j - 1 /\ k + 1 = j
          BY <1>3, <4>2
        <5>2. r[k].from = "turn"
          BY <1>2, <3>1, <5>1
        <5>3. k < i
          BY <3>1, <5>2
        <5>. QED BY <1>3, <5>1, <5>3
      <4>. QED BY <4>1, <4>2
    <3>2. ASSUME \A j \in 1 .. Len(q) : q[j].from = "turn" => j < i + 1,
                 NEW j \in 1 .. Len(r), r[j].from = "turn"
          PROVE j < i
      <4>1. j + 1 \in 1 .. Len(q) /\ q[j + 1].from = "turn" /\ j \in Int /\ i \in Int
        BY <1>2, <1>3, <3>2
      <4>2. j + 1 < i + 1
        BY <3>2, <4>1
      <4>. QED BY <4>1, <4>2
    <3>. QED BY <3>1, <3>2
  <2>2. r[i] = q[i + 1]
    BY <1>2
  <2>. QED BY <2>1, <2>2 DEF Counts
<1>. QED BY <1>1, <1>4

\* Once a turn's only call is served, the sliders' calls are what counts.
LEMMA TurnCounts ==
  ASSUME NEW q, IsQueue(q), q # <<>>, NEW t, NEW p, CallsFit(q, t, p), q[1].from = "turn",
         NEW u, u \notin {"power", "body"}
  PROVE \A i \in 1 .. Len(Tail(q)) : /\ Counts(Tail(q), u, i) <=> Counts(q, t, i + 1)
                                     /\ Tail(q)[i].from # "turn"
<1>1. PICK r : r = Tail(q)
  OBVIOUS
<1>2. /\ Len(q) \in Nat /\ Len(q) >= 1 /\ Len(r) = Len(q) - 1
      /\ \A i \in 1 .. Len(r) : r[i] = q[i + 1]
  BY <1>1, PoppedIs
<1>3. \A i \in 1 .. Len(r) : i \in Int /\ i >= 1 /\ i + 1 \in 1 .. Len(q) /\ i + 1 # 1
  BY <1>2
<1>4. 1 \in 1 .. Len(q)
  BY <1>2
<1>5. \A j \in 1 .. Len(q) : q[j].from = "turn" => j = 1
  BY <1>4 DEF CallsFit
<1>6. ASSUME NEW i \in 1 .. Len(r)
      PROVE (Counts(r, u, i) <=> Counts(q, t, i + 1)) /\ r[i].from # "turn"
  <2>1. r[i] = q[i + 1] /\ q[i + 1].from # "turn"
    BY <1>2, <1>3, <1>5
  <2>2. \A j \in 1 .. Len(q) : q[j].from = "turn" => j < i + 1
    BY <1>3, <1>5
  <2>. QED BY <2>1, <2>2 DEF Counts
<1>. QED BY <1>1, <1>6

LEMMA ObeyInit == ASSUME Init PROVE ObeyInv
<1>1. PICK on \in BOOLEAN, level \in Levels, effect \in device.restored,
           mode \in Range(Model.controlModes), frequency \in Range(Model.frequencies) :
        /\ ha = [on |-> on, mode |-> StartMode(Model, UseXy), shade |-> Neutral,
                 effect |-> effect, level |-> level]
        /\ data = [xy |-> Neutral.xy, speed |-> 0, running |-> effect, tint |-> 0,
                   selfie |-> FALSE, pct |-> Untold, pair |-> <<mode, frequency>>]
        /\ shown = [c \in Controls |-> CASE c = "mode" -> mode [] c = "frequency" -> frequency
                                         [] OTHER -> 0]
  BY DEF Init
<1>2. data.xy = ha.shade.xy
  BY <1>1
<1>3. bus = <<>> /\ seen.synced = FALSE
  BY DEF Init
<1>4. LastReads(bus, turn, Wanted(ha, data))
  BY <1>3 DEF LastReads
<1>. QED BY <1>2, <1>3, <1>4 DEF ObeyInv

LEMMA WantedNext == ASSUME device' = device PROVE Wanted(ha, data)' = Wanted(ha', data')
BY DEF Wanted, EffectShown, ColourShown, Scaled, Wide, InSelfie, Model

\* ObeyInv' from its parts, the queue and the wanted look named in the state before.
LEMMA ObeyBecomes ==
  ASSUME NEW b, NEW w, b = bus', w = Wanted(ha', data'), device' = device,
         ha'.on /\ ha'.mode = "xy" => data'.xy = ha'.shade.xy,
         (ha'.on \/ turn' \in {"body", "again"}) /\ ~seen'.astray =>
           /\ LastReads(b, turn', w)
           /\ NoneCounts(b, turn') /\ turn' # "power" /\ seen'.synced /\ lamp'.look.kind # "gel"
                => lamp'.look = w
  PROVE ObeyInv'
<1>1. Wanted(ha, data)' = w
  BY WantedNext
<1>2. Heeded' => (ha'.on \/ turn' \in {"body", "again"}) /\ ~seen'.astray
  BY DEF Heeded
<1>3. LastReads(b, turn', w) => LastReads(bus, turn, Wanted(ha, data))'
  BY <1>1 DEF LastReads, Counts
<1>4. NoneCounts(bus, turn)' => NoneCounts(b, turn')
  BY DEF NoneCounts, Counts
<1>. QED BY <1>1, <1>2, <1>3, <1>4 DEF ObeyInv

LEMMA ObeyStep == ASSUME TypeInv, CallsInv, ObeyInv, [Next]_vars PROVE ObeyInv'
<1>0. /\ device \in Devices /\ Fits(ha, data) /\ IsQueue(bus) /\ IsLamp(lamp) /\ seen \in History
      /\ turn \in Turns
  BY DEF TypeInv
<1>1. PICK q, w : q = bus /\ w = Wanted(ha, data)
  OBVIOUS
<1>2. IsQueue(q) /\ CallsFit(q, turn, Picked)
  BY <1>0, <1>1 DEF CallsInv
<1>3. ha.on /\ ha.mode = "xy" => data.xy = ha.shade.xy
  BY DEF ObeyInv
<1>4. (ha.on \/ turn \in {"body", "again"}) /\ ~seen.astray =>
        /\ LastReads(q, turn, w)
        /\ NoneCounts(q, turn) /\ turn # "power" /\ seen.synced /\ lamp.look.kind # "gel" => lamp.look = w
  BY <1>1 DEF ObeyInv, Heeded
<1>5. ASSUME Served("turn"), turn # "body" PROVE lamp'.look = lamp.look
  <2>1. KindOf(bus[1]) = "power"
    BY <1>5, LookServed DEF CallFits
  <2>. QED BY <1>5, <2>1, LookServed
<1>6. ASSUME NEW r \in device.asks, TurnOn(r) PROVE ObeyInv'
  <2>1. PICK c, b : c = Call("turn", PowerFrame(TRUE)) /\ b = Append(q, c)
    OBVIOUS
  <2>2. b = bus' /\ turn' = "power" /\ device' = device /\ turn = "idle"
    BY <1>1, <1>6, <2>1 DEF TurnOn, Queued
  <2>3. /\ Len(q) \in Nat /\ Len(b) = Len(q) + 1 /\ b[Len(q) + 1] = c
    BY <1>2, <2>1, PushedIs
  <2>4. Len(b) \in 1 .. Len(b) /\ \A i \in 1 .. Len(b) : ~(Len(b) < i)
    BY <2>3
  <2>5. b[Len(b)].from = "turn"
    <3>1. c.from = "turn"
      BY <2>1, CallIs
    <3>. QED BY <2>3, <3>1
  <2>6. \A i \in 1 .. Len(b) : ~Counts(b, "power", i)
    BY <2>4, <2>5 DEF Counts
  <2>7. PICK v : v = Wanted(ha', data')
    OBVIOUS
  <2>8. LastReads(b, "power", v)
    BY <2>6 DEF LastReads
  <2>9. ha'.on /\ ha'.mode = "xy" => data'.xy = ha'.shade.xy
    BY <1>3, <1>6, TurnOnFits
  <2>. QED BY <2>2, <2>7, <2>8, <2>9, ObeyBecomes
<1>7. ASSUME TurnOff PROVE ObeyInv'
  <2>1. PICK c, b : c = Call("turn", PowerFrame(FALSE)) /\ b = Append(q, c)
    OBVIOUS
  <2>2. /\ b = bus' /\ turn' = "off" /\ turn = "idle" /\ UNCHANGED <<device, ha, data, lamp, seen>>
    BY <1>1, <1>7, <2>1 DEF TurnOff, Queued
  <2>3. /\ LastReads(q, "off", w) => LastReads(b, "off", w)
        /\ NoneCounts(b, "off") => NoneCounts(q, "off")
    <3>1. c.from = "turn"
      BY <2>1, CallIs
    <3>. QED BY <1>2, <2>1, <3>1, CountPast
  <2>4. (LastReads(q, "idle", w) <=> LastReads(q, "off", w)) /\ (NoneCounts(q, "idle") <=> NoneCounts(q, "off"))
    BY DEF LastReads, NoneCounts, Counts
  <2>5. w = Wanted(ha', data')
    BY <1>1, <2>2
  <2>. QED BY <1>3, <1>4, <2>2, <2>3, <2>4, <2>5, ObeyBecomes
<1>8. ASSUME PowerDone PROVE ObeyInv'
  <2>1. PICK f : f = Sent(ha, data)
    OBVIOUS
  <2>2. PICK c, r, b : c = Call("turn", f) /\ r = Tail(q) /\ b = Append(r, c)
    OBVIOUS
  <2>3. b = bus' /\ turn' = "body" /\ Served("turn")
    BY <1>1, <1>8, <2>1, <2>2 DEF PowerDone, Then
  <2>4. q # <<>> /\ IsQueue(r)
    BY <1>1, <1>2, <2>2, <2>3, PoppedIs, ServedIs
  <2>5. c.from = "turn" /\ Reads(c.frame) = w
    BY <1>0, <1>1, <2>1, <2>2, SentLooks, CallIs
  <2>6. LastReads(b, "body", w) /\ ~NoneCounts(b, "body")
    BY <2>2, <2>4, <2>5, CountPush
  <2>7. /\ ha' = ha /\ device' = device /\ Wanted(ha', data') = w
        /\ ha'.on /\ ha'.mode = "xy" => data'.xy = ha'.shade.xy
    BY <1>1, <1>3, <1>8, PowerIs
  <2>. QED BY <2>3, <2>6, <2>7, ObeyBecomes
<1>9. ASSUME BodyDone PROVE ObeyInv'
  <2>1. PICK c, r, b : c = Call("turn", PowerFrame(TRUE)) /\ r = Tail(q) /\ b = Append(r, c)
    OBVIOUS
  <2>2. b = bus' /\ turn' = "again" /\ turn = "body" /\ Served("turn") /\ UNCHANGED <<device, ha, data>>
    BY <1>1, <1>9, <2>1 DEF BodyDone, Then
  <2>3. /\ q # <<>> /\ q[1].from = "turn" /\ CallFits(q[1], "body", Picked)
        /\ Arrived /\ KindOf(q[1]) \in LookKinds => lamp'.look = Reads(q[1].frame)
    BY <1>1, <2>2, LookServed
  <2>4. IsQueue(r) /\ c.from = "turn"
    BY <1>2, <2>1, <2>3, PoppedIs, CallIs
  <2>5. seen'.synced = Arrived /\ seen'.astray = seen.astray
    BY <1>9, BodySeen
  <2>6. KindOf(q[1]) \in LookKinds
    BY <2>3 DEF CallFits
  <2>7. ASSUME ~seen.astray
        PROVE LastReads(b, "again", w) /\ (NoneCounts(b, "again") /\ Arrived => lamp'.look = w)
    <3>1. LastReads(q, "body", w)
      BY <1>4, <2>2, <2>7
    <3>2. \A i \in 1 .. Len(Tail(q)) : Counts(Tail(q), "again", i) <=> Counts(q, "body", i + 1)
      BY <1>2, <2>2, <2>3, TurnCounts
    <3>3. Counts(q, "body", 1)
      BY <2>3 DEF Counts
    <3>4. LastReads(r, "again", w) /\ (NoneCounts(r, "again") => Reads(q[1].frame) = w)
      BY <1>2, <2>1, <2>3, <3>1, <3>2, <3>3, CountPop
    <3>5. LastReads(b, "again", w) /\ (NoneCounts(b, "again") => NoneCounts(r, "again"))
      BY <2>1, <2>4, <3>4, CountPast
    <3>. QED BY <2>3, <2>6, <3>4, <3>5
  <2>8. w = Wanted(ha', data')
    BY <1>1, <2>2
  <2>9. seen'.synced => Arrived
    BY <2>5
  <2>. QED BY <1>3, <2>2, <2>5, <2>7, <2>8, <2>9, ObeyBecomes
<1>10. ASSUME Served("turn"), turn # "body", LastReads(q, turn, w)
       PROVE LastReads(Tail(q), "idle", w) /\ (NoneCounts(Tail(q), "idle") => NoneCounts(q, turn))
  <2>1. q # <<>> /\ q[1].from = "turn"
    BY <1>1, <1>10, LookServed
  <2>2. \A i \in 1 .. Len(Tail(q)) : Counts(Tail(q), "idle", i) <=> Counts(q, turn, i + 1)
    BY <1>2, <2>1, TurnCounts
  <2>3. ~Counts(q, turn, 1)
    BY <1>10, <2>1 DEF Counts
  <2>. QED BY <1>2, <1>10, <2>1, <2>2, <2>3, CountPop
<1>11. ASSUME AgainDone PROVE ObeyInv'
  <2>1. PICK r, b, v : r = Tail(q) /\ b = bus' /\ v = Wanted(ha', data')
    OBVIOUS
  <2>2. /\ ha'.mode = "xy" => data'.xy = ha'.shade.xy
        /\ \/ b = r /\ v = w
           \/ \E f : b = Append(r, Call("slider", f)) /\ Reads(f) = v
    BY <1>1, <1>11, <2>1, AgainIs
  <2>3. turn' = "idle" /\ turn = "again" /\ seen' = seen /\ device' = device /\ Served("turn")
    BY <1>11 DEF AgainDone
  <2>4. lamp'.look = lamp.look /\ IsQueue(r)
    BY <1>1, <1>2, <1>5, <2>1, <2>3, LookServed, PoppedIs
  <2>5. ASSUME ~seen.astray
        PROVE /\ LastReads(b, "idle", v)
              /\ NoneCounts(b, "idle") /\ seen.synced /\ lamp.look.kind # "gel" => lamp.look = v
    <3>1. CASE b = r /\ v = w
      <4>1. LastReads(q, turn, w)
        BY <1>4, <2>3, <2>5
      <4>2. LastReads(r, "idle", w) /\ (NoneCounts(r, "idle") => NoneCounts(q, turn))
        BY <1>10, <2>1, <2>3, <4>1
      <4>. QED BY <1>4, <2>3, <2>5, <3>1, <4>2
    <3>2. ASSUME NEW f, b = Append(r, Call("slider", f)), Reads(f) = v
          PROVE LastReads(b, "idle", v) /\ ~NoneCounts(b, "idle")
      <4>1. PICK c : c = Call("slider", f)
        OBVIOUS
      <4>2. c.from = "slider" /\ Reads(c.frame) = v
        BY <3>2, <4>1, CallIs
      <4>. QED BY <2>4, <3>2, <4>1, <4>2, CountPush
    <3>. QED BY <2>2, <3>1, <3>2
  <2>. QED BY <2>1, <2>2, <2>3, <2>4, <2>5, ObeyBecomes
<1>12. ASSUME OffDone PROVE ObeyInv'
  <2>1. turn' = "idle" /\ ha'.on = FALSE /\ device' = device
    <3>1. ha \in Lights /\ ha' = [ha EXCEPT !.on = FALSE]
      BY <1>0, <1>12 DEF OffDone, Fits
    <3>2. ha'.on = FALSE
      BY <3>1 DEF Lights
    <3>. QED BY <1>12, <3>2 DEF OffDone
  <2>2. PICK b, v : b = bus' /\ v = Wanted(ha', data')
    OBVIOUS
  <2>. QED BY <2>1, <2>2, ObeyBecomes
<1>13. ASSUME TurnRaises PROVE ObeyInv'
  <2>1. /\ turn' = "idle" /\ turn # "idle" /\ Served("turn") /\ bus' = Tail(q)
        /\ UNCHANGED <<device, ha, data>>
    BY <1>1, <1>13 DEF TurnRaises
  <2>2. seen'.astray = seen.astray /\ (seen'.synced => seen.synced /\ turn = "off")
    <3>1. seen'.synced \in BOOLEAN /\ (seen'.synced = TRUE => seen.synced = TRUE /\ turn = "off")
      BY <1>13, RaisedSeen DEF History
    <3>. QED BY <1>13, <3>1, RaisedSeen
  <2>3. w = Wanted(ha', data')
    BY <1>1, <2>1
  <2>4. PICK r : r = Tail(q)
    OBVIOUS
  <2>5. ASSUME ha.on, ~seen.astray
        PROVE /\ LastReads(r, "idle", w)
              /\ NoneCounts(r, "idle") /\ seen'.synced /\ lamp'.look.kind # "gel" => lamp'.look = w
    <3>1. LastReads(q, turn, w)
      BY <1>4, <2>5
    <3>2. CASE turn # "body"
      <4>1. LastReads(r, "idle", w) /\ (NoneCounts(r, "idle") => NoneCounts(q, turn))
        BY <1>10, <2>1, <2>4, <3>1, <3>2
      <4>2. lamp'.look = lamp.look
        BY <1>5, <2>1, <3>2
      <4>. QED BY <1>4, <2>2, <2>5, <4>1, <4>2
    <3>3. CASE turn = "body"
      <4>1. q # <<>> /\ q[1].from = "turn"
        BY <1>1, <2>1, LookServed
      <4>2. \A i \in 1 .. Len(Tail(q)) : Counts(Tail(q), "idle", i) <=> Counts(q, turn, i + 1)
        BY <1>2, <4>1, TurnCounts
      <4>3. LastReads(r, "idle", w)
        BY <1>2, <2>4, <3>1, <4>1, <4>2, CountPop
      <4>. QED BY <2>2, <3>3, <4>3
    <3>. QED BY <3>2, <3>3
  <2>. QED BY <1>3, <2>1, <2>2, <2>3, <2>4, <2>5, ObeyBecomes
<1>14. ASSUME Adjusts PROVE ObeyInv'
  <2>1. PICK b, v : b = bus' /\ v = Wanted(ha', data')
    OBVIOUS
  <2>2. /\ UNCHANGED <<device, turn, lamp>> /\ ha'.on = ha.on
        /\ ha.on /\ (ha.mode = "xy" => data.xy = ha.shade.xy) => (ha'.mode = "xy" => data'.xy = ha'.shade.xy)
    BY <1>14 DEF Adjusts
  <2>3. PICK astray \in BOOLEAN :
          /\ seen' = [seen EXCEPT !.astray = astray] /\ (seen.astray => astray)
          /\ \/ /\ b = q
                /\ (ha.on \/ turn \in {"body", "again"}) /\ ~astray => v = w
             \/ \E f : /\ b = Append(q, Call("slider", f))
                       /\ astray \/ Reads(f) = v
    BY <1>1, <1>14, <2>1 DEF Adjusts
  <2>4. seen'.astray = astray /\ seen'.synced = seen.synced
    BY <1>0, <2>3 DEF History
  <2>5. ASSUME ha.on \/ turn \in {"body", "again"}, ~astray
        PROVE /\ LastReads(b, turn, v)
              /\ NoneCounts(b, turn) /\ turn # "power" /\ seen.synced /\ lamp.look.kind # "gel" => lamp.look = v
    <3>1. CASE b = q /\ v = w
      BY <1>4, <2>3, <2>5, <3>1
    <3>2. ASSUME NEW f, b = Append(q, Call("slider", f)), Reads(f) = v
          PROVE LastReads(b, turn, v) /\ ~NoneCounts(b, turn)
      <4>1. PICK c : c = Call("slider", f)
        OBVIOUS
      <4>2. c.from = "slider" /\ Reads(c.frame) = v
        BY <3>2, <4>1, CallIs
      <4>. QED BY <1>2, <3>2, <4>1, <4>2, CountPush
    <3>. QED BY <2>3, <2>5, <3>1, <3>2
  <2>. QED BY <1>3, <2>1, <2>2, <2>4, <2>5, ObeyBecomes
<1>15. ASSUME SliderDone PROVE ObeyInv'
  <2>1. turn' = turn /\ bus' = Tail(q) /\ Served("slider") /\ UNCHANGED <<device, ha, data>>
    BY <1>1, <1>15 DEF SliderDone
  <2>2. /\ q # <<>> /\ q[1].from = "slider" /\ CallFits(q[1], turn, Picked)
        /\ Arrived /\ KindOf(q[1]) \in LookKinds => lamp'.look = Reads(q[1].frame)
    BY <1>1, <2>1, LookServed
  <2>3. KindOf(q[1]) \in LookKinds
    BY <2>2 DEF CallFits
  <2>4. seen'.synced = Arrived /\ seen'.astray = seen.astray
    BY <1>15, SliderSeen
  <2>5. w = Wanted(ha', data')
    BY <1>1, <2>1
  <2>6. PICK r : r = Tail(q)
    OBVIOUS
  <2>7. ASSUME ha.on \/ turn \in {"body", "again"}, ~seen.astray
        PROVE LastReads(r, turn, w) /\ (NoneCounts(r, turn) /\ turn # "power" /\ Arrived => lamp'.look = w)
    <3>1. LastReads(q, turn, w)
      BY <1>4, <2>7
    <3>2. \A i \in 1 .. Len(Tail(q)) : Counts(Tail(q), turn, i) <=> Counts(q, turn, i + 1)
      BY <1>2, <2>2, PopCounts
    <3>3. turn # "power" => Counts(q, turn, 1)
      BY <2>2 DEF Counts
    <3>4. /\ LastReads(r, turn, w)
          /\ NoneCounts(r, turn) /\ Counts(q, turn, 1) => Reads(q[1].frame) = w
      BY <1>2, <2>2, <2>6, <3>1, <3>2, CountPop
    <3>. QED BY <2>2, <2>3, <3>3, <3>4
  <2>8. seen'.synced => Arrived
    BY <2>4
  <2>. QED BY <1>3, <2>1, <2>4, <2>5, <2>6, <2>7, <2>8, ObeyBecomes
<1>16. ASSUME NEW from \in {"select", "switch"}, NEW f, Queued(from, f),
              ha' = ha, device' = device, turn' = turn, lamp' = lamp, seen' = seen,
              data'.xy = data.xy, Wanted(ha, data') = w
       PROVE ObeyInv'
  <2>1. PICK c, b : c = Call(from, f) /\ b = Append(q, c)
    OBVIOUS
  <2>2. b = bus' /\ c.from \notin {"slider", "turn"}
    BY <1>1, <1>16, <2>1, CallIs DEF Queued
  <2>3. /\ LastReads(q, turn, w) => LastReads(b, turn, w)
        /\ NoneCounts(b, turn) => NoneCounts(q, turn)
    BY <1>2, <2>1, <2>2, CountPast
  <2>. QED BY <1>3, <1>4, <1>16, <2>2, <2>3, ObeyBecomes
<1>17. ASSUME NEW i \in {1, 2}, NEW v \in IF i = 1 THEN Range(Model.controlModes) ELSE Range(Model.frequencies),
              PickHalf(i, v)
       PROVE ObeyInv'
  <2>1. PICK d : d = [data EXCEPT !.pair[i] = v]
    OBVIOUS
  <2>2. /\ d.selfie = data.selfie /\ d.tint = data.tint /\ d.speed = data.speed /\ d.xy = data.xy
    BY <1>0, <2>1, HalfFits
  <2>3. Wanted(ha, d) = w
    BY <1>1, <2>2, WantedSame
  <2>4. data' = d /\ seen' = seen /\ UNCHANGED <<ha, device, turn, lamp>>
    BY <1>17, <2>1 DEF PickHalf, Picks
  <2>5. \E f : Queued("select", f)
    BY <1>17 DEF PickHalf
  <2>. QED BY <1>16, <2>2, <2>3, <2>4, <2>5
<1>18. ASSUME (\E chip \in Chips : PickGel(chip)) \/ (\E knob \in Knobs, value \in {0, 1} : PickKnob(knob, value))
       PROVE ObeyInv'
  <2>1. data' = data /\ seen' = seen /\ UNCHANGED <<ha, device, turn, lamp>>
    BY <1>18 DEF PickGel, PickKnob, Picks
  <2>2. \E from \in {"select", "switch"} : \E f : Queued(from, f)
    BY <1>18 DEF PickGel, PickKnob
  <2>3. data'.xy = data.xy /\ Wanted(ha, data') = w
    BY <1>1, <2>1
  <2>. QED BY <1>16, <2>1, <2>2, <2>3
<1>19. ASSUME NEW platform \in {"select", "switch"}, PickEnds(platform) PROVE ObeyInv'
  <2>1. /\ turn' = turn /\ bus' = Tail(q) /\ Served(platform) /\ UNCHANGED <<device, ha, data>>
        /\ seen'.synced = seen.synced /\ seen'.astray = seen.astray
    BY <1>1, <1>19, EndedIs DEF PickEnds
  <2>2. /\ q # <<>> /\ q[1].from = platform /\ CallFits(q[1], turn, Picked)
        /\ \/ lamp'.look = lamp.look
           \/ KindOf(q[1]) \in LookKinds \cup {"gel"} /\ lamp'.look = Reads(q[1].frame)
    BY <1>1, <2>1, LookServed
  <2>3. lamp'.look = lamp.look \/ lamp'.look.kind = "gel"
    <3>1. KindOf(q[1]) \in {"control", "none", "gel", "fan", "smoothness", "motion"}
      BY <2>2 DEF CallFits, KnobKinds
    <3>. QED BY <2>2, <3>1 DEF LookKinds, KindOf
  <2>4. PICK r : r = Tail(q)
    OBVIOUS
  <2>5. /\ LastReads(q, turn, w) => LastReads(r, turn, w)
        /\ NoneCounts(r, turn) => NoneCounts(q, turn)
    <3>1. \A i \in 1 .. Len(Tail(q)) : Counts(Tail(q), turn, i) <=> Counts(q, turn, i + 1)
      BY <1>2, <2>2, PopCounts
    <3>2. ~Counts(q, turn, 1)
      BY <2>2 DEF Counts
    <3>. QED BY <1>2, <2>2, <2>4, <3>1, <3>2, CountPop
  <2>6. w = Wanted(ha', data')
    BY <1>1, <2>1
  <2>. QED BY <1>3, <1>4, <2>1, <2>3, <2>4, <2>5, <2>6, ObeyBecomes
<1>20. CASE UNCHANGED vars
  <2>1. q = bus' /\ w = Wanted(ha', data') /\ UNCHANGED <<device, ha, data, turn, lamp, seen>>
    BY <1>1, <1>20 DEF vars
  <2>. QED BY <1>3, <1>4, <2>1, ObeyBecomes
<1>. QED BY <1>6, <1>7, <1>8, <1>9, <1>11, <1>12, <1>13, <1>14, <1>15, <1>17, <1>18, <1>19, <1>20, Steps

LEMMA ObeyGoal == ASSUME TypeInv, ObeyInv PROVE LampObeysControls
<1>1. SUFFICES ASSUME Quiet, ha.on, seen.synced, ~seen.astray, lamp.look.kind # "gel"
               PROVE lamp.look = Displayed
  BY DEF LampObeysControls
<1>2. NoneCounts(bus, turn) /\ turn = "idle"
  BY <1>1 DEF Quiet, NoneCounts
<1>3. lamp.look = Wanted(ha, data)
  BY <1>1, <1>2 DEF ObeyInv, Heeded
<1>4. PICK a, b : a = ha.shade.xy /\ b = data.xy
  OBVIOUS
<1>5. ha.mode # "xy" => ColourShown(ha, data, a) = ColourShown(ha, data, b)
  <2>1. ha.mode \in AllModes
    BY DEF TypeInv, Fits, Lights
  <2>2. CASE ha.mode = "hs"
    BY <2>2 DEF ColourShown
  <2>3. CASE ha.mode \in {"rgbw", "rgbww"}
    BY <2>3 DEF ColourShown
  <2>4. CASE ha.mode \in {"cct", "brightness"}
    BY <2>4 DEF ColourShown
  <2>. QED BY <2>1, <2>2, <2>3, <2>4 DEF AllModes
<1>6. ha.mode = "xy" => a = b
  BY <1>1, <1>4 DEF ObeyInv
<1>7. Displayed = Wanted(ha, data)
  BY <1>4, <1>5, <1>6 DEF Displayed, Wanted
<1>. QED BY <1>3, <1>7

-----------------------------------------------------------------------------
\* All of it, of every run.
IndInv == TypeInv /\ CallsInv /\ PairInv /\ ObeyInv

\* The invariant holds initially and every step keeps it.
THEOREM Invariance == Spec => []IndInv
<1>1. Init => IndInv
  BY TypeInit, CallsInit, PairInit, ObeyInit DEF IndInv
<1>2. IndInv /\ [Next]_vars => IndInv'
  <2>1. SUFFICES ASSUME TypeInv, CallsInv, PairInv, ObeyInv, [Next]_vars PROVE IndInv'
    BY DEF IndInv
  <2>2. TypeInv' /\ CallsInv'
    BY <2>1, TypeStep, CallsStep
  <2>3. PairInv' /\ ObeyInv'
    BY <2>1, PairStep, ObeyStep
  <2>. QED BY <2>2, <2>3 DEF IndInv
<1>. QED BY <1>1, <1>2, PTL DEF Spec

\* Every value is in its range: the row of the table is the device's, the colour
\* temperature the one its sliders show is within the limits it has just then, the
\* effect one the model plays.
THEOREM ValuesStayInRange == Spec => []TypeInv
<1>1. IndInv => TypeInv
  BY DEF IndInv
<1>. QED BY <1>1, Invariance, PTL

\* Of each caller at most its own kind of call waits for the link, and of a command
\* of the light and of a select no more than one.
THEOREM CallersWaitTheirTurn == Spec => []CallsInv
<1>1. IndInv => CallsInv
  BY DEF IndInv
<1>. QED BY <1>1, Invariance, PTL

\* light.py:284: when all is quiet the light does what its controls display, whatever
\* was commanded, moved or chosen before, and whatever of it was lost before the last.
THEOREM QuietLampsObey == Spec => []LampObeysControls
<1>1. IndInv => LampObeysControls
  BY ObeyGoal DEF IndInv
<1>. QED BY <1>1, Invariance, PTL

\* select.py:178: the light holds both halves of the pair whichever select sent it last.
THEOREM PairsAreSentWhole == Spec => []PairIsTheLamps
<1>1. IndInv => PairIsTheLamps
  BY PairGoal DEF IndInv
<1>. QED BY <1>1, Invariance, PTL
=============================================================================
