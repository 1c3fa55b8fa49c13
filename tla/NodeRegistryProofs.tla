------------------------ MODULE NodeRegistryProofs ------------------------
(***************************************************************************)
(* The node list of NodeRegistry, for any number of flows, lights,         *)
(* addresses and settings.                                                 *)
(*                                                                         *)
(* That no light is lost needs no more than the two copies of the list     *)
(* having the same lights at the same addresses; that the entities are     *)
(* those of the list, that every change of it finds a listener from the    *)
(* step in which set-up reads it to the end of the unload.  That lights    *)
(* stay apart needs the reason the allocator works at all: until a light   *)
(* has been removed every free slot lies beyond every light, so a light    *)
(* may be larger than the slot it is given; after a removal a slot may be  *)
(* a gap, and only a light that fits in it may take it.  And a slot that   *)
(* was free when a flow picked it is free when the flow completes only     *)
(* because no other flow completed meanwhile.                              *)
(***************************************************************************)
EXTENDS NodeRegistry, WellFoundedInduction, TLAPS

-----------------------------------------------------------------------------
\* The last address recorded for a node, and a block of the allocator's size that
\* touches none of the node's addresses.
End(n) == n.at + n.span - 1
Clear(c, n) == c + ElementsPerNode - 1 < n.at \/ End(n) < c

\* What the list says of a light's size: the truth, but for the first light.
Sized(n) == n.span = IF n.light = First THEN ElementsPerNode ELSE Elements[n.light]

Spots(list) == {<<n.light, n.at>> : n \in list}

Disjoint(list) == \A m, n \in list : m # n => End(m) < n.at \/ End(n) < m.at

\* Every slot the allocator may still give away is beyond every light of the list.
Packed(list) == \A n \in list, c \in Free(Occupied(list)) : End(n) < c

\* A flow's slot is still clear of the list; a light too large for it has nothing
\* behind it; and without removals it is the first of the free ones.
Reserves(r, list, gaps) ==
  /\ \A n \in list : Clear(r.at, n)
  /\ Elements[r.light] > ElementsPerNode => \A n \in list : End(n) < r.at
  /\ ~gaps => \A c \in Free(Occupied(list)) : r.at <= c

Quiet == ~overlap /\ ~squeezed

Recorded == \A n \in nodes \cup stored[1] : Sized(n)
Agree == Spots(nodes) = Spots(stored[1])
Alone == ~overlap => \A f, g \in Flows : flow[f] # Idle /\ flow[g] # Idle => f = g
Laid(list, gaps) == Disjoint(list) /\ (~gaps => Packed(list))
Room == Quiet => /\ Laid(nodes, removed) /\ Laid(stored[1], removed)
                 /\ \A f \in Flows : flow[f] # Idle => Reserves(flow[f], nodes, removed)

IInv == /\ TypeOK /\ Recorded /\ Agree /\ Alone /\ Room
        /\ EveryLightIsKept /\ ListIsShown

-----------------------------------------------------------------------------
(* The operators the model is built from. *)

\* A set of naturals has a least element, so the allocator's choice is one.
LEMMA LeastExists ==
  ASSUME NEW S \in SUBSET Nat, S # {}
  PROVE  \E x \in S : \A y \in S : x <= y
<1>1. \E x \in S : \A y \in S : ~ (<<y, x>> \in OpToRel(<, Nat))
  BY NatLessThanWellFounded, WFMin
<1>2. PICK x \in S : \A y \in S : ~ (<<y, x>> \in OpToRel(<, Nat))
  BY <1>1
<1>3. \A y \in S : ~ (y < x)
  BY <1>2 DEF OpToRel
<1>. QED  BY <1>3

\* _next_free_node_address gives the lowest of the free slots.
LEMMA LowestIsFree ==
  ASSUME NEW S \in SUBSET Address, S # {}
  PROVE  Min(S) \in S /\ \A c \in S : Min(S) <= c
<1>1. S \in SUBSET Nat
  BY RegistryAssumption DEF Address
<1>2. \E x \in S : \A y \in S : x <= y
  BY <1>1, LeastExists
<1>. QED  BY <1>2, Zenon DEF Min

\* A node of the list has the addresses from at to End, and at least one.
LEMMA NodeNumbers ==
  ASSUME NEW n \in Node
  PROVE  /\ n.at \in Address /\ n.at \in Nat /\ n.span \in Nat /\ End(n) \in Int
         /\ n.light \in Lights \cup {First}
         /\ Sized(n) => n.span >= 1
         /\ Sized(n) /\ n.light # First => n.span = Elements[n.light]
<1>1. n.at \in Address /\ n.span \in Nat /\ n.light \in Lights \cup {First}
  BY DEF Node
<1>2. n.at \in Nat
  BY <1>1, RegistryAssumption DEF Address
<1>3. End(n) \in Int
  BY <1>1, <1>2 DEF End
<1>4. ElementsPerNode \in Nat \ {0} /\ Elements[n.light] \in Nat \ {0}
  BY <1>1, RegistryAssumption
<1>5. Sized(n) => n.span >= 1
  BY <1>1, <1>4 DEF Sized
<1>. QED  BY <1>1, <1>2, <1>3, <1>5 DEF Sized

\* What _occupied_addresses and the search through the slots amount to.
LEMMA FreeSlots ==
  ASSUME NEW list \in SUBSET Node, \A n \in list : Sized(n), NEW c
  PROVE  c \in Free(Occupied(list)) <=> /\ c \in Address
                                        /\ (c - FirstAddress) % ElementsPerNode = 0
                                        /\ \A n \in list : Clear(c, n)
<1>. SUFFICES ASSUME c \in Address
              PROVE  (c .. c + ElementsPerNode - 1) \cap Occupied(list) = {}
                       <=> \A n \in list : Clear(c, n)
  BY DEF Free
<1>1. c \in Nat /\ ElementsPerNode \in Nat /\ ElementsPerNode >= 1
  BY RegistryAssumption DEF Address
<1>2. ASSUME NEW n \in list
      PROVE  Clear(c, n) <=> (c .. c + ElementsPerNode - 1) \cap (n.at .. n.at + n.span - 1) = {}
  <2>1. n \in Node /\ n.at \in Nat /\ n.span \in Nat /\ n.span >= 1
    BY NodeNumbers
  <2>2. ASSUME Clear(c, n)
        PROVE  (c .. c + ElementsPerNode - 1) \cap (n.at .. n.at + n.span - 1) = {}
    BY <1>1, <2>1, <2>2 DEF Clear, End
  <2>3. ASSUME ~ Clear(c, n), n.at <= c
        PROVE  c \in (c .. c + ElementsPerNode - 1) \cap (n.at .. n.at + n.span - 1)
    BY <1>1, <2>1, <2>3 DEF Clear, End
  <2>4. ASSUME ~ Clear(c, n), ~ (n.at <= c)
        PROVE  n.at \in (c .. c + ElementsPerNode - 1) \cap (n.at .. n.at + n.span - 1)
    BY <1>1, <2>1, <2>4 DEF Clear, End
  <2>. QED  BY <2>2, <2>3, <2>4
<1>3. (c .. c + ElementsPerNode - 1) \cap Occupied(list) = {}
        <=> \A n \in list : (c .. c + ElementsPerNode - 1) \cap (n.at .. n.at + n.span - 1) = {}
  BY Zenon DEF Occupied
<1>. QED  BY <1>2, <1>3, Zenon

\* A list with fewer lights has no fewer free slots: every slot of the longer one.
LEMMA FreeShrinks ==
  ASSUME NEW list \in SUBSET Node, NEW longer \in SUBSET Node, list \subseteq longer,
         \A n \in longer : Sized(n)
  PROVE  Free(Occupied(longer)) \subseteq Free(Occupied(list))
<1>. SUFFICES ASSUME NEW c \in Free(Occupied(longer))
              PROVE  c \in Free(Occupied(list))
  OBVIOUS
<1>1. \A n \in list : Sized(n)
  OBVIOUS
<1>2. c \in Address /\ (c - FirstAddress) % ElementsPerNode = 0 /\ \A n \in longer : Clear(c, n)
  BY FreeSlots, Zenon
<1>3. \A n \in list : Clear(c, n)
  BY <1>2
<1>. QED  BY <1>1, <1>2, <1>3, FreeSlots, Zenon

\* The entities' view of a list that is not empty has the list's addresses.
LEMMA ResolvedSpots ==
  ASSUME NEW list, NEW wide, list # {}
  PROVE  {v.at : v \in Resolved(list, wide)} = {n.at : n \in list}
<1>. DEFINE or(own) == IF own # Unset THEN own ELSE IF wide # Unset THEN wide ELSE Default
            seen(n) == [at |-> n.at, set |-> or(n.set)]
<1>1. Resolved(list, wide) = {seen(n) : n \in list}
  BY Zenon DEF Resolved
<1>2. \A n \in list : seen(n).at = n.at
  BY Zenon
<1>. HIDE DEF seen
<1>. QED  BY <1>1, <1>2

LEMMA ResolvedViews ==
  ASSUME NEW list \in SUBSET Node, NEW wide \in Settings \cup {Unset}
  PROVE  Resolved(list, wide) \subseteq View
<1>. DEFINE or(own) == IF own # Unset THEN own ELSE IF wide # Unset THEN wide ELSE Default
<1>1. \A own \in Settings \cup {Unset} : or(own) \in Settings
  BY RegistryAssumption
<1>2. FirstAddress \in Address
  BY RegistryAssumption DEF Address
<1>3. Resolved(list, wide) = IF list = {} THEN {[at |-> FirstAddress, set |-> or(Unset)]}
                             ELSE {[at |-> n.at, set |-> or(n.set)] : n \in list}
  BY Zenon DEF Resolved
<1>4. \A n \in list : n.at \in Address /\ n.set \in Settings \cup {Unset}
  BY DEF Node
<1>. HIDE DEF or
<1>5. CASE list = {}
  BY <1>1, <1>2, <1>3, <1>5 DEF View
<1>6. CASE list # {}
  BY <1>1, <1>3, <1>4, <1>6 DEF View
<1>. QED  BY <1>5, <1>6

-----------------------------------------------------------------------------
(* What the parts of a step do. *)

\* A flow that is under way adds a light, not the first one, at an address.
LEMMA FlowUnderWay ==
  ASSUME TypeOK, NEW f \in Flows, flow[f] # Idle
  PROVE  /\ flow[f] \in [phase : {"provisioning", "form"}, kind : {"join", "options"},
                         light : Lights, at : Address, read : SUBSET Node]
         /\ flow[f].light \in Lights /\ flow[f].light # First
         /\ flow[f].at \in Address /\ flow[f].at \in Nat
<1>1. flow[f] \in FlowState
  BY DEF TypeOK
<1>2. flow[f] \in [phase : {"provisioning", "form"}, kind : {"join", "options"},
                   light : Lights, at : Address, read : SUBSET Node]
  BY <1>1 DEF FlowState
<1>. QED  BY <1>2, RegistryAssumption DEF Address

\* async_update_entry: the list is as wanted, what is stored has the same lights at
\* the same addresses, and what is shown is right or about to be renewed.
LEMMA EntryUpdated ==
  ASSUME TypeOK, Recorded, Agree, ListIsShown,
         NEW list \in SUBSET Node, \A n \in list : Sized(n),
         NEW wide \in Settings \cup {Unset}, NEW before,
         UpdateEntry(before, list, wide),
         before = <<list, wide>> => Spots(list) = Spots(nodes)
  PROVE  /\ nodes' = list /\ legacy' \in Settings \cup {Unset}
         /\ stored' \in (SUBSET Node) \X (Settings \cup {Unset})
         /\ stored'[1] \in {stored[1], list}
         /\ shown' \subseteq View /\ entry' \in Phases /\ due' \in Nat
         /\ Recorded' /\ Agree' /\ ListIsShown'
<1>1. nodes' = list
  BY DEF UpdateEntry
<1>2. CASE before = <<list, wide>>
  <2>1. /\ legacy' = legacy /\ stored' = stored
        /\ shown' = shown /\ entry' = entry /\ due' = due
    BY <1>2 DEF UpdateEntry
  <2>2. Spots(list) = Spots(nodes)
    BY <1>2
  <2>3. {n.at : n \in list} = {n.at : n \in nodes}
    <3>1. \A one, other \in SUBSET Node :
             Spots(one) = Spots(other) => \A n \in one : \E m \in other : m.at = n.at
      <4>. SUFFICES ASSUME NEW one \in SUBSET Node, NEW other \in SUBSET Node,
                           Spots(one) = Spots(other), NEW n \in one
                    PROVE  \E m \in other : m.at = n.at
        OBVIOUS
      <4>1. <<n.light, n.at>> \in Spots(other)
        BY DEF Spots
      <4>2. PICK m \in other : <<n.light, n.at>> = <<m.light, m.at>>
        BY <4>1 DEF Spots
      <4>3. n.at = m.at
        BY <4>2
      <4>. QED  BY <4>3
    <3>2. nodes \in SUBSET Node
      BY DEF TypeOK
    <3>3. \A n \in list : \E m \in nodes : m.at = n.at
      BY <2>2, <3>1, <3>2
    <3>4. \A n \in nodes : \E m \in list : m.at = n.at
      BY <2>2, <3>1, <3>2
    <3>. QED  BY <3>3, <3>4
  <2>4. list # {} => nodes # {}
    BY <2>3
  <2>5. ListIsShown'
    BY <1>1, <2>1, <2>3, <2>4 DEF ListIsShown
  <2>6. Recorded'
    BY <1>1, <2>1 DEF Recorded, Sized
  <2>7. Agree'
    BY <1>1, <2>1, <2>2 DEF Agree, Spots
  <2>8. /\ legacy' \in Settings \cup {Unset}
        /\ shown' \subseteq View /\ entry' \in Phases /\ due' \in Nat
        /\ stored' \in (SUBSET Node) \X (Settings \cup {Unset})
    BY <2>1 DEF TypeOK
  <2>. QED  BY <1>1, <2>1, <2>5, <2>6, <2>7, <2>8
<1>3. CASE before # <<list, wide>>
  <2>1. /\ legacy' = wide /\ stored' = <<list, wide>>
        /\ shown' = shown /\ entry' = entry
        /\ due' = IF Listening THEN due + 1 ELSE due
    BY <1>3 DEF UpdateEntry
  <2>2. shown' \subseteq View /\ entry' \in Phases /\ due' \in Nat
    BY <2>1 DEF TypeOK
  <2>3. ListIsShown'
    <3>1. CASE Listening
      <4>1. due' # 0
        BY <2>1, <3>1 DEF TypeOK
      <4>. QED  BY <4>1 DEF ListIsShown
    <3>2. CASE ~ Listening
      <4>1. entry' \notin {"forward", "loaded"}
        BY <2>1, <3>2 DEF Listening
      <4>. QED  BY <4>1 DEF ListIsShown
    <3>. QED  BY <3>1, <3>2
  <2>4. Recorded' /\ Agree'
    BY <1>1, <2>1 DEF Recorded, Sized, Agree, Spots
  <2>. QED  BY <1>1, <2>1, <2>2, <2>3, <2>4
<1>. QED  BY <1>2, <1>3

\* Lights that stay where they are stay apart, and no slot of theirs becomes free.
LEMMA LaidSmaller ==
  ASSUME NEW list, NEW smaller, smaller \subseteq list, Disjoint(list)
  PROVE  Disjoint(smaller)
BY Zenon DEF Disjoint

\* A list of the same lights at the same addresses.
Alike(changed, list) ==
  /\ changed \in SUBSET Node /\ \A k \in changed : Sized(k)
  /\ Spots(changed) = Spots(list)
  /\ \A k \in changed : \E m \in list : End(k) = End(m) /\ k.at = m.at
  /\ Free(Occupied(changed)) = Free(Occupied(list))
  /\ Disjoint(list) => Disjoint(changed)
  /\ Packed(list) => Packed(changed)

\* So is one where the settings of one light have changed.
LEMMA LaidChanged ==
  ASSUME NEW list \in SUBSET Node, \A n \in list : Sized(n), NEW n \in list,
         NEW new \in Node, new.light = n.light, new.at = n.at, new.span = n.span,
         NEW changed, changed = (list \ {n}) \cup {new}
  PROVE  Alike(changed, list)
<1>1. End(new) = End(n) /\ Sized(new)
  BY DEF End, Sized
<1>2. changed \in SUBSET Node /\ \A k \in changed : Sized(k)
  BY <1>1
<1>3. Spots(changed) = Spots(list)
  <2>1. <<new.light, new.at>> = <<n.light, n.at>>
    OBVIOUS
  <2>. QED  BY <2>1 DEF Spots
<1>4. \A k \in changed : \E m \in list : End(k) = End(m) /\ k.at = m.at
  BY <1>1
<1>5. \A k \in list : \E m \in changed : End(k) = End(m) /\ k.at = m.at
  BY <1>1
<1>6. \A c : (\A k \in changed : Clear(c, k)) <=> (\A k \in list : Clear(c, k))
  BY <1>4, <1>5 DEF Clear
<1>7. Free(Occupied(changed)) = Free(Occupied(list))
  <2>1. \A c : c \in Free(Occupied(changed)) <=>
                 /\ c \in Address /\ (c - FirstAddress) % ElementsPerNode = 0
                 /\ \A k \in changed : Clear(c, k)
    BY <1>2, FreeSlots, Zenon
  <2>2. \A c : c \in Free(Occupied(list)) <=>
                 /\ c \in Address /\ (c - FirstAddress) % ElementsPerNode = 0
                 /\ \A k \in list : Clear(c, k)
    BY FreeSlots, Zenon
  <2>. QED  BY <1>6, <2>1, <2>2, Zenon
<1>8. ASSUME Disjoint(list) PROVE Disjoint(changed)
  <2>. SUFFICES ASSUME NEW k \in changed, NEW m \in changed, k # m
                PROVE  End(k) < m.at \/ End(m) < k.at
    BY DEF Disjoint
  <2>1. CASE k \in list \ {n} /\ m \in list \ {n}
    BY <1>8, <2>1 DEF Disjoint
  <2>2. CASE k = new /\ m \in list \ {n}
    BY <1>1, <1>8, <2>2 DEF Disjoint
  <2>3. CASE m = new /\ k \in list \ {n}
    BY <1>1, <1>8, <2>3 DEF Disjoint
  <2>. QED  BY <2>1, <2>2, <2>3
<1>9. ASSUME Packed(list) PROVE Packed(changed)
  <2>. SUFFICES ASSUME NEW k \in changed, NEW c \in Free(Occupied(changed))
                PROVE  End(k) < c
    BY Zenon DEF Packed
  <2>1. PICK m \in list : End(k) = End(m)
    BY <1>4
  <2>2. c \in Free(Occupied(list))
    BY <1>7
  <2>. QED  BY <1>9, <2>1, <2>2 DEF Packed
<1>. QED  BY <1>2, <1>3, <1>4, <1>7, <1>8, <1>9 DEF Alike

\* A light put at a slot that a flow reserved.
LEMMA LaidLonger ==
  ASSUME NEW list \in SUBSET Node, \A n \in list : Sized(n), NEW gaps, Laid(list, gaps),
         NEW r, Reserves(r, list, gaps), r.light \in Lights \ {First},
         NEW n \in Node, Sized(n), n.light = r.light, n.at = r.at
  PROVE  Laid(list \cup {n}, gaps)
<1>. DEFINE longer == list \cup {n}
<1>1. n.at \in Nat /\ n.span \in Nat /\ n.span >= 1 /\ n.span = Elements[r.light]
      /\ End(n) = n.at + n.span - 1 /\ ElementsPerNode \in Nat /\ ElementsPerNode >= 1
  BY NodeNumbers, RegistryAssumption DEF End
<1>2. \A m \in list : m.at \in Nat /\ End(m) \in Int
  BY NodeNumbers
<1>3. \A m \in list : End(n) < m.at \/ End(m) < n.at
  <2>. TAKE m \in list
  <2>1. Clear(n.at, m)
    BY DEF Reserves
  <2>2. CASE Elements[r.light] > ElementsPerNode
    BY <2>2 DEF Reserves
  <2>3. CASE ~ (Elements[r.light] > ElementsPerNode)
    BY <1>1, <1>2, <2>1, <2>3 DEF Clear
  <2>. QED  BY <2>2, <2>3
<1>4. Disjoint(longer)
  <2>1. Disjoint(list)
    BY DEF Laid
  <2>. SUFFICES ASSUME NEW k \in longer, NEW m \in longer, k # m
                PROVE  End(k) < m.at \/ End(m) < k.at
    BY DEF Disjoint
  <2>2. CASE k \in list /\ m \in list
    BY <2>1, <2>2 DEF Disjoint
  <2>3. CASE k = n /\ m \in list
    BY <1>3, <2>3
  <2>4. CASE m = n /\ k \in list
    BY <1>3, <2>4
  <2>. QED  BY <2>2, <2>3, <2>4
<1>5. ASSUME ~gaps PROVE Packed(longer)
  <2>. SUFFICES ASSUME NEW k \in longer, NEW c \in Free(Occupied(longer))
                PROVE  End(k) < c
    BY Zenon DEF Packed
  <2>1. c \in Free(Occupied(list))
    BY FreeShrinks
  <2>2. c \in Address /\ Clear(c, n)
    BY FreeSlots
  <2>3. c \in Nat
    BY <2>2, RegistryAssumption DEF Address
  <2>4. CASE k \in list
    BY <1>5, <2>1, <2>4 DEF Laid, Packed
  <2>5. CASE k = n
    <3>1. n.at <= c
      BY <1>5, <2>1 DEF Reserves
    <3>. QED  BY <1>1, <2>2, <2>3, <2>5, <3>1 DEF Clear
  <2>. QED  BY <2>4, <2>5
<1>. QED  BY <1>4, <1>5 DEF Laid

\* Steps that leave the list alone leave everything said of it alone.
LEMMA ListUntouched ==
  ASSUME IInv, UNCHANGED <<nodes, legacy, stored, shown, entry, due, owed>>
  PROVE  /\ Recorded' /\ Agree' /\ EveryLightIsKept' /\ ListIsShown'
<1>1. Recorded'
  BY DEF IInv, Recorded, Sized
<1>2. Agree' /\ EveryLightIsKept'
  BY DEF IInv, Agree, Spots, EveryLightIsKept
<1>3. ListIsShown'
  BY DEF IInv, ListIsShown
<1>. QED  BY <1>1, <1>2, <1>3

-----------------------------------------------------------------------------
(* Every step preserves the invariant. *)

LEMMA Initial == Init => IInv
<1>. SUFFICES ASSUME Init PROVE IInv
  OBVIOUS
<1>. DEFINE first(own) == [light |-> First, at |-> FirstAddress, span |-> ElementsPerNode, set |-> own]
<1>1. PICK own \in Settings \cup {Unset} : nodes = {first(own)}
  BY DEF Init
<1>2. FirstAddress \in Address /\ FirstAddress \in Nat /\ ElementsPerNode \in Nat /\ ElementsPerNode >= 1
  BY RegistryAssumption DEF Address
<1>3. /\ first(own).light = First /\ first(own).at = FirstAddress
      /\ first(own).span = ElementsPerNode /\ first(own) \in Node
  BY <1>2 DEF Node
<1>. HIDE DEF first
<1>4. /\ legacy \in Settings \cup {Unset} /\ stored = <<nodes, legacy>>
      /\ shown = {} /\ entry = "setup" /\ due = 0 /\ flow = [f \in Flows |-> Idle]
      /\ onMesh = [l \in Lights \cup {First} |-> IF l = First THEN FirstAddress ELSE Nowhere]
      /\ steps = 0 /\ owed = {<<First, FirstAddress>>}
      /\ removed = FALSE /\ squeezed = FALSE /\ overlap = FALSE
  BY DEF Init
<1>5. nodes \in SUBSET Node /\ nodes # {} /\ stored[1] = nodes
  BY <1>1, <1>3, <1>4
<1>6. Sized(first(own)) /\ End(first(own)) = FirstAddress + ElementsPerNode - 1
  BY <1>3 DEF Sized, End
<1>7. TypeOK
  <2>1. shown \subseteq View /\ entry \in Phases /\ due \in Nat
    BY <1>4 DEF Phases
  <2>2. flow \in [Flows -> FlowState]
    BY <1>4 DEF FlowState
  <2>3. onMesh \in [Lights \cup {First} -> Address \cup {Nowhere}]
    BY <1>2, <1>4
  <2>4. steps \in 0 .. MaxSteps
    BY <1>4, RegistryAssumption
  <2>5. stored \in (SUBSET Node) \X (Settings \cup {Unset})
    BY <1>4, <1>5
  <2>6. owed \subseteq (Lights \cup {First}) \X Address
    BY <1>2, <1>4
  <2>. QED  BY <1>4, <1>5, <2>1, <2>2, <2>3, <2>4, <2>5, <2>6 DEF TypeOK
<1>8. Recorded
  BY <1>1, <1>5, <1>6 DEF Recorded
<1>9. Agree
  BY <1>5 DEF Agree
<1>10. Alone
  BY <1>4 DEF Alone
<1>11. EveryLightIsKept
  BY <1>1, <1>3, <1>4 DEF EveryLightIsKept
<1>12. ListIsShown
  BY <1>4 DEF ListIsShown
<1>13. Room
  <2>1. Disjoint(nodes)
    BY <1>1 DEF Disjoint
  <2>2. Packed(nodes)
    <3>. SUFFICES ASSUME NEW c \in Free(Occupied(nodes))
                  PROVE  End(first(own)) < c
      BY <1>1 DEF Packed
    <3>1. \A n \in nodes : Sized(n)
      BY <1>1, <1>6
    <3>2. c \in Address /\ \A n \in nodes : Clear(c, n)
      BY <1>5, <3>1, FreeSlots, Zenon
    <3>3. c \in Nat /\ c >= FirstAddress
      BY <3>2, RegistryAssumption DEF Address
    <3>4. Clear(c, first(own))
      BY <1>1, <3>2
    <3>. QED  BY <1>2, <1>3, <1>6, <3>3, <3>4 DEF Clear
  <2>3. Laid(nodes, removed) /\ Laid(stored[1], removed)
    BY <1>5, <2>1, <2>2 DEF Laid
  <2>4. \A f \in Flows : flow[f] = Idle
    BY <1>4
  <2>. QED  BY <2>3, <2>4 DEF Room
<1>. QED  BY <1>7, <1>8, <1>9, <1>10, <1>11, <1>12, <1>13 DEF IInv

\* A flow picks its address.
LEMMA SubmitStep ==
  ASSUME IInv, NEW f \in Flows, NEW l \in Lights, NEW kind \in {"join", "options"},
         Submit(f, l, kind)
  PROVE  IInv'
<1>. DEFINE at == Min(Free(Occupied(nodes)))
            r == [phase |-> "provisioning", kind |-> kind, light |-> l, at |-> at, read |-> nodes]
<1>1. /\ flow[f] = Idle /\ flow' = [flow EXCEPT ![f] = r]
      /\ overlap' = (overlap \/ \E g \in Flows : flow[g] # Idle)
      /\ squeezed' = (squeezed \/ (removed /\ Elements[l] > ElementsPerNode))
      /\ UNCHANGED <<nodes, legacy, stored, shown, entry, due, onMesh, steps, owed, removed>>
  BY DEF Submit, options, view
<1>2. Free(Occupied(nodes)) # {}
  BY DEF Submit
<1>3. at \in Free(Occupied(nodes)) /\ \A c \in Free(Occupied(nodes)) : at <= c
  <2>1. Free(Occupied(nodes)) \in SUBSET Address
    BY DEF Free
  <2>. QED  BY <1>2, <2>1, LowestIsFree
<1>4. at \in Address
  BY <1>3 DEF Free
<1>. HIDE DEF at
<1>5. TypeOK
  BY DEF IInv
<1>6. r \in FlowState /\ r.at = at /\ r.light = l
  BY <1>4, <1>5 DEF FlowState, TypeOK
<1>. HIDE DEF r
<1>7. flow' \in [Flows -> FlowState] /\ flow'[f] = r /\ \A g \in Flows \ {f} : flow'[g] = flow[g]
  BY <1>1, <1>5, <1>6 DEF TypeOK
<1>8. TypeOK'
  <2>1. {removed, squeezed', overlap'} \subseteq BOOLEAN
    BY <1>1, <1>5 DEF TypeOK
  <2>. QED  BY <1>1, <1>5, <1>7, <2>1 DEF TypeOK
<1>9. Alone'
  <2>. SUFFICES ASSUME ~overlap', NEW g \in Flows, flow'[g] # Idle
                PROVE  g = f
    BY Zenon DEF Alone
  <2>. QED  BY <1>1, <1>7
<1>10. Room'
  <2>. SUFFICES ASSUME Quiet'
                PROVE  /\ Laid(nodes', removed') /\ Laid(stored'[1], removed')
                       /\ \A g \in Flows : flow'[g] # Idle => Reserves(flow'[g], nodes', removed')
    BY DEF Room
  <2>1. /\ Quiet /\ \A g \in Flows : flow[g] = Idle
        /\ removed => ~ (Elements[l] > ElementsPerNode)
    BY <1>1 DEF Quiet
  <2>2. Laid(nodes, removed) /\ Laid(stored[1], removed)
    BY <2>1 DEF IInv, Room
  <2>3. Reserves(r, nodes, removed)
    <3>1. \A n \in nodes : Clear(at, n)
      BY <1>3, <1>5, FreeSlots DEF IInv, Recorded, TypeOK
    <3>2. ASSUME Elements[l] > ElementsPerNode PROVE \A n \in nodes : End(n) < at
      BY <1>3, <2>1, <2>2, <3>2 DEF Laid, Packed
    <3>. QED  BY <1>3, <1>6, <3>1, <3>2 DEF Reserves
  <2>4. \A g \in Flows : flow'[g] # Idle => flow'[g] = r
    BY <1>7, <2>1
  <2>. QED  BY <1>1, <2>2, <2>3, <2>4
<1>. QED  BY <1>1, <1>8, <1>9, <1>10, ListUntouched DEF IInv

\* A flow that goes on with the same light and address, or ends.
LEMMA FlowGoesOn ==
  ASSUME IInv, NEW f \in Flows, flow[f] # Idle, NEW r \in FlowState,
         r = Idle \/ (r.light = flow[f].light /\ r.at = flow[f].at),
         flow' = [flow EXCEPT ![f] = r],
         onMesh' \in [Lights \cup {First} -> Address \cup {Nowhere}],
         UNCHANGED <<nodes, legacy, stored, shown, entry, due, steps, owed, removed, squeezed, overlap>>
  PROVE  IInv'
<1>1. TypeOK
  BY DEF IInv
<1>2. flow' \in [Flows -> FlowState] /\ flow'[f] = r /\ \A g \in Flows \ {f} : flow'[g] = flow[g]
  BY <1>1 DEF TypeOK
<1>3. TypeOK'
  BY <1>1, <1>2 DEF TypeOK
<1>4. Alone'
  BY <1>2 DEF IInv, Alone
<1>5. Room'
  <2>. SUFFICES ASSUME Quiet'
                PROVE  /\ Laid(nodes', removed') /\ Laid(stored'[1], removed')
                       /\ \A g \in Flows : flow'[g] # Idle => Reserves(flow'[g], nodes', removed')
    BY DEF Room
  <2>1. /\ Laid(nodes, removed) /\ Laid(stored[1], removed)
        /\ \A g \in Flows : flow[g] # Idle => Reserves(flow[g], nodes, removed)
    BY DEF Quiet, IInv, Room
  <2>2. r # Idle => Reserves(r, nodes, removed)
    BY <2>1 DEF Reserves
  <2>3. \A g \in Flows : flow'[g] # Idle => Reserves(flow'[g], nodes, removed)
    BY <1>2, <2>1, <2>2
  <2>. QED  BY <2>1, <2>3
<1>. QED  BY <1>3, <1>4, <1>5, ListUntouched DEF IInv

LEMMA ProvisionedStep ==
  ASSUME IInv, NEW f \in Flows, Provisioned(f)
  PROVE  IInv'
<1>. DEFINE r == [flow[f] EXCEPT !.phase = "form"]
<1>1. /\ flow[f] # Idle /\ flow' = [flow EXCEPT ![f] = r]
      /\ onMesh' = [onMesh EXCEPT ![flow[f].light] = flow[f].at]
      /\ UNCHANGED <<nodes, legacy, stored, shown, entry, due, steps, owed, removed, squeezed, overlap>>
  BY Zenon DEF Provisioned, InPhase, options, view
<1>2. TypeOK
  BY DEF IInv
<1>3. /\ flow[f] \in [phase : {"provisioning", "form"}, kind : {"join", "options"},
                      light : Lights, at : Address, read : SUBSET Node]
      /\ flow[f].light \in Lights /\ flow[f].at \in Address
  BY <1>1, <1>2, FlowUnderWay
<1>4. r \in FlowState /\ r.light = flow[f].light /\ r.at = flow[f].at
  BY <1>3 DEF FlowState
<1>. HIDE DEF r
<1>5. onMesh' \in [Lights \cup {First} -> Address \cup {Nowhere}]
  BY <1>1, <1>2, <1>3 DEF TypeOK
<1>. QED  BY <1>1, <1>4, <1>5, FlowGoesOn, Zenon

LEMMA ProvisionFailsStep ==
  ASSUME IInv, NEW f \in Flows, ProvisionFails(f)
  PROVE  IInv'
<1>1. /\ flow[f] # Idle /\ flow' = [flow EXCEPT ![f] = Idle]
      /\ onMesh' \in {onMesh, [onMesh EXCEPT ![flow[f].light] = flow[f].at]}
      /\ UNCHANGED <<nodes, legacy, stored, shown, entry, due, steps, owed, removed, squeezed, overlap>>
  BY DEF ProvisionFails, InPhase, options, view
<1>2. flow[f].light \in Lights /\ flow[f].at \in Address /\ TypeOK
  BY <1>1, FlowUnderWay DEF IInv
<1>3. onMesh' \in [Lights \cup {First} -> Address \cup {Nowhere}]
  BY <1>1, <1>2 DEF TypeOK
<1>4. Idle \in FlowState
  BY DEF FlowState
<1>. QED  BY <1>1, <1>3, <1>4, FlowGoesOn, Zenon

LEMMA AbandonStep ==
  ASSUME IInv, NEW f \in Flows, Abandon(f)
  PROVE  IInv'
<1>1. /\ flow[f] # Idle /\ flow' = [flow EXCEPT ![f] = Idle]
      /\ UNCHANGED <<nodes, legacy, stored, shown, entry, due, onMesh, steps, owed, removed, squeezed, overlap>>
  BY DEF Abandon, InPhase, options, view
<1>2. onMesh' \in [Lights \cup {First} -> Address \cup {Nowhere}]
  BY <1>1 DEF IInv, TypeOK
<1>3. Idle \in FlowState
  BY DEF FlowState
<1>. QED  BY <1>1, <1>2, <1>3, FlowGoesOn, Zenon

\* The light joins the list as it is now.
LEMMA CompleteStep ==
  ASSUME IInv, NEW f \in Flows, NEW own \in Settings, Complete(f, own)
  PROVE  IInv'
<1>. DEFINE n == Added(f, own)
            list == nodes \cup {n}
            wide == IF flow[f].kind = "join" THEN legacy ELSE Unset
<1>1. /\ flow[f] # Idle /\ flow' = [flow EXCEPT ![f] = Idle]
      /\ UpdateEntry(<<nodes, legacy>>, list, wide)
      /\ owed' = owed \cup {<<flow[f].light, flow[f].at>>}
      /\ UNCHANGED <<onMesh, steps, removed, squeezed, overlap>>
  BY DEF Complete, InPhase
<1>2. TypeOK /\ Recorded /\ Agree /\ ListIsShown /\ EveryLightIsKept
  BY DEF IInv
<1>3. flow[f].light \in Lights /\ flow[f].light # First /\ flow[f].at \in Address
  BY <1>1, <1>2, FlowUnderWay
<1>4. Elements[flow[f].light] \in Nat
  BY <1>3, RegistryAssumption
<1>5. /\ n \in Node /\ n.light = flow[f].light /\ n.at = flow[f].at
      /\ n.span = Elements[flow[f].light]
  BY <1>3, <1>4 DEF Added, Node
<1>. HIDE DEF n
<1>6. Sized(n)
  BY <1>3, <1>5 DEF Sized
<1>7. list \in SUBSET Node /\ \A m \in list : Sized(m)
  BY <1>2, <1>5, <1>6 DEF TypeOK, Recorded
<1>8. wide \in Settings \cup {Unset}
  BY <1>2 DEF TypeOK
<1>. HIDE DEF list, wide
<1>9. <<nodes, legacy>> = <<list, wide>> => Spots(list) = Spots(nodes)
  OBVIOUS
<1>10. /\ nodes' = list /\ legacy' \in Settings \cup {Unset}
       /\ stored' \in (SUBSET Node) \X (Settings \cup {Unset})
       /\ stored'[1] \in {stored[1], list}
       /\ shown' \subseteq View /\ entry' \in Phases /\ due' \in Nat
       /\ Recorded' /\ Agree' /\ ListIsShown'
  BY <1>1, <1>2, <1>7, <1>8, <1>9, EntryUpdated
<1>11. flow' \in [Flows -> FlowState] /\ flow'[f] = Idle /\ \A g \in Flows \ {f} : flow'[g] = flow[g]
  BY <1>1, <1>2 DEF TypeOK, FlowState
<1>12. owed' \subseteq (Lights \cup {First}) \X Address
  BY <1>1, <1>2, <1>3 DEF TypeOK
<1>13. TypeOK'
  BY <1>1, <1>2, <1>7, <1>10, <1>11, <1>12 DEF TypeOK
<1>14. Alone'
  BY <1>1, <1>11 DEF IInv, Alone
<1>15. EveryLightIsKept'
  BY <1>1, <1>2, <1>5, <1>10 DEF EveryLightIsKept, list
<1>16. Room'
  <2>. SUFFICES ASSUME Quiet'
                PROVE  /\ Laid(nodes', removed') /\ Laid(stored'[1], removed')
                       /\ \A g \in Flows : flow'[g] # Idle => Reserves(flow'[g], nodes', removed')
    BY DEF Room
  <2>1. Quiet
    BY <1>1 DEF Quiet
  <2>2. /\ Laid(nodes, removed) /\ Laid(stored[1], removed)
        /\ Reserves(flow[f], nodes, removed)
    BY <1>1, <2>1 DEF IInv, Room
  <2>3. Laid(list, removed)
    <3>1. nodes \in SUBSET Node /\ \A m \in nodes : Sized(m)
      BY <1>2 DEF TypeOK, Recorded
    <3>. QED  BY <1>3, <1>5, <1>6, <2>2, <3>1, LaidLonger DEF list
  <2>4. \A g \in Flows : flow'[g] = Idle
    BY <1>1, <1>11, <2>1 DEF IInv, Alone, Quiet
  <2>. QED  BY <1>1, <1>10, <2>2, <2>3, <2>4
<1>. QED  BY <1>10, <1>13, <1>14, <1>15, <1>16 DEF IInv

\* Lights are taken off the list.
LEMMA RemovalStep ==
  ASSUME IInv, NEW ats, NEW wide \in Settings \cup {Unset}, Counted,
         UpdateEntry(<<nodes, legacy>>, Without(ats), wide),
         owed' = {o \in owed : o[2] \notin ats}, removed' = TRUE,
         UNCHANGED <<flow, onMesh, squeezed, overlap>>
  PROVE  IInv'
<1>. DEFINE list == Without(ats)
<1>1. TypeOK /\ Recorded /\ Agree /\ ListIsShown /\ EveryLightIsKept
  BY DEF IInv
<1>2. list \subseteq nodes /\ list \in SUBSET Node /\ \A n \in list : Sized(n)
  BY <1>1 DEF Without, TypeOK, Recorded
<1>3. {<<n.light, n.at>> : n \in list} = {o \in owed : o[2] \notin ats}
  <2>1. \A n \in nodes : <<n.light, n.at>>[2] = n.at
    OBVIOUS
  <2>2. \A n \in list : n \in nodes /\ n.at \notin ats
    BY DEF Without
  <2>3. \A n \in nodes : n.at \notin ats => n \in list
    BY DEF Without
  <2>. HIDE DEF list
  <2>. QED  BY <1>1, <2>1, <2>2, <2>3 DEF EveryLightIsKept
<1>. HIDE DEF list
<1>4. <<nodes, legacy>> = <<list, wide>> => Spots(list) = Spots(nodes)
  OBVIOUS
<1>5. UpdateEntry(<<nodes, legacy>>, list, wide)
  BY DEF list
<1>6. /\ nodes' = list /\ legacy' \in Settings \cup {Unset}
      /\ stored' \in (SUBSET Node) \X (Settings \cup {Unset})
      /\ stored'[1] \in {stored[1], list}
      /\ shown' \subseteq View /\ entry' \in Phases /\ due' \in Nat
      /\ Recorded' /\ Agree' /\ ListIsShown'
  BY <1>1, <1>2, <1>4, <1>5, EntryUpdated
<1>7. steps' \in 0 .. MaxSteps
  BY <1>1, RegistryAssumption DEF Counted, TypeOK
<1>8. TypeOK'
  BY <1>1, <1>2, <1>6, <1>7 DEF TypeOK
<1>9. Alone'
  BY DEF IInv, Alone
<1>10. EveryLightIsKept'
  BY <1>3, <1>6 DEF EveryLightIsKept
<1>11. Room'
  <2>. SUFFICES ASSUME Quiet'
                PROVE  /\ Laid(nodes', removed') /\ Laid(stored'[1], removed')
                       /\ \A g \in Flows : flow'[g] # Idle => Reserves(flow'[g], nodes', removed')
    BY DEF Room
  <2>1. /\ Laid(nodes, removed) /\ Laid(stored[1], removed)
        /\ \A g \in Flows : flow[g] # Idle => Reserves(flow[g], nodes, removed)
    BY DEF IInv, Room, Quiet
  <2>2. Disjoint(list) /\ Disjoint(stored[1])
    BY <1>2, <2>1, LaidSmaller DEF Laid
  <2>3. Laid(nodes', removed') /\ Laid(stored'[1], removed')
    BY <1>6, <2>2 DEF Laid
  <2>4. \A g \in Flows : flow[g] # Idle => Reserves(flow[g], list, TRUE)
    BY <1>2, <2>1 DEF Reserves
  <2>. QED  BY <1>6, <2>3, <2>4
<1>. QED  BY <1>6, <1>8, <1>9, <1>10, <1>11 DEF IInv

LEMMA RemoveNodesStep ==
  ASSUME IInv, NEW ats \in SUBSET Address, RemoveNodes(ats)
  PROVE  IInv'
<1>1. /\ Counted /\ UpdateEntry(<<nodes, legacy>>, Without(ats), Unset)
      /\ owed' = {o \in owed : o[2] \notin ats} /\ removed' = TRUE
      /\ UNCHANGED <<flow, onMesh, squeezed, overlap>>
  BY DEF RemoveNodes
<1>2. Unset \in Settings \cup {Unset}
  OBVIOUS
<1>. QED  BY <1>1, <1>2, RemovalStep, Zenon

LEMMA RemoveDeviceStep ==
  ASSUME IInv, NEW at \in Address, RemoveDevice(at)
  PROVE  IInv'
<1>1. /\ Counted /\ UpdateEntry(<<nodes, legacy>>, Without({at}), legacy)
      /\ owed' = {o \in owed : o[2] # at} /\ removed' = TRUE
      /\ UNCHANGED <<flow, onMesh, squeezed, overlap>>
  BY DEF RemoveDevice
<1>2. {o \in owed : o[2] # at} = {o \in owed : o[2] \notin {at}}
  OBVIOUS
<1>3. legacy \in Settings \cup {Unset}
  BY DEF IInv, TypeOK
<1>. QED  BY <1>1, <1>2, <1>3, RemovalStep, Zenon

\* A light's settings change, in the list and perhaps not in what is stored.
LEMMA SetModelStep ==
  ASSUME IInv, NEW n \in nodes, NEW own \in Settings, SetModel(n, own)
  PROVE  IInv'
<1>. DEFINE new == [n EXCEPT !.set = own]
            list == (nodes \ {n}) \cup {new}
<1>1. /\ Counted /\ UpdateEntry(<<list, legacy>>, list, Unset)
      /\ UNCHANGED <<flow, onMesh, owed, removed, squeezed, overlap>>
  BY Zenon DEF SetModel
<1>2. TypeOK /\ Recorded /\ Agree /\ ListIsShown /\ EveryLightIsKept
  BY DEF IInv
<1>3. nodes \in SUBSET Node /\ \A m \in nodes : Sized(m)
  BY <1>2 DEF TypeOK, Recorded
<1>4. new \in Node /\ new.light = n.light /\ new.at = n.at /\ new.span = n.span
  BY <1>3 DEF Node
<1>5. list = (nodes \ {n}) \cup {new}
  OBVIOUS
<1>. HIDE DEF new, list
<1>6. /\ list \in SUBSET Node /\ \A m \in list : Sized(m)
      /\ Spots(list) = Spots(nodes)
      /\ \A m \in list : \E k \in nodes : End(m) = End(k) /\ m.at = k.at
      /\ Free(Occupied(list)) = Free(Occupied(nodes))
      /\ Disjoint(nodes) => Disjoint(list)
      /\ Packed(nodes) => Packed(list)
  <2>1. Alike(list, nodes)
    BY <1>3, <1>4, <1>5, LaidChanged
  <2>. QED  BY <2>1 DEF Alike
<1>7. /\ nodes' = list /\ legacy' \in Settings \cup {Unset}
      /\ stored' \in (SUBSET Node) \X (Settings \cup {Unset})
      /\ stored'[1] \in {stored[1], list}
      /\ shown' \subseteq View /\ entry' \in Phases /\ due' \in Nat
      /\ Recorded' /\ Agree' /\ ListIsShown'
  BY <1>1, <1>2, <1>6, EntryUpdated
<1>8. steps' \in 0 .. MaxSteps
  BY <1>1, <1>2, RegistryAssumption DEF Counted, TypeOK
<1>9. TypeOK'
  BY <1>1, <1>2, <1>6, <1>7, <1>8 DEF TypeOK
<1>10. Alone'
  BY <1>1 DEF IInv, Alone
<1>11. EveryLightIsKept'
  BY <1>1, <1>2, <1>6, <1>7 DEF EveryLightIsKept, Spots
<1>12. Room'
  <2>. SUFFICES ASSUME Quiet'
                PROVE  /\ Laid(nodes', removed') /\ Laid(stored'[1], removed')
                       /\ \A g \in Flows : flow'[g] # Idle => Reserves(flow'[g], nodes', removed')
    BY DEF Room
  <2>1. /\ Laid(nodes, removed) /\ Laid(stored[1], removed)
        /\ \A g \in Flows : flow[g] # Idle => Reserves(flow[g], nodes, removed)
    BY <1>1 DEF IInv, Room, Quiet
  <2>2. Laid(list, removed)
    BY <1>6, <2>1 DEF Laid
  <2>3. ASSUME NEW g \in Flows, flow[g] # Idle
        PROVE  Reserves(flow[g], list, removed)
    <3>1. Reserves(flow[g], nodes, removed)
      BY <2>1, <2>3
    <3>2. \A m \in list : Clear(flow[g].at, m)
      BY <1>6, <3>1 DEF Reserves, Clear
    <3>3. Elements[flow[g].light] > ElementsPerNode => \A m \in list : End(m) < flow[g].at
      BY <1>6, <3>1 DEF Reserves
    <3>. QED  BY <1>6, <3>1, <3>2, <3>3 DEF Reserves
  <2>. QED  BY <1>1, <1>7, <2>1, <2>2, <2>3
<1>. QED  BY <1>7, <1>9, <1>10, <1>11, <1>12 DEF IInv

\* What was stored comes back; flows do not.
LEMMA RestartStep ==
  ASSUME IInv, Restart
  PROVE  IInv'
<1>1. /\ Counted /\ nodes' = stored[1] /\ legacy' = stored[2]
      /\ shown' = {} /\ entry' = "setup" /\ due' = 0 /\ flow' = [f \in Flows |-> Idle]
      /\ UNCHANGED <<stored, onMesh, owed, removed, squeezed, overlap>>
  BY DEF Restart
<1>2. TypeOK /\ Recorded /\ Agree /\ EveryLightIsKept
  BY DEF IInv
<1>3. stored[1] \in SUBSET Node /\ stored[2] \in Settings \cup {Unset}
  BY <1>2 DEF TypeOK
<1>4. TypeOK'
  <2>1. shown' \subseteq View /\ entry' \in Phases /\ due' \in Nat
    BY <1>1 DEF Phases
  <2>2. flow' \in [Flows -> FlowState]
    BY <1>1 DEF FlowState
  <2>3. steps' \in 0 .. MaxSteps
    BY <1>1, <1>2, RegistryAssumption DEF Counted, TypeOK
  <2>. QED  BY <1>1, <1>2, <1>3, <2>1, <2>2, <2>3 DEF TypeOK
<1>5. Recorded'
  BY <1>1, <1>2 DEF Recorded, Sized
<1>6. Agree' /\ EveryLightIsKept'
  <2>1. Spots(nodes') = owed
    BY <1>1, <1>2 DEF Agree, Spots, EveryLightIsKept
  <2>. QED  BY <1>1, <2>1 DEF Agree, Spots, EveryLightIsKept
<1>7. ListIsShown'
  BY <1>1 DEF ListIsShown
<1>8. \A f \in Flows : flow'[f] = Idle
  BY <1>1
<1>9. Alone'
  BY <1>8 DEF Alone
<1>10. Room'
  BY <1>1, <1>8 DEF IInv, Room, Quiet
<1>. QED  BY <1>4, <1>5, <1>6, <1>7, <1>9, <1>10 DEF IInv

\* A light leaves the mesh: the list does not know.
LEMMA ResetStep ==
  ASSUME IInv, NEW l \in Lights, Reset(l)
  PROVE  IInv'
<1>1. /\ Counted /\ onMesh' = [onMesh EXCEPT ![l] = Nowhere]
      /\ UNCHANGED <<nodes, legacy, stored, shown, entry, due, flow, owed, removed, squeezed, overlap>>
  BY DEF Reset, options, view
<1>2. TypeOK'
  <2>1. steps' \in 0 .. MaxSteps
    BY <1>1, RegistryAssumption DEF Counted, IInv, TypeOK
  <2>. QED  BY <1>1, <2>1 DEF IInv, TypeOK
<1>3. Alone' /\ Room'
  BY <1>1 DEF IInv, Alone, Room, Quiet
<1>. QED  BY <1>1, <1>2, <1>3, ListUntouched DEF IInv

\* The steps of a reload, failed or not, leave the list and the flows alone.
LEMMA ViewStep ==
  ASSUME IInv, UNCHANGED <<options, flow, onMesh, steps, history>>,
         shown' \subseteq View, entry' \in Phases, due' \in Nat, ListIsShown'
  PROVE  IInv'
<1>1. UNCHANGED <<nodes, legacy, stored, flow, onMesh, steps, owed, removed, squeezed, overlap>>
  BY DEF options, history
<1>2. TypeOK'
  BY <1>1 DEF IInv, TypeOK
<1>3. Recorded' /\ Agree' /\ EveryLightIsKept'
  BY <1>1 DEF IInv, Recorded, Sized, Agree, Spots, EveryLightIsKept
<1>4. Alone' /\ Room'
  BY <1>1 DEF IInv, Alone, Room, Quiet
<1>. QED  BY <1>2, <1>3, <1>4 DEF IInv

\* What is shown is right when set-up has just read it, and stays so while no change
\* of the list has scheduled a reload.
LEMMA ReloadStep ==
  ASSUME IInv, ReloadStarts \/ Unloaded \/ SetUpBegins \/ RetryComes \/ StoreLoaded \/ Forwarded
  PROVE  IInv'
<1>1. TypeOK /\ ListIsShown
  BY DEF IInv
<1>2. shown \subseteq View /\ entry \in Phases /\ due \in Nat
  BY <1>1 DEF TypeOK
<1>3. nodes \in SUBSET Node /\ legacy \in Settings \cup {Unset}
  BY <1>1 DEF TypeOK
<1>4. UNCHANGED <<options, flow, onMesh, steps, history>> /\ nodes' = nodes
  BY DEF ReloadStarts, Unloaded, SetUpBegins, RetryComes, StoreLoaded, Forwarded, options
<1>5. CASE ReloadStarts
  <2>1. due' \in Nat /\ shown' = shown /\ entry' \in {"unloading", "setup"}
    BY <1>2, <1>5 DEF ReloadStarts
  <2>2. ListIsShown'
    BY <2>1 DEF ListIsShown
  <2>. QED  BY <1>2, <1>4, <2>1, <2>2, ViewStep DEF Phases
<1>6. CASE Unloaded
  <2>1. due' \in Nat /\ shown' \in {{}, shown} /\ entry' \in {"setup", "stuck"}
    BY <1>2, <1>6 DEF Unloaded
  <2>2. ListIsShown'
    BY <2>1 DEF ListIsShown
  <2>. QED  BY <1>2, <1>4, <2>1, <2>2, ViewStep DEF Phases
<1>7. CASE SetUpBegins \/ RetryComes
  <2>1. due' = due /\ shown' = shown /\ entry' \in {"loading", "retry", "setup"}
    BY <1>7 DEF SetUpBegins, RetryComes
  <2>2. ListIsShown'
    BY <2>1 DEF ListIsShown
  <2>. QED  BY <1>2, <1>4, <2>1, <2>2, ViewStep DEF Phases
<1>8. CASE StoreLoaded
  <2>1. /\ due' = due
        /\ \/ entry' = "forward" /\ shown' = Resolved(nodes, legacy)
           \/ entry' = "error" /\ shown' = shown
    BY <1>8 DEF StoreLoaded
  <2>2. shown' \subseteq View
    BY <1>2, <1>3, <2>1, ResolvedViews
  <2>3. ListIsShown'
    BY <1>4, <2>1, ResolvedSpots DEF ListIsShown
  <2>. QED  BY <1>2, <1>4, <2>1, <2>2, <2>3, ViewStep DEF Phases
<1>9. CASE Forwarded
  <2>1. due' = due /\ shown' = shown /\ entry = "forward" /\ entry' = "loaded"
    BY <1>9 DEF Forwarded
  <2>2. ListIsShown'
    BY <1>1, <1>4, <2>1 DEF ListIsShown
  <2>. QED  BY <1>2, <1>4, <2>1, <2>2, ViewStep DEF Phases
<1>. QED  BY <1>5, <1>6, <1>7, <1>8, <1>9

LEMMA Untouched ==
  ASSUME IInv, UNCHANGED vars
  PROVE  IInv'
<1>1. TypeOK'
  BY DEF vars, IInv, TypeOK
<1>2. Alone' /\ Room'
  BY DEF vars, IInv, Alone, Room, Quiet
<1>. QED  BY <1>1, <1>2, ListUntouched DEF vars, IInv

-----------------------------------------------------------------------------
(* The theorems. *)

\* Whatever flows, removals, changes and restarts do, in any order.
THEOREM Invariance == Spec => []IInv
<1>1. Init => IInv
  BY Initial
<1>2. IInv /\ [Next]_vars => IInv'
  <2>. SUFFICES ASSUME IInv, [Next]_vars PROVE IInv'
    OBVIOUS
  <2>1. CASE \E f \in Flows, l \in Lights, kind \in {"join", "options"} : Submit(f, l, kind)
    BY <2>1, SubmitStep
  <2>2. CASE \E f \in Flows : Provisioned(f) \/ ProvisionFails(f) \/ Abandon(f)
    BY <2>2, ProvisionedStep, ProvisionFailsStep, AbandonStep
  <2>3. CASE \E f \in Flows, own \in Settings : Complete(f, own)
    BY <2>3, CompleteStep
  <2>4. CASE \E ats \in SUBSET Address : RemoveNodes(ats)
    BY <2>4, RemoveNodesStep
  <2>5. CASE \E at \in Address : RemoveDevice(at)
    BY <2>5, RemoveDeviceStep
  <2>6. CASE \E n \in nodes, own \in Settings : SetModel(n, own)
    BY <2>6, SetModelStep
  <2>7. CASE Restart
    BY <2>7, RestartStep
  <2>8. CASE \E l \in Lights : Reset(l)
    BY <2>8, ResetStep
  <2>9. CASE ReloadStarts \/ Unloaded \/ SetUpBegins \/ RetryComes \/ StoreLoaded \/ Forwarded
    BY <2>9, ReloadStep
  <2>10. CASE UNCHANGED vars
    BY <2>10, Untouched
  <2>. QED  BY <2>1, <2>2, <2>3, <2>4, <2>5, <2>6, <2>7, <2>8, <2>9, <2>10 DEF Next
<1>. QED  BY <1>1, <1>2, PTL DEF Spec

\* Every variable keeps to its type; in particular the allocator never gives out an
\* address beyond the last.
THEOREM TypesHold == Spec => []TypeOK
<1>1. IInv => TypeOK
  BY DEF IInv
<1>. QED  BY <1>1, Invariance, PTL

\* No light that was added is missing from the list, and none that was removed is
\* on it, whatever the order in which flows complete, settings change unstored and
\* Home Assistant restarts.
THEOREM NoLightIsLost == Spec => []EveryLightIsKept
<1>1. IInv => EveryLightIsKept
  BY DEF IInv
<1>. QED  BY <1>1, Invariance, PTL

\* Whatever changes of the list come before, during and after a reload, and however
\* often set-up is not ready or fails: an entry that is loaded, with no reload
\* waiting, shows the lights of the list.
THEOREM EntitiesFollowTheList == Spec => []ListIsShown
<1>1. IInv => ListIsShown
  BY DEF IInv
<1>. QED  BY <1>1, Invariance, PTL

\* Flows that do not overlap never put two lights on one address: not even lights
\* larger than the allocator assumes, as long as no removal has left a gap.
THEOREM LightsStayApart == Spec => []OneByOneApart
<1>1. IInv => OneByOneApart
  <2>. SUFFICES ASSUME IInv, ~overlap, ~squeezed, Elements[First] <= ElementsPerNode,
                       NEW m \in nodes, NEW n \in nodes, m # n
                PROVE  Apart(m, n)
    BY DEF OneByOneApart
  <2>1. End(m) < n.at \/ End(n) < m.at
    BY DEF IInv, Room, Quiet, Laid, Disjoint
  <2>2. \A k \in nodes : k \in Node /\ Sized(k)
    BY DEF IInv, TypeOK, Recorded
  <2>3. \A k \in nodes : k.at \in Nat /\ k.span \in Nat /\ Elements[k.light] \in Nat
    BY <2>2, NodeNumbers, RegistryAssumption
  <2>4. \A k \in nodes : Elements[k.light] <= k.span
    BY <2>2, <2>3, NodeNumbers, RegistryAssumption DEF Sized
  <2>. QED  BY <2>1, <2>3, <2>4 DEF Apart, Ground, End
<1>. QED  BY <1>1, Invariance, PTL

============================================================================
