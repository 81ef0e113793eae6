------------------------ MODULE ObserverTable_proofs ------------------------
(***************************************************************************)
(* What the operations of ObserverTable return and preserve, for a table   *)
(* of any size.                                                            *)
(***************************************************************************)
EXTENDS ObserverTable, WellFoundedInduction, TLAPS

Table == [Slot -> ObserverSlot(Client \cup {Zero}, Host \cup {NoAddr})]

\* The loops of up2pc.c stop at a slot that satisfies their condition.
LEMMA FirstIsIn ==
  ASSUME NEW S \in SUBSET Slot, S # {}
  PROVE  First(S) \in S
<1> DEFINE R == OpToRel(<, Nat)
<1>1. S \subseteq Nat
  BY DEF Slot
<1>2. \E x \in S : \A y \in S : <<y, x>> \notin R
  <2>1. IsWellFoundedOn(R, Nat)
    BY NatLessThanWellFounded
  <2> QED
    BY <1>1, <2>1, WFMin
<1>3. PICK x \in S : \A y \in S : <<y, x>> \notin R
  BY <1>2
<1>4. \A y \in S : x <= y
  <2>1. R = {ss \in Nat \X Nat : ss[1] < ss[2]}
    BY Zenon DEF OpToRel
  <2>2. SUFFICES ASSUME NEW y \in S PROVE ~(y < x)
    BY <1>1
  <2>3. <<y, x>> \notin {ss \in Nat \X Nat : ss[1] < ss[2]}
    BY <1>3, <2>1, Zenon
  <2> QED
    BY <1>1, <2>3
<1> QED
  BY <1>4 DEF First

LEMMA EmptySlotType ==
  EmptySlot \in ObserverSlot(Client \cup {Zero}, Host \cup {NoAddr})
BY IdAssumption DEF EmptySlot, ObserverSlot

\* A subscription leaves a table a table.
LEMMA RegisterType ==
  ASSUME NEW t \in Table, NEW id \in Client, NEW addr \in Host
  PROVE  Register(t, id, addr) \in Table
<1>1. CASE Matches(t, id, addr) # {}
  <2>1. First(Matches(t, id, addr)) \in Slot
    BY <1>1, FirstIsIn DEF Matches
  <2> QED
    BY <1>1, <2>1, IdAssumption DEF Register, Table, ObserverSlot, Host
<1>2. CASE Matches(t, id, addr) = {} /\ Free(t) # {}
  <2>1. First(Free(t)) \in Slot
    BY <1>2, FirstIsIn DEF Free
  <2> QED
    BY <1>2, <2>1, IdAssumption DEF Register, RegisterNoLookup, Table, ObserverSlot
<1>3. CASE Matches(t, id, addr) = {} /\ Free(t) = {}
  BY <1>3 DEF Register, RegisterNoLookup
<1> QED
  BY <1>1, <1>2, <1>3

LEMMA UnregisterType ==
  ASSUME NEW t \in Table, NEW id \in Client, NEW addr \in Host
  PROVE  Unregister(t, id, addr) \in Table
<1>1. CASE Matches(t, id, addr) # {}
  <2>1. First(Matches(t, id, addr)) \in Slot
    BY <1>1, FirstIsIn DEF Matches
  <2> QED
    BY <1>1, <2>1, EmptySlotType DEF Unregister, Table
<1>2. CASE Matches(t, id, addr) = {}
  BY <1>2 DEF Unregister
<1> QED
  BY <1>1, <1>2

LEMMA StopRetransmitType ==
  ASSUME NEW t \in Table, NEW id \in Client, NEW addr \in Host
  PROVE  StopRetransmit(t, id, addr) \in Table
<1>1. CASE Matches(t, id, addr) # {}
  <2>1. First(Matches(t, id, addr)) \in Slot
    BY <1>1, FirstIsIn DEF Matches
  <2> QED
    BY <1>1, <2>1, IdAssumption DEF StopRetransmit, Table, ObserverSlot
<1>2. CASE Matches(t, id, addr) = {}
  BY <1>2 DEF StopRetransmit
<1> QED
  BY <1>1, <1>2

\* The counters of a slot wrap and stay a u8.
LEMMA CountType ==
  ASSUME NEW t \in Table, NEW i \in Slot
  PROVE  /\ NextIndex(t, i) \in Table
         /\ Arm(t, i) \in Table
         /\ Spend(t, i) \in Table
<1>1. \A n \in 0 .. Byte - 1 : /\ (n + 1) % Byte \in 0 .. Byte - 1
                               /\ (n + Byte - 1) % Byte \in 0 .. Byte - 1
  BY IdAssumption
<1>2. MaxRetx \in 0 .. Byte - 1
  BY ObserverAssumption
<1>3. NextIndex(t, i) \in Table
  BY <1>1 DEF NextIndex, Table, ObserverSlot
<1>4. Arm(t, i) \in Table
  BY <1>2 DEF Arm, Table, ObserverSlot
<1>5. Spend(t, i) \in Table
  BY <1>1 DEF Spend, Table, ObserverSlot
<1> QED
  BY <1>3, <1>4, <1>5

-----------------------------------------------------------------------------
(* The table stays well formed.                                            *)

\* What keeps the id and the address of every slot keeps the table in order.
LEMMA SameOwners ==
  ASSUME NEW t, NEW u, WellFormedTable(t),
         \A i \in Slot : u[i].id = t[i].id /\ u[i].addr = t[i].addr
  PROVE  WellFormedTable(u)
BY DEF WellFormedTable, Live

LEMMA RegisterWellFormed ==
  ASSUME NEW t \in Table, WellFormedTable(t), NEW id \in Client, NEW addr \in Host
  PROVE  WellFormedTable(Register(t, id, addr))
<1> DEFINE u == Register(t, id, addr)
<1>0. addr # NoAddr /\ id # Zero
  BY IdAssumption DEF Host
<1>1. CASE Matches(t, id, addr) # {}
  <2>1. First(Matches(t, id, addr)) \in Slot
    BY <1>1, FirstIsIn DEF Matches
  <2>2. \A i \in Slot : u[i].id = t[i].id /\ u[i].addr = t[i].addr
    BY <1>0, <1>1, <2>1 DEF Register, Table, ObserverSlot
  <2> QED
    BY <2>2, SameOwners
<1>2. CASE Matches(t, id, addr) = {} /\ Free(t) # {}
  <2> DEFINE f == First(Free(t))
  <2>1. f \in Slot
    BY <1>2, FirstIsIn DEF Free
  <2>2. u = [t EXCEPT ![f] = [id |-> id, addr |-> addr, index |-> 0, retransmit |-> 0]]
    BY <1>0, <1>2 DEF Register, RegisterNoLookup
  <2> HIDE DEF u, f
  <2>3. u[f].id = id /\ u[f].addr = addr
    BY <2>1, <2>2 DEF Table
  <2>4. \A i \in Slot \ {f} : u[i] = t[i]
    BY <2>1, <2>2 DEF Table
  <2>5. \A i \in Slot : ~(t[i].id = id /\ t[i].addr = addr)
    BY <1>2 DEF Matches
  <2>6. \A i, j \in Slot :
          Live(u, i) /\ u[i].id = u[j].id /\ u[i].addr = u[j].addr => i = j
    BY <2>3, <2>4, <2>5 DEF WellFormedTable, Live
  <2>7. \A i \in Slot : u[i].id = Zero <=> u[i].addr = NoAddr
    BY <1>0, <2>3, <2>4 DEF WellFormedTable
  <2> QED
    BY <2>6, <2>7 DEF WellFormedTable, u
<1>3. CASE Matches(t, id, addr) = {} /\ Free(t) = {}
  BY <1>3 DEF Register, RegisterNoLookup
<1> QED
  BY <1>1, <1>2, <1>3

LEMMA UnregisterWellFormed ==
  ASSUME NEW t \in Table, WellFormedTable(t), NEW id \in Client, NEW addr \in Host
  PROVE  WellFormedTable(Unregister(t, id, addr))
<1> DEFINE u == Unregister(t, id, addr)
<1>1. CASE addr # NoAddr /\ Matches(t, id, addr) # {}
  <2> DEFINE f == First(Matches(t, id, addr))
  <2>1. f \in Slot
    BY <1>1, FirstIsIn DEF Matches
  <2>2. u = [t EXCEPT ![f] = EmptySlot]
    BY <1>1 DEF Unregister
  <2> HIDE DEF u, f
  <2>3. u[f].id = Zero /\ u[f].addr = NoAddr
    BY <2>1, <2>2 DEF Table, EmptySlot
  <2>4. \A i \in Slot \ {f} : u[i] = t[i]
    BY <2>1, <2>2 DEF Table
  <2> QED
    BY <2>3, <2>4 DEF WellFormedTable, Live, u
<1>2. CASE ~(addr # NoAddr /\ Matches(t, id, addr) # {})
  BY <1>2 DEF Unregister
<1> QED
  BY <1>1, <1>2

LEMMA StopRetransmitWellFormed ==
  ASSUME NEW t \in Table, WellFormedTable(t), NEW id \in Client, NEW addr \in Host
  PROVE  WellFormedTable(StopRetransmit(t, id, addr))
<1>1. CASE Matches(t, id, addr) # {}
  <2>1. First(Matches(t, id, addr)) \in Slot
    BY <1>1, FirstIsIn DEF Matches
  <2> QED
    BY <1>1, <2>1, SameOwners DEF StopRetransmit, Table, ObserverSlot
<1>2. CASE Matches(t, id, addr) = {}
  BY <1>2 DEF StopRetransmit
<1> QED
  BY <1>1, <1>2

LEMMA CountWellFormed ==
  ASSUME NEW t \in Table, WellFormedTable(t), NEW i \in Slot
  PROVE  /\ WellFormedTable(NextIndex(t, i))
         /\ WellFormedTable(Arm(t, i))
         /\ WellFormedTable(Spend(t, i))
<1>1. WellFormedTable(NextIndex(t, i))
  BY SameOwners DEF NextIndex, Table, ObserverSlot
<1>2. WellFormedTable(Arm(t, i))
  BY SameOwners DEF Arm, Table, ObserverSlot
<1>3. WellFormedTable(Spend(t, i))
  BY SameOwners DEF Spend, Table, ObserverSlot
<1> QED
  BY <1>1, <1>2, <1>3

-----------------------------------------------------------------------------
(* Who is in the table.                                                    *)

SameOwner(t, u, i) == u[i].id = t[i].id /\ u[i].addr = t[i].addr

\* A subscription puts nobody else into a slot.
LEMMA RegisterOwners ==
  ASSUME NEW t \in Table, NEW id \in Client, NEW addr \in Host, NEW i \in Slot
  PROVE  LET u == Register(t, id, addr) IN
         SameOwner(t, u, i) \/ (u[i].id = id /\ u[i].addr = addr)
<1> DEFINE u == Register(t, id, addr)
<1>0. addr # NoAddr
  BY IdAssumption DEF Host
<1>1. CASE Matches(t, id, addr) # {}
  <2>1. First(Matches(t, id, addr)) \in Slot
    BY <1>1, FirstIsIn DEF Matches
  <2> QED
    BY <1>0, <1>1, <2>1 DEF Register, Table, ObserverSlot, SameOwner
<1>2. CASE Matches(t, id, addr) = {} /\ Free(t) # {}
  <2>1. First(Free(t)) \in Slot
    BY <1>2, FirstIsIn DEF Free
  <2>2. u = [t EXCEPT ![First(Free(t))] =
               [id |-> id, addr |-> addr, index |-> 0, retransmit |-> 0]]
    BY <1>0, <1>2 DEF Register, RegisterNoLookup
  <2> HIDE DEF u
  <2>3. CASE i = First(Free(t))
    BY <2>1, <2>2, <2>3 DEF Table, u
  <2>4. CASE i # First(Free(t))
    BY <2>1, <2>2, <2>4 DEF Table, SameOwner, u
  <2> QED
    BY <2>3, <2>4
<1>3. CASE Matches(t, id, addr) = {} /\ Free(t) = {}
  BY <1>3 DEF Register, RegisterNoLookup, SameOwner
<1> QED
  BY <1>1, <1>2, <1>3

LEMMA UnregisterOwners ==
  ASSUME NEW t \in Table, NEW id \in Client, NEW addr \in Host, NEW i \in Slot
  PROVE  LET u == Unregister(t, id, addr) IN SameOwner(t, u, i) \/ ~Live(u, i)
<1>1. CASE addr # NoAddr /\ Matches(t, id, addr) # {}
  <2>1. First(Matches(t, id, addr)) \in Slot
    BY <1>1, FirstIsIn DEF Matches
  <2> QED
    BY <1>1, <2>1 DEF Unregister, Table, EmptySlot, SameOwner, Live
<1>2. CASE ~(addr # NoAddr /\ Matches(t, id, addr) # {})
  BY <1>2 DEF Unregister, SameOwner
<1> QED
  BY <1>1, <1>2

\* The counters leave everyone where he is.
LEMMA StopRetransmitOwners ==
  ASSUME NEW t \in Table, NEW id \in Client, NEW addr \in Host, NEW i \in Slot
  PROVE  SameOwner(t, StopRetransmit(t, id, addr), i)
<1>1. CASE Matches(t, id, addr) # {}
  <2>1. First(Matches(t, id, addr)) \in Slot
    BY <1>1, FirstIsIn DEF Matches
  <2> QED
    BY <1>1, <2>1 DEF StopRetransmit, Table, ObserverSlot, SameOwner
<1>2. CASE Matches(t, id, addr) = {}
  BY <1>2 DEF StopRetransmit, SameOwner
<1> QED
  BY <1>1, <1>2

LEMMA CountOwners ==
  ASSUME NEW t \in Table, NEW i \in Slot, NEW j \in Slot
  PROVE  /\ SameOwner(t, NextIndex(t, j), i)
         /\ SameOwner(t, Arm(t, j), i)
         /\ SameOwner(t, Spend(t, j), i)
<1>1. SameOwner(t, NextIndex(t, j), i)
  BY DEF NextIndex, Table, ObserverSlot, SameOwner
<1>2. SameOwner(t, Arm(t, j), i)
  BY DEF Arm, Table, ObserverSlot, SameOwner
<1>3. SameOwner(t, Spend(t, j), i)
  BY DEF Spend, Table, ObserverSlot, SameOwner
<1> QED
  BY <1>1, <1>2, <1>3
=============================================================================
