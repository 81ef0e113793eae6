--------------------------- MODULE ObserverTable ---------------------------
(***************************************************************************)
(* The table of status subscribers a device keeps: the static array        *)
(* observer[MAX_OBSERS] of src/up2pc/up2pc.c and the functions that look   *)
(* up, fill and clear its slots.  A slot is keyed by the subscriber's id   *)
(* (dsrc0, dsrc1) and by the address its subscription came from (dip and   *)
(* dport, one value here).  The operators are functions of the table; the  *)
(* device module applies them to its own variable.                         *)
(***************************************************************************)
EXTENDS Up2p

CONSTANTS
  MaxObs,    \* MAX_OBSERS: the number of slots
  MaxRetx    \* MAX_RETRANSMITS: how often an unacknowledged status is resent

ASSUME ObserverAssumption ==
  /\ MaxObs \in Nat \ {0}
  /\ MaxRetx \in 0 .. (Byte - 1)

Slot == 1 .. MaxObs

EmptySlot == [id |-> Zero, addr |-> NoAddr, index |-> 0, retransmit |-> 0]

First(S) == CHOOSE i \in S : \A j \in S : i <= j

Matches(t, id, addr) == {i \in Slot : t[i].id = id /\ t[i].addr = addr}

Free(t) == {i \in Slot : t[i].id = Zero /\ t[i].addr = NoAddr}

(***************************************************************************)
(* A push goes to every slot that has an address.                          *)
(***************************************************************************)
Live(t, i) == t[i].addr # NoAddr

\* Had the first loop of up2pc_observer_host_register been left out.
RegisterNoLookup(t, id, addr) ==
  IF addr # NoAddr /\ Free(t) # {}
  THEN [t EXCEPT ![First(Free(t))] =
          [id |-> id, addr |-> addr, index |-> 0, retransmit |-> 0]]
  ELSE t

\* Registering twice from the same address only restarts the numbering; a
\* full table refuses the newcomer.
Register(t, id, addr) ==
  IF addr # NoAddr /\ Matches(t, id, addr) # {}
  THEN [t EXCEPT ![First(Matches(t, id, addr))].index = 0]
  ELSE RegisterNoLookup(t, id, addr)

\* Had the address been left in the slot.
UnregisterIdOnly(t, id, addr) ==
  IF addr # NoAddr /\ Matches(t, id, addr) # {}
  THEN [t EXCEPT ![First(Matches(t, id, addr))].id = Zero]
  ELSE t

Unregister(t, id, addr) ==
  IF addr # NoAddr /\ Matches(t, id, addr) # {}
  THEN [t EXCEPT ![First(Matches(t, id, addr))] = EmptySlot]
  ELSE t

\* An acknowledgement stops the retransmission, whichever push it answers.
StopRetransmit(t, id, addr) ==
  IF Matches(t, id, addr) # {}
  THEN [t EXCEPT ![First(Matches(t, id, addr))].retransmit = 0]
  ELSE t

NextIndex(t, i) == [t EXCEPT ![i].index = (@ + 1) % Byte]

Arm(t, i) == [t EXCEPT ![i].retransmit = MaxRetx]

\* Had the counter been signed.
SpendBelow(t, i) == [t EXCEPT ![i].retransmit = @ - 1]

\* retransmit-- on a u8.
Spend(t, i) == [t EXCEPT ![i].retransmit = (@ + Byte - 1) % Byte]

(***************************************************************************)
(* Properties of a table.                                                  *)
(***************************************************************************)
ObserverSlot(Id, Addr) ==
  [id : Id, addr : Addr, index : 0 .. (Byte - 1), retransmit : 0 .. (Byte - 1)]

\* No subscription occupies two slots, and a slot is either wholly empty or
\* holds both an id and an address.
WellFormedTable(t) ==
  /\ \A i, j \in Slot :
       Live(t, i) /\ t[i].id = t[j].id /\ t[i].addr = t[j].addr => i = j
  /\ \A i \in Slot : t[i].id = Zero <=> t[i].addr = NoAddr
=============================================================================
