---------------------------- MODULE PacketQueue ----------------------------
(***************************************************************************)
(* packetrecv of up2pa.c: the packets an application has received and not  *)
(* yet read.                                                               *)
(*                                                                         *)
(* A place has the size of a header.  A packet is copied whole, so its     *)
(* payload covers the next p.span places, whatever is there; a place under *)
(* a payload is neither free (its first word is not 0) nor found (it is    *)
(* not MAGIC).  Removing a packet frees the place of its header only.      *)
(***************************************************************************)
EXTENDS Integers

CONSTANT MaxUser   \* MAX_USER: the places

ASSUME MaxUserAssumption == MaxUser \in Nat

Place == 1 .. MaxUser

Empty     == [kind |-> "empty"]
Head(p)   == [kind |-> "head", packet |-> p]
Part(p)   == [kind |-> "part", packet |-> p]

\* The queue as packetrecv_init leaves it.
NoPackets == [i \in Place |-> Empty]

\* The place of the first of some, in the order of both loops; 0 if none.
FirstOf(S) ==
  IF S = {} THEN 0 ELSE CHOOSE i \in S : \A j \in S : i <= j

\* Had magic been compared with MAGIC.
FreePlaceNotMagic(q) == FirstOf({i \in Place : q[i].kind # "head"})

\* packetrecv_add: the first place whose magic is 0.
FreePlace(q) == FirstOf({i \in Place : q[i] = Empty})

\* packetrecv_find: the first packet of the device.
Find(q, d) ==
  FirstOf({i \in Place : q[i].kind = "head" /\ q[i].packet.src = d})

\* Where the payload of a packet at i is copied to, as far as the queue reaches.
Covered(i, p) == {j \in Place : i < j /\ j <= i + p.span}

\* The copy of packetrecv_add in the order it is made.
WriteHead(q, i, p) == [q EXCEPT ![i] = Head(p)]

WritePayload(q, i, p) ==
  [j \in Place |-> IF j \in Covered(i, p) THEN Part(p) ELSE q[j]]

\* packetrecv_remove
Remove(q, i) == [q EXCEPT ![i] = Empty]

\* The places from the first to the last byte of a packet are its own.
Whole(q, i) == \A j \in Covered(i, q[i].packet) : q[j] = Part(q[i].packet)
=============================================================================
