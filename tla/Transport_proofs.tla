-------------------------- MODULE Transport_proofs --------------------------
(***************************************************************************)
(* The queue and the border of an application, for any number of threads,  *)
(* devices, places and packets of any length.                              *)
(*                                                                         *)
(* The queue: nothing is written to a place under a payload but another    *)
(* payload, and that begins either behind the payload's own header, then   *)
(* the header's place would be under it too, or before, then the new       *)
(* header would have to be under the old payload, where no place is free.  *)
(*                                                                         *)
(* The border: while a section is alone nobody counts packet_idx up and    *)
(* nobody clears flag_break, so whoever was refused is broken off, and     *)
(* whoever sent has the last number.                                       *)
(***************************************************************************)
EXTENDS Transport, WellFoundedInduction, TLAPS

Packet == [src : Dev \cup {NoOne.src}, idx : Nat, cmd : {"None", "Ack", "Update"}, span : Nat]

Slot == {Empty} \cup {Head(p) : p \in Packet} \cup {Part(p) : p \in Packet}

Request == [dev : Dev, idx : 1 .. packetIdx]

Places == {"out", "spin", "claim", "clear", "in", "waiting", "pushed", "dead"}

QueueType ==
  /\ queue \in [Place -> Slot]
  /\ incoming \in Packet

BorderType ==
  /\ flagRun \in {0, 1} /\ flagBreak \in {0, 1}
  /\ pc \in [Thread -> Places]
  /\ dev \in [Thread -> Dev]
  /\ alone \in [Thread -> BOOLEAN]

NumberType ==
  /\ packetIdx \in 0 .. MaxIdx /\ observerIdx \in Nat
  /\ sendbuf \in {Scan} \cup Request
  /\ arrived \subseteq Request
  /\ mine \in [Thread -> 0 .. packetIdx] /\ taken \in [Thread -> 0 .. packetIdx]

TypeInv == QueueType /\ BorderType /\ NumberType

\* What is being copied is behind its header, or that was taken out already.
FillingInv ==
  filling # 0 => filling \in Place /\ queue[filling] \in {Empty, Head(incoming)}

QueueInv == QueueType /\ FillingInv /\ PayloadWhole

-----------------------------------------------------------------------------
(* Places.                                                                 *)

\* The loops of packetrecv_find and packetrecv_add end at a place that fits.
LEMMA FirstFits ==
  ASSUME NEW S \in SUBSET Place, FirstOf(S) # 0
  PROVE  FirstOf(S) \in S
<1> DEFINE R == OpToRel(<, Nat)
<1>1. S # {} /\ S \subseteq Nat
  BY MaxUserAssumption DEF FirstOf, Place
<1>2. PICK x \in S : \A y \in S : <<y, x>> \notin R
  <2>1. IsWellFoundedOn(R, Nat)
    BY NatLessThanWellFounded
  <2> QED
    BY <1>1, <2>1, WFMin
<1>3. \A y \in S : x <= y
  <2>1. R = {ss \in Nat \X Nat : ss[1] < ss[2]}
    BY Zenon DEF OpToRel
  <2>2. SUFFICES ASSUME NEW y \in S PROVE ~(y < x)
    BY <1>1
  <2>3. <<y, x>> \notin {ss \in Nat \X Nat : ss[1] < ss[2]}
    BY <1>2, <2>1, Zenon
  <2> QED
    BY <1>1, <2>3
<1> QED
  BY <1>1, <1>3 DEF FirstOf

LEMMA FreePlaceIsEmpty ==
  ASSUME FreePlace(queue) # 0
  PROVE  FreePlace(queue) \in Place /\ queue[FreePlace(queue)] = Empty
BY FirstFits DEF FreePlace

LEMMA FoundIsHead ==
  ASSUME NEW d, Find(queue, d) # 0
  PROVE  Find(queue, d) \in Place /\ queue[Find(queue, d)].kind = "head"
BY FirstFits DEF Find

\* A place is empty, or has a header, or is under a payload.
LEMMA SlotKinds ==
  /\ \A p : Head(p).kind = "head" /\ Head(p).packet = p
  /\ \A p : Part(p).kind = "part"
  /\ Empty.kind = "empty"
BY DEF Head, Part, Empty

LEMMA HeadHasPacket ==
  ASSUME NEW s \in Slot, s.kind = "head"
  PROVE  s.packet \in Packet /\ s = Head(s.packet)
<1>1. s # Empty /\ \A p \in Packet : s # Part(p)
  BY SlotKinds
<1>2. PICK p \in Packet : s = Head(p)
  BY <1>1 DEF Slot
<1> QED
  BY <1>2, SlotKinds

-----------------------------------------------------------------------------
(* The queue under the steps that change it.                               *)

LEMMA ReceiveKeepsQueue ==
  ASSUME QueueInv, NEW p \in Packet, Receive(p)
  PROVE  QueueInv'
<1> DEFINE k == FreePlace(queue)
<1>1. k \in Place /\ queue[k] = Empty /\ filling = 0
  BY FreePlaceIsEmpty DEF Receive
<1>2. filling' = k /\ incoming' = p /\ queue' = [queue EXCEPT ![k] = Head(p)]
  BY DEF Receive, WriteHead
<1>3. QueueType'
  BY <1>1, <1>2 DEF QueueInv, QueueType, Slot
<1>4. \A j \in Place : queue'[j] = IF j = k THEN Head(p) ELSE queue[j]
  BY <1>2 DEF QueueInv, QueueType
<1>5. FillingInv'
  BY <1>1, <1>2, <1>4 DEF FillingInv
<1>6. PayloadWhole'
  <2> SUFFICES ASSUME NEW i \in Place, queue'[i].kind = "head", i # filling',
                      NEW j \in Covered(i, queue'[i].packet)
               PROVE  queue'[j] = Part(queue'[i].packet)
    BY DEF PayloadWhole, Whole
  <2>1. queue'[i] = queue[i] /\ j \in Place
    BY <1>2, <1>4 DEF Covered
  <2>2. i # filling
    BY <1>1, MaxUserAssumption DEF Place
  <2>3. queue[j] = Part(queue[i].packet)
    BY <2>1, <2>2 DEF QueueInv, PayloadWhole, Whole
  <2>4. j # k
    BY <1>1, <2>3, SlotKinds
  <2> QED
    BY <1>4, <2>1, <2>3, <2>4
<1> QED
  BY <1>3, <1>5, <1>6 DEF QueueInv

LEMMA StoredKeepsQueue ==
  ASSUME QueueInv, Stored
  PROVE  QueueInv'
<1>1. filling \in Place /\ queue[filling] \in {Empty, Head(incoming)}
  BY DEF Stored, QueueInv, FillingInv
<1>2. filling' = 0 /\ incoming' = NoOne
  BY DEF Stored
<1>3. \A j \in Place :
        queue'[j] = IF j \in Covered(filling, incoming) THEN Part(incoming) ELSE queue[j]
  BY DEF Stored, WritePayload
<1>4. QueueType'
  <2>1. NoOne \in Packet
    BY DEF Packet, NoOne
  <2>2. queue' = [j \in Place |-> IF j \in Covered(filling, incoming) THEN Part(incoming)
                                  ELSE queue[j]]
    BY DEF Stored, WritePayload
  <2> QED
    BY <1>2, <2>1, <2>2 DEF QueueInv, QueueType, Slot
<1>5. FillingInv'
  BY <1>2 DEF FillingInv
<1>6. PayloadWhole'
  <2> SUFFICES ASSUME NEW i \in Place, queue'[i].kind = "head",
                      NEW j \in Covered(i, queue'[i].packet)
               PROVE  queue'[j] = Part(queue'[i].packet)
    BY DEF PayloadWhole, Whole
  <2>1. i \notin Covered(filling, incoming) /\ queue'[i] = queue[i]
    BY <1>3, SlotKinds
  <2>2. queue[i].packet \in Packet /\ queue[i] = Head(queue[i].packet)
    BY <2>1, HeadHasPacket DEF QueueInv, QueueType
  <2>3. j \in Place /\ i < j /\ j <= i + queue[i].packet.span
    BY <2>1 DEF Covered
  <2>4. incoming.span \in Nat /\ queue[i].packet.span \in Nat
    BY <2>2 DEF QueueInv, QueueType, Packet
  <2>5. CASE i = filling
    <3>1. queue[i].packet = incoming
      BY <1>1, <2>1, <2>5, SlotKinds
    <3>2. j \in Place /\ j \in Covered(filling, incoming)
      BY <2>1, <2>3, <2>5, <3>1 DEF Covered
    <3> QED
      BY <1>3, <2>1, <3>1, <3>2
  <2>6. CASE i # filling
    <3>1. \A m \in Covered(i, queue[i].packet) : queue[m] = Part(queue[i].packet)
      BY <2>1, <2>6 DEF QueueInv, PayloadWhole, Whole
    <3>2. filling \notin Covered(i, queue[i].packet)
      BY <1>1, <3>1, SlotKinds
    <3>3. j \notin Covered(filling, incoming)
      <4>1. i \in Nat /\ j \in Nat /\ filling \in Nat
        BY <1>1, <2>3, MaxUserAssumption DEF Place
      <4>2. CASE i < filling
        BY <1>1, <2>3, <2>4, <3>2, <4>1, <4>2 DEF Covered
      <4>3. CASE filling < i
        BY <2>1, <2>3, <2>4, <4>1, <4>3 DEF Covered
      <4> QED
        BY <2>6, <4>1, <4>2, <4>3
    <3> QED
      BY <1>3, <2>1, <2>3, <3>1, <3>3
  <2> QED
    BY <2>5, <2>6
<1> QED
  BY <1>4, <1>5, <1>6 DEF QueueInv

LEMMA PollKeepsQueue ==
  ASSUME QueueInv, NEW t \in Thread, Poll(t)
  PROVE  QueueInv'
<1> DEFINE k == Find(queue, dev[t])
<1>1. k \in Place /\ queue[k].kind = "head"
  BY FoundIsHead DEF Poll
<1>2. filling' = filling /\ incoming' = incoming /\ queue' = [queue EXCEPT ![k] = Empty]
  BY DEF Poll, Remove
<1>3. \A j \in Place : queue'[j] = IF j = k THEN Empty ELSE queue[j]
  BY <1>2 DEF QueueInv, QueueType
<1>4. QueueType'
  BY <1>2 DEF QueueInv, QueueType, Slot
<1>5. FillingInv'
  BY <1>2, <1>3 DEF QueueInv, FillingInv
<1>6. PayloadWhole'
  <2> SUFFICES ASSUME NEW i \in Place, queue'[i].kind = "head", i # filling,
                      NEW j \in Covered(i, queue'[i].packet)
               PROVE  queue'[j] = Part(queue'[i].packet)
    BY <1>2 DEF PayloadWhole, Whole
  <2>1. queue'[i] = queue[i] /\ j \in Place
    BY <1>3, SlotKinds DEF Covered
  <2>2. queue[j] = Part(queue[i].packet)
    BY <2>1 DEF QueueInv, PayloadWhole, Whole
  <2>3. j # k
    BY <1>1, <2>2, SlotKinds
  <2> QED
    BY <1>3, <2>1, <2>2, <2>3
<1> QED
  BY <1>4, <1>5, <1>6 DEF QueueInv

LEMMA ArrivalsArePackets ==
  ASSUME TypeInv
  PROVE  Answer \cup Update \subseteq Packet
<1>1. \A r \in arrived : r.dev \in Dev /\ r.idx \in Nat
  BY TransportAssumption DEF TypeInv, NumberType, Request
<1> QED
  BY <1>1, TransportAssumption DEF Answer, Update, Packet

-----------------------------------------------------------------------------
(* The threads.                                                            *)

AloneInv ==
  \A t, u \in Thread : alone[t] /\ t \in Inside /\ u \in Inside => u = t

FreshInv ==
  \A t \in Thread :
    pc[t] \in {"out", "spin", "claim", "clear"} => mine[t] = 0 /\ taken[t] = 0

\* A section that is alone has the last number, or is being broken off.
LastInv ==
  \A t \in Thread :
    alone[t] /\ pc[t] \in {"in", "waiting", "pushed"} =>
      /\ mine[t] # 0 => /\ mine[t] = packetIdx
                        /\ sendbuf \in {Scan, [dev |-> dev[t], idx |-> mine[t]]}
      /\ pc[t] = "waiting" /\ mine[t] = 0 => flagBreak = 1

ThreadInv == AloneInv /\ FreshInv /\ LastInv /\ AcceptedIsOwn /\ BreakMeansBegin

TransportInv == TypeInv /\ QueueInv /\ ThreadInv

LEMMA TransportStarts == TransportInit => TransportInv
<1> SUFFICES ASSUME TransportInit PROVE TransportInv
  OBVIOUS
<1> USE DEF TransportInit
<1>1. QueueType
  BY DEF QueueType, NoPackets, Slot, NoOne, Packet
<1>2. BorderType
  BY DEF BorderType, Places
<1>3. NumberType
  BY TransportAssumption DEF NumberType
<1>4. FillingInv
  BY DEF FillingInv
<1>5. PayloadWhole
  BY SlotKinds DEF PayloadWhole, NoPackets
<1>6. ThreadInv
  BY DEF ThreadInv, AloneInv, FreshInv, LastInv, AcceptedIsOwn, BreakMeansBegin, Inside
<1> QED
  BY <1>1, <1>2, <1>3, <1>4, <1>5, <1>6 DEF TransportInv, TypeInv, QueueInv

\* The steps of the border.
LEMMA BorderKeeps ==
  ASSUME TransportInv, NEW t \in Thread,
         Begin(t) \/ Pass(t) \/ Claim(t) \/ Clear(t) \/ End(t)
  PROVE  TypeInv' /\ ThreadInv'
<1> USE DEF TransportInv, TypeInv, BorderType, ThreadInv, queueVars, numberVars
<1>1. QueueType' /\ NumberType'
  BY DEF Begin, Pass, Claim, Clear, End, QueueType, NumberType, Request
<1>2. CASE Begin(t)
  <2> USE <1>2 DEF Begin, Goto
  <2>1. BorderType'
    BY DEF Places
  <2>2. AloneInv'
    BY DEF AloneInv, Inside
  <2>3. FreshInv'
    BY DEF FreshInv
  <2>4. LastInv'
    BY DEF LastInv
  <2>5. AcceptedIsOwn'
    BY DEF AcceptedIsOwn
  <2>6. BreakMeansBegin'
    BY DEF BreakMeansBegin, Beginning
  <2> QED
    BY <1>1, <2>1, <2>2, <2>3, <2>4, <2>5, <2>6
<1>3. CASE Pass(t)
  <2> USE <1>3 DEF Pass, Goto
  <2>1. BorderType'
    BY DEF Places
  <2>2. AloneInv'
    BY DEF AloneInv, Inside
  <2>3. FreshInv'
    BY DEF FreshInv
  <2>4. LastInv'
    BY DEF LastInv
  <2>5. AcceptedIsOwn'
    BY DEF AcceptedIsOwn, FreshInv
  <2>6. BreakMeansBegin'
    BY DEF BreakMeansBegin, Beginning, Running
  <2> QED
    BY <1>1, <2>1, <2>2, <2>3, <2>4, <2>5, <2>6
<1>4. CASE Claim(t)
  <2> USE <1>4 DEF Claim, Goto
  <2>1. BorderType'
    BY DEF Places
  <2>2. AloneInv'
    BY DEF AloneInv, Inside
  <2>3. FreshInv'
    BY DEF FreshInv
  <2>4. LastInv'
    BY DEF LastInv
  <2>5. AcceptedIsOwn'
    BY DEF AcceptedIsOwn
  <2>6. BreakMeansBegin'
    BY DEF BreakMeansBegin, Beginning
  <2> QED
    BY <1>1, <2>1, <2>2, <2>3, <2>4, <2>5, <2>6
<1>5. CASE Clear(t)
  <2> USE <1>5 DEF Clear, Goto
  <2>1. BorderType'
    BY DEF Places
  <2>2. AloneInv'
    BY DEF AloneInv, Inside
  <2>3. FreshInv'
    BY DEF FreshInv
  <2>4. LastInv'
    BY DEF LastInv, AloneInv, FreshInv, Inside
  <2>5. AcceptedIsOwn'
    BY DEF AcceptedIsOwn
  <2>6. BreakMeansBegin'
    BY DEF BreakMeansBegin
  <2> QED
    BY <1>1, <2>1, <2>2, <2>3, <2>4, <2>5, <2>6
<1>6. CASE End(t)
  <2> USE <1>6 DEF End, Goto
  <2>1. BorderType' /\ NumberType'
    BY DEF Places, NumberType, Request
  <2>2. AloneInv'
    BY DEF AloneInv, Inside
  <2>3. FreshInv'
    BY DEF FreshInv, NumberType
  <2>4. LastInv'
    BY DEF LastInv, NumberType
  <2>5. AcceptedIsOwn'
    BY DEF AcceptedIsOwn, NumberType
  <2>6. BreakMeansBegin'
    BY DEF BreakMeansBegin, Beginning, Running
  <2> QED
    BY <1>1, <2>1, <2>2, <2>3, <2>4, <2>5, <2>6
<1> QED
  BY <1>2, <1>3, <1>4, <1>5, <1>6

\* Sending counts packet_idx up: no other section is alone then.
LEMMA SendKeeps ==
  ASSUME TransportInv, NEW t \in Thread, Send(t)
  PROVE  TypeInv' /\ ThreadInv'
<1> USE DEF TransportInv, TypeInv, BorderType, ThreadInv, Send, Goto, borderVars, queueVars
<1>1. packetIdx' = packetIdx + 1 /\ packetIdx \in Nat /\ packetIdx' \in 1 .. MaxIdx
  BY TransportAssumption DEF NumberType
<1>2. sendbuf' = [dev |-> dev[t], idx |-> packetIdx'] /\ sendbuf' \in Request'
  BY <1>1 DEF Build, Request
<1>3. Request \subseteq Request'
  BY <1>1 DEF Request
<1>4. arrived' \subseteq Request'
  BY <1>2, <1>3 DEF NumberType, Transmit
<1>5. NumberType'
  BY <1>1, <1>2, <1>4 DEF NumberType
<1>6. QueueType' /\ BorderType'
  BY DEF QueueType, Places
<1>7. \A u \in Thread : (u \in Inside)' <=> u \in Inside
  BY DEF Inside
<1>8. AloneInv'
  BY <1>7 DEF AloneInv
<1>9. FreshInv'
  BY DEF FreshInv, NumberType
<1>10. LastInv'
  <2> SUFFICES ASSUME NEW u \in Thread, alone[u], pc'[u] \in {"in", "waiting", "pushed"}
               PROVE  /\ mine'[u] = packetIdx'
                      /\ sendbuf' = [dev |-> dev'[u], idx |-> mine'[u]]
                      /\ mine'[u] # 0
    BY DEF LastInv
  <2>1. u = t
    BY <1>7 DEF AloneInv, Inside
  <2> QED
    BY <1>1, <1>2, <2>1 DEF NumberType
<1>11. AcceptedIsOwn'
  BY DEF AcceptedIsOwn, NumberType
<1>12. BreakMeansBegin'
  BY DEF BreakMeansBegin
<1> QED
  BY <1>5, <1>6, <1>8, <1>9, <1>10, <1>11, <1>12

\* What else a thread does besides reading the queue leaves packet_idx alone.
LEMMA OtherwiseKeeps ==
  ASSUME TransportInv, NEW t \in Thread,
         Refused(t) \/ Probe(t) \/ Resend(t) \/ Broken(t) \/ GiveUp(t) \/ AwaitPush(t)
  PROVE  TypeInv' /\ ThreadInv'
<1> USE DEF TransportInv, TypeInv, BorderType, ThreadInv, borderVars, queueVars, numberVars,
            threadVars
<1>1. QueueType'
  BY DEF Refused, Probe, Resend, Broken, GiveUp, AwaitPush, QueueType
<1>2. CASE Refused(t)
  <2> USE <1>2 DEF Refused, Goto
  <2>1. BorderType' /\ NumberType'
    BY DEF Places, NumberType, Request
  <2>2. AloneInv'
    BY DEF AloneInv, Inside
  <2>3. FreshInv' /\ LastInv' /\ AcceptedIsOwn'
    BY DEF FreshInv, LastInv, AcceptedIsOwn, NumberType
  <2>4. BreakMeansBegin'
    BY DEF BreakMeansBegin, Beginning, Running
  <2> QED
    BY <1>1, <2>1, <2>2, <2>3, <2>4
<1>3. CASE Probe(t)
  <2> USE <1>3 DEF Probe
  <2>1. BorderType' /\ NumberType'
    BY DEF NumberType, Request
  <2>2. AloneInv' /\ FreshInv' /\ LastInv' /\ AcceptedIsOwn'
    BY DEF AloneInv, Inside, FreshInv, LastInv, AcceptedIsOwn
  <2>3. BreakMeansBegin'
    BY DEF BreakMeansBegin, Beginning, Running
  <2> QED
    BY <1>1, <2>1, <2>2, <2>3
<1>4. CASE Resend(t)
  <2> USE <1>4 DEF Resend
  <2>1. arrived' \subseteq Request
    BY DEF Transmit, NumberType
  <2>2. BorderType' /\ NumberType'
    BY <2>1 DEF NumberType, Request
  <2>3. AloneInv' /\ FreshInv' /\ LastInv' /\ AcceptedIsOwn'
    BY DEF AloneInv, Inside, FreshInv, LastInv, AcceptedIsOwn
  <2>4. BreakMeansBegin'
    BY DEF BreakMeansBegin
  <2> QED
    BY <1>1, <2>2, <2>3, <2>4
<1>5. CASE Broken(t) \/ GiveUp(t) \/ AwaitPush(t)
  <2>1. \E place \in {"in", "pushed"} : pc' = [pc EXCEPT ![t] = place]
    BY <1>5 DEF Broken, GiveUp, AwaitPush, Goto
  <2>2. pc[t] \in {"in", "waiting", "pushed"}
    BY <1>5 DEF Broken, GiveUp, AwaitPush
  <2>3. UNCHANGED <<borderVars, queueVars, numberVars, dev, mine, taken>>
    BY <1>5 DEF Broken, GiveUp, AwaitPush
  <2>4. BorderType' /\ NumberType'
    BY <2>1, <2>3 DEF Places, NumberType, Request
  <2>5. AloneInv'
    BY <2>1, <2>2, <2>3 DEF AloneInv, Inside
  <2>6. FreshInv' /\ LastInv' /\ AcceptedIsOwn'
    BY <2>1, <2>2, <2>3 DEF FreshInv, LastInv, AcceptedIsOwn
  <2>7. BreakMeansBegin'
    BY <2>1, <2>2, <2>3 DEF BreakMeansBegin, Beginning, Running
  <2> QED
    BY <1>1, <2>4, <2>5, <2>6, <2>7
<1> QED
  BY <1>2, <1>3, <1>4, <1>5

\* What a wait accepts has the number packet_idx, which is its own or, if it was
\* refused, belongs to nobody that would wait for it.
LEMMA PollKeeps ==
  ASSUME TransportInv, NEW t \in Thread, Discard(t) \/ Take(t)
  PROVE  TypeInv' /\ ThreadInv'
<1> USE DEF TransportInv, TypeInv, BorderType, ThreadInv, borderVars
<1> DEFINE i == Find(queue, dev[t])
<1>1. Poll(t)
  BY DEF Discard, Take
<1>2. QueueType'
  BY <1>1, PollKeepsQueue DEF QueueInv
<1>3. queue[i].packet.idx \in Nat
  <2>1. i \in Place /\ queue[i].kind = "head"
    BY <1>1, FoundIsHead DEF Poll
  <2> QED
    BY <2>1, HeadHasPacket DEF QueueType, Packet
<1>4. CASE Discard(t)
  <2>1. pc' = pc /\ taken' = taken /\ observerIdx' \in Nat
    BY <1>3, <1>4 DEF Discard, NumberType
  <2>2. BorderType' /\ NumberType'
    BY <1>1, <2>1 DEF Poll, NumberType, Request
  <2>3. AloneInv' /\ FreshInv' /\ LastInv' /\ AcceptedIsOwn'
    BY <1>1, <2>1 DEF Poll, AloneInv, Inside, FreshInv, LastInv, AcceptedIsOwn
  <2>4. BreakMeansBegin'
    BY <1>1, <2>1 DEF Poll, BreakMeansBegin
  <2> QED
    BY <1>2, <2>2, <2>3, <2>4
<1>5. CASE Take(t)
  <2>1. pc[t] \in {"waiting", "pushed"} /\ pc' = [pc EXCEPT ![t] = "in"]
    BY <1>5 DEF Take, Goto
  <2>2. \/ taken' = taken
        \/ pc[t] = "waiting" /\ taken' = [taken EXCEPT ![t] = packetIdx]
    BY <1>5 DEF Take, Fits
  <2>3. observerIdx' \in Nat
    BY <1>3, <1>5 DEF Take, NumberType
  <2>4. UNCHANGED <<borderVars, packetIdx, sendbuf, arrived, dev, mine>> /\ flagBreak = 0
    BY <1>1 DEF Poll
  <2>5. BorderType' /\ NumberType'
    BY <2>1, <2>2, <2>3, <2>4 DEF Places, NumberType, Request
  <2>6. AloneInv'
    BY <2>1, <2>4 DEF AloneInv, Inside
  <2>7. FreshInv' /\ LastInv'
    BY <2>1, <2>2, <2>4 DEF FreshInv, LastInv, NumberType
  <2>8. AcceptedIsOwn'
    BY <2>1, <2>2, <2>4 DEF AcceptedIsOwn, LastInv, NumberType
  <2>9. BreakMeansBegin'
    BY <2>4 DEF BreakMeansBegin
  <2> QED
    BY <1>2, <2>5, <2>6, <2>7, <2>8, <2>9
<1> QED
  BY <1>4, <1>5

\* The receive thread leaves the threads alone, or ends them all.
LEMMA ReceiveThreadKeeps ==
  ASSUME TransportInv, (\E p \in Answer \cup Update : Receive(p)) \/ Stored \/ Overrun
  PROVE  TransportInv'
<1> USE DEF TransportInv, TypeInv, ThreadInv, borderVars, queueVars, numberVars, threadVars
<1>1. CASE (\E p \in Answer \cup Update : Receive(p)) \/ Stored
  <2>1. QueueInv'
    BY <1>1, ReceiveKeepsQueue, StoredKeepsQueue, ArrivalsArePackets
  <2>2. UNCHANGED <<borderVars, numberVars, threadVars>>
    BY <1>1 DEF Receive, Stored
  <2>3. BorderType' /\ NumberType'
    BY <2>2 DEF BorderType, NumberType, Request
  <2>4. AloneInv' /\ FreshInv' /\ LastInv' /\ AcceptedIsOwn' /\ BreakMeansBegin'
    BY <2>2 DEF AloneInv, Inside, FreshInv, LastInv, AcceptedIsOwn, BreakMeansBegin,
                Beginning, Running
  <2> QED
    BY <2>1, <2>3, <2>4 DEF QueueInv
<1>2. CASE Overrun
  <2>1. pc' = [t \in Thread |-> "dead"] /\ Running
    BY <1>2 DEF Overrun
  <2>2. UNCHANGED <<borderVars, queueVars, numberVars, dev, mine, taken>>
    BY <1>2 DEF Overrun
  <2>3. QueueInv'
    BY <2>2 DEF QueueInv, QueueType, FillingInv, PayloadWhole, Whole
  <2>4. BorderType' /\ NumberType'
    BY <2>1, <2>2 DEF BorderType, Places, NumberType, Request
  <2>5. AloneInv' /\ FreshInv' /\ LastInv' /\ AcceptedIsOwn'
    BY <2>1, <2>2 DEF AloneInv, Inside, FreshInv, LastInv, AcceptedIsOwn
  <2>6. BreakMeansBegin'
    BY <2>1, <2>2 DEF BreakMeansBegin, Running, Beginning, BorderType
  <2> QED
    BY <2>3, <2>4, <2>5, <2>6 DEF QueueInv
<1> QED
  BY <1>1, <1>2

LEMMA TransportStep == TransportInv /\ [TransportNext]_transportVars => TransportInv'
<1> SUFFICES ASSUME TransportInv, [TransportNext]_transportVars
             PROVE  TransportInv'
  OBVIOUS
<1>1. ASSUME NEW t \in Thread, UNCHANGED queueVars
      PROVE  QueueInv'
  BY <1>1 DEF TransportInv, QueueInv, QueueType, FillingInv, PayloadWhole, Whole, queueVars
<1>2. ASSUME NEW t \in Thread,
             Begin(t) \/ Pass(t) \/ Claim(t) \/ Clear(t) \/ End(t)
      PROVE  TransportInv'
  BY <1>1, <1>2, BorderKeeps DEF TransportInv, Begin, Pass, Claim, Clear, End
<1>3. ASSUME NEW t \in Thread, Send(t)
      PROVE  TransportInv'
  BY <1>1, <1>3, SendKeeps DEF TransportInv, Send
<1>4. ASSUME NEW t \in Thread,
             Refused(t) \/ Probe(t) \/ Resend(t) \/ Broken(t) \/ GiveUp(t) \/ AwaitPush(t)
      PROVE  TransportInv'
  BY <1>1, <1>4, OtherwiseKeeps
     DEF TransportInv, Refused, Probe, Resend, Broken, GiveUp, AwaitPush
<1>5. ASSUME NEW t \in Thread, Discard(t) \/ Take(t)
      PROVE  TransportInv'
  BY <1>5, PollKeeps, PollKeepsQueue DEF TransportInv, Discard, Take
<1>6. CASE UNCHANGED transportVars
  <2>1. UNCHANGED <<borderVars, queueVars, numberVars, threadVars>>
    BY <1>6 DEF transportVars
  <2>2. TypeInv'
    BY <2>1 DEF TransportInv, TypeInv, QueueType, BorderType, NumberType, Request,
                borderVars, queueVars, numberVars, threadVars
  <2>3. QueueInv'
    BY <2>1, <2>2 DEF TransportInv, TypeInv, QueueInv, FillingInv, PayloadWhole, Whole, queueVars
  <2>4. AloneInv' /\ FreshInv' /\ LastInv' /\ AcceptedIsOwn' /\ BreakMeansBegin'
    BY <2>1 DEF TransportInv, ThreadInv, AloneInv, Inside, FreshInv, LastInv, AcceptedIsOwn,
                BreakMeansBegin, Beginning, Running, borderVars, numberVars, threadVars
  <2> QED
    BY <2>2, <2>3, <2>4 DEF TransportInv, ThreadInv
<1> QED
  BY <1>2, <1>3, <1>4, <1>5, <1>6, ReceiveThreadKeeps DEF TransportNext

-----------------------------------------------------------------------------
(* The theorems.                                                           *)

LEMMA TransportIsSafe == TransportSpec => []TransportInv
BY TransportStarts, TransportStep, PTL DEF TransportSpec

LEMMA TypesFollow == TransportInv => TransportTypeOK
<1> SUFFICES ASSUME TransportInv PROVE TransportTypeOK
  OBVIOUS
<1> USE DEF TransportInv, TypeInv
<1>1. \A i \in Place : queue[i] \in {Empty} \cup {Head(p) : p \in Packets}
                                     \cup {Part(p) : p \in Packets}
  <2> SUFFICES ASSUME NEW i \in Place, queue[i] # Empty
               PROVE  queue[i] \in {Head(p) : p \in Packets} \cup {Part(p) : p \in Packets}
    OBVIOUS
  <2>1. queue[i].packet \in Packets
    BY DEF Packets
  <2>2. queue[i] = Head(queue[i].packet) \/ queue[i] = Part(queue[i].packet)
    <3>1. PICK p \in Packet : queue[i] = Head(p) \/ queue[i] = Part(p)
      BY DEF QueueType, Slot
    <3> QED
      BY <3>1 DEF Head, Part
  <2> QED
    BY <2>1, <2>2
<1>2. \A p \in Packets : p \in Packet
  <2>1. \A i \in Place : queue[i] # Empty => queue[i].packet \in Packet
    <3> SUFFICES ASSUME NEW i \in Place, queue[i] # Empty
                 PROVE  queue[i].packet \in Packet
      OBVIOUS
    <3>1. PICK p \in Packet : queue[i] = Head(p) \/ queue[i] = Part(p)
      BY DEF QueueType, Slot
    <3> QED
      BY <3>1 DEF Head, Part
  <2> QED
    BY <2>1 DEF Packets, QueueType
<1>3. \A p \in Packets : /\ p.src \in Dev \cup {NoOne.src}
                         /\ p.idx \in Nat /\ p.span \in Nat
  BY <1>2 DEF Packet
<1>4. filling \in 0 .. MaxUser
  BY MaxUserAssumption DEF QueueInv, FillingInv, Place
<1>5. queue \in [Place -> {Empty} \cup {Head(p) : p \in Packets} \cup {Part(p) : p \in Packets}]
  BY <1>1 DEF QueueType
<1>6. \A r \in arrived : r.dev \in Dev /\ r.idx \in 1 .. packetIdx
  BY DEF NumberType, Request
<1> QED
  BY <1>3, <1>4, <1>5, <1>6 DEF TransportTypeOK, BorderType, NumberType, Places

\* The types of the transport, for every number of threads, devices and places.
THEOREM TransportTypes == TransportSpec => []TransportTypeOK
BY TransportIsSafe, TypesFollow, PTL

\* However long packets are and however few places there are, a payload in the queue
\* is that of the header before it: copies over other places destroy but do not mix.
\* (packetrecv_add, packetrecv_remove)
THEOREM PayloadsAreWhole == TransportSpec => []PayloadWhole
<1>1. TransportInv => PayloadWhole
  BY DEF TransportInv, QueueInv
<1> QED
  BY <1>1, TransportIsSafe, PTL

\* Waits are broken off only while somebody is in up2pa_border_begin.
THEOREM BreaksAreMeant == TransportSpec => []BreakMeansBegin
<1>1. TransportInv => BreakMeansBegin
  BY DEF TransportInv, ThreadInv
<1> QED
  BY <1>1, TransportIsSafe, PTL

\* A section that nobody else was in accepts only the answer to its own last request,
\* whatever is received.  (up2pa_recv_cmd)
THEOREM AloneAcceptsItsOwn == TransportSpec => []AcceptedIsOwn
<1>1. TransportInv => AcceptedIsOwn
  BY DEF TransportInv, ThreadInv
<1> QED
  BY <1>1, TransportIsSafe, PTL

\* And its wait sends no other request again, whatever scans other threads make.
\* (common_wait_cmd)
THEOREM AloneResendsItsOwn == TransportSpec => []ResendsOwn
<1>1. TransportInv => ResendsOwn
  BY DEF TransportInv, ThreadInv, LastInv, ResendsOwn
<1> QED
  BY <1>1, TransportIsSafe, PTL
=============================================================================
