--------------------------- MODULE Gateway_proofs ---------------------------
(***************************************************************************)
(* The REST gateway, for any number of HTTP threads and requests.          *)
(*                                                                         *)
(* A control draws an id nobody else has, and numbers its requests: what   *)
(* is in the list under its id is of its earlier requests, or the node it  *)
(* waits in.  A package that is empty is one the receiving thread is about *)
(* to fill, and it chose it for the id.                                    *)
(***************************************************************************)
EXTENDS Gateway, FiniteSetTheorems, TLAPS

Package == [dst : Nat, idx : Nat, token : Nat]

HandlerType ==
  /\ idCount \in 0 .. MaxControl
  /\ hpc \in [Handler -> {"idle", "add", "append", "wait", "take"}]
  /\ link \in [Handler -> 0 .. idCount] /\ stage \in [Handler -> 0 .. LastIdx]
  /\ token = [h \in Handler |-> 0]

PacketType ==
  /\ package \in [Handler -> Package]
  /\ devToken \in 0 .. MaxToken
  /\ reqs \subseteq [src : Nat \ {0}, idx : Nat, token : Nat, since : Nat]
  /\ \A h \in Handler : package[h] \in Answers \cup Unread
  /\ packet \in Answers \cup {Nothing}

ListType ==
  /\ nodes \in Seq(Nat \X Nat)
  /\ lock \in {"free", "recv", "lost"} /\ rpc \in {"idle", "head", "copy", "crashed"}

\* Ids are different, and requests counted.
LinkInv ==
  /\ \A h \in Handler : hpc[h] # "idle" => link[h] # 0 /\ stage[h] # 0
  /\ \A g, h \in Handler : g # h /\ hpc[g] # "idle" /\ hpc[h] # "idle" => link[g] # link[h]

Index == 1 .. Len(nodes)

\* What there is in the list under the id of a control.
NodeInv ==
  /\ \A i \in Index : nodes[i][1] <= idCount
  /\ \A i, j \in Index : i # j => nodes[i] # nodes[j]
  /\ \A h \in Handler, i \in Index :
       hpc[h] # "idle" /\ nodes[i][1] = link[h]
         => nodes[i][2] < stage[h] \/ (Waiting(h) /\ nodes[i] = Node(h))
  /\ \A h \in Handler : Waiting(h) => \E i \in Index : nodes[i] = Node(h)

\* Those who were let pass.
Admitted == {h \in Handler : hpc[h] = "append"}

CountInv == Len(nodes) + Cardinality(Admitted) <= ElMax + Cardinality(Handler)

PackageInv ==
  /\ rpc \in {"head", "copy"} => packet # Nothing
  /\ \A h \in Handler : package[h] # Nothing => Waiting(h)
  /\ \A h \in Handler :
       package[h] \in {Blank, Wiped} => rpc = "copy" /\ link[h] = packet.dst
  /\ DataIsOwn

TypeInv == HandlerType /\ PacketType /\ ListType

GatewayInv == TypeInv /\ LinkInv /\ NodeInv /\ CountInv /\ PackageInv

-----------------------------------------------------------------------------
(* Packages.                                                               *)

LEMMA AnswersAre ==
  \A a : a \in Answers <=> \E p \in reqs : \E t \in p.since .. devToken :
                              a = [dst |-> p.src, idx |-> p.idx, token |-> t]
BY DEF Answers

\* An answer is for a link, and none of the empty packages.
LEMMA AnswersAreRead ==
  ASSUME PacketType, NEW a \in Answers
  PROVE  a \in Package /\ a \notin Unread
<1>0. PICK p \in reqs : \E t \in p.since .. devToken :
        a = [dst |-> p.src, idx |-> p.idx, token |-> t]
  BY AnswersAre
<1>1. PICK t \in p.since .. devToken : a = [dst |-> p.src, idx |-> p.idx, token |-> t]
  BY <1>0
<1>2. p.src \in Nat \ {0} /\ p.idx \in Nat /\ p.since \in Nat
  BY DEF PacketType
<1>3. t \in Nat
  BY <1>2, GatewayAssumption DEF PacketType
<1>4. a.dst # 0 /\ a \in Package
  BY <1>1, <1>2, <1>3 DEF Package
<1>5. \A b \in Unread : b.dst = 0
  BY DEF Unread, Nothing, Blank, Wiped
<1> QED
  BY <1>4, <1>5

LEMMA EmptyPackages ==
  /\ Nothing \in Package /\ Blank \in Package /\ Wiped \in Package
  /\ Nothing # Blank /\ Nothing # Wiped
BY DEF Package, Nothing, Blank, Wiped

\* What may be answered once may be answered ever after.
LEMMA AnswersGrow ==
  ASSUME PacketType, reqs \subseteq reqs', devToken' \in Nat, devToken <= devToken'
  PROVE  Answers \subseteq Answers'
<1> SUFFICES ASSUME NEW a \in Answers PROVE a \in Answers'
  OBVIOUS
<1>0. PICK p \in reqs : \E t \in p.since .. devToken :
        a = [dst |-> p.src, idx |-> p.idx, token |-> t]
  BY AnswersAre
<1>1. PICK t \in p.since .. devToken : a = [dst |-> p.src, idx |-> p.idx, token |-> t]
  BY <1>0
<1>2. p \in reqs' /\ p.since \in Nat
  BY DEF PacketType
<1>3. t \in p.since .. devToken'
  BY <1>2, GatewayAssumption DEF PacketType
<1> QED
  BY <1>1, <1>2, <1>3 DEF Answers

\* The types of packages when nothing becomes of them but what they may be.
LEMMA PacketsStay ==
  ASSUME PacketType, reqs' = reqs, devToken' = devToken,
         packet' \in Answers \cup {Nothing},
         package' \in [Handler -> Package],
         \A h \in Handler : package'[h] \in Answers \cup Unread
  PROVE  PacketType'
<1>1. Answers' = Answers
  BY DEF Answers
<1> QED
  BY <1>1 DEF PacketType

-----------------------------------------------------------------------------
(* The list.                                                               *)

\* LL_DELETE takes one node out and keeps the others in their order.
LEMMA WithoutDeletes ==
  ASSUME ListType, NodeInv, NEW h \in Handler, Waiting(h)
  PROVE  /\ Without(h) \in Seq(Nat \X Nat) /\ Len(Without(h)) = Len(nodes) - 1
         /\ \A k \in 1 .. Len(Without(h)) :
              \E i \in Index : nodes[i] # Node(h) /\ Without(h)[k] = nodes[i]
         /\ \A k, l \in 1 .. Len(Without(h)) : k # l => Without(h)[k] # Without(h)[l]
         /\ \A i \in Index : nodes[i] # Node(h) =>
              \E k \in 1 .. Len(Without(h)) : Without(h)[k] = nodes[i]
<1> DEFINE d == CHOOSE k \in 1 .. Len(nodes) : nodes[k] = Node(h)
           W == [k \in 1 .. Len(nodes) - 1 |-> IF k < d THEN nodes[k] ELSE nodes[k + 1]]
<1>1. Len(nodes) \in Nat /\ \A i \in Index : nodes[i] \in Nat \X Nat
  BY DEF ListType, Index
<1>2. d \in Index /\ nodes[d] = Node(h)
  BY DEF NodeInv, Index
<1>3. Len(nodes) - 1 \in Nat /\ d \in Int /\ 1 <= d /\ d <= Len(nodes)
  BY <1>1, <1>2 DEF Index
<1>4. Without(h) = W
  BY DEF Without
<1> HIDE DEF d
<1>5. W \in Seq(Nat \X Nat) /\ Len(W) = Len(nodes) - 1
  <2>1. \A k \in 1 .. Len(nodes) - 1 : k \in Index /\ k + 1 \in Index
    BY <1>1 DEF Index
  <2> QED
    BY <1>1, <1>3, <2>1
<1>6. \A i, j \in Index : i # j => nodes[i] # nodes[j]
  BY DEF NodeInv
<1>7. \A k \in 1 .. Len(W) : \E i \in Index : /\ W[k] = nodes[i] /\ nodes[i] # Node(h)
                                              /\ i = IF k < d THEN k ELSE k + 1
  <2> SUFFICES ASSUME NEW k \in 1 .. Len(W)
               PROVE  \E i \in Index : /\ W[k] = nodes[i] /\ nodes[i] # Node(h)
                                       /\ i = IF k < d THEN k ELSE k + 1
    OBVIOUS
  <2>0. k \in 1 .. Len(nodes) - 1
    BY <1>5
  <2>1. k \in Index /\ k + 1 \in Index
    BY <1>1, <2>0 DEF Index
  <2>2. k < d => k # d
    BY <2>0, <1>3
  <2>3. ~(k < d) => k + 1 # d
    BY <2>0, <1>3
  <2> QED
    BY <1>2, <1>6, <2>0, <2>1, <2>2, <2>3
<1>8. \A k, l \in 1 .. Len(W) : k # l => W[k] # W[l]
  <2> SUFFICES ASSUME NEW k \in 1 .. Len(W), NEW l \in 1 .. Len(W), k # l
               PROVE  W[k] # W[l]
    OBVIOUS
  <2>1. PICK i \in Index : W[k] = nodes[i] /\ i = IF k < d THEN k ELSE k + 1
    BY <1>7
  <2>2. PICK j \in Index : W[l] = nodes[j] /\ j = IF l < d THEN l ELSE l + 1
    BY <1>7
  <2>3. i # j
    BY <1>3, <1>5, <2>1, <2>2
  <2> QED
    BY <1>6, <2>1, <2>2, <2>3
<1>9. \A i \in Index : nodes[i] # Node(h) => \E k \in 1 .. Len(W) : W[k] = nodes[i]
  <2> SUFFICES ASSUME NEW i \in Index, nodes[i] # Node(h)
               PROVE  \E k \in 1 .. Len(W) : W[k] = nodes[i]
    OBVIOUS
  <2>1. i # d /\ i \in Int /\ 1 <= i /\ i <= Len(nodes)
    BY <1>1, <1>2 DEF Index
  <2>2. CASE i < d
    <3>1. i \in 1 .. Len(W) /\ i \in 1 .. Len(nodes) - 1
      BY <1>1, <1>3, <1>5, <2>1, <2>2
    <3> QED
      BY <2>2, <3>1
  <2>3. CASE d < i
    <3>1. i - 1 \in 1 .. Len(W) /\ i - 1 \in 1 .. Len(nodes) - 1 /\ ~(i - 1 < d)
          /\ (i - 1) + 1 = i
      BY <1>1, <1>3, <1>5, <2>1, <2>3
    <3> QED
      BY <3>1
  <2> QED
    BY <1>3, <2>1, <2>2, <2>3
<1> HIDE DEF W
<1> QED
  BY <1>4, <1>5, <1>7, <1>8, <1>9

\* A list in which at most the node of a request is missing.
Shrunk(h) ==
  /\ nodes' \in Seq(Nat \X Nat) /\ Len(nodes') <= Len(nodes)
  /\ \A k \in 1 .. Len(nodes') : \E i \in Index : nodes'[k] = nodes[i]
  /\ \A k, l \in 1 .. Len(nodes') : k # l => nodes'[k] # nodes'[l]
  /\ \A i \in Index : nodes[i] # Node(h) => \E k \in 1 .. Len(nodes') : nodes'[k] = nodes[i]

LEMMA SameIsShrunk ==
  ASSUME ListType, NodeInv, NEW h \in Handler, nodes' = nodes
  PROVE  Shrunk(h)
<1>1. Len(nodes) \in Nat
  BY DEF ListType
<1> QED
  BY <1>1 DEF Shrunk, ListType, NodeInv, Index

LEMMA WithoutIsShrunk ==
  ASSUME ListType, NodeInv, NEW h \in Handler, Waiting(h), nodes' = Without(h)
  PROVE  Shrunk(h)
<1>1. Len(nodes) \in Nat
  BY DEF ListType
<1> QED
  BY <1>1, WithoutDeletes DEF Shrunk

-----------------------------------------------------------------------------
(* The end of a request.                                                   *)

\* What Return makes of a control: it is over, or its next request begins.
Returned(h) ==
  /\ package' = [package EXCEPT ![h] = Nothing]
  /\ token' = [g \in Handler |-> 0]
  /\ \E place \in {"idle", "add"}, n \in 0 .. LastIdx, l \in {link[h], 0} :
       /\ hpc' = [hpc EXCEPT ![h] = place]
       /\ stage' = [stage EXCEPT ![h] = n]
       /\ link' = [link EXCEPT ![h] = l]
       /\ place = "add" => l = link[h] /\ n = stage[h] + 1

LEMMA ReturnIs ==
  ASSUME HandlerType, NEW h \in Handler, NEW ends \in BOOLEAN, NEW got,
         got = Nothing \/ got.token = 0,
         ends \/ stage[h] # LastIdx,
         hpc' = [hpc EXCEPT ![h] = IF ends THEN "idle" ELSE "add"],
         stage' = [stage EXCEPT ![h] = IF ends THEN 0 ELSE stage[h] + 1],
         link' = [link EXCEPT ![h] = IF ends THEN 0 ELSE link[h]],
         token' = [token EXCEPT ![h] = IF ends THEN 0 ELSE IF got = Nothing THEN token[h]
                                       ELSE got.token],
         package' = [package EXCEPT ![h] = Nothing]
  PROVE  Returned(h)
<1>1. LastIdx \in Nat /\ stage[h] \in 0 .. LastIdx
  BY GatewayAssumption DEF HandlerType
<1>2. token' = [g \in Handler |-> 0]
  BY DEF HandlerType
<1>3. CASE ends
  <2>1. /\ hpc' = [hpc EXCEPT ![h] = "idle"] /\ stage' = [stage EXCEPT ![h] = 0]
        /\ link' = [link EXCEPT ![h] = 0]
    BY <1>3
  <2>2. 0 \in 0 .. LastIdx /\ "idle" # "add" /\ 0 \in {link[h], 0}
    BY <1>1
  <2> QED
    BY <1>2, <2>1, <2>2 DEF Returned
<1>4. CASE ~ends
  <2>1. stage[h] + 1 \in 0 .. LastIdx
    BY <1>1, <1>4
  <2> QED
    BY <1>2, <1>4, <2>1 DEF Returned
<1> QED
  BY <1>3, <1>4

LEMMA ReturnKeeps ==
  ASSUME GatewayInv, NEW h \in Handler,
         hpc[h] \in {"add", "wait", "take"},
         Returned(h), Shrunk(h),
         UNCHANGED <<idCount, reqs, lock, rpc, packet, head, devToken>>
  PROVE  GatewayInv'
<1> USE DEF GatewayInv, TypeInv
<1>1. idCount \in Nat /\ LastIdx \in Nat \ {0, 1} /\ stage[h] \in 0 .. LastIdx
      /\ stage[h] # 0 /\ Len(nodes) \in Nat /\ link[h] # 0
  BY GatewayAssumption DEF HandlerType, ListType, LinkInv
<1>2. PICK place \in {"idle", "add"}, n \in 0 .. LastIdx, l \in {link[h], 0} :
        /\ hpc' = [hpc EXCEPT ![h] = place]
        /\ stage' = [stage EXCEPT ![h] = n]
        /\ link' = [link EXCEPT ![h] = l]
        /\ place = "add" => l = link[h] /\ n = stage[h] + 1
  BY DEF Returned
<1>3. /\ hpc'[h] = place /\ stage'[h] = n /\ link'[h] = l
      /\ \A g \in Handler : g # h => hpc'[g] = hpc[g] /\ stage'[g] = stage[g] /\ link'[g] = link[g]
  BY <1>2 DEF HandlerType
<1>4. package' = [package EXCEPT ![h] = Nothing]
  BY DEF Returned
<1>5. package'[h] = Nothing /\ \A g \in Handler : g # h => package'[g] = package[g]
  BY <1>4 DEF PacketType
<1>6. HandlerType'
  <2>1. token' = [g \in Handler |-> 0]
    BY DEF Returned
  <2>2. l \in 0 .. idCount
    BY <1>1, <1>2 DEF HandlerType
  <2> QED
    BY <1>1, <1>2, <2>1, <2>2 DEF HandlerType
<1>7. PacketType'
  <2>1. package' \in [Handler -> Package]
    BY <1>4, EmptyPackages DEF PacketType
  <2>2. \A g \in Handler : package'[g] \in Answers \cup Unread
    BY <1>5 DEF PacketType, Unread
  <2> QED
    BY <2>1, <2>2, PacketsStay DEF PacketType
<1>8. ListType'
  BY DEF Shrunk, ListType
<1>9. LinkInv'
  BY <1>1, <1>2, <1>3 DEF LinkInv
<1>10. NodeInv'
  <2>1. \A k \in Index' : \E i \in Index : nodes'[k] = nodes[i]
    BY DEF Shrunk, Index
  <2>2. \A k \in Index' : nodes'[k][1] <= idCount'
    BY <2>1 DEF NodeInv
  <2>3. \A k, j \in Index' : k # j => nodes'[k] # nodes'[j]
    BY DEF Shrunk, Index
  <2>4. ASSUME NEW g \in Handler, NEW k \in Index', hpc'[g] # "idle", nodes'[k][1] = link'[g]
        PROVE  nodes'[k][2] < stage'[g] \/ (Waiting(g)' /\ nodes'[k] = Node(g)')
    <3>1. PICK i \in Index : nodes'[k] = nodes[i]
      BY <2>1
    <3>2. CASE g # h
      BY <1>3, <2>4, <3>1, <3>2 DEF NodeInv, Waiting, Node
    <3>3. CASE g = h
      <4>1. place = "add" /\ n = stage[h] + 1 /\ nodes[i][1] = link[h]
        BY <1>2, <1>3, <2>4, <3>1, <3>3
      <4>2. nodes[i][2] < stage[h] \/ nodes[i] = Node(h)
        BY <4>1 DEF NodeInv
      <4>3. nodes[i] \in Nat \X Nat
        BY DEF ListType, Index
      <4>4. nodes[i][2] <= stage[h]
        BY <1>1, <4>2, <4>3 DEF Node
      <4> QED
        BY <1>1, <1>3, <3>1, <3>3, <4>1, <4>3, <4>4
    <3> QED
      BY <3>2, <3>3
  <2>5. ASSUME NEW g \in Handler, Waiting(g)'
        PROVE  \E k \in Index' : nodes'[k] = Node(g)'
    <3>1. g # h /\ Waiting(g) /\ Node(g)' = Node(g)
      BY <1>2, <1>3, <2>5 DEF Waiting, Node
    <3>2. Node(g) # Node(h)
      BY <3>1 DEF LinkInv, Node, Waiting
    <3>3. PICK i \in Index : nodes[i] = Node(g)
      BY <3>1 DEF NodeInv
    <3> QED
      BY <3>1, <3>2, <3>3 DEF Shrunk, Index
  <2> QED
    BY <2>2, <2>3, <2>4, <2>5 DEF NodeInv
<1>11. CountInv'
  <2>1. Admitted' = Admitted
    BY <1>2, <1>3 DEF Admitted
  <2>2. IsFiniteSet(Admitted) /\ Cardinality(Admitted) \in Nat /\ Cardinality(Handler) \in Nat
    BY FS_Subset, FS_CardinalityType, GatewayAssumption DEF Admitted
  <2>3. Len(nodes') \in Nat /\ Len(nodes') <= Len(nodes)
    BY DEF Shrunk
  <2> QED
    BY <1>1, <2>1, <2>2, <2>3, GatewayAssumption DEF CountInv
<1>12. PackageInv'
  <2>1. \A g \in Handler : package'[g] # Nothing => g # h /\ package'[g] = package[g]
    BY <1>5
  <2>2. Nothing \notin {Blank, Wiped} /\ Nothing \in Unread
    BY EmptyPackages DEF Unread
  <2> QED
    BY <1>3, <2>1, <2>2 DEF PackageInv, DataIsOwn, Waiting, Unread
<1> QED
  BY <1>6, <1>7, <1>8, <1>9, <1>10, <1>11, <1>12

-----------------------------------------------------------------------------
(* The threads.                                                            *)

LEMMA BeginKeeps ==
  ASSUME GatewayInv, NEW h \in Handler, Begin(h)
  PROVE  GatewayInv'
<1> USE DEF GatewayInv, TypeInv
<1>1. /\ hpc[h] = "idle" /\ idCount < MaxControl /\ idCount' = idCount + 1
      /\ hpc' = [hpc EXCEPT ![h] = "add"] /\ link' = [link EXCEPT ![h] = idCount + 1]
      /\ stage' = [stage EXCEPT ![h] = 1] /\ token' = [token EXCEPT ![h] = 0]
      /\ UNCHANGED <<reqs, package, nodes, lock, rpc, packet, head, devToken>>
  BY DEF Begin, recvVars
<1>2. idCount \in Nat /\ MaxControl \in Nat /\ LastIdx \in Nat \ {0, 1}
  BY GatewayAssumption DEF HandlerType
<1>3. /\ hpc'[h] = "add" /\ stage'[h] = 1 /\ link'[h] = idCount + 1
      /\ \A g \in Handler : g # h => /\ hpc'[g] = hpc[g] /\ stage'[g] = stage[g]
                                     /\ link'[g] = link[g] /\ link[g] <= idCount
  BY <1>1 DEF HandlerType
<1>4. HandlerType' /\ ListType'
  BY <1>1, <1>2 DEF HandlerType, ListType
<1>5. PacketType'
  BY <1>1, PacketsStay DEF PacketType
<1>6. LinkInv'
  BY <1>2, <1>3 DEF LinkInv
<1>7. NodeInv'
  <2>1. \A i \in Index : nodes[i][1] \in Nat /\ nodes[i][1] <= idCount
    BY DEF NodeInv, ListType, Index
  <2>2. Index' = Index
    BY <1>1 DEF Index
  <2>3. \A i \in Index' : nodes'[i][1] <= idCount' /\ nodes'[i][1] # link'[h]
    BY <1>1, <1>2, <1>3, <2>1, <2>2
  <2>4. \A g \in Handler, i \in Index' :
          hpc'[g] # "idle" /\ nodes'[i][1] = link'[g]
            => nodes'[i][2] < stage'[g] \/ (Waiting(g)' /\ nodes'[i] = Node(g)')
    <3> SUFFICES ASSUME NEW g \in Handler, NEW i \in Index', hpc'[g] # "idle",
                        nodes'[i][1] = link'[g]
                 PROVE  nodes'[i][2] < stage'[g] \/ (Waiting(g)' /\ nodes'[i] = Node(g)')
      OBVIOUS
    <3>1. g # h
      BY <2>3
    <3>2. /\ hpc'[g] = hpc[g] /\ stage'[g] = stage[g] /\ link'[g] = link[g]
          /\ Waiting(g)' = Waiting(g) /\ Node(g)' = Node(g)
      BY <1>3, <3>1 DEF Waiting, Node
    <3> QED
      BY <1>1, <2>2, <3>2 DEF NodeInv
  <2>5. \A g \in Handler : Waiting(g)' => \E i \in Index' : nodes'[i] = Node(g)'
    <3> SUFFICES ASSUME NEW g \in Handler, Waiting(g)'
                 PROVE  \E i \in Index' : nodes'[i] = Node(g)'
      OBVIOUS
    <3>1. g # h /\ Waiting(g) /\ Node(g)' = Node(g)
      BY <1>3 DEF Waiting, Node
    <3> QED
      BY <1>1, <2>2, <3>1 DEF NodeInv
  <2>6. \A i, j \in Index' : i # j => nodes'[i] # nodes'[j]
    BY <1>1, <2>2 DEF NodeInv
  <2> QED
    BY <2>3, <2>4, <2>5, <2>6 DEF NodeInv
<1>8. CountInv'
  <2>1. Admitted' = Admitted
    BY <1>1, <1>3 DEF Admitted
  <2> QED
    BY <1>1, <2>1 DEF CountInv
<1>9. PackageInv'
  <2>1. package[h] = Nothing
    BY <1>1 DEF PackageInv, Waiting
  <2> QED
    BY <1>1, <1>3, <2>1, EmptyPackages DEF PackageInv, DataIsOwn, Waiting, Unread
<1> QED
  BY <1>4, <1>5, <1>6, <1>7, <1>8, <1>9

\* A thread that is let pass finds the list short enough for all the others.
LEMMA AdmitKeeps ==
  ASSUME GatewayInv, NEW h \in Handler, Admit(h)
  PROVE  GatewayInv'
<1> USE DEF GatewayInv, TypeInv
<1>1. /\ hpc[h] = "add" /\ Len(nodes) <= ElMax /\ hpc' = [hpc EXCEPT ![h] = "append"]
      /\ UNCHANGED <<idCount, link, stage, token, reqs, package, nodes, lock, rpc, packet,
                     head, devToken>>
  BY DEF Admit, Room, recvVars
<1>2. hpc'[h] = "append" /\ \A g \in Handler : g # h => hpc'[g] = hpc[g]
  BY <1>1 DEF HandlerType
<1>3. \A g \in Handler : Waiting(g)' <=> Waiting(g)
  BY <1>1, <1>2 DEF Waiting
<1>4. HandlerType' /\ ListType' /\ LinkInv'
  BY <1>1, <1>2 DEF HandlerType, ListType, LinkInv
<1>5. PacketType'
  BY <1>1, PacketsStay DEF PacketType
<1>6. NodeInv'
  BY <1>1, <1>2, <1>3 DEF NodeInv, Index, Node
<1>7. CountInv'
  <2>1. Admitted' \subseteq Handler
    BY DEF Admitted
  <2>2. Cardinality(Admitted') <= Cardinality(Handler) /\ Cardinality(Admitted') \in Nat
        /\ Cardinality(Handler) \in Nat
    BY <2>1, FS_Subset, FS_CardinalityType, GatewayAssumption
  <2>3. Len(nodes) \in Nat
    BY DEF ListType
  <2> QED
    BY <1>1, <2>2, <2>3, GatewayAssumption DEF CountInv
<1>8. PackageInv'
  BY <1>1, <1>3 DEF PackageInv, DataIsOwn
<1> QED
  BY <1>4, <1>5, <1>6, <1>7, <1>8

LEMMA AppendKeeps ==
  ASSUME GatewayInv, NEW h \in Handler, AppendNode(h)
  PROVE  GatewayInv'
<1> USE DEF GatewayInv, TypeInv
<1>1. /\ hpc[h] = "append" /\ nodes' = Append(nodes, Node(h))
      /\ hpc' = [hpc EXCEPT ![h] = "wait"]
      /\ reqs' = reqs \cup {[src |-> link[h], idx |-> stage[h], token |-> token[h],
                             since |-> devToken]}
      /\ UNCHANGED <<idCount, link, stage, token, package, lock, rpc, packet, head, devToken>>
  BY DEF AppendNode, recvVars
<1>2. hpc'[h] = "wait" /\ \A g \in Handler : g # h => hpc'[g] = hpc[g]
  BY <1>1 DEF HandlerType
<1>3. /\ link[h] \in Nat \ {0} /\ stage[h] \in Nat /\ token[h] = 0 /\ link[h] <= idCount
      /\ devToken \in Nat
  BY <1>1, GatewayAssumption DEF HandlerType, LinkInv, PacketType
<1>4. Node(h) \in Nat \X Nat /\ nodes \in Seq(Nat \X Nat) /\ Len(nodes) \in Nat
  BY <1>3 DEF Node, ListType
<1>5. /\ nodes' \in Seq(Nat \X Nat) /\ Len(nodes') = Len(nodes) + 1
      /\ nodes'[Len(nodes) + 1] = Node(h)
      /\ \A i \in Index : nodes'[i] = nodes[i]
  BY <1>1, <1>4 DEF Index
<1>6. \A i \in Index' : i \in Index \/ i = Len(nodes) + 1
  BY <1>4, <1>5 DEF Index
<1>7. Index \subseteq Index' /\ Len(nodes) + 1 \in Index' /\ Len(nodes) + 1 \notin Index
  BY <1>4, <1>5 DEF Index
<1>8. HandlerType' /\ LinkInv' /\ ListType'
  BY <1>1, <1>2, <1>5 DEF HandlerType, LinkInv, ListType
<1>9. PacketType'
  <2>1. Answers \subseteq Answers'
    BY <1>1, <1>3, AnswersGrow
  <2> QED
    BY <1>1, <1>3, <2>1 DEF PacketType
<1>10. NodeInv'
  <2>1. \A i \in Index : nodes[i] # Node(h)
    <3> SUFFICES ASSUME NEW i \in Index, nodes[i] = Node(h) PROVE FALSE
      OBVIOUS
    <3>1. nodes[i][1] = link[h] /\ nodes[i][2] = stage[h]
      BY DEF Node
    <3> QED
      BY <1>1, <1>3, <3>1 DEF NodeInv, Waiting
  <2>2. \A i \in Index' : nodes'[i][1] <= idCount'
    <3>1. Node(h)[1] = link[h]
      BY DEF Node
    <3>2. \A i \in Index : nodes'[i][1] <= idCount
      BY <1>5 DEF NodeInv
    <3> QED
      BY <1>1, <1>3, <1>5, <1>6, <3>1, <3>2
  <2>3. \A i, j \in Index' : i # j => nodes'[i] # nodes'[j]
    BY <1>5, <1>6, <2>1 DEF NodeInv
  <2>4. ASSUME NEW g \in Handler, NEW i \in Index', hpc'[g] # "idle", nodes'[i][1] = link'[g]
        PROVE  nodes'[i][2] < stage'[g] \/ (Waiting(g)' /\ nodes'[i] = Node(g)')
    <3>1. hpc[g] # "idle" /\ link'[g] = link[g] /\ stage'[g] = stage[g]
          /\ Node(g)' = Node(g) /\ (Waiting(g) => Waiting(g)')
      BY <1>1, <1>2, <2>4 DEF Node, Waiting
    <3>2. CASE i \in Index
      BY <1>5, <2>4, <3>1, <3>2 DEF NodeInv
    <3>3. CASE i = Len(nodes) + 1
      <4>1. g = h
        <5>1. nodes'[i][1] = link[h]
          BY <1>5, <3>3 DEF Node
        <5>2. link[g] = link[h] /\ hpc[h] # "idle"
          BY <1>1, <2>4, <3>1, <5>1
        <5> QED
          BY <3>1, <5>2 DEF LinkInv
      <4> QED
        BY <1>2, <1>5, <3>1, <3>3, <4>1 DEF Waiting
    <3> QED
      BY <1>6, <3>2, <3>3
  <2>5. \A g \in Handler : Waiting(g)' => \E i \in Index' : nodes'[i] = Node(g)'
    <3> SUFFICES ASSUME NEW g \in Handler, Waiting(g)'
                 PROVE  \E i \in Index' : nodes'[i] = Node(g)'
      OBVIOUS
    <3>1. Node(g)' = Node(g)
      BY <1>1 DEF Node
    <3>2. CASE g = h
      BY <1>5, <1>7, <3>1, <3>2
    <3>3. CASE g # h
      <4>1. PICK i \in Index : nodes[i] = Node(g)
        BY <1>2, <3>3 DEF NodeInv, Waiting
      <4> QED
        BY <1>5, <1>7, <3>1, <4>1
    <3> QED
      BY <3>2, <3>3
  <2> QED
    BY <2>2, <2>3, <2>4, <2>5 DEF NodeInv
<1>11. CountInv'
  <2>1. Admitted' = Admitted \ {h} /\ h \in Admitted
    BY <1>1, <1>2 DEF Admitted
  <2>2. IsFiniteSet(Admitted)
    BY FS_Subset, GatewayAssumption DEF Admitted
  <2>3. Cardinality(Admitted') = Cardinality(Admitted) - 1
    BY <2>1, <2>2, FS_RemoveElement
  <2>4. Cardinality(Admitted) \in Nat /\ Cardinality(Handler) \in Nat
    BY <2>2, FS_CardinalityType, GatewayAssumption
  <2> QED
    BY <1>4, <1>5, <2>3, <2>4, GatewayAssumption DEF CountInv
<1>12. PackageInv'
  <2>1. \A g \in Handler : (Waiting(g) => Waiting(g)') /\ link'[g] = link[g]
    BY <1>1, <1>2 DEF Waiting
  <2>2. package[h] = Nothing
    BY <1>1 DEF PackageInv, Waiting
  <2>3. \A g \in Handler : g # h => (Waiting(g)' <=> Waiting(g))
    BY <1>2 DEF Waiting
  <2>4. Nothing \in Unread
    BY DEF Unread
  <2> QED
    BY <1>1, <2>1, <2>2, <2>3, <2>4 DEF PackageInv, DataIsOwn
<1> QED
  BY <1>8, <1>9, <1>10, <1>11, <1>12

LEMMA FilterKeeps ==
  ASSUME GatewayInv, NEW h \in Handler, Filter(h)
  PROVE  GatewayInv'
<1> USE DEF GatewayInv, TypeInv
<1>1. /\ hpc[h] = "wait" /\ hpc' = [hpc EXCEPT ![h] = "take"]
      /\ package' = [package EXCEPT ![h] = IF package[h].idx = stage[h] THEN package[h]
                                           ELSE Nothing]
      /\ UNCHANGED <<idCount, link, stage, token, reqs, nodes, lock, rpc, packet, head,
                     devToken>>
  BY DEF Filter, recvVars
<1>2. hpc'[h] = "take" /\ \A g \in Handler : g # h => hpc'[g] = hpc[g]
  BY <1>1 DEF HandlerType
<1>3. \A g \in Handler : Waiting(g)' <=> Waiting(g)
  BY <1>1, <1>2 DEF Waiting
<1>4. \A g \in Handler : package'[g] \in {package[g], Nothing}
  BY <1>1 DEF PacketType
<1>5. HandlerType' /\ ListType' /\ LinkInv'
  BY <1>1, <1>2 DEF HandlerType, ListType, LinkInv
<1>6. PacketType'
  <2>1. package' \in [Handler -> Package]
    BY <1>1, EmptyPackages DEF PacketType
  <2> QED
    BY <1>1, <1>4, <2>1, PacketsStay DEF PacketType, Unread
<1>7. NodeInv'
  BY <1>1, <1>2, <1>3 DEF NodeInv, Index, Node
<1>8. CountInv'
  <2>1. Admitted' = Admitted
    BY <1>1, <1>2 DEF Admitted
  <2> QED
    BY <1>1, <2>1 DEF CountInv
<1>9. PackageInv'
  BY <1>1, <1>3, <1>4, EmptyPackages DEF PackageInv, DataIsOwn, Unread
<1> QED
  BY <1>5, <1>6, <1>7, <1>8, <1>9

LEMMA RequestEndKeeps ==
  ASSUME GatewayInv, NEW h \in Handler, TurnAway(h) \/ GiveUp(h) \/ Take(h)
  PROVE  GatewayInv'
<1> USE DEF GatewayInv, TypeInv
<1>1. ASSUME hpc[h] \in {"add", "wait", "take"}, Shrunk(h), Returned(h),
             UNCHANGED <<idCount, reqs, lock, rpc, packet, head, devToken>>
      PROVE  GatewayInv'
  BY <1>1, ReturnKeeps
<1>2. CASE TurnAway(h) \/ GiveUp(h)
  <2>1. /\ hpc[h] \in {"add", "wait", "take"} /\ Return(h, FALSE, Nothing) /\ nodes' = nodes
        /\ UNCHANGED <<idCount, reqs, lock, rpc, packet, head, devToken>>
    BY <1>2 DEF TurnAway, GiveUp, recvVars
  <2>2. Shrunk(h)
    BY <2>1, SameIsShrunk
  <2>3. Returned(h)
    BY <2>1, ReturnIs DEF Return, Ends
  <2> QED
    BY <1>1, <2>1, <2>2, <2>3
<1>3. CASE Take(h)
  <2>1. /\ hpc[h] = "take" /\ nodes' = Without(h)
        /\ Return(h, stage[h] # 1 \/ Decodes(h),
                  IF stage[h] = 1 /\ Decodes(h) THEN package[h] ELSE Nothing)
        /\ UNCHANGED <<idCount, reqs, lock, rpc, packet, head, devToken>>
    BY <1>3 DEF Take, recvVars
  <2>2. Waiting(h)
    BY <2>1 DEF Waiting
  <2>3. Shrunk(h)
    BY <2>1, <2>2, WithoutIsShrunk
  <2>4. Returned(h)
    BY <2>1, ReturnIs DEF Return, Ends, Decodes, HandlerType
  <2> QED
    BY <1>1, <2>1, <2>3, <2>4
<1> QED
  BY <1>2, <1>3

\* What leaves the threads and the list alone.
LEMMA ThreadsStay ==
  ASSUME GatewayInv, UNCHANGED <<handlerVars, nodes>>
  PROVE  /\ HandlerType' /\ LinkInv' /\ NodeInv' /\ CountInv'
         /\ \A h \in Handler : link'[h] = link[h] /\ (Waiting(h)' <=> Waiting(h))
<1>1. UNCHANGED <<idCount, hpc, link, stage, token, reqs, nodes>>
  BY DEF handlerVars
<1>2. HandlerType' /\ LinkInv'
  BY <1>1 DEF GatewayInv, TypeInv, HandlerType, LinkInv
<1>3. NodeInv'
  <2>1. Index' = Index /\ \A h \in Handler : Node(h)' = Node(h)
    BY <1>1 DEF Index, Node
  <2>2. \A h \in Handler : Waiting(h)' <=> Waiting(h)
    BY <1>1 DEF Waiting
  <2>3. /\ \A i \in Index' : nodes'[i][1] <= idCount'
        /\ \A i, j \in Index' : i # j => nodes'[i] # nodes'[j]
    BY <1>1, <2>1 DEF GatewayInv, NodeInv
  <2>4. ASSUME NEW h \in Handler, NEW i \in Index, hpc'[h] # "idle", nodes'[i][1] = link'[h]
        PROVE  nodes'[i][2] < stage'[h] \/ (Waiting(h)' /\ nodes'[i] = Node(h)')
    BY <1>1, <2>1, <2>2, <2>4 DEF GatewayInv, NodeInv
  <2>5. ASSUME NEW h \in Handler, Waiting(h)'
        PROVE  \E i \in Index' : nodes'[i] = Node(h)'
    BY <1>1, <2>1, <2>2, <2>5 DEF GatewayInv, NodeInv
  <2> QED
    BY <2>1, <2>3, <2>4, <2>5 DEF NodeInv
<1>4. CountInv'
  BY <1>1 DEF GatewayInv, CountInv, Admitted
<1> QED
  BY <1>1, <1>2, <1>3, <1>4 DEF Waiting

LEMMA RecvKeeps ==
  ASSUME GatewayInv,
         (\E a \in Answers : TakeHead(a)) \/ Allocate \/ Copy \/ Drop \/ Crash \/ NoMemory
  PROVE  GatewayInv'
<1> USE DEF GatewayInv, TypeInv
<1>1. UNCHANGED <<idCount, hpc, link, stage, token, reqs>> /\ UNCHANGED <<handlerVars, nodes>>
      /\ devToken' = devToken
  BY DEF TakeHead, Allocate, Copy, Drop, Crash, NoMemory, handlerVars
<1>2. HandlerType' /\ LinkInv' /\ NodeInv' /\ CountInv'
      /\ \A h \in Handler : link'[h] = link[h] /\ (Waiting(h)' <=> Waiting(h))
  BY <1>1, ThreadsStay
<1>3. ListType'
  BY <1>1 DEF ListType, TakeHead, Allocate, Copy, Drop, Crash, NoMemory
<1>4. Nothing \in Unread /\ Blank \in Unread /\ Wiped \in Unread
  BY DEF Unread
<1>5. ASSUME NEW a \in Answers, TakeHead(a)
      PROVE  GatewayInv'
  <2>1. rpc = "idle" /\ rpc' = "head" /\ packet' = a /\ package' = package
    BY <1>5 DEF TakeHead
  <2>2. a # Nothing
    BY <1>4, AnswersAreRead
  <2>3. PacketType'
    BY <1>1, <2>1, PacketsStay DEF PacketType
  <2>4. PackageInv'
    BY <1>2, <2>1, <2>2 DEF PackageInv, DataIsOwn
  <2> QED
    BY <1>2, <1>3, <2>3, <2>4
<1>6. CASE Allocate
  <2>1. /\ rpc = "head" /\ rpc' = "copy" /\ packet' = packet
        /\ package' = [h \in Handler |-> IF h \notin Addressees THEN package[h]
                                         ELSE IF package[h] = Nothing THEN Blank ELSE Wiped]
    BY <1>6 DEF Allocate
  <2>2. \A h \in Handler :
          \/ h \notin Addressees /\ package'[h] = package[h]
          \/ /\ package'[h] \in {Blank, Wiped}
             /\ Waiting(h) /\ link[h] = packet.dst
    BY <2>1 DEF Addressees
  <2>3. PacketType'
    <3>1. package' \in [Handler -> Package]
      BY <2>1, EmptyPackages DEF PacketType
    <3> QED
      BY <1>1, <1>4, <2>1, <2>2, <3>1, PacketsStay DEF PacketType
  <2>4. PackageInv'
    BY <1>2, <1>4, <2>1, <2>2 DEF PackageInv, DataIsOwn
  <2> QED
    BY <1>2, <1>3, <2>3, <2>4
<1>7. CASE Copy
  <2>1. /\ rpc = "copy" /\ rpc' = "idle" /\ packet' = Nothing
        /\ package' = [h \in Handler |-> IF package[h] \in {Blank, Wiped} THEN packet
                                         ELSE package[h]]
    BY <1>7 DEF Copy
  <2>2. packet \in Answers /\ packet \in Package /\ packet \notin Unread
    <3>1. packet \in Answers
      BY <2>1 DEF PackageInv, PacketType
    <3> QED
      BY <3>1, AnswersAreRead
  <2>3. \A h \in Handler :
          \/ package[h] \notin {Blank, Wiped} /\ package'[h] = package[h]
          \/ package[h] \in {Blank, Wiped} /\ package'[h] = packet
    BY <2>1
  <2>4. PacketType'
    <3>1. package' \in [Handler -> Package]
      BY <2>1, <2>2 DEF PacketType
    <3> QED
      BY <1>1, <2>1, <2>2, <2>3, <3>1, PacketsStay DEF PacketType
  <2>5. PackageInv'
    BY <1>2, <1>4, <2>1, <2>2, <2>3, EmptyPackages DEF PackageInv, DataIsOwn
  <2> QED
    BY <1>2, <1>3, <2>4, <2>5
<1>8. CASE Drop \/ Crash
  <2>1. package' = package /\ packet' = Nothing /\ rpc' \in {"idle", "crashed"}
    BY <1>8 DEF Drop, Crash
  <2>2. \A h \in Handler : package[h] \notin {Blank, Wiped}
    BY <1>8 DEF Drop, Crash, PackageInv
  <2>3. PacketType'
    BY <1>1, <2>1, PacketsStay DEF PacketType
  <2>4. PackageInv'
    BY <1>2, <2>1, <2>2 DEF PackageInv, DataIsOwn
  <2> QED
    BY <1>2, <1>3, <2>3, <2>4
<1>9. CASE NoMemory
  <2>1. /\ rpc = "head" /\ rpc' = "idle" /\ packet' = Nothing
        /\ package' = [h \in Handler |-> IF h \in Addressees THEN Nothing ELSE package[h]]
    BY <1>9 DEF NoMemory
  <2>2. \A h \in Handler : package'[h] \in {Nothing, package[h]}
    BY <2>1
  <2>3. PacketType'
    <3>1. package' \in [Handler -> Package]
      BY <2>1, EmptyPackages DEF PacketType
    <3> QED
      BY <1>1, <1>4, <2>1, <2>2, <3>1, PacketsStay DEF PacketType
  <2>4. PackageInv'
    BY <1>2, <1>4, <2>1, <2>2, EmptyPackages DEF PackageInv, DataIsOwn
  <2> QED
    BY <1>2, <1>3, <2>3, <2>4
<1> QED
  BY <1>5, <1>6, <1>7, <1>8, <1>9

LEMMA RefreshKeeps ==
  ASSUME GatewayInv, DeviceRefreshed
  PROVE  GatewayInv'
<1> USE DEF GatewayInv, TypeInv
<1>1. /\ UNCHANGED <<idCount, hpc, link, stage, token, reqs>> /\ UNCHANGED <<handlerVars, nodes>>
      /\ UNCHANGED <<package, lock, rpc, packet>>
      /\ devToken < MaxToken /\ devToken' = devToken + 1
  BY DEF DeviceRefreshed, handlerVars, recvVars
<1>2. devToken' \in 0 .. MaxToken /\ devToken' \in Nat /\ devToken <= devToken'
  BY <1>1, GatewayAssumption DEF PacketType
<1>3. Answers \subseteq Answers'
  BY <1>1, <1>2, AnswersGrow
<1>4. PacketType' /\ ListType' /\ PackageInv'
  BY <1>1, <1>2, <1>3 DEF PacketType, ListType, PackageInv, DataIsOwn, Waiting
<1> QED
  BY <1>1, <1>4, ThreadsStay

-----------------------------------------------------------------------------
(* The specification.                                                      *)

LEMMA GatewayStarts == GatewayInit => GatewayInv
<1> SUFFICES ASSUME GatewayInit PROVE GatewayInv
  OBVIOUS
<1>1. TypeInv
  BY GatewayAssumption, EmptyPackages
     DEF GatewayInit, TypeInv, HandlerType, PacketType, ListType, Unread
<1>2. Index = {} /\ LinkInv /\ NodeInv
  BY DEF GatewayInit, Index, LinkInv, NodeInv, Waiting
<1>3. CountInv
  <2>1. Admitted = {} /\ Len(nodes) = 0
    BY DEF GatewayInit, Admitted
  <2>2. Cardinality(Handler) \in Nat /\ Cardinality({}) = 0
    BY FS_CardinalityType, FS_EmptySet, GatewayAssumption
  <2> QED
    BY <2>1, <2>2, GatewayAssumption DEF CountInv
<1>4. PackageInv
  BY EmptyPackages DEF GatewayInit, PackageInv, DataIsOwn, Waiting, Unread
<1> QED
  BY <1>1, <1>2, <1>3, <1>4 DEF GatewayInv

LEMMA GatewayStep == GatewayInv /\ [Next]_vars => GatewayInv'
<1> SUFFICES ASSUME GatewayInv, [Next]_vars PROVE GatewayInv'
  OBVIOUS
<1>1. ASSUME NEW h \in Handler, Control(h) PROVE GatewayInv'
  BY <1>1, BeginKeeps, AdmitKeeps, AppendKeeps, FilterKeeps, RequestEndKeeps DEF Control
<1>2. CASE UNCHANGED vars
  <2>1. UNCHANGED <<handlerVars, nodes>> /\ UNCHANGED <<package, lock, rpc, packet, devToken, reqs>>
    BY <1>2 DEF vars, handlerVars, recvVars
  <2>2. Answers' = Answers
    BY <2>1 DEF Answers
  <2>3. PacketType' /\ ListType'
    BY <2>1, <2>2 DEF GatewayInv, TypeInv, PacketType, ListType
  <2>4. PackageInv'
    BY <2>1, ThreadsStay DEF GatewayInv, PackageInv, DataIsOwn
  <2> QED
    BY <2>1, <2>3, <2>4, ThreadsStay DEF GatewayInv, TypeInv
<1> QED
  BY <1>1, <1>2, RecvKeeps, RefreshKeeps DEF Next

LEMMA GatewayIsInductive == GatewaySpec => []GatewayInv
BY GatewayStarts, GatewayStep, PTL DEF GatewaySpec

-----------------------------------------------------------------------------
(* What follows.                                                           *)

\* _device_ctrl and observer_queue.c: ids, numbers, tokens and packages have their
\* types, for any number of threads.
THEOREM GatewayTypes == GatewaySpec => []GatewayTypeOK
<1>1. ASSUME GatewayInv PROVE GatewayTypeOK
  BY <1>1, GatewayAssumption
     DEF GatewayInv, TypeInv, HandlerType, PacketType, ListType, GatewayTypeOK
<1> QED
  BY <1>1, GatewayIsInductive, PTL

\* link_recv_handle: whoever enters and leaves the list, a request is given only what
\* was addressed to its link.
THEOREM PackagesAreOwn == GatewaySpec => []DataIsOwn
<1>1. GatewayInv => DataIsOwn
  BY DEF GatewayInv, PackageInv
<1> QED
  BY <1>1, GatewayIsInductive, PTL

\* link_open: a link that is open has the token 0, whatever the device answers.
THEOREM TokensAreZero == GatewaySpec => []LinksHaveTokenZero
<1>1. GatewayInv => LinksHaveTokenZero
  BY DEF GatewayInv, TypeInv, HandlerType, LinksHaveTokenZero
<1> QED
  BY <1>1, GatewayIsInductive, PTL

\* observer_add and observer_delete: whoever waits has one node in the list, for other
\* requests delete their own nodes only.
THEOREM WaitersHaveNodes == GatewaySpec => []WaitersAreListed
<1>1. ASSUME GatewayInv, NEW h \in Handler, Waiting(h)
      PROVE  Cardinality({i \in 1 .. Len(nodes) : nodes[i] = Node(h)}) = 1
  <2>1. PICK i \in Index : nodes[i] = Node(h)
    BY <1>1 DEF GatewayInv, NodeInv
  <2>2. {k \in 1 .. Len(nodes) : nodes[k] = Node(h)} = {i}
    BY <1>1, <2>1 DEF GatewayInv, NodeInv, Index
  <2> QED
    BY <2>2, FS_Singleton
<1>2. GatewayInv => WaitersAreListed
  BY <1>1 DEF WaitersAreListed
<1> QED
  BY <1>2, GatewayIsInductive, PTL

\* observer_add reads the count outside the lock: the list outgrows el_max by the number
\* of HTTP threads at most.
THEOREM ListIsBounded == GatewaySpec => []QueueBounded
<1>1. ASSUME GatewayInv PROVE QueueBounded
  <2>1. Cardinality(Admitted) \in Nat /\ Cardinality(Handler) \in Nat
    BY FS_Subset, FS_CardinalityType, GatewayAssumption DEF Admitted
  <2>2. Len(nodes) \in Nat
    BY <1>1 DEF GatewayInv, TypeInv, ListType
  <2> QED
    BY <1>1, <2>1, <2>2, GatewayAssumption DEF GatewayInv, CountInv, QueueBounded
<1> QED
  BY <1>1, GatewayIsInductive, PTL
=============================================================================
