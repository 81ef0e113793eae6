------------------------------ MODULE Gateway ------------------------------
(***************************************************************************)
(* The REST gateway: _device_ctrl of src/rest_api/rest_api.c in any number *)
(* of HTTP threads over src/rest_api/vlink.c, the list of waiting requests *)
(* of src/util/observer_queue.c, and the thread that receives.             *)
(*                                                                         *)
(* A control draws an id, opens a link under it and makes its requests:    *)
(* for the token, the two test commands of link_open, and the command.     *)
(* Each puts a node in the list, sends, and looks at its package until one *)
(* has come or three seconds are over; after those the node stays in the   *)
(* list and points to a package that is gone, and later to a link that is. *)
(* What the receiving thread does there is undefined: nothing, or a crash. *)
(*                                                                         *)
(* A request that is sent again is the same packet: reqs holds what the    *)
(* device may receive at any time, and again, since when.  The device has  *)
(* one token, which every session an application opens changes.            *)
(***************************************************************************)
EXTENDS Naturals, Sequences, FiniteSets

CONSTANTS
  Handler,     \* HTTP threads
  ElMax,       \* el_max
  LastIdx,     \* requests of a control; the code makes 4, two of them tests
  MaxControl,  \* bound: devid_id_count
  MaxToken     \* bound: sessions applications open with the device

ASSUME GatewayAssumption ==
  /\ IsFiniteSet(Handler)
  /\ ElMax \in Nat /\ LastIdx \in Nat \ {0, 1} /\ MaxControl \in Nat /\ MaxToken \in Nat

VARIABLES
  idCount,     \* devid_id_count
  hpc,         \* HTTP threads: "idle", "add", "append", "wait" or "take"
  link,        \* mydevid0 of the thread's link
  stage,       \* session.idx of its link: the number of its request
  token,       \* session.token of its link
  package,     \* package_recv of its request
  nodes,       \* list_ct: requests, each <<mydevid0, idx>>
  lock,        \* mutex_list: "free", "recv", or "lost" if never unlocked
  rpc,         \* the receiving thread: "idle", "head", "copy" or "crashed"
  packet,      \* recvbuf
  head,        \* head of link_recv_handle
  reqs,        \* every packet sent to the device
  devToken     \* global_token of the device

handlerVars == <<idCount, hpc, link, stage, token, reqs>>
recvVars    == <<rpc, packet, head>>
vars        == <<handlerVars, package, nodes, lock, recvVars, devToken>>

Nothing == [dst |-> 0, idx |-> 0, token |-> 0]
Blank   == [Nothing EXCEPT !.token = 1]  \* allocated, not yet filled
Wiped   == [Nothing EXCEPT !.token = 2]  \* allocated over a package that was there
Unread  == {Nothing, Blank, Wiped}
NoNode  == <<0, 0>>

\* The node of the request a thread is waiting in.
Node(h) == <<link[h], stage[h]>>

Waiting(h) == hpc[h] \in {"wait", "take"}

GatewayInit ==
  /\ idCount = 0
  /\ hpc = [h \in Handler |-> "idle"]
  /\ link = [h \in Handler |-> 0] /\ stage = [h \in Handler |-> 0]
  /\ token = [h \in Handler |-> 0]
  /\ package = [h \in Handler |-> Nothing]
  /\ nodes = <<>> /\ lock = "free"
  /\ rpc = "idle" /\ packet = Nothing /\ head = NoNode
  /\ reqs = {} /\ devToken = 0

-----------------------------------------------------------------------------
(* A control.                                                              *)

Running == rpc # "crashed"

\* _device_id_get and the malloc of link_open.
Begin(h) ==
  /\ Running /\ hpc[h] = "idle" /\ idCount < MaxControl
  /\ idCount' = idCount + 1
  /\ hpc' = [hpc EXCEPT ![h] = "add"]
  /\ link' = [link EXCEPT ![h] = idCount + 1]
  /\ stage' = [stage EXCEPT ![h] = 1]
  /\ token' = [token EXCEPT ![h] = 0]
  /\ UNCHANGED <<reqs, package, nodes, lock, recvVars, devToken>>

\* Had one request too many been made.
EndsOneLate(h, ok) == stage[h] > LastIdx \/ (stage[h] = 1 /\ ~ok)

\* link_open gives up without a token and goes on past its tests whatever they return.
Ends(h, ok) == stage[h] = LastIdx \/ (stage[h] = 1 /\ ~ok)

\* The request returns 0 or not, and what it got.  The control makes its next one, or
\* returns what the last one returned and its link is freed.
Return(h, ok, got) ==
  LET ends == Ends(h, ok) IN
  /\ hpc' = [hpc EXCEPT ![h] = IF ends THEN "idle" ELSE "add"]
  /\ stage' = [stage EXCEPT ![h] = IF ends THEN 0 ELSE @ + 1]
  /\ link' = [link EXCEPT ![h] = IF ends THEN 0 ELSE @]
  /\ token' = [token EXCEPT ![h] = IF ends THEN 0 ELSE IF got = Nothing THEN @ ELSE got.token]
  /\ package' = [package EXCEPT ![h] = Nothing]

\* Had the limit been read as one more.
RoomForMore == Len(nodes) <= ElMax + 1

\* observer_add: el_max is not too many.
Room == Len(nodes) <= ElMax

\* The count is read outside the lock.
Admit(h) ==
  /\ Running /\ hpc[h] = "add" /\ Room
  /\ hpc' = [hpc EXCEPT ![h] = "append"]
  /\ UNCHANGED <<idCount, link, stage, token, reqs, package, nodes,
                 lock, recvVars, devToken>>

\* The list is full, or there is no memory.
TurnAway(h) ==
  /\ Running /\ hpc[h] = "add"
  /\ Return(h, FALSE, Nothing)
  /\ UNCHANGED <<idCount, reqs, nodes, lock, recvVars, devToken>>

AppendNode(h) ==
  /\ Running /\ hpc[h] = "append" /\ lock = "free"
  /\ nodes' = Append(nodes, Node(h))
  /\ reqs' = reqs \cup {[src |-> link[h], idx |-> stage[h], token |-> token[h],
                         since |-> devToken]}
  /\ hpc' = [hpc EXCEPT ![h] = "wait"]
  /\ UNCHANGED <<idCount, link, stage, token, package, lock, recvVars,
                 devToken>>

\* protocol_up2p_filter; a package just wiped has no source.  What does not pass is
\* freed, and the wait ends all the same.
Filter(h) ==
  /\ Running /\ hpc[h] = "wait" /\ package[h] \notin {Nothing, Blank}
  /\ package' = [package EXCEPT ![h] = IF @.idx = stage[h] THEN @ ELSE Nothing]
  /\ hpc' = [hpc EXCEPT ![h] = "take"]
  /\ UNCHANGED <<idCount, link, stage, token, reqs, nodes, lock, recvVars,
                 devToken>>

\* Had the token of an answer not been compared.
DecodesAny(h) == package[h] \notin Unread

\* protocol_up2p_data_alloc, of whatever the package holds now.
Decodes(h) == package[h] \notin Unread /\ package[h].token = token[h]

\* Had the head of the list been deleted.
WithoutHead(h) == Tail(nodes)

\* LL_DELETE
Without(h) ==
  LET i == CHOOSE k \in 1 .. Len(nodes) : nodes[k] = Node(h) IN
  [k \in 1 .. Len(nodes) - 1 |-> IF k < i THEN nodes[k] ELSE nodes[k + 1]]

\* The node is deleted; the request returns 0, with data or without.  The token in
\* an answer to CMD_GET_TOKEN is the token it was sent under.
Take(h) ==
  /\ Running /\ hpc[h] = "take" /\ lock = "free"
  /\ nodes' = Without(h)
  /\ Return(h, stage[h] # 1 \/ Decodes(h),
            IF stage[h] = 1 /\ Decodes(h) THEN package[h] ELSE Nothing)
  /\ UNCHANGED <<idCount, reqs, lock, recvVars, devToken>>

\* Three seconds are over.  The node is left in the list.
GiveUp(h) ==
  /\ Running /\ hpc[h] = "wait"
  /\ Return(h, FALSE, Nothing)
  /\ UNCHANGED <<idCount, reqs, nodes, lock, recvVars, devToken>>

Control(h) ==
  \/ Begin(h) \/ Admit(h) \/ TurnAway(h) \/ AppendNode(h)
  \/ Filter(h) \/ Take(h) \/ GiveUp(h)

-----------------------------------------------------------------------------
(* The receiving thread.                                                   *)

\* link_recv_handle reads the head of the list before it takes the lock.
\* An empty one makes it do nothing, whatever is appended then.
TakeHead(a) ==
  /\ rpc = "idle" /\ nodes # <<>>
  /\ packet' = a
  /\ head' = nodes[1]
  /\ rpc' = "head"
  /\ UNCHANGED <<handlerVars, package, nodes, lock, devToken>>

\* The nodes from head to the end of the list.
Walked == {nodes[i] : i \in {j \in 1 .. Len(nodes) : \E k \in 1 .. j : nodes[k] = head}}

\* Had the destination of a packet not been compared.
AddresseesAll == {h \in Handler : Waiting(h) /\ Node(h) \in Walked}

\* The waiting requests among them that the packet is for.
Addressees == {h \in Handler : /\ Waiting(h) /\ Node(h) \in Walked
                               /\ link[h] = packet.dst}

\* A node whose request has returned, or one that was freed, is walked over.
WalksAstray ==
  \/ Walked = {}
  \/ \E n \in Walked : ~ \E h \in Handler : Waiting(h) /\ n = Node(h)

\* The package is replaced by an empty one, and not freed if there was one.
Allocate ==
  /\ rpc = "head" /\ lock = "free"
  /\ Addressees # {}
  /\ package' = [h \in Handler |-> IF h \notin Addressees THEN package[h]
                                 ELSE IF package[h] = Nothing THEN Blank ELSE Wiped]
  /\ lock' = "recv" /\ rpc' = "copy"
  /\ UNCHANGED <<handlerVars, nodes, packet, head, devToken>>

\* It is filled, unless the waiting thread has freed it, or has returned, meanwhile.
Copy ==
  /\ rpc = "copy"
  /\ package' = [h \in Handler |-> IF package[h] \in {Blank, Wiped} THEN packet ELSE package[h]]
  /\ lock' = "free" /\ rpc' = "idle" /\ packet' = Nothing /\ head' = NoNode
  /\ UNCHANGED <<handlerVars, nodes, devToken>>

\* Nobody is waiting for it, or the walk came to memory that says so.
Drop ==
  /\ rpc = "head" /\ lock = "free"
  /\ Addressees = {}
  /\ rpc' = "idle" /\ packet' = Nothing /\ head' = NoNode
  /\ UNCHANGED <<handlerVars, package, nodes, lock, devToken>>

Crash ==
  /\ \/ rpc = "head" /\ lock = "free" /\ WalksAstray
     \/ rpc = "copy" /\ \A h \in Handler : package[h] \notin {Blank, Wiped}
  /\ rpc' = "crashed" /\ packet' = Nothing /\ head' = NoNode
  /\ UNCHANGED <<handlerVars, package, nodes, lock, devToken>>

\* The return in case umalloc fails does not unlock.
NoMemory ==
  /\ rpc = "head" /\ lock = "free" /\ Addressees # {}
  /\ package' = [h \in Handler |-> IF h \in Addressees THEN Nothing ELSE package[h]]
  /\ lock' = "lost" /\ rpc' = "idle" /\ packet' = Nothing /\ head' = NoNode
  /\ UNCHANGED <<handlerVars, nodes, devToken>>

-----------------------------------------------------------------------------
(* The device and its applications.                                        *)

\* What it answers under the token it has when the request comes, the ack of a
\* command or KeyErr, arrives whenever it likes.
Answers ==
  UNION {{[dst |-> p.src, idx |-> p.idx, token |-> t] : t \in p.since .. devToken} : p \in reqs}

\* An application opens a session with it.
DeviceRefreshed ==
  /\ devToken < MaxToken
  /\ devToken' = devToken + 1
  /\ UNCHANGED <<handlerVars, package, nodes, lock, recvVars>>

Next ==
  \/ \E h \in Handler : Control(h)
  \/ \E a \in Answers : TakeHead(a)
  \/ Allocate \/ Copy \/ Drop \/ Crash \/ NoMemory
  \/ DeviceRefreshed

GatewaySpec == GatewayInit /\ [][Next]_vars

-----------------------------------------------------------------------------
(* Properties.                                                             *)

GatewayTypeOK ==
  /\ idCount \in 0 .. MaxControl
  /\ hpc \in [Handler -> {"idle", "add", "append", "wait", "take"}]
  /\ link \in [Handler -> 0 .. idCount] /\ stage \in [Handler -> 0 .. LastIdx]
  /\ token \in [Handler -> 0 .. MaxToken]
  /\ \A h \in Handler : package[h] \in Answers \cup Unread
  /\ lock \in {"free", "recv", "lost"} /\ rpc \in {"idle", "head", "copy", "crashed"}

\* What a control is given as an answer was addressed to it, whichever threads
\* waited, came and went while the packet was on its way to them.
DataIsOwn ==
  \A h \in Handler : Waiting(h) /\ package[h] \notin Unread => package[h].dst = link[h]

\* A link past its opening has the token 0: an answer is only read under the token
\* of the session, which is 0 when it asks for one, so link_open succeeds only
\* until an application first opens a session with the device.
LinksHaveTokenZero == \A h \in Handler : hpc[h] # "idle" /\ stage[h] > 1 => token[h] = 0

\* Every request that waits has its node in the list, and one only.
WaitersAreListed ==
  \A h \in Handler : Waiting(h) => Cardinality({i \in 1 .. Len(nodes) : nodes[i] = Node(h)}) = 1

\* The list, with what timeouts leave there and what threads add that were let
\* pass together, grows no longer than by one thread each.
QueueBounded == Len(nodes) <= ElMax + Cardinality(Handler)
=============================================================================
