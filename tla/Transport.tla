----------------------------- MODULE Transport -----------------------------
(***************************************************************************)
(* up2pa.c and the border of ulink.c: threads of one application that send *)
(* commands to devices and wait for the answers, and its receive thread.   *)
(*                                                                         *)
(* The threads share everything without a lock: the queue of received      *)
(* packets, packet_idx, sendbuf, and the two flags of the border.  A       *)
(* section is what a thread does between up2pa_border_begin and            *)
(* up2pa_border_end: as many commands as it likes, each a send followed by *)
(* its wait, whatever the send returned.                                   *)
(*                                                                         *)
(* The network loses requests and delays and repeats answers: a device may *)
(* answer anything that arrived at any later time, and push.               *)
(***************************************************************************)
EXTENDS PacketQueue

CONSTANTS
  Thread,      \* the threads that send
  Dev,         \* the devices
  AnswerSpan,  \* the places a sealed answer covers behind its header
  PushSpan,    \* the places a CMD_UPDATE packet covers
  Push,        \* the indices of CMD_UPDATE packets
  MaxIdx,      \* bound: packet_idx
  MaxSection   \* bound: the sections of a thread

ASSUME TransportAssumption ==
  /\ AnswerSpan \in Nat /\ PushSpan \in Nat /\ Push \subseteq Nat
  /\ MaxIdx \in Nat /\ MaxSection \in Nat

VARIABLES
  queue,      \* packetrecv
  filling,    \* the place of the packet the receive thread is copying, or 0
  incoming,   \* that packet
  flagRun,    \* flag_run
  flagBreak,  \* flag_break
  packetIdx,  \* packet_idx
  observerIdx,\* packet_idx_observer
  sendbuf,    \* the packet built last, to whatever end
  pc,         \* where each thread is
  dev,        \* the device it talks to
  sections,   \* its sections so far
  arrived,    \* the requests that reached a device
  mine,       \* history: the index of its last request, 0 if it was refused
  taken,      \* history: the index of the answer accepted for it, or 0
  alone       \* history: nobody else was inside during its section

borderVars == <<flagRun, flagBreak, sections, alone>>
queueVars  == <<queue, filling, incoming>>
numberVars == <<packetIdx, observerIdx, sendbuf, arrived>>
threadVars == <<pc, dev, mine, taken>>
transportVars == <<borderVars, queueVars, numberVars, threadVars>>

NoOne  == [src |-> "none", idx |-> 0, cmd |-> "None", span |-> 0]
Scan   == [dev |-> "none", idx |-> 0]

TransportInit ==
  /\ queue = NoPackets /\ filling = 0 /\ incoming = NoOne
  /\ flagRun = 0 /\ flagBreak = 0
  /\ packetIdx = 0 /\ observerIdx = 0
  /\ sendbuf = Scan
  /\ pc = [t \in Thread |-> "out"]
  /\ dev \in [Thread -> Dev]
  /\ sections = [t \in Thread |-> 0]
  /\ arrived = {}
  /\ mine = [t \in Thread |-> 0] /\ taken = [t \in Thread |-> 0]
  /\ alone = [t \in Thread |-> FALSE]

-----------------------------------------------------------------------------
(* The border.                                                             *)

\* Past the loop of up2pa_border_begin, and not yet at up2pa_border_end.
Inside == {t \in Thread : pc[t] \in {"claim", "clear", "in", "waiting", "pushed"}}

\* Inside its section, or on the way there.
Beginning == {t \in Thread : pc[t] \in {"spin", "claim", "clear"}}

Goto(t, place) == pc' = [pc EXCEPT ![t] = place]

\* flag_break = 1
Begin(t) ==
  /\ pc[t] = "out" /\ sections[t] < MaxSection
  /\ flagBreak' = 1
  /\ sections' = [sections EXCEPT ![t] = @ + 1]
  /\ Goto(t, "spin")
  /\ \E d \in Dev : dev' = [dev EXCEPT ![t] = d]
  /\ UNCHANGED <<flagRun, alone, queueVars, numberVars, mine, taken>>

\* The loop finds flag_run clear.
Pass(t) ==
  /\ pc[t] = "spin" /\ flagRun = 0
  /\ Goto(t, "claim")
  /\ alone' = [u \in Thread |->
                 IF u = t THEN Inside = {} ELSE alone[u] /\ u \notin Inside]
  /\ UNCHANGED <<flagRun, flagBreak, sections, queueVars, numberVars, dev, mine,
                 taken>>

\* flag_run = 1
Claim(t) ==
  /\ pc[t] = "claim"
  /\ flagRun' = 1
  /\ Goto(t, "clear")
  /\ UNCHANGED <<flagBreak, sections, alone, queueVars, numberVars, dev, mine,
                 taken>>

\* Had flag_break not been reset.
ClearNot(t) ==
  /\ pc[t] = "clear"
  /\ Goto(t, "in")
  /\ UNCHANGED <<borderVars, queueVars, numberVars, dev, mine, taken>>

\* flag_break = 0
Clear(t) ==
  /\ pc[t] = "clear"
  /\ flagBreak' = 0
  /\ Goto(t, "in")
  /\ UNCHANGED <<flagRun, sections, alone, queueVars, numberVars, dev, mine,
                 taken>>

\* up2pa_border_end
End(t) ==
  /\ pc[t] = "in"
  /\ flagRun' = 0
  /\ Goto(t, "out")
  /\ mine' = [mine EXCEPT ![t] = 0] /\ taken' = [taken EXCEPT ![t] = 0]
  /\ alone' = [alone EXCEPT ![t] = FALSE]
  /\ UNCHANGED <<flagBreak, sections, queueVars, numberVars, dev>>

-----------------------------------------------------------------------------
(* Sending and waiting.                                                    *)

\* send_packet of what sendbuf holds, which may be lost.
Transmit(p) == arrived' \in {arrived, arrived \cup ({p} \ {Scan})}

\* Had the index been taken before it is counted up.
BuildOld(t, n) == [dev |-> dev[t], idx |-> n - 1]

\* Had the destination of the last packet been left in it.
BuildToLast(t, n) == [dev |-> IF sendbuf = Scan THEN dev[t] ELSE sendbuf.dev, idx |-> n]

\* The packet in sendbuf.
Build(t, n) == [dev |-> dev[t], idx |-> n]

\* up2pa_send_data_cmd with up2pa_send_cmd.
Send(t) ==
  /\ pc[t] = "in" /\ flagBreak = 0 /\ packetIdx < MaxIdx
  /\ packetIdx' = packetIdx + 1
  /\ sendbuf' = Build(t, packetIdx')
  /\ Transmit(sendbuf')
  /\ mine' = [mine EXCEPT ![t] = packetIdx'] /\ taken' = [taken EXCEPT ![t] = 0]
  /\ Goto(t, "waiting")
  /\ UNCHANGED <<borderVars, queueVars, observerIdx, dev>>

\* Under flag_break up2pa_send_cmd returns -2; its callers wait all the same.
Refused(t) ==
  /\ pc[t] = "in" /\ flagBreak = 1
  /\ mine' = [mine EXCEPT ![t] = 0] /\ taken' = [taken EXCEPT ![t] = 0]
  /\ Goto(t, "waiting")
  /\ UNCHANGED <<borderVars, queueVars, numberVars, dev>>

\* ulink_get_devState is for any thread, at any time: up2pa_send_online builds
\* its packets in sendbuf too.
Probe(t) ==
  /\ pc[t] \in {"out", "in"}
  /\ sendbuf' = Scan
  /\ UNCHANGED <<borderVars, queueVars, packetIdx, observerIdx, arrived, threadVars>>

\* common_wait_cmd sends again what sendbuf holds by then.
Resend(t) ==
  /\ pc[t] = "waiting" /\ flagBreak = 0
  /\ Transmit(sendbuf)
  /\ UNCHANGED <<borderVars, queueVars, packetIdx, observerIdx, sendbuf,
                 threadVars>>

\* The wait ends: -2 for another thread that begins, -1 after MAX_WAIT_TIME.
Broken(t) ==
  /\ pc[t] \in {"waiting", "pushed"} /\ flagBreak = 1
  /\ Goto(t, "in")
  /\ UNCHANGED <<borderVars, queueVars, numberVars, dev, mine, taken>>

GiveUp(t) ==
  /\ pc[t] \in {"waiting", "pushed"} /\ flagBreak = 0
  /\ Goto(t, "in")
  /\ UNCHANGED <<borderVars, queueVars, numberVars, dev, mine, taken>>

\* ulink_cmd_wait_noRetry: a wait for a push, with nothing sent before.
AwaitPush(t) ==
  /\ pc[t] = "in"
  /\ Goto(t, "pushed")
  /\ UNCHANGED <<borderVars, queueVars, numberVars, dev, mine, taken>>

\* The payload behind the header at i, as it is now: while it is being copied
\* that may be what an older packet has left there.
Payload(i) ==
  LET p == queue[i].packet IN
  IF p.span = 0 \/ i = MaxUser THEN p
  ELSE IF queue[i + 1].kind = "part" THEN queue[i + 1].packet ELSE NoOne

\* Had the index not been compared.
FitsAny(i) == queue[i].packet.idx > 0

\* What a wait makes of the packet at i: of a wrong index, not of the session or
\* not the awaited one.
Fits(i)      == queue[i].packet.idx = packetIdx
FitsPush(i)  == queue[i].packet.idx >= observerIdx
Sealed(t, i) == Payload(i).src = dev[t]

Poll(t) ==
  /\ flagBreak = 0
  /\ Find(queue, dev[t]) # 0
  /\ queue' = Remove(queue, Find(queue, dev[t]))
  /\ UNCHANGED <<borderVars, filling, incoming, packetIdx, sendbuf, arrived,
                 dev, mine>>

\* A packet that does not fit, or is not sealed for the session, is thrown away.
\* Whatever fits raises packet_idx_observer in a wait for a push.
Discard(t) ==
  /\ Poll(t)
  /\ LET i == Find(queue, dev[t]) IN
     \/ /\ pc[t] = "waiting" /\ ~(Fits(i) /\ Sealed(t, i))
        /\ UNCHANGED observerIdx
     \/ /\ pc[t] = "pushed" /\ ~(FitsPush(i) /\ Sealed(t, i))
        /\ observerIdx' = IF FitsPush(i) THEN queue[i].packet.idx ELSE observerIdx
  /\ UNCHANGED <<pc, taken>>

\* Any other ends the wait: with its data if it is the command waited for, else
\* with -1.
Take(t) ==
  /\ Poll(t)
  /\ LET i == Find(queue, dev[t])
         n == queue[i].packet.idx IN
     /\ Sealed(t, i)
     /\ \/ /\ pc[t] = "waiting" /\ Fits(i)
           /\ taken' = IF Payload(i).cmd = "Ack" THEN [taken EXCEPT ![t] = n] ELSE taken
           /\ UNCHANGED observerIdx
        \/ /\ pc[t] = "pushed" /\ FitsPush(i)
           /\ observerIdx' = n
           /\ UNCHANGED taken
  /\ Goto(t, "in")

-----------------------------------------------------------------------------
(* The receive thread, and the devices.                                    *)

\* A device answers a request, again and again, in time or late.  And it pushes,
\* with numbers of its own; what is not the awaited command is like a push here.
Answer == {[src |-> r.dev, idx |-> r.idx, cmd |-> "Ack", span |-> AnswerSpan] : r \in arrived}
Update == {[src |-> d, idx |-> i, cmd |-> "Update", span |-> PushSpan] : d \in Dev, i \in Push}

Running == \A t \in Thread : pc[t] # "dead"

\* recv_proc and packetrecv_add: the header is there before the payload.  A full
\* queue loses the packet.
Receive(p) ==
  /\ filling = 0 /\ Running /\ FreePlace(queue) # 0
  /\ filling' = FreePlace(queue)
  /\ incoming' = p
  /\ queue' = WriteHead(queue, filling', p)
  /\ UNCHANGED <<borderVars, numberVars, threadVars>>

Stored ==
  /\ filling # 0 /\ Running
  /\ queue' = WritePayload(queue, filling, incoming)
  /\ filling' = 0 /\ incoming' = NoOne
  /\ UNCHANGED <<borderVars, numberVars, threadVars>>

\* A payload that goes past the last place may do no harm, as above, or end the
\* application.
Overrun ==
  /\ filling # 0 /\ Running
  /\ filling + incoming.span > MaxUser
  /\ pc' = [t \in Thread |-> "dead"]
  /\ UNCHANGED <<borderVars, queueVars, numberVars, dev, mine, taken>>

TransportNext ==
  \/ \E t \in Thread :
       \/ Begin(t) \/ Pass(t) \/ Claim(t) \/ Clear(t) \/ End(t)
       \/ Send(t) \/ Refused(t) \/ Probe(t) \/ AwaitPush(t)
       \/ Resend(t) \/ Broken(t) \/ GiveUp(t) \/ Discard(t) \/ Take(t)
  \/ \E p \in Answer \cup Update : Receive(p)
  \/ Stored \/ Overrun

TransportSpec == TransportInit /\ [][TransportNext]_transportVars

-----------------------------------------------------------------------------
Packets == {queue[i].packet : i \in {j \in Place : queue[j] # Empty}} \cup {incoming}

TransportTypeOK ==
  /\ queue \in [Place -> {Empty} \cup {Head(p) : p \in Packets} \cup {Part(p) : p \in Packets}]
  /\ \A p \in Packets : /\ p.src \in Dev \cup {NoOne.src}
                        /\ p.idx \in Nat /\ p.span \in Nat
  /\ filling \in 0 .. MaxUser
  /\ flagRun \in {0, 1} /\ flagBreak \in {0, 1}
  /\ packetIdx \in 0 .. MaxIdx /\ observerIdx \in Nat
  /\ pc \in [Thread -> {"out", "spin", "claim", "clear", "in", "waiting", "pushed",
                     "dead"}]
  /\ dev \in [Thread -> Dev]
  /\ \A r \in arrived : r.dev \in Dev /\ r.idx \in 1 .. packetIdx
  /\ mine \in [Thread -> 0 .. packetIdx] /\ taken \in [Thread -> 0 .. packetIdx]
  /\ alone \in [Thread -> BOOLEAN]

\* However packets come and go, the payload behind a header in the queue is that
\* packet's: what is copied over other places destroys packets but mixes none, for
\* nothing frees a place under a payload.  (packetrecv_add, packetrecv_remove)
PayloadWhole ==
  \A i \in Place : queue[i].kind = "head" /\ i # filling => Whole(queue, i)

\* Waits are broken off only while a thread is in up2pa_border_begin: the flag is
\* never left behind.  (up2pa_border_begin)
BreakMeansBegin == flagBreak = 1 /\ Running => Beginning # {}

\* A section nobody else was in accepts only the answer to its own last request,
\* and none if that was refused: whatever else is received, and although callers
\* wait after a send that failed.  (up2pa_recv_cmd, up2pa_send_cmd)
AcceptedIsOwn ==
  \A t \in Thread : alone[t] /\ taken[t] # 0 => taken[t] = mine[t]

\* What a wait sends again is its own request, or a scan: no other request goes
\* out in its place while the section is undisturbed.  (common_wait_cmd)
ResendsOwn ==
  \A t \in Thread :
    alone[t] /\ pc[t] = "waiting" /\ mine[t] # 0
      => sendbuf \in {Scan, [dev |-> dev[t], idx |-> mine[t]]}
=============================================================================
