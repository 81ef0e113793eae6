------------------------------- MODULE Relay -------------------------------
(***************************************************************************)
(* The relay server: src/up2ps/up2ps.c.                                    *)
(*                                                                         *)
(* Its thread takes one packet at a time.  Whoever sent it is put in the   *)
(* table of users under the address it came from; then the packet is       *)
(* answered, or forwarded to where the table has its destination, or, when *)
(* it is an answer to the relay itself, kept in the one place recv_queue.  *)
(*                                                                         *)
(* HTTP threads control one device: s_cmd_send asks it for its token,      *)
(* sends the command and waits for its answer, reading recv_queue and      *)
(* never clearing it.  A wait ends without a value (s_wait_data_cmd has no *)
(* return statement), so after its timeout s_cmd_send fails or goes on.    *)
(*                                                                         *)
(* The device is reduced to what it answers: any packet sent to it, at any *)
(* time and as often as it likes, with the token it has then; the network  *)
(* delays and repeats what it answers.                                     *)
(***************************************************************************)
EXTENDS Up2p

CONSTANTS
  Addr,        \* the addresses packets come from
  MaxUser,     \* MAX_USER
  OnlineTime,  \* UP2P_ONLINE_TIME
  Handler,     \* HTTP threads
  ControlCmd,  \* the commands they send
  MaxTime,     \* bound: seconds
  MaxIdx,      \* bound: s_packet_idx
  MaxToken     \* bound: tokens the device draws

ASSUME RelayAssumption ==
  /\ MaxUser \in Nat \ {0}
  /\ OnlineTime \in Nat
  /\ NoAddr \notin Addr
  /\ ControlCmd \subseteq {"SendSerial", "TxrxSerial", "GpioWrite"}
  /\ MaxTime \in Nat /\ MaxIdx \in Nat /\ MaxToken \in Nat

VARIABLES
  users,       \* devinfolist
  now,         \* time(NULL)
  sent,        \* what was sent as the table says, for the last packet
  recvQueue,   \* recv_queue: an answer to the relay
  hpc,         \* HTTP threads: "idle", "opening" or "waiting"
  hcmd,        \* cmd of s_cmd_send
  hbuf,        \* sbuf: the packet sent last
  pktIdx,      \* s_packet_idx
  reqs,        \* packets sent to the device by s_send_cmd
  heard,       \* history: the address and time each user was last heard from
  devToken,    \* device: global_token of the device
  answers,     \* device: its answers on their way
  ran,         \* device: the commands it carried out
  answered     \* history: the commands whose answer ended the wait

tableVars   == <<users, now, sent, heard>>
controlVars == <<hpc, hcmd, hbuf, pktIdx, reqs, answered>>
deviceVars  == <<devToken, answers, ran>>
vars        == <<tableVars, recvQueue, controlVars, deviceVars>>

Peer == Client \cup {Dev}
User == 1 .. MaxUser

NobodyYet == [dev |-> Zero, addr |-> NoAddr, time |-> 0]
Nothing   == [cmd |-> "None", about |-> Zero, to |-> NoAddr]
NoAnswer  == [cmd |-> "None", token |-> 0, arg |-> 0]
NoPacket  == [idx |-> 0, cmd |-> "None", token |-> 0]

-----------------------------------------------------------------------------
(* The table of users.                                                     *)

First(S) == CHOOSE i \in S : \A j \in S : i <= j

Expired(u, t) == t - u.time > OnlineTime

\* Had an id not been looked for before a free entry is taken.
UsableNew(table, t, d) ==
  {i \in User : Expired(table[i], t) \/ table[i].time = 0}

\* What user_add may overwrite: an expired or unused entry, or the id's own.
Usable(table, t, d) ==
  {i \in User : Expired(table[i], t) \/ table[i].time = 0 \/ table[i].dev = d}

\* Had the entry been written after the search, found or not.
UserAddBlind(d, a) ==
  LET i == IF Usable(users, now, d) = {} THEN MaxUser + 1
           ELSE First(Usable(users, now, d)) IN
  users' = [j \in User \cup {i} |->
              IF j = i THEN [dev |-> d, addr |-> a, time |-> now] ELSE users[j]]

\* user_add: the first usable entry, whether or not the id has one further on.
UserAdd(d, a) ==
  LET S == Usable(users, now, d) IN
  users' = IF S = {} THEN users
           ELSE [users EXCEPT ![First(S)] = [dev |-> d, addr |-> a, time |-> now]]

\* user_find: the first entry of an id, expired or not.
Entries(table, d) == {i \in User : table[i].dev = d}
Found(table, d)   == Entries(table, d) # {}
UserFind(table, d) == table[First(Entries(table, d))]

-----------------------------------------------------------------------------
Init ==
  /\ users = [i \in User |-> NobodyYet]
  /\ now = OnlineTime + 1
  /\ sent = Nothing
  /\ heard = [d \in Peer |-> NobodyYet]
  /\ recvQueue = NoAnswer
  /\ hpc = [h \in Handler |-> "idle"]
  /\ hcmd = [h \in Handler |-> "None"]
  /\ hbuf = [h \in Handler |-> NoPacket]
  /\ pktIdx = 0 /\ reqs = {} /\ answered = {}
  /\ devToken = 0 /\ answers = {} /\ ran = {}

Tick ==
  /\ now < OnlineTime + 1 + MaxTime
  /\ now' = now + 1
  /\ sent' = Nothing
  /\ UNCHANGED <<users, heard, recvQueue, controlVars, deviceVars>>

(* recv_cmd: a packet of d from the address a.                             *)

Receive(d, a) ==
  /\ UserAdd(d, a)
  /\ heard' = [heard EXCEPT ![d] = [dev |-> d, addr |-> a, time |-> now]]
  /\ UNCHANGED <<now, controlVars, deviceVars>>

\* CMD_ONLINE and CMD_GET_HOST are answered to where they came from.
RecvAnnounce(d, a) ==
  /\ Receive(d, a)
  /\ sent' = Nothing
  /\ UNCHANGED recvQueue

\* Had the age of the entry not been looked at.
IsKnown(table, dst) == Found(table, dst)

\* The entry of the destination, less than UP2P_ONLINE_TIME old.
IsOnline(table, dst) ==
  Found(table, dst) /\ now - UserFind(table, dst).time < OnlineTime

RecvCheckOnline(d, a, dst) ==
  /\ Receive(d, a)
  /\ sent' = [cmd |-> IF IsOnline(users', dst) THEN "Yes" ELSE "No",
              about |-> dst, to |-> a]
  /\ UNCHANGED recvQueue

\* Any other packet to a peer is forwarded as it is.
RecvForward(d, a, dst) ==
  /\ Receive(d, a)
  /\ sent' = IF Found(users', dst)
             THEN [cmd |-> "Forward", about |-> dst, to |-> UserFind(users', dst).addr]
             ELSE Nothing
  /\ UNCHANGED recvQueue

\* To the relay itself: only a CMD_DATA_ACK is kept.  One of another peer, or
\* under another key, reads as no answer.
RecvOwn(d, a) ==
  /\ Receive(d, a)
  /\ sent' = Nothing
  /\ recvQueue' \in {recvQueue, NoAnswer} \cup (IF d = Dev THEN answers ELSE {})

Serve ==
  \E d \in Peer, a \in Addr :
    \/ RecvAnnounce(d, a) \/ RecvOwn(d, a)
    \/ \E dst \in Peer \ {d} : RecvCheckOnline(d, a, dst) \/ RecvForward(d, a, dst)

-----------------------------------------------------------------------------
(* s_cmd_send in an HTTP thread.  A packet that is sent again is the same    *)
(* packet: reqs holds what the device may receive, at any time and again.   *)

\* s_send_data_cmd, s_send_cmd and s_send_packet.
Transmit(h, cmd, t) ==
  LET p == [idx |-> pktIdx + 1, cmd |-> cmd, token |-> t] IN
  /\ pktIdx < MaxIdx /\ pktIdx' = p.idx
  /\ hbuf' = [hbuf EXCEPT ![h] = p]
  /\ reqs' = reqs \cup {p}

\* s_dev_open.
BeginControl(h) ==
  /\ hpc[h] = "idle" /\ Found(users, Dev)
  /\ \E cmd \in ControlCmd : hcmd' = [hcmd EXCEPT ![h] = cmd]
  /\ Transmit(h, "GetToken", 0)
  /\ hpc' = [hpc EXCEPT ![h] = "opening"]
  /\ UNCHANGED <<tableVars, recvQueue, answered, deviceVars>>

\* Had any answer of the device been taken.
ReadsAnything(h) == recvQueue # NoAnswer

\* s_get_recv_data: what is in recv_queue is the awaited answer, under the token
\* of the session unless it brings one.  Its index is not compared.
Reads(h) ==
  /\ recvQueue.cmd = AckOf[hbuf[h].cmd]
  /\ hbuf[h].cmd # "GetToken" => recvQueue.token = hbuf[h].token

\* The command under the token t, if its device is still in the table.
SendCommand(h, t) ==
  /\ hpc[h] = "opening"
  /\ IF Found(users, Dev)
     THEN Transmit(h, hcmd[h], t) /\ hpc' = [hpc EXCEPT ![h] = "waiting"]
     ELSE hpc' = [hpc EXCEPT ![h] = "idle"] /\ UNCHANGED <<hbuf, pktIdx, reqs>>
  /\ UNCHANGED <<tableVars, recvQueue, hcmd, answered, deviceVars>>

Opened(h) == hpc[h] = "opening" /\ Reads(h) /\ SendCommand(h, recvQueue.arg)

Done(h) ==
  /\ hpc[h] = "waiting" /\ Reads(h)
  /\ hpc' = [hpc EXCEPT ![h] = "idle"]
  /\ answered' = answered \cup {hbuf[h]}
  /\ UNCHANGED <<tableVars, recvQueue, hcmd, hbuf, pktIdx, reqs, deviceVars>>

\* MAX_WAIT_TIME is over.  What s_wait_data_cmd returns is then undefined: the
\* control fails ...
TimedOut(h) ==
  /\ hpc[h] \in {"opening", "waiting"}
  /\ hpc' = [hpc EXCEPT ![h] = "idle"]
  /\ UNCHANGED <<tableVars, recvQueue, hcmd, hbuf, pktIdx, reqs, answered, deviceVars>>

\* ... or s_cmd_send goes on with a token that was never set.
WentOn(h) == \E t \in 0 .. MaxToken : SendCommand(h, t)

Control(h) ==
  BeginControl(h) \/ Opened(h) \/ Done(h) \/ TimedOut(h) \/ WentOn(h)

-----------------------------------------------------------------------------
(* The device.                                                             *)

DeviceAnswers(p) ==
  /\ \/ p.cmd = "GetToken" /\ ran' = ran
     \/ p.cmd # "GetToken" /\ p.token = devToken /\ ran' = ran \cup {p}
  /\ answers' = answers \cup {[cmd |-> AckOf[p.cmd], token |-> devToken, arg |-> devToken]}
  /\ UNCHANGED <<tableVars, recvQueue, controlVars, devToken>>

\* An application opens a session with it.
DeviceRefreshed ==
  /\ devToken < MaxToken
  /\ devToken' = devToken + 1
  /\ UNCHANGED <<tableVars, recvQueue, controlVars, answers, ran>>

Next ==
  \/ Tick \/ Serve \/ (\E h \in Handler : Control(h))
  \/ (\E p \in reqs : DeviceAnswers(p)) \/ DeviceRefreshed

RelaySpec == Init /\ [][Next]_vars

-----------------------------------------------------------------------------
(* Properties.                                                             *)

RelayTypeOK ==
  /\ users \in [User -> [dev : Peer \cup {Zero}, addr : Addr \cup {NoAddr}, time : Nat]]
  /\ heard \in [Peer -> [dev : Peer \cup {Zero}, addr : Addr \cup {NoAddr}, time : Nat]]
  /\ now \in Nat
  /\ sent.to \in Addr \cup {NoAddr}
  /\ hpc \in [Handler -> {"idle", "opening", "waiting"}]
  /\ pktIdx \in 0 .. MaxIdx
  /\ answered \subseteq reqs

HeardLately(d) == heard[d].dev = d /\ ~Expired(heard[d], now)

\* The relay forwards to where its destination is: whoever user_find finds and
\* has been heard from within UP2P_ONLINE_TIME is found where it was heard last,
\* however often entries were taken over, left behind or doubled meanwhile.
FoundIsLatest ==
  \A d \in Peer : HeardLately(d) /\ Found(users, d) => UserFind(users, d) = heard[d]

\* CMD_CHECK_ONLINE_YES is said only of a user heard from in time, and
\* CMD_CHECK_ONLINE_NO never of one that is in the table with its last address.
OnlineIsTrue ==
  /\ sent.cmd = "Yes" => HeardLately(sent.about)
  /\ sent.cmd = "No" /\ HeardLately(sent.about) /\ now - heard[sent.about].time < OnlineTime
     => ~Found(users, sent.about)

\* A control that got its answer: the device carried out such a command under
\* the token the control used, for whichever thread sent it.
AnsweredKindRan ==
  \A p \in answered : \E q \in ran : q.cmd = p.cmd /\ q.token = p.token
=============================================================================
