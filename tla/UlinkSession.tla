---------------------------- MODULE UlinkSession ----------------------------
(***************************************************************************)
(* Applications in session with the device, over a network that delays,    *)
(* reorders, duplicates and loses packets.                                 *)
(*                                                                         *)
(* An application is a user of src/up2pa/ulink.c and up2pa.c: ulink_open   *)
(* refreshes the token, ulink_cmd_send and ulink_cmd_wait exchange one     *)
(* command for its answer, the wait sending the request again until the    *)
(* answer is there or the time is over.  Its receive thread and its queue  *)
(* of received packets only delay packets here; the module of that queue   *)
(* says what they lose.                                                    *)
(*                                                                         *)
(* reqs and the device's out hold every packet ever sent: a packet may be  *)
(* received at any later time, any number of times, or never.  The relay   *)
(* forwards packets unchanged: what goes through it comes from Server and  *)
(* is answered there.                                                      *)
(***************************************************************************)
EXTENDS Up2pc

CONSTANTS
  Near,        \* the applications the device can be reached from directly
  Cmd,         \* the commands they send
  FileArg,     \* the payloads of CMD_FILE_TXT: FILE_Ts, or NoArg if too short
  ScanIdx,     \* the idx of a LAN scan: the low 16 bits of the clock
  MaxSend,     \* bound: packet_idx
  MaxOpen,     \* bound: sessions an application opens
  MaxRestart   \* bound: starts of an application after the first

ASSUME SessionAssumption ==
  /\ Near \subseteq Client
  /\ Cmd \subseteq DataCmd \ {"UpdateToken"}
  /\ ScanIdx \subseteq Nat
  /\ MaxSend \in Nat /\ MaxSend < 2^16
  /\ MaxOpen \in Nat
  /\ MaxRestart \in Nat

VARIABLES
  phase,       \* "closed", "opening", "open" or "waiting" for an answer
  ckey,        \* key0, key1 of the ULINK
  tok,         \* token of the ULINK
  pktIdx,      \* packet_idx
  sendbuf,     \* sendbuf: the request being waited for
  opens,       \* sessions opened so far
  epoch,       \* restarts so far
  reqs,        \* every packet sent to the device
  acked        \* history: the requests reported done to the application

appVars == <<phase, ckey, tok, pktIdx, sendbuf, opens, epoch, reqs, acked>>
vars    == <<devVars, appVars>>

NoRequest == [id |-> <<Zero, 0, 0>>, src |-> Zero, from |-> NoAddr, idx |-> 0,
              cmd |-> "None", key |-> Plain, token |-> 0, arg |-> NoArg]

Init ==
  /\ DevInit
  /\ phase = [c \in Client |-> "closed"]
  /\ ckey = [c \in Client |-> BootKey]
  /\ tok = [c \in Client |-> 0]
  /\ pktIdx = [c \in Client |-> 0]
  /\ sendbuf = [c \in Client |-> NoRequest]
  /\ opens = [c \in Client |-> 0] /\ epoch = [c \in Client |-> 0]
  /\ reqs = {} /\ acked = {}

\* The ids of the encrypted requests.
CommandId == Client \X (0 .. MaxRestart) \X (1 .. MaxSend)

\* send_packet: straight to a device known to be near, else to the relay.
Route(c) == {Server} \cup ({c} \cap Near)

Args(cmd) ==
  CASE cmd = "SendKey"    -> Key
    [] cmd = "ConfigHost" -> {Server}
    [] cmd = "FileTxt"    -> FileArg
    [] OTHER              -> {NoArg}

\* up2pa_send_data_cmd with up2pa_send_cmd: a fresh index for every request.
NewRequest(c, k, t, cmd, arg, from) ==
  [id |-> <<c, epoch[c], pktIdx[c] + 1>>, src |-> c, from |-> from,
   idx |-> pktIdx[c] + 1, cmd |-> cmd, key |-> k, token |-> t, arg |-> arg]

Transmit(c, k, t, cmd) ==
  /\ pktIdx[c] < MaxSend
  /\ \E from \in Route(c), arg \in Args(cmd) :
       LET p == NewRequest(c, k, t, cmd, arg, from) IN
       /\ pktIdx' = [pktIdx EXCEPT ![c] = p.idx]
       /\ sendbuf' = [sendbuf EXCEPT ![c] = p]
       /\ reqs' = reqs \cup {p}

\* ulink_open, once the device is found: the session starts with token 0.
Open(c) ==
  /\ phase[c] = "closed" /\ opens[c] < MaxOpen
  /\ \E k \in Key : ckey' = [ckey EXCEPT ![c] = k] /\ Transmit(c, k, 0, "UpdateToken")
  /\ tok' = [tok EXCEPT ![c] = 0]
  /\ phase' = [phase EXCEPT ![c] = "opening"]
  /\ opens' = [opens EXCEPT ![c] = @ + 1]
  /\ UNCHANGED <<devVars, epoch, acked>>

\* ulink_cmd_send, and ulink_cmd_wait for the commands that have an answer.
Command(c, cmd) ==
  /\ phase[c] = "open"
  /\ Transmit(c, ckey[c], tok[c], cmd)
  /\ phase' = IF AckOf[cmd] = "None" THEN phase
              ELSE [phase EXCEPT ![c] = "waiting"]
  /\ UNCHANGED <<devVars, ckey, tok, opens, epoch, acked>>

\* common_wait_cmd sends sendbuf again; send_packet chooses its way anew.
Resend(c) ==
  /\ phase[c] \in {"opening", "waiting"}
  /\ \E from \in Route(c) : reqs' = reqs \cup {[sendbuf[c] EXCEPT !.from = from]}
  /\ UNCHANGED <<devVars, phase, ckey, tok, pktIdx, sendbuf, opens, epoch, acked>>

\* Had the relay not looked at the destination.
MatchesAnyone(c, a) ==
  /\ a.to \in {c, Server}
  /\ a.key = ckey[c] /\ a.token = tok[c] /\ a.idx = pktIdx[c]

\* Had the index not been compared.
MatchesAnyIdx(c, a) ==
  /\ a.dst = c /\ a.to \in {c, Server}
  /\ a.key = ckey[c] /\ a.token = tok[c]

\* An answer reaches c, straight or by the relay, which goes by its destination.
\* It is for the last request sent and decrypts to the token of the session; any
\* other is thrown away and the wait goes on.
Answers(c, a) == MatchesAnyIdx(c, a) /\ a.idx = pktIdx[c]

\* The awaited answer: the session has its token, or the command is done.
Accept(c, a) ==
  /\ phase[c] \in {"opening", "waiting"}
  /\ Answers(c, a) /\ a.cmd = AckOf[sendbuf[c].cmd]
  /\ tok' = IF phase[c] = "opening" THEN [tok EXCEPT ![c] = a.arg.value] ELSE tok
  /\ phase' = [phase EXCEPT ![c] = "open"]
  /\ acked' = acked \cup {sendbuf[c].id}
  /\ UNCHANGED <<devVars, ckey, pktIdx, sendbuf, opens, epoch, reqs>>

GiveUp(c) ==
  /\ phase' = [phase EXCEPT ![c] = IF @ = "opening" THEN "closed" ELSE "open"]
  /\ UNCHANGED <<devVars, ckey, tok, pktIdx, sendbuf, opens, epoch, reqs, acked>>

\* Another answer with the same index ends the wait in an error.
Reject(c, a) ==
  /\ phase[c] \in {"opening", "waiting"}
  /\ Answers(c, a) /\ a.cmd # AckOf[sendbuf[c].cmd]
  /\ GiveUp(c)

Timeout(c) == phase[c] \in {"opening", "waiting"} /\ GiveUp(c)

Close(c) ==
  /\ phase[c] = "open"
  /\ phase' = [phase EXCEPT ![c] = "closed"]
  /\ UNCHANGED <<devVars, ckey, tok, pktIdx, sendbuf, opens, epoch, reqs, acked>>

\* up2pa_send_online, and a ping: neither is encrypted, neither is numbered.  It
\* leaves sendbuf to the next command, which comes before anyone reads it.
Probe(c) ==
  /\ c \in Near /\ phase[c] \in {"closed", "open"}
  /\ \E cmd \in PlainCmd, i \in ScanIdx :
       reqs' = reqs \cup {[id |-> <<Zero, 0, i>>, src |-> c, from |-> c, idx |-> i,
                           cmd |-> cmd, key |-> Plain, token |-> 0, arg |-> NoArg]}
  /\ UNCHANGED <<devVars, phase, ckey, tok, pktIdx, sendbuf, opens, epoch, acked>>

\* The application ends and starts again with ulink_init.
Restart(c) ==
  /\ epoch[c] < MaxRestart
  /\ epoch' = [epoch EXCEPT ![c] = @ + 1]
  /\ phase' = [phase EXCEPT ![c] = "closed"]
  /\ pktIdx' = [pktIdx EXCEPT ![c] = 0]
  /\ sendbuf' = [sendbuf EXCEPT ![c] = NoRequest]
  /\ UNCHANGED <<devVars, ckey, tok, opens, reqs, acked>>

App(c) ==
  \/ Open(c) \/ (\E cmd \in Cmd : Command(c, cmd)) \/ Resend(c)
  \/ (\E a \in out : Accept(c, a) \/ Reject(c, a))
  \/ Timeout(c) \/ Close(c) \/ Probe(c) \/ Restart(c)

Device ==
  \/ (\E p \in reqs : Recv(p)) \/ InstallToken \/ MainLoop \/ Reboot

Next == (Device /\ UNCHANGED appVars) \/ (\E c \in Client : App(c))

Spec == Init /\ [][Next]_vars

\* The packets of a session go on being delivered: a request that is sent
\* again and again is received, a packet that lies in the socket is read.  The
\* receive thread of the device is scheduled, its main loop need not be.
Fairness ==
  /\ WF_vars(InstallToken /\ UNCHANGED appVars)
  /\ \A c \in Client :
       /\ SF_vars(sendbuf[c] \in reqs /\ Recv(sendbuf[c]) /\ UNCHANGED appVars)
       /\ WF_vars(\E a \in out : Accept(c, a))

FairSpec == Spec /\ Fairness

-----------------------------------------------------------------------------
(* Properties.                                                             *)

\* Every variable keeps its type: the packets in the network are packets, and
\* the retransmission counters stay a u8.
TypeOK ==
  /\ DevTypeOK
  /\ phase \in [Client -> {"closed", "opening", "open", "waiting"}]
  /\ ckey \in [Client -> Key] /\ tok \in [Client -> Nat]
  /\ pktIdx \in [Client -> 0 .. MaxSend]
  /\ sendbuf \in [Client -> reqs \cup {NoRequest}]
  /\ opens \in [Client -> Nat] /\ epoch \in [Client -> 0 .. MaxRestart]
  /\ \A p \in reqs : IsRequest(p) /\ (p.cmd \in PlainCmd \/ p.id \in CommandId)
  /\ acked \subseteq CommandId

\* Whoever waits waits for its own last request, which has an answer.
WaitOK ==
  \A c \in Client : phase[c] \in {"opening", "waiting"} =>
     /\ sendbuf[c] \in reqs
     /\ sendbuf[c].src = c /\ sendbuf[c].id = <<c, epoch[c], pktIdx[c]>>
     /\ sendbuf[c].cmd \in DataCmd /\ AckOf[sendbuf[c].cmd] # "None"
     /\ phase[c] = "opening" => sendbuf[c].cmd = "UpdateToken"

\* common_wait_cmd returns the awaited answer only if the device did carry the
\* very request out, whatever else was answered, resent or restarted meanwhile.
AckMeansExecuted == acked \subseteq ran

\* When the application itself may restart and number its requests from 1 again,
\* what is left of it: some request of that index was carried out.
AckMeansIndexExecuted ==
  \A r \in acked : \E x \in ran : x[1] = r[1] /\ x[3] = r[3]

\* A request that up2pc_recv_cmd takes for the resend of the last one has been
\* carried out before: no new command is swallowed by the comparison of idx.
NothingSwallowed ==
  \A p \in reqs : Checked(p) /\ HasToken(p) /\ Repeated(p) => p.id \in ran

\* A refresh ends every earlier session: what was sent under an older token than
\* the last one drawn, and has not been carried out yet, is not.
SupersededNeverRuns ==
  [][\A p \in reqs :
       /\ p.cmd \notin PlainCmd \cup {"GetToken", "UpdateToken"}
       /\ p.token < rnd /\ p.id \notin ran
       => p.id \notin ran']_vars

\* No subscription has two slots, and no slot is half empty, in any order of
\* subscriptions, cancellations and their duplicates.
ObserverTableOK == WellFormedTable(observer)

\* Whoever is in the table asked to be, from the address kept there.
SubscribersAsked ==
  \A i \in Slot : Live(observer, i) =>
     \E p \in reqs : /\ p.cmd = "Observer" /\ p.id \in ran
                     /\ p.src = observer[i].id /\ p.from = observer[i].addr

\* A session that is the only one gets every answer: no wait of ulink_open or
\* ulink_cmd_wait can only end by its timeout.
EveryRequestAnswered ==
  \A c \in Client :
     phase[c] \in {"opening", "waiting"} ~> phase[c] \notin {"opening", "waiting"}

\* The channel implements RemoteCommand.
RC == INSTANCE RemoteCommand WITH
        Request   <- CommandId,
        issued    <- {p.id : p \in {q \in reqs : q.cmd \notin PlainCmd}},
        performed <- ran,
        confirmed <- acked

ImplementsRemoteCommand == RC!Spec

-----------------------------------------------------------------------------
(* What the comments of the code say and the code does not do.             *)

\* up2pc.c: a command that is sent again is only answered again.
NeverExecutedTwice == reran = {}
=============================================================================
