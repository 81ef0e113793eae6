------------------------ MODULE UlinkSession_proofs ------------------------
(***************************************************************************)
(* Proofs about UlinkSession, for every set of applications, keys and      *)
(* routes, every table size and every bound.                               *)
(***************************************************************************)
EXTENDS UlinkSession, ObserverTable_proofs, TLAPS

-----------------------------------------------------------------------------
(* Packets.                                                                *)

LEMMA DataCmdIs ==
  DataCmd = {"GetToken", "UpdateToken", "SendKey", "ConfigHost", "SendSerial",
             "ReadSerial", "TxrxSerial", "GpioInit", "GpioWrite", "FileName",
             "FileTxt", "Observer", "Unobserver", "UpdateAck", "SerialAck"}
BY DEF DataCmd, AckOf

LEMMA AckOfIs ==
  ASSUME NEW cmd \in DataCmd
  PROVE  /\ AckOf[cmd] \in AnswerCmd
         /\ AckOf[cmd] = "UpdateTokenAck" <=> cmd = "UpdateToken"
         /\ AckOf[cmd] \notin {"KeyErr", "Update", "Online", "GetHost", "PingAck",
                               "LanScanAck"}
<1>1. AckOf[cmd] \in AnswerCmd
  BY DEF AnswerCmd, Ack
<1>2. AckOf[cmd] = "UpdateTokenAck" <=> cmd = "UpdateToken"
  BY DataCmdIs DEF AckOf
<1>3. AckOf[cmd] \notin {"KeyErr", "Update", "Online", "GetHost", "PingAck",
                         "LanScanAck"}
  BY DataCmdIs DEF AckOf
<1> QED
  BY <1>1, <1>2, <1>3

\* The answers the device builds are packets.
LEMMA SealedIsAnswer ==
  ASSUME NEW p, IsRequest(p), NEW cmd \in AnswerCmd, NEW k \in Key, NEW t \in Nat,
         NEW arg, cmd = "UpdateTokenAck" => arg.value \in Nat
  PROVE  IsAnswer(Sealed(p, cmd, k, t, arg))
BY DEF IsRequest, IsAnswer, Sealed, Host

LEMMA ReplyIsAnswer ==
  ASSUME NEW p, IsRequest(p), p.cmd \in DataCmd, p.cmd # "UpdateToken",
         key \in Key, token \in Nat, NEW arg
  PROVE  IsAnswer(Reply(p, arg))
BY SealedIsAnswer, AckOfIs DEF Reply

LEMMA PlainlyIsAnswer ==
  ASSUME NEW p, IsRequest(p), NEW cmd \in AnswerCmd, cmd # "UpdateTokenAck"
  PROVE  IsAnswer(Plainly(p, cmd))
BY DEF IsRequest, IsAnswer, Plainly, Host

LEMMA ToServerIsAnswer ==
  ASSUME NEW cmd \in AnswerCmd, cmd # "UpdateTokenAck", NEW to \in Host
  PROVE  IsAnswer(ToServer(cmd, to))
BY DEF IsAnswer, ToServer

LEMMA MarkedIsAnswer ==
  ASSUME IsAnswer(lastSend)
  PROVE  IsAnswer(Marked)
BY DEF IsAnswer, Marked

LEMMA AstrayIsAnswer ==
  ASSUME IsAnswer(lastSend)
  PROVE  IsAnswer([lastSend EXCEPT !.to = NoAddr])
BY DEF IsAnswer

LEMMA UpdateIsAnswer ==
  ASSUME DevTypeOK, NEW i \in Slot
  PROVE  IsAnswer(Update(i))
<1>1. /\ observer[i].id \in Client \cup {Zero} /\ observer[i].index \in Nat
      /\ key \in Key /\ token \in Nat
  BY IdAssumption DEF DevTypeOK, ObserverSlot
<1> QED
  BY <1>1 DEF IsAnswer, Update, AnswerCmd

-----------------------------------------------------------------------------
(* The file.                                                               *)

LEMMA FileInitType ==
  ASSUME NEW f, IsFile(f), NEW g \in FileInit(f)
  PROVE  IsFile(g)
<1>1. CASE g = [f EXCEPT !.index = 1, !.fd = "open", !.pos = 0]
  BY <1>1 DEF IsFile
<1>2. CASE g = [f EXCEPT !.index = 1, !.fd = "closed"]
  BY <1>2 DEF IsFile
<1> QED
  BY <1>1, <1>2 DEF FileInit

LEMMA FileWriteType ==
  ASSUME NEW f, IsFile(f), NEW a, NEW r \in FileWrite(f, a)
  PROVE  IsFile(r.file)
<1>1. IsFile(StoreOK(f, a.block))
  <2>1. /\ f.index + 1 \in Nat /\ f.fd \in {"stdin", "open", "closed"}
        /\ (IF f.fd = "open" THEN f.pos + 1 ELSE f.pos) \in Nat
    BY DEF IsFile
  <2> QED
    BY <2>1 DEF StoreOK, IsFile
<1>2. IsFile([f EXCEPT !.fd = "closed"])
  BY DEF IsFile
<1>3. IsFile([f EXCEPT !.index = 0, !.fd = "closed"])
  BY DEF IsFile
<1>4. r.file \in {f, StoreOK(f, a.block), [f EXCEPT !.fd = "closed"],
                  [f EXCEPT !.index = 0, !.fd = "closed"]}
  <2> DEFINE s == StoreOK(f, a.block)
             c == [f EXCEPT !.fd = "closed"]
             e == [f EXCEPT !.index = 0, !.fd = "closed"]
  <2>1. FileWrite(f, a) =
          CASE a = NoArg      -> {[file |-> f, ans |-> Answer("CAN", 0)]}
            [] a.type = "TXT" -> StoreNext(f, a)
            [] a.type = "END" -> {[file |-> e, ans |-> Answer("ACK", 0)]}
            [] OTHER          -> {[file |-> f, ans |-> Answer("NONE", 0)]}
    BY DEF FileWrite
  <2>2. \A q \in StoreNext(f, a) : q.file \in {f, s, c}
    BY DEF StoreNext
  <2> HIDE DEF s, c, e
  <2> QED
    BY <2>1, <2>2 DEF s, c, e
<1> QED
  BY <1>1, <1>2, <1>3, <1>4

-----------------------------------------------------------------------------
(* Type correctness: the device.                                           *)

LEMMA DevInitTypeOK ==
  ASSUME DevInit
  PROVE  DevTypeOK
<1>1. IsAnswer(NoPacket)
  BY DEF IsAnswer, NoPacket, AnswerCmd
<1>2. observer \in Table
  BY EmptySlotType DEF DevInit, Table
<1>3. IsFile(file)
  BY DEF DevInit, FileBoot, IsFile
<1>4. slot \in 1 .. MaxObs + 1 /\ server \in Host
  BY ObserverAssumption DEF DevInit, Host
<1> QED
  BY <1>1, <1>2, <1>3, <1>4, DeviceAssumption DEF DevInit, DevTypeOK, Table

\* What is sent is a packet, so the buffer and the network hold packets.
LEMMA SendType ==
  ASSUME NEW q, IsAnswer(q), \A r \in out : IsAnswer(r), Send(q)
  PROVE  IsAnswer(lastSend') /\ \A r \in out' : IsAnswer(r)
BY DEF Send

LEMMA SilentType ==
  ASSUME IsAnswer(lastSend), \A r \in out : IsAnswer(r), Silent
  PROVE  IsAnswer(lastSend') /\ \A r \in out' : IsAnswer(r)
BY MarkedIsAnswer DEF Silent

LEMMA RunType ==
  ASSUME NEW p, IsRequest(p), ran \subseteq RequestId, reran \subseteq ran, Run(p)
  PROVE  ran' \subseteq RequestId /\ reran' \subseteq ran'
BY DEF Run, IsRequest

LEMMA CheckedIsData ==
  ASSUME NEW p, IsRequest(p), Checked(p)
  PROVE  p.cmd \in DataCmd
BY DEF Checked, IsRequest

LEMMA FreshIsChecked ==
  ASSUME NEW p, DevTypeOK, IsRequest(p), Fresh(p)
  PROVE  /\ p.cmd \in DataCmd /\ p.cmd \notin {"GetToken", "UpdateToken"}
         /\ p.src \in Client /\ p.from \in Host
BY CheckedIsData DEF Fresh, Checked, HasToken, IsRequest

\* Every request leaves the device in a state of its type.
LEMMA RecvTypeOK ==
  ASSUME DevTypeOK, NEW p, IsRequest(p), Recv(p)
  PROVE  DevTypeOK'
<1> USE DEF sessionVars, mainVars, history
<1>1. CASE RecvPlain(p)
  <2>1. IsAnswer(lastSend') /\ \A r \in out' : IsAnswer(r)
    BY <1>1, PlainlyIsAnswer, SendType DEF RecvPlain, DevTypeOK, AnswerCmd
  <2> QED
    BY <1>1, <2>1 DEF RecvPlain, DevTypeOK
<1>2. CASE RecvGetToken(p)
  <2>1. IsAnswer(lastSend') /\ \A r \in out' : IsAnswer(r)
    BY <1>2, DataCmdIs, ReplyIsAnswer, SendType DEF RecvGetToken, DevTypeOK
  <2> QED
    BY <1>2, <2>1 DEF RecvGetToken, DevTypeOK, IsRequest
<1>3. CASE RecvUpdateToken(p)
  <2>1. newToken' \in Nat /\ rnd' \in Nat
    BY <1>3 DEF RecvUpdateToken, Draw, DevTypeOK
  <2>2. "UpdateTokenAck" \in AnswerCmd /\ Value("token", newToken').value \in Nat
    BY <2>1, AckOfIs, DataCmdIs DEF Value
  <2>3. IsAnswer(lastSend') /\ \A r \in out' : IsAnswer(r)
    BY <1>3, <2>1, <2>2, SealedIsAnswer, SendType DEF RecvUpdateToken, DevTypeOK
  <2> QED
    BY <1>3, <2>1, <2>3 DEF RecvUpdateToken, DevTypeOK, IsRequest
<1>4. CASE RecvBadToken(p)
  <2>1. IsAnswer(lastSend') /\ \A r \in out' : IsAnswer(r)
    BY <1>4, SealedIsAnswer, SendType DEF RecvBadToken, DevTypeOK, AnswerCmd
  <2> QED
    BY <1>4, <2>1 DEF RecvBadToken, DevTypeOK
<1>5. CASE RecvRepeated(p)
  BY <1>5, AstrayIsAnswer DEF RecvRepeated, DevTypeOK
<1>6. CASE Execute(p)
  <2>1. Fresh(p)
    BY <1>6 DEF Execute, Subscribe, Unsubscribe, StatusAcked, Hardware, Ignored,
                SetKey, ConfigHost, NameFile, WriteFile
  <2>2. /\ p.cmd \in DataCmd /\ p.cmd \notin {"GetToken", "UpdateToken"}
        /\ p.src \in Client /\ p.from \in Host
    BY <2>1, FreshIsChecked
  <2>3. \A arg : IsAnswer(Reply(p, arg))
    BY <2>2, ReplyIsAnswer DEF DevTypeOK
  <2>4. observer \in Table
    BY DEF DevTypeOK, Table
  <2>5. CASE Subscribe(p)
    <3>1. observer' \in Table
      BY <2>2, <2>4, <2>5, RegisterType DEF Subscribe
    <3> QED
      BY <2>3, <2>5, <3>1, SendType, RunType DEF Subscribe, DevTypeOK, Table
  <2>6. CASE Unsubscribe(p)
    <3>1. observer' \in Table
      BY <2>2, <2>4, <2>6, UnregisterType DEF Unsubscribe
    <3> QED
      BY <2>3, <2>6, <3>1, SendType, RunType DEF Unsubscribe, DevTypeOK, Table
  <2>7. CASE StatusAcked(p)
    <3>1. observer' \in Table
      BY <2>2, <2>4, <2>7, StopRetransmitType DEF StatusAcked
    <3> QED
      BY <2>7, <3>1, SilentType, RunType DEF StatusAcked, DevTypeOK, Table
  <2>8. CASE Hardware(p)
    BY <2>3, <2>8, SendType, RunType DEF Hardware, DevTypeOK
  <2>9. CASE Ignored(p)
    BY <2>9, SilentType DEF Ignored, DevTypeOK
  <2>10. CASE SetKey(p)
    <3>1. key' \in Key
      BY <2>10 DEF SetKey, IsRequest
    <3>2. IsAnswer(Sealed(p, AckOf[p.cmd], p.arg, token, NoArg))
      BY <2>2, <2>10, <3>1, SealedIsAnswer, AckOfIs DEF SetKey, DevTypeOK
    <3> QED
      BY <2>10, <3>1, <3>2, SendType, RunType DEF SetKey, DevTypeOK
  <2>11. CASE ConfigHost(p)
    <3>1. server' \in Host
      BY <2>11 DEF ConfigHost, DevTypeOK, IsRequest
    <3>2. IsAnswer(ToServer("GetHost", server'))
      BY <3>1, ToServerIsAnswer DEF AnswerCmd
    <3>3. IsAnswer(lastSend') /\ \A r \in out' : IsAnswer(r)
      BY <2>3, <2>11, <3>2 DEF ConfigHost, DevTypeOK
    <3> QED
      BY <2>11, <3>1, <3>3, RunType DEF ConfigHost, DevTypeOK
  <2>12. CASE NameFile(p)
    <3>1. IsAnswer(lastSend') /\ \A r \in out' : IsAnswer(r)
      BY <2>3, <2>12, SendType, SilentType DEF NameFile, DevTypeOK
    <3>2. IsFile(file')
      BY <2>12, FileInitType DEF NameFile, DevTypeOK
    <3> QED
      BY <2>12, <3>1, <3>2, RunType DEF NameFile, DevTypeOK
  <2>13. CASE WriteFile(p)
    <3>1. PICK r \in FileWrite(file, p.arg) : file' = r.file /\ Send(Reply(p, r.ans))
      BY <2>13 DEF WriteFile
    <3>2. IsAnswer(lastSend') /\ \A q \in out' : IsAnswer(q)
      BY <2>3, <3>1, SendType DEF DevTypeOK
    <3>3. IsFile(file')
      BY <3>1, FileWriteType DEF DevTypeOK
    <3> QED
      BY <2>13, <3>2, <3>3, RunType DEF WriteFile, DevTypeOK
  <2> QED
    BY <1>6, <2>5, <2>6, <2>7, <2>8, <2>9, <2>10, <2>11, <2>12, <2>13 DEF Execute
<1> QED
  BY <1>1, <1>2, <1>3, <1>4, <1>5, <1>6 DEF Recv

\* So does every other step of the device.
LEMMA MainLoopTypeOK ==
  ASSUME DevTypeOK, MainLoop
  PROVE  DevTypeOK'
<1> USE DEF sessionVars, mainVars, history
<1>0. observer \in Table /\ slot \in 1 .. MaxObs + 1 /\ server \in Host
  BY DEF DevTypeOK, Table
<1>9. 1 \in 1 .. MaxObs + 1 /\ \A i \in Slot : i + 1 \in 1 .. MaxObs + 1
  BY ObserverAssumption DEF Slot
<1>1. CASE Start
  <2>1. IsAnswer(ToServer("GetHost", server))
    BY <1>0, ToServerIsAnswer DEF AnswerCmd
  <2> QED
    BY <1>1, <2>1, SendType DEF Start, DevTypeOK
<1>2. CASE NewStatus
  <2>1. status' \in Nat /\ slot' \in 1 .. MaxObs + 1
    BY <1>2, <1>9 DEF NewStatus, DevTypeOK
  <2> QED
    BY <1>2, <2>1 DEF NewStatus, DevTypeOK
<1>3. CASE StartRetransmit
  <2>1. slot' \in 1 .. MaxObs + 1
    BY <1>3, <1>9 DEF StartRetransmit
  <2> QED
    BY <1>3, <2>1 DEF StartRetransmit, DevTypeOK
<1>4. CASE SendSlot
  <2>1. IsAnswer(Update(slot)) /\ observer' \in Table
    BY <1>0, <1>4, UpdateIsAnswer, CountType DEF SendSlot
  <2> QED
    BY <1>4, <2>1, SendType DEF SendSlot, DevTypeOK, Table
<1>5. CASE SkipSlot
  <2>1. slot' \in 1 .. MaxObs + 1 /\ mpc \in {"push", "retransmit"}
    BY <1>5, <1>9 DEF SkipSlot
  <2> QED
    BY <1>5, <2>1 DEF SkipSlot, DevTypeOK
<1>6. CASE CountSlot
  <2>1. slot \in Slot /\ slot' \in 1 .. MaxObs + 1
    BY <1>6, <1>9 DEF CountSlot, DevTypeOK
  <2>2. observer' \in Table
    BY <1>0, <1>6, <2>1, CountType DEF CountSlot
  <2> QED
    BY <1>6, <2>1, <2>2 DEF CountSlot, DevTypeOK, Table
<1>7. CASE EndLoop
  <2>1. slot' \in 1 .. MaxObs + 1 /\ mpc' \in {"beat", "retransmit"}
    BY <1>0, <1>7, <1>9 DEF EndLoop
  <2> QED
    BY <1>7, <2>1 DEF EndLoop, DevTypeOK
<1>8. CASE Heartbeat
  <2>1. IsAnswer(ToServer("Online", server)) /\ 1 \in 1 .. MaxObs + 1
    BY <1>0, <1>9, ToServerIsAnswer DEF AnswerCmd
  <2> QED
    BY <1>8, <2>1, SendType DEF Heartbeat, DevTypeOK
<1> QED
  BY <1>1, <1>2, <1>3, <1>4, <1>5, <1>6, <1>7, <1>8 DEF MainLoop

LEMMA InstallTokenTypeOK ==
  ASSUME DevTypeOK, InstallToken
  PROVE  DevTypeOK'
BY DEF InstallToken, DevTypeOK, mainVars, history

LEMMA RebootTypeOK ==
  ASSUME DevTypeOK, Reboot
  PROVE  DevTypeOK'
<1>1. IsAnswer(NoPacket)
  BY DEF IsAnswer, NoPacket, AnswerCmd
<1>2. observer' \in Table
  BY EmptySlotType DEF Reboot, Table
<1>3. IsFile(FileBoot(file.data))
  BY DEF FileBoot, IsFile
<1>4. 1 \in 1 .. MaxObs + 1 /\ Server \in Host /\ BootKey \in Key
  BY ObserverAssumption, DeviceAssumption DEF Host
<1>5. boots' \in Nat
  BY DEF Reboot, DevTypeOK
<1>6. IsAnswer(lastSend') /\ \A q \in out' : IsAnswer(q)
  BY <1>1 DEF Reboot, DevTypeOK
<1>7. ran' \subseteq RequestId /\ reran' \subseteq ran'
  BY DEF Reboot, DevTypeOK, history
<1>8. IsFile(file')
  BY <1>3 DEF Reboot
<1> QED
  BY <1>2, <1>4, <1>5, <1>6, <1>7, <1>8 DEF Reboot, DevTypeOK, Table

-----------------------------------------------------------------------------
(* Type correctness: the applications.                                     *)

LEMMA RouteIsHost ==
  ASSUME NEW c \in Client, NEW from \in Route(c)
  PROVE  from \in Host
BY DEF Route, Host

LEMMA NextOfRange ==
  ASSUME NEW m \in Nat, NEW n \in 0 .. m, n < m
  PROVE  n + 1 \in 1 .. m /\ n + 1 \in 0 .. m /\ n + 1 \in Nat
OBVIOUS

\* The next request of an application has an id of its own.
LEMMA NextRequestId ==
  ASSUME TypeOK, NEW c \in Client, pktIdx[c] < MaxSend
  PROVE  /\ pktIdx[c] + 1 \in 0 .. MaxSend /\ pktIdx[c] + 1 \in Nat
         /\ <<c, epoch[c], pktIdx[c] + 1>> \in CommandId
         /\ <<c, epoch[c], pktIdx[c] + 1>> \in RequestId
<1>1. MaxSend \in Nat
  BY SessionAssumption
<1>2. pktIdx[c] \in 0 .. MaxSend /\ epoch[c] \in 0 .. MaxRestart
  BY DEF TypeOK
<1>3. /\ pktIdx[c] + 1 \in 1 .. MaxSend /\ pktIdx[c] + 1 \in 0 .. MaxSend
      /\ pktIdx[c] + 1 \in Nat
  BY <1>1, <1>2, NextOfRange, Zenon
<1>4. epoch[c] \in Nat
  BY <1>2
<1> QED
  BY <1>2, <1>3, <1>4, Zenon DEF CommandId, RequestId

\* A new request is a packet, and bears the id of a command.
LEMMA TransmitType ==
  ASSUME TypeOK, NEW c \in Client, NEW k \in Key, NEW t \in Nat,
         NEW cmd \in DataCmd, Transmit(c, k, t, cmd)
  PROVE  /\ pktIdx' \in [Client -> 0 .. MaxSend]
         /\ IsRequest(sendbuf'[c]) /\ sendbuf'[c].id \in CommandId
         /\ \A d \in Client \ {c} : sendbuf'[d] = sendbuf[d]
         /\ reqs' = reqs \cup {sendbuf'[c]}
<1>1. PICK from \in Route(c), arg \in Args(cmd) :
        LET p == NewRequest(c, k, t, cmd, arg, from) IN
        /\ pktIdx' = [pktIdx EXCEPT ![c] = p.idx]
        /\ sendbuf' = [sendbuf EXCEPT ![c] = p]
        /\ reqs' = reqs \cup {p}
  BY DEF Transmit
<1> DEFINE p == NewRequest(c, k, t, cmd, arg, from)
<1>2. pktIdx[c] < MaxSend
  BY DEF Transmit
<1>3. p.id \in CommandId /\ p.id \in RequestId /\ p.idx \in 0 .. MaxSend /\ p.idx \in Nat
  BY <1>2, NextRequestId DEF NewRequest
<1>4. IsRequest(p)
  <2>1. cmd = "SendKey" => arg \in Key
    BY <1>1 DEF Args
  <2>2. cmd = "ConfigHost" => arg \in Host
    BY <1>1 DEF Args, Host
  <2>3. from \in Host
    BY <1>1, RouteIsHost
  <2> QED
    BY <1>3, <2>1, <2>2, <2>3 DEF NewRequest, IsRequest
<1> HIDE DEF p
<1>5. pktIdx \in [Client -> 0 .. MaxSend] /\ DOMAIN sendbuf = Client
  BY DEF TypeOK
<1>6. /\ pktIdx' = [pktIdx EXCEPT ![c] = p.idx]
      /\ sendbuf' = [sendbuf EXCEPT ![c] = p]
      /\ reqs' = reqs \cup {p}
  BY <1>1 DEF p
<1>7. /\ pktIdx' \in [Client -> 0 .. MaxSend]
      /\ sendbuf'[c] = p
      /\ \A d \in Client \ {c} : sendbuf'[d] = sendbuf[d]
  BY <1>3, <1>5, <1>6
<1> QED
  BY <1>3, <1>4, <1>6, <1>7


\* The steps of an application leave the device alone and keep the types.
LEMMA AppTypeOK ==
  ASSUME TypeOK, WaitOK, NEW c \in Client, App(c)
  PROVE  TypeOK'
<1> DEFINE ReqsOK == \A p \in reqs : IsRequest(p) /\ (p.cmd \in PlainCmd \/ p.id \in CommandId)
<1>0. UNCHANGED devVars => DevTypeOK'
  BY DEF TypeOK, DevTypeOK, devVars, sessionVars, mainVars, history
<1>a. /\ phase \in [Client -> {"closed", "opening", "open", "waiting"}]
      /\ ckey \in [Client -> Key] /\ tok \in [Client -> Nat]
      /\ opens \in [Client -> Nat] /\ epoch \in [Client -> 0 .. MaxRestart]
      /\ pktIdx \in [Client -> 0 .. MaxSend]
      /\ sendbuf \in [Client -> reqs \cup {NoRequest}]
      /\ acked \subseteq CommandId /\ ReqsOK
  BY DEF TypeOK
<1>b. ASSUME NEW k \in Key, NEW t \in Nat, NEW cmd \in DataCmd, Transmit(c, k, t, cmd)
      PROVE  /\ pktIdx' \in [Client -> 0 .. MaxSend]
             /\ sendbuf' \in [Client -> reqs' \cup {NoRequest}]
             /\ ReqsOK'
  <2>1. sendbuf' = [d \in Client |-> sendbuf'[d]]
    BY <1>a, <1>b DEF Transmit
  <2>2. /\ pktIdx' \in [Client -> 0 .. MaxSend]
        /\ IsRequest(sendbuf'[c]) /\ sendbuf'[c].id \in CommandId
        /\ \A d \in Client \ {c} : sendbuf'[d] = sendbuf[d]
        /\ reqs' = reqs \cup {sendbuf'[c]}
    BY <1>b, TransmitType
  <2> QED
    BY <1>a, <2>1, <2>2
<1> DEFINE AppOK ==
      /\ phase \in [Client -> {"closed", "opening", "open", "waiting"}]
      /\ ckey \in [Client -> Key] /\ tok \in [Client -> Nat]
      /\ opens \in [Client -> Nat] /\ epoch \in [Client -> 0 .. MaxRestart]
      /\ acked \subseteq CommandId
<1>c. SUFFICES /\ UNCHANGED devVars /\ AppOK'
               /\ pktIdx' \in [Client -> 0 .. MaxSend]
               /\ sendbuf' \in [Client -> reqs' \cup {NoRequest}]
               /\ ReqsOK'
  BY <1>0 DEF TypeOK
<1> HIDE DEF ReqsOK
<1>1. CASE Open(c)
  <2>1. PICK k \in Key : /\ ckey' = [ckey EXCEPT ![c] = k]
                        /\ Transmit(c, k, 0, "UpdateToken")
    BY <1>1 DEF Open
  <2>2. "UpdateToken" \in DataCmd /\ 0 \in Nat
    BY DataCmdIs
  <2>3. UNCHANGED devVars /\ AppOK'
    BY <1>1, <1>a, <2>1 DEF Open
  <2> QED
    BY <1>b, <2>1, <2>2, <2>3
<1>2. CASE \E cmd \in Cmd : Command(c, cmd)
  <2>1. PICK cmd \in Cmd : Command(c, cmd)
    BY <1>2
  <2>2. cmd \in DataCmd
    BY SessionAssumption
  <2>3. ckey[c] \in Key /\ tok[c] \in Nat
    BY <1>a
  <2>4. UNCHANGED devVars /\ AppOK'
    BY <1>a, <2>1 DEF Command
  <2> QED
    BY <1>b, <2>1, <2>2, <2>3, <2>4 DEF Command
<1>3. CASE Resend(c)
  <2>1. PICK from \in Route(c) : reqs' = reqs \cup {[sendbuf[c] EXCEPT !.from = from]}
    BY <1>3 DEF Resend
  <2>2. sendbuf[c] \in reqs /\ sendbuf[c].cmd \in DataCmd
    BY <1>3 DEF Resend, WaitOK
  <2>3. /\ IsRequest(sendbuf[c])
        /\ sendbuf[c].cmd \in PlainCmd \/ sendbuf[c].id \in CommandId
    BY <1>a, <2>2 DEF ReqsOK
  <2> DEFINE p == [sendbuf[c] EXCEPT !.from = from]
  <2>4. IsRequest(p) /\ p.cmd = sendbuf[c].cmd /\ p.id = sendbuf[c].id
    BY <2>1, <2>3, RouteIsHost DEF IsRequest
  <2>5. ReqsOK'
    BY <1>a, <2>1, <2>3, <2>4 DEF ReqsOK
  <2>6. UNCHANGED devVars /\ AppOK' /\ pktIdx' \in [Client -> 0 .. MaxSend]
    BY <1>3, <1>a DEF Resend
  <2>7. sendbuf' = sendbuf /\ reqs \subseteq reqs'
    BY <1>3, <2>1 DEF Resend
  <2> QED
    BY <1>a, <2>5, <2>6, <2>7
<1>4. CASE \E a \in out : Accept(c, a)
  <2>1. PICK a \in out : Accept(c, a)
    BY <1>4
  <2>2. IsAnswer(a) /\ sendbuf[c] \in reqs /\ sendbuf[c].cmd \in DataCmd
    BY <2>1 DEF Accept, WaitOK, TypeOK, DevTypeOK
  <2>3. sendbuf[c].id \in CommandId
    BY <1>a, <2>2, DataCmdIs DEF ReqsOK, PlainCmd
  <2>4. phase[c] = "opening" => a.arg.value \in Nat
    <3>1. SUFFICES ASSUME phase[c] = "opening" PROVE a.cmd = "UpdateTokenAck"
      BY <2>2 DEF IsAnswer
    <3> QED
      BY <2>1, <3>1, AckOfIs, DataCmdIs DEF Accept, WaitOK
  <2>5. tok' \in [Client -> Nat]
    BY <1>a, <2>1, <2>4 DEF Accept
  <2>6. UNCHANGED devVars /\ AppOK'
    BY <1>a, <2>1, <2>3, <2>5 DEF Accept
  <2>7. UNCHANGED <<pktIdx, sendbuf, reqs>>
    BY <2>1 DEF Accept
  <2> QED
    BY <1>a, <2>6, <2>7 DEF ReqsOK
<1>5. CASE GiveUp(c)
  BY <1>5, <1>a DEF GiveUp, ReqsOK
<1>6. CASE Close(c)
  BY <1>6, <1>a DEF Close, ReqsOK
<1>7. CASE Probe(c)
  <2>1. PICK cmd \in PlainCmd, i \in ScanIdx :
          reqs' = reqs \cup {[id |-> <<Zero, 0, i>>, src |-> c, from |-> c, idx |-> i,
                             cmd |-> cmd, key |-> Plain, token |-> 0, arg |-> NoArg]}
    BY <1>7 DEF Probe
  <2>2. i \in Nat /\ cmd \notin {"SendKey", "ConfigHost"}
    BY SessionAssumption DEF PlainCmd
  <2>3. ReqsOK'
    BY <1>a, <2>1, <2>2 DEF ReqsOK, IsRequest, RequestId, Host
  <2>4. UNCHANGED devVars /\ AppOK' /\ pktIdx' \in [Client -> 0 .. MaxSend]
    BY <1>7, <1>a DEF Probe
  <2>5. sendbuf' = sendbuf /\ reqs \subseteq reqs'
    BY <1>7, <2>1 DEF Probe
  <2> QED
    BY <1>a, <2>3, <2>4, <2>5
<1>8. CASE Restart(c)
  <2>1. UNCHANGED devVars /\ ReqsOK'
    BY <1>8, <1>a DEF Restart, ReqsOK
  <2>2. epoch' \in [Client -> 0 .. MaxRestart]
    <3>1. epoch[c] \in 0 .. MaxRestart
      BY <1>a
    <3>2. epoch[c] < MaxRestart
      BY <1>8 DEF Restart
    <3>3. epoch[c] + 1 \in 0 .. MaxRestart
      BY <3>1, <3>2, SessionAssumption
    <3> QED
      BY <1>8, <1>a, <3>3 DEF Restart
  <2>3. 0 \in 0 .. MaxSend
    BY SessionAssumption
  <2>4. AppOK' /\ pktIdx' \in [Client -> 0 .. MaxSend]
    BY <1>8, <1>a, <2>2, <2>3 DEF Restart
  <2> QED
    BY <1>8, <1>a, <2>1, <2>4 DEF Restart
<1> QED
  BY <1>1, <1>2, <1>3, <1>4, <1>5, <1>6, <1>7, <1>8 DEF App, Reject, Timeout

\* Who sent a request waits for it; nobody else's wait is touched.
LEMMA AppWaitOK ==
  ASSUME TypeOK, WaitOK, NEW c \in Client, App(c)
  PROVE  WaitOK'
<1> DEFINE W(d) == phase[d] \in {"opening", "waiting"} =>
             /\ sendbuf[d] \in reqs
             /\ sendbuf[d].src = d /\ sendbuf[d].id = <<d, epoch[d], pktIdx[d]>>
             /\ sendbuf[d].cmd \in DataCmd /\ AckOf[sendbuf[d].cmd] # "None"
             /\ phase[d] = "opening" => sendbuf[d].cmd = "UpdateToken"
<1>a. /\ phase \in [Client -> {"closed", "opening", "open", "waiting"}]
      /\ epoch \in [Client -> 0 .. MaxRestart] /\ pktIdx \in [Client -> 0 .. MaxSend]
      /\ sendbuf \in [Client -> reqs \cup {NoRequest}]
  BY DEF TypeOK
<1>b. \A d \in Client : W(d)
  BY DEF WaitOK
<1>c. reqs \subseteq reqs'
  BY DEF App, Open, Command, Transmit, Resend, Accept, Reject, Timeout, GiveUp, Close,
         Probe, Restart
<1>d. \A d \in Client \ {c} : UNCHANGED <<phase[d], sendbuf[d], epoch[d], pktIdx[d]>>
  BY <1>a DEF App, Open, Command, Transmit, Resend, Accept, Reject, Timeout, GiveUp,
              Close, Probe, Restart
<1>e. ASSUME NEW k, NEW t, NEW cmd \in DataCmd, Transmit(c, k, t, cmd), epoch' = epoch
      PROVE  /\ sendbuf'[c] \in reqs' /\ sendbuf'[c].src = c
             /\ sendbuf'[c].id = <<c, epoch'[c], pktIdx'[c]>>
             /\ sendbuf'[c].cmd = cmd
  BY <1>a, <1>e DEF Transmit, NewRequest
<1>1. W(c)'
  <2>1. CASE Open(c)
    <3>1. PICK k \in Key : Transmit(c, k, 0, "UpdateToken")
      BY <2>1 DEF Open
    <3>2. "UpdateToken" \in DataCmd /\ AckOf["UpdateToken"] # "None"
      BY DataCmdIs DEF AckOf
    <3>3. epoch' = epoch
      BY <2>1 DEF Open
    <3> QED
      BY <1>e, <3>1, <3>2, <3>3
  <2>2. CASE \E cmd \in Cmd : Command(c, cmd)
    <3>1. PICK cmd \in Cmd : Command(c, cmd)
      BY <2>2
    <3>2. /\ cmd \in DataCmd /\ epoch' = epoch
          /\ Transmit(c, ckey[c], tok[c], cmd)
          /\ phase'[c] \in {"opening", "waiting"} =>
                AckOf[cmd] # "None" /\ phase'[c] = "waiting"
      <4>1. cmd \in DataCmd /\ phase[c] = "open"
        <5>1. cmd \in DataCmd
          BY <3>1, SessionAssumption
        <5>2. phase[c] = "open"
          BY <3>1 DEF Command
        <5> QED
          BY <5>1, <5>2
      <4>2. CASE AckOf[cmd] = "None"
        BY <3>1, <4>1, <4>2 DEF Command
      <4>3. CASE AckOf[cmd] # "None"
        BY <1>a, <3>1, <4>1, <4>3 DEF Command
      <4> QED
        BY <4>2, <4>3
    <3> QED
      BY <1>e, <3>2
  <2>3. CASE Resend(c) \/ Probe(c)
    BY <1>b, <1>c, <2>3 DEF Resend, Probe
  <2>4. CASE (\E a \in out : Accept(c, a) \/ Reject(c, a)) \/ Timeout(c) \/ Close(c)
             \/ Restart(c)
    <3>1. phase'[c] \in {"open", "closed"}
      BY <1>a, <2>4 DEF Accept, Reject, Timeout, GiveUp, Close, Restart
    <3> QED
      BY <3>1
  <2> QED
    BY <2>1, <2>2, <2>3, <2>4 DEF App
<1>2. \A d \in Client \ {c} : W(d)'
  BY <1>b, <1>c, <1>d
<1> QED
  BY <1>1, <1>2 DEF WaitOK

LEMMA DeviceTypeOK ==
  ASSUME TypeOK, WaitOK, Device, UNCHANGED appVars
  PROVE  TypeOK' /\ WaitOK'
<1>1. DevTypeOK'
  BY RecvTypeOK, InstallTokenTypeOK, MainLoopTypeOK, RebootTypeOK DEF Device, TypeOK
<1>2. TypeOK'
  BY <1>1 DEF TypeOK, appVars
<1>3. WaitOK'
  BY DEF WaitOK, appVars
<1> QED
  BY <1>2, <1>3

LEMMA TypeAndWait == Spec => [](TypeOK /\ WaitOK)
<1>1. Init => TypeOK /\ WaitOK
  <2> SUFFICES ASSUME Init PROVE TypeOK /\ WaitOK
    OBVIOUS
  <2>1. DevTypeOK
    BY DevInitTypeOK DEF Init
  <2>2. 0 \in 0 .. MaxSend /\ 0 \in 0 .. MaxRestart /\ BootKey \in Key
    BY DeviceAssumption, SessionAssumption
  <2>3. TypeOK
    BY <2>1, <2>2 DEF Init, TypeOK
  <2>4. WaitOK
    BY DEF Init, WaitOK
  <2> QED
    BY <2>3, <2>4
<1>2. TypeOK /\ WaitOK /\ [Next]_vars => TypeOK' /\ WaitOK'
  <2> SUFFICES ASSUME TypeOK, WaitOK, [Next]_vars PROVE TypeOK' /\ WaitOK'
    OBVIOUS
  <2>1. CASE Device /\ UNCHANGED appVars
    BY <2>1, DeviceTypeOK
  <2>2. CASE \E c \in Client : App(c)
    BY <2>2, AppTypeOK, AppWaitOK
  <2>3. CASE UNCHANGED vars
    BY <2>3 DEF vars, devVars, appVars, sessionVars, mainVars, history, TypeOK,
                DevTypeOK, WaitOK
  <2> QED
    BY <2>1, <2>2, <2>3 DEF Next
<1> QED
  BY <1>1, <1>2, PTL DEF Spec

\* Every variable keeps its type, for any number of applications, keys and
\* observer slots.
THEOREM TypeCorrect == Spec => []TypeOK
BY TypeAndWait, PTL

-----------------------------------------------------------------------------
(* A confirmed command was carried out.                                    *)

Issued == {p.id : p \in {q \in reqs : q.cmd \notin PlainCmd}}

CarriedOut(c, i) == \E x \in ran : x[1] = c /\ x[3] = i

\* The answer q, if it confirms anything, confirms what was carried out.
Honest(q) == q.cmd \in Ack /\ q.dst \in Client => CarriedOut(q.dst, q.idx)

\* The invariant behind AckMeansExecuted: an id names its sender and its index,
\* only what was issued was carried out, and neither the network nor the buffer
\* of the device holds a confirmation of anything else.
AckInv ==
  /\ \A p \in reqs : p.cmd \notin PlainCmd => p.id[1] = p.src /\ p.id[3] = p.idx
  /\ ran \subseteq Issued
  /\ \A q \in out : Honest(q)
  /\ Honest(lastSend)
  /\ AckMeansIndexExecuted

LEMMA NotAcks ==
  {"None", "KeyErr", "Update", "Online", "GetHost", "PingAck", "LanScanAck"}
    \cap Ack = {}
BY AckOfIs DEF Ack

\* What the receive thread sends, or leaves in the buffer, is the answer to the
\* request it has carried out, the last answer again, or no confirmation.
LEMMA RecvSends ==
  ASSUME DevTypeOK, NEW p, IsRequest(p), Recv(p)
  PROVE  /\ ran \subseteq ran' /\ ran' \subseteq ran \cup {p.id}
         /\ p.cmd \in PlainCmd => ran' = ran
         /\ \A q \in (out' \ out) \cup {lastSend'} : q.cmd \in Ack =>
              \/ p.cmd \notin PlainCmd /\ q.dst = p.src /\ q.idx = p.idx /\ p.id \in ran'
              \/ q.dst = lastSend.dst /\ q.idx = lastSend.idx /\ q.cmd = lastSend.cmd
              \/ q.dst = Dev
<1> USE DEF history
<1>1. CASE RecvPlain(p)
  BY <1>1, NotAcks DEF RecvPlain, Send, Plainly
<1>2. CASE RecvGetToken(p)
  BY <1>2 DEF RecvGetToken, Send, Reply, Sealed, PlainCmd
<1>3. CASE RecvUpdateToken(p)
  BY <1>3 DEF RecvUpdateToken, Send, Sealed, PlainCmd
<1>4. CASE RecvBadToken(p)
  BY <1>4, NotAcks DEF RecvBadToken, Send, Sealed
<1>5. CASE RecvRepeated(p)
  <2> DEFINE r == [lastSend EXCEPT !.to = NoAddr]
  <2>1. r.dst = lastSend.dst /\ r.idx = lastSend.idx /\ r.cmd = lastSend.cmd
    BY DEF DevTypeOK, IsAnswer
  <2>2. out' = out \cup {r} /\ lastSend' = lastSend /\ ran' = ran
    BY <1>5 DEF RecvRepeated
  <2> HIDE DEF r
  <2> QED
    BY <2>1, <2>2
<1>6. CASE Execute(p)
  <2>1. Fresh(p)
    BY <1>6 DEF Execute, Subscribe, Unsubscribe, StatusAcked, Hardware, Ignored,
                SetKey, ConfigHost, NameFile, WriteFile
  <2>2. p.cmd \notin PlainCmd
    BY <2>1 DEF Fresh, Checked
  <2>3. Marked.dst = Dev
    BY DEF Marked, DevTypeOK, IsAnswer
  <2>4. \A cmd, k, t, arg : /\ Sealed(p, cmd, k, t, arg).dst = p.src
                           /\ Sealed(p, cmd, k, t, arg).idx = p.idx
    BY DEF Sealed
  <2>5. \A arg : Reply(p, arg).dst = p.src /\ Reply(p, arg).idx = p.idx
    BY <2>4 DEF Reply
  <2>6. CASE Ignored(p)
    BY <2>3, <2>6 DEF Ignored, Silent
  <2>7. CASE ~Ignored(p)
    <3>1. Run(p)
      BY <1>6, <2>7 DEF Execute, Subscribe, Unsubscribe, StatusAcked, Hardware,
                        SetKey, ConfigHost, NameFile, WriteFile
    <3>2. ran' = ran \cup {p.id}
      BY <3>1 DEF Run
    <3>3. CASE ConfigHost(p)
      <4>1. \A to : ToServer("GetHost", to).cmd \notin Ack
        BY NotAcks DEF ToServer
      <4> QED
        BY <2>2, <2>5, <3>2, <3>3, <4>1 DEF ConfigHost
    <3>4. CASE ~ConfigHost(p)
      <4>1. \/ Silent
            \/ \E cmd, k, t, arg : Send(Sealed(p, cmd, k, t, arg))
        BY <1>6, <2>7, <3>4 DEF Execute, Subscribe, Unsubscribe, StatusAcked,
             Hardware, SetKey, NameFile, WriteFile, Reply
      <4>2. CASE Silent
        BY <2>2, <2>3, <3>2, <4>2 DEF Silent
      <4>3. ASSUME NEW cmd, NEW k, NEW t, NEW arg, Send(Sealed(p, cmd, k, t, arg))
            PROVE  \A q \in (out' \ out) \cup {lastSend'} : q.dst = p.src /\ q.idx = p.idx
        BY <2>4, <4>3 DEF Send
      <4> QED
        BY <2>2, <3>2, <4>1, <4>2, <4>3
    <3> QED
      BY <3>3, <3>4
  <2> QED
    BY <2>6, <2>7
<1> QED
  BY <1>1, <1>2, <1>3, <1>4, <1>5, <1>6 DEF Recv

\* The main loop and a restart confirm nothing.
LEMMA OthersConfirmNothing ==
  ASSUME DevTypeOK, InstallToken \/ MainLoop \/ Reboot
  PROVE  /\ ran' = ran
         /\ \A q \in (out' \ out) \cup {lastSend'} : q.cmd \in Ack => q = lastSend
<1> USE DEF history
<1>1. CASE InstallToken
  BY <1>1 DEF InstallToken
<1>2. CASE Start \/ Heartbeat \/ SendSlot
  <2>1. \A to, i : /\ ToServer("GetHost", to).cmd \notin Ack
                  /\ ToServer("Online", to).cmd \notin Ack
                  /\ Update(i).cmd \notin Ack
    BY NotAcks DEF ToServer, Update
  <2> QED
    BY <1>2, <2>1 DEF Start, Heartbeat, SendSlot, Send
<1>3. CASE NewStatus \/ StartRetransmit \/ SkipSlot \/ CountSlot \/ EndLoop
  BY <1>3 DEF NewStatus, StartRetransmit, SkipSlot, CountSlot, EndLoop
<1>4. CASE Reboot
  BY <1>4, NotAcks DEF Reboot, NoPacket
<1> QED
  BY <1>1, <1>2, <1>3, <1>4 DEF MainLoop

LEMMA DeviceAckInv ==
  ASSUME TypeOK, AckInv, Device, UNCHANGED appVars
  PROVE  AckInv'
<1>a. reqs' = reqs /\ acked' = acked /\ Issued' = Issued
  BY DEF appVars, Issued
<1>b. ASSUME ran \subseteq ran', NEW q, Honest(q)
      PROVE  q.cmd \in Ack /\ q.dst \in Client => \E x \in ran' : x[1] = q.dst /\ x[3] = q.idx
  BY <1>b DEF Honest, CarriedOut
<1>c. ASSUME ran \subseteq ran' PROVE AckMeansIndexExecuted'
  BY <1>a, <1>c DEF AckInv, AckMeansIndexExecuted
<1>1. CASE \E p \in reqs : Recv(p)
  <2>1. PICK p \in reqs : Recv(p)
    BY <1>1
  <2>2. IsRequest(p) /\ DevTypeOK
    BY DEF TypeOK
  <2>3. /\ ran \subseteq ran' /\ ran' \subseteq ran \cup {p.id}
        /\ p.cmd \in PlainCmd => ran' = ran
        /\ \A q \in (out' \ out) \cup {lastSend'} : q.cmd \in Ack =>
              \/ p.cmd \notin PlainCmd /\ q.dst = p.src /\ q.idx = p.idx /\ p.id \in ran'
              \/ q.dst = lastSend.dst /\ q.idx = lastSend.idx /\ q.cmd = lastSend.cmd
              \/ q.dst = Dev
    BY <2>1, <2>2, RecvSends
  <2>4. p.cmd \notin PlainCmd => /\ p.id \in Issued
                                /\ p.id[1] = p.src /\ p.id[3] = p.idx
    BY DEF AckInv, Issued
  <2>5. ran' \subseteq Issued'
    BY <1>a, <2>3, <2>4 DEF AckInv
  <2>6. p.cmd \notin PlainCmd /\ p.id \in ran' =>
          \E x \in ran' : x[1] = p.src /\ x[3] = p.idx
    BY <2>4
  <2>7. \A q \in (out' \ out) \cup {lastSend'} : Honest(q)'
    BY <1>b, <2>3, <2>6, IdAssumption DEF AckInv, Honest, CarriedOut
  <2>8. \A q \in out : Honest(q)'
    BY <1>b, <2>3 DEF AckInv, Honest, CarriedOut
  <2> QED
    BY <1>a, <1>c, <2>3, <2>5, <2>7, <2>8 DEF AckInv
<1>2. CASE InstallToken \/ MainLoop \/ Reboot
  <2>1. /\ ran' = ran
        /\ \A q \in (out' \ out) \cup {lastSend'} : q.cmd \in Ack => q = lastSend
    BY <1>2, OthersConfirmNothing DEF TypeOK
  <2>2. \A q \in (out' \ out) \cup {lastSend'} : Honest(q)'
    BY <2>1 DEF AckInv, Honest, CarriedOut
  <2>3. \A q \in out : Honest(q)'
    BY <2>1 DEF AckInv, Honest, CarriedOut
  <2> QED
    BY <1>a, <1>c, <2>1, <2>2, <2>3 DEF AckInv
<1> QED
  BY <1>1, <1>2 DEF Device

LEMMA AppAckInv ==
  ASSUME TypeOK, WaitOK, AckInv, NEW c \in Client, App(c)
  PROVE  AckInv'
<1>a. UNCHANGED <<out, ran, lastSend>>
  BY DEF App, Open, Command, Resend, Accept, Reject, Timeout, GiveUp, Close, Probe,
         Restart, devVars, history
<1>b. reqs \subseteq reqs' /\ Issued \subseteq Issued'
  BY DEF App, Open, Command, Transmit, Resend, Accept, Reject, Timeout, GiveUp, Close,
         Probe, Restart, Issued
<1>c. ran' \subseteq Issued' /\ Honest(lastSend)' /\ \A q \in out' : Honest(q)'
  BY <1>a, <1>b DEF AckInv, Honest, CarriedOut
<1>1. \A p \in reqs' : p.cmd \notin PlainCmd => p.id[1] = p.src /\ p.id[3] = p.idx
  <2>1. ASSUME NEW k, NEW t, NEW cmd, Transmit(c, k, t, cmd), NEW p \in reqs' \ reqs
        PROVE  p.id[1] = p.src /\ p.id[3] = p.idx
    BY <2>1 DEF Transmit, NewRequest
  <2>2. CASE Open(c) \/ \E cmd \in Cmd : Command(c, cmd)
    BY <2>1, <2>2 DEF Open, Command, AckInv
  <2>3. CASE Resend(c)
    <3>1. PICK from \in Route(c) : reqs' = reqs \cup {[sendbuf[c] EXCEPT !.from = from]}
      BY <2>3 DEF Resend
    <3> DEFINE p == [sendbuf[c] EXCEPT !.from = from]
    <3>2. sendbuf[c] \in reqs /\ sendbuf[c].cmd \notin PlainCmd
      BY <2>3, DataCmdIs DEF Resend, WaitOK, PlainCmd
    <3>3. IsRequest(sendbuf[c])
      BY <3>2 DEF TypeOK
    <3>4. p.id = sendbuf[c].id /\ p.src = sendbuf[c].src /\ p.idx = sendbuf[c].idx
      BY <3>3 DEF IsRequest
    <3> HIDE DEF p
    <3> QED
      BY <3>1, <3>2, <3>4 DEF AckInv, p
  <2>4. CASE Probe(c)
    BY <2>4 DEF Probe, AckInv, PlainCmd
  <2>5. CASE (\E a \in out : Accept(c, a) \/ Reject(c, a)) \/ Timeout(c) \/ Close(c)
             \/ Restart(c)
    BY <2>5 DEF Accept, Reject, Timeout, GiveUp, Close, Restart, AckInv
  <2> QED
    BY <2>2, <2>3, <2>4, <2>5 DEF App
<1>2. AckMeansIndexExecuted'
  <2>1. CASE \E a \in out : Accept(c, a)
    <3>1. PICK a \in out : Accept(c, a)
      BY <2>1
    <3>2. /\ a.dst = c /\ a.idx = pktIdx[c] /\ a.cmd = AckOf[sendbuf[c].cmd]
          /\ acked' = acked \cup {sendbuf[c].id}
      BY <3>1 DEF Accept, Answers, MatchesAnyIdx
    <3>3. /\ sendbuf[c].id = <<c, epoch[c], pktIdx[c]>>
          /\ sendbuf[c].cmd \in DataCmd /\ AckOf[sendbuf[c].cmd] # "None"
      BY <3>1 DEF Accept, WaitOK
    <3>4. a.cmd \in Ack
      BY <3>2, <3>3 DEF Ack
    <3>5. CarriedOut(c, pktIdx[c])
      BY <3>2, <3>4 DEF AckInv, Honest
    <3>6. sendbuf[c].id[1] = c /\ sendbuf[c].id[3] = pktIdx[c]
      BY <3>3
    <3> QED
      BY <1>a, <3>2, <3>5, <3>6 DEF AckInv, AckMeansIndexExecuted, CarriedOut
  <2>2. CASE UNCHANGED acked
    BY <1>a, <2>2 DEF AckInv, AckMeansIndexExecuted
  <2> QED
    BY <2>1, <2>2 DEF App, Open, Command, Resend, Reject, Timeout, GiveUp, Close, Probe,
                      Restart
<1> QED
  BY <1>1, <1>2, <1>c DEF AckInv

LEMMA AckInvariant == Spec => []AckInv
<1>1. Init => AckInv
  BY NotAcks DEF Init, DevInit, NoPacket, AckInv, Issued, Honest, AckMeansIndexExecuted
<1>2. TypeOK /\ WaitOK /\ AckInv /\ [Next]_vars => AckInv'
  <2> SUFFICES ASSUME TypeOK, WaitOK, AckInv, [Next]_vars PROVE AckInv'
    OBVIOUS
  <2>1. CASE Device /\ UNCHANGED appVars
    BY <2>1, DeviceAckInv
  <2>2. CASE \E c \in Client : App(c)
    BY <2>2, AppAckInv
  <2>3. CASE UNCHANGED vars
    BY <2>3 DEF vars, devVars, appVars, history, AckInv, Issued, Honest, CarriedOut,
                AckMeansIndexExecuted
  <2> QED
    BY <2>1, <2>2, <2>3 DEF Next
<1> QED
  BY <1>1, <1>2, TypeAndWait, PTL DEF Spec

\* Whatever an application is told is done, the device has done a request of
\* that application with that index, however often either of them restarted.
THEOREM ConfirmedIndexWasExecuted == Spec => []AckMeansIndexExecuted
<1>1. AckInv => AckMeansIndexExecuted
  BY DEF AckInv
<1> QED
  BY <1>1, AckInvariant, PTL

\* While no application restarts, it is that very request, whatever the network
\* did and however often the device restarted.
THEOREM ConfirmedWasExecuted ==
  ASSUME MaxRestart = 0
  PROVE  Spec => []AckMeansExecuted
<1>1. TypeOK /\ AckInv => AckMeansExecuted
  <2> SUFFICES ASSUME TypeOK, AckInv, NEW r \in acked PROVE r \in ran
    BY DEF AckMeansExecuted
  <2>1. PICK x \in ran : x[1] = r[1] /\ x[3] = r[3]
    BY DEF AckInv, AckMeansIndexExecuted
  <2>2. Issued \subseteq CommandId
    BY DEF Issued, TypeOK
  <2>3. x \in CommandId /\ r \in CommandId
    BY <2>1, <2>2 DEF AckInv, TypeOK
  <2>4. x[2] = 0 /\ r[2] = 0
    BY <2>3 DEF CommandId
  <2>5. x = r
    BY <2>1, <2>3, <2>4 DEF CommandId
  <2> QED
    BY <2>1, <2>5
<1> QED
  BY <1>1, TypeCorrect, AckInvariant, PTL

-----------------------------------------------------------------------------
(* The table of subscribers.                                               *)

\* The subscription of a slot has been carried out.
Asked(i) ==
  \E p \in reqs : /\ p.cmd = "Observer" /\ p.id \in ran
                 /\ p.src = observer[i].id /\ p.from = observer[i].addr

\* A step that runs the request of whoever it puts into the table.
LEMMA AskedAgain ==
  ASSUME SubscribersAsked, reqs \subseteq reqs', ran \subseteq ran',
         \A i \in Slot : \/ SameOwner(observer, observer', i)
                         \/ ~Live(observer, i)'
                         \/ Asked(i)'
  PROVE  SubscribersAsked'
<1> SUFFICES ASSUME NEW i \in Slot, Live(observer, i)'
             PROVE  Asked(i)'
  BY DEF SubscribersAsked, Asked
<1>1. CASE SameOwner(observer, observer', i)
  <2>1. Live(observer, i)
    BY <1>1 DEF SameOwner, Live
  <2>2. PICK p \in reqs : /\ p.cmd = "Observer" /\ p.id \in ran
                          /\ p.src = observer[i].id /\ p.from = observer[i].addr
    BY <2>1 DEF SubscribersAsked
  <2> QED
    BY <1>1, <2>2 DEF SameOwner, Asked
<1> QED
  BY <1>1

\* Only three commands touch the table, and only a subscription enters it.
LEMMA RecvTable ==
  ASSUME DevTypeOK, ObserverTableOK, SubscribersAsked, NEW p \in reqs, IsRequest(p),
         Recv(p), UNCHANGED reqs
  PROVE  ObserverTableOK' /\ SubscribersAsked'
<1>a. observer \in Table
  BY DEF DevTypeOK, Table
<1>b. ran \subseteq ran'
  BY DEF Recv, RecvPlain, RecvGetToken, RecvUpdateToken, RecvBadToken, RecvRepeated,
         Execute, Subscribe, Unsubscribe, StatusAcked, Hardware, Ignored, SetKey,
         ConfigHost, NameFile, WriteFile, Run, history
<1>c. Fresh(p) => p.src \in Client /\ p.from \in Host
  BY FreshIsChecked
<1>1. CASE Subscribe(p)
  <2>1. Fresh(p) /\ p.cmd = "Observer" /\ observer' = Register(observer, p.src, p.from)
    BY <1>1 DEF Subscribe
  <2>2. p.id \in ran'
    BY <1>1 DEF Subscribe, Run
  <2>3. ObserverTableOK'
    BY <1>a, <1>c, <2>1, RegisterWellFormed DEF ObserverTableOK
  <2>4. \A i \in Slot : \/ SameOwner(observer, observer', i)
                        \/ observer'[i].id = p.src /\ observer'[i].addr = p.from
    BY <1>a, <1>c, <2>1, RegisterOwners
  <2> QED
    BY <1>b, <2>1, <2>2, <2>3, <2>4, AskedAgain DEF Asked
<1>2. CASE Unsubscribe(p)
  <2>1. Fresh(p) /\ observer' = Unregister(observer, p.src, p.from)
    BY <1>2 DEF Unsubscribe
  <2>2. ObserverTableOK'
    BY <1>a, <1>c, <2>1, UnregisterWellFormed DEF ObserverTableOK
  <2>3. \A i \in Slot : SameOwner(observer, observer', i) \/ ~Live(observer, i)'
    BY <1>a, <1>c, <2>1, UnregisterOwners
  <2> QED
    BY <1>b, <2>2, <2>3, AskedAgain
<1>3. CASE StatusAcked(p)
  <2>1. Fresh(p) /\ observer' = StopRetransmit(observer, p.src, p.from)
    BY <1>3 DEF StatusAcked
  <2>2. ObserverTableOK'
    BY <1>a, <1>c, <2>1, StopRetransmitWellFormed DEF ObserverTableOK
  <2>3. \A i \in Slot : SameOwner(observer, observer', i)
    BY <1>a, <1>c, <2>1, StopRetransmitOwners
  <2> QED
    BY <1>b, <2>2, <2>3, AskedAgain
<1>4. CASE ~(Subscribe(p) \/ Unsubscribe(p) \/ StatusAcked(p))
  <2>1. observer' = observer
    BY <1>4 DEF Recv, RecvPlain, RecvGetToken, RecvUpdateToken, RecvBadToken,
         RecvRepeated, Execute, Hardware, Ignored, SetKey, ConfigHost, NameFile, WriteFile
  <2> QED
    BY <1>b, <2>1, AskedAgain DEF ObserverTableOK, SameOwner
<1> QED
  BY <1>1, <1>2, <1>3, <1>4

\* The main loop counts, a restart empties the table.
LEMMA OthersTable ==
  ASSUME DevTypeOK, ObserverTableOK, SubscribersAsked, UNCHANGED reqs,
         InstallToken \/ MainLoop \/ Reboot
  PROVE  ObserverTableOK' /\ SubscribersAsked'
<1>a. observer \in Table
  BY DEF DevTypeOK, Table
<1>b. ran' = ran
  BY DEF InstallToken, MainLoop, Start, NewStatus, StartRetransmit, SendSlot, SkipSlot,
         CountSlot, EndLoop, Heartbeat, Reboot, history
<1>1. CASE SendSlot \/ CountSlot
  <2>1. slot \in Slot
    BY <1>1 DEF SendSlot, CountSlot, DevTypeOK
  <2>2. \/ observer' = NextIndex(observer, slot)
        \/ observer' = Arm(observer, slot)
        \/ observer' = Spend(observer, slot)
    BY <1>1 DEF SendSlot, CountSlot
  <2>3. ObserverTableOK'
    BY <1>a, <2>1, <2>2, CountWellFormed DEF ObserverTableOK
  <2>4. \A i \in Slot : SameOwner(observer, observer', i)
    BY <1>a, <2>1, <2>2, CountOwners
  <2> QED
    BY <1>b, <2>3, <2>4, AskedAgain
<1>2. CASE Reboot
  <2>1. \A i \in Slot : observer'[i].id = Zero /\ observer'[i].addr = NoAddr
    BY <1>2 DEF Reboot, EmptySlot
  <2> QED
    BY <1>b, <2>1, AskedAgain DEF ObserverTableOK, WellFormedTable, Live
<1>3. CASE ~(SendSlot \/ CountSlot \/ Reboot)
  <2>1. observer' = observer
    BY <1>3 DEF InstallToken, MainLoop, Start, NewStatus, StartRetransmit, SkipSlot,
                EndLoop, Heartbeat
  <2> QED
    BY <1>b, <2>1, AskedAgain DEF ObserverTableOK, SameOwner
<1> QED
  BY <1>1, <1>2, <1>3

LEMMA TableInvariant == Spec => [](ObserverTableOK /\ SubscribersAsked)
<1>1. Init => ObserverTableOK /\ SubscribersAsked
  BY DEF Init, DevInit, EmptySlot, ObserverTableOK, WellFormedTable, Live,
         SubscribersAsked
<1>2. TypeOK /\ ObserverTableOK /\ SubscribersAsked /\ [Next]_vars
        => ObserverTableOK' /\ SubscribersAsked'
  <2> SUFFICES ASSUME TypeOK, ObserverTableOK, SubscribersAsked, [Next]_vars
               PROVE  ObserverTableOK' /\ SubscribersAsked'
    OBVIOUS
  <2>1. CASE Device /\ UNCHANGED appVars
    <3>1. DevTypeOK /\ UNCHANGED reqs
      BY <2>1 DEF TypeOK, appVars
    <3>2. ASSUME NEW p \in reqs, Recv(p) PROVE ObserverTableOK' /\ SubscribersAsked'
      BY <3>1, <3>2, RecvTable DEF TypeOK
    <3> QED
      BY <2>1, <3>1, <3>2, OthersTable DEF Device
  <2>2. CASE \E c \in Client : App(c)
    <3>1. UNCHANGED <<observer, ran>> /\ reqs \subseteq reqs'
      BY <2>2 DEF App, Open, Command, Transmit, Resend, Accept, Reject, Timeout, GiveUp,
                  Close, Probe, Restart, devVars, history
    <3> QED
      BY <3>1, AskedAgain DEF ObserverTableOK, SameOwner
  <2>3. CASE UNCHANGED vars
    BY <2>3 DEF vars, devVars, appVars, history, ObserverTableOK, SubscribersAsked
  <2> QED
    BY <2>1, <2>2, <2>3 DEF Next
<1> QED
  BY <1>1, <1>2, TypeCorrect, PTL DEF Spec

\* up2pc_observer_host_register and _unregister: however subscriptions and their
\* duplicates come in, nobody has two slots and no slot is half empty.
THEOREM SlotsAreWhole == Spec => []ObserverTableOK
BY TableInvariant, PTL

\* Nobody is in the table who did not subscribe from the address kept there.
THEOREM SubscribersHaveAsked == Spec => []SubscribersAsked
BY TableInvariant, PTL

-----------------------------------------------------------------------------
(* The channel implements RemoteCommand, while no application restarts.    *)

\* No request of an application is numbered past its packet_idx.
Counted == \A p \in reqs : p.cmd \notin PlainCmd => p.id[3] <= pktIdx[p.id[1]]

\* What Open and Command send is new.
LEMMA TransmitIssues ==
  ASSUME TypeOK, Counted, NEW c \in Client, NEW k \in Key, NEW t \in Nat,
         NEW cmd \in DataCmd, Transmit(c, k, t, cmd)
  PROVE  /\ Counted'
         /\ \E r \in CommandId : r \notin Issued /\ Issued' = Issued \cup {r}
<1>1. PICK from \in Route(c), arg \in Args(cmd) :
        LET p == NewRequest(c, k, t, cmd, arg, from) IN
        /\ pktIdx' = [pktIdx EXCEPT ![c] = p.idx]
        /\ reqs' = reqs \cup {p}
  BY DEF Transmit
<1> DEFINE p == NewRequest(c, k, t, cmd, arg, from)
<1>2. /\ p.id = <<c, epoch[c], pktIdx[c] + 1>> /\ p.idx = pktIdx[c] + 1
      /\ p.cmd = cmd
  BY DEF NewRequest
<1> HIDE DEF p
<1>3. pktIdx' = [pktIdx EXCEPT ![c] = p.idx] /\ reqs' = reqs \cup {p}
  BY <1>1 DEF p
<1>4. pktIdx[c] < MaxSend
  BY DEF Transmit
<1>5. p.id \in CommandId
  BY <1>2, <1>4, NextRequestId
<1>6. p.cmd \notin PlainCmd
  BY <1>2, DataCmdIs DEF PlainCmd
<1>7. pktIdx \in [Client -> Nat]
  BY DEF TypeOK
<1>8. ASSUME NEW q \in reqs, q.cmd \notin PlainCmd
      PROVE  q.id[1] \in Client /\ q.id[3] \in Nat /\ q.id[3] <= pktIdx[q.id[1]]
  <2>1. q.id \in CommandId /\ q.id[3] <= pktIdx[q.id[1]]
    BY <1>8 DEF TypeOK, Counted
  <2> QED
    BY <2>1 DEF CommandId
<1>9. Counted'
  <2>1. p.id[1] = c /\ p.id[3] = pktIdx[c] + 1 /\ pktIdx'[c] = pktIdx[c] + 1
    BY <1>2, <1>3, <1>7
  <2>2. \A d \in Client : pktIdx[d] <= pktIdx'[d]
    BY <1>2, <1>3, <1>7
  <2>3. ASSUME NEW q \in reqs, q.cmd \notin PlainCmd PROVE q.id[3] <= pktIdx'[q.id[1]]
    <3>1. q.id[1] \in Client /\ q.id[3] \in Nat /\ q.id[3] <= pktIdx[q.id[1]]
      BY <1>8, <2>3
    <3>2. pktIdx[q.id[1]] \in Nat /\ pktIdx'[q.id[1]] \in Nat
      BY <1>2, <1>3, <1>7, <3>1
    <3> QED
      BY <2>2, <3>1, <3>2
  <2>4. p.id[3] <= pktIdx'[p.id[1]]
    BY <1>7, <2>1
  <2> QED
    BY <1>3, <2>3, <2>4 DEF Counted
<1>10. p.id \notin Issued
  <2>1. ASSUME NEW q \in reqs, q.cmd \notin PlainCmd, q.id = p.id PROVE FALSE
    <3>1. q.id[3] <= pktIdx[q.id[1]]
      BY <1>8, <2>1
    <3>2. q.id[1] = c /\ q.id[3] = pktIdx[c] + 1
      BY <1>2, <2>1
    <3> QED
      BY <1>7, <3>1, <3>2
  <2> QED
    BY <2>1 DEF Issued
<1>11. Issued' = Issued \cup {p.id}
  BY <1>3, <1>6 DEF Issued
<1> QED
  BY <1>5, <1>9, <1>10, <1>11

\* A resend is of a request that is there, a scan is not counted.
LEMMA OthersIssueNothing ==
  ASSUME TypeOK, WaitOK, MaxRestart = 0, NEW c \in Client, App(c),
         ~Open(c), \A cmd \in Cmd : ~Command(c, cmd)
  PROVE  Issued' = Issued /\ pktIdx' = pktIdx
         /\ (Counted => Counted')
<1>1. CASE Resend(c)
  <2>1. PICK from \in Route(c) : reqs' = reqs \cup {[sendbuf[c] EXCEPT !.from = from]}
    BY <1>1 DEF Resend
  <2> DEFINE p == [sendbuf[c] EXCEPT !.from = from]
  <2>2. sendbuf[c] \in reqs /\ sendbuf[c].cmd \notin PlainCmd
    BY <1>1, DataCmdIs DEF Resend, WaitOK, PlainCmd
  <2>3. p.id = sendbuf[c].id /\ p.cmd = sendbuf[c].cmd
    BY <2>2 DEF TypeOK, IsRequest
  <2> HIDE DEF p
  <2>4. reqs' = reqs \cup {p} /\ pktIdx' = pktIdx
    BY <1>1, <2>1 DEF p, Resend
  <2> QED
    BY <2>2, <2>3, <2>4 DEF Issued, Counted
<1>2. CASE Probe(c)
  <2>1. PICK cmd \in PlainCmd, i \in ScanIdx :
          reqs' = reqs \cup {[id |-> <<Zero, 0, i>>, src |-> c, from |-> c, idx |-> i,
                              cmd |-> cmd, key |-> Plain, token |-> 0, arg |-> NoArg]}
    BY <1>2 DEF Probe
  <2>2. pktIdx' = pktIdx
    BY <1>2 DEF Probe
  <2> QED
    BY <2>1, <2>2 DEF Issued, Counted
<1>3. ~Restart(c)
  BY DEF Restart, TypeOK
<1>4. CASE (\E a \in out : Accept(c, a) \/ Reject(c, a)) \/ Timeout(c) \/ Close(c)
  <2>1. reqs' = reqs /\ pktIdx' = pktIdx
    BY <1>4 DEF Accept, Reject, Timeout, GiveUp, Close
  <2> QED
    BY <2>1 DEF Issued, Counted
<1> QED
  BY <1>1, <1>2, <1>3, <1>4 DEF App

LEMMA CountedInvariant ==
  ASSUME MaxRestart = 0
  PROVE  Spec => []Counted
<1>1. Init => Counted
  BY DEF Init, Counted
<1>2. TypeOK /\ WaitOK /\ Counted /\ [Next]_vars => Counted'
  <2> SUFFICES ASSUME TypeOK, WaitOK, Counted, [Next]_vars PROVE Counted'
    OBVIOUS
  <2>1. CASE Device /\ UNCHANGED appVars
    BY <2>1 DEF appVars, Counted
  <2>2. ASSUME NEW c \in Client, App(c) PROVE Counted'
    <3>1. CASE Open(c)
      BY <3>1, TransmitIssues, DataCmdIs DEF Open
    <3>2. ASSUME NEW cmd \in Cmd, Command(c, cmd) PROVE Counted'
      <4>1. ckey[c] \in Key /\ tok[c] \in Nat /\ cmd \in DataCmd
        BY SessionAssumption DEF TypeOK
      <4> QED
        BY <3>2, <4>1, TransmitIssues DEF Command
    <3> QED
      BY <2>2, <3>1, <3>2, OthersIssueNothing
  <2>3. CASE UNCHANGED vars
    BY <2>3 DEF vars, appVars, Counted
  <2> QED
    BY <2>1, <2>2, <2>3 DEF Next
<1> QED
  BY <1>1, <1>2, TypeAndWait, PTL DEF Spec

\* Every step of the channel is one of RemoteCommand, or none.
LEMMA StepRefines ==
  ASSUME TypeOK, WaitOK, AckInv, Counted, MaxRestart = 0, AckMeansExecuted',
         [Next]_vars
  PROVE  [RC!Next]_(RC!vars)
<1> DEFINE issued == {p.id : p \in {q \in reqs : q.cmd \notin PlainCmd}}
<1>0. issued = Issued /\ issued' = Issued'
  BY DEF Issued
<1>1. CASE Device /\ UNCHANGED appVars
  <2>1. reqs' = reqs /\ acked' = acked
    BY <1>1 DEF appVars
  <2>2. CASE \E p \in reqs : Recv(p)
    <3>1. PICK p \in reqs : Recv(p)
      BY <2>2
    <3>2. /\ ran \subseteq ran' /\ ran' \subseteq ran \cup {p.id}
          /\ p.cmd \in PlainCmd => ran' = ran
      BY <3>1, RecvSends DEF TypeOK
    <3>3. CASE ran' = ran
      BY <2>1, <3>3 DEF RC!vars
    <3>4. CASE ran' # ran
      <4>1. ran' = ran \cup {p.id} /\ p.id \in Issued /\ p.id \in CommandId
        BY <3>2, <3>4 DEF Issued, TypeOK
      <4>2. RC!Perform(p.id)
        BY <1>0, <2>1, <4>1 DEF RC!Perform
      <4> QED
        BY <4>1, <4>2 DEF RC!Next
    <3> QED
      BY <3>3, <3>4
  <2>3. CASE InstallToken \/ MainLoop \/ Reboot
    <3>1. ran' = ran
      BY <2>3, OthersConfirmNothing DEF TypeOK
    <3> QED
      BY <2>1, <3>1 DEF RC!vars
  <2> QED
    BY <1>1, <2>2, <2>3 DEF Device
<1>2. ASSUME NEW c \in Client, App(c) PROVE [RC!Next]_(RC!vars)
  <2>1. ran' = ran
    BY <1>2 DEF App, Open, Command, Resend, Accept, Reject, Timeout, GiveUp, Close, Probe,
                Restart, devVars, history
  <2>2. CASE Open(c) \/ \E cmd \in Cmd : Command(c, cmd)
    <3>1. acked' = acked
      BY <2>2 DEF Open, Command
    <3>2. \E r \in CommandId : r \notin Issued /\ Issued' = Issued \cup {r}
      <4>1. CASE Open(c)
        BY <4>1, TransmitIssues, DataCmdIs DEF Open
      <4>2. ASSUME NEW cmd \in Cmd, Command(c, cmd)
            PROVE  \E r \in CommandId : r \notin Issued /\ Issued' = Issued \cup {r}
        <5>1. ckey[c] \in Key /\ tok[c] \in Nat /\ cmd \in DataCmd
          BY SessionAssumption DEF TypeOK
        <5> QED
          BY <4>2, <5>1, TransmitIssues DEF Command
      <4> QED
        BY <2>2, <4>1, <4>2
    <3>3. PICK r \in CommandId : r \notin Issued /\ Issued' = Issued \cup {r}
      BY <3>2
    <3>4. RC!Issue(r)
      BY <1>0, <2>1, <3>1, <3>3 DEF RC!Issue
    <3> QED
      BY <3>4 DEF RC!Next
  <2>3. CASE ~Open(c) /\ \A cmd \in Cmd : ~Command(c, cmd)
    <3>1. Issued' = Issued
      BY <1>2, <2>3, OthersIssueNothing
    <3>2. CASE \E a \in out : Accept(c, a)
      <4>1. /\ acked' = acked \cup {sendbuf[c].id}
            /\ sendbuf[c] \in reqs /\ sendbuf[c].cmd \in DataCmd
        BY <3>2 DEF Accept, WaitOK
      <4>2. sendbuf[c].id \in CommandId
        BY <4>1, DataCmdIs DEF TypeOK, PlainCmd
      <4>3. sendbuf[c].id \in ran
        BY <2>1, <4>1 DEF AckMeansExecuted
      <4>4. RC!Confirm(sendbuf[c].id)
        BY <1>0, <2>1, <3>1, <4>1, <4>3 DEF RC!Confirm
      <4> QED
        BY <4>2, <4>4 DEF RC!Next
    <3>3. CASE ~\E a \in out : Accept(c, a)
      <4>1. acked' = acked
        BY <1>2, <2>3, <3>3 DEF App, Resend, Reject, Timeout, GiveUp, Close, Probe, Restart
      <4> QED
        BY <1>0, <2>1, <3>1, <4>1 DEF RC!vars
    <3> QED
      BY <3>2, <3>3
  <2> QED
    BY <2>2, <2>3
<1>3. CASE UNCHANGED vars
  BY <1>3 DEF vars, devVars, appVars, history, RC!vars
<1> QED
  BY <1>1, <1>2, <1>3 DEF Next

\* up2pa_send_cmd and common_wait_cmd with up2pc_recv_cmd: commands of any number of
\* applications are issued once, carried out only if issued and confirmed only if
\* carried out, over any network and however often the device restarts.
THEOREM ChannelImplementsRemoteCommand ==
  ASSUME MaxRestart = 0
  PROVE  Spec => ImplementsRemoteCommand
<1>1. Init => RC!Init
  BY DEF Init, DevInit, RC!Init
<1> QED
  BY <1>1, StepRefines, TypeAndWait, AckInvariant, CountedInvariant, ConfirmedWasExecuted,
     PTL DEF Spec, ImplementsRemoteCommand, RC!Spec

-----------------------------------------------------------------------------
(* An id means one request.                                                *)

Numbered == {p \in reqs : p.cmd \notin PlainCmd}

\* The application that sent p is past its number, in this epoch or a later one.
Behind(p) ==
  \/ p.id[2] < epoch[p.id[1]]
  \/ p.id[2] = epoch[p.id[1]] /\ p.id[3] <= pktIdx[p.id[1]]

\* Whatever has one id is one request, by whatever way it came; a scan has its number
\* from the clock.
MeaningInv ==
  /\ \A p \in Numbered : Behind(p)
  /\ \A p, q \in Numbered : p.id = q.id => p.cmd = q.cmd /\ p.key = q.key /\ p.token = q.token
  /\ \A p \in reqs : p.cmd \in PlainCmd => p.idx \in ScanIdx

LEMMA IdIs ==
  ASSUME TypeOK, NEW p \in Numbered
  PROVE  /\ p.id \in CommandId /\ p.id = <<p.id[1], p.id[2], p.id[3]>>
         /\ p.id[1] \in Client /\ p.id[2] \in 0 .. MaxRestart /\ p.id[3] \in 1 .. MaxSend
         /\ p.id[2] \in Nat /\ p.id[3] \in Nat
         /\ epoch[p.id[1]] \in Nat /\ pktIdx[p.id[1]] \in Nat
<1>1. p.id \in CommandId
  BY DEF TypeOK, Numbered
<1>2. /\ p.id = <<p.id[1], p.id[2], p.id[3]>>
      /\ p.id[1] \in Client /\ p.id[2] \in 0 .. MaxRestart /\ p.id[3] \in 1 .. MaxSend
  BY <1>1 DEF CommandId
<1> QED
  BY <1>1, <1>2, SessionAssumption DEF TypeOK

LEMMA TransmitMeans ==
  ASSUME TypeOK, MeaningInv, NEW c \in Client, NEW k, NEW t, NEW cmd \in DataCmd,
         Transmit(c, k, t, cmd), epoch' = epoch
  PROVE  MeaningInv'
<1>1. PICK p : /\ p.id = <<c, epoch[c], pktIdx[c] + 1>> /\ p.idx = pktIdx[c] + 1
               /\ p.cmd = cmd
               /\ pktIdx' = [pktIdx EXCEPT ![c] = p.idx] /\ reqs' = reqs \cup {p}
  <2>1. PICK from \in Route(c), arg \in Args(cmd) :
          LET p == NewRequest(c, k, t, cmd, arg, from) IN
          /\ pktIdx' = [pktIdx EXCEPT ![c] = p.idx]
          /\ reqs' = reqs \cup {p}
    BY DEF Transmit
  <2> DEFINE p == NewRequest(c, k, t, cmd, arg, from)
  <2>2. /\ p.id = <<c, epoch[c], pktIdx[c] + 1>> /\ p.idx = pktIdx[c] + 1 /\ p.cmd = cmd
    BY DEF NewRequest
  <2>3. pktIdx' = [pktIdx EXCEPT ![c] = p.idx] /\ reqs' = reqs \cup {p}
    BY <2>1
  <2> HIDE DEF p
  <2> QED
    BY <2>2, <2>3
<1>2. /\ p.id = <<c, epoch[c], pktIdx[c] + 1>> /\ p.idx = pktIdx[c] + 1 /\ p.cmd = cmd
  BY <1>1
<1>3. pktIdx' = [pktIdx EXCEPT ![c] = p.idx] /\ reqs' = reqs \cup {p}
  BY <1>1
<1>4. p.cmd \notin PlainCmd
  BY <1>2, DataCmdIs DEF PlainCmd
<1>5. pktIdx \in [Client -> Nat] /\ epoch \in [Client -> Nat]
  BY DEF TypeOK
<1>6. p.id[1] = c /\ p.id[2] = epoch[c] /\ p.id[3] = pktIdx[c] + 1
  BY <1>2
<1>7. Numbered' = Numbered \cup {p}
  BY <1>3, <1>4 DEF Numbered
<1>8. pktIdx'[c] = pktIdx[c] + 1 /\ \A d \in Client \ {c} : pktIdx'[d] = pktIdx[d]
  BY <1>2, <1>3, <1>5
<1>9. Behind(p)'
  BY <1>5, <1>6, <1>8 DEF Behind
<1>10. ASSUME NEW q \in Numbered
       PROVE  Behind(q)' /\ q.id # p.id
  <2>1. /\ q.id[1] \in Client /\ q.id[2] \in Nat /\ q.id[3] \in Nat
        /\ epoch[q.id[1]] \in Nat /\ pktIdx[q.id[1]] \in Nat
    BY IdIs
  <2>2. Behind(q)
    BY DEF MeaningInv
  <2>3. pktIdx[q.id[1]] <= pktIdx'[q.id[1]] /\ pktIdx'[q.id[1]] \in Nat
    BY <1>8, <2>1
  <2>4. Behind(q)'
    BY <2>1, <2>2, <2>3 DEF Behind
  <2>5. q.id # p.id
    <3>1. SUFFICES ASSUME q.id = p.id PROVE FALSE
      OBVIOUS
    <3>2. q.id[1] = c /\ q.id[2] = epoch[c] /\ q.id[3] = pktIdx[c] + 1
      BY <1>6, <3>1
    <3> QED
      BY <1>5, <2>2, <3>2 DEF Behind
  <2> QED
    BY <2>4, <2>5
<1>11. \A q \in reqs' : q.cmd \in PlainCmd => q \in reqs
  BY <1>3, <1>4
<1> QED
  BY <1>7, <1>9, <1>10, <1>11 DEF MeaningInv

LEMMA AppMeans ==
  ASSUME TypeOK, WaitOK, MeaningInv, NEW c \in Client, App(c)
  PROVE  MeaningInv'
<1>1. CASE Open(c)
  <2>1. epoch' = epoch /\ \E k : Transmit(c, k, 0, "UpdateToken")
    BY <1>1 DEF Open
  <2> QED
    BY <2>1, TransmitMeans, DataCmdIs
<1>2. ASSUME NEW cmd \in Cmd, Command(c, cmd) PROVE MeaningInv'
  <2>1. cmd \in DataCmd
    BY SessionAssumption
  <2> QED
    BY <1>2, <2>1, TransmitMeans DEF Command
<1>3. CASE Resend(c)
  <2>1. PICK from \in Route(c) : reqs' = reqs \cup {[sendbuf[c] EXCEPT !.from = from]}
    BY <1>3 DEF Resend
  <2> DEFINE p == [sendbuf[c] EXCEPT !.from = from]
  <2>2. sendbuf[c] \in Numbered
    BY <1>3, DataCmdIs DEF Resend, WaitOK, PlainCmd, Numbered
  <2>3. /\ p.id = sendbuf[c].id /\ p.cmd = sendbuf[c].cmd
        /\ p.key = sendbuf[c].key /\ p.token = sendbuf[c].token
    BY <2>2 DEF TypeOK, IsRequest, Numbered
  <2> HIDE DEF p
  <2>4. reqs' = reqs \cup {p} /\ UNCHANGED <<pktIdx, epoch>>
    BY <1>3, <2>1 DEF p, Resend
  <2>5. /\ Numbered' = Numbered \cup {p}
        /\ \A q \in reqs' : q.cmd \in PlainCmd => q \in reqs
    BY <2>2, <2>3, <2>4 DEF Numbered
  <2>6. \A q : Behind(q)' = Behind(q)
    BY <2>4 DEF Behind
  <2>7. \A q \in Numbered' : \E r \in Numbered : /\ q.id = r.id /\ q.cmd = r.cmd
                                                 /\ q.key = r.key /\ q.token = r.token
    BY <2>2, <2>3, <2>5
  <2>8. \A q \in Numbered' : Behind(q)'
    BY <2>6, <2>7 DEF MeaningInv, Behind
  <2> QED
    BY <2>5, <2>7, <2>8 DEF MeaningInv
<1>4. CASE Probe(c)
  <2>1. PICK cmd \in PlainCmd, i \in ScanIdx :
          reqs' = reqs \cup {[id |-> <<Zero, 0, i>>, src |-> c, from |-> c, idx |-> i,
                              cmd |-> cmd, key |-> Plain, token |-> 0, arg |-> NoArg]}
    BY <1>4 DEF Probe
  <2>2. UNCHANGED <<pktIdx, epoch>>
    BY <1>4 DEF Probe
  <2>3. Numbered' = Numbered
    BY <2>1 DEF Numbered
  <2> QED
    BY <2>1, <2>2, <2>3 DEF MeaningInv, Behind
<1>5. CASE Restart(c)
  <2>1. /\ reqs' = reqs /\ epoch' = [epoch EXCEPT ![c] = @ + 1]
        /\ pktIdx' = [pktIdx EXCEPT ![c] = 0]
    BY <1>5 DEF Restart
  <2>2. pktIdx \in [Client -> Nat] /\ epoch \in [Client -> Nat]
    BY DEF TypeOK
  <2>3. ASSUME NEW p \in Numbered PROVE Behind(p)'
    <3>1. p.id[1] \in Client /\ p.id[2] \in Nat /\ Behind(p)
      BY IdIs DEF MeaningInv
    <3>2. CASE p.id[1] = c
      <4>1. epoch'[c] = epoch[c] + 1 /\ epoch[c] \in Nat
        BY <2>1, <2>2
      <4>2. p.id[2] <= epoch[c]
        BY <3>1, <3>2, <4>1 DEF Behind
      <4> QED
        BY <3>1, <3>2, <4>1, <4>2 DEF Behind
    <3>3. CASE p.id[1] # c
      <4>1. epoch'[p.id[1]] = epoch[p.id[1]] /\ pktIdx'[p.id[1]] = pktIdx[p.id[1]]
        BY <2>1, <2>2, <3>1, <3>3
      <4> QED
        BY <3>1, <4>1 DEF Behind
    <3> QED
      BY <3>2, <3>3
  <2>4. Numbered' = Numbered
    BY <2>1 DEF Numbered
  <2> QED
    BY <2>1, <2>3, <2>4 DEF MeaningInv
<1>6. CASE (\E a \in out : Accept(c, a) \/ Reject(c, a)) \/ Timeout(c) \/ Close(c)
  <2>1. UNCHANGED <<reqs, pktIdx, epoch>>
    BY <1>6 DEF Accept, Reject, Timeout, GiveUp, Close
  <2> QED
    BY <2>1 DEF MeaningInv, Behind, Numbered
<1> QED
  BY <1>1, <1>2, <1>3, <1>4, <1>5, <1>6 DEF App

LEMMA MeaningInvariant == Spec => []MeaningInv
<1>1. Init => MeaningInv
  BY DEF Init, MeaningInv, Numbered
<1>2. TypeOK /\ WaitOK /\ MeaningInv /\ [Next]_vars => MeaningInv'
  <2>1. ASSUME UNCHANGED <<reqs, pktIdx, epoch>>, MeaningInv PROVE MeaningInv'
    BY <2>1 DEF MeaningInv, Behind, Numbered
  <2> QED
    BY <2>1, AppMeans DEF Next, vars, appVars
<1> QED
  BY <1>1, <1>2, TypeAndWait, PTL DEF Spec

-----------------------------------------------------------------------------
(* A refresh ends the sessions before it, while the device does not restart. *)

\* The token in force is the last one drawn, but for the moment the answer leaves.
TokenInv ==
  /\ rpc = "idle" => token = rnd
  /\ rpc = "refresh" => newToken = rnd

LEMMA NoReboot ==
  ASSUME TypeOK, MaxBoot = 0
  PROVE  ~Reboot
BY DEF TypeOK, DevTypeOK, Reboot

LEMMA TokenKeeps ==
  ASSUME TypeOK, TokenInv, MaxBoot = 0, [Next]_vars
  PROVE  TokenInv'
<1>1. ASSUME UNCHANGED <<rpc, token, rnd, newToken>> PROVE TokenInv'
  BY <1>1 DEF TokenInv
<1>2. ASSUME NEW p, RecvUpdateToken(p) PROVE TokenInv'
  BY <1>2 DEF RecvUpdateToken, Draw, TokenInv
<1>3. ASSUME NEW p, Recv(p), ~RecvUpdateToken(p) PROVE TokenInv'
  <2>1. UNCHANGED <<rpc, token, rnd, newToken>>
    BY <1>3 DEF Recv, RecvPlain, RecvGetToken, RecvBadToken, RecvRepeated, Execute,
                Subscribe, Unsubscribe, StatusAcked, Hardware, Ignored, SetKey, ConfigHost,
                NameFile, WriteFile, sessionVars
  <2> QED
    BY <1>1, <2>1
<1>4. CASE InstallToken
  BY <1>4 DEF InstallToken, TokenInv
<1>5. CASE MainLoop
  BY <1>1, <1>5 DEF MainLoop, Start, NewStatus, StartRetransmit, SendSlot, SkipSlot,
                    CountSlot, EndLoop, Heartbeat, sessionVars
<1>6. ASSUME NEW c, App(c) PROVE TokenInv'
  BY <1>1, <1>6 DEF App, Open, Command, Resend, Accept, Reject, Timeout, GiveUp, Close,
                    Probe, Restart, devVars, sessionVars
<1>7. CASE UNCHANGED vars
  BY <1>1, <1>7 DEF vars, devVars, sessionVars
<1> QED
  BY <1>2, <1>3, <1>4, <1>5, <1>6, <1>7, NoReboot DEF Next, Device

\* What is carried out bears the token in force, or needs none.
LEMMA RunsUnderToken ==
  ASSUME NEW p, Recv(p)
  PROVE  \/ ran' = ran
         \/ ran' = ran \cup {p.id} /\ p.cmd \in {"GetToken", "UpdateToken"}
         \/ /\ ran' = ran \cup {p.id} /\ rpc = "idle" /\ p.token = token
            /\ p.cmd \notin PlainCmd
<1>1. CASE RecvPlain(p) \/ RecvBadToken(p) \/ RecvRepeated(p) \/ Ignored(p)
  BY <1>1 DEF RecvPlain, RecvBadToken, RecvRepeated, Ignored, history
<1>2. CASE RecvGetToken(p) \/ RecvUpdateToken(p)
  BY <1>2 DEF RecvGetToken, RecvUpdateToken
<1>3. CASE Execute(p) /\ ~Ignored(p)
  BY <1>3 DEF Execute, Subscribe, Unsubscribe, StatusAcked, Hardware, SetKey, ConfigHost,
              NameFile, WriteFile, Fresh, Checked, HasToken, Run
<1> QED
  BY <1>1, <1>2, <1>3 DEF Recv

LEMMA OldStaysUndone ==
  ASSUME TypeOK, MeaningInv, TokenInv, MaxBoot = 0, [Next]_vars, NEW p \in reqs,
         p.cmd \notin PlainCmd \cup {"GetToken", "UpdateToken"}, p.token < rnd,
         p.id \notin ran
  PROVE  p.id \notin ran'
<1>1. ASSUME NEW q \in reqs, Recv(q) PROVE p.id \notin ran'
  <2>1. CASE ran' = ran
    BY <2>1
  <2>2. CASE q.id # p.id
    BY <1>1, <2>2, RunsUnderToken
  <2>3. CASE q.id = p.id /\ ran' # ran
    <3>1. q.cmd \notin PlainCmd
      BY <1>1, <2>3, RunsUnderToken DEF PlainCmd
    <3>2. q.cmd = p.cmd /\ q.token = p.token
      BY <2>3, <3>1 DEF MeaningInv, Numbered
    <3>3. rpc = "idle" /\ q.token = token
      BY <1>1, <2>3, <3>2, RunsUnderToken
    <3>4. rnd \in Nat
      BY DEF TypeOK, DevTypeOK
    <3> QED
      BY <3>2, <3>3, <3>4 DEF TokenInv
  <2> QED
    BY <2>1, <2>2, <2>3
<1>2. CASE InstallToken \/ MainLoop
  <2>1. ran' = ran
    BY <1>2, OthersConfirmNothing DEF TypeOK
  <2> QED
    BY <2>1
<1>3. ASSUME NEW c, App(c) PROVE ran' = ran
  BY <1>3 DEF App, Open, Command, Resend, Accept, Reject, Timeout, GiveUp, Close,
              Probe, Restart, devVars, history
<1>4. CASE UNCHANGED vars
  BY <1>4 DEF vars, devVars, history
<1> QED
  BY <1>1, <1>2, <1>3, <1>4, NoReboot DEF Next, Device

\* up2pc_recv_cmd: once a token is drawn, what was sent under an older one and not
\* carried out yet never is, however late or often it comes.
THEOREM SupersededStaysUndone ==
  ASSUME MaxBoot = 0
  PROVE  Spec => SupersededNeverRuns
<1>1. Init => TokenInv
  BY DEF Init, DevInit, TokenInv
<1>2. TypeOK /\ TokenInv /\ [Next]_vars => TokenInv'
  BY TokenKeeps
<1>3. TypeOK /\ MeaningInv /\ TokenInv /\ [Next]_vars =>
        [\A p \in reqs :
           /\ p.cmd \notin PlainCmd \cup {"GetToken", "UpdateToken"}
           /\ p.token < rnd /\ p.id \notin ran
           => p.id \notin ran']_vars
  BY OldStaysUndone
<1> QED
  BY <1>1, <1>2, <1>3, TypeAndWait, MeaningInvariant, PTL DEF Spec, SupersededNeverRuns

-----------------------------------------------------------------------------
(* No new command is taken for a repeated one.                             *)

\* The request p, numbered as the packet in the buffer, is done, or was refused and
\* still would be.
Settled(p) ==
  /\ p.cmd \notin PlainCmd /\ p.src = lastSend.dst /\ p.idx = lastSend.idx
  /\ p.id \in ran \/ (rpc = "idle" /\ ~HasToken(p))

\* Nothing is pushed, and what the buffer holds for an application answers a scan or
\* a request that is settled.
BufferInv ==
  /\ status = 0 /\ mpc \in {"start", "idle", "beat"}
  /\ lastSend.dst \in Client /\ lastSend.cmd # "None" =>
       lastSend.idx \in ScanIdx \/ \E p \in reqs : Settled(p)

\* What the receive thread leaves in the buffer.
LEMMA RecvLeaves ==
  ASSUME DevTypeOK, NEW p, IsRequest(p), Recv(p)
  PROVE  /\ ran \subseteq ran' /\ UNCHANGED mainVars
         /\ \/ UNCHANGED <<lastSend, key, token, rpc>>
            \/ lastSend'.dst = Dev
            \/ /\ lastSend'.dst = p.src /\ lastSend'.idx = p.idx
               /\ \/ p.cmd \in PlainCmd
                  \/ p.cmd \notin PlainCmd /\ p.id \in ran'
                  \/ /\ p.cmd \notin PlainCmd /\ rpc' = "idle" /\ ~HasToken(p)
                     /\ UNCHANGED <<key, token>>
<1>1. ran \subseteq ran'
  BY RecvSends
<1>2. UNCHANGED mainVars
  BY DEF Recv, RecvPlain, RecvGetToken, RecvUpdateToken, RecvBadToken, RecvRepeated,
         Execute, Subscribe, Unsubscribe, StatusAcked, Hardware, Ignored, SetKey,
         ConfigHost, NameFile, WriteFile
<1>a. \A cmd, k, t, arg : /\ Sealed(p, cmd, k, t, arg).dst = p.src
                         /\ Sealed(p, cmd, k, t, arg).idx = p.idx
  BY DEF Sealed
<1>b. \A arg : Reply(p, arg).dst = p.src /\ Reply(p, arg).idx = p.idx
  BY <1>a DEF Reply
<1>3. CASE RecvPlain(p)
  BY <1>1, <1>2, <1>3 DEF RecvPlain, Send, Plainly
<1>4. CASE RecvGetToken(p)
  BY <1>1, <1>2, <1>4, <1>b DEF RecvGetToken, Send, PlainCmd
<1>5. CASE RecvUpdateToken(p)
  BY <1>1, <1>2, <1>5, <1>a DEF RecvUpdateToken, Send, PlainCmd
<1>6. CASE RecvBadToken(p)
  BY <1>1, <1>2, <1>6, <1>a DEF RecvBadToken, Checked, Send, sessionVars
<1>7. CASE RecvRepeated(p)
  BY <1>1, <1>2, <1>7 DEF RecvRepeated, sessionVars
<1>8. CASE Execute(p)
  <2>1. p.cmd \notin PlainCmd
    BY <1>8 DEF Execute, Subscribe, Unsubscribe, StatusAcked, Hardware, Ignored,
                SetKey, ConfigHost, NameFile, WriteFile, Fresh, Checked
  <2>2. Marked.dst = Dev
    BY DEF Marked, DevTypeOK, IsAnswer
  <2>3. CASE Silent
    BY <1>1, <1>2, <2>2, <2>3 DEF Silent
  <2>4. CASE ~Silent
    <3>1. p.id \in ran'
      BY <1>8, <2>4 DEF Execute, Subscribe, Unsubscribe, StatusAcked, Hardware, Ignored,
                        SetKey, ConfigHost, NameFile, WriteFile, Run
    <3>2. lastSend'.dst = p.src /\ lastSend'.idx = p.idx
      BY <1>8, <1>a, <1>b, <2>4 DEF Execute, Subscribe, Unsubscribe, StatusAcked, Hardware,
           Ignored, SetKey, ConfigHost, NameFile, WriteFile, Send
    <3> QED
      BY <1>1, <1>2, <2>1, <3>1, <3>2
  <2> QED
    BY <2>3, <2>4
<1> QED
  BY <1>3, <1>4, <1>5, <1>6, <1>7, <1>8 DEF Recv

LEMMA SettledStays ==
  ASSUME NEW p, Settled(p), UNCHANGED <<lastSend, key, token, rpc>>, ran \subseteq ran'
  PROVE  Settled(p)'
BY DEF Settled, HasToken, Decrypts

LEMMA BufferKeeps ==
  ASSUME TypeOK, MeaningInv, BufferInv, MaxPush = 0, [Next]_vars
  PROVE  BufferInv'
<1> USE DEF mainVars
<1>0. DevTypeOK /\ {Dev, Zero} \cap Client = {}
  BY IdAssumption DEF TypeOK
<1>1. ASSUME UNCHANGED <<lastSend, key, token, rpc, mainVars>>, ran \subseteq ran',
             reqs \subseteq reqs'
      PROVE  BufferInv'
  <2>1. \A p : Settled(p) => Settled(p)'
    BY <1>1, SettledStays
  <2> QED
    BY <1>1, <2>1 DEF BufferInv
<1>2. ASSUME NEW p \in reqs, Recv(p), UNCHANGED reqs PROVE BufferInv'
  <2>1. IsRequest(p)
    BY DEF TypeOK
  <2>2. ran \subseteq ran' /\ UNCHANGED mainVars
    BY <1>0, <1>2, <2>1, RecvLeaves
  <2>3. CASE UNCHANGED <<lastSend, key, token, rpc>>
    BY <1>1, <1>2, <2>2, <2>3
  <2>4. CASE lastSend'.dst = Dev
    BY <1>0, <2>2, <2>4 DEF BufferInv
  <2>5. CASE /\ lastSend'.dst = p.src /\ lastSend'.idx = p.idx
             /\ p.cmd \in PlainCmd
    BY <2>2, <2>5 DEF BufferInv, MeaningInv
  <2>6. CASE /\ lastSend'.dst = p.src /\ lastSend'.idx = p.idx
             /\ p.cmd \notin PlainCmd
             /\ \/ p.id \in ran'
                \/ rpc' = "idle" /\ ~HasToken(p) /\ UNCHANGED <<key, token>>
    <3>1. UNCHANGED <<key, token>> => HasToken(p)' = HasToken(p)
      BY DEF HasToken, Decrypts
    <3>2. Settled(p)'
      BY <2>6, <3>1 DEF Settled
    <3> QED
      BY <1>2, <2>2, <3>2 DEF BufferInv
  <2> QED
    BY <1>0, <1>2, <2>1, <2>3, <2>4, <2>5, <2>6, RecvLeaves
<1>3. CASE InstallToken /\ UNCHANGED reqs
  <2>1. UNCHANGED <<lastSend, key, mainVars, ran>> /\ rpc = "refresh"
    BY <1>3 DEF InstallToken, history
  <2>2. \A p : Settled(p) => p.id \in ran
    BY <2>1 DEF Settled
  <2>3. \A p : Settled(p) => Settled(p)'
    BY <2>1, <2>2 DEF Settled
  <2> QED
    BY <1>3, <2>1, <2>3 DEF BufferInv
<1>4. CASE Start \/ Heartbeat
  <2>1. \A to : ToServer("GetHost", to).dst = Zero /\ ToServer("Online", to).dst = Zero
    BY DEF ToServer
  <2>2. lastSend'.dst = Zero /\ mpc' = "idle" /\ UNCHANGED status
    BY <1>4, <2>1 DEF Start, Heartbeat, Send
  <2> QED
    BY <1>0, <2>2 DEF BufferInv
<1>5. ~NewStatus
  BY DEF NewStatus, BufferInv
<1>6. CASE StartRetransmit /\ UNCHANGED reqs
  <2>1. UNCHANGED <<lastSend, key, token, rpc, status, ran>> /\ mpc' = "beat"
    BY <1>6 DEF StartRetransmit, sessionVars, history, BufferInv
  <2>2. \A p : Settled(p) => Settled(p)'
    BY <2>1, SettledStays
  <2> QED
    BY <1>6, <2>1, <2>2 DEF BufferInv
<1>7. ~SendSlot /\ ~SkipSlot /\ ~CountSlot /\ ~EndLoop
  BY DEF SendSlot, SkipSlot, CountSlot, EndLoop, BufferInv
<1>8. CASE Reboot
  BY <1>0, <1>8 DEF Reboot, NoPacket, BufferInv
<1>9. CASE Device /\ UNCHANGED appVars
  <2>1. UNCHANGED reqs
    BY <1>9 DEF appVars
  <2> QED
    BY <1>2, <1>3, <1>4, <1>5, <1>6, <1>7, <1>8, <1>9, <2>1 DEF Device, MainLoop
<1>10. ASSUME NEW c \in Client, App(c) PROVE BufferInv'
  <2>1. reqs \subseteq reqs' /\ UNCHANGED devVars
    BY <1>10 DEF App, Open, Command, Transmit, Resend, Accept, Reject, Timeout, GiveUp,
                 Close, Probe, Restart
  <2> QED
    BY <1>1, <2>1 DEF devVars, sessionVars, history
<1>11. CASE UNCHANGED vars
  BY <1>1, <1>11 DEF vars, devVars, appVars, sessionVars, history
<1> QED
  BY <1>9, <1>10, <1>11 DEF Next

\* While no application restarts, an application and a number are one request.
LEMMA SameNumber ==
  ASSUME TypeOK, AckInv, MaxRestart = 0, NEW p \in Numbered, NEW q \in Numbered,
         p.src = q.src, p.idx = q.idx
  PROVE  p.id = q.id
<1>1. p.id[1] = q.id[1] /\ p.id[3] = q.id[3]
  BY DEF AckInv, Numbered
<1>2. p.id[2] = 0 /\ q.id[2] = 0
  BY IdIs
<1> QED
  BY <1>1, <1>2, IdIs

\* What up2pc_recv_cmd takes for the resend of the last request was carried out, as
\* long as nothing is pushed, no application restarts and the numbers of the scans,
\* which come from the clock, are none of a command.
THEOREM NoneIsSwallowed ==
  ASSUME MaxPush = 0, MaxRestart = 0, ScanIdx \cap (1 .. MaxSend) = {}
  PROVE  Spec => []NothingSwallowed
<1>1. Init => BufferInv
  BY DEF Init, DevInit, NoPacket, BufferInv
<1>2. TypeOK /\ MeaningInv /\ BufferInv /\ [Next]_vars => BufferInv'
  BY BufferKeeps
<1>3. TypeOK /\ AckInv /\ MeaningInv /\ BufferInv => NothingSwallowed
  <2> SUFFICES ASSUME TypeOK, AckInv, MeaningInv, BufferInv, NEW p \in reqs,
                      Checked(p), HasToken(p), Repeated(p)
               PROVE  p.id \in ran
    BY DEF NothingSwallowed
  <2>1. p \in Numbered /\ p.src \in Client
    BY DEF Checked, Numbered, TypeOK, IsRequest
  <2>2. p.idx \in 1 .. MaxSend
    <3>1. p.idx = p.id[3]
      BY <2>1 DEF AckInv, Numbered
    <3> QED
      BY <2>1, <3>1, IdIs
  <2>3. PICK q \in reqs : Settled(q)
    BY <2>1, <2>2 DEF Repeated, BufferInv
  <2>4. q \in Numbered /\ q.id = p.id
    <3>1. q \in Numbered /\ q.src = p.src /\ q.idx = p.idx
      BY <2>3 DEF Settled, Repeated, Numbered
    <3> QED
      BY <2>1, <3>1, SameNumber
  <2>5. q.key = p.key /\ q.token = p.token
    BY <2>1, <2>4 DEF MeaningInv
  <2>6. HasToken(q)
    BY <2>5 DEF HasToken, Decrypts
  <2> QED
    BY <2>3, <2>4, <2>6 DEF Settled
<1> QED
  BY <1>1, <1>2, <1>3, TypeAndWait, AckInvariant, MeaningInvariant, PTL DEF Spec
=============================================================================
