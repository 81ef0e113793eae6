------------------------------- MODULE Up2pc -------------------------------
(***************************************************************************)
(* The device: src/up2pc/up2pc.c driven by the two threads of vm_up2pc.c.  *)
(*                                                                         *)
(* The receive thread takes one packet at a time through up2pc_recv.  Its  *)
(* handlers are single steps, but for the refresh of the token, which      *)
(* sends its answer while global_token is 0.  The main loop pushes the     *)
(* status to the subscribers slot by slot, or pushes the last status again *)
(* to the slots that have not acknowledged it, and ends each round with a  *)
(* heartbeat.  The two threads share every variable and no lock.           *)
(*                                                                         *)
(* Every packet the device sends, whoever builds it, is built in the one   *)
(* buffer send_buf (lastSend here), and send_buf is also what a repeated   *)
(* request is recognised by.  What has been sent is the set out.           *)
(*                                                                         *)
(* rand() is never seeded: the n-th call since the start returns n.        *)
(***************************************************************************)
EXTENDS ObserverTable, FileRecv

CONSTANTS
  BootKey,     \* the key given on the command line
  OldFile,     \* what demofile.bin holds before the device starts
  MaxRand,     \* bound: calls of sys_get_random
  MaxPush,     \* bound: statuses pushed
  MaxBoot      \* bound: restarts of the device

ASSUME DeviceAssumption ==
  /\ BootKey \in Key
  /\ MaxRand \in Nat /\ MaxPush \in Nat /\ MaxBoot \in Nat

VARIABLES
  key,         \* up2pc_key0, up2pc_key1
  token,       \* global_token
  tokenIdx,    \* token_idx
  rnd,         \* calls of rand() so far
  rpc,         \* the receive thread: "idle", or "refresh" in mid UPDATE_TOKEN
  newToken,    \* tmp.token of up2pc_recv_cmd
  lastSend,    \* send_buf
  server,      \* server_ip, server_port
  observer,    \* observer[]
  status,      \* p_status_buf: the number of the status, 0 for NULL
  mpc,         \* the main loop: what it does
  slot,        \* the main loop: i
  file,        \* g_index, fp and the file
  boots,       \* restarts so far
  out,         \* every packet sent
  ran,         \* history: the encrypted requests carried out
  reran        \* history: those past the token check carried out again

sessionVars == <<key, token, tokenIdx, rnd, rpc, newToken>>
mainVars    == <<status, mpc, slot>>
history     == <<ran, reran>>
devVars     == <<sessionVars, lastSend, server, observer, mainVars, file,
                 boots, out, history>>

NoPacket == [dst |-> Zero, to |-> NoAddr, idx |-> 0, cmd |-> "None",
             key |-> Plain, token |-> 0, arg |-> NoArg]

DevInit ==
  /\ key = BootKey /\ token = 0 /\ tokenIdx = 0 /\ rnd = 0
  /\ rpc = "idle" /\ newToken = 0
  /\ lastSend = NoPacket
  /\ server = Server
  /\ observer = [i \in Slot |-> EmptySlot]
  /\ status = 0 /\ mpc = "start" /\ slot = 1
  /\ file = FileBoot(OldFile)
  /\ boots = 0 /\ out = {} /\ ran = {} /\ reran = {}

-----------------------------------------------------------------------------
(* Sending.                                                                *)

Send(q) == lastSend' = q /\ out' = out \cup {q}

\* The answer to p, back to where p came from.
Plainly(p, cmd) ==
  [dst |-> p.src, to |-> p.from, idx |-> p.idx, cmd |-> cmd,
   key |-> Plain, token |-> 0, arg |-> NoArg]

Sealed(p, cmd, k, t, arg) ==
  [dst |-> p.src, to |-> p.from, idx |-> p.idx, cmd |-> cmd,
   key |-> k, token |-> t, arg |-> arg]

Reply(p, arg) == Sealed(p, AckOf[p.cmd], key, token, arg)

ToServer(cmd, to) ==
  [dst |-> Zero, to |-> to, idx |-> 0, cmd |-> cmd,
   key |-> Plain, token |-> 0, arg |-> NoArg]

-----------------------------------------------------------------------------
(* What the receive thread makes of an encrypted request.                  *)

Decrypts(p) == p.key = key

\* A request that does not decrypt carries a random token, never the right one.
HasToken(p) == Decrypts(p) /\ p.token = token

\* Had the id of the sender been left out of the comparison.
RepeatedAnyone(p) == lastSend.cmd # "None" /\ lastSend.idx = p.idx

\* Had the index been left out of it.
RepeatedAnyIdx(p) == lastSend.cmd # "None" /\ lastSend.dst = p.src

Repeated(p) ==
  /\ lastSend.cmd # "None"
  /\ lastSend.idx = p.idx
  /\ lastSend.dst = p.src

\* Past the check the destination in send_buf becomes the device itself.
Marked == [lastSend EXCEPT !.dst = Dev]

Run(p) ==
  /\ ran' = ran \cup {p.id}
  /\ reran' = IF p.id \in ran THEN reran \cup {p.id} ELSE reran

Silent == lastSend' = Marked /\ out' = out

-----------------------------------------------------------------------------
(* up2pc_recv: unencrypted requests.                                       *)

RecvPlain(p) ==
  /\ rpc = "idle"
  /\ p.cmd \in PlainCmd
  /\ Send(Plainly(p, IF p.cmd = "Ping" THEN "PingAck" ELSE "LanScanAck"))
  /\ UNCHANGED <<sessionVars, server, observer, mainVars, file, boots, history>>

(* up2pc_recv_cmd: the commands that need no token.                        *)

RecvGetToken(p) ==
  /\ rpc = "idle"
  /\ Decrypts(p) /\ p.cmd = "GetToken"
  /\ ran' = ran \cup {p.id}
  /\ Send(Reply(p, Value("token", token)))
  /\ UNCHANGED <<sessionVars, server, observer, mainVars, file, boots, reran>>

\* Had token_idx not been compared: every request draws a new token.
DrawAlways(p) == rnd < MaxRand /\ rnd' = rnd + 1 /\ newToken' = rnd + 1

\* The request with the index of the last refresh is taken for its resend.
Draw(p) ==
  IF p.idx = tokenIdx
  THEN newToken' = token /\ rnd' = rnd
  ELSE rnd < MaxRand /\ rnd' = rnd + 1 /\ newToken' = rnd + 1

\* Up to up2pc_ack_data_cmd: the answer leaves while global_token is 0 ...
RecvUpdateToken(p) ==
  /\ rpc = "idle"
  /\ Decrypts(p) /\ p.cmd = "UpdateToken"
  /\ Draw(p)
  /\ tokenIdx' = p.idx
  /\ token' = 0
  /\ rpc' = "refresh"
  /\ ran' = ran \cup {p.id}
  /\ Send(Sealed(p, "UpdateTokenAck", key, 0, Value("token", newToken')))
  /\ UNCHANGED <<key, server, observer, mainVars, file, boots, reran>>

\* ... and then the new token is installed.
InstallToken ==
  /\ rpc = "refresh"
  /\ rpc' = "idle"
  /\ token' = newToken
  /\ UNCHANGED <<key, tokenIdx, rnd, newToken, lastSend, server, observer,
                 mainVars, file, boots, out, history>>

(* up2pc_recv_cmd: every other command is checked and, unless it repeats   *)
(* the request answered last, executed.                                    *)

Checked(p) ==
  /\ rpc = "idle"
  /\ p.cmd \notin PlainCmd
  /\ ~(Decrypts(p) /\ p.cmd \in {"GetToken", "UpdateToken"})

RecvBadToken(p) ==
  /\ Checked(p) /\ ~HasToken(p)
  /\ Send(Sealed(p, "KeyErr", key, token, NoArg))
  /\ UNCHANGED <<sessionVars, server, observer, mainVars, file, boots, history>>

\* The answer is sent again with the UDP_INFO of the request as it is: its
\* destination, which recvfrom leaves at 0:0.
RecvRepeated(p) ==
  /\ Checked(p) /\ HasToken(p) /\ Repeated(p)
  /\ out' = out \cup {[lastSend EXCEPT !.to = NoAddr]}
  /\ UNCHANGED <<sessionVars, lastSend, server, observer, mainVars, file, boots,
                 history>>

Fresh(p) == Checked(p) /\ HasToken(p) /\ ~Repeated(p)

Subscribe(p) ==
  /\ Fresh(p) /\ p.cmd = "Observer"
  /\ observer' = Register(observer, p.src, p.from)
  /\ Run(p) /\ Send(Reply(p, NoArg))
  /\ UNCHANGED <<sessionVars, server, mainVars, file, boots>>

Unsubscribe(p) ==
  /\ Fresh(p) /\ p.cmd = "Unobserver"
  /\ observer' = Unregister(observer, p.src, p.from)
  /\ Run(p) /\ Send(Reply(p, NoArg))
  /\ UNCHANGED <<sessionVars, server, mainVars, file, boots>>

StatusAcked(p) ==
  /\ Fresh(p) /\ p.cmd = "UpdateAck"
  /\ observer' = StopRetransmit(observer, p.src, p.from)
  /\ Run(p) /\ Silent
  /\ UNCHANGED <<sessionVars, server, mainVars, file, boots>>

\* The serial port and the pins; serial_read always has something to answer.
Hardware(p) ==
  /\ Fresh(p)
  /\ p.cmd \in {"SendSerial", "ReadSerial", "TxrxSerial", "GpioInit", "GpioWrite"}
  /\ Run(p) /\ Send(Reply(p, NoArg))
  /\ UNCHANGED <<sessionVars, server, observer, mainVars, file, boots>>

\* Less than two bytes for a pin, or a command without a handler.
Ignored(p) ==
  /\ Fresh(p)
  /\ \/ p.cmd \in {"GpioInit", "GpioWrite"}
     \/ p.cmd = "SerialAck"
  /\ Silent
  /\ UNCHANGED <<sessionVars, server, observer, mainVars, file, boots, history>>

\* The answer is already written with the new key.
SetKey(p) ==
  /\ Fresh(p) /\ p.cmd = "SendKey"
  /\ key' = p.arg
  /\ Run(p) /\ Send(Sealed(p, AckOf[p.cmd], p.arg, token, NoArg))
  /\ UNCHANGED <<token, tokenIdx, rnd, rpc, newToken, server, observer, mainVars,
                 file, boots>>

\* Had the 0 of a name that does not resolve been stored.
ConfigHostUnchecked(p) ==
  /\ Fresh(p) /\ p.cmd = "ConfigHost"
  /\ server' \in {NoAddr, p.arg}
  /\ Run(p)
  /\ lastSend' = Reply(p, NoArg)
  /\ out' = out \cup {ToServer("GetHost", server'), Reply(p, NoArg)}
  /\ UNCHANGED <<sessionVars, observer, mainVars, file, boots>>

\* The name may not resolve; the answer follows a GET_HOST to the server.
ConfigHost(p) ==
  /\ Fresh(p) /\ p.cmd = "ConfigHost"
  /\ server' \in {server, p.arg}
  /\ Run(p)
  /\ lastSend' = Reply(p, NoArg)
  /\ out' = out \cup {ToServer("GetHost", server'), Reply(p, NoArg)}
  /\ UNCHANGED <<sessionVars, observer, mainVars, file, boots>>

\* If the file cannot be opened nothing is answered.
NameFile(p) ==
  /\ Fresh(p) /\ p.cmd = "FileName"
  /\ file' \in FileInit(file)
  /\ Run(p)
  /\ IF file'.fd = "open" THEN Send(Reply(p, NoArg)) ELSE Silent
  /\ UNCHANGED <<sessionVars, server, observer, mainVars, boots>>

WriteFile(p) ==
  /\ Fresh(p) /\ p.cmd = "FileTxt"
  /\ \E r \in FileWrite(file, p.arg) :
       file' = r.file /\ Send(Reply(p, r.ans))
  /\ Run(p)
  /\ UNCHANGED <<sessionVars, server, observer, mainVars, boots>>

Execute(p) ==
  \/ Subscribe(p) \/ Unsubscribe(p) \/ StatusAcked(p)
  \/ Hardware(p) \/ Ignored(p)
  \/ SetKey(p) \/ ConfigHost(p)
  \/ NameFile(p) \/ WriteFile(p)

Recv(p) ==
  \/ RecvPlain(p) \/ RecvGetToken(p) \/ RecvUpdateToken(p)
  \/ RecvBadToken(p) \/ RecvRepeated(p) \/ Execute(p)

-----------------------------------------------------------------------------
(* The main loop of vm_up2pc.c: after a GET_HOST, every five seconds a new *)
(* status or the last one again, by the clock, and then a heartbeat.       *)

Start ==
  /\ mpc = "start"
  /\ Send(ToServer("GetHost", server))
  /\ mpc' = "idle"
  /\ UNCHANGED <<sessionVars, server, observer, status, slot, file, boots, history>>

NewStatus ==
  /\ mpc = "idle" /\ status < MaxPush
  /\ status' = status + 1
  /\ mpc' = "push" /\ slot' = 1
  /\ UNCHANGED <<sessionVars, lastSend, server, observer, file, boots, out, history>>

\* Without a status (its malloc failed) there is nothing to send.
StartRetransmit ==
  /\ mpc = "idle"
  /\ mpc' = IF status = 0 THEN "beat" ELSE "retransmit"
  /\ slot' = 1
  /\ UNCHANGED <<sessionVars, lastSend, server, observer, status, file, boots, out,
                 history>>

\* The sender's address is stored in info.sip twice and info.sport never, and
\* up2pc_ack_cmd answers to the sender: the packet goes where nobody is.
Update(i) ==
  [dst |-> observer[i].id, to |-> WildAddr, idx |-> observer[i].index,
   cmd |-> "Update", key |-> key, token |-> token, arg |-> Value("status", status)]

Wanted(i) ==
  CASE mpc = "push"       -> Live(observer, i)
    [] mpc = "retransmit" -> Live(observer, i) /\ observer[i].retransmit > 0

SendSlot ==
  /\ mpc \in {"push", "retransmit"} /\ slot \in Slot /\ Wanted(slot)
  /\ Send(Update(slot))
  /\ observer' = NextIndex(observer, slot)
  /\ mpc' = IF mpc = "push" THEN "arm" ELSE "spend"
  /\ UNCHANGED <<sessionVars, server, status, slot, file, boots, history>>

SkipSlot ==
  /\ mpc \in {"push", "retransmit"} /\ slot \in Slot /\ ~Wanted(slot)
  /\ slot' = slot + 1
  /\ UNCHANGED <<sessionVars, lastSend, server, observer, status, mpc, file, boots,
                 out, history>>

\* After the send: retransmit = MAX_RETRANSMITS, or retransmit--.
CountSlot ==
  /\ mpc \in {"arm", "spend"}
  /\ observer' = IF mpc = "arm" THEN Arm(observer, slot) ELSE Spend(observer, slot)
  /\ mpc' = IF mpc = "arm" THEN "push" ELSE "retransmit"
  /\ slot' = slot + 1
  /\ UNCHANGED <<sessionVars, lastSend, server, status, file, boots, out, history>>

\* When a second ends during a push, current_tm - last_retransmit_tm wraps and
\* the retransmission follows at once.
EndLoop ==
  /\ mpc \in {"push", "retransmit"} /\ slot > MaxObs
  /\ \/ mpc' = "beat" /\ slot' = slot
     \/ mpc = "push" /\ mpc' = "retransmit" /\ slot' = 1
  /\ UNCHANGED <<sessionVars, lastSend, server, observer, status, file, boots, out,
                 history>>

Heartbeat ==
  /\ mpc = "beat"
  /\ Send(ToServer("Online", server))
  /\ mpc' = "idle" /\ slot' = 1
  /\ UNCHANGED <<sessionVars, server, observer, status, file, boots, history>>

MainLoop ==
  \/ Start \/ NewStatus \/ StartRetransmit \/ SendSlot \/ SkipSlot \/ CountSlot
  \/ EndLoop \/ Heartbeat

\* The device is switched off and on: only the file is left.
Reboot ==
  /\ boots < MaxBoot
  /\ boots' = boots + 1
  /\ key' = BootKey /\ token' = 0 /\ tokenIdx' = 0 /\ rnd' = 0
  /\ rpc' = "idle" /\ newToken' = 0
  /\ lastSend' = NoPacket
  /\ server' = Server
  /\ observer' = [i \in Slot |-> EmptySlot]
  /\ status' = 0 /\ mpc' = "start" /\ slot' = 1
  /\ file' = FileBoot(file.data)
  /\ UNCHANGED <<out, history>>

DevTypeOK ==
  /\ key \in Key /\ token \in Nat /\ tokenIdx \in Nat
  /\ rnd \in Nat /\ rpc \in {"idle", "refresh"} /\ newToken \in Nat
  /\ IsAnswer(lastSend) /\ \A q \in out : IsAnswer(q)
  /\ server \in Host
  /\ observer \in [Slot -> ObserverSlot(Client \cup {Zero}, Host \cup {NoAddr})]
  /\ status \in Nat
  /\ mpc \in {"start", "idle", "push", "arm", "retransmit", "spend", "beat"}
  /\ slot \in 1 .. MaxObs + 1
  /\ (mpc \in {"arm", "spend"} => slot \in Slot)
  /\ IsFile(file)
  /\ boots \in Nat
  /\ ran \subseteq RequestId /\ reran \subseteq ran
=============================================================================
