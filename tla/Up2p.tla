-------------------------------- MODULE Up2p --------------------------------
(***************************************************************************)
(* What every part of up2p shares: ids, addresses and packets, from        *)
(* include/up2p.h and include/config.h.                                    *)
(*                                                                         *)
(* An id is the pair (dev0, dev1) or (src0, src1) of a packet; an address  *)
(* is an ip and a port.  A host that is reached directly has its own id as *)
(* address, a host behind the relay has the relay's.                       *)
(*                                                                         *)
(* A request is a record [id, src, from, idx, cmd, key, token, arg] and an *)
(* answer a record [dst, to, idx, cmd, key, token, arg].  cmd is the       *)
(* command inside a CMD_DATA or CMD_DATA_ACK packet, or the command of an  *)
(* unencrypted packet, whose key is then Plain.  Encryption is the field   *)
(* key: a packet is read with the key it was written with, or not at all.  *)
(* id names the request in the histories of the model; no code reads it.   *)
(***************************************************************************)
EXTENDS Naturals

CONSTANTS
  Client,    \* the ids of the applications
  Server,    \* the relay: an address, and no application's id
  Dev,       \* the id of the device
  Zero,      \* the id 0 0
  NoAddr,    \* the address 0:0
  WildAddr,  \* an address nobody has
  Key,       \* AES keys
  Plain,     \* not encrypted
  NoArg,     \* an empty payload
  Byte       \* the modulus of u8

ASSUME IdAssumption ==
  /\ {Server, Dev, Zero, NoAddr, WildAddr} \cap Client = {}
  /\ Dev # Zero
  /\ NoAddr \notin {Server, WildAddr} /\ WildAddr # Server
  /\ Plain \notin Key
  /\ Byte \in Nat \ {0}

Host == Client \cup {Server}

PlainCmd == {"Ping", "LanScan"}

\* Each command of the encrypted layer with its answer.
AckOf == [
  GetToken    |-> "GetTokenAck",    UpdateToken |-> "UpdateTokenAck",
  SendKey     |-> "SendKeyOk",      ConfigHost  |-> "ConfigHostAck",
  SendSerial  |-> "SendSerialAck",  ReadSerial  |-> "ReadSerialAck",
  TxrxSerial  |-> "TxrxSerialAck",  GpioInit    |-> "GpioInitAck",
  GpioWrite   |-> "GpioWriteAck",   FileName    |-> "FileNameAck",
  FileTxt     |-> "FileTxtAck",     Observer    |-> "ObserverAck",
  Unobserver  |-> "UnobserverAck",  UpdateAck   |-> "None",
  SerialAck   |-> "None"]

DataCmd == DOMAIN AckOf

\* The answers that say a request was carried out.
Ack == {AckOf[cmd] : cmd \in DataCmd} \ {"None"}

\* Everything a device sends.
AnswerCmd ==
  Ack \cup {"None", "KeyErr", "Update", "PingAck", "LanScanAck", "Online", "GetHost"}

-----------------------------------------------------------------------------
(* The packets.                                                            *)

RequestId == (Client \cup {Zero}) \X Nat \X Nat

IsRequest(p) ==
  /\ p \in [id : RequestId, src : Client, from : Host, idx : Nat,
             cmd : PlainCmd \cup DataCmd, key : Key \cup {Plain}, token : Nat,
             arg : {p.arg}]
  /\ p.cmd = "SendKey" => p.arg \in Key
  /\ p.cmd = "ConfigHost" => p.arg \in Host

\* A payload of one number: a token, a status or the index of a FILE_T.
Value(type, n) == [type |-> type, value |-> n]

IsAnswer(q) ==
  /\ q \in [dst : Client \cup {Dev, Zero}, to : Host \cup {NoAddr, WildAddr},
             idx : Nat, cmd : AnswerCmd, key : Key \cup {Plain}, token : Nat,
             arg : {q.arg}]
  /\ q.cmd = "UpdateTokenAck" => q.arg.value \in Nat
=============================================================================
