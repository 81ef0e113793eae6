----------------------------- MODULE FrontEnds ------------------------------
(***************************************************************************)
(* The HTTP front ends: restApi_handle_dev_type_value_request with its     *)
(* factory, and the skill handlers for Alexa, from a request to the packet *)
(* for the device and the reply.                                           *)
(*                                                                         *)
(* A handler shares nothing with others but what Gateway and Relay model,  *)
(* _device_ctrl and s_cmd_send; here those only send or not, and return an *)
(* error or not.  Each malloc may fail, and heap names the blocks that the *)
(* variables of the handler own.                                           *)
(***************************************************************************)
EXTENDS Colour, FiniteSets

CONSTANTS
  Value,     \* the numbers requests bring as "value"; a missing one reads as -1
  Hue,       \* the hues of requests
  CmdIndex   \* "cmdindex" of requests; a missing one reads as -1

ASSUME FrontEndsAssumption == Value \subseteq Int /\ Hue \subseteq Int /\ CmdIndex \subseteq Int

VARIABLES
  pc,       \* where the handler is, or "idle"
  req,      \* the request
  heap,     \* the blocks allocated for it and not freed
  payload,  \* the packet made for the device, or NoPacket
  sent,     \* history: the packet that was sent, or NoPacket
  reply,    \* the status of the response; 0 before there is one
  scarce    \* history: a malloc failed

frontVars == <<pc, req, heap, payload, sent, reply, scarce>>

NoPacket == [cmd |-> "None", bytes |-> <<>>]

\* Had the command been an int.
SerialWide(cmd, data) == [cmd |-> "SendSerial", bytes |-> <<85, cmd, 0, Len(data)>> \o data]

\* APC_PACKET: version, command, index, length and data, each a byte.
Serial(cmd, data) ==
  [cmd |-> "SendSerial",
   bytes |-> [i \in 1 .. 4 + Len(data) |-> (<<85, cmd, 0, Len(data)>> \o data)[i] % 256]]
Gpio(pin, val) == [cmd |-> "GpioWrite", bytes |-> <<pin, val>>]

-----------------------------------------------------------------------------
(* Requests.                                                               *)

Function == {"turnOn", "turnOff", "colorChange", "flash", "lightTime"}

\* To the REST gateway: whether device_id has 16 characters, and whether category
\* and batch are there.
RestRequest ==
  [end : {"rest"}, id : BOOLEAN, named : BOOLEAN, factory : {"evalogik", "other", "none"},
   function : Function \cup {"other", "none"}, value : Value]

\* To the skill: whether applianceId, accessToken and cmd are all there.
ControlRequest ==
  [end : {"control"}, complete : BOOLEAN, cmd : {"TurnOn", "TurnOff", "other"},
   index : CmdIndex, value : Value]
ColourRequest ==
  [end : {"control"}, complete : BOOLEAN, cmd : {"SetColor"}, index : {-1}, value : {-1},
   colour : [h : Hue, s : 0 .. N + 1, v : 0 .. N]]
DiscoverRequest == [end : {"discover"}, complete : BOOLEAN]

\* Without a JSON body.
BareRequest == [end : {"rest", "control", "discover"}, bare : {TRUE}]

Request == RestRequest \cup ControlRequest \cup ColourRequest \cup DiscoverRequest \cup BareRequest

Bare(r) == "bare" \in DOMAIN r

-----------------------------------------------------------------------------
NoRequest == [end |-> "none"]

FrontEndsInit ==
  /\ pc = "idle" /\ req = NoRequest /\ heap = {}
  /\ payload = NoPacket /\ sent = NoPacket
  /\ reply = 0 /\ scarce = FALSE

Goto(place) == pc' = place

Reply(status) == reply' = status

\* ulfius_get_json_body_request, and json_object for the response of the gateway.
Begin(r) ==
  /\ pc = "idle"
  /\ req' = r
  /\ heap' = heap \cup (IF Bare(r) THEN {} ELSE {"jreq"})
                  \cup (IF r.end = "rest" THEN {"jresponse"} ELSE {})
  /\ Goto(r.end)
  /\ UNCHANGED <<payload, sent, reply, scarce>>

\* The end of a handler.
Return ==
  /\ pc = "return"
  /\ heap' = heap \ {"jreq", "jresponse", "resp", "body"}
  /\ Goto("idle")
  /\ req' = NoRequest /\ payload' = NoPacket
  /\ sent' = NoPacket /\ reply' = 0 /\ scarce' = FALSE

-----------------------------------------------------------------------------
(* The REST gateway.                                                       *)

\* What must be there before the function is looked at.  The key need not, for the
\* result of its conversion is never tested.
RestComplete(r) == ~Bare(r) /\ r.id /\ r.named /\ r.factory # "none"

RestRefuse ==
  /\ pc = "rest" /\ ~RestComplete(req)
  /\ Reply(400)
  /\ Goto("return")
  /\ UNCHANGED <<req, heap, payload, sent, scarce>>

\* _device_factory_function_parse fails, or umalloc does.
RestNoFunction ==
  /\ pc = "rest" /\ RestComplete(req)
  /\ scarce' = (req.factory = "evalogik" /\ req.function # "none")
  /\ Reply(400)
  /\ Goto("return")
  /\ UNCHANGED <<req, heap, payload, sent>>

\* Had two commands been exchanged.
FunctionByteSwapped(f) ==
  CASE f = "turnOn" -> 16 [] f = "turnOff" -> 17 [] f = "colorChange" -> 21
    [] f = "flash" -> 20 [] f = "lightTime" -> 22 [] OTHER -> 0

\* UART_Cmd_T; the command stays 0 for a function that is not known.
FunctionByte(f) ==
  CASE f = "turnOn" -> 16 [] f = "turnOff" -> 17 [] f = "colorChange" -> 20
    [] f = "flash" -> 21 [] f = "lightTime" -> 22 [] OTHER -> 0

\* No number is both below 0 and above 24: any lightTime is sent.
RestPayload ==
  /\ pc = "rest" /\ RestComplete(req)
  /\ req.factory = "evalogik" /\ req.function # "none"
  /\ payload' = Serial(FunctionByte(req.function),
                       IF req.function = "lightTime" THEN <<req.value>> ELSE <<>>)
  /\ heap' = heap \cup {"payload"}
  /\ Goto("ctrl")
  /\ UNCHANGED <<req, sent, reply, scarce>>

\* Had the payload been left to _device_ctrl.
RespondOnly == {"respond"}

\* What is freed when the device has been asked.
RestFreed == {"respond", "payload"}

\* _device_ctrl fails before or after it has sent, or succeeds; what the device
\* answered may be there in any case.
RestCtrl ==
  /\ pc = "ctrl"
  /\ \/ sent' \in {NoPacket, payload} /\ Reply(404)
     \/ sent' = payload /\ Reply(200)
  /\ \E respond \in SUBSET {"respond"} : heap' = (heap \cup respond) \ RestFreed
  /\ Goto("return")
  /\ UNCHANGED <<req, payload, scarce>>

-----------------------------------------------------------------------------
(* The skill: discovery, and control.                                      *)

\* What skill_creat_device_switch makes a device of.
Parts == {"dev", "detail", "action"}

\* skill_discover_device: without memory for the device or its actions the parts made
\* so far are left behind.
Discover ==
  /\ pc = "discover"
  /\ \/ /\ ~Bare(req) /\ req.complete
        /\ heap' = heap \cup {"resp"} /\ Reply(200) /\ UNCHANGED scarce
     \/ /\ UNCHANGED heap /\ Reply(401)
        /\ scarce' = (~Bare(req) /\ req.complete)
     \/ /\ ~Bare(req) /\ req.complete
        /\ \E made \in SUBSET Parts :
             ~({"dev", "action"} \subseteq made) /\ heap' = heap \cup made
        /\ Reply(401) /\ scarce' = TRUE
  /\ Goto("return")
  /\ UNCHANGED <<req, payload, sent>>

Strings == {"devid", "acc_token", "pcmd"}

\* skill_control_parse: the strings of the request are copied.
ControlParse ==
  /\ pc = "control"
  /\ \E S \in SUBSET Strings :
       /\ S = Strings => ~Bare(req) /\ req.complete
       /\ S # {} => ~Bare(req)
       /\ heap' = heap \cup S
       /\ scarce' = (S # Strings /\ ~Bare(req) /\ req.complete)
       /\ Goto(IF S = Strings THEN "dispatch" ELSE "failed")
  /\ UNCHANGED <<req, payload, sent, reply>>

\* Had the last hour been left out.
TimedShort(v) == v > 0 /\ v < 23

\* The hours a timer takes.
Timed(v) == v > 0 /\ v < 24

\* _ctrl_tree: the packets for a command, none for a timer out of range.
TreePackets(index, v) ==
  CASE index = 22 -> IF Timed(v) THEN {Serial(22, <<v>>)} ELSE {}
    [] index = 18 -> {Gpio(4, 1)}
    [] index = 19 -> {Gpio(4, 0)}
    [] OTHER      -> {Serial(index, <<>>)}

\* skill_ctrl_dev: an index has precedence over the name.
ControlPackets ==
  IF req.index > 0 THEN TreePackets(req.index, req.value)
  ELSE CASE req.cmd = "TurnOn"  -> {Serial(16, <<>>)}
         [] req.cmd = "TurnOff" -> {Serial(17, <<>>)}
         [] OTHER               -> {}

\* A packet to send; or none, which is no failure.
ControlDispatch ==
  /\ pc = "dispatch" /\ req.cmd # "SetColor"
  /\ \/ \E p \in ControlPackets : payload' = p /\ Goto("send")
     \/ ControlPackets = {} /\ Goto("done") /\ UNCHANGED payload
  /\ UNCHANGED <<req, heap, sent, reply, scarce>>

\* _hsb2rgb, whose blocks are gone when it returns.  Without memory for the bytes it
\* succeeds all the same, and the colour is one of whatever is there.
ControlColour ==
  /\ pc = "dispatch" /\ req.cmd = "SetColor"
  /\ LET rgb == RgbFromHsv(req.colour) IN
     \/ /\ rgb # NoColour
        /\ payload' = Serial(32, RgbI(rgb)) /\ Goto("send") /\ UNCHANGED scarce
     \/ /\ rgb # NoColour
        /\ \E b \in {0, 255} : payload' = Serial(32, <<b, b, b>>)
        /\ Goto("send") /\ scarce' = TRUE
     \/ /\ Goto("failed") /\ scarce' = (rgb # NoColour)
        /\ UNCHANGED payload
  /\ UNCHANGED <<req, heap, sent, reply>>

\* s_cmd_send.  What it returns after a timeout is undefined.
ControlSend ==
  /\ pc = "send"
  /\ \/ sent' \in {NoPacket, payload} /\ Goto("failed")
     \/ sent' = payload /\ Goto("done")
  /\ UNCHANGED <<req, heap, payload, reply, scarce>>

\* The strings are freed, and the result replied.
ControlReply ==
  /\ pc \in {"done", "failed"}
  /\ Reply(IF pc = "done" THEN 200 ELSE 400)
  /\ heap' = (heap \ Strings) \cup {"body"}
  /\ Goto("return")
  /\ UNCHANGED <<req, payload, sent, scarce>>

-----------------------------------------------------------------------------
FrontEndsNext ==
  \/ \E r \in Request : Begin(r)
  \/ RestRefuse \/ RestNoFunction \/ RestPayload \/ RestCtrl
  \/ Discover
  \/ ControlParse \/ ControlDispatch \/ ControlColour \/ ControlSend \/ ControlReply
  \/ Return

FrontEndsSpec == FrontEndsInit /\ [][FrontEndsNext]_frontVars

-----------------------------------------------------------------------------
(* Properties.                                                             *)

FrontEndsTypeOK ==
  /\ pc \in {"idle", "rest", "ctrl", "discover", "control", "dispatch", "send", "done",
             "failed", "return"}
  /\ heap \subseteq {"jreq", "jresponse", "payload", "respond", "resp", "body"} \cup Strings \cup Parts
  /\ \A p \in {payload, sent} : /\ p.cmd \in {"None", "SendSerial", "GpioWrite"}
                                /\ \A i \in DOMAIN p.bytes : p.bytes[i] \in 0 .. 255
  /\ sent \in {NoPacket, payload}
  /\ reply \in {0, 200, 400, 401, 404}
  /\ scarce \in BOOLEAN

\* Whichever way a request goes, and whichever malloc fails on it, the handler frees
\* all it allocated; but the parts of a device that discovery could not complete.
\* (restApi_handle_dev_type_value_request, skill_control_parse, skill_discover_device)
OnlyDiscoveryLeaks == pc = "idle" => heap \subseteq Parts

\* A request that one of the front ends knows.
Known(r) ==
  /\ ~Bare(r)
  /\ \/ r.end = "rest" /\ r.function \in Function
     \/ r.end = "control" /\ r.index = 22 /\ r.value \in 1 .. 23
     \/ r.end = "control" /\ r.index \in 16 .. 21
     \/ r.end = "control" /\ r.index <= 0 /\ r.cmd # "other"

\* A reply of 200 to a request that asks a device for something known means that
\* it was sent; one of 400 by the gateway, or of 401, that nothing was.
RepliesTruly ==
  pc = "return" =>
    /\ reply = 200 /\ Known(req) => sent # NoPacket
    /\ reply = 401 \/ (reply = 400 /\ req.end = "rest") => sent = NoPacket

\* The numbers of skill_cmd that stand for the functions of the factory.
IndexOf == [turnOn |-> 16, turnOff |-> 17, colorChange |-> 20, flash |-> 21, lightTime |-> 22]

\* For the same function the two front ends send the device the same bytes, where
\* both send any.  (factory_evalogik.c, _ctrl_tree)
FrontEndsAgree ==
  req.end = "rest" /\ payload # NoPacket /\ req.function \in Function
    => \A p \in TreePackets(IndexOf[req.function], req.value) : payload = p

\* The colour that is sent is the one asked for, by the definition without sectors;
\* for 360 degrees and for want of memory it is not.  (RgbF_CreateFromHsv, _hsb2rgb)
ColourAsAsked ==
  req.end = "control" /\ ~Bare(req) /\ req.cmd = "SetColor" /\ payload # NoPacket /\ ~scarce
      /\ req.colour.h < 360
    => payload.bytes = <<85, 32, 0, 3>> \o RgbI(Reference(req.colour))
=============================================================================
