-------------------------- MODULE FrontEnds_proofs --------------------------
(***************************************************************************)
(* The handlers of the front ends, for all requests.                       *)
(*                                                                         *)
(* What a handler owns depends on where it is only (Owned), and what it    *)
(* has sent on the way it took.  A request that is known makes a packet:   *)
(* the end without one is reached by others.                               *)
(*                                                                         *)
(* The colours: in each sector the three components that the code mixes    *)
(* are those of the reference (RgbIsReference), they round to bytes        *)
(* (RgbIsBytes), and bytes pass through the packet (SerialOfBytes).        *)
(***************************************************************************)
EXTENDS FrontEnds, SequenceTheorems, TLAPS

\* The places of a request to the skill's control handler.
Controlling == {"control", "dispatch", "send", "done", "failed"}

\* Where a handler is in a request of each kind.
PlaceInv ==
  /\ pc \in {"idle", "rest", "ctrl", "discover", "return"} \cup Controlling
  /\ req \in Request \cup {NoRequest}
  /\ pc \in {"rest", "ctrl"} => req.end = "rest"
  /\ pc = "discover" => req.end = "discover"
  /\ pc \in Controlling => req.end = "control"
  /\ pc \in {"dispatch", "send", "done"} => req \in Request /\ ~Bare(req)

\* The blocks a handler may hold at a place.
Owned(place) ==
  Parts \cup
  {b \in {"jreq", "jresponse", "payload", "resp", "body"} \cup Strings :
     \/ b = "jreq"             /\ place # "idle"
     \/ b = "jresponse"        /\ place \in {"rest", "ctrl", "return"}
     \/ b = "payload"          /\ place = "ctrl"
     \/ b \in Strings          /\ place \in {"dispatch", "send", "done", "failed"}
     \/ b \in {"resp", "body"} /\ place = "return"}

HeapInv == heap \subseteq Owned(pc)

\* The packet of the gateway for a function.
RestPacket(r) ==
  Serial(FunctionByte(r.function), IF r.function = "lightTime" THEN <<r.value>> ELSE <<>>)

PacketInv ==
  /\ pc \in {"idle", "rest", "discover", "control", "dispatch"} => payload = NoPacket
  /\ pc \in {"ctrl", "send"} => payload # NoPacket
  /\ req.end = "rest" /\ payload # NoPacket => payload = RestPacket(req)

SentInv ==
  /\ pc \in {"idle", "rest", "ctrl", "discover", "control", "dispatch", "send"} => sent = NoPacket
  /\ pc = "done" /\ Known(req) => sent # NoPacket

FrontEndsInv == PlaceInv /\ HeapInv /\ PacketInv /\ SentInv /\ RepliesTruly

-----------------------------------------------------------------------------
(* Requests and packets.                                                   *)

LEMMA RequestEnds ==
  ASSUME NEW r \in Request
  PROVE  r.end \in {"rest", "control", "discover"} /\ r # NoRequest
<1>1. r.end \in {"rest", "control", "discover"}
  BY DEF Request, RestRequest, ControlRequest, ColourRequest, DiscoverRequest, BareRequest
<1> QED
  BY <1>1 DEF NoRequest

\* What there is in a request to control a device.
LEMMA ControlBody ==
  ASSUME NEW r \in Request, ~Bare(r), r.end = "control"
  PROVE  \/ r.cmd \in {"TurnOn", "TurnOff", "other"} /\ r.index \in Int
         \/ r.cmd = "SetColor"
<1>1. r \notin BareRequest
  BY DEF Bare, BareRequest
<1> QED
  BY <1>1, FrontEndsAssumption
     DEF Request, RestRequest, ControlRequest, ColourRequest, DiscoverRequest

LEMMA PacketsAreMade ==
  /\ \A cmd, data : Serial(cmd, data) # NoPacket
  /\ \A pin, val : Gpio(pin, val) # NoPacket
BY DEF Serial, Gpio, NoPacket

LEMMA ControlsArePackets ==
  ASSUME NEW p \in ControlPackets
  PROVE  p # NoPacket
BY PacketsAreMade, Zenon DEF ControlPackets, TreePackets

\* skill_ctrl_dev and _ctrl_tree have a packet for what is known.
LEMMA KnownHasPacket ==
  ASSUME req \in Request, ~Bare(req), req.end = "control", req.cmd # "SetColor", Known(req)
  PROVE  ControlPackets # {}
<1>1. req.cmd \in {"TurnOn", "TurnOff", "other"} /\ req.index \in Int
  BY ControlBody
<1>2. CASE req.index = 22 /\ req.value \in 1 .. 23
  <2>1. TreePackets(22, req.value) = {Serial(22, <<req.value>>)}
    BY <1>2 DEF TreePackets, Timed
  <2>2. ControlPackets = TreePackets(22, req.value)
    BY <1>2 DEF ControlPackets
  <2> QED
    BY <2>1, <2>2
<1>3. CASE req.index \in 16 .. 21
  <2>1. TreePackets(req.index, req.value) # {}
    <3>1. CASE req.index = 18
      BY <3>1 DEF TreePackets
    <3>2. CASE req.index = 19
      BY <3>2 DEF TreePackets
    <3>3. CASE req.index \notin {18, 19}
      BY <1>3, <3>3 DEF TreePackets
    <3> QED
      BY <3>1, <3>2, <3>3
  <2>2. ControlPackets = TreePackets(req.index, req.value)
    BY <1>3 DEF ControlPackets
  <2> QED
    BY <2>1, <2>2
<1>4. CASE req.index <= 0 /\ req.cmd # "other"
  <2>1. ~(req.index > 0) /\ req.cmd \in {"TurnOn", "TurnOff"}
    BY <1>1, <1>4
  <2> QED
    BY <2>1 DEF ControlPackets
<1> QED
  BY <1>2, <1>3, <1>4 DEF Known

-----------------------------------------------------------------------------
(* The handlers.                                                           *)

LEMMA BeginKeeps ==
  ASSUME FrontEndsInv, NEW r \in Request, Begin(r)
  PROVE  FrontEndsInv'
<1> USE DEF FrontEndsInv
<1>1. /\ pc = "idle" /\ pc' = r.end /\ req' = r
      /\ heap' = heap \cup (IF Bare(r) THEN {} ELSE {"jreq"})
                      \cup (IF r.end = "rest" THEN {"jresponse"} ELSE {})
      /\ UNCHANGED <<payload, sent, reply, scarce>>
  BY DEF Begin, Goto
<1>2. r.end \in {"rest", "control", "discover"}
  BY RequestEnds
<1>3. PlaceInv' /\ PacketInv' /\ SentInv' /\ RepliesTruly'
  BY <1>1, <1>2 DEF PlaceInv, Controlling, PacketInv, SentInv, RepliesTruly
<1>4. HeapInv'
  BY <1>1, <1>2 DEF HeapInv, Owned, Strings, Parts
<1> QED
  BY <1>3, <1>4

LEMMA ReturnKeeps ==
  ASSUME FrontEndsInv, Return
  PROVE  FrontEndsInv'
<1> USE DEF FrontEndsInv
<1>1. /\ pc = "return" /\ pc' = "idle" /\ req' = NoRequest /\ payload' = NoPacket
      /\ sent' = NoPacket /\ heap' = heap \ {"jreq", "jresponse", "resp", "body"}
  BY DEF Return, Goto
<1>2. PlaceInv' /\ PacketInv' /\ SentInv' /\ RepliesTruly'
  BY <1>1 DEF PlaceInv, Controlling, PacketInv, SentInv, RepliesTruly, NoRequest
<1>3. HeapInv'
  BY <1>1 DEF HeapInv, Owned, Strings, Parts
<1> QED
  BY <1>2, <1>3

LEMMA RestKeeps ==
  ASSUME FrontEndsInv, RestRefuse \/ RestNoFunction \/ RestPayload \/ RestCtrl
  PROVE  FrontEndsInv'
<1> USE DEF FrontEndsInv
<1>1. req' = req /\ req.end = "rest" /\ req \in Request \cup {NoRequest}
  BY DEF RestRefuse, RestNoFunction, RestPayload, RestCtrl, PlaceInv
<1>2. CASE RestRefuse \/ RestNoFunction
  <2>1. /\ pc = "rest" /\ pc' = "return" /\ reply' = 400
        /\ UNCHANGED <<heap, payload, sent>>
    BY <1>2 DEF RestRefuse, RestNoFunction, Goto, Reply
  <2>2. HeapInv'
    BY <2>1 DEF HeapInv, Owned, Strings, Parts
  <2> QED
    BY <1>1, <2>1, <2>2 DEF PlaceInv, Controlling, PacketInv, SentInv, RepliesTruly, RestPacket
<1>3. CASE RestPayload
  <2>1. /\ pc = "rest" /\ pc' = "ctrl" /\ payload' = RestPacket(req)
        /\ heap' = heap \cup {"payload"} /\ UNCHANGED <<sent, reply>>
    BY <1>3 DEF RestPayload, Goto, RestPacket
  <2>2. HeapInv'
    BY <2>1 DEF HeapInv, Owned, Strings, Parts
  <2>3. RestPacket(req) # NoPacket /\ RestPacket(req') = RestPacket(req)
    BY <1>1, PacketsAreMade DEF RestPacket
  <2> QED
    BY <1>1, <2>1, <2>2, <2>3 DEF PlaceInv, Controlling, PacketInv, SentInv, RepliesTruly
<1>4. CASE RestCtrl
  <2>1. /\ pc = "ctrl" /\ pc' = "return" /\ payload' = payload
        /\ reply' = 404 \/ (reply' = 200 /\ sent' = payload)
        /\ \E respond \in SUBSET {"respond"} : heap' = (heap \cup respond) \ RestFreed
    BY <1>4 DEF RestCtrl, Goto, Reply
  <2>2. HeapInv'
    BY <2>1 DEF HeapInv, Owned, Strings, Parts, RestFreed
  <2> QED
    BY <1>1, <2>1, <2>2 DEF PlaceInv, Controlling, PacketInv, SentInv, RepliesTruly, RestPacket
<1> QED
  BY <1>2, <1>3, <1>4

LEMMA DiscoverKeeps ==
  ASSUME FrontEndsInv, Discover
  PROVE  FrontEndsInv'
<1> USE DEF FrontEndsInv
<1>1. /\ pc = "discover" /\ pc' = "return" /\ reply' \in {200, 401}
      /\ UNCHANGED <<req, payload, sent>>
  BY DEF Discover, Goto, Reply
<1>2. heap' \subseteq heap \cup {"resp"} \cup Parts
  BY DEF Discover
<1>3. HeapInv'
  BY <1>1, <1>2 DEF HeapInv, Owned, Strings, Parts
<1>4. req.end = "discover" /\ ~Known(req)
  BY <1>1 DEF PlaceInv, Known
<1> QED
  BY <1>1, <1>3, <1>4 DEF PlaceInv, Controlling, PacketInv, SentInv, RepliesTruly, RestPacket

LEMMA ControlKeeps ==
  ASSUME FrontEndsInv,
         ControlParse \/ ControlDispatch \/ ControlColour \/ ControlSend \/ ControlReply
  PROVE  FrontEndsInv'
<1> USE DEF FrontEndsInv
<1>1. /\ req' = req /\ req.end = "control" /\ req \in Request
      /\ pc \in Controlling
  <2>1. req' = req /\ pc \in Controlling /\ req.end = "control"
    BY DEF ControlParse, ControlDispatch, ControlColour, ControlSend, ControlReply, PlaceInv,
           Controlling
  <2> QED
    BY <2>1 DEF PlaceInv, NoRequest
<1>2. CASE ControlParse
  <2>1. PICK S \in SUBSET Strings :
          /\ S = Strings => ~Bare(req)
          /\ heap' = heap \cup S
          /\ pc' = IF S = Strings THEN "dispatch" ELSE "failed"
    BY <1>2 DEF ControlParse, Goto
  <2>2. pc = "control" /\ UNCHANGED <<payload, sent, reply>>
    BY <1>2 DEF ControlParse
  <2>3. HeapInv'
    BY <2>1, <2>2 DEF HeapInv, Owned, Strings, Parts
  <2> QED
    BY <1>1, <2>1, <2>2, <2>3 DEF PlaceInv, Controlling, PacketInv, SentInv, RepliesTruly
<1>3. CASE ControlDispatch
  <2>1. /\ pc = "dispatch" /\ req.cmd # "SetColor" /\ UNCHANGED <<heap, sent, reply>>
        /\ \/ \E p \in ControlPackets : payload' = p /\ pc' = "send"
           \/ ControlPackets = {} /\ pc' = "done" /\ payload' = payload
    BY <1>3 DEF ControlDispatch, Goto
  <2>2. HeapInv'
    BY <2>1 DEF HeapInv, Owned, Strings, Parts
  <2>3. pc' = "send" => payload' # NoPacket
    BY <2>1, ControlsArePackets
  <2>4. pc' = "done" => ~Known(req)
    BY <1>1, <2>1, KnownHasPacket DEF PlaceInv
  <2> QED
    BY <1>1, <2>1, <2>2, <2>3, <2>4 DEF PlaceInv, Controlling, PacketInv, SentInv, RepliesTruly
<1>4. CASE ControlColour
  <2>1. /\ pc = "dispatch" /\ UNCHANGED <<heap, sent, reply>>
        /\ \/ pc' = "send" /\ \E data : payload' = Serial(32, data)
           \/ pc' = "failed" /\ payload' = payload
    BY <1>4 DEF ControlColour, Goto
  <2>2. HeapInv'
    BY <2>1 DEF HeapInv, Owned, Strings, Parts
  <2>3. pc' = "send" => payload' # NoPacket
    BY <2>1, PacketsAreMade
  <2> QED
    BY <1>1, <2>1, <2>2, <2>3 DEF PlaceInv, Controlling, PacketInv, SentInv, RepliesTruly
<1>5. CASE ControlSend
  <2>1. /\ pc = "send" /\ UNCHANGED <<heap, payload, reply>>
        /\ pc' = "failed" \/ (pc' = "done" /\ sent' = payload)
    BY <1>5 DEF ControlSend, Goto
  <2>2. HeapInv'
    BY <2>1 DEF HeapInv, Owned, Strings, Parts
  <2> QED
    BY <1>1, <2>1, <2>2 DEF PlaceInv, Controlling, PacketInv, SentInv, RepliesTruly
<1>6. CASE ControlReply
  <2>1. /\ pc \in {"done", "failed"} /\ pc' = "return" /\ UNCHANGED <<payload, sent>>
        /\ reply' = IF pc = "done" THEN 200 ELSE 400
        /\ heap' = (heap \ Strings) \cup {"body"}
    BY <1>6 DEF ControlReply, Goto, Reply
  <2>2. HeapInv'
    BY <2>1 DEF HeapInv, Owned, Strings, Parts
  <2> QED
    BY <1>1, <2>1, <2>2 DEF PlaceInv, Controlling, PacketInv, SentInv, RepliesTruly
<1> QED
  BY <1>2, <1>3, <1>4, <1>5, <1>6

-----------------------------------------------------------------------------
(* The specification.                                                      *)

LEMMA FrontEndsIsInductive == FrontEndsSpec => []FrontEndsInv
<1>1. FrontEndsInit => FrontEndsInv
  BY DEF FrontEndsInit, FrontEndsInv, PlaceInv, Controlling, HeapInv, PacketInv, SentInv,
         RepliesTruly, NoRequest
<1>2. FrontEndsInv /\ [FrontEndsNext]_frontVars => FrontEndsInv'
  <2> SUFFICES ASSUME FrontEndsInv, [FrontEndsNext]_frontVars PROVE FrontEndsInv'
    OBVIOUS
  <2>1. CASE UNCHANGED frontVars
    BY <2>1 DEF frontVars, FrontEndsInv, PlaceInv, HeapInv, PacketInv, SentInv, RepliesTruly,
                RestPacket
  <2> QED
    BY <2>1, BeginKeeps, ReturnKeeps, RestKeeps, DiscoverKeeps, ControlKeeps
       DEF FrontEndsNext
<1> QED
  BY <1>1, <1>2, PTL DEF FrontEndsSpec

\* Whatever is asked and whichever malloc fails, a handler leaves behind nothing but
\* parts of a device that skill_creat_device_switch could not complete.
THEOREM NothingElseLeaks == FrontEndsSpec => []OnlyDiscoveryLeaks
<1>1. ASSUME FrontEndsInv PROVE OnlyDiscoveryLeaks
  BY <1>1 DEF FrontEndsInv, HeapInv, Owned, Strings, OnlyDiscoveryLeaks
<1> QED
  BY <1>1, FrontEndsIsInductive, PTL

\* A request of the two front ends that is known and answered 200 was sent to the
\* device; one the gateway refuses with 400 was not.
THEOREM RepliesAreTrue == FrontEndsSpec => []RepliesTruly
<1>1. ASSUME FrontEndsInv PROVE RepliesTruly
  BY <1>1 DEF FrontEndsInv
<1> QED
  BY <1>1, FrontEndsIsInductive, PTL

\* factory_evalogik.c and _ctrl_tree make the same bytes of the same function.
THEOREM SameBytes == FrontEndsSpec => []FrontEndsAgree
<1>1. ASSUME FrontEndsInv, req.end = "rest", payload # NoPacket, req.function \in Function,
             NEW p \in TreePackets(IndexOf[req.function], req.value)
      PROVE  payload = p
  <2> DEFINE f == req.function
  <2>1. payload = RestPacket(req)
    BY <1>1 DEF FrontEndsInv, PacketInv
  <2>2. CASE f = "lightTime"
    <3>1. IndexOf[f] = 22 /\ FunctionByte(f) = 22
      BY <2>2 DEF IndexOf, FunctionByte
    <3>2. p = Serial(22, <<req.value>>)
      BY <1>1, <3>1 DEF TreePackets
    <3> QED
      BY <2>1, <2>2, <3>1, <3>2 DEF RestPacket
  <2>3. ASSUME f # "lightTime", IndexOf[f] = FunctionByte(f), FunctionByte(f) \in {16, 17, 20, 21}
        PROVE  payload = p
    <3>1. FunctionByte(f) \notin {18, 19, 22}
      BY <2>3
    <3>2. p = Serial(FunctionByte(f), <<>>)
      BY <1>1, <2>3, <3>1 DEF TreePackets
    <3> QED
      BY <2>1, <2>3, <3>2 DEF RestPacket
  <2>4. CASE f = "turnOn"
    BY <2>3, <2>4 DEF IndexOf, FunctionByte
  <2>5. CASE f = "turnOff"
    BY <2>3, <2>5 DEF IndexOf, FunctionByte
  <2>6. CASE f = "colorChange"
    BY <2>3, <2>6 DEF IndexOf, FunctionByte
  <2>7. CASE f = "flash"
    BY <2>3, <2>7 DEF IndexOf, FunctionByte
  <2> QED
    BY <1>1, <2>2, <2>4, <2>5, <2>6, <2>7 DEF Function
<1>2. FrontEndsInv => FrontEndsAgree
  BY <1>1 DEF FrontEndsAgree
<1> QED
  BY <1>2, FrontEndsIsInductive, PTL

-----------------------------------------------------------------------------
(* Colours.                                                                *)

\* Least is one of the three, and at most each of them.
LEMMA LeastOfThree ==
  ASSUME NEW a \in Int, NEW b \in Int, NEW c \in Int
  PROVE  /\ Least({a, b, c}) \in {a, b, c}
         /\ \A k \in {a, b, c} : Least({a, b, c}) <= k
<1>1. \E n \in {a, b, c} : \A k \in {a, b, c} : n <= k
  <2>1. \A k \in {a, b, c} : k = a \/ k = b \/ k = c
    OBVIOUS
  <2>2. CASE a <= b /\ a <= c
    BY <2>1, <2>2
  <2>3. CASE b <= a /\ b <= c
    BY <2>1, <2>3
  <2>4. CASE c <= a /\ c <= b
    BY <2>1, <2>4
  <2> QED
    BY <2>2, <2>3, <2>4
<1> QED
  BY <1>1 DEF Least

\* How far the hue is from a component that it is k degrees past, up to 60.
Away(k) == IF k >= 240 THEN 0 ELSE IF k <= 60 THEN k ELSE IF k <= 180 THEN 60 ELSE 240 - k

LEMMA AwayIs ==
  ASSUME NEW k \in 0 .. 359
  PROVE  (IF Least({k, 240 - k, 60}) < 0 THEN 0 ELSE Least({k, 240 - k, 60})) = Away(k)
<1>1. PICK b \in Int, c \in Int : b = 240 - k /\ c = 60
  OBVIOUS
<1>2. /\ Least({k, b, c}) \in {k, b, c}
      /\ \A j \in {k, b, c} : Least({k, b, c}) <= j
  BY LeastOfThree, k \in Int
<1>3. PICK n : n = Least({k, b, c})
  OBVIOUS
<1>4. (IF n < 0 THEN 0 ELSE n) = Away(k)
  <2>1. n \in {k, 240 - k, 60} /\ n <= k /\ n <= 240 - k /\ n <= 60
    BY <1>1, <1>2, <1>3
  <2> QED
    BY <2>1 DEF Away
<1> QED
  BY <1>1, <1>3, <1>4

\* A component of the reference, by the distance of the hue from it.
LEMMA ComponentIs ==
  ASSUME NEW col, col.h \in 0 .. 359, NEW from \in {60, 180, 300}
  PROVE  Component(col, from) = 60 * col.v * N - col.v * col.s * Away((col.h + from) % 360)
<1>1. PICK k \in 0 .. 359 : k = (col.h + from) % 360
  OBVIOUS
<1> DEFINE away == IF Least({k, 240 - k, 60}) < 0 THEN 0 ELSE Least({k, 240 - k, 60})
<1>2. away = Away(k)
  BY AwayIs
<1>3. Component(col, from) = 60 * col.v * N - col.v * col.s * away
  BY <1>1, Zenon DEF Component
<1> HIDE DEF away
<1>4. Component(col, from) = 60 * col.v * N - col.v * col.s * Away(k)
  BY <1>2, <1>3
<1> QED
  BY <1>1, <1>4

\* The sectors that the code divides the circle into.
LEMMA Sectors ==
  ASSUME NEW h \in 0 .. 359
  PROVE  /\ h \div 60 \in 0 .. 5
         /\ h \div 60 = 0 <=> h < 60
         /\ h \div 60 = 1 <=> (60 <= h /\ h < 120)
         /\ h \div 60 = 2 <=> (120 <= h /\ h < 180)
         /\ h \div 60 = 3 <=> (180 <= h /\ h < 240)
         /\ h \div 60 = 4 <=> (240 <= h /\ h < 300)
         /\ h \div 60 = 5 <=> 300 <= h
OBVIOUS

\* How far the hue is from red, green and blue in each sector: y is its distance within
\* the sector, as RgbF_CreateFromHsv computes it.
LEMMA Turns ==
  ASSUME NEW h \in 0 .. 359, NEW y, y = Abs((h % 120) - 60),
         NEW r, r = Away((h + 300) % 360),
         NEW g, g = Away((h + 180) % 360),
         NEW b, b = Away((h + 60) % 360)
  PROVE  /\ h < 60               => r = 0  /\ g = y  /\ b = 60
         /\ 60 <= h /\ h < 120  => r = y  /\ g = 0  /\ b = 60
         /\ 120 <= h /\ h < 180 => r = 60 /\ g = 0  /\ b = y
         /\ 180 <= h /\ h < 240 => r = 60 /\ g = y  /\ b = 0
         /\ 240 <= h /\ h < 300 => r = y  /\ g = 60 /\ b = 0
         /\ 300 <= h             => r = 0  /\ g = 60 /\ b = y
BY DEF Away, Abs

\* The sums of chroma, second component and lightness that the sectors are mixed of.
LEMMA Mixed ==
  ASSUME NEW v \in Int, NEW s \in Int, NEW y \in Int, NEW n \in Int
  PROVE  /\ 60 * v * s + (60 * v * n - 60 * v * s) = 60 * v * n - v * s * 0
         /\ v * s * (60 - y) + (60 * v * n - 60 * v * s) = 60 * v * n - v * s * y
         /\ 60 * v * n - 60 * v * s = 60 * v * n - v * s * 60
OBVIOUS

\* RgbF_Create checks what it is given.
LEMMA RgbFIsValid ==
  ASSUME NEW r, NEW g, NEW b, RgbF(r, g, b) # NoColour
  PROVE  RgbValid(RgbF(r, g, b))
BY DEF RgbF

\* What RgbF_CreateFromHsv returns, if anything, is within bounds.
LEMMA RgbIsValid ==
  ASSUME NEW col, RgbFromHsv(col) # NoColour
  PROVE  RgbValid(RgbFromHsv(col))
<1> DEFINE c == 60 * col.v * col.s
           x == col.v * col.s * (60 - Abs((col.h % 120) - 60))
           m == 60 * col.v * N - c
           sector == col.h \div 60
<1>1. HsvValid(col)
  BY DEF RgbFromHsv
<1>2. CASE sector = 0
  <2>1. RgbFromHsv(col) = RgbF(c + m, x + m, m)
    BY <1>1, <1>2 DEF RgbFromHsv
  <2> QED
    BY <2>1, RgbFIsValid
<1>3. CASE sector = 1
  <2>1. RgbFromHsv(col) = RgbF(x + m, c + m, m)
    BY <1>1, <1>3 DEF RgbFromHsv
  <2> QED
    BY <2>1, RgbFIsValid
<1>4. CASE sector = 2
  <2>1. RgbFromHsv(col) = RgbF(m, c + m, x + m)
    BY <1>1, <1>4 DEF RgbFromHsv
  <2> QED
    BY <2>1, RgbFIsValid
<1>5. CASE sector = 3
  <2>1. RgbFromHsv(col) = RgbF(m, x + m, c + m)
    BY <1>1, <1>5 DEF RgbFromHsv
  <2> QED
    BY <2>1, RgbFIsValid
<1>6. CASE sector = 4
  <2>1. RgbFromHsv(col) = RgbF(x + m, m, c + m)
    BY <1>1, <1>6 DEF RgbFromHsv
  <2> QED
    BY <2>1, RgbFIsValid
<1>7. CASE sector = 5
  <2>1. RgbFromHsv(col) = RgbF(c + m, m, x + m)
    BY <1>1, <1>7 DEF RgbFromHsv
  <2> QED
    BY <2>1, RgbFIsValid
<1>8. CASE sector # 0 /\ sector # 1 /\ sector # 2 /\ sector # 3 /\ sector # 4 /\ sector # 5
  <2>1. RgbFromHsv(col) = RgbF(m, m, m)
    BY <1>1, <1>8, Zenon DEF RgbFromHsv
  <2> QED
    BY <2>1, RgbFIsValid
<1> QED
  BY <1>2, <1>3, <1>4, <1>5, <1>6, <1>7, <1>8

\* RgbF_CreateFromHsv computes the reference wherever it computes anything.
LEMMA RgbIsReference ==
  ASSUME NEW col, col.h \in Int, col.h < 360, RgbFromHsv(col) # NoColour
  PROVE  RgbFromHsv(col) = Reference(col) /\ RgbValid(Reference(col))
<1> DEFINE h == col.h
           c == 60 * col.v * col.s
           y == Abs((col.h % 120) - 60)
           x == col.v * col.s * (60 - y)
           m == 60 * col.v * N - c
           R == Component(col, 300)
           G == Component(col, 180)
           B == Component(col, 60)
<1>1. HsvValid(col)
  BY DEF RgbFromHsv
<1>2. h \in 0 .. 359 /\ col.s \in Int /\ col.v \in Int /\ N \in Int
  BY <1>1, ColourAssumption DEF HsvValid
<1>3. y \in Int
  BY <1>2 DEF Abs
<1> DEFINE W(a) == 60 * col.v * N - col.v * col.s * a
<1>4. c + m = W(0) /\ x + m = W(y) /\ m = W(60)
  BY <1>2, <1>3, Mixed
<1>5. /\ R = W(Away((h + 300) % 360))
      /\ G = W(Away((h + 180) % 360))
      /\ B = W(Away((h + 60) % 360))
  BY <1>2, ComponentIs
<1> HIDE DEF y, c, x, m, W, R, G, B
<1>6. RgbFromHsv(col) = RgbF(R, G, B)
  <2>0. h \div 60 \in 0 .. 5
    BY <1>2, Sectors
  <2>1. CASE h \div 60 = 0
    <3>1. /\ Away((h + 300) % 360) = 0
          /\ Away((h + 180) % 360) = y
          /\ Away((h + 60) % 360) = 60
      BY <1>2, <2>1, Sectors, Turns DEF y
    <3>2. R = c + m /\ G = x + m /\ B = m
      BY <1>4, <1>5, <3>1
    <3>3. RgbFromHsv(col) = RgbF(c + m, x + m, m)
      BY <1>1, <2>1 DEF RgbFromHsv, y, c, x, m
    <3> QED
      BY <3>2, <3>3, Zenon
  <2>2. CASE h \div 60 = 1
    <3>1. /\ Away((h + 300) % 360) = y
          /\ Away((h + 180) % 360) = 0
          /\ Away((h + 60) % 360) = 60
      BY <1>2, <2>2, Sectors, Turns DEF y
    <3>2. R = x + m /\ G = c + m /\ B = m
      BY <1>4, <1>5, <3>1
    <3>3. RgbFromHsv(col) = RgbF(x + m, c + m, m)
      BY <1>1, <2>2 DEF RgbFromHsv, y, c, x, m
    <3> QED
      BY <3>2, <3>3, Zenon
  <2>3. CASE h \div 60 = 2
    <3>1. /\ Away((h + 300) % 360) = 60
          /\ Away((h + 180) % 360) = 0
          /\ Away((h + 60) % 360) = y
      BY <1>2, <2>3, Sectors, Turns DEF y
    <3>2. R = m /\ G = c + m /\ B = x + m
      BY <1>4, <1>5, <3>1
    <3>3. RgbFromHsv(col) = RgbF(m, c + m, x + m)
      BY <1>1, <2>3 DEF RgbFromHsv, y, c, x, m
    <3> QED
      BY <3>2, <3>3, Zenon
  <2>4. CASE h \div 60 = 3
    <3>1. /\ Away((h + 300) % 360) = 60
          /\ Away((h + 180) % 360) = y
          /\ Away((h + 60) % 360) = 0
      BY <1>2, <2>4, Sectors, Turns DEF y
    <3>2. R = m /\ G = x + m /\ B = c + m
      BY <1>4, <1>5, <3>1
    <3>3. RgbFromHsv(col) = RgbF(m, x + m, c + m)
      BY <1>1, <2>4 DEF RgbFromHsv, y, c, x, m
    <3> QED
      BY <3>2, <3>3, Zenon
  <2>5. CASE h \div 60 = 4
    <3>1. /\ Away((h + 300) % 360) = y
          /\ Away((h + 180) % 360) = 60
          /\ Away((h + 60) % 360) = 0
      BY <1>2, <2>5, Sectors, Turns DEF y
    <3>2. R = x + m /\ G = m /\ B = c + m
      BY <1>4, <1>5, <3>1
    <3>3. RgbFromHsv(col) = RgbF(x + m, m, c + m)
      BY <1>1, <2>5 DEF RgbFromHsv, y, c, x, m
    <3> QED
      BY <3>2, <3>3, Zenon
  <2>6. CASE h \div 60 = 5
    <3>1. /\ Away((h + 300) % 360) = 0
          /\ Away((h + 180) % 360) = 60
          /\ Away((h + 60) % 360) = y
      BY <1>2, <2>6, Sectors, Turns DEF y
    <3>2. R = c + m /\ G = m /\ B = x + m
      BY <1>4, <1>5, <3>1
    <3>3. RgbFromHsv(col) = RgbF(c + m, m, x + m)
      BY <1>1, <2>6 DEF RgbFromHsv, y, c, x, m
    <3> QED
      BY <3>2, <3>3, Zenon
  <2> QED
    BY <2>0, <2>1, <2>2, <2>3, <2>4, <2>5, <2>6
<1> QED
  BY <1>6 DEF RgbF, Reference, R, G, B

-----------------------------------------------------------------------------
(* Bytes.                                                                  *)

LEMMA ByteStays == ASSUME NEW b \in 0 .. 255 PROVE b % 256 = b
OBVIOUS

LEMMA ByteOfInt == ASSUME NEW n \in Int PROVE n % 256 \in 0 .. 255
OBVIOUS

\* A packet is its header of four bytes and the data.
LEMMA HeaderIs ==
  ASSUME NEW S, NEW a \in S, NEW b \in S, NEW c \in S, NEW d \in S, NEW data \in Seq(S),
         NEW s, s = <<a, b, c, d>> \o data
  PROVE  s \in Seq(S) /\ Len(s) = 4 + Len(data)
<1>0. <<a, b, c, d>> \in Seq(S) /\ Len(<<a, b, c, d>>) = 4
  OBVIOUS
<1>1. PICK h \in Seq(S) : h = <<a, b, c, d>> /\ Len(h) = 4
  BY <1>0, Zenon
<1>2. s \in Seq(S) /\ Len(s) = Len(h) + Len(data)
  BY <1>1, ConcatProperties
<1> QED
  BY <1>1, <1>2

\* A sequence by its indices.
LEMMA Indexed ==
  ASSUME NEW S, NEW s \in Seq(S)
  PROVE  /\ \A i \in 1 .. Len(s) : s[i] \in S
         /\ s = [i \in 1 .. Len(s) |-> s[i]]
<1>1. \A i \in 1 .. Len(s) : s[i] \in S
  BY ElementOfSeq
<1>3. s = [i \in 1 .. Len(s) |-> s[i]]
  BY LenProperties
<1> QED
  BY <1>1, <1>3

\* Whatever is packed, the packet is bytes.
LEMMA SerialType ==
  ASSUME NEW cmd \in Int, NEW data \in Seq(Int)
  PROVE  \A i \in DOMAIN Serial(cmd, data).bytes : Serial(cmd, data).bytes[i] \in 0 .. 255
<1>1. PICK s : s = <<85, cmd, 0, Len(data)>> \o data
  OBVIOUS
<1>2. Len(data) \in Int /\ 85 \in Int /\ 0 \in Int
  BY LenProperties
<1>3. s \in Seq(Int) /\ Len(s) = 4 + Len(data)
  BY <1>1, <1>2, HeaderIs
<1>4. \A i \in 1 .. 4 + Len(data) : s[i] \in Int
  BY <1>3, Indexed
<1>5. \A i \in 1 .. 4 + Len(data) : s[i] % 256 \in 0 .. 255
  BY <1>4, ByteOfInt
<1>6. Serial(cmd, data).bytes = [i \in 1 .. 4 + Len(data) |-> s[i] % 256]
  BY <1>1 DEF Serial
<1>7. PICK D : D = 1 .. 4 + Len(data)
  OBVIOUS
<1>8. PICK f : f = [i \in D |-> s[i] % 256]
  OBVIOUS
<1>9. DOMAIN f = D /\ \A i \in D : f[i] \in 0 .. 255
  BY <1>5, <1>7, <1>8
<1> QED
  BY <1>6, <1>7, <1>8, <1>9

IsBytes(data) == data \in Seq(Int) /\ \A i \in 1 .. Len(data) : data[i] \in 0 .. 255

\* APC_PACKET: what becomes of the bytes of a packet.
Cut(s) == [i \in 1 .. Len(s) |-> s[i] % 256]

\* Bytes are unchanged when cut to bytes.
LEMMA BytesStay ==
  ASSUME NEW h, IsBytes(h), NEW data, IsBytes(data), NEW s, s = h \o data
  PROVE  Len(s) = Len(h) + Len(data) /\ Cut(s) = s
<1> DEFINE n == Len(h) + Len(data)
<1>1. s \in Seq(Int) /\ Len(s) = n
  BY ConcatProperties DEF IsBytes
<1>2. Len(h) \in Nat /\ Len(data) \in Nat
  BY LenProperties DEF IsBytes
<1>3. \A i \in 1 .. n : s[i] = IF i <= Len(h) THEN h[i] ELSE data[i - Len(h)]
  BY ConcatProperties DEF IsBytes
<1>4. ASSUME NEW i \in 1 .. n
      PROVE  s[i] \in 0 .. 255
  <2>1. CASE i <= Len(h)
    <3>1. i \in 1 .. Len(h) /\ s[i] = h[i]
      BY <1>2, <1>3, <2>1
    <3> QED
      BY <3>1 DEF IsBytes
  <2>2. CASE i > Len(h)
    <3>1. i - Len(h) \in 1 .. Len(data) /\ s[i] = data[i - Len(h)]
      BY <1>2, <1>3, <2>2
    <3> QED
      BY <3>1 DEF IsBytes
  <2> QED
    BY <1>2, <2>1, <2>2
<1> HIDE DEF n
<1>5. \A i \in 1 .. n : s[i] % 256 = s[i]
  BY <1>4, ByteStays
<1>6. s = [i \in 1 .. n |-> s[i]]
  BY <1>1, Indexed
<1>7. Cut(s) = s
  BY <1>1, <1>5, <1>6 DEF Cut
<1> QED
  BY <1>1, <1>7 DEF n

\* Three bytes of data go out as they are.
LEMMA SerialOfBytes ==
  ASSUME NEW data, IsBytes(data), Len(data) = 3
  PROVE  Serial(32, data).bytes = <<85, 32, 0, 3>> \o data
<1>1. <<85, 32, 0, 3>> \in Seq(Int) /\ Len(<<85, 32, 0, 3>>) = 4
  OBVIOUS
<1>2. PICK h : h = <<85, 32, 0, 3>>
  OBVIOUS
<1>3. IsBytes(h) /\ Len(h) = 4
  <2>1. h \in Seq(Int) /\ Len(h) = 4
    BY <1>1, <1>2
  <2>2. h[1] = 85 /\ h[2] = 32 /\ h[3] = 0 /\ h[4] = 3
    BY <1>2
  <2>3. \A i \in 1 .. 4 : i = 1 \/ i = 2 \/ i = 3 \/ i = 4
    OBVIOUS
  <2>4. \A i \in 1 .. 4 : h[i] \in 0 .. 255
    BY <2>2, <2>3
  <2> QED
    BY <2>1, <2>4 DEF IsBytes
<1>4. PICK s : s = h \o data
  OBVIOUS
<1>5. Len(s) = Len(h) + Len(data) /\ Cut(s) = s
  BY <1>3, <1>4, BytesStay
<1>6. Serial(32, data).bytes = Cut(s)
  BY <1>2, <1>3, <1>4, <1>5 DEF Serial, Cut
<1> QED
  BY <1>2, <1>4, <1>5, <1>6

\* The rounding of RgbI_CreateFromRealForm stays below 256.
LEMMA RoundedIsByte ==
  ASSUME NEW f \in Nat \ {0}, NEW n \in 0 .. f
  PROVE  (2 * 255 * n + f) \div (2 * f) \in 0 .. 255
OBVIOUS

LEMMA ThreeAreSeq ==
  ASSUME NEW S, NEW f \in [1 .. 3 -> S]
  PROVE  f \in Seq(S) /\ Len(f) = 3
<1>1. f \in Seq(S)
  BY SeqDef
<1>2. DOMAIN f = 1 .. 3 /\ DOMAIN f = 1 .. Len(f) /\ Len(f) \in Nat
  BY <1>1, LenProperties
<1> QED
  BY <1>1, <1>2

\* A colour within bounds becomes three bytes.
LEMMA RgbIsBytes ==
  ASSUME NEW c, RgbValid(c)
  PROVE  IsBytes(RgbI(c)) /\ Len(RgbI(c)) = 3
<1>1. Full \in Nat \ {0}
  BY ColourAssumption DEF Full
<1>2. \A i \in 1 .. 3 : (2 * 255 * c[i] + Full) \div (2 * Full) \in 0 .. 255
  BY <1>1, RoundedIsByte DEF RgbValid
<1>3. RgbI(c) = [i \in 1 .. 3 |-> (2 * 255 * c[i] + Full) \div (2 * Full)]
  BY DEF RgbI
<1>4. \A i \in 1 .. 3 : RgbI(c)[i] \in 0 .. 255
  BY <1>2, <1>3
<1>5. RgbI(c) \in [1 .. 3 -> Int]
  BY <1>3, <1>4
<1>6. RgbI(c) \in Seq(Int) /\ Len(RgbI(c)) = 3
  BY <1>5, ThreeAreSeq
<1> QED
  BY <1>4, <1>6 DEF IsBytes

PacketType(p) ==
  /\ p.cmd \in {"None", "SendSerial", "GpioWrite"}
  /\ \A i \in DOMAIN p.bytes : p.bytes[i] \in 0 .. 255

LEMMA SerialIsPacket ==
  ASSUME NEW cmd \in Int, NEW data \in Seq(Int)
  PROVE  PacketType(Serial(cmd, data))
<1>1. Serial(cmd, data).cmd = "SendSerial"
  BY DEF Serial
<1> QED
  BY <1>1, SerialType DEF PacketType

LEMMA GpioIsPacket ==
  ASSUME NEW pin \in 0 .. 255, NEW val \in 0 .. 255
  PROVE  PacketType(Gpio(pin, val))
<1>1. DOMAIN <<pin, val>> = {1, 2}
  OBVIOUS
<1> QED
  BY <1>1 DEF PacketType, Gpio

\* What _ctrl_tree makes of the indices 18 and 19.
LEMMA LightIsPacket == PacketType(Gpio(4, 1)) /\ PacketType(Gpio(4, 0))
<1>1. PICK pin \in 0 .. 255 : pin = 4
  OBVIOUS
<1>2. PICK on \in 0 .. 255 : on = 1
  OBVIOUS
<1>3. PICK off \in 0 .. 255 : off = 0
  OBVIOUS
<1>4. PacketType(Gpio(pin, on)) /\ PacketType(Gpio(pin, off))
  BY GpioIsPacket
<1> QED
  BY <1>1, <1>2, <1>3, <1>4

LEMMA NoPacketIsPacket == PacketType(NoPacket)
<1>1. DOMAIN <<>> = {}
  OBVIOUS
<1> QED
  BY <1>1 DEF PacketType, NoPacket

\* What _ctrl_tree makes is bytes, whatever the numbers of the request.
LEMMA TreeIsPackets ==
  ASSUME NEW index \in Int, NEW v \in Int, NEW p \in TreePackets(index, v)
  PROVE  PacketType(p)
<1>1. <<v>> \in Seq(Int) /\ <<>> \in Seq(Int)
  OBVIOUS
<1>2. p \in {Serial(index, <<v>>), Serial(index, <<>>), Gpio(4, 1), Gpio(4, 0)}
  BY Zenon DEF TreePackets
<1>3. PacketType(Gpio(4, 1)) /\ PacketType(Gpio(4, 0))
  BY LightIsPacket
<1>4. PacketType(Serial(index, <<v>>)) /\ PacketType(Serial(index, <<>>))
  BY <1>1, SerialIsPacket
<1> QED
  BY <1>2, <1>3, <1>4

\* And so is what skill_ctrl_dev makes of a command without a colour.
LEMMA ControlIsPackets ==
  ASSUME req \in Request, ~Bare(req), req.end = "control", req.cmd # "SetColor",
         NEW p \in ControlPackets
  PROVE  PacketType(p)
<1>1. req.index \in Int /\ req.value \in Int
  BY FrontEndsAssumption
     DEF Request, RestRequest, ControlRequest, ColourRequest, DiscoverRequest, BareRequest, Bare
<1>2. CASE req.index > 0
  <2>1. p \in TreePackets(req.index, req.value)
    BY <1>2 DEF ControlPackets
  <2> QED
    BY <1>1, <2>1, TreeIsPackets
<1>3. CASE ~(req.index > 0)
  <2>1. p \in {Serial(16, <<>>), Serial(17, <<>>)}
    BY <1>3, Zenon DEF ControlPackets
  <2>2. <<>> \in Seq(Int) /\ 16 \in Int /\ 17 \in Int
    OBVIOUS
  <2>3. PacketType(Serial(16, <<>>)) /\ PacketType(Serial(17, <<>>))
    BY <2>2, SerialIsPacket
  <2> QED
    BY <2>1, <2>3
<1> QED
  BY <1>2, <1>3

-----------------------------------------------------------------------------
(* What is sent, byte by byte.                                             *)

\* The packet made is bytes, and if it is a colour it is the one of the request; what is
\* sent is that packet or none.
ValueInv ==
  /\ PacketType(payload)
  /\ sent \in {NoPacket, payload}
  /\ reply \in {0, 200, 400, 401, 404}
  /\ scarce \in BOOLEAN
  /\ ColourAsAsked

\* A request is one of the end it went to.
LEMMA RestIs ==
  ASSUME NEW r \in Request, ~Bare(r), r.end = "rest"
  PROVE  r.value \in Int /\ r \in RestRequest
<1>1. r \notin ControlRequest /\ r \notin ColourRequest /\ r \notin DiscoverRequest
  BY DEF ControlRequest, ColourRequest, DiscoverRequest
<1>2. r \notin BareRequest
  BY DEF BareRequest, Bare
<1>3. r \in RestRequest
  BY <1>1, <1>2 DEF Request
<1> QED
  BY <1>3, FrontEndsAssumption DEF RestRequest

LEMMA ColourIs ==
  ASSUME NEW r \in Request, ~Bare(r), r.end = "control", r.cmd = "SetColor"
  PROVE  r \in ColourRequest /\ r.colour.h \in Int
<1>1. r \notin RestRequest /\ r \notin ControlRequest /\ r \notin DiscoverRequest
  BY DEF RestRequest, ControlRequest, DiscoverRequest
<1>2. r \notin BareRequest
  BY DEF BareRequest, Bare
<1>3. r \in ColourRequest
  BY <1>1, <1>2 DEF Request
<1>4. r.colour \in [h : Hue, s : 0 .. N + 1, v : 0 .. N]
  BY <1>3 DEF ColourRequest
<1> QED
  BY <1>3, <1>4, FrontEndsAssumption

\* The steps of the gateway send no colour.
LEMMA RestKeepsValues ==
  ASSUME FrontEndsInv, ValueInv, RestRefuse \/ RestNoFunction \/ RestPayload \/ RestCtrl
  PROVE  ValueInv'
<1> USE DEF ValueInv
<1>1. req' = req /\ req.end = "rest" /\ req \in Request \cup {NoRequest}
  BY DEF RestRefuse, RestNoFunction, RestPayload, RestCtrl, FrontEndsInv, PlaceInv
<1>2. ColourAsAsked'
  BY <1>1 DEF ColourAsAsked
<1>3. CASE RestRefuse \/ RestNoFunction
  <2>1. reply' = 400 /\ payload' = payload /\ sent' = sent /\ scarce' \in BOOLEAN
    BY <1>3 DEF RestRefuse, RestNoFunction, Reply
  <2> QED
    BY <1>2, <2>1
<1>4. CASE RestPayload
  <2>1. /\ pc = "rest" /\ payload' = RestPacket(req) /\ UNCHANGED <<sent, reply, scarce>>
        /\ RestComplete(req)
    BY <1>4 DEF RestPayload, RestPacket
  <2>2. sent = NoPacket
    BY <2>1 DEF FrontEndsInv, SentInv
  <2>3. req.value \in Int
    <3>1. ~Bare(req) /\ req.id
      BY <2>1 DEF RestComplete
    <3>2. req # NoRequest
      BY <1>1 DEF NoRequest
    <3>3. req \in Request
      BY <1>1, <3>2
    <3> QED
      BY <1>1, <3>1, <3>3, RestIs
  <2>4. <<req.value>> \in Seq(Int) /\ <<>> \in Seq(Int)
    BY <2>3
  <2>5. FunctionByte(req.function) \in Int
    <3>1. FunctionByte(req.function) \in {16, 17, 20, 21, 22, 0}
      BY Zenon DEF FunctionByte
    <3> QED
      BY <3>1
  <2> DEFINE data == IF req.function = "lightTime" THEN <<req.value>> ELSE <<>>
  <2>7. data \in Seq(Int)
    BY <2>4
  <2>8. payload' = Serial(FunctionByte(req.function), data)
    BY <2>1 DEF RestPacket
  <2> HIDE DEF data
  <2>9. PacketType(payload')
    BY <2>5, <2>7, <2>8, SerialIsPacket
  <2> QED
    BY <1>2, <2>1, <2>2, <2>9
<1>5. CASE RestCtrl
  <2>1. /\ sent' \in {NoPacket, payload} /\ reply' \in {404, 200}
        /\ UNCHANGED <<payload, scarce>>
    BY <1>5 DEF RestCtrl, Reply
  <2> QED
    BY <1>2, <2>1
<1> QED
  BY <1>3, <1>4, <1>5

\* The colour that _hsb2rgb computes is sent byte for byte.
LEMMA ColourKeepsValues ==
  ASSUME FrontEndsInv, ValueInv, ControlColour
  PROVE  ValueInv'
<1> USE DEF ValueInv
<1> DEFINE col == req.colour
           rgb == RgbFromHsv(col)
<1>1. /\ pc = "dispatch" /\ req.cmd = "SetColor" /\ UNCHANGED <<req, sent, reply>>
      /\ \/ rgb # NoColour /\ payload' = Serial(32, RgbI(rgb)) /\ scarce' = scarce
         \/ /\ rgb # NoColour /\ scarce' = TRUE
            /\ \E b \in {0, 255} : payload' = Serial(32, <<b, b, b>>)
         \/ scarce' = (rgb # NoColour) /\ payload' = payload
  BY DEF ControlColour, Goto
<1>2. /\ payload = NoPacket /\ sent = NoPacket
      /\ req \in Request /\ ~Bare(req) /\ req.end = "control"
  BY <1>1 DEF FrontEndsInv, PacketInv, SentInv, PlaceInv, Controlling
<1>3. col.h \in Int
  BY <1>1, <1>2, ColourIs
<1>4. scarce' \in BOOLEAN
  BY <1>1
<1>5. CASE rgb # NoColour /\ payload' = Serial(32, RgbI(rgb)) /\ scarce' = scarce
  <2>1. RgbValid(rgb)
    BY <1>5, RgbIsValid
  <2>2. IsBytes(RgbI(rgb)) /\ Len(RgbI(rgb)) = 3
    BY <2>1, RgbIsBytes
  <2>3. PacketType(payload')
    BY <1>5, <2>2, SerialIsPacket DEF IsBytes
  <2>4. ColourAsAsked'
    <3> SUFFICES ASSUME col.h < 360
                 PROVE  payload'.bytes = <<85, 32, 0, 3>> \o RgbI(Reference(col))
      BY <1>1 DEF ColourAsAsked
    <3>1. rgb = Reference(col)
      BY <1>3, <1>5, RgbIsReference
    <3>2. PICK data : data = RgbI(rgb)
      OBVIOUS
    <3>3. payload' = Serial(32, data) /\ IsBytes(data) /\ Len(data) = 3
      BY <1>5, <2>2, <3>2
    <3>4. payload'.bytes = <<85, 32, 0, 3>> \o data
      BY <3>3, SerialOfBytes
    <3> QED
      BY <3>1, <3>2, <3>4
  <2> QED
    BY <1>1, <1>2, <1>4, <2>3, <2>4
<1>6. CASE scarce' = TRUE /\ \E b \in {0, 255} : payload' = Serial(32, <<b, b, b>>)
  <2>1. PICK b \in {0, 255} : payload' = Serial(32, <<b, b, b>>)
    BY <1>6
  <2> DEFINE data == <<b, b, b>>
  <2>2. data \in Seq(Int) /\ payload' = Serial(32, data)
    BY <2>1
  <2> HIDE DEF data
  <2>3. PacketType(payload')
    BY <2>2, SerialIsPacket
  <2>4. ColourAsAsked'
    BY <1>6 DEF ColourAsAsked
  <2> QED
    BY <1>1, <1>2, <1>4, <2>3, <2>4
<1>7. CASE payload' = payload
  BY <1>1, <1>2, <1>4, <1>7 DEF ColourAsAsked
<1> QED
  BY <1>1, <1>5, <1>6, <1>7

\* Nor does a command of the skill that names none.
LEMMA ControlKeepsValues ==
  ASSUME FrontEndsInv, ValueInv,
         ControlParse \/ ControlDispatch \/ ControlSend \/ ControlReply
  PROVE  ValueInv'
<1> USE DEF ValueInv
<1>1. CASE ControlParse
  <2>1. pc = "control" /\ UNCHANGED <<req, payload, sent, reply>> /\ scarce' \in BOOLEAN
    BY <1>1 DEF ControlParse
  <2>2. payload = NoPacket
    BY <2>1 DEF FrontEndsInv, PacketInv
  <2> QED
    BY <2>1, <2>2 DEF ColourAsAsked
<1>2. CASE ControlDispatch
  <2>1. /\ pc = "dispatch" /\ req.cmd # "SetColor" /\ UNCHANGED <<req, sent, reply, scarce>>
        /\ payload' \in ControlPackets \/ payload' = payload
    BY <1>2 DEF ControlDispatch
  <2>2. req \in Request /\ ~Bare(req) /\ req.end = "control" /\ sent = NoPacket
    BY <2>1 DEF FrontEndsInv, PlaceInv, Controlling, SentInv
  <2>3. PacketType(payload')
    BY <2>1, <2>2, ControlIsPackets
  <2>4. ColourAsAsked'
    BY <2>1 DEF ColourAsAsked
  <2> QED
    BY <2>1, <2>2, <2>3, <2>4
<1>3. CASE ControlSend
  <2>1. UNCHANGED <<req, payload, reply, scarce>> /\ sent' \in {NoPacket, payload}
    BY <1>3 DEF ControlSend
  <2> QED
    BY <2>1 DEF ColourAsAsked
<1>4. CASE ControlReply
  <2>1. UNCHANGED <<req, payload, sent, scarce>> /\ reply' \in {200, 400}
    BY <1>4 DEF ControlReply, Reply
  <2> QED
    BY <2>1 DEF ColourAsAsked
<1> QED
  BY <1>1, <1>2, <1>3, <1>4

LEMMA StepKeepsValues ==
  ASSUME FrontEndsInv, ValueInv, [FrontEndsNext]_frontVars
  PROVE  ValueInv'
<1> USE DEF ValueInv
<1>1. ASSUME NEW r \in Request, Begin(r)
      PROVE  ValueInv'
  <2>1. pc = "idle" /\ UNCHANGED <<payload, sent, reply, scarce>>
    BY <1>1 DEF Begin
  <2>2. payload = NoPacket
    BY <2>1 DEF FrontEndsInv, PacketInv
  <2> QED
    BY <2>1, <2>2 DEF ColourAsAsked
<1>2. CASE Return
  <2>1. payload' = NoPacket /\ sent' = NoPacket /\ reply' = 0 /\ scarce' = FALSE
    BY <1>2 DEF Return
  <2> QED
    BY <2>1, NoPacketIsPacket DEF ColourAsAsked
<1>3. CASE Discover
  <2>1. /\ UNCHANGED <<req, payload, sent>> /\ reply' \in {200, 401} /\ scarce' \in BOOLEAN
        /\ req.end = "discover"
    BY <1>3 DEF Discover, Reply, FrontEndsInv, PlaceInv
  <2> QED
    BY <2>1 DEF ColourAsAsked
<1>4. CASE UNCHANGED frontVars
  BY <1>4 DEF frontVars, ColourAsAsked
<1> QED
  BY <1>1, <1>2, <1>3, <1>4, RestKeepsValues, ColourKeepsValues, ControlKeepsValues
     DEF FrontEndsNext

LEMMA ValuesAreInductive == FrontEndsSpec => []ValueInv
<1>1. FrontEndsInit => ValueInv
  BY NoPacketIsPacket DEF FrontEndsInit, ValueInv, ColourAsAsked
<1> QED
  BY <1>1, StepKeepsValues, FrontEndsIsInductive, PTL DEF FrontEndsSpec

\* The state of the handlers keeps its type: whatever number a request brings, what is
\* sent for it is bytes.
THEOREM FrontEndsTypeCorrect == FrontEndsSpec => []FrontEndsTypeOK
<1>1. ASSUME FrontEndsInv, ValueInv PROVE FrontEndsTypeOK
  <2>1. PacketType(payload) /\ PacketType(sent)
    BY <1>1, NoPacketIsPacket DEF ValueInv
  <2>2. pc \in {"idle", "rest", "ctrl", "discover", "control", "dispatch", "send", "done",
                "failed", "return"}
    BY <1>1 DEF FrontEndsInv, PlaceInv, Controlling
  <2>3. heap \subseteq {"jreq", "jresponse", "payload", "respond", "resp", "body"}
                        \cup Strings \cup Parts
    BY <1>1 DEF FrontEndsInv, HeapInv, Owned
  <2> QED
    BY <1>1, <2>1, <2>2, <2>3 DEF ValueInv, PacketType, FrontEndsTypeOK
<1> QED
  BY <1>1, FrontEndsIsInductive, ValuesAreInductive, PTL

\* The six sectors of RgbF_CreateFromHsv, and _hsb2rgb after it, send the bytes of the
\* colour that was asked for, for every hue below 360 and any number of steps of
\* saturation and value.
THEOREM ColoursAreRight == FrontEndsSpec => []ColourAsAsked
<1>1. ValueInv => ColourAsAsked
  BY DEF ValueInv
<1> QED
  BY <1>1, ValuesAreInductive, PTL
=============================================================================
