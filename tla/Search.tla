------------------------------- MODULE Search -------------------------------
(***************************************************************************)
(* How an application finds devices: the list of online devices of up2pa.c *)
(* between its receive thread and the searches of ulink.c, ulink_open up   *)
(* to its token and ulink_config.                                          *)
(*                                                                         *)
(* A search asks the relay and the LAN for its device and looks in the     *)
(* list whether an answer has come.  Answers come late, repeated, in any   *)
(* order, and differ, for devices come and go; each has the number of the  *)
(* search it answers, the low 16 bits of the clock then.                   *)
(***************************************************************************)
EXTENDS Integers, FiniteSets

CONSTANTS
  Dev,         \* the ids of the devices
  Zero,        \* the id 0 0
  MaxOnline,   \* MAX_USER: the places of the list
  OpenTries,   \* ULINK_OPEN_TIMEOUT * 10
  ConfigTries, \* MAX_CONFIG_TIME
  ConfigLate,  \* 20: a device found later is not configured any more
  HostTries,   \* 5
  MaxNow,      \* bound: the clock
  MaxSearch    \* bound: the searches

ASSUME SearchAssumption ==
  /\ Zero \notin Dev
  /\ {MaxOnline, ConfigLate, MaxSearch} \subseteq Nat
  /\ {OpenTries, ConfigTries, HostTries, MaxNow} \subseteq Nat \ {0}

VARIABLES
  list,      \* onlinelist
  acking,    \* the device whose CMD_LAN_SCAN_ACK is being handled, or Zero
  asked,     \* the searches sent: device and number
  now,       \* the clock
  pc,        \* where the application is
  job,       \* the locals of the search that runs
  searches,  \* searches so far
  told,      \* history: what was told of a device since the start
  fresh,     \* history: the devices told of since they were last cleared
  opened     \* history: the devices ulink_open was called for

listVars   == <<list, acking>>
heardVars  == <<told, fresh>>
searchVars == <<listVars, asked, now, pc, job, searches, heardVars, opened>>

-----------------------------------------------------------------------------
(* The list.                                                               *)

Entry == 1 .. MaxOnline
Status == {"NO", "WAN", "LAN"}
NoEntry == [id |-> Zero, online |-> "NO", idx |-> 0, addr |-> Zero]

FirstOf(S) == IF S = {} THEN 0 ELSE CHOOSE i \in S : \A j \in S : i <= j

\* Where online_update writes: the first entry that is the device's or empty.
EntryFor(l, d) == FirstOf({i \in Entry : l[i].id \in {d, Zero}})

\* online_find
FindEntry(l, d) == FirstOf({i \in Entry : l[i].id = d})

\* Of the answers to one search a device in the LAN counts; an answer with any
\* other number, an older one too, overrules it.
Told(e, d, idx, status) ==
  IF e.online = "LAN" /\ e.idx = idx THEN [e EXCEPT !.id = d]
  ELSE [e EXCEPT !.id = d, !.online = status, !.idx = idx]

\* online_update; a full list stays as it is.
OnlineUpdate(l, d, idx, status) ==
  LET i == EntryFor(l, d) IN
  IF i = 0 THEN l ELSE [l EXCEPT ![i] = Told(@, d, idx, status)]

\* Had online been left in the entry.
ClearIdOnly(l, d) ==
  LET i == FindEntry(l, d) IN
  IF i = 0 THEN l ELSE [l EXCEPT ![i].id = Zero]

\* up2pa_clear_online: idx and the address stay.
ClearOnline(l, d) ==
  LET i == FindEntry(l, d) IN
  IF i = 0 THEN l ELSE [l EXCEPT ![i].id = Zero, ![i].online = "NO"]

\* Had the server's silence been taken for an answer.
CheckLoose(l, d) == IF FindEntry(l, d) = 0 THEN "WAN" ELSE l[FindEntry(l, d)].online

\* up2pa_check_online; "none" is -1.
Check(l, d) == IF FindEntry(l, d) = 0 THEN "none" ELSE l[FindEntry(l, d)].online

\* The locals of ulink_open and ulink_config: the function, its device, i, whether
\* the server is to be asked for, and the token: none yet, given by the device, or
\* never written.  acked is a history: the device acknowledged its new server.
Job(call, d) == [call |-> call, dev |-> d, tries |-> 0, gethost |-> TRUE,
                 token |-> "none", acked |-> FALSE]
NoJob == Job("none", Zero)

SearchInit ==
  /\ list = [i \in Entry |-> NoEntry] /\ acking = Zero
  /\ asked = {} /\ now = 1
  /\ pc = "idle" /\ job = NoJob /\ searches = 0
  /\ told = {} /\ fresh = {} /\ opened = {}

-----------------------------------------------------------------------------
(* recv_cmd of the receive thread.                                         *)

Hear(d, idx, status) ==
  /\ acking = Zero /\ <<d, idx>> \in asked /\ pc # "dead"
  /\ list' = OnlineUpdate(list, d, idx, status)
  /\ told' = told \cup {<<d, status>>}
  /\ fresh' = fresh \cup {d}
  /\ UNCHANGED <<asked, now, pc, job, searches, opened>>

\* CMD_CHECK_ONLINE_YES and CMD_CHECK_ONLINE_NO of the relay.
RecvOnline(d, idx, status) ==
  /\ Hear(d, idx, status)
  /\ UNCHANGED acking

\* CMD_LAN_SCAN_ACK: the entry is there before its address.
RecvScanAck(d, idx) ==
  /\ Hear(d, idx, "LAN")
  /\ acking' = d

\* online_find is dereferenced: without an entry, for the list is full or it was
\* cleared meanwhile, the application ends.
SetAddress ==
  /\ acking # Zero /\ pc # "dead"
  /\ LET i == FindEntry(list, acking) IN
     IF i = 0 THEN pc' = "dead" /\ UNCHANGED list
     ELSE list' = [list EXCEPT ![i].addr = acking] /\ UNCHANGED pc
  /\ acking' = Zero
  /\ UNCHANGED <<asked, now, job, searches, heardVars, opened>>

Tick ==
  /\ now < MaxNow
  /\ now' = now + 1
  /\ UNCHANGED <<listVars, asked, pc, job, searches, heardVars, opened>>

-----------------------------------------------------------------------------
(* The searches.                                                           *)

Begin(call, d) ==
  /\ pc = "idle" /\ searches < MaxSearch
  /\ searches' = searches + 1
  /\ job' = Job(call, d) /\ pc' = "ask"
  /\ UNCHANGED <<acking, asked, now, told>>

\* ulink_open
Open(d) ==
  /\ Begin("open", d)
  /\ list' = ClearOnline(list, d)
  /\ fresh' = fresh \ {d} /\ opened' = opened \cup {d}

\* ulink_config does not clear the device.
Config(d) ==
  /\ Begin("config", d)
  /\ UNCHANGED <<list, fresh, opened>>

\* What a search does changes its locals only.
Step(from) ==
  /\ pc = from
  /\ UNCHANGED <<listVars, now, searches, heardVars, opened>>

Goto(place, j) == pc' = place /\ job' = j

\* The end of a search: NULL, an error, or the session closed.
Leave == Goto("idle", NoJob)

\* Had the loops one round more.
AgainOnce(place, limit, j) ==
  IF j.tries + 1 > limit THEN Leave ELSE Goto(place, [j EXCEPT !.tries = @ + 1])

\* The next round of a loop, if it has one.
Again(place, limit, j) ==
  IF j.tries + 1 >= limit THEN Leave ELSE Goto(place, [j EXCEPT !.tries = @ + 1])

Tries == IF job.call = "open" THEN OpenTries ELSE ConfigTries

\* up2pa_send_online
Ask ==
  /\ Step("ask")
  /\ asked' = asked \cup {<<job.dev, now>>}
  /\ Goto("look", job)

\* A device that is online in the LAN or behind the relay ends the search.
Found ==
  /\ Step("look") /\ UNCHANGED asked
  /\ Check(list, job.dev) \in {"LAN", "WAN"}
  /\ Goto("token", job)

\* Otherwise ulink_open reads a CMD_GET_HOST_ACK, if it still wants one.
NotFound ==
  /\ Step("look") /\ UNCHANGED asked
  /\ Check(list, job.dev) \in {"none", "NO"}
  /\ \E host \in {job.gethost, job.gethost /\ job.call # "open"} :
       Again("ask", Tries, [job EXCEPT !.gethost = host])

\* CMD_UPDATE_TOKEN has no answer: -1.
NoToken ==
  /\ Step("token") /\ UNCHANGED asked
  /\ IF job.call = "open" THEN Leave ELSE Again("ask", Tries, job)

\* Only -1 is looked for: when another thread breaks off the wait, -2, the search
\* goes on with the token that happens to be in stk.
GetToken ==
  /\ Step("token") /\ UNCHANGED asked
  /\ \E t \in {"given", "unset"} :
       LET j == [job EXCEPT !.token = t] IN
       IF j.call = "open" THEN Goto("open", j)
       ELSE IF j.tries >= ConfigLate THEN Leave
       ELSE Goto("host", [j EXCEPT !.tries = 0])

\* CMD_CONFIG_HOST is acknowledged: the device answers under its own token only.
HostSet ==
  /\ Step("host") /\ UNCHANGED asked
  /\ job.token = "given"
  /\ Goto("key", [job EXCEPT !.acked = TRUE])

\* Had the loop been tested for one try more than it makes.
HostNotSetLate ==
  /\ Step("host") /\ UNCHANGED asked
  /\ IF job.tries + 1 >= HostTries THEN Goto("key", job)
     ELSE Goto("host", [job EXCEPT !.tries = @ + 1])

HostNotSet ==
  /\ Step("host") /\ UNCHANGED asked
  /\ Again("host", HostTries, job)

\* ulink_config returns with outkey written; ulink_close.
Return ==
  /\ Step("key") \/ Step("open")
  /\ Leave /\ UNCHANGED asked

SearchNext ==
  \/ \E d \in Dev : Open(d) \/ Config(d)
  \/ \E d \in Dev, idx \in 1 .. MaxNow :
       \/ \E status \in {"WAN", "NO"} : RecvOnline(d, idx, status)
       \/ RecvScanAck(d, idx)
  \/ SetAddress \/ Tick
  \/ Ask \/ Found \/ NotFound \/ NoToken \/ GetToken \/ HostSet \/ HostNotSet \/ Return

SearchSpec == SearchInit /\ [][SearchNext]_searchVars

-----------------------------------------------------------------------------
SearchTypeOK ==
  /\ list \in [Entry -> [id : Dev \cup {Zero}, online : Status, idx : 0 .. MaxNow,
                         addr : Dev \cup {Zero}]]
  /\ acking \in Dev \cup {Zero}
  /\ asked \subseteq Dev \X (1 .. MaxNow) /\ now \in Nat
  /\ pc \in {"idle", "ask", "look", "token", "open", "host", "key", "dead"}
  /\ job \in [call : {"none", "open", "config"}, dev : Dev \cup {Zero}, tries : Nat,
              gethost : BOOLEAN, token : {"none", "given", "unset"}, acked : BOOLEAN]
  /\ told \subseteq Dev \X Status /\ fresh \subseteq Dev /\ opened \subseteq Dev
  /\ pc \in {"ask", "look", "token"} => job.dev \in Dev /\ job.tries < Tries
  /\ pc = "host" => job.tries < HostTries

\* What the list says of a device was told of that device, and one in the LAN has
\* its own address as soon as the handler is done: entries are taken over with the
\* idx and address of other devices, and none of that shows.  (online_update,
\* up2pa_clear_online, recv_cmd)
EntriesAreTold ==
  \A i \in Entry :
    LET e == list[i] IN
    e.id # Zero =>
      /\ <<e.id, e.online>> \in told
      /\ e.online = "LAN" /\ e.id # acking => e.addr = e.id

\* As long as one device only is opened, its search ends by an answer that came
\* after it began.  With a second device it need not: an answer takes an entry
\* cleared before its own, and the next search clears the first of the two.
\* (up2pa_clear_online, up2pa_check_online)
FreshIfOnlyDevice ==
  \A d \in Dev :
    opened = {d} /\ job.call = "open" /\ job.dev = d /\ pc \in {"token", "open"}
      => d \in fresh

\* ulink_config gives out a key only when the device has acknowledged the server
\* it is to use.  (ulink_config)
KeyOutMeansAcked == pc = "key" => job.acked
=============================================================================
