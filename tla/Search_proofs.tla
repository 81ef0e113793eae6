---------------------------- MODULE Search_proofs ----------------------------
(***************************************************************************)
(* The list of online devices and the searches, for any number of devices, *)
(* entries, tries and answers.                                             *)
(*                                                                         *)
(* An entry is written where the first entry of the device or the first    *)
(* empty one is.  It is the first of its device then, and stays so until   *)
(* it is cleared: SetAddress finds it.  If one device only is ever cleared *)
(* there is no empty entry before its own, and so no second one of it.     *)
(***************************************************************************)
EXTENDS Search, WellFoundedInduction, TLAPS

OnlineEntry == [id : Dev \cup {Zero}, online : Status, idx : 0 .. MaxNow, addr : Dev \cup {Zero}]

ListType ==
  /\ list \in [Entry -> OnlineEntry]
  /\ acking \in Dev \cup {Zero}
  /\ told \subseteq Dev \X Status /\ fresh \subseteq Dev /\ opened \subseteq Dev

SearchType ==
  /\ asked \subseteq Dev \X (1 .. MaxNow) /\ now \in 1 .. MaxNow
  /\ pc \in {"idle", "ask", "look", "token", "open", "host", "key", "dead"}
  /\ job \in [call : {"none", "open", "config"}, dev : Dev \cup {Zero}, tries : Nat,
              gethost : BOOLEAN, token : {"none", "given", "unset"}, acked : BOOLEAN]
  /\ pc \in {"ask", "look", "token"} => job.dev \in Dev /\ job.tries < Tries
  /\ pc = "host" => job.tries < HostTries

\* An empty entry is not online, and the one whose address is missing is the first of
\* its device.
ListInv ==
  /\ \A i \in Entry : list[i].id = Zero => list[i].online = "NO"
  /\ \A i \in Entry :
       list[i].id = acking /\ acking # Zero /\ list[i].online = "LAN" /\ list[i].addr # acking
         => \A j \in Entry : j < i => list[j].id # acking

\* Of a device that alone was ever opened there is one entry, and no empty one before.
OneInv ==
  \A d \in Dev : opened \subseteq {d} =>
    \A i, j \in Entry : list[i].id = d /\ j < i => list[j].id \notin {d, Zero}

\* Its entry has been written since its search began.
FreshInv ==
  \A d \in Dev :
    opened = {d} /\ job.call = "open" /\ job.dev = d
        /\ (pc \in {"token", "open"} \/ \E i \in Entry : list[i].id = d)
      => pc = "dead" \/ d \in fresh

SearchInv ==
  /\ ListType /\ SearchType /\ ListInv /\ EntriesAreTold /\ OneInv /\ FreshInv
  /\ KeyOutMeansAcked

-----------------------------------------------------------------------------
(* The loops of online_update and online_find.                             *)

LEMMA FirstIsLeast ==
  ASSUME NEW S \in SUBSET Entry, S # {}
  PROVE  FirstOf(S) \in S /\ \A j \in S : FirstOf(S) <= j
<1> DEFINE R == OpToRel(<, Nat)
<1>1. S \subseteq Nat
  BY SearchAssumption DEF Entry
<1>2. PICK x \in S : \A y \in S : <<y, x>> \notin R
  <2>1. IsWellFoundedOn(R, Nat)
    BY NatLessThanWellFounded
  <2> QED
    BY <1>1, <2>1, WFMin
<1>3. \A y \in S : x <= y
  <2>1. R = {ss \in Nat \X Nat : ss[1] < ss[2]}
    BY Zenon DEF OpToRel
  <2>2. SUFFICES ASSUME NEW y \in S PROVE ~(y < x)
    BY <1>1
  <2>3. <<y, x>> \notin {ss \in Nat \X Nat : ss[1] < ss[2]}
    BY <1>2, <2>1, Zenon
  <2> QED
    BY <1>1, <2>3
<1> QED
  BY <1>3 DEF FirstOf

LEMMA EntryForIsFirst ==
  ASSUME NEW d \in Dev, EntryFor(list, d) # 0
  PROVE  /\ EntryFor(list, d) \in Entry
         /\ list[EntryFor(list, d)].id \in {d, Zero}
         /\ \A j \in Entry : j < EntryFor(list, d) => list[j].id \notin {d, Zero}
<1> DEFINE S == {i \in Entry : list[i].id \in {d, Zero}}
<1>1. S \in SUBSET Entry /\ S # {}
  BY DEF EntryFor, FirstOf
<1>2. EntryFor(list, d) \in S /\ \A j \in S : EntryFor(list, d) <= j
  BY <1>1, FirstIsLeast DEF EntryFor
<1>3. \A j \in Entry : j \in Int /\ EntryFor(list, d) \in Int
  BY <1>2, SearchAssumption DEF Entry
<1> QED
  BY <1>2, <1>3

LEMMA FoundIsFirst ==
  ASSUME NEW d \in Dev
  PROVE  /\ FindEntry(list, d) = 0 => \A j \in Entry : list[j].id # d
         /\ FindEntry(list, d) # 0 =>
              /\ FindEntry(list, d) \in Entry
              /\ list[FindEntry(list, d)].id = d
              /\ \A j \in Entry : j < FindEntry(list, d) => list[j].id # d
<1> DEFINE S == {i \in Entry : list[i].id = d}
<1>1. S \in SUBSET Entry /\ FindEntry(list, d) = FirstOf(S)
  BY DEF FindEntry
<1>2. CASE S = {}
  BY <1>1, <1>2 DEF FirstOf
<1>3. CASE S # {}
  <2>1. FirstOf(S) \in S /\ \A j \in S : FirstOf(S) <= j
    BY <1>1, <1>3, FirstIsLeast
  <2>2. \A j \in Entry : j \in Int /\ j # 0
    BY SearchAssumption DEF Entry
  <2>3. FirstOf(S) \in Entry
    BY <2>1
  <2> QED
    BY <1>1, <2>1, <2>2, <2>3
<1> QED
  BY <1>2, <1>3

-----------------------------------------------------------------------------
(* The receive thread.                                                     *)

\* What online_update does to the list: nothing, or one entry is the device's then.
LEMMA UpdateWrites ==
  ASSUME ListType, NEW d \in Dev, NEW idx \in 1 .. MaxNow, NEW status \in Status
  PROVE  \/ OnlineUpdate(list, d, idx, status) = list
         \/ \E k \in Entry, e \in OnlineEntry :
              /\ OnlineUpdate(list, d, idx, status) = [list EXCEPT ![k] = e]
              /\ list[k].id \in {d, Zero}
              /\ \A j \in Entry : j < k => list[j].id \notin {d, Zero}
              /\ e.id = d /\ e.addr = list[k].addr
              /\ e.online = status \/ (e.online = "LAN" /\ list[k].online = "LAN")
<1> DEFINE k == EntryFor(list, d)
           e == Told(list[k], d, idx, status)
<1>1. CASE k = 0
  BY <1>1 DEF OnlineUpdate
<1>2. CASE k # 0
  <2>1. /\ k \in Entry /\ list[k].id \in {d, Zero}
        /\ \A j \in Entry : j < k => list[j].id \notin {d, Zero}
    BY <1>2, EntryForIsFirst
  <2>2. list[k] \in OnlineEntry
    BY <2>1 DEF ListType
  <2>3. OnlineUpdate(list, d, idx, status) = [list EXCEPT ![k] = e]
    BY <1>2 DEF OnlineUpdate
  <2>4. e \in OnlineEntry /\ e.id = d /\ e.addr = list[k].addr
    <3>1. idx \in 0 .. MaxNow
      BY SearchAssumption
    <3>2. list[k] = [id |-> list[k].id, online |-> list[k].online, idx |-> list[k].idx,
                     addr |-> list[k].addr]
      BY <2>2 DEF OnlineEntry
    <3>3. \/ e = [list[k] EXCEPT !.id = d]
          \/ e = [list[k] EXCEPT !.id = d, !.online = status, !.idx = idx]
      BY DEF Told
    <3> QED
      BY <2>2, <3>1, <3>2, <3>3 DEF OnlineEntry
  <2>5. e.online = status \/ (e.online = "LAN" /\ list[k].online = "LAN")
    BY <2>2 DEF Told, OnlineEntry
  <2> QED
    BY <2>1, <2>3, <2>4, <2>5
<1> QED
  BY <1>1, <1>2

\* An answer arrives; acking says whether it was one from the LAN.
LEMMA HearKeeps ==
  ASSUME SearchInv, NEW d \in Dev, NEW idx \in 1 .. MaxNow, NEW status \in Status,
         Hear(d, idx, status),
         \/ acking' = acking /\ status # "LAN"
         \/ acking' = d
  PROVE  SearchInv'
<1> USE DEF SearchInv
<1>1. /\ acking = Zero /\ d # Zero /\ pc # "dead"
      /\ list' = OnlineUpdate(list, d, idx, status)
      /\ told' = told \cup {<<d, status>>} /\ fresh' = fresh \cup {d}
      /\ UNCHANGED <<asked, now, pc, job, searches, opened>>
  BY SearchAssumption DEF Hear
<1>2. SearchType' /\ KeyOutMeansAcked'
  BY <1>1 DEF SearchType, Tries, KeyOutMeansAcked
<1>3. acking' \in Dev \cup {Zero} /\ told' \subseteq Dev \X Status /\ fresh' \subseteq Dev
      /\ opened' \subseteq Dev
  BY <1>1 DEF ListType
<1>4. ASSUME NEW x \in Dev, opened' = {x}, job'.call = "open", job'.dev = x, x # d,
             pc' \in {"token", "open"} \/ \E i \in Entry : list[i].id = x
      PROVE  x \in fresh'
  BY <1>1, <1>4 DEF FreshInv
<1>5. CASE list' = list
  <2>1. ListType' /\ EntriesAreTold'
    BY <1>1, <1>3, <1>5 DEF ListType, EntriesAreTold
  <2>2. ListInv'
    <3>1. \A i \in Entry : list[i].id = d /\ list[i].online = "LAN" => list[i].addr = d
      BY <1>1 DEF EntriesAreTold
    <3> QED
      BY <1>1, <1>5, <3>1 DEF ListInv
  <2>3. OneInv' /\ FreshInv'
    BY <1>1, <1>4, <1>5 DEF OneInv, FreshInv
  <2> QED
    BY <1>2, <2>1, <2>2, <2>3
<1>6. ASSUME NEW k \in Entry, NEW e \in OnlineEntry,
             list' = [list EXCEPT ![k] = e],
             list[k].id \in {d, Zero},
             \A j \in Entry : j < k => list[j].id \notin {d, Zero},
             e.id = d, e.addr = list[k].addr,
             e.online = status \/ (e.online = "LAN" /\ list[k].online = "LAN")
      PROVE  SearchInv'
  <2>1. \A i \in Entry : list'[i] = IF i = k THEN e ELSE list[i]
    BY <1>6 DEF ListType
  <2>2. ListType'
    BY <1>3, <1>6 DEF ListType
  <2>3. \/ e.online = status
        \/ list[k].id = d /\ list[k].online = "LAN" /\ e.online = "LAN"
    BY <1>6 DEF ListInv
  <2>4. EntriesAreTold'
    <3> SUFFICES ASSUME NEW i \in Entry, list'[i].id # Zero
                 PROVE  /\ <<list'[i].id, list'[i].online>> \in told'
                        /\ list'[i].online = "LAN" /\ list'[i].id # acking'
                             => list'[i].addr = list'[i].id
      BY DEF EntriesAreTold
    <3>1. CASE i # k
      BY <1>1, <2>1, <3>1 DEF EntriesAreTold
    <3>2. CASE i = k
      <4>1. list'[i].id = d /\ list'[i].online = e.online /\ list'[i].addr = list[k].addr
        BY <1>6, <2>1, <3>2
      <4>2. CASE e.online = status
        BY <1>1, <4>1, <4>2
      <4>3. CASE list[k].id = d /\ list[k].online = "LAN" /\ e.online = "LAN"
        BY <1>1, <4>1, <4>3 DEF EntriesAreTold
      <4> QED
        BY <2>3, <4>2, <4>3
    <3> QED
      BY <3>1, <3>2
  <2>5. ListInv'
    <3>1. \A i \in Entry : list'[i].id = Zero => list'[i].online = "NO"
      BY <1>1, <1>6, <2>1 DEF ListInv
    <3>2. \A i \in Entry : i # k /\ list'[i].id = d /\ list'[i].online = "LAN"
                           => list'[i].addr = d
      BY <1>1, <2>1 DEF EntriesAreTold
    <3>3. \A j \in Entry : j < k => list'[j].id # d
      BY <1>6, <2>1 DEF Entry
    <3> QED
      BY <1>1, <3>1, <3>2, <3>3 DEF ListInv
  <2>6. OneInv'
    <3> SUFFICES ASSUME NEW x \in Dev, opened \subseteq {x}, NEW i \in Entry, NEW j \in Entry,
                        list'[i].id = x, j < i
                 PROVE  list'[j].id \notin {x, Zero}
      BY <1>1 DEF OneInv
    <3>1. CASE i = k
      BY <1>6, <2>1, <3>1 DEF Entry
    <3>2. CASE i # k
      <4>1. list[i].id = x /\ list[j].id \notin {x, Zero}
        BY <2>1, <3>2 DEF OneInv
      <4> QED
        BY <1>1, <1>6, <2>1, <4>1
    <3> QED
      BY <3>1, <3>2
  <2>7. FreshInv'
    BY <1>1, <1>4, <1>6, <2>1 DEF FreshInv
  <2> QED
    BY <1>2, <2>2, <2>4, <2>5, <2>6, <2>7
<1> QED
  BY <1>1, <1>5, <1>6, UpdateWrites

LEMMA SetAddressKeeps ==
  ASSUME SearchInv, SetAddress
  PROVE  SearchInv'
<1> USE DEF SearchInv
<1> DEFINE k == FindEntry(list, acking)
<1>1. /\ acking \in Dev /\ acking' = Zero /\ acking # Zero
      /\ UNCHANGED <<asked, now, job, searches, told, fresh, opened>>
  BY SearchAssumption DEF SetAddress, ListType, heardVars
<1>2. CASE k = 0
  <2>1. pc' = "dead" /\ list' = list
    BY <1>2 DEF SetAddress
  <2>2. \A j \in Entry : list[j].id # acking
    BY <1>1, <1>2, FoundIsFirst
  <2>3. ListType' /\ SearchType' /\ KeyOutMeansAcked'
    BY <1>1, <2>1 DEF ListType, SearchType, KeyOutMeansAcked
  <2>4. ListInv' /\ EntriesAreTold'
    BY <1>1, <2>1, <2>2 DEF ListInv, EntriesAreTold
  <2>5. OneInv' /\ FreshInv'
    BY <1>1, <2>1 DEF OneInv, FreshInv
  <2> QED
    BY <2>3, <2>4, <2>5
<1>3. CASE k # 0
  <2>1. pc' = pc /\ list' = [list EXCEPT ![k].addr = acking]
    BY <1>3 DEF SetAddress
  <2>2. k \in Entry /\ list[k].id = acking /\ \A j \in Entry : j < k => list[j].id # acking
    BY <1>1, <1>3, FoundIsFirst
  <2>3. list[k] \in OnlineEntry
    BY <2>2 DEF ListType
  <2>4. [list[k] EXCEPT !.addr = acking] \in OnlineEntry
    BY <1>1, <2>3 DEF OnlineEntry
  <2>5. ListType'
    BY <1>1, <2>1, <2>2, <2>4 DEF ListType
  <2>6. \A i \in Entry : /\ list'[i].id = list[i].id /\ list'[i].online = list[i].online
                         /\ list'[i].addr = IF i = k THEN acking ELSE list[i].addr
    BY <2>1, <2>2, <2>3 DEF ListType, OnlineEntry
  <2>7. SearchType' /\ KeyOutMeansAcked'
    BY <1>1, <2>1 DEF SearchType, Tries, KeyOutMeansAcked
  <2>8. ListInv'
    BY <1>1, <2>6 DEF ListInv
  <2>9. EntriesAreTold'
    <3> SUFFICES ASSUME NEW i \in Entry, list'[i].id # Zero
                 PROVE  /\ <<list'[i].id, list'[i].online>> \in told'
                        /\ list'[i].online = "LAN" => list'[i].addr = list'[i].id
      BY <1>1 DEF EntriesAreTold
    <3>1. <<list'[i].id, list'[i].online>> \in told'
      BY <1>1, <2>6 DEF EntriesAreTold
    <3>2. CASE i = k
      BY <2>2, <2>6, <3>1, <3>2
    <3>3. CASE i # k /\ list[i].id # acking
      BY <2>6, <3>1, <3>3 DEF EntriesAreTold
    \* A second entry of the device is behind, and has its address.
    <3>4. CASE i # k /\ list[i].id = acking
      <4>1. k < i
        BY <2>2, <3>4, SearchAssumption DEF Entry
      <4>2. list[i].online = "LAN" => list[i].addr = acking
        BY <1>1, <2>2, <3>4, <4>1 DEF ListInv
      <4> QED
        BY <2>6, <3>1, <3>4, <4>2
    <3> QED
      BY <3>2, <3>3, <3>4
  <2>10. OneInv' /\ FreshInv'
    BY <1>1, <2>1, <2>6 DEF OneInv, FreshInv
  <2> QED
    BY <2>5, <2>7, <2>8, <2>9, <2>10
<1> QED
  BY <1>2, <1>3

-----------------------------------------------------------------------------
(* The application.                                                        *)

\* ulink_open clears the first entry of its device, the only one if no other device
\* was ever opened.
LEMMA OpenKeeps ==
  ASSUME SearchInv, NEW d \in Dev, Open(d)
  PROVE  SearchInv'
<1> USE DEF SearchInv
<1> DEFINE k == FindEntry(list, d)
<1>1. /\ pc' = "ask" /\ job' = Job("open", d)
      /\ list' = ClearOnline(list, d)
      /\ fresh' = fresh \ {d} /\ opened' = opened \cup {d}
      /\ UNCHANGED <<acking, asked, now, told>>
  BY DEF Open, Begin
<1>2. SearchType' /\ KeyOutMeansAcked'
  BY <1>1, SearchAssumption DEF SearchType, Job, Tries, KeyOutMeansAcked
<1>3. \A i \in Entry : /\ list[i] \in OnlineEntry
                       /\ \/ list'[i] = list[i] /\ (list[i].id = d => k # 0 /\ k < i)
                          \/ /\ list'[i] = [list[i] EXCEPT !.id = Zero, !.online = "NO"]
                             /\ list[i].id = d /\ i = k
  <2>1. CASE k = 0
    BY <1>1, <2>1, FoundIsFirst DEF ClearOnline, ListType
  <2>2. CASE k # 0
    <3>1. list' = [list EXCEPT ![k].id = Zero, ![k].online = "NO"]
      BY <1>1, <2>2 DEF ClearOnline
    <3>2. k \in Entry /\ list[k].id = d /\ \A j \in Entry : j < k => list[j].id # d
      BY <2>2, FoundIsFirst
    <3>3. list'[k] = [list[k] EXCEPT !.id = Zero, !.online = "NO"]
      BY <3>1, <3>2 DEF ListType
    <3>4. \A i \in Entry : i # k => list'[i] = list[i]
      BY <3>1, <3>2 DEF ListType
    <3>5. \A i \in Entry : i # k /\ list[i].id = d => k < i
      BY <3>2, SearchAssumption DEF Entry
    <3> QED
      BY <2>2, <3>2, <3>3, <3>4, <3>5 DEF ListType
  <2> QED
    BY <2>1, <2>2
<1>4. \A i \in Entry : \/ list'[i] = list[i]
                       \/ /\ list'[i].id = Zero /\ list'[i].online = "NO"
                          /\ list'[i].addr = list[i].addr /\ list[i].id = d
  BY <1>3 DEF OnlineEntry
<1>5. ListType'
  <2>1. list' \in [Entry -> OnlineEntry]
    <3>1. \A i \in Entry : list'[i] \in OnlineEntry
      BY <1>3 DEF OnlineEntry, Status
    <3>2. list' = [i \in Entry |-> list'[i]]
      BY <1>1 DEF ClearOnline, ListType
    <3> QED
      BY <3>1, <3>2
  <2> QED
    BY <1>1, <2>1 DEF ListType
<1>6. ListInv' /\ EntriesAreTold'
  BY <1>1, <1>4 DEF ListInv, EntriesAreTold
<1>7. ASSUME opened \subseteq {d}
      PROVE  \A i \in Entry : list'[i].id # d
  <2> SUFFICES ASSUME NEW i \in Entry, list'[i].id = d PROVE FALSE
    OBVIOUS
  <2>1. list'[i] = list[i]
    BY <1>4, SearchAssumption
  <2>2. k # 0 /\ k < i
    BY <1>3, <2>1, SearchAssumption DEF OnlineEntry
  <2>3. k \in Entry /\ list[k].id = d
    BY <2>2, FoundIsFirst
  <2> QED
    BY <1>7, <2>1, <2>2, <2>3 DEF OneInv
<1>8. OneInv'
  <2> SUFFICES ASSUME NEW x \in Dev, opened' \subseteq {x}, NEW i \in Entry, NEW j \in Entry,
                      list'[i].id = x, j < i
               PROVE  FALSE
    BY DEF OneInv
  <2> QED
    BY <1>1, <1>7
<1>9. FreshInv'
  <2> SUFFICES ASSUME opened' = {d}, \E i \in Entry : list'[i].id = d
               PROVE  FALSE
    BY <1>1 DEF FreshInv, Job
  <2> QED
    BY <1>1, <1>7
<1> QED
  BY <1>2, <1>5, <1>6, <1>8, <1>9

\* What changes neither the list nor what is known.
LEMMA ListStays ==
  ASSUME SearchInv, UNCHANGED <<list, acking, told, fresh, opened>>
  PROVE  ListType' /\ ListInv' /\ EntriesAreTold' /\ OneInv'
BY DEF SearchInv, ListType, ListInv, EntriesAreTold, OneInv

LEMMA ConfigKeeps ==
  ASSUME SearchInv, NEW d \in Dev, Config(d)
  PROVE  SearchInv'
<1>1. /\ pc' = "ask" /\ job' = Job("config", d)
      /\ UNCHANGED <<list, acking, asked, now, told, fresh, opened>>
  BY DEF Config, Begin
<1>2. SearchType' /\ KeyOutMeansAcked'
  BY <1>1, SearchAssumption DEF SearchInv, SearchType, Job, Tries, KeyOutMeansAcked
<1>3. FreshInv'
  BY <1>1 DEF FreshInv, Job
<1> QED
  BY <1>1, <1>2, <1>3, ListStays DEF SearchInv

LEMMA TickKeeps ==
  ASSUME SearchInv, Tick
  PROVE  SearchInv'
<1>1. UNCHANGED <<list, acking, asked, pc, job, told, fresh, opened>>
  BY DEF Tick, listVars, heardVars
<1>2. now' \in 1 .. MaxNow
  BY SearchAssumption DEF Tick, SearchInv, SearchType
<1>3. SearchType' /\ KeyOutMeansAcked' /\ FreshInv'
  BY <1>1, <1>2 DEF SearchInv, SearchType, Tries, KeyOutMeansAcked, FreshInv
<1> QED
  BY <1>1, <1>3, ListStays DEF SearchInv

Looking == Ask \/ Found \/ NotFound \/ NoToken \/ GetToken \/ HostSet \/ HostNotSet \/ Return

LEMMA LookingKeeps ==
  ASSUME SearchInv, Looking
  PROVE  SearchInv'
<1> USE DEF SearchInv
<1>1. UNCHANGED <<list, acking, now, told, fresh, opened>>
  BY DEF Looking, Ask, Found, NotFound, NoToken, GetToken, HostSet, HostNotSet, Return, Step,
         listVars, heardVars
<1>2. ListType' /\ ListInv' /\ EntriesAreTold' /\ OneInv'
  BY <1>1, ListStays
<1>3. NoJob \in [call : {"none", "open", "config"}, dev : Dev \cup {Zero}, tries : Nat,
                gethost : BOOLEAN, token : {"none", "given", "unset"}, acked : BOOLEAN]
      /\ NoJob.call = "none"
  BY DEF NoJob, Job
<1>4. ASSUME pc' = "idle", job' = NoJob, asked' = asked
      PROVE  SearchInv'
  BY <1>1, <1>2, <1>3, <1>4 DEF SearchType, Tries, KeyOutMeansAcked, FreshInv
<1>5. CASE Ask
  <2>1. pc' = "look" /\ job' = job /\ asked' = asked \cup {<<job.dev, now>>}
    BY <1>5 DEF Ask, Goto
  <2> QED
    BY <1>1, <1>2, <1>5, <2>1 DEF Ask, Step, SearchType, Tries, KeyOutMeansAcked, FreshInv
<1>6. CASE Found
  <2>1. pc = "look" /\ pc' = "token" /\ job' = job /\ asked' = asked
    BY <1>6 DEF Found, Step, Goto
  <2>2. job.dev \in Dev /\ FindEntry(list, job.dev) # 0
    BY <1>6, <2>1 DEF Found, Check, SearchType
  <2>3. \E i \in Entry : list[i].id = job.dev
    BY <2>2, FoundIsFirst
  <2> QED
    BY <1>1, <1>2, <2>1, <2>3 DEF SearchType, Tries, KeyOutMeansAcked, FreshInv
<1>7. CASE NotFound
  <2>1. PICK host \in {job.gethost, job.gethost /\ job.call # "open"} :
          Again("ask", Tries, [job EXCEPT !.gethost = host])
    BY <1>7 DEF NotFound
  <2>2. pc = "look" /\ asked' = asked /\ host \in BOOLEAN
    BY <1>7, Zenon DEF NotFound, Step, SearchType
  <2>3. CASE pc' = "idle" /\ job' = NoJob
    BY <1>4, <2>2, <2>3
  <2>4. CASE /\ job.tries + 1 < Tries /\ pc' = "ask"
             /\ job' = [job EXCEPT !.gethost = host, !.tries = job.tries + 1]
    <3>1. /\ job'.call = job.call /\ job'.dev = job.dev /\ job'.tries = job.tries + 1
          /\ job'.gethost = host /\ job'.token = job.token /\ job'.acked = job.acked
      BY <2>4 DEF SearchType
    <3>2. job' \in [call : {"none", "open", "config"}, dev : Dev \cup {Zero}, tries : Nat,
                    gethost : BOOLEAN, token : {"none", "given", "unset"}, acked : BOOLEAN]
      <4> DEFINE h == [job EXCEPT !.gethost = host]
      <4>1. h \in [call : {"none", "open", "config"}, dev : Dev \cup {Zero}, tries : Nat,
                   gethost : BOOLEAN, token : {"none", "given", "unset"}, acked : BOOLEAN]
        BY <2>2, Zenon DEF SearchType
      <4>2. job.tries + 1 \in Nat /\ job' = [h EXCEPT !.tries = job.tries + 1]
        BY <2>4 DEF SearchType
      <4> HIDE DEF h
      <4> QED
        BY <4>1, <4>2
    <3>3. SearchType'
      BY <1>1, <2>2, <2>4, <3>1, <3>2 DEF SearchType, Tries
    <3> QED
      BY <1>1, <1>2, <2>2, <2>4, <3>1, <3>3 DEF KeyOutMeansAcked, FreshInv
  <2>5. job.tries \in Nat /\ Tries \in Nat
    BY SearchAssumption DEF SearchType, Tries
  <2> QED
    BY <2>1, <2>3, <2>4, <2>5 DEF Again, Goto, Leave, SearchType
<1>8. CASE NoToken
  <2>1. pc = "token" /\ asked' = asked
    BY <1>8 DEF NoToken, Step
  <2>2. CASE pc' = "idle" /\ job' = NoJob
    BY <1>4, <2>1, <2>2
  <2>3. CASE /\ job.tries + 1 < Tries /\ pc' = "ask"
             /\ job' = [job EXCEPT !.tries = job.tries + 1]
    BY <1>1, <1>2, <2>1, <2>3 DEF SearchType, Tries, KeyOutMeansAcked, FreshInv
  <2>4. job.tries \in Nat /\ Tries \in Nat
    BY SearchAssumption DEF SearchType, Tries
  <2> QED
    BY <1>8, <2>2, <2>3, <2>4 DEF NoToken, Again, Goto, Leave
<1>9. CASE GetToken
  <2>1. PICK t \in {"given", "unset"} :
          LET j == [job EXCEPT !.token = t] IN
          IF j.call = "open" THEN Goto("open", j)
          ELSE IF j.tries >= ConfigLate THEN Leave
          ELSE Goto("host", [j EXCEPT !.tries = 0])
    BY <1>9 DEF GetToken
  <2>2. pc = "token" /\ asked' = asked
    BY <1>9 DEF GetToken, Step
  <2>3. CASE pc' = "idle" /\ job' = NoJob
    BY <1>4, <2>2, <2>3
  <2>4. CASE pc' = "open" /\ job' = [job EXCEPT !.token = t]
    BY <1>1, <1>2, <2>2, <2>4 DEF SearchType, Tries, KeyOutMeansAcked, FreshInv
  <2>5. CASE pc' = "host" /\ job' = [job EXCEPT !.token = t, !.tries = 0]
    <3>1. HostTries \in Nat /\ 0 < HostTries
      BY SearchAssumption
    <3>2. job'.tries = 0 /\ job'.call = job.call /\ job'.dev = job.dev
      BY <2>5 DEF SearchType
    <3>3. SearchType'
      BY <1>1, <2>2, <2>5, <3>1, <3>2 DEF SearchType
    <3> QED
      BY <1>1, <1>2, <2>2, <2>5, <3>2, <3>3 DEF KeyOutMeansAcked, FreshInv
  <2> QED
    BY <2>1, <2>3, <2>4, <2>5 DEF Goto, Leave
<1>10. CASE HostSet
  <2>1. /\ pc = "host" /\ pc' = "key" /\ asked' = asked
        /\ job' = [job EXCEPT !.acked = TRUE]
    BY <1>10 DEF HostSet, Step, Goto
  <2> QED
    BY <1>1, <1>2, <2>1 DEF SearchType, Tries, KeyOutMeansAcked, FreshInv
<1>11. CASE HostNotSet
  <2>1. pc = "host" /\ asked' = asked
    BY <1>11 DEF HostNotSet, Step
  <2>2. CASE pc' = "idle" /\ job' = NoJob
    BY <1>4, <2>1, <2>2
  <2>3. CASE /\ job.tries + 1 < HostTries /\ pc' = "host"
             /\ job' = [job EXCEPT !.tries = job.tries + 1]
    BY <1>1, <1>2, <2>1, <2>3 DEF SearchType, Tries, KeyOutMeansAcked, FreshInv
  <2>4. job.tries \in Nat /\ HostTries \in Nat
    BY SearchAssumption DEF SearchType
  <2> QED
    BY <1>11, <2>2, <2>3, <2>4 DEF HostNotSet, Again, Goto, Leave
<1>12. CASE Return
  BY <1>4, <1>12 DEF Return, Leave, Goto
<1> QED
  BY <1>5, <1>6, <1>7, <1>8, <1>9, <1>10, <1>11, <1>12 DEF Looking

-----------------------------------------------------------------------------
(* The specification.                                                      *)

LEMMA SearchStarts == SearchInit => SearchInv
<1> SUFFICES ASSUME SearchInit PROVE SearchInv
  OBVIOUS
<1>1. ListType
  BY SearchAssumption DEF SearchInit, ListType, OnlineEntry, NoEntry, Status
<1>2. SearchType
  BY SearchAssumption DEF SearchInit, SearchType, NoJob, Job
<1>3. \A i \in Entry : list[i].id = Zero /\ list[i].online = "NO"
  BY DEF SearchInit, NoEntry
<1>4. ListInv /\ EntriesAreTold /\ OneInv
  BY <1>3, SearchAssumption DEF SearchInit, ListInv, EntriesAreTold, OneInv
<1>5. FreshInv /\ KeyOutMeansAcked
  BY DEF SearchInit, FreshInv, KeyOutMeansAcked
<1> QED
  BY <1>1, <1>2, <1>4, <1>5 DEF SearchInv

LEMMA SearchStep == SearchInv /\ [SearchNext]_searchVars => SearchInv'
<1> SUFFICES ASSUME SearchInv, [SearchNext]_searchVars PROVE SearchInv'
  OBVIOUS
<1>1. CASE \E d \in Dev : Open(d) \/ Config(d)
  BY <1>1, OpenKeeps, ConfigKeeps
<1>2. ASSUME NEW d \in Dev, NEW idx \in 1 .. MaxNow, NEW status \in {"WAN", "NO"},
             RecvOnline(d, idx, status)
      PROVE  SearchInv'
  BY <1>2, HearKeeps DEF RecvOnline, Status
<1>3. ASSUME NEW d \in Dev, NEW idx \in 1 .. MaxNow, RecvScanAck(d, idx)
      PROVE  SearchInv'
  BY <1>3, HearKeeps DEF RecvScanAck, Status
<1>4. CASE SetAddress \/ Tick
  BY <1>4, SetAddressKeeps, TickKeeps
<1>5. CASE Looking
  BY <1>5, LookingKeeps
<1>6. CASE UNCHANGED searchVars
  <2>1. UNCHANGED <<list, acking, asked, now, pc, job, told, fresh, opened>>
    BY <1>6 DEF searchVars, listVars, heardVars
  <2>2. SearchType' /\ KeyOutMeansAcked' /\ FreshInv'
    BY <2>1 DEF SearchInv, SearchType, Tries, KeyOutMeansAcked, FreshInv
  <2> QED
    BY <2>1, <2>2, ListStays DEF SearchInv
<1> QED
  BY <1>1, <1>2, <1>3, <1>4, <1>5, <1>6 DEF SearchNext, Looking

LEMMA SearchIsInductive == SearchSpec => []SearchInv
BY SearchStarts, SearchStep, PTL DEF SearchSpec

-----------------------------------------------------------------------------
(* What follows.                                                           *)

\* The list, the answers and the locals of the searches have their types, and no
\* loop of ulink_open or ulink_config goes on past its tries.
THEOREM SearchTypes == SearchSpec => []SearchTypeOK
<1>1. SearchInv => SearchTypeOK
  <2> SUFFICES ASSUME SearchInv PROVE SearchTypeOK
    OBVIOUS
  <2>1. now \in Nat
    BY SearchAssumption DEF SearchInv, SearchType
  <2> QED
    BY <2>1 DEF SearchInv, ListType, SearchType, SearchTypeOK, OnlineEntry
<1> QED
  BY <1>1, SearchIsInductive, PTL

\* online_update, up2pa_clear_online and recv_cmd: what the list says of a device was
\* told of that device, whoever had the entry before.
THEOREM ListSaysWhatWasTold == SearchSpec => []EntriesAreTold
BY SearchIsInductive, PTL DEF SearchInv

\* up2pa_clear_online and up2pa_check_online: if no other device is ever opened, an
\* answer from before ulink_open began does not end its search.
THEOREM SearchEndsFresh == SearchSpec => []FreshIfOnlyDevice
<1>1. ASSUME SearchInv PROVE FreshIfOnlyDevice
  BY <1>1 DEF SearchInv, FreshInv, FreshIfOnlyDevice
<1> QED
  BY <1>1, SearchIsInductive, PTL

\* ulink_config: a key that is given out is that of a device which acknowledged its
\* new server.
THEOREM KeysAreAcked == SearchSpec => []KeyOutMeansAcked
BY SearchIsInductive, PTL DEF SearchInv
=============================================================================
