---------------------------- MODULE Relay_proofs ----------------------------
(***************************************************************************)
(* The table of users of the relay, for any number of users, peers and     *)
(* entries: whoever it finds and has heard from lately is where it was     *)
(* heard last.                                                             *)
(*                                                                         *)
(* user_add stops at the first entry it may use, one of the id's own at    *)
(* the latest, and user_find at the first of the id: the entry written     *)
(* last is always the one found.  An entry of another is only taken when   *)
(* it has expired, and an expired entry is no promise.                     *)
(*                                                                         *)
(* And the HTTP threads that share recv_queue: every answer in the network *)
(* is accounted for by a command of its kind and token that was carried    *)
(* out, so what ends a wait is.                                            *)
(***************************************************************************)
EXTENDS Relay, WellFoundedInduction, TLAPS

Entry == [dev : Peer \cup {Zero}, addr : Addr \cup {NoAddr}, time : Nat]

TableType ==
  /\ users \in [User -> Entry]
  /\ heard \in [Peer -> Entry]
  /\ now \in Nat \ {0}

\* An entry is of somebody who was heard from, then or later.
Truthful ==
  \A d \in Peer :
    /\ heard[d].time <= now
    /\ heard[d].dev = d => heard[d].time # 0
    /\ \A i \in User : users[i].dev = d => heard[d].dev = d /\ users[i].time <= heard[d].time

TableInv == TableType /\ Truthful /\ FoundIsLatest

-----------------------------------------------------------------------------
(* The loops of up2ps.c stop at the first entry that satisfies their       *)
(* condition.                                                              *)

LEMMA FirstIsLeast ==
  ASSUME NEW S \in SUBSET User, S # {}
  PROVE  First(S) \in S /\ \A j \in S : First(S) <= j
<1> DEFINE R == OpToRel(<, Nat)
<1>1. S \subseteq Nat
  BY DEF User
<1>2. \E x \in S : \A y \in S : <<y, x>> \notin R
  <2>1. IsWellFoundedOn(R, Nat)
    BY NatLessThanWellFounded
  <2> QED
    BY <1>1, <2>1, WFMin
<1>3. PICK x \in S : \A y \in S : <<y, x>> \notin R
  BY <1>2
<1>4. \A y \in S : x <= y
  <2>1. R = {ss \in Nat \X Nat : ss[1] < ss[2]}
    BY Zenon DEF OpToRel
  <2>2. SUFFICES ASSUME NEW y \in S PROVE ~(y < x)
    BY <1>1
  <2>3. <<y, x>> \notin {ss \in Nat \X Nat : ss[1] < ss[2]}
    BY <1>3, <2>1, Zenon
  <2> QED
    BY <1>1, <2>3
<1> QED
  BY <1>4 DEF First

LEMMA FindIsFirst ==
  ASSUME NEW table \in [User -> Entry], NEW d \in Peer, Found(table, d)
  PROVE  \E i \in User : /\ UserFind(table, d) = table[i]
                         /\ table[i].dev = d
                         /\ \A j \in User : table[j].dev = d => i <= j
BY FirstIsLeast DEF Found, Entries, UserFind

LEMMA FirstIsFound ==
  ASSUME NEW table \in [User -> Entry], NEW d \in Peer, NEW i \in User,
         table[i].dev = d, \A j \in User : table[j].dev = d => i <= j
  PROVE  Found(table, d) /\ UserFind(table, d) = table[i]
<1>1. Entries(table, d) \in SUBSET User /\ i \in Entries(table, d)
  BY DEF Entries
<1>2. First(Entries(table, d)) \in Entries(table, d)
      /\ \A j \in Entries(table, d) : First(Entries(table, d)) <= j
  BY <1>1, FirstIsLeast
<1>3. First(Entries(table, d)) = i
  <2>1. First(Entries(table, d)) <= i
    BY <1>1, <1>2
  <2>2. First(Entries(table, d)) \in User /\ i <= First(Entries(table, d))
    BY <1>2 DEF Entries
  <2> QED
    BY <2>1, <2>2 DEF User
<1> QED
  BY <1>1, <1>3 DEF Found, UserFind

-----------------------------------------------------------------------------
(* A packet.                                                               *)

Listed(d, a) == [dev |-> d, addr |-> a, time |-> now]

\* user_add leaves the table as it is, which then has no entry of the sender, or
\* writes one before which there is none of it, over its own or one that expired.
LEMMA UserAddWrites ==
  ASSUME NEW d \in Peer, NEW a \in Addr, TableInv, UserAdd(d, a)
  PROVE  \/ users' = users /\ \A i \in User : users[i].dev # d
         \/ \E k \in User :
              /\ users' = [users EXCEPT ![k] = Listed(d, a)]
              /\ \A j \in User : users[j].dev = d => k <= j
              /\ users[k].dev = d \/ users[k].time = 0 \/ Expired(users[k], now)
<1> DEFINE S == Usable(users, now, d)
<1>1. S \in SUBSET User
  BY DEF Usable
<1>2. \A i \in User : users[i].dev = d => i \in S
  BY DEF Usable
<1>3. CASE S = {}
  BY <1>2, <1>3 DEF UserAdd
<1>4. CASE S # {}
  <2>1. First(S) \in S /\ \A j \in S : First(S) <= j
    BY <1>1, <1>4, FirstIsLeast
  <2>2. users' = [users EXCEPT ![First(S)] = Listed(d, a)]
    BY <1>4 DEF UserAdd, Listed
  <2>3. users[First(S)].dev = d \/ users[First(S)].time = 0 \/ Expired(users[First(S)], now)
    BY <2>1 DEF Usable
  <2> QED
    BY <1>1, <1>2, <2>1, <2>2, <2>3
<1> QED
  BY <1>3, <1>4

LEMMA ReceiveKeeps ==
  ASSUME NEW d \in Peer, NEW a \in Addr, TableInv, Receive(d, a)
  PROVE  TableInv'
<1> USE DEF TableInv
<1>1. now' = now /\ heard' = [heard EXCEPT ![d] = Listed(d, a)] /\ UserAdd(d, a)
  BY DEF Receive, Listed
<1>2. Listed(d, a) \in Entry
  BY DEF Listed, Entry, TableType
<1>3. TableType'
  BY <1>1, <1>2, UserAddWrites DEF TableType
<1>4. Listed(d, a).dev = d /\ Listed(d, a).time = now
  BY DEF Listed
<1>5. \A e \in Peer : heard'[e] = IF e = d THEN Listed(d, a) ELSE heard[e]
  BY <1>1 DEF TableType
<1>6. ASSUME NEW k \in User, users' = [users EXCEPT ![k] = Listed(d, a)]
      PROVE  \A j \in User : users'[j] = IF j = k THEN Listed(d, a) ELSE users[j]
  BY <1>6 DEF TableType
<1>7. Truthful'
  <2> SUFFICES ASSUME NEW e \in Peer
               PROVE  /\ heard'[e].time <= now'
                      /\ heard'[e].dev = e => heard'[e].time # 0
                      /\ \A i \in User : users'[i].dev = e =>
                           heard'[e].dev = e /\ users'[i].time <= heard'[e].time
    BY DEF Truthful
  <2>1. now \in Nat \ {0} /\ \A i \in User : users[i].time \in Nat
    BY DEF TableType, Entry
  <2>2. heard[e].time <= now /\ heard[e].time \in Nat
    BY DEF Truthful, TableType, Entry
  <2>3. heard'[e].time <= now' /\ (heard'[e].dev = e => heard'[e].time # 0)
    BY <1>1, <1>4, <1>5, <2>1, <2>2 DEF Truthful
  <2>4. ASSUME NEW i \in User, users'[i].dev = e
        PROVE  heard'[e].dev = e /\ users'[i].time <= heard'[e].time
    <3>1. users'[i] = users[i] \/ users'[i] = Listed(d, a)
      BY <1>1, <1>6, UserAddWrites
    <3>2. CASE e = d
      <4>1. heard'[e] = Listed(d, a)
        BY <1>5, <3>2
      <4>2. users'[i].time <= now
        <5>1. CASE users'[i] = Listed(d, a)
          BY <5>1, <1>4, <2>1
        <5>2. CASE users'[i] = users[i]
          <6>1. users[i].time <= heard[e].time
            BY <2>4, <5>2 DEF Truthful
          <6> QED
            BY <6>1, <5>2, <2>1, <2>2
        <5> QED
          BY <3>1, <5>1, <5>2
      <4> QED
        BY <4>1, <4>2, <1>4, <3>2
    <3>3. CASE e # d
      <4>1. heard'[e] = heard[e] /\ users'[i] = users[i]
        BY <1>4, <1>5, <2>4, <3>1, <3>3
      <4> QED
        BY <4>1, <2>4 DEF Truthful
    <3> QED
      BY <3>2, <3>3
  <2> QED
    BY <2>3, <2>4
<1>8. FoundIsLatest'
  <2> SUFFICES ASSUME NEW e \in Peer, HeardLately(e)', Found(users, e)'
               PROVE  (UserFind(users, e) = heard[e])'
    BY DEF FoundIsLatest
  <2>1. Found(users', e) /\ heard'[e].dev = e /\ ~Expired(heard'[e], now)
    BY <1>1 DEF HeardLately, Found, Entries, Expired
  <2>2. PICK f \in User : /\ UserFind(users', e) = users'[f] /\ users'[f].dev = e
                          /\ \A j \in User : users'[j].dev = e => f <= j
    BY <1>3, <2>1, FindIsFirst DEF TableType
  <2>3. CASE users' = users /\ \A i \in User : users[i].dev # d
    <3>1. e # d
      BY <2>2, <2>3
    <3>2. heard'[e] = heard[e]
      BY <1>5, <3>1
    <3>3. HeardLately(e) /\ Found(users, e)
      BY <2>1, <2>3, <3>2 DEF HeardLately
    <3>4. UserFind(users, e) = heard[e]
      BY <3>3 DEF FoundIsLatest
    <3> QED
      BY <2>3, <3>2, <3>4
  <2>4. CASE \E k \in User :
               /\ users' = [users EXCEPT ![k] = Listed(d, a)]
               /\ \A j \in User : users[j].dev = d => k <= j
               /\ users[k].dev = d \/ users[k].time = 0 \/ Expired(users[k], now)
    <3>1. PICK k \in User :
               /\ users' = [users EXCEPT ![k] = Listed(d, a)]
               /\ \A j \in User : users[j].dev = d => k <= j
               /\ users[k].dev = d \/ users[k].time = 0 \/ Expired(users[k], now)
      BY <2>4
    <3>2. \A j \in User : users'[j] = IF j = k THEN Listed(d, a) ELSE users[j]
      BY <1>6, <3>1
    <3>3. CASE e = d
      <4>1. f <= k
        BY <1>4, <2>2, <3>2, <3>3
      <4>2. k <= f
        BY <1>4, <2>2, <3>1, <3>2, <3>3 DEF User
      <4>3. f = k
        BY <4>1, <4>2 DEF User
      <4> QED
        BY <2>2, <3>2, <3>3, <4>3, <1>5
    <3>4. CASE e # d
      <4>1. heard'[e] = heard[e] /\ f # k /\ users'[f] = users[f]
        BY <1>4, <1>5, <2>2, <3>2, <3>4
      <4>2. HeardLately(e)
        BY <2>1, <4>1 DEF HeardLately
      <4>3. CASE users[k].dev # e
        <5>1. \A j \in User : users[j].dev = e => f <= j
          BY <2>2, <3>2, <4>3
        <5>2. Found(users, e) /\ UserFind(users, e) = users[f]
          BY <2>2, <4>1, <5>1, FirstIsFound DEF TableType
        <5> QED
          BY <2>2, <4>1, <4>2, <5>2 DEF FoundIsLatest
      \* The entry taken was one of e's: an expired one, so behind the first.
      <4>4. CASE users[k].dev = e
        <5>1. Found(users, e)
          BY <4>4 DEF Found, Entries
        <5>2. UserFind(users, e) = heard[e]
          BY <4>2, <5>1 DEF FoundIsLatest
        <5>3. PICK g \in User : /\ UserFind(users, e) = users[g] /\ users[g].dev = e
                                /\ \A j \in User : users[j].dev = e => g <= j
          BY <5>1, FindIsFirst DEF TableType
        <5>4. users[k].time = 0 \/ Expired(users[k], now)
          BY <3>1, <3>4, <4>4
        <5>5. users[g].time # 0 /\ ~Expired(users[g], now)
          BY <2>1, <4>1, <5>2, <5>3 DEF Truthful
        <5>6. g # k
          BY <5>4, <5>5
        <5>7. users'[g] = users[g]
          BY <3>2, <5>6
        <5>8. f <= g
          BY <2>2, <5>3, <5>7
        <5>9. g <= f
          BY <2>2, <4>1, <5>3
        <5>10. f = g
          BY <5>8, <5>9 DEF User
        <5> QED
          BY <2>2, <4>1, <5>2, <5>3, <5>10
      <4> QED
        BY <4>3, <4>4
    <3> QED
      BY <3>3, <3>4
  <2> QED
    BY <1>1, <2>3, <2>4, UserAddWrites
<1> QED
  BY <1>3, <1>7, <1>8

\* Time passes: an entry expires, and so does what was heard.
LEMMA TickKeeps ==
  ASSUME TableInv, Tick
  PROVE  TableInv' /\ OnlineIsTrue'
<1> USE DEF TableInv
<1>1. now' = now + 1 /\ users' = users /\ heard' = heard /\ sent' = Nothing
  BY DEF Tick
<1>2. TableType'
  BY <1>1 DEF TableType
<1>3. ASSUME NEW d \in Peer
      PROVE  heard[d].time \in Nat /\ now \in Nat
  BY DEF TableType, Entry
<1>4. Truthful'
  <2> SUFFICES ASSUME NEW d \in Peer
               PROVE  /\ heard[d].time <= now + 1
                      /\ heard[d].dev = d => heard[d].time # 0
                      /\ \A i \in User : users[i].dev = d =>
                           heard[d].dev = d /\ users[i].time <= heard[d].time
    BY <1>1 DEF Truthful
  <2> QED
    BY <1>3 DEF Truthful
<1>5. FoundIsLatest'
  <2> SUFFICES ASSUME NEW d \in Peer, HeardLately(d)', Found(users, d)
               PROVE  UserFind(users, d) = heard[d]
    BY <1>1 DEF FoundIsLatest, Found, Entries, UserFind
  <2>1. HeardLately(d)
    <3>1. heard'[d].dev = d /\ ~(now' - heard'[d].time > OnlineTime)
      BY DEF HeardLately, Expired
    <3>2. ~(now - heard[d].time > OnlineTime)
      BY <1>1, <1>3, <3>1, RelayAssumption
    <3> QED
      BY <1>1, <3>1, <3>2 DEF HeardLately, Expired
  <2> QED
    BY <2>1 DEF FoundIsLatest
<1>6. OnlineIsTrue'
  BY <1>1 DEF OnlineIsTrue, Nothing
<1> QED
  BY <1>2, <1>4, <1>5, <1>6

\* The answer to CMD_CHECK_ONLINE is read off the entry found.
LEMMA CheckIsTrue ==
  ASSUME NEW d \in Peer, NEW a \in Addr, NEW dst \in Peer, TableInv,
         RecvCheckOnline(d, a, dst)
  PROVE  OnlineIsTrue'
<1>1. Receive(d, a) /\ now' = now
      /\ sent' = [cmd |-> IF IsOnline(users', dst) THEN "Yes" ELSE "No",
                  about |-> dst, to |-> a]
  BY DEF RecvCheckOnline, Receive
<1>2. TableInv'
  BY <1>1, ReceiveKeeps
<1>3. heard'[dst].time \in Nat /\ heard'[dst].time <= now /\ now \in Nat
  BY <1>1, <1>2 DEF TableInv, TableType, Truthful, Entry
<1>4. ASSUME IsOnline(users', dst)
      PROVE  HeardLately(dst)'
  <2>1. Found(users', dst) /\ now - UserFind(users', dst).time < OnlineTime
    BY <1>4 DEF IsOnline
  <2>2. PICK i \in User : UserFind(users', dst) = users'[i] /\ users'[i].dev = dst
    BY <1>2, <2>1, FindIsFirst DEF TableInv, TableType
  <2>3. heard'[dst].dev = dst /\ users'[i].time <= heard'[dst].time /\ users'[i].time \in Nat
    BY <1>2, <2>2 DEF TableInv, TableType, Truthful, Entry
  <2>4. now - users'[i].time < OnlineTime
    BY <2>1, <2>2
  <2>5. ~(now - heard'[dst].time > OnlineTime)
    BY <1>3, <2>3, <2>4, RelayAssumption
  <2> QED
    BY <1>1, <2>3, <2>5 DEF HeardLately, Expired
<1>5. ASSUME ~IsOnline(users', dst), HeardLately(dst)', now - heard'[dst].time < OnlineTime
      PROVE  ~Found(users', dst)
  <2> SUFFICES ASSUME Found(users', dst) PROVE FALSE
    OBVIOUS
  <2>1. UserFind(users', dst) = heard'[dst]
    BY <1>2, <1>5 DEF TableInv, FoundIsLatest, Found, Entries, UserFind
  <2> QED
    BY <1>5, <2>1 DEF IsOnline
<1>6. Found(users, dst)' = Found(users', dst)
  BY DEF Found, Entries
<1> QED
  BY <1>1, <1>4, <1>5, <1>6 DEF OnlineIsTrue

-----------------------------------------------------------------------------
(* The relay.                                                              *)

RelayInv == TableInv /\ OnlineIsTrue

LEMMA RelayStarts == Init => RelayInv
<1> SUFFICES ASSUME Init PROVE RelayInv
  OBVIOUS
<1>1. Zero \notin Peer
  BY IdAssumption DEF Peer
<1>2. users = [i \in User |-> NobodyYet] /\ heard = [d \in Peer |-> NobodyYet]
      /\ now = OnlineTime + 1 /\ sent = Nothing
  BY DEF Init
<1>3. TableType
  BY <1>2, RelayAssumption DEF TableType, Entry, NobodyYet
<1>4. \A d \in Peer : heard[d].dev # d /\ heard[d].time = 0
  BY <1>1, <1>2 DEF NobodyYet
<1>5. \A d \in Peer, i \in User : users[i].dev # d
  BY <1>1, <1>2 DEF NobodyYet
<1>6. Truthful
  BY <1>2, <1>4, <1>5, RelayAssumption DEF Truthful
<1>7. FoundIsLatest
  BY <1>4 DEF FoundIsLatest, HeardLately
<1>8. OnlineIsTrue
  BY <1>2 DEF OnlineIsTrue, Nothing
<1> QED
  BY <1>3, <1>6, <1>7, <1>8 DEF RelayInv, TableInv

\* What neither receives a packet nor lets time pass leaves the table alone.
LEMMA StutterKeeps ==
  ASSUME RelayInv, UNCHANGED tableVars
  PROVE  RelayInv'
<1>1. users' = users /\ now' = now /\ sent' = sent /\ heard' = heard
  BY DEF tableVars
<1>2. TableType' /\ Truthful'
  BY <1>1 DEF RelayInv, TableInv, TableType, Truthful
<1>3. FoundIsLatest'
  BY <1>1 DEF RelayInv, TableInv, FoundIsLatest, HeardLately, Expired, Found, Entries, UserFind
<1>4. OnlineIsTrue'
  BY <1>1 DEF RelayInv, OnlineIsTrue, HeardLately, Expired, Found, Entries
<1> QED
  BY <1>2, <1>3, <1>4 DEF RelayInv, TableInv

LEMMA ServeKeeps ==
  ASSUME RelayInv, Serve
  PROVE  RelayInv'
<1>1. PICK d \in Peer, a \in Addr :
        \/ RecvAnnounce(d, a) \/ RecvOwn(d, a)
        \/ \E dst \in Peer \ {d} : RecvCheckOnline(d, a, dst) \/ RecvForward(d, a, dst)
  BY DEF Serve
<1>2. Receive(d, a)
  BY <1>1 DEF RecvAnnounce, RecvOwn, RecvCheckOnline, RecvForward
<1>3. TableInv'
  BY <1>2, ReceiveKeeps DEF RelayInv
<1>4. CASE \E dst \in Peer \ {d} : RecvCheckOnline(d, a, dst)
  BY <1>3, <1>4, CheckIsTrue DEF RelayInv
<1>5. CASE sent'.cmd \notin {"Yes", "No"}
  BY <1>3, <1>5 DEF RelayInv, OnlineIsTrue
<1>6. CASE RecvAnnounce(d, a) \/ RecvOwn(d, a)
  BY <1>5, <1>6 DEF RecvAnnounce, RecvOwn, Nothing
<1>7. CASE \E dst \in Peer \ {d} : RecvForward(d, a, dst)
  BY <1>5, <1>7 DEF RecvForward, Nothing
<1> QED
  BY <1>1, <1>4, <1>6, <1>7

LEMMA StepKeeps ==
  ASSUME RelayInv, [Next]_vars
  PROVE  RelayInv'
<1>1. CASE Tick
  BY <1>1, TickKeeps DEF RelayInv
<1>2. CASE Serve
  BY <1>2, ServeKeeps
<1>3. CASE \E h \in Handler : Control(h)
  <2>1. UNCHANGED tableVars
    BY <1>3 DEF Control, BeginControl, Opened, Done, TimedOut, WentOn, SendCommand
  <2> QED
    BY <2>1, StutterKeeps
<1>4. CASE (\E p \in reqs : DeviceAnswers(p)) \/ DeviceRefreshed
  <2>1. UNCHANGED tableVars
    BY <1>4 DEF DeviceAnswers, DeviceRefreshed
  <2> QED
    BY <2>1, StutterKeeps
<1>5. CASE UNCHANGED vars
  <2>1. UNCHANGED tableVars
    BY <1>5 DEF vars
  <2> QED
    BY <2>1, StutterKeeps
<1> QED
  BY <1>1, <1>2, <1>3, <1>4, <1>5 DEF Next

\* Whoever is found in the table and was heard from within UP2P_ONLINE_TIME is found
\* at the address it was last heard from: recv_cmd forwards to nowhere else.
THEOREM FindsTheLatest == RelaySpec => []FoundIsLatest
<1>1. RelayInv => FoundIsLatest
  BY DEF RelayInv, TableInv
<1> QED
  BY <1>1, RelayStarts, StepKeeps, PTL DEF RelaySpec

\* What recv_cmd answers to CMD_CHECK_ONLINE: yes only of one heard from in time, no
\* never of one that is in the table and was heard from just now.
THEOREM OnlineIsToldTruly == RelaySpec => []OnlineIsTrue
<1>1. RelayInv => OnlineIsTrue
  BY DEF RelayInv
<1> QED
  BY <1>1, RelayStarts, StepKeeps, PTL DEF RelaySpec
-----------------------------------------------------------------------------
(* The HTTP threads and the device.  recv_queue is one place for all the     *)
(* threads and is never cleared, so a thread may take the answer meant for   *)
(* another, or an old one: what can be said of an answer is what it says of  *)
(* the device.                                                               *)

\* A thread waits for a packet it has sent, and for the answer of a command.
ControlType ==
  /\ hpc \in [Handler -> {"idle", "opening", "waiting"}]
  /\ hcmd \in [Handler -> ControlCmd \cup {"None"}]
  /\ hbuf \in [Handler -> reqs \cup {NoPacket}]
  /\ pktIdx \in 0 .. MaxIdx
  /\ \A p \in reqs : p.cmd \in ControlCmd \cup {"GetToken"}
  /\ \A h \in Handler :
       /\ hpc[h] = "opening" => hcmd[h] \in ControlCmd
       /\ hpc[h] = "waiting" => hbuf[h] \in reqs /\ hbuf[h].cmd \in ControlCmd
  /\ answered \subseteq reqs

\* Behind an answer to a command is a command carried out under the same token.
Accountable(a, done) ==
  \A cmd \in ControlCmd : a.cmd = AckOf[cmd] =>
     \E q \in done : q.cmd = cmd /\ q.token = a.token

AnswersRan == \A a \in answers \cup {recvQueue} : Accountable(a, ran)

ControlInv == ControlType /\ AnswersRan /\ AnsweredKindRan

\* An answer names its command.
LEMMA AckNamesCommand ==
  /\ "None" \notin ControlCmd /\ "GetToken" \notin ControlCmd
  /\ \A cmd \in ControlCmd : AckOf[cmd] # "None"
  /\ \A cmd \in ControlCmd, other \in ControlCmd \cup {"GetToken"} :
       AckOf[other] = AckOf[cmd] => other = cmd
BY RelayAssumption DEF AckOf

LEMMA ControlStarts == Init => ControlInv
<1> SUFFICES ASSUME Init PROVE ControlInv
  OBVIOUS
<1>1. ControlType
  BY RelayAssumption DEF Init, ControlType
<1>2. AnswersRan
  BY AckNamesCommand DEF Init, AnswersRan, Accountable, NoAnswer
<1>3. AnsweredKindRan
  BY DEF Init, AnsweredKindRan
<1> QED
  BY <1>1, <1>2, <1>3 DEF ControlInv

\* A packet of the relay: the next index, and one more thing the device may get.
LEMMA TransmitKeeps ==
  ASSUME ControlType, NEW h \in Handler, NEW cmd \in ControlCmd \cup {"GetToken"}, NEW t,
         Transmit(h, cmd, t)
  PROVE  /\ pktIdx' \in 0 .. MaxIdx
         /\ reqs \subseteq reqs'
         /\ \A p \in reqs' : p.cmd \in ControlCmd \cup {"GetToken"}
         /\ hbuf' \in [Handler -> reqs' \cup {NoPacket}]
         /\ hbuf'[h] \in reqs' /\ hbuf'[h].cmd = cmd
         /\ \A g \in Handler \ {h} : hbuf'[g] = hbuf[g]
<1> DEFINE p == [idx |-> pktIdx + 1, cmd |-> cmd, token |-> t]
<1>1. /\ pktIdx < MaxIdx /\ pktIdx' = pktIdx + 1
      /\ hbuf' = [hbuf EXCEPT ![h] = p] /\ reqs' = reqs \cup {p}
  BY DEF Transmit
<1>2. pktIdx' \in 0 .. MaxIdx
  BY <1>1, RelayAssumption DEF ControlType
<1>3. p.cmd = cmd
  OBVIOUS
<1> HIDE DEF p
<1> QED
  BY <1>1, <1>2, <1>3 DEF ControlType

\* What the threads change of their own keeps its type.
LEMMA SendCommandKeeps ==
  ASSUME ControlType, NEW h \in Handler, NEW t, SendCommand(h, t)
  PROVE  ControlType'
<1>1. hpc[h] = "opening" /\ hcmd[h] \in ControlCmd /\ hcmd' = hcmd /\ answered' = answered
  BY DEF SendCommand, ControlType
<1>2. CASE Found(users, Dev)
  <2>1. Transmit(h, hcmd[h], t) /\ hpc' = [hpc EXCEPT ![h] = "waiting"]
    BY <1>2 DEF SendCommand
  <2>2. /\ pktIdx' \in 0 .. MaxIdx
        /\ reqs \subseteq reqs'
        /\ \A p \in reqs' : p.cmd \in ControlCmd \cup {"GetToken"}
        /\ hbuf' \in [Handler -> reqs' \cup {NoPacket}]
        /\ hbuf'[h] \in reqs' /\ hbuf'[h].cmd = hcmd[h]
        /\ \A g \in Handler \ {h} : hbuf'[g] = hbuf[g]
    BY <1>1, <2>1, TransmitKeeps
  <2> QED
    BY <1>1, <2>1, <2>2 DEF ControlType
<1>3. CASE ~Found(users, Dev)
  BY <1>1, <1>3 DEF SendCommand, ControlType
<1> QED
  BY <1>2, <1>3

LEMMA ThreadKeepsType ==
  ASSUME ControlType, NEW h \in Handler, Control(h)
  PROVE  ControlType'
<1>1. CASE BeginControl(h)
  <2>1. PICK cmd \in ControlCmd : hcmd' = [hcmd EXCEPT ![h] = cmd]
    BY <1>1 DEF BeginControl
  <2>2. Transmit(h, "GetToken", 0) /\ hpc' = [hpc EXCEPT ![h] = "opening"]
        /\ answered' = answered
    BY <1>1 DEF BeginControl
  <2>3. /\ pktIdx' \in 0 .. MaxIdx
        /\ reqs \subseteq reqs'
        /\ \A p \in reqs' : p.cmd \in ControlCmd \cup {"GetToken"}
        /\ hbuf' \in [Handler -> reqs' \cup {NoPacket}]
        /\ \A g \in Handler \ {h} : hbuf'[g] = hbuf[g]
    BY <2>2, TransmitKeeps
  <2> QED
    BY <2>1, <2>2, <2>3 DEF ControlType
<1>2. CASE Opened(h) \/ WentOn(h)
  BY <1>2, SendCommandKeeps DEF Opened, WentOn
<1>3. CASE Done(h)
  BY <1>3 DEF Done, ControlType
<1>4. CASE TimedOut(h)
  BY <1>4 DEF TimedOut, ControlType
<1> QED
  BY <1>1, <1>2, <1>3, <1>4 DEF Control

LEMMA ControlKeeps ==
  ASSUME ControlInv, NEW h \in Handler, Control(h)
  PROVE  ControlInv'
<1> USE DEF ControlInv
<1>1. ControlType'
  BY ThreadKeepsType
<1>2. answers' = answers /\ recvQueue' = recvQueue /\ ran' = ran
  BY DEF Control, BeginControl, Opened, WentOn, SendCommand, Done, TimedOut, deviceVars
<1>3. AnswersRan'
  BY <1>2 DEF AnswersRan, Accountable
<1>4. AnsweredKindRan'
  <2>1. CASE Done(h)
    <3>1. hbuf[h].cmd \in ControlCmd /\ answered' = answered \cup {hbuf[h]}
      BY <2>1 DEF Done, ControlType
    <3>2. recvQueue.cmd = AckOf[hbuf[h].cmd] /\ recvQueue.token = hbuf[h].token
      BY <2>1, <3>1, AckNamesCommand DEF Done, Reads
    <3>3. \E q \in ran : q.cmd = hbuf[h].cmd /\ q.token = hbuf[h].token
      BY <3>1, <3>2 DEF AnswersRan, Accountable
    <3> QED
      BY <1>2, <3>1, <3>3 DEF AnsweredKindRan
  <2>2. CASE ~Done(h)
    <3>1. answered' = answered
      BY <2>2 DEF Control, BeginControl, Opened, WentOn, SendCommand, TimedOut
    <3> QED
      BY <1>2, <3>1 DEF AnsweredKindRan
  <2> QED
    BY <2>1, <2>2
<1> QED
  BY <1>1, <1>3, <1>4

\* The answer the relay keeps is one the device gave.
LEMMA ServeKeepsControl ==
  ASSUME ControlInv, Serve
  PROVE  ControlInv'
<1> USE DEF ControlInv
<1>1. UNCHANGED <<controlVars, deviceVars>>
  BY DEF Serve, RecvAnnounce, RecvOwn, RecvCheckOnline, RecvForward, Receive
<1>2. recvQueue' \in answers \cup {recvQueue, NoAnswer}
  BY DEF Serve, RecvAnnounce, RecvOwn, RecvCheckOnline, RecvForward
<1>3. ControlType' /\ AnsweredKindRan'
  BY <1>1 DEF controlVars, deviceVars, ControlType, AnsweredKindRan
<1>4. Accountable(NoAnswer, ran)
  BY AckNamesCommand DEF Accountable, NoAnswer
<1>5. AnswersRan'
  BY <1>1, <1>2, <1>4 DEF deviceVars, AnswersRan, Accountable
<1> QED
  BY <1>3, <1>5

\* The device answers a command only after it was carried out, under its token.
LEMMA DeviceKeepsControl ==
  ASSUME ControlInv, (\E p \in reqs : DeviceAnswers(p)) \/ DeviceRefreshed
  PROVE  ControlInv'
<1> USE DEF ControlInv
<1>1. UNCHANGED <<controlVars, recvQueue>> /\ ran \subseteq ran'
  BY DEF DeviceAnswers, DeviceRefreshed
<1>2. ControlType'
  BY <1>1 DEF controlVars, ControlType
<1>3. AnsweredKindRan'
  BY <1>1 DEF controlVars, AnsweredKindRan
<1>4. \A a : Accountable(a, ran) => Accountable(a, ran')
  BY <1>1 DEF Accountable
<1>5. CASE \E p \in reqs : DeviceAnswers(p)
  <2>1. PICK p \in reqs : DeviceAnswers(p)
    BY <1>5
  <2> DEFINE a == [cmd |-> AckOf[p.cmd], token |-> devToken, arg |-> devToken]
  <2>2. answers' = answers \cup {a} /\ p.cmd \in ControlCmd \cup {"GetToken"}
    BY <2>1 DEF DeviceAnswers, ControlType
  <2>3. ASSUME NEW cmd \in ControlCmd, a.cmd = AckOf[cmd]
        PROVE  \E q \in ran' : q.cmd = cmd /\ q.token = a.token
    <3>1. p.cmd = cmd /\ p.cmd # "GetToken"
      BY <2>2, <2>3, AckNamesCommand
    <3>2. p.token = a.token /\ p \in ran'
      BY <2>1, <3>1 DEF DeviceAnswers
    <3> QED
      BY <3>1, <3>2
  <2>4. Accountable(a, ran')
    BY <2>3 DEF Accountable
  <2> HIDE DEF a
  <2>5. AnswersRan'
    BY <1>1, <1>4, <2>2, <2>4 DEF AnswersRan
  <2> QED
    BY <1>2, <1>3, <2>5
<1>6. CASE DeviceRefreshed
  <2>1. AnswersRan'
    BY <1>1, <1>4, <1>6 DEF DeviceRefreshed, AnswersRan
  <2> QED
    BY <1>2, <1>3, <2>1
<1> QED
  BY <1>5, <1>6

LEMMA StepKeepsControl ==
  ASSUME ControlInv, [Next]_vars
  PROVE  ControlInv'
<1>1. CASE Tick \/ UNCHANGED vars
  <2>1. UNCHANGED <<controlVars, deviceVars, recvQueue>>
    BY <1>1 DEF Tick, vars
  <2> QED
    BY <2>1 DEF controlVars, deviceVars, ControlInv, ControlType, AnswersRan, Accountable,
                AnsweredKindRan
<1>2. CASE Serve
  BY <1>2, ServeKeepsControl
<1>3. CASE \E h \in Handler : Control(h)
  BY <1>3, ControlKeeps
<1>4. CASE (\E p \in reqs : DeviceAnswers(p)) \/ DeviceRefreshed
  BY <1>4, DeviceKeepsControl
<1> QED
  BY <1>1, <1>2, <1>3, <1>4 DEF Next

\* s_cmd_send has the value its caller waits for only if the device carried out a
\* command of that kind under the token of that very control, whatever answers of
\* other threads and other times lie in recv_queue.
THEOREM AnsweredWasRun == RelaySpec => []AnsweredKindRan
<1>1. ControlInv => AnsweredKindRan
  BY DEF ControlInv
<1> QED
  BY <1>1, ControlStarts, StepKeepsControl, PTL DEF RelaySpec

-----------------------------------------------------------------------------
(* Type correctness.                                                       *)

\* Where the last packet of the relay went.
SentType == sent.to \in Addr \cup {NoAddr}

LEMMA StepKeepsSent ==
  ASSUME RelayInv, SentType, [Next]_vars
  PROVE  SentType'
<1>1. CASE sent' = Nothing \/ sent' = sent
  BY <1>1 DEF SentType, Nothing
<1>2. ASSUME NEW d \in Peer, NEW a \in Addr, NEW dst \in Peer, RecvCheckOnline(d, a, dst)
      PROVE  SentType'
  BY <1>2 DEF RecvCheckOnline, SentType
<1>3. ASSUME NEW d \in Peer, NEW a \in Addr, NEW dst \in Peer, RecvForward(d, a, dst),
             Found(users', dst)
      PROVE  SentType'
  <2>1. users' \in [User -> Entry]
    BY StepKeeps DEF RelayInv, TableInv, TableType
  <2>2. UserFind(users', dst).addr \in Addr \cup {NoAddr}
    BY <1>3, <2>1, FindIsFirst DEF Entry
  <2> QED
    BY <1>3, <2>2 DEF RecvForward, SentType
<1>4. CASE Serve
  <2>1. PICK d \in Peer, a \in Addr :
          \/ RecvAnnounce(d, a) \/ RecvOwn(d, a)
          \/ \E dst \in Peer \ {d} : RecvCheckOnline(d, a, dst) \/ RecvForward(d, a, dst)
    BY <1>4 DEF Serve
  <2>2. CASE RecvAnnounce(d, a) \/ RecvOwn(d, a)
    BY <1>1, <2>2 DEF RecvAnnounce, RecvOwn
  <2>3. CASE \E dst \in Peer \ {d} : RecvCheckOnline(d, a, dst)
    BY <1>2, <2>3
  <2>4. ASSUME NEW dst \in Peer \ {d}, RecvForward(d, a, dst)
        PROVE  SentType'
    BY <1>1, <1>3, <2>4 DEF RecvForward
  <2> QED
    BY <2>1, <2>2, <2>3, <2>4
<1>5. CASE Tick
  BY <1>1, <1>5 DEF Tick
<1>6. CASE \E h \in Handler : Control(h)
  BY <1>1, <1>6 DEF Control, BeginControl, Opened, WentOn, SendCommand, Done, TimedOut,
                    tableVars
<1>7. CASE (\E p \in reqs : DeviceAnswers(p)) \/ DeviceRefreshed \/ UNCHANGED vars
  BY <1>1, <1>7 DEF DeviceAnswers, DeviceRefreshed, vars, tableVars
<1> QED
  BY <1>4, <1>5, <1>6, <1>7 DEF Next

\* Every variable of the relay keeps its type: no index beyond the bound, no packet
\* sent where no user was, no answer reported that was not asked for.
THEOREM RelayTypeCorrect == RelaySpec => []RelayTypeOK
<1>1. Init => SentType
  BY DEF Init, SentType, Nothing
<1>2. RelayInv /\ ControlInv /\ SentType => RelayTypeOK
  BY DEF RelayInv, TableInv, TableType, Entry, ControlInv, ControlType, SentType, RelayTypeOK
<1> QED
  BY <1>1, <1>2, RelayStarts, StepKeeps, ControlStarts, StepKeepsControl, StepKeepsSent,
     PTL DEF RelaySpec
=============================================================================
