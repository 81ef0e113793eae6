------------------------ MODULE FileTransfer_proofs -------------------------
(***************************************************************************)
(* The file transfer, for files of any length and over any network.        *)
(***************************************************************************)
EXTENDS FileTransfer, UlinkSession_proofs, SequenceTheorems

-----------------------------------------------------------------------------
(* A transfer is a session.                                                *)

LEMMA StepIsSession ==
  ASSUME [FileTransferNext]_allVars
  PROVE  [Next]_vars
<1> USE FileAssumption
<1>1. CASE SendName \/ SendFile
  <2>1. \E cmd \in Cmd : Command(Sender, cmd)
    BY <1>1 DEF SendName, SendFile
  <2> QED
    BY <2>1 DEF Next, App
<1>2. CASE NotNamed \/ Retry
  <2>1. Timeout(Sender) \/ \E a \in out : Reject(Sender, a)
    BY <1>2 DEF NotNamed, Retry, Unanswered
  <2> QED
    BY <2>1 DEF Next, App
<1>3. CASE Finish
  <2>1. Timeout(Sender) \/ \E a \in out : Accept(Sender, a) \/ Reject(Sender, a)
    BY <1>3 DEF Finish, Unanswered, Answered
  <2> QED
    BY <2>1 DEF Next, App
<1>4. CASE \E a \in out : Named(a) \/ Advance(a) \/ Cancel(a) \/ SameAgain(a)
  <2>1. \E a \in out : Accept(Sender, a)
    BY <1>4 DEF Named, Advance, AdvanceAnyway, Cancel, SameAgain, Answered
  <2> QED
    BY <2>1 DEF Next, App
<1>5. CASE Session
  <2>1. Open(Sender) \/ Resend(Sender) \/ \E a \in out : Accept(Sender, a)
    BY <1>5 DEF Session
  <2> QED
    BY <2>1 DEF Next, App
<1>6. CASE Device /\ UNCHANGED <<appVars, fileVars>>
  BY <1>6 DEF Next
<1>7. CASE UNCHANGED allVars
  BY <1>7 DEF allVars
<1> QED
  BY <1>1, <1>2, <1>3, <1>4, <1>5, <1>6, <1>7 DEF FileTransferNext, Transfer

\* _file_int and _file_transmit only use the session: whatever is true of every use of
\* ulink.c is true of a transfer.
THEOREM TransferIsSession == FileTransferSpec => Spec
<1>1. FileTransferInit => Init
  BY DEF FileTransferInit
<1> QED
  BY <1>1, StepIsSession, PTL DEF FileTransferSpec, Spec

LEMMA SessionInvariants == FileTransferSpec => [](TypeOK /\ WaitOK /\ AckInv)
BY TransferIsSession, TypeAndWait, AckInvariant, PTL

-----------------------------------------------------------------------------
(* The sender.                                                             *)

End == [type |-> "END", index |-> (Len(Source) + 1) % Byte, block |-> NoArg]

\* What is sent goes with the place in the file, and whoever waits waits for that.
SenderInv ==
  /\ step \in {"name", "text", "end", "sent", "failed"}
  /\ filepos \in 0 .. Len(Source) + 1
  /\ step = "name" => filepos = 0
  /\ step = "text" => filepos \in 1 .. Len(Source) /\ psend = Block(filepos)
  /\ step = "end" => filepos = Len(Source) + 1 /\ psend = End
  /\ step = "sent" => filepos = Len(Source) + 1
  /\ step # "name" => phase[Sender] \in {"open", "waiting"}
  /\ step \in {"sent", "failed"} => phase[Sender] = "open"
  /\ phase[Sender] = "waiting" /\ step = "name" => sendbuf[Sender].cmd = "FileName"
  /\ phase[Sender] = "waiting" /\ step # "name" =>
       sendbuf[Sender].cmd = "FileTxt" /\ sendbuf[Sender].arg = psend

LEMMA SourceIs ==
  /\ Len(Source) \in Nat \ {0} /\ DOMAIN Source = 1 .. Len(Source)
  /\ Len(OldFile) \in Nat /\ DOMAIN OldFile = 1 .. Len(OldFile)
<1>1. \A f : f \in Seq({f[i] : i \in DOMAIN f}) => Len(f) \in Nat /\ DOMAIN f = 1 .. Len(f)
  BY LenProperties
<1>2. PICK S : Source \in Seq(S)
  BY FileAssumption
<1>3. Len(Source) # 0
  BY <1>2, FileAssumption, EmptySeq
<1> QED
  BY <1>1, <1>3, FileAssumption

\* The next block, or the end, of a file read up to a place.
LEMMA NextBlockIs ==
  ASSUME NextBlock, filepos \in 0 .. Len(Source)
  PROVE  /\ filepos' = filepos + 1
         /\ \/ step' = "text" /\ filepos' \in 1 .. Len(Source) /\ psend' = Block(filepos')
            \/ step' = "end" /\ filepos' = Len(Source) + 1 /\ psend' = End
<1>1. filepos' = filepos + 1 /\ filepos' \in 1 .. Len(Source) + 1
  BY SourceIs DEF NextBlock
<1>2. CASE filepos' <= Len(Source)
  BY <1>1, <1>2, SourceIs DEF NextBlock
<1>3. CASE ~(filepos' <= Len(Source))
  <2>1. filepos' = Len(Source) + 1
    BY <1>1, <1>3, SourceIs
  <2> QED
    BY <1>1, <1>3, <2>1 DEF NextBlock, End
<1> QED
  BY <1>2, <1>3

\* What is sent is a new request of the sender.
LEMMA Transmitted ==
  ASSUME TypeOK, NEW k, NEW t, NEW cmd, Transmit(Sender, k, t, cmd)
  PROVE  \E p : /\ reqs' = reqs \cup {p} /\ sendbuf'[Sender] = p
                /\ p.src = Sender /\ p.cmd = cmd /\ p.idx = pktIdx[Sender] + 1
                /\ pktIdx'[Sender] = pktIdx[Sender] + 1
<1> USE FileAssumption
<1>1. PICK from \in Route(Sender), arg \in Args(cmd) :
        LET p == NewRequest(Sender, k, t, cmd, arg, from) IN
        /\ pktIdx' = [pktIdx EXCEPT ![Sender] = p.idx]
        /\ sendbuf' = [sendbuf EXCEPT ![Sender] = p]
        /\ reqs' = reqs \cup {p}
  BY DEF Transmit
<1> DEFINE p == NewRequest(Sender, k, t, cmd, arg, from)
<1>2. p.src = Sender /\ p.cmd = cmd /\ p.idx = pktIdx[Sender] + 1
  BY DEF NewRequest
<1>3. Sender \in DOMAIN pktIdx /\ Sender \in DOMAIN sendbuf
  BY DEF TypeOK
<1> HIDE DEF p
<1>4. /\ pktIdx' = [pktIdx EXCEPT ![Sender] = p.idx]
      /\ sendbuf' = [sendbuf EXCEPT ![Sender] = p]
      /\ reqs' = reqs \cup {p}
  BY <1>1 DEF p
<1> QED
  BY <1>2, <1>3, <1>4

\* Each step of the transfer, by what it does to the session.
LEMMA SenderKeeps ==
  ASSUME TypeOK, WaitOK, SenderInv, [FileTransferNext]_allVars
  PROVE  SenderInv'
<1> USE FileAssumption, SourceIs
<1>a. phase \in [Client -> {"closed", "opening", "open", "waiting"}]
  BY DEF TypeOK
<1>b. AckOf["FileName"] # "None" /\ AckOf["FileTxt"] # "None"
  BY DEF AckOf
<1>1. CASE SendName
  <2>1. /\ step = "name" /\ UNCHANGED fileVars /\ phase'[Sender] = "waiting"
        /\ \E k, t : Transmit(Sender, k, t, "FileName")
    BY <1>1, <1>a, <1>b DEF SendName, Command
  <2>2. sendbuf'[Sender].cmd = "FileName"
    BY <2>1, Transmitted
  <2> QED
    BY <2>1, <2>2 DEF SenderInv, fileVars
<1>2. CASE SendFile
  <2>1. /\ step \in {"text", "end"} /\ UNCHANGED fileVars /\ phase'[Sender] = "waiting"
        /\ sendbuf'[Sender].arg = psend
        /\ \E k, t : Transmit(Sender, k, t, "FileTxt")
    BY <1>2, <1>a, <1>b DEF SendFile, Command
  <2>2. sendbuf'[Sender].cmd = "FileTxt"
    BY <2>1, Transmitted
  <2> QED
    BY <2>1, <2>2 DEF SenderInv, fileVars
<1>3. ASSUME Unanswered \/ \E a \in out : Answered(a)
      PROVE  phase'[Sender] = "open"
  BY <1>3, <1>a DEF Unanswered, Answered, Accept, Reject, Timeout, GiveUp
<1>4. CASE NotNamed
  BY <1>3, <1>4 DEF NotNamed, SenderInv
<1>5. CASE Retry
  BY <1>3, <1>5 DEF Retry, SenderInv, fileVars
<1>6. CASE Finish
  BY <1>3, <1>6 DEF Finish, SenderInv
<1>7. ASSUME NEW a \in out, Named(a) \/ Advance(a) PROVE SenderInv'
  <2>1. NextBlock /\ phase'[Sender] = "open" /\ filepos \in 0 .. Len(Source)
    BY <1>3, <1>7 DEF Named, Advance, AdvanceAnyway, SenderInv
  <2>2. /\ filepos' = filepos + 1
        /\ \/ step' = "text" /\ filepos' \in 1 .. Len(Source) /\ psend' = Block(filepos')
           \/ step' = "end" /\ filepos' = Len(Source) + 1 /\ psend' = End
    BY <2>1, NextBlockIs
  <2>3. End' = End /\ filepos' \in 0 .. Len(Source) + 1 /\ Block(filepos)' = Block(filepos')
    BY <2>2 DEF End, Block
  <2> QED
    BY <2>1, <2>2, <2>3 DEF SenderInv
<1>8. ASSUME NEW a \in out, Cancel(a) \/ SameAgain(a) PROVE SenderInv'
  BY <1>3, <1>8 DEF Cancel, SameAgain, SenderInv, fileVars
<1>9. CASE Session
  <2>1. UNCHANGED fileVars
    BY <1>9 DEF Session
  <2>2. CASE Open(Sender)
    <3>1. phase[Sender] = "closed" /\ phase'[Sender] = "opening"
      BY <1>a, <2>2 DEF Open
    <3> QED
      BY <2>1, <3>1 DEF SenderInv, fileVars
  <2>3. CASE Resend(Sender)
    BY <2>1, <2>3 DEF Resend, SenderInv, fileVars
  <2>4. CASE phase[Sender] = "opening" /\ \E a \in out : Accept(Sender, a)
    <3>1. phase'[Sender] = "open"
      BY <1>a, <2>4 DEF Accept
    <3> QED
      BY <2>1, <2>4, <3>1 DEF SenderInv, fileVars
  <2> QED
    BY <1>9, <2>2, <2>3, <2>4 DEF Session
<1>10. CASE UNCHANGED <<appVars, fileVars>>
  BY <1>10 DEF appVars, fileVars, SenderInv
<1> QED
  BY <1>1, <1>2, <1>4, <1>5, <1>6, <1>7, <1>8, <1>9, <1>10
     DEF FileTransferNext, Transfer, allVars, vars

-----------------------------------------------------------------------------
(* The requests.                                                           *)

\* The blocks read.
Read == {i \in 1 .. Len(Source) : i <= filepos}

\* Every request is the sender's; one with text carries a block that was read, in its
\* place, or the end; and an index is of one request only.
RequestsInv ==
  /\ \A p \in reqs :
       /\ p.src = Sender /\ p.idx \in Nat /\ p.idx <= pktIdx[Sender] /\ p.cmd \notin PlainCmd
       /\ p.cmd = "FileTxt" =>
            filepos > 0 /\ (p.arg = End \/ \E i \in Read : p.arg = Block(i))
  /\ \A p, q \in reqs : p.idx = q.idx => p.cmd = q.cmd /\ p.arg = q.arg

\* A new request, as long as what it carries was read.
LEMMA NewRequestKeeps ==
  ASSUME TypeOK, RequestsInv, NEW k, NEW t, NEW cmd, Transmit(Sender, k, t, cmd),
         UNCHANGED filepos, cmd \notin PlainCmd,
         cmd = "FileTxt" =>
           /\ filepos > 0
           /\ sendbuf'[Sender].arg = End \/ \E i \in Read : sendbuf'[Sender].arg = Block(i)
  PROVE  RequestsInv'
<1>1. PICK p : /\ reqs' = reqs \cup {p} /\ sendbuf'[Sender] = p
               /\ p.src = Sender /\ p.cmd = cmd /\ p.idx = pktIdx[Sender] + 1
               /\ pktIdx'[Sender] = pktIdx[Sender] + 1
  BY Transmitted
<1>2. pktIdx[Sender] \in Nat
  BY FileAssumption DEF TypeOK
<1>3. Read' = Read /\ End' = End /\ \A i : Block(i)' = Block(i)
  BY DEF Read, End, Block
<1>4. ASSUME NEW q \in reqs'
      PROVE  /\ q.src = Sender /\ q.idx \in Nat /\ q.idx <= pktIdx'[Sender]
             /\ q.cmd \notin PlainCmd
             /\ q.cmd = "FileTxt" =>
                  filepos > 0 /\ (q.arg = End \/ \E i \in Read : q.arg = Block(i))
  <2>1. CASE q \in reqs
    BY <1>1, <1>2, <2>1 DEF RequestsInv
  <2>2. CASE q = p
    BY <1>1, <1>2, <2>2
  <2> QED
    BY <1>1, <2>1, <2>2
<1>5. \A q \in reqs : q.idx # p.idx
  BY <1>1, <1>2 DEF RequestsInv
<1>6. \A q, r \in reqs' : q.idx = r.idx => q.cmd = r.cmd /\ q.arg = r.arg
  BY <1>1, <1>5 DEF RequestsInv
<1> QED
  BY <1>3, <1>4, <1>6 DEF RequestsInv

LEMMA RequestsKeep ==
  ASSUME TypeOK, WaitOK, SenderInv, RequestsInv, [FileTransferNext]_allVars
  PROVE  RequestsInv'
<1> USE FileAssumption, SourceIs
<1>1. CASE SendName
  <2>1. UNCHANGED filepos /\ \E k, t : Transmit(Sender, k, t, "FileName")
    BY <1>1 DEF SendName, Command, fileVars
  <2> QED
    BY <2>1, NewRequestKeeps DEF PlainCmd
<1>2. CASE SendFile
  <2>1. /\ UNCHANGED filepos /\ \E k, t : Transmit(Sender, k, t, "FileTxt")
        /\ step \in {"text", "end"} /\ sendbuf'[Sender].arg = psend
    BY <1>2 DEF SendFile, Command, fileVars
  <2>2. filepos > 0 /\ (psend = End \/ \E i \in Read : psend = Block(i))
    BY <2>1 DEF SenderInv, Read
  <2> QED
    BY <2>1, <2>2, NewRequestKeeps DEF PlainCmd
<1>3. CASE Open(Sender) /\ UNCHANGED fileVars
  <2>1. UNCHANGED filepos /\ \E k, t : Transmit(Sender, k, t, "UpdateToken")
    BY <1>3 DEF Open, fileVars
  <2> QED
    BY <2>1, NewRequestKeeps DEF PlainCmd
<1>4. CASE Resend(Sender) /\ UNCHANGED fileVars
  <2>1. PICK from \in Route(Sender) :
          reqs' = reqs \cup {[sendbuf[Sender] EXCEPT !.from = from]}
    BY <1>4 DEF Resend
  <2> DEFINE p == [sendbuf[Sender] EXCEPT !.from = from]
  <2>2. sendbuf[Sender] \in reqs
    BY <1>4 DEF Resend, WaitOK
  <2>3. /\ p.src = sendbuf[Sender].src /\ p.idx = sendbuf[Sender].idx
        /\ p.cmd = sendbuf[Sender].cmd /\ p.arg = sendbuf[Sender].arg
    BY <2>2 DEF TypeOK, IsRequest
  <2> HIDE DEF p
  <2>4. reqs' = reqs \cup {p} /\ UNCHANGED <<filepos, pktIdx>>
    BY <1>4, <2>1 DEF p, Resend, fileVars
  <2>5. Read' = Read /\ End' = End /\ \A i : Block(i)' = Block(i)
    BY <2>4 DEF Read, End, Block
  <2>6. \A q \in reqs' : \E r \in reqs : /\ q.src = r.src /\ q.idx = r.idx
                                         /\ q.cmd = r.cmd /\ q.arg = r.arg
    BY <2>2, <2>3, <2>4
  <2> QED
    BY <2>4, <2>5, <2>6 DEF RequestsInv
<1>5. ASSUME UNCHANGED <<reqs, pktIdx>>, filepos' \in {filepos, filepos + 1}
      PROVE  RequestsInv'
  <2>1. Read \subseteq Read' /\ End' = End /\ (\A i : Block(i)' = Block(i))
        /\ (filepos > 0 => filepos' > 0)
    BY <1>5 DEF Read, End, Block, SenderInv
  <2> QED
    BY <1>5, <2>1 DEF RequestsInv
<1>6. CASE NotNamed \/ Retry \/ Finish
  <2>1. UNCHANGED <<reqs, pktIdx>>
    BY <1>6 DEF NotNamed, Retry, Finish, Unanswered, Answered, Accept, Reject, Timeout, GiveUp
  <2> QED
    BY <1>5, <1>6, <2>1 DEF NotNamed, Retry, Finish, fileVars
<1>7. ASSUME NEW a \in out, Named(a) \/ Advance(a) \/ Cancel(a) \/ SameAgain(a)
      PROVE RequestsInv'
  <2>1. UNCHANGED <<reqs, pktIdx>>
    BY <1>7 DEF Named, Advance, AdvanceAnyway, Cancel, SameAgain, Answered, Accept
  <2> QED
    BY <1>5, <1>7, <2>1 DEF Named, Advance, AdvanceAnyway, NextBlock, Cancel, SameAgain, fileVars
<1>8. CASE UNCHANGED fileVars /\ \E a \in out : Accept(Sender, a)
  BY <1>5, <1>8 DEF fileVars, Accept
<1>9. CASE UNCHANGED <<appVars, fileVars>>
  BY <1>5, <1>9 DEF appVars, fileVars
<1> QED
  BY <1>1, <1>2, <1>3, <1>4, <1>6, <1>7, <1>8, <1>9
     DEF FileTransferNext, Transfer, Session, allVars, vars

-----------------------------------------------------------------------------
(* The file of the device.                                                 *)

Content == {Source[i] : i \in DOMAIN Source} \cup {OldFile[i] : i \in DOMAIN OldFile}

\* _file_write writes where it is, and it is where g_index says.
FileInv ==
  /\ file.data \in Seq(Content)
  /\ file.pos <= Len(file.data)
  /\ file.fd = "open" => file.pos + 1 = file.index

LEMMA WidenSeq ==
  ASSUME NEW S, NEW T, S \subseteq T, NEW s \in Seq(S)
  PROVE  s \in Seq(T)
BY SeqDef

LEMMA FilesAreContent == Source \in Seq(Content) /\ OldFile \in Seq(Content)
BY FileAssumption, WidenSeq DEF Content

\* The blocks w are the blocks d with b after the first pos: written over what is there,
\* or appended; the others stay.
IsWritten(w, S, d, pos, b) ==
  /\ w \in Seq(S) /\ pos + 1 <= Len(w) /\ Len(d) <= Len(w) /\ w[pos + 1] = b
  /\ \A i \in 1 .. Len(w) : i # pos + 1 => i <= Len(d) /\ w[i] = d[i]

LEMMA WrittenIs ==
  ASSUME NEW S, NEW d \in Seq(S), NEW pos \in Nat, pos <= Len(d), NEW b \in S
  PROVE  IsWritten(Written(d, pos, b), S, d, pos, b)
<1> USE DEF IsWritten
<1>1. CASE pos < Len(d)
  <2>1. Written(d, pos, b) = [d EXCEPT ![pos + 1] = b]
    BY <1>1 DEF Written
  <2>2. pos + 1 \in 1 .. Len(d)
    BY <1>1, LenProperties
  <2> QED
    BY <2>1, <2>2, ExceptSeq
<1>2. CASE ~(pos < Len(d))
  <2>1. Written(d, pos, b) = Append(d, b)
    BY <1>2 DEF Written
  <2>2. pos = Len(d)
    BY <1>2, LenProperties
  <2>3. Append(d, b) \in Seq(S) /\ Len(Append(d, b)) = Len(d) + 1
    BY AppendProperties
  <2>4. Append(d, b)[Len(d) + 1] = b /\ \A i \in 1 .. Len(d) : Append(d, b)[i] = d[i]
    BY AppendProperties
  <2> QED
    BY <2>1, <2>2, <2>3, <2>4
<1> QED
  BY <1>1, <1>2

\* The four ways _file_write leaves the file, and which of them it acknowledges.
LEMMA WriteIs ==
  ASSUME NEW f, IsFile(f), NEW a, NEW r \in FileWrite(f, a)
  PROVE  \/ r.file = f /\ r.ans.type # "ACK"
         \/ /\ r.file = StoreOK(f, a.block) /\ r.ans.type = "ACK"
            /\ a.type = "TXT" /\ a.index = f.index /\ f.fd # "closed"
         \/ r.file = [f EXCEPT !.fd = "closed"] /\ r.ans.type # "ACK"
         \/ r.file = [f EXCEPT !.index = 0, !.fd = "closed"] /\ a.type = "END"
<1>1. \A type, n : Answer(type, n).type = type
  BY DEF Answer, Value
<1>2. \/ FileWrite(f, a) = {[file |-> f, ans |-> Answer("CAN", 0)]}
      \/ a.type = "TXT" /\ FileWrite(f, a) = StoreNext(f, a)
      \/ /\ a.type = "END"
         /\ FileWrite(f, a) = {[file |-> [f EXCEPT !.index = 0, !.fd = "closed"],
                                ans  |-> Answer("ACK", 0)]}
      \/ FileWrite(f, a) = {[file |-> f, ans |-> Answer("NONE", 0)]}
  <2> DEFINE short == {[file |-> f, ans |-> Answer("CAN", 0)]}
             end   == {[file |-> [f EXCEPT !.index = 0, !.fd = "closed"],
                        ans  |-> Answer("ACK", 0)]}
             other == {[file |-> f, ans |-> Answer("NONE", 0)]}
             next  == StoreNext(f, a)
  <2>1. FileWrite(f, a) = CASE a = NoArg      -> short
                            [] a.type = "TXT" -> next
                            [] a.type = "END" -> end
                            [] OTHER          -> other
    BY DEF FileWrite
  <2> HIDE DEF short, end, other, next
  <2>2. \/ FileWrite(f, a) = short
        \/ a.type = "TXT" /\ FileWrite(f, a) = next
        \/ a.type = "END" /\ FileWrite(f, a) = end
        \/ FileWrite(f, a) = other
    BY <2>1
  <2> QED
    BY <2>2 DEF short, end, other, next
<1>3. CASE a.type = "TXT" /\ r \in StoreNext(f, a)
  <2>1. r \in StoreNext(f, a)
    BY <1>3
  <2>2. CASE a.index # f.index
    BY <1>1, <2>1, <2>2 DEF StoreNext
  <2>3. CASE a.index = f.index
    <3>1. PICK ok \in WriteResults(f) :
            r = IF ok THEN [file |-> StoreOK(f, a.block), ans |-> Answer("ACK", f.index + 1)]
                ELSE [file |-> [f EXCEPT !.fd = "closed"], ans |-> Answer("CAN", 0)]
      BY <2>1, <2>3 DEF StoreNext
    <3>2. CASE ok
      <4>1. f.fd # "closed"
        BY <3>1, <3>2 DEF WriteResults
      <4> QED
        BY <1>1, <1>3, <2>3, <3>1, <3>2, <4>1
    <3>3. CASE ~ok
      BY <1>1, <3>1, <3>3
    <3> QED
      BY <3>2, <3>3
  <2> QED
    BY <2>2, <2>3
<1>4. CASE \/ r = [file |-> f, ans |-> Answer("CAN", 0)]
           \/ r = [file |-> f, ans |-> Answer("NONE", 0)]
  BY <1>1, <1>4
<1>5. CASE /\ a.type = "END"
           /\ r = [file |-> [f EXCEPT !.index = 0, !.fd = "closed"], ans |-> Answer("ACK", 0)]
  BY <1>5
<1> QED
  BY <1>2, <1>3, <1>4, <1>5

\* Only a name, a text and a restart touch the file.
LEMMA FileSteps ==
  ASSUME NEW p, Recv(p), ~NameFile(p), ~WriteFile(p)
  PROVE  file' = file
BY DEF Recv, RecvPlain, RecvGetToken, RecvUpdateToken, RecvBadToken, RecvRepeated,
       Execute, Subscribe, Unsubscribe, StatusAcked, Hardware, Ignored, SetKey, ConfigHost

LEMMA OtherFileSteps ==
  ASSUME InstallToken \/ MainLoop
  PROVE  file' = file
BY DEF InstallToken, MainLoop, Start, NewStatus, StartRetransmit, SendSlot, SkipSlot,
       CountSlot, EndLoop, Heartbeat

LEMMA WriteKeepsFile ==
  ASSUME IsFile(file), FileInv, RequestsInv, NEW p \in reqs, WriteFile(p)
  PROVE  FileInv'
<1>1. PICK r \in FileWrite(file, p.arg) : file' = r.file
  BY DEF WriteFile
<1>2. file.pos \in Nat /\ file.index \in Nat
  BY DEF IsFile
<1>3. CASE file' = file
  BY <1>3 DEF FileInv
<1>4. CASE \/ file' = [file EXCEPT !.fd = "closed"]
           \/ file' = [file EXCEPT !.index = 0, !.fd = "closed"]
  <2>1. file'.data = file.data /\ file'.pos = file.pos /\ file'.fd = "closed"
    BY <1>4 DEF IsFile
  <2> QED
    BY <2>1 DEF FileInv, Content
<1>5. CASE file' = StoreOK(file, p.arg.block) /\ p.arg.type = "TXT"
  <2>1. p.cmd = "FileTxt"
    BY DEF WriteFile
  <2>2. PICK i \in Read : p.arg = Block(i)
    BY <1>5, <2>1 DEF RequestsInv, End
  <2>3. p.arg.block \in Content
    BY <2>2, SourceIs DEF Block, Read, Content
  <2>4. CASE file.fd = "open"
    <3>1. /\ file'.data = Written(file.data, file.pos, p.arg.block) /\ file'.pos = file.pos + 1
          /\ file'.index = file.index + 1
      BY <1>5, <2>4 DEF StoreOK
    <3>2. file'.data \in Seq(Content) /\ file'.pos <= Len(file'.data)
      <4>1. IsWritten(file'.data, Content, file.data, file.pos, p.arg.block)
        BY <1>2, <2>3, <3>1, WrittenIs DEF FileInv
      <4> QED
        BY <3>1, <4>1 DEF IsWritten
    <3> QED
      BY <1>2, <2>4, <3>1, <3>2 DEF FileInv, Content
  <2>5. CASE file.fd # "open"
    <3>1. file'.data = file.data /\ file'.pos = file.pos /\ file'.fd = file.fd
      BY <1>5, <2>5 DEF StoreOK
    <3> QED
      BY <2>5, <3>1 DEF FileInv, Content
  <2> QED
    BY <2>4, <2>5
<1> QED
  BY <1>1, <1>3, <1>4, <1>5, WriteIs

LEMMA FileKeeps ==
  ASSUME TypeOK, FileInv, RequestsInv, [FileTransferNext]_allVars
  PROVE  FileInv'
<1>a. IsFile(file)
  BY DEF TypeOK, DevTypeOK
<1>1. CASE file' = file
  BY <1>1 DEF FileInv, Content
<1>2. ASSUME NEW p \in reqs, Recv(p) PROVE FileInv'
  <2>1. CASE NameFile(p)
    <3>1. \/ file' = [file EXCEPT !.index = 1, !.fd = "open", !.pos = 0]
          \/ file' = [file EXCEPT !.index = 1, !.fd = "closed"]
      BY <2>1 DEF NameFile, FileInit
    <3>2. /\ file'.data = file.data
          /\ \/ file'.pos = 0 /\ file'.index = 1
             \/ file'.pos = file.pos /\ file'.fd = "closed"
      BY <1>a, <3>1 DEF IsFile
    <3>3. Len(file.data) \in Nat
      BY LenProperties DEF FileInv
    <3> QED
      BY <3>2, <3>3 DEF FileInv, Content
  <2>2. CASE WriteFile(p)
    BY <1>a, <2>2, WriteKeepsFile
  <2> QED
    BY <1>1, <1>2, <2>1, <2>2, FileSteps
<1>3. CASE Reboot
  <2>1. file' = FileBoot(file.data)
    BY <1>3 DEF Reboot
  <2>2. file'.data = file.data /\ file'.pos = 0 /\ file'.fd = "stdin"
    BY <2>1 DEF FileBoot
  <2>3. Len(file.data) \in Nat
    BY LenProperties DEF FileInv
  <2> QED
    BY <2>2, <2>3 DEF FileInv, Content
<1>4. CASE UNCHANGED devVars
  BY <1>1, <1>4 DEF devVars
<1>5. Device \/ UNCHANGED devVars
  BY DEF FileTransferNext, Transfer, Session, SendName, SendFile, NotNamed, Retry, Finish,
         Named, Advance, AdvanceAnyway, Cancel, SameAgain, Unanswered, Answered, Command,
         Open, Resend, Accept, Reject, Timeout, GiveUp, allVars, vars
<1> QED
  BY <1>1, <1>2, <1>3, <1>4, <1>5, OtherFileSteps DEF Device

\* The invariants of a transfer over any network, with any restarts of the device.
TransferInv == SenderInv /\ RequestsInv /\ FileInv

LEMMA TransferInvariant ==
  FileTransferSpec => [](TypeOK /\ WaitOK /\ AckInv /\ TransferInv)
<1>1. FileTransferInit => TransferInv
  <2> SUFFICES ASSUME FileTransferInit PROVE TransferInv
    OBVIOUS
  <2>1. SenderInv
    BY FileAssumption, SourceIs DEF FileTransferInit, Init, SenderInv
  <2>2. RequestsInv
    BY DEF FileTransferInit, Init, RequestsInv
  <2>3. FileInv
    BY FilesAreContent, SourceIs DEF FileTransferInit, Init, DevInit, FileBoot, FileInv
  <2> QED
    BY <2>1, <2>2, <2>3 DEF TransferInv
<1>2. TypeOK /\ WaitOK /\ TransferInv /\ [FileTransferNext]_allVars => TransferInv'
  BY SenderKeeps, RequestsKeep, FileKeeps DEF TransferInv
<1> QED
  BY <1>1, <1>2, SessionInvariants, PTL DEF FileTransferSpec

\* The sender is never past the end of the file, nor the device behind the end of its
\* own.
THEOREM FileTypeCorrect == FileTransferSpec => []FileTypeOK
<1>1. TransferInv => FileTypeOK
  BY SourceIs DEF TransferInv, SenderInv, FileInv, FileTypeOK
<1> QED
  BY <1>1, TransferInvariant, PTL

-----------------------------------------------------------------------------
(* What is acknowledged is stored.                                         *)

\* The device never goes back to its terminal in the middle of a file, or its terminal
\* takes no block: then no index of the file is 0.
Steady == MaxBoot = 0 \/ Len(Source) < Byte

\* The answer q, if it tells that the file is open or that a block is stored, tells the
\* truth of every request it can be an answer to.
Told(q) ==
  /\ q.cmd = "FileNameAck" => file.fd # "stdin" \/ Len(Source) < Byte
  /\ q.cmd = "FileTxtAck" /\ q.dst = Sender /\ q.arg.type = "ACK" =>
       \A p \in reqs : p.idx = q.idx =>
         \A i \in 1 .. Len(Source) : i <= Byte /\ p.arg = Block(i) => Stored(i) /\ i # Byte

\* No block is sent whose index has wrapped to that of another one: the one with
\* index 0 is never acknowledged, for an open file is never at index 0.
StoredInv ==
  /\ filepos <= Byte
  /\ file.fd = "stdin" => file.index = 0 /\ (filepos > 0 => Len(Source) < Byte)
  /\ \A q \in out : Told(q)
  /\ Told(lastSend)
  /\ AckedIsStored
  /\ BlocksInPlace

LEMMA Wrap ==
  ASSUME NEW n \in Nat \ {0}, NEW i \in 1 .. n
  PROVE  /\ i # n => i % n = i
         /\ i = n => i % n = 0
OBVIOUS

LEMMA AnswerNames ==
  ASSUME NEW cmd \in DataCmd
  PROVE  /\ AckOf[cmd] = "FileNameAck" <=> cmd = "FileName"
         /\ AckOf[cmd] = "FileTxtAck" <=> cmd = "FileTxt"
BY DataCmdIs DEF AckOf

\* The blocks a request of the sender that is stored can be: the one at g_index.
LEMMA StoredIsNext ==
  ASSUME IsFile(file), TransferInv, StoredInv, NEW p \in reqs,
         p.cmd = "FileTxt", p.arg.type = "TXT", p.arg.index = file.index,
         file.fd # "closed"
  PROVE  /\ file.fd = "open"
         /\ file.index \in 1 .. Len(Source) /\ file.index < Byte
         /\ p.arg.block = Source[file.index] /\ file.pos + 1 = file.index
         /\ \A i \in 1 .. Len(Source) : i <= Byte /\ p.arg = Block(i) => i = file.index
<1> USE SourceIs, IdAssumption DEF TransferInv
<1>1. PICK i \in Read : p.arg = Block(i)
  BY DEF RequestsInv, End
<1>2. filepos > 0
  BY DEF RequestsInv
<1>3. ASSUME NEW j \in 1 .. Len(Source), j <= Byte, p.arg = Block(j)
      PROVE  /\ j # Byte => j = file.index
             /\ j = Byte => file.index = 0
  <2>1. j \in 1 .. Byte /\ Byte \in Nat \ {0}
    BY <1>3
  <2>2. p.arg.index = j % Byte
    BY <1>3 DEF Block
  <2> QED
    BY <2>1, <2>2, Wrap
<1>4. i \in 1 .. Len(Source) /\ i <= Byte /\ p.arg.block = Source[i]
  <2>1. i \in 1 .. Len(Source) /\ i <= filepos /\ p.arg.block = Source[i]
    BY <1>1 DEF Read, Block
  <2>2. filepos \in Nat
    BY DEF SenderInv
  <2> QED
    BY <2>1, <2>2 DEF StoredInv
<1>5. file.fd = "open"
  <2>1. SUFFICES ASSUME file.fd = "stdin" PROVE FALSE
    BY DEF IsFile
  <2>2. file.index = 0 /\ Len(Source) < Byte
    BY <1>2, <2>1 DEF StoredInv
  <2> QED
    BY <1>1, <1>3, <1>4, <2>2
<1>6. file.pos + 1 = file.index /\ file.index \in Nat \ {0}
  BY <1>5 DEF FileInv, IsFile
<1> QED
  BY <1>1, <1>3, <1>4, <1>5, <1>6

\* Who answers like this has opened the file, or written to it, or copies the buffer.
LEMMA RecvTells ==
  ASSUME DevTypeOK, NEW p, IsRequest(p), Recv(p),
         NEW q \in (out' \ out) \cup {lastSend'}, q.cmd \in {"FileNameAck", "FileTxtAck"}
  PROVE  \/ /\ q.cmd = lastSend.cmd /\ q.idx = lastSend.idx /\ q.arg = lastSend.arg
            /\ q.dst \in {lastSend.dst, Dev}
         \/ NameFile(p) /\ file'.fd = "open" /\ q.cmd = "FileNameAck"
         \/ /\ WriteFile(p) /\ q.cmd = "FileTxtAck" /\ q.idx = p.idx
            /\ \E r \in FileWrite(file, p.arg) : file' = r.file /\ q.arg = r.ans
<1> DEFINE Copy == /\ q.cmd = lastSend.cmd /\ q.idx = lastSend.idx /\ q.arg = lastSend.arg
                   /\ q.dst \in {lastSend.dst, Dev}
<1>a. \A cmd, k, t, arg : /\ Sealed(p, cmd, k, t, arg).cmd = cmd
                         /\ Sealed(p, cmd, k, t, arg).idx = p.idx
                         /\ Sealed(p, cmd, k, t, arg).arg = arg
  BY DEF Sealed
<1>b. \A arg : /\ Reply(p, arg).cmd = AckOf[p.cmd] /\ Reply(p, arg).idx = p.idx
              /\ Reply(p, arg).arg = arg
  BY <1>a DEF Reply
<1>c. p.cmd \in DataCmd =>
        /\ AckOf[p.cmd] = "FileNameAck" <=> p.cmd = "FileName"
        /\ AckOf[p.cmd] = "FileTxtAck" <=> p.cmd = "FileTxt"
  BY AnswerNames
<1>d. Silent => Copy
  BY DEF Silent, Marked, DevTypeOK, IsAnswer
<1>1. CASE RecvPlain(p)
  BY <1>1 DEF RecvPlain, Send, Plainly
<1>2. CASE RecvGetToken(p)
  BY <1>2, <1>b, <1>c, DataCmdIs DEF RecvGetToken, Send
<1>3. CASE RecvUpdateToken(p)
  BY <1>3, <1>a DEF RecvUpdateToken, Send
<1>4. CASE RecvBadToken(p)
  BY <1>4, <1>a DEF RecvBadToken, Send
<1>5. CASE RecvRepeated(p)
  <2> DEFINE r == [lastSend EXCEPT !.to = NoAddr]
  <2>1. /\ r.dst = lastSend.dst /\ r.idx = lastSend.idx /\ r.cmd = lastSend.cmd
        /\ r.arg = lastSend.arg
    BY DEF DevTypeOK, IsAnswer
  <2>2. out' = out \cup {r} /\ lastSend' = lastSend
    BY <1>5 DEF RecvRepeated
  <2> HIDE DEF r
  <2> QED
    BY <2>1, <2>2
<1>6. CASE Subscribe(p) \/ Unsubscribe(p) \/ Hardware(p)
  BY <1>6, <1>b, <1>c, DataCmdIs DEF Subscribe, Unsubscribe, Hardware, Send
<1>7. CASE StatusAcked(p) \/ Ignored(p)
  BY <1>7, <1>d DEF StatusAcked, Ignored
<1>8. CASE SetKey(p)
  BY <1>8, <1>a, <1>c, DataCmdIs DEF SetKey, Send
<1>9. CASE ConfigHost(p)
  <2>1. \A to : ToServer("GetHost", to).cmd = "GetHost"
    BY DEF ToServer
  <2> QED
    BY <1>9, <1>b, <1>c, <2>1, DataCmdIs DEF ConfigHost
<1>10. CASE NameFile(p)
  <2>1. CASE file'.fd = "open"
    BY <1>10, <1>b, <1>c, <2>1, DataCmdIs DEF NameFile, Send
  <2>2. CASE file'.fd # "open"
    BY <1>10, <1>d, <2>2 DEF NameFile
  <2> QED
    BY <2>1, <2>2
<1>11. CASE WriteFile(p)
  <2>1. PICK r \in FileWrite(file, p.arg) : file' = r.file /\ Send(Reply(p, r.ans))
    BY <1>11 DEF WriteFile
  <2>2. p.cmd = "FileTxt" /\ q = Reply(p, r.ans)
    BY <1>11, <2>1 DEF WriteFile, Send
  <2> QED
    BY <1>11, <1>b, <1>c, <2>1, <2>2, DataCmdIs
<1> QED
  BY <1>1, <1>2, <1>3, <1>4, <1>5, <1>6, <1>7, <1>8, <1>9, <1>10, <1>11 DEF Recv, Execute

\* What a text leaves in the file, and what its acknowledgement is worth.
LEMMA WriteStores ==
  ASSUME IsFile(file), TransferInv, StoredInv, NEW p \in reqs, WriteFile(p),
         NEW r \in FileWrite(file, p.arg), file' = r.file
  PROVE  /\ \A i \in 1 .. Len(Source) : Stored(i) => Stored(i)'
         /\ BlocksInPlace'
         /\ file'.fd = "stdin" => file' = file
         /\ r.ans.type = "ACK" =>
              \A i \in 1 .. Len(Source) :
                i <= Byte /\ p.arg = Block(i) => Stored(i)' /\ i # Byte
<1> USE SourceIs
<1>0. p.cmd = "FileTxt"
  BY DEF WriteFile
<1>1. CASE r.file = file /\ r.ans.type # "ACK"
  BY <1>1 DEF Stored, StoredInv, BlocksInPlace
<1>2. CASE /\ r.file = StoreOK(file, p.arg.block) /\ r.ans.type = "ACK"
           /\ p.arg.type = "TXT" /\ p.arg.index = file.index /\ file.fd # "closed"
  <2>0. PICK n : n = file.index
    OBVIOUS
  <2> DEFINE d == Written(file.data, file.pos, p.arg.block)
  <2>1. /\ file.fd = "open" /\ n \in 1 .. Len(Source) /\ n < Byte
        /\ p.arg.block = Source[n] /\ file.pos + 1 = n
        /\ \A i \in 1 .. Len(Source) : i <= Byte /\ p.arg = Block(i) => i = n
    BY <1>0, <1>2, <2>0, StoredIsNext
  <2>2. file'.data = d /\ file'.fd = "open"
    BY <1>2, <2>1 DEF StoreOK
  <2>3. /\ file.data \in Seq(Content) /\ file.pos \in Nat /\ file.pos <= Len(file.data)
        /\ Len(file.data) \in Nat /\ p.arg.block \in Content
    BY <2>1, LenProperties DEF TransferInv, FileInv, IsFile, Content
  <2>4. /\ d \in Seq(Content) /\ n <= Len(d) /\ Len(file.data) <= Len(d) /\ d[n] = Source[n]
        /\ \A i \in 1 .. Len(d) : i # n => i <= Len(file.data) /\ d[i] = file.data[i]
    <3>1. /\ d \in Seq(Content) /\ file.pos + 1 <= Len(d) /\ Len(file.data) <= Len(d)
          /\ d[file.pos + 1] = p.arg.block
          /\ \A i \in 1 .. Len(d) :
               i # file.pos + 1 => i <= Len(file.data) /\ d[i] = file.data[i]
      <4>1. IsWritten(d, Content, file.data, file.pos, p.arg.block)
        BY <2>3, WrittenIs
      <4> HIDE DEF d
      <4> QED
        BY <4>1 DEF IsWritten
    <3> HIDE DEF d
    <3> QED
      BY <2>1, <3>1
  <2>5. Len(d) \in Nat
    BY <2>4, LenProperties
  <2> HIDE DEF d
  <2>6. \A i \in 1 .. Len(Source) : Stored(i) => Stored(i)'
    BY <2>2, <2>3, <2>4, <2>5 DEF Stored
  <2>7. Stored(n)'
    BY <2>1, <2>2, <2>4 DEF Stored
  <2>8. BlocksInPlace'
    <3> SUFFICES ASSUME NEW i \in 1 .. Len(d)
                 PROVE  \/ i <= Len(Source) /\ d[i] = Source[i]
                        \/ i <= Len(OldFile) /\ d[i] = OldFile[i]
      BY <2>2 DEF BlocksInPlace
    <3>1. CASE i = n
      BY <2>1, <2>4, <3>1
    <3>2. CASE i # n
      <4>1. i \in 1 .. Len(file.data) /\ d[i] = file.data[i]
        BY <2>3, <2>4, <2>5, <3>2
      <4> QED
        BY <4>1 DEF StoredInv, BlocksInPlace
    <3> QED
      BY <3>1, <3>2
  <2>9. \A i \in 1 .. Len(Source) : i <= Byte /\ p.arg = Block(i) => Stored(i)' /\ i # Byte
    BY <2>1, <2>7, IdAssumption
  <2> QED
    BY <2>2, <2>6, <2>8, <2>9
<1>3. CASE \/ r.file = [file EXCEPT !.fd = "closed"] /\ r.ans.type # "ACK"
           \/ r.file = [file EXCEPT !.index = 0, !.fd = "closed"] /\ p.arg.type = "END"
  <2>1. file'.data = file.data /\ file'.fd = "closed"
    BY <1>3 DEF IsFile
  <2>2. p.arg.type = "END" => \A i : p.arg # Block(i)
    BY DEF Block
  <2>3. \A i \in 1 .. Len(Source) : Stored(i) => Stored(i)'
    BY <2>1 DEF Stored
  <2>4. BlocksInPlace'
    BY <2>1 DEF StoredInv, BlocksInPlace
  <2> QED
    BY <1>3, <2>1, <2>2, <2>3, <2>4
<1> QED
  BY <1>1, <1>2, <1>3, WriteIs

\* What was told stays true while no block is lost and no request is added.
LEMMA ToldStays ==
  ASSUME NEW q, Told(q), UNCHANGED reqs,
         \A i \in 1 .. Len(Source) : Stored(i) => Stored(i)',
         file'.fd = "stdin" => file.fd = "stdin" \/ Len(Source) < Byte
  PROVE  Told(q)'
BY DEF Told, Block

LEMMA SameTold ==
  ASSUME UNCHANGED <<file, out, lastSend, reqs>>, \A q \in out : Told(q), Told(lastSend)
  PROVE  (\A q \in out' : Told(q)') /\ Told(lastSend)'
<1>1. \A i \in 1 .. Len(Source) : Stored(i) => Stored(i)'
  BY DEF Stored
<1>2. \A q : Told(q) => Told(q)'
  BY <1>1, ToldStays
<1>3. Told(lastSend') => Told(lastSend)'
  BY <1>2 DEF Told
<1> QED
  BY <1>2, <1>3

\* A copy of what the buffer holds, or the buffer marked, tells nothing new.
LEMMA ToldCopy ==
  ASSUME NEW q, NEW r, Told(r), q.cmd = r.cmd, q.idx = r.idx, q.arg = r.arg,
         q.dst \in {r.dst, Dev}
  PROVE  Told(q)
<1>1. Dev # Sender
  BY FileAssumption, IdAssumption
<1> QED
  BY <1>1 DEF Told

\* The steps of the receive thread.
LEMMA RecvStores ==
  ASSUME TypeOK, TransferInv, StoredInv, NEW p \in reqs, Recv(p),
         UNCHANGED <<reqs, step, filepos>>
  PROVE  StoredInv'
<1>0. IsFile(file) /\ DevTypeOK /\ IsRequest(p)
  BY DEF TypeOK, DevTypeOK
<1>1. /\ \A i \in 1 .. Len(Source) : Stored(i) => Stored(i)'
      /\ BlocksInPlace'
      /\ file'.fd = "stdin" => file' = file
  <2>1. CASE WriteFile(p)
    <3>1. PICK r \in FileWrite(file, p.arg) : file' = r.file
      BY <2>1 DEF WriteFile
    <3> QED
      BY <1>0, <2>1, <3>1, WriteStores
  <2>2. CASE NameFile(p)
    <3>1. \/ file' = [file EXCEPT !.index = 1, !.fd = "open", !.pos = 0]
          \/ file' = [file EXCEPT !.index = 1, !.fd = "closed"]
      BY <2>2 DEF NameFile, FileInit
    <3>2. file'.data = file.data /\ file'.fd \in {"open", "closed"}
      BY <1>0, <3>1 DEF IsFile
    <3> QED
      BY <3>2 DEF Stored, StoredInv, BlocksInPlace
  <2>3. CASE ~WriteFile(p) /\ ~NameFile(p)
    <3>1. file' = file
      BY <2>3, FileSteps
    <3> QED
      BY <3>1 DEF Stored, StoredInv, BlocksInPlace
  <2> QED
    BY <2>1, <2>2, <2>3
<1>2. \A q : Told(q) => Told(q)'
  BY <1>1, ToldStays
<1>3. ASSUME NEW q \in (out' \ out) \cup {lastSend'}
      PROVE  Told(q)'
  <2>1. CASE q.cmd \notin {"FileNameAck", "FileTxtAck"}
    BY <2>1 DEF Told
  <2>2. CASE /\ q.cmd = lastSend.cmd /\ q.idx = lastSend.idx /\ q.arg = lastSend.arg
             /\ q.dst \in {lastSend.dst, Dev}
    <3>1. Told(q)
      BY <2>2, ToldCopy DEF StoredInv
    <3> QED
      BY <1>2, <3>1
  <2>3. CASE NameFile(p) /\ file'.fd = "open" /\ q.cmd = "FileNameAck"
    BY <2>3 DEF Told
  <2>4. CASE /\ WriteFile(p) /\ q.cmd = "FileTxtAck" /\ q.idx = p.idx
             /\ \E r \in FileWrite(file, p.arg) : file' = r.file /\ q.arg = r.ans
    <3>1. PICK r \in FileWrite(file, p.arg) : file' = r.file /\ q.arg = r.ans
      BY <2>4
    <3>2. q.arg.type = "ACK" =>
            \A i \in 1 .. Len(Source) :
              i <= Byte /\ p.arg = Block(i) => Stored(i)' /\ i # Byte
      BY <1>0, <2>4, <3>1, WriteStores
    <3>3. \A x \in reqs : x.idx = q.idx => x.arg = p.arg
      BY <2>4 DEF TransferInv, RequestsInv
    <3> QED
      BY <2>4, <3>2, <3>3 DEF Told, Block
  <2> QED
    BY <1>0, <2>1, <2>2, <2>3, <2>4, RecvTells
<1>4. \A q \in out' : Told(q)'
  BY <1>2, <1>3 DEF StoredInv
<1>5. Told(lastSend)'
  BY <1>3 DEF Told
<1>6. AckedIsStored'
  <2>1. filepos \in 0 .. Len(Source) + 1
    BY DEF TransferInv, SenderInv
  <2>2. \A i \in 1 .. filepos - 1 : i \in 1 .. Len(Source)
    BY <2>1, SourceIs
  <2> QED
    BY <1>1, <2>2 DEF StoredInv, AckedIsStored
<1> QED
  BY <1>1, <1>4, <1>5, <1>6 DEF StoredInv

\* What the device confirms to the sender carries an index the sender has used.
LEMMA AnswersAreCounted ==
  ASSUME AckInv, RequestsInv, NEW q \in out \cup {lastSend}, q.cmd \in Ack, q.dst = Sender
  PROVE  q.idx \in Nat /\ q.idx <= pktIdx[Sender]
<1>1. PICK x \in ran : x[3] = q.idx
  BY FileAssumption DEF AckInv, Honest, CarriedOut
<1>2. PICK p \in reqs : p.cmd \notin PlainCmd /\ x = p.id
  BY <1>1 DEF AckInv, Issued
<1>3. p.idx = q.idx
  BY <1>1, <1>2 DEF AckInv
<1> QED
  BY <1>3 DEF RequestsInv

\* What was told stays true when the sender only adds requests of a new index.
LEMMA NewIndexTold ==
  ASSUME AckInv, RequestsInv, NEW q \in out \cup {lastSend}, Told(q), UNCHANGED file,
         \A p \in reqs' : \/ \E r \in reqs : p.idx = r.idx /\ p.arg = r.arg
                          \/ p.idx = pktIdx[Sender] + 1,
         pktIdx[Sender] \in Nat
  PROVE  Told(q)'
<1>1. "FileTxtAck" \in Ack
  BY DataCmdIs DEF Ack, AckOf
<1>2. (\A i : Block(i)' = Block(i)) /\ \A i : Stored(i)' = Stored(i)
  BY DEF Block, Stored
<1>3. CASE q.cmd = "FileTxtAck" /\ q.dst = Sender
  <2>1. q.idx \in Nat /\ q.idx <= pktIdx[Sender]
    BY <1>1, <1>3, AnswersAreCounted
  <2>2. q.idx # pktIdx[Sender] + 1
    BY <2>1
  <2>3. \A p \in reqs' : p.idx = q.idx => \E r \in reqs : r.idx = q.idx /\ p.arg = r.arg
    BY <2>2
  <2> QED
    BY <1>2, <1>3, <2>3 DEF Told
<1>4. CASE ~(q.cmd = "FileTxtAck" /\ q.dst = Sender)
  BY <1>4 DEF Told
<1> QED
  BY <1>3, <1>4

\* The steps of the sender that read no block.
LEMMA SendStores ==
  ASSUME TypeOK, AckInv, TransferInv, StoredInv,
         UNCHANGED <<file, out, lastSend, step, filepos>>,
         \A p \in reqs' : \/ \E r \in reqs : p.idx = r.idx /\ p.arg = r.arg
                          \/ p.idx = pktIdx[Sender] + 1
  PROVE  StoredInv'
<1>1. pktIdx[Sender] \in Nat
  BY FileAssumption DEF TypeOK
<1>2. (\A q \in out' : Told(q)') /\ Told(lastSend)'
  <2>1. \A q \in out \cup {lastSend} : Told(q)'
    BY <1>1, NewIndexTold DEF TransferInv, StoredInv
  <2> QED
    BY <2>1 DEF Told
<1> QED
  BY <1>2 DEF StoredInv, AckedIsStored, BlocksInPlace, Stored

\* The acknowledgement of the block in hand says that it is stored, and is not the one
\* whose index wraps.
LEMMA AdvanceIsStored ==
  ASSUME TypeOK, WaitOK, AckInv, TransferInv, StoredInv, NEW a \in out, Advance(a)
  PROVE  filepos \in 1 .. Len(Source) /\ Stored(filepos) /\ filepos # Byte
<1> USE FileAssumption
<1> DEFINE p == sendbuf[Sender]
<1>1. /\ step = "text" /\ phase[Sender] = "waiting" /\ a.arg.type = "ACK"
      /\ a.dst = Sender /\ a.idx = pktIdx[Sender] /\ a.cmd = AckOf[p.cmd]
  BY DEF Advance, AdvanceAnyway, Answered, Accept, Answers, MatchesAnyIdx
<1>2. p \in reqs /\ p.id = <<Sender, epoch[Sender], pktIdx[Sender]>>
  BY <1>1 DEF WaitOK
<1>3. filepos \in 1 .. Len(Source) /\ p.cmd = "FileTxt" /\ p.arg = Block(filepos)
  BY <1>1 DEF TransferInv, SenderInv
<1>4. a.cmd = "FileTxtAck"
  BY <1>1, <1>3 DEF AckOf
<1>5. p.idx = a.idx
  <2>1. p.cmd \notin PlainCmd
    BY <1>3 DEF PlainCmd
  <2> HIDE DEF p
  <2>2. p.id[3] = p.idx
    BY <1>2, <2>1 DEF AckInv
  <2> QED
    BY <1>1, <1>2, <2>2
<1>6. filepos <= Byte /\ Told(a)
  BY DEF StoredInv
<1> HIDE DEF p
<1> QED
  BY <1>1, <1>2, <1>3, <1>4, <1>5, <1>6 DEF Told

\* The answer that names the file says that it is open, or that the file is short.
LEMMA NamedIsOpen ==
  ASSUME TransferInv, StoredInv, NEW a \in out, Named(a)
  PROVE  file.fd # "stdin" \/ Len(Source) < Byte
<1>1. a.cmd = AckOf["FileName"]
  BY DEF Named, Answered, Accept, TransferInv, SenderInv
<1>2. a.cmd = "FileNameAck"
  BY <1>1 DEF AckOf
<1> QED
  BY <1>2 DEF StoredInv, Told

\* The steps of the sender that read the next one.
LEMMA ReadStores ==
  ASSUME TypeOK, WaitOK, AckInv, TransferInv, StoredInv,
         NEW a \in out, Named(a) \/ Advance(a)
  PROVE  StoredInv'
<1> USE SourceIs, IdAssumption
<1>1. UNCHANGED <<file, out, lastSend, reqs>> /\ filepos' = filepos + 1
  BY DEF Named, Advance, AdvanceAnyway, Answered, Accept, NextBlock, devVars
<1>2. (\A q \in out' : Told(q)') /\ Told(lastSend)'
  BY <1>1, SameTold DEF StoredInv
<1>3. filepos \in Nat /\ filepos <= Byte /\ (step = "name" => filepos = 0)
  BY DEF TransferInv, SenderInv, StoredInv
<1>4. CASE Named(a)
  <2>1. step = "name"
    BY <1>4 DEF Named
  <2>2. filepos' = 1
    BY <1>1, <1>3, <2>1
  <2>3. file.fd # "stdin" \/ Len(Source) < Byte
    BY <1>4, NamedIsOpen
  <2>4. AckedIsStored'
    BY <2>2 DEF AckedIsStored
  <2> QED
    BY <1>1, <1>2, <2>2, <2>3, <2>4 DEF StoredInv, BlocksInPlace
<1>5. CASE Advance(a)
  <2>1. filepos \in 1 .. Len(Source) /\ Stored(filepos) /\ filepos # Byte /\ step = "text"
    BY <1>5, AdvanceIsStored DEF Advance, AdvanceAnyway
  <2>2. filepos' <= Byte
    BY <1>1, <1>3, <2>1
  <2>3. \A i \in 1 .. filepos' - 1 : i = filepos \/ i \in 1 .. filepos - 1
    BY <1>1, <1>3
  <2>4. \A i \in 1 .. filepos' - 1 : Stored(i)
    BY <2>1, <2>3 DEF StoredInv, AckedIsStored
  <2>5. AckedIsStored'
    BY <1>1, <2>4 DEF AckedIsStored, Stored
  <2>6. filepos > 0
    BY <2>1
  <2> QED
    BY <1>1, <1>2, <2>2, <2>5, <2>6 DEF StoredInv, BlocksInPlace
<1> QED
  BY <1>4, <1>5

\* The steps of the device that receive nothing.
LEMMA OthersStore ==
  ASSUME Steady, TypeOK, TransferInv, StoredInv, InstallToken \/ MainLoop \/ Reboot,
         UNCHANGED <<reqs, step, filepos>>
  PROVE  StoredInv'
<1>0. DevTypeOK /\ IsFile(file)
  BY DEF TypeOK, DevTypeOK
<1>a. "FileNameAck" \in Ack /\ "FileTxtAck" \in Ack
  BY DataCmdIs DEF Ack, AckOf
<1>1. /\ file'.data = file.data
      /\ file' = file \/ (Len(Source) < Byte /\ file'.index = 0)
  <2>1. CASE InstallToken \/ MainLoop
    BY <2>1, OtherFileSteps
  <2>2. CASE Reboot
    <3>1. file' = FileBoot(file.data) /\ boots < MaxBoot
      BY <2>2 DEF Reboot
    <3>2. Len(Source) < Byte
      BY <1>0, <3>1, IdAssumption DEF Steady, DevTypeOK
    <3> QED
      BY <3>1, <3>2 DEF FileBoot
  <2> QED
    BY <2>1, <2>2
<1>2. \A i : Stored(i)' = Stored(i)
  BY <1>1 DEF Stored
<1>3. \A q : Told(q) => Told(q)'
  BY <1>1, <1>2, ToldStays
<1>4. ASSUME NEW q \in (out' \ out) \cup {lastSend'}
      PROVE  Told(q)'
  <2>1. CASE q.cmd \in Ack
    <3>1. q = lastSend
      BY <1>0, <2>1, OthersConfirmNothing
    <3> QED
      BY <1>3, <3>1 DEF StoredInv
  <2>2. CASE q.cmd \notin Ack
    BY <1>a, <2>2 DEF Told
  <2> QED
    BY <2>1, <2>2
<1>5. (\A q \in out' : Told(q)') /\ Told(lastSend)'
  BY <1>3, <1>4 DEF StoredInv, Told
<1>6. AckedIsStored' /\ BlocksInPlace'
  BY <1>1, <1>2 DEF StoredInv, AckedIsStored, BlocksInPlace
<1> QED
  BY <1>1, <1>5, <1>6 DEF StoredInv

\* What each step of the sender adds to the requests.
LEMMA AddedRequests ==
  ASSUME TypeOK, WaitOK, Transfer \/ Session
  PROVE  /\ UNCHANGED <<file, out, lastSend>>
         /\ \/ /\ UNCHANGED <<step, filepos>>
               /\ \A p \in reqs' : \/ \E r \in reqs : p.idx = r.idx /\ p.arg = r.arg
                                   \/ p.idx = pktIdx[Sender] + 1
            \/ reqs' = reqs /\ (NotNamed \/ Finish \/ \E a \in out : Cancel(a))
            \/ \E a \in out : Named(a) \/ Advance(a)
<1> USE FileAssumption
<1>1. UNCHANGED <<file, out, lastSend>>
  BY DEF Transfer, Session, SendName, SendFile, NotNamed, Retry, Finish, Named, Advance,
         AdvanceAnyway, Cancel, SameAgain, Unanswered, Answered, Command, Open, Resend,
         Accept, Reject, Timeout, GiveUp, devVars
<1>2. CASE SendName \/ SendFile \/ (Open(Sender) /\ UNCHANGED fileVars)
  <2>1. UNCHANGED <<step, filepos>> /\ \E k, t, cmd : Transmit(Sender, k, t, cmd)
    BY <1>2 DEF SendName, SendFile, Command, Open, fileVars
  <2>2. \E p : reqs' = reqs \cup {p} /\ p.idx = pktIdx[Sender] + 1
    BY <2>1, Transmitted
  <2> QED
    BY <1>1, <2>1, <2>2
<1>3. CASE Resend(Sender) /\ UNCHANGED fileVars
  <2>1. PICK from \in Route(Sender) :
          reqs' = reqs \cup {[sendbuf[Sender] EXCEPT !.from = from]}
    BY <1>3 DEF Resend
  <2> DEFINE p == [sendbuf[Sender] EXCEPT !.from = from]
  <2>2. sendbuf[Sender] \in reqs
    BY <1>3 DEF Resend, WaitOK
  <2>3. p.idx = sendbuf[Sender].idx /\ p.arg = sendbuf[Sender].arg
    BY <2>2 DEF TypeOK, IsRequest
  <2> HIDE DEF p
  <2>4. reqs' = reqs \cup {p}
    BY <2>1 DEF p
  <2> QED
    BY <1>1, <1>3, <2>2, <2>3, <2>4 DEF fileVars
<1>4. CASE \/ Retry \/ (UNCHANGED fileVars /\ \E a \in out : Accept(Sender, a))
           \/ \E a \in out : SameAgain(a)
  <2>1. reqs' = reqs /\ UNCHANGED <<step, filepos>>
    BY <1>4 DEF Retry, SameAgain, Unanswered, Answered, Accept, Reject, Timeout, GiveUp,
                fileVars
  <2> QED
    BY <1>1, <2>1
<1>5. CASE NotNamed \/ Finish \/ \E a \in out : Cancel(a)
  <2>1. reqs' = reqs
    BY <1>5 DEF NotNamed, Finish, Cancel, Unanswered, Answered, Accept, Reject, Timeout,
                GiveUp
  <2> QED
    BY <1>1, <1>5, <2>1
<1> QED
  BY <1>1, <1>2, <1>3, <1>4, <1>5 DEF Transfer, Session

LEMMA StoredKeeps ==
  ASSUME Steady, TypeOK, WaitOK, AckInv, TransferInv, StoredInv, [FileTransferNext]_allVars
  PROVE  StoredInv'
<1>1. CASE Device /\ UNCHANGED <<appVars, fileVars>>
  <2>1. UNCHANGED <<reqs, step, filepos>>
    BY <1>1 DEF appVars, fileVars
  <2> QED
    BY <1>1, <2>1, RecvStores, OthersStore DEF Device
<1>2. CASE Transfer \/ Session
  <2>1. CASE /\ UNCHANGED <<step, filepos>>
             /\ \A p \in reqs' : \/ \E r \in reqs : p.idx = r.idx /\ p.arg = r.arg
                                 \/ p.idx = pktIdx[Sender] + 1
    BY <1>2, <2>1, AddedRequests, SendStores
  <2>2. CASE reqs' = reqs /\ (NotNamed \/ Finish \/ \E a \in out : Cancel(a))
    <3>1. UNCHANGED <<file, out, lastSend, reqs, filepos>>
      BY <1>2, <2>2, AddedRequests DEF NotNamed, Finish, Cancel
    <3>2. AckedIsStored'
      <4>1. step = "name" => filepos = 0
        BY DEF TransferInv, SenderInv
      <4> QED
        BY <3>1, <4>1 DEF StoredInv, AckedIsStored, Stored
    <3>3. (\A q \in out' : Told(q)') /\ Told(lastSend)'
      BY <3>1, SameTold DEF StoredInv
    <3> QED
      BY <3>1, <3>2, <3>3 DEF StoredInv, BlocksInPlace
  <2>3. CASE \E a \in out : Named(a) \/ Advance(a)
    BY <2>3, ReadStores
  <2> QED
    BY <1>2, <2>1, <2>2, <2>3, AddedRequests
<1>3. CASE UNCHANGED allVars
  <2>1. UNCHANGED <<file, out, lastSend, reqs, step, filepos>>
    BY <1>3 DEF allVars, vars, devVars, appVars, fileVars
  <2>2. (\A q \in out' : Told(q)') /\ Told(lastSend)'
    BY <2>1, SameTold DEF StoredInv
  <2> QED
    BY <2>1, <2>2 DEF StoredInv, AckedIsStored, BlocksInPlace, Stored
<1> QED
  BY <1>1, <1>2, <1>3 DEF FileTransferNext

LEMMA StoredInvariant ==
  ASSUME Steady
  PROVE  FileTransferSpec => []StoredInv
<1>1. FileTransferInit => StoredInv
  <2> SUFFICES ASSUME FileTransferInit PROVE StoredInv
    OBVIOUS
  <2>1. /\ file = FileBoot(OldFile) /\ out = {} /\ lastSend = NoPacket
        /\ step = "name" /\ filepos = 0
    BY DEF FileTransferInit, Init, DevInit
  <2>2. file.index = 0 /\ file.data = OldFile
    BY <2>1 DEF FileBoot
  <2> QED
    BY <2>1, <2>2, IdAssumption, SourceIs
       DEF StoredInv, Told, NoPacket, AckedIsStored, BlocksInPlace
<1>2. /\ TypeOK /\ WaitOK /\ AckInv /\ TransferInv /\ StoredInv
      /\ [FileTransferNext]_allVars
      => StoredInv'
  BY StoredKeeps
<1> QED
  BY <1>1, <1>2, TransferInvariant, PTL DEF FileTransferSpec

\* Whatever is lost, late, repeated or sent again, what _file_transmit has seen
\* acknowledged is in the file, and stays in it.
THEOREM AcknowledgedIsStored ==
  ASSUME Steady
  PROVE  FileTransferSpec => []AckedIsStored
<1>1. StoredInv => AckedIsStored
  BY DEF StoredInv
<1> QED
  BY <1>1, StoredInvariant, PTL

\* _file_write puts no block at another's place.
THEOREM BlocksLandInPlace ==
  ASSUME Steady
  PROVE  FileTransferSpec => []BlocksInPlace
<1>1. StoredInv => BlocksInPlace
  BY DEF StoredInv
<1> QED
  BY <1>1, StoredInvariant, PTL

\* _file_transmit only finishes files of less than Byte blocks.
SentIsShort == step = "sent" => Len(Source) < Byte

\* The index is a u8: a file of Byte blocks or more is never all sent, for the block
\* whose index is 0 again is never acknowledged.
THEOREM LongFilesNeverEnd ==
  ASSUME Steady
  PROVE  FileTransferSpec => []SentIsShort
<1>1. TransferInv /\ StoredInv => SentIsShort
  BY SourceIs, IdAssumption DEF TransferInv, SenderInv, StoredInv, SentIsShort
<1> QED
  BY <1>1, TransferInvariant, StoredInvariant, PTL
=============================================================================
