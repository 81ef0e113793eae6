---------------------------- MODULE FileTransfer ----------------------------
(***************************************************************************)
(* A file sent to the device: _file_int and _file_transmit of vm_up2pa.c   *)
(* over the session of UlinkSession.  The sender reads the file block by   *)
(* block, sends each as a command of its own and goes on to the next when  *)
(* it is answered by FILE_CMD_ACK; FILE_CMD_CAN ends the transfer, and     *)
(* after anything else, a timeout too, the same block is sent again in a   *)
(* new command.  The loop has no other end.                                *)
(***************************************************************************)
EXTENDS UlinkSession, FiniteSets

CONSTANTS
  Sender,      \* the application that sends
  Source,      \* the blocks of the file it sends
  MaxOut       \* bound: different packets the device sends

ASSUME FileAssumption ==
  /\ Sender \in Client
  /\ {"FileName", "FileTxt"} \subseteq Cmd
  /\ \A f \in {Source, OldFile} : f \in Seq({f[i] : i \in DOMAIN f})
  /\ Source # <<>>
  /\ MaxOut \in Nat

VARIABLES
  step,        \* what is to be sent: "name", "text" or "end"; then "sent" or "failed"
  psend,       \* the FILE_T sent
  filepos      \* blocks read so far

fileVars == <<step, psend, filepos>>
allVars  == <<vars, fileVars>>

FileTransferInit ==
  /\ Init
  /\ step = "name" /\ psend = NoArg /\ filepos = 0

\* psend->index is a u8.
Block(i) == [type |-> "TXT", index |-> i % Byte, block |-> Source[i]]

\* Had the loop not been left at the end of the file.
NextBlockForever ==
  /\ filepos' = filepos + 1
  /\ step' = "text"
  /\ psend' = IF filepos' <= Len(Source) THEN Block(filepos')
              ELSE [type |-> "END", index |-> filepos' % Byte, block |-> NoArg]

\* psend->index++ on a u8, and read(2) until nothing is left.
NextBlock ==
  /\ filepos' = filepos + 1
  /\ IF filepos' <= Len(Source)
     THEN psend' = Block(filepos') /\ step' = "text"
     ELSE /\ psend' = [type |-> "END", index |-> filepos' % Byte, block |-> NoArg]
          /\ step' = "end"

SendName ==
  /\ step = "name"
  /\ Command(Sender, "FileName")
  /\ UNCHANGED fileVars

SendFile ==
  /\ step \in {"text", "end"}
  /\ Command(Sender, "FileTxt") /\ sendbuf'[Sender].arg = psend
  /\ UNCHANGED fileVars

Answered(a) == phase[Sender] = "waiting" /\ Accept(Sender, a)

Unanswered ==
  /\ phase[Sender] = "waiting"
  /\ Timeout(Sender) \/ (\E a \in out : Reject(Sender, a))

Named(a) == step = "name" /\ Answered(a) /\ NextBlock

NotNamed ==
  /\ step = "name" /\ Unanswered
  /\ step' = "failed" /\ UNCHANGED <<psend, filepos>>

\* Had the type of the answer not been looked at.
AdvanceAnyway(a) == step = "text" /\ Answered(a) /\ NextBlock

Advance(a) == AdvanceAnyway(a) /\ a.arg.type = "ACK"

Cancel(a) ==
  /\ step = "text" /\ Answered(a) /\ a.arg.type = "CAN"
  /\ step' = "failed" /\ UNCHANGED <<psend, filepos>>

\* FILE_CMD_RET, whose index nobody reads.
SameAgain(a) ==
  /\ step = "text" /\ Answered(a) /\ a.arg.type \notin {"ACK", "CAN"}
  /\ UNCHANGED fileVars

Retry == step = "text" /\ Unanswered /\ UNCHANGED fileVars

\* The answer to FILE_CMD_END is not looked at.
Finish ==
  /\ step = "end"
  /\ Unanswered \/ (\E a \in out : Answered(a))
  /\ step' = "sent" /\ UNCHANGED <<psend, filepos>>

\* The session below the transfer.
Session ==
  /\ \/ Open(Sender) \/ Resend(Sender)
     \/ phase[Sender] = "opening" /\ (\E a \in out : Accept(Sender, a))
  /\ UNCHANGED fileVars

Transfer ==
  \/ SendName \/ NotNamed \/ SendFile \/ Retry \/ Finish
  \/ \E a \in out : Named(a) \/ Advance(a) \/ Cancel(a) \/ SameAgain(a)

FileTransferNext ==
  \/ Transfer \/ Session
  \/ Device /\ Cardinality(out') <= MaxOut /\ UNCHANGED <<appVars, fileVars>>

FileTransferSpec == FileTransferInit /\ [][FileTransferNext]_allVars

-----------------------------------------------------------------------------
(* Properties.                                                             *)

\* The state of the sender, of the device's file, and of both together.
FileTypeOK ==
  /\ step \in {"name", "text", "end", "sent", "failed"}
  /\ filepos \in 0 .. Len(Source) + 1
  /\ step \in {"text", "end", "sent"} => filepos > 0
  /\ file.pos <= Len(file.data)

Stored(i) == i <= Len(file.data) /\ file.data[i] = Source[i]

\* What _file_transmit has seen acknowledged is in the file, and stays there
\* whatever request is repeated or late: at the end the whole of it is.
AckedIsStored == step # "name" => \A i \in 1 .. filepos - 1 : Stored(i)

\* No block is ever written at another's place, nor behind a gap: the file is
\* the beginning of the one sent, over what was there before.
BlocksInPlace ==
  \A i \in 1 .. Len(file.data) :
     \/ i <= Len(Source) /\ file.data[i] = Source[i]
     \/ i <= Len(OldFile) /\ file.data[i] = OldFile[i]
=============================================================================
