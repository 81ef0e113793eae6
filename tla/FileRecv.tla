------------------------------ MODULE FileRecv ------------------------------
(***************************************************************************)
(* The device side of the file transfer: _file_init and _file_write of     *)
(* src/up2pc/up2pc.c with the static variables g_index and fp and the file *)
(* they fill.  The file is a sequence of equal blocks; fd is "stdin" until *)
(* the first CMD_FILE_NAME (fp starts as 0), "open" while demofile.bin is  *)
(* open and "closed" once fp is -1.  The operators give the outcomes a     *)
(* request can have, each with the file state it leaves and the FILE_T it  *)
(* answers; which one happens depends on open(2) and write(2).  NoArg is a *)
(* payload shorter than a FILE_T.                                          *)
(***************************************************************************)
EXTENDS Up2p, Sequences

\* Had g_index started at 1, as it does once a file is named.
FileBootNamed(old) == [index |-> 1, fd |-> "stdin", pos |-> 0, data |-> old]

FileBoot(old) == [index |-> 0, fd |-> "stdin", pos |-> 0, data |-> old]

Answer(type, index) == Value(type, index % Byte)

\* O_CREAT without O_TRUNC: what the file held stays until it is overwritten.
FileInit(f) ==
  {[f EXCEPT !.index = 1, !.fd = "open", !.pos = 0],
   [f EXCEPT !.index = 1, !.fd = "closed"]}

Written(data, pos, block) ==
  IF pos < Len(data) THEN [data EXCEPT ![pos + 1] = block]
                     ELSE Append(data, block)

\* write(2) on fp: -1 is refused, a terminal may take the block.
WriteResults(f) == IF f.fd = "closed" THEN {FALSE} ELSE BOOLEAN

StoreOK(f, block) ==
  [index |-> f.index + 1,
   fd    |-> f.fd,
   pos   |-> IF f.fd = "open" THEN f.pos + 1 ELSE f.pos,
   data  |-> IF f.fd = "open" THEN Written(f.data, f.pos, block) ELSE f.data]

\* Had the index not been compared: whatever arrives is stored.
StoreAny(f, a) ==
  {[file |-> StoreOK(f, a.block), ans |-> Answer("ACK", f.index + 1)] :
      ok \in WriteResults(f) \cap {TRUE}}

StoreNext(f, a) ==
  IF a.index # f.index
  THEN {[file |-> f, ans |-> Answer("RET", f.index)]}
  ELSE {IF ok THEN [file |-> StoreOK(f, a.block), ans |-> Answer("ACK", f.index + 1)]
              ELSE [file |-> [f EXCEPT !.fd = "closed"], ans |-> Answer("CAN", 0)] :
        ok \in WriteResults(f)}

FileWrite(f, a) ==
  CASE a = NoArg      -> {[file |-> f, ans |-> Answer("CAN", 0)]}
    [] a.type = "TXT" -> StoreNext(f, a)
    [] a.type = "END" -> {[file |-> [f EXCEPT !.index = 0, !.fd = "closed"],
                           ans  |-> Answer("ACK", 0)]}
    [] OTHER          -> {[file |-> f, ans |-> Answer("NONE", 0)]}

IsFile(f) ==
  f \in [index : Nat, fd : {"stdin", "open", "closed"}, pos : Nat, data : {f.data}]
=============================================================================
