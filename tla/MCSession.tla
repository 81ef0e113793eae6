------------------------------ MODULE MCSession ------------------------------
(***************************************************************************)
(* UlinkSession for TLC.  Ids, addresses and keys are model values; Zero   *)
(* and the empty demofile.bin are given here.                              *)
(***************************************************************************)
EXTENDS UlinkSession

MCOldFile == <<>>

\* One short payload, and one file of one block with its end.
MCFileArg ==
  {NoArg, [type |-> "TXT", index |-> 1, block |-> 1],
          [type |-> "END", index |-> 2, block |-> NoArg]}

\* The commands with handlers of their own, and one the device ignores.
MCEveryKind ==
  {"GetToken", "SendKey", "ConfigHost", "SendSerial", "GpioWrite", "FileName",
   "FileTxt", "UpdateAck", "SerialAck"}
==============================================================================
