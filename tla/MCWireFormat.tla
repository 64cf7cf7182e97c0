---------------------------- MODULE MCWireFormat ----------------------------
(* WireFormat with bytes of five bits: lengths of 14 and of 1024 need the    *)
(* longer forms that 126 and 65536 need in the code.  A frame of 1600 bytes   *)
(* is longer than an int.                                                    *)
EXTENDS WireFormat

MCKey == <<1, 10, 20, 31>>
MCFrame(fin, opcode, size) == [fin |-> fin, opcode |-> opcode, key |-> MCKey, size |-> size]

MCFrames ==
    {MCFrame(TRUE, 1, size) : size \in {0, 13, 14, 1023, 1024, 1600}}
        \cup {[MCFrame(TRUE, 2, 3) EXCEPT !.key = <<>>]}
        \cup {MCFrame(FALSE, 1, 2), MCFrame(FALSE, 0, 1), MCFrame(TRUE, 0, 5)}
        \cup {MCFrame(TRUE, 9, 1), MCFrame(TRUE, 10, 1)}
MCTexts == {0, 13, 14, 1023, 1024}
=============================================================================
