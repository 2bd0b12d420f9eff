----------------------------- MODULE MCStreams ------------------------------
(***************************************************************************)
(* Bodies whose contents hold pieces of the delimiter and of a header's    *)
(* end, files at and beyond the limit, fields that are no files, a long    *)
(* preamble and long headers.                                              *)
(***************************************************************************)
EXTENDS FileJourney

Part(header, content) == [header |-> header, content |-> content]

Bytes(preamble, parts, text) ==
    LET block(acc, p) == acc \o CRLF \o text[p.header] \o HeaderEnd \o p.content
                             \o CrlfBoundaryBytes
    IN  preamble \o BoundaryBytes \o FoldLeft(block, <<>>, parts) \o Dashes

\* "F" a file of the field, "N" the field without a file name, "O" another field.
Short == [h \in {"F", "N", "O"} |-> <<h>>]
Long == [h \in {"F", "N", "O"} |-> <<h, "x", "x", "x", "x", "x", "x">>]

\* The last delimiter of a body ends before its last two bytes.
Laid(preamble, parts, text) ==
    [parts |-> parts, bytes |-> Bytes(preamble, parts, text),
     ends |-> [k \in 1..Len(parts) + 1 |->
                 Len(Bytes(preamble, SubSeq(parts, 1, k - 1), text)) - Len(Dashes)]]

Body(parts) == Laid(<<>>, parts, Short)

\* Every content of up to MaxBytesPerFile - 1 bytes, pieces of a delimiter among them.
Contents == UNION {[1..n -> {"v", "r", "n", "-"}] : n \in 0..(MaxBytesPerFile - 1)}

MCBodies ==
    {Body(<<Part("F", content)>>) : content \in Contents} \cup
    { Body(<<Part("F", <<"x", "r", "n", "-">>), Part("F", <<"v">>)>>),
      Body(<<Part("F", <<"-", "-", "B">>), Part("F", <<"r", "-", "-", "B">>)>>),
      Body(<<Part("F", <<"r", "n", "-", "-", "x">>)>>),
      Body(<<Part("O", <<"x">>), Part("F", <<"n", "r", "v">>)>>),
      Body(<<Part("F", <<"x", "x", "x", "x", "x", "x", "x">>), Part("F", <<"r", "r", "n">>)>>),
      Body(<<Part("F", <<"x">>), Part("F", <<"x">>), Part("F", <<"v">>)>>),
      Body(<<Part("N", <<"x", "v">>)>>),
      Body(<<>>),
      Laid(<<"x", "-", "-", "-">>, <<Part("F", <<"v", "r">>)>>, Short),
      Laid(<<"x", "x", "x", "x", "x", "x">>, <<Part("F", <<"x">>)>>, Short),
      Laid(<<>>, <<Part("F", <<"x">>)>>, Long) }

MCLengthBytes == [n \in 0..3 |-> <<"0", <<"0", "1", "2", "3">>[n + 1]>>]
=============================================================================
