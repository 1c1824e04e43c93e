---------------------------- MODULE MCWsControl ----------------------------
EXTENDS WsControl, Bitwise

\* Texts of 13, 14, 15 and 33 bytes: around Short, and above Radix.
MCIdLens == {9, 10, 11, 29}

MCMasks == {<<21, 0, 31, 10>>}

MCXor == [a \in Byte |-> [b \in Byte |-> a ^^ b]]

\* A response that fits, a rejection, one that just fits, and two that do not.
MCReplies ==
  {<<Status101, HttpField, EmptyLine>>, <<StatusBad, EmptyLine>>,
   <<Status101, HttpField, HttpField, EmptyLine>>,
   <<Status101, HttpField, HttpField, HttpField, EmptyLine>>,
   <<Status101, HttpField, HttpField, HttpField, HttpField, EmptyLine>>}

=============================================================================
