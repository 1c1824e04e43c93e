------------------------------ MODULE MCS3Call ------------------------------
EXTENDS S3Call

MCChar == {"u", "v", "0", "1", "2", "9", "e", "f", "x"}

\* Ids that fill their buffer and are longer than it.
MCUploadIds == {<<"u", "v">>, <<"u", "v", "u", "v">>}

\* Numbers that an int holds, does not hold, that a long does not hold, that do
\* not fit their buffer, and that are none; an ETag that does not fit its own.
Whole(n) == [num |-> <<"1", n>>, etag |-> <<"e", n>>]
Large    == [num |-> <<"2", "0">>, etag |-> <<"e">>]
Huge     == [num |-> <<"9", "9", "9">>, etag |-> <<"e">>]
Long     == [num |-> <<"1", "1", "1", "1">>, etag |-> <<"e", "f", "e", "f">>]
Odd      == [num |-> <<"1", "x">>, etag |-> <<"e">>]

\* Parts without an ETag or a number.
NoEtag == [num |-> <<"9">>, etag |-> << >>]
NoNum  == [num |-> << >>, etag |-> <<"f">>]

MCPartLists ==
  {<< >>, <<Whole("1")>>, <<Whole("1"), Whole("2")>>, <<NoEtag, Whole("1")>>,
   <<Whole("1"), NoNum, Whole("2")>>, <<NoEtag, NoNum>>,
   <<Large, Whole("1")>>, <<Huge, Odd>>, <<Long, Whole("2")>>}

=============================================================================
