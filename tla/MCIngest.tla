------------------------------- MODULE MCIngest -------------------------------
(* Small instances of Ingest for TLC. *)
EXTENDS Ingest

CONSTANTS k1, k2, c1

\* A key that is listed twice.
Files == {<<k1, k1>>}

\* A file with one leaf too many, and one with a remainder.
OtherPolls ==
    {PollFrom(0, <<k1>>, 1, <<k1, k2>>, FALSE, "good"),
     PollFrom(0, <<k1>>, 1, <<k1>>, TRUE, "malformed")}
=============================================================================
