--------------------------- MODULE MCSlicePolicy ---------------------------
(***************************************************************************)
(* Instances of SlicePolicy: two configured slices, the two of slicing.md.  *)
(***************************************************************************)
EXTENDS SlicePolicy

MCSliceNssai == <<<<1, NoSd>>, <<1, 2>>>>

\* A sd of 0 is how the file names the slice without differentiator; 7 is the
\* differentiator of no slice.
Entries ==
  [sst : {1}, sd : {0, 2, 7}, min : {10, 60}, max : {40, 100}, dedi : {5, 70}]
Files == {<<>>} \cup {<<a>> : a \in Entries} \cup {<<a, b>> : a, b \in Entries}

Msgs(sds, mins) ==
  [sst : {1}, has_sd : {TRUE}, sd : sds, min : mins, max : {50, 100}]
\* Every ratio of these messages is a percentage.
PercentMsgs == Msgs({NoSd, 2, 7}, {0, 40, 60, 100})
    \cup [sst : {1}, has_sd : {FALSE}, sd : {0}, min : {30}, max : {100}]
\* The ratios of a message are integers the agent does not bound.
AnyMsgs == Msgs({NoSd, 2}, {0, 100, 200})

NoFiles == {}
=============================================================================
