---------------------------- MODULE MCIndexFile ----------------------------
(***************************************************************************)
(* Instances of IndexFile: complete indexes of no, one and two vertices    *)
(* with one tree.  A digit has four values, so that INF8 is 3, a 32-bit    *)
(* integer is in -8..7 and a mask in 0..255.                               *)
(***************************************************************************)
EXTENDS IndexFile

Entry(tree, list) == [trees |-> <<tree>>, list |-> list]

SmallIndexes ==
    { <<>>,
      << Entry(<<0, 1, 6>>, << <<0, 0>>, <<1, 3>> >>) >>,
      << Entry(<<0, 2, 0>>, << <<2, 3>> >>),
         Entry(<<1, 0, 255>>, << <<0, 0>>, <<2, 3>> >>) >> }

\* Among the values of an integer never read are the number of trees, a size that
\* fits, one that is too large and a negative one.
SomeGarbage == {-1, 0, 1, 3}
=============================================================================
