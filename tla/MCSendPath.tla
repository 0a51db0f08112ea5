----------------------------- MODULE MCSendPath -----------------------------
(***************************************************************************)
(* Small instances of SendPath for TLC.                                    *)
(***************************************************************************)
EXTENDS SendPath, TLC

Sent(g, d) == [group |-> g, dedup |-> d, fits |-> TRUE]
Plain == Sent(<<"a">>, <<"x">>)
NoDedup == Sent(<<"a">>, <<>>)
NoGroup == Sent(<<>>, <<>>)
TooLarge == [Plain EXCEPT !.fits = FALSE]

\* A message that may be retried, a batch that starts with one without a group,
\* and a batch that starts with one that is too large.
SomeBatches == {<<Plain>>, <<NoGroup, Plain>>, <<TooLarge, NoDedup>>}
OneBatch == {<<Plain>>}

Fifo == [fifo |-> TRUE]
Standard == [fifo |-> FALSE]
SomeMetas == {Fifo, Standard}
FifoOnly == {Fifo}

Symmetry == Permutations(Sender)
=============================================================================
