------------------------------ MODULE MCParsed ------------------------------
\* What follows a committed parse, for TLC.
EXTENDS Parsed, SequencesExt, TLC

CONSTANTS p1, n1, n2, n3, w1, w2, v1, v2

\* Two chunkers that cut the parse at different places.
MCOrdinals == v1 :> {0, 1} @@ v2 :> {0, 1}
MCChunkTexts == v1 :> (0 :> "a" @@ 1 :> "b") @@ v2 :> (0 :> "a" @@ 1 :> "c")

Kinds == {"heading", "paragraph", "table"}
WordLengths == {<<>>, <<3>>, <<9, 2>>, <<1, 1, 30, 1>>, <<4, 4, 4, 4, 4, 4, 4>>}

BlockWords(block, lengths) ==
    [i \in DOMAIN lengths |->
        [len |-> lengths[i], block |-> block, at |-> i, cites |-> {block}]]

\* Documents of three blocks: empty, small, over the maximum, and with a word
\* that is over it by itself; and the document without any.
MCDocuments ==
    {<<>>} \cup {[n \in 1..3 |-> [kind |-> k[n], words |-> BlockWords(n, l[n])]] :
                   k \in [1..3 -> Kinds], l \in [1..3 -> WordLengths]}

\* Two parses of one or two words in blocks that may be cut differently.
MCBlockTexts == {<<1>>, <<2>>, <<1, 2>>}

Quote(block, quote) == [block |-> block, quote |-> quote]
Claim(quotes, numbers) == [evidence |-> quotes, numbers |-> numbers]

\* The word 9 is a number, and the second block says 2 1 2 twice over itself.
MCBlocks == <<<<1, 2, 3, 9>>, <<2, 1, 2, 1, 2>>>>

\* Claims that are right, of two quotes, and wrong in each way there is.
ProposedClaims ==
    {Claim(<<Quote(1, <<1, 2>>)>>, {}),
     Claim(<<Quote(1, <<1, 2>>), Quote(1, <<3, 9>>)>>, {9}),
     Claim(<<Quote(2, <<2, 1, 2>>)>>, {}),
     Claim(<<Quote(2, <<2, 1>>)>>, {}),
     Claim(<<Quote(1, <<1, 2>>), Quote(3, <<1, 2>>)>>, {}),
     Claim(<<Quote(1, <<1, 2>>)>>, {9}),
     Claim(<<Quote(1, <<9>>)>>, {9}),
     Claim(<<Quote(1, <<3, 2>>)>>, {}),
     Claim(<<>>, {})}

MCProposals == SeqOf(ProposedClaims, 3)

MCSymmetry == Permutations({w1, w2}) \cup Permutations({n1, n2})
=============================================================================
