------------------------------ MODULE MCChunking ------------------------------
(* Small documents for TLC. *)
EXTENDS Chunking

\* Headings that nest, one too long to embed; bodies that fit, are split, hold one wide word.
AHeading(level, title, numbered) ==
    [level |-> level, title |-> title, numbered |-> numbered, anchor |-> ~ numbered,
     words |-> 0, width |-> 0]
ABody(words, width) ==
    [level |-> 0, title |-> 0, numbered |-> FALSE, anchor |-> FALSE, words |-> words, width |-> width]
Blocks ==
    {AHeading(1, 4, TRUE), AHeading(1, 12, FALSE), AHeading(2, 3, FALSE),
     ABody(1, 3), ABody(3, 3), ABody(6, 3), ABody(20, 3), ABody(1, 40)}
LocatorOrders == {<<"book-page", "numbered-section">>, <<"web-fragment">>}
=============================================================================
