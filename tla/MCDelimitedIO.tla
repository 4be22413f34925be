---------------------------- MODULE MCDelimitedIO ----------------------------
EXTENDS DelimitedIO

\* With bytes of two values a length has two binary digits: messages of one, two
\* and three bytes, or the empty one, the shortest and the longest.
Some  == {<<0>>, <<1, 0>>, <<1, 1, 0>>}
Mixed == {<<>>, <<0>>, <<1, 1, 0>>}
==============================================================================
