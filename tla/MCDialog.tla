------------------------------- MODULE MCDialog -------------------------------
EXTENDS StoreParity, TLC

\* Leading and trailing zeros, and halves, in every group of digits.
EveryWidth == {1, 5, 50, 99, 100, 101, 500, 999, 1000, 1005, 1050, 1234, 1999, 12345, 50000,
               99999, 100000, 123400, 123456, 1000000, 1234500, 1234567, 12345678, 100000000,
               123456789, 1234567000}
Symmetric == Permutations(Handlers) \cup Permutations(Urls)
=============================================================================
