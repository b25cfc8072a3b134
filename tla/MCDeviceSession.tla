---------------------------- MODULE MCDeviceSession ---------------------------
EXTENDS DeviceSession

CONSTANTS m1, m2, m3, m4, m5
Five == {m1, m2, m3, m4, m5}
Header(l, n) == [sn |-> TRUE, client |-> TRUE, account |-> TRUE, time |-> TRUE, ext |-> TRUE,
                 magic |-> TRUE, low |-> l, len |-> n]
Long == Header(128, 138)
Short == Header(128, 136)
Other == [Long EXCEPT !.account = FALSE, !.ext = FALSE]
Signed(h, k, n) == [decodes |-> TRUE, ret |-> 0, head |-> h, kept |-> k, hex |-> 400, pages |-> n]
Garbage == [decodes |-> FALSE, ret |-> -1, head |-> Long, kept |-> FALSE, hex |-> 400, pages |-> 1]
Bare == [Signed(Long, FALSE, 1) EXCEPT !.hex = 0]
Declined == [Signed(Long, FALSE, 1) EXCEPT !.ret = -1]
AllClasses == {Signed(Long, TRUE, 2), Signed(Short, FALSE, 1), Signed(Long, FALSE, 1),
               Garbage, Declined, Bare}
Batch(p, h, s) == [parses |-> p, head |-> h, items |-> s]
Good == Signed(Long, TRUE, 2)
SomeBatches == {Batch(FALSE, Long, <<Good>>), Batch(TRUE, Other, <<Good>>),
                Batch(TRUE, Long, <<Good, Declined>>), Batch(TRUE, Long, <<Good, Good>>)}
SomeValues == {-1, 0, 1, 2, 3}

\* Four words of one letter, none of the next: two letters list them, and the fourth
\* letter has a list of two and Back.
Vocabulary == << <<1, 1>>, <<1, 1, 2>>, <<1, 2>>, <<1, 4>>, <<3, 1>>, <<4, 1>>, <<4, 4>> >>
SomeMnemonics == { <<5, 1, 1>>, <<1, 5, 2, 1>> }
SomePins == { <<1, 1, 1, 1, 1, 2>>, <<9, 8, 7, 6, 5, 0>>, <<4, 5, 6, 7, 8, 9>> }
SomePhrases == { <<1>>, <<1, 0, 1>>, <<1, 0>> }
SomeCounts == {3, 4}
=============================================================================
