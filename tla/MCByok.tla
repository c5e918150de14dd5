------------------------------- MODULE MCByok --------------------------------
(***************************************************************************)
(* A small instance of the BYOK store and relay: two instances around a    *)
(* change of the sealing key; a call that streams and one of another user  *)
(* that does not, with the same request id, one without id and model, and  *)
(* one with an id that is too long; and answers with usage in two lines,   *)
(* at and beyond the limit, in a last line without a line feed, in a JSON  *)
(* body, in a body that quotes "data:", and with a negative count.         *)
(***************************************************************************)
EXTENDS ByokRelay, Integers

MCSealingKey == [old |-> "k1", new |-> "k2"]

MCCalls == [
    c1 |-> [server |-> "old", owner |-> "o1", id |-> "q1", model |-> "m", longest |-> 4,
            stream |-> TRUE],
    c2 |-> [server |-> "new", owner |-> "o2", id |-> "q1", model |-> "m", longest |-> 4,
            stream |-> FALSE],
    c3 |-> [server |-> "old", owner |-> "o1", id |-> NULL, model |-> NULL, longest |-> 4,
            stream |-> TRUE],
    c4 |-> [server |-> "old", owner |-> "o1", id |-> "q2", model |-> "m", longest |-> 5,
            stream |-> FALSE]]

Line(size, marks, tokens, feed) ==
    [size |-> size, marks |-> marks, usage |-> tokens, feed |-> feed]

MCResponses == {
    << Line(2, {0}, 1, TRUE), Line(3, {0}, 2, TRUE) >>,
    << Line(1, {0}, 3, TRUE), Line(5, {0}, 4, TRUE) >>,
    << Line(1, {}, NULL, TRUE), Line(1, {0}, 5, FALSE) >>,
    << Line(3, {}, 6, FALSE) >>,
    << Line(3, {1}, 7, FALSE) >>,
    << Line(1, {}, -1, FALSE) >>}

MCWorkloads == {[puts |-> 3, calls |-> {}],
                [puts |-> 2, calls |-> {"c1", "c2"}],
                [puts |-> 1, calls |-> {"c3"}],
                [puts |-> 1, calls |-> {"c4"}]}
=============================================================================
