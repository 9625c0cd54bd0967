------------------------------ MODULE MCTester ------------------------------
(***************************************************************************)
(* Every source and expectation below, behind a test that passes or fails. *)
(* Integers beyond 4 are not all Float64s: 5 becomes 4, and 6 is one.      *)
(***************************************************************************)
EXTENDS Tester

MCUnit == 4
MCExact == 4
Values(vs) == [kind |-> "outputs", values |-> vs]

Way(ends, message, prints, value) == [ends |-> ends, message |-> message, prints |-> prints, value |-> value]
Ends ==
  {Way(e, "a", <<>>, Absent) : e \in {"LEXER", "PARSER", "load", "exception"}}
  \cup {Way("RUNTIME", m, <<IntValue(1)>>, Absent) : m \in {"a", "b"}}
  \cup {Way("value", "", <<IntValue(1), v>>, v) :
          v \in {FloatValue(5), IntValue(1), IntValue(5), IntValue(6), BoolValue(TRUE), NilValue, TextValue("x")}}
  \cup {Way("value", "", <<>>, NilValue), Way("value", "", <<IntValue(1), NaN>>, NaN)}
Expect == [expectError : {"", "any", "a"},
           expectOutputs : {Absent, Values(<<IntValue(1)>>), Values(<<IntValue(1), FloatValue(6)>>),
                            Values(<<IntValue(1), IntValue(5)>>), Values(<<IntValue(1), BoolValue(TRUE)>>)},
           expectReturn : {Absent, IntValue(1), IntValue(4), FloatValue(6), FloatValue(24), BoolValue(TRUE), NilValue}]
NoExpectation == [expectError |-> "", expectOutputs |-> Absent, expectReturn |-> Absent]
Both(s, x) == [ends |-> s.ends, message |-> s.message, prints |-> s.prints, value |-> s.value,
               expectError |-> x.expectError, expectOutputs |-> x.expectOutputs,
               expectReturn |-> x.expectReturn]
Tests == {Both(s, x) : s \in Ends, x \in {y \in Expect : y.expectError # "" => y.expectReturn = Absent}}
First == {t \in Tests : t.expectError = "any" /\ t.expectOutputs = Absent}
MCFiles == {<<>>} \cup {<<s, t>> : s \in First, t \in Tests}
NoFiles == {<<>>}

(* An error that generate throws where any error is expected; a returned   *)
(* NaN, and an integer that is the expected one only as a Float64.         *)
MisjudgedFiles ==
  {<<Both(Way("exception", "a", <<>>, Absent), [NoExpectation EXCEPT !.expectError = "any"]),
     Both(Way("value", "", <<>>, NaN), [NoExpectation EXCEPT !.expectReturn = IntValue(1)]),
     Both(Way("value", "", <<>>, IntValue(5)), [NoExpectation EXCEPT !.expectReturn = IntValue(4)])>>}
=============================================================================
