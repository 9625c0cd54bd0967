------------------------------- MODULE Tester -------------------------------
(***************************************************************************)
(* The test runner, src/src/tester.cj, with run of src/src/cangjie_lua.cj  *)
(* and the capture of src/src/runtime/print_runtime.cj around it.  Tests   *)
(* run one after the other; what a source does is given with it: where it  *)
(* ends, what it prints before, and its value or message.                  *)
(*                                                                         *)
(* A float is counted in EPSILON, an integer in ones.                      *)
(***************************************************************************)
EXTENDS Integers, Sequences, FiniteSets

CONSTANTS Files,      \* what there is to test
          Unit,       \* EPSILON * Unit = 1
          Exact       \* 2^53: a Float64 has every integer up to it

(* The test that runs, the place in it, and the rest of Files.             *)
VARIABLES test, at, tests, printed, result, engineError
(* PrintRuntime.currentOutputs, a list in lists or 0; the Lua states.      *)
VARIABLES currentOutputs, lists, open
VARIABLES passed, failed, errors

runVars == <<test, at, tests, printed, result, engineError>>
captureVars == <<currentOutputs, lists>>
counters == <<passed, failed, errors>>
testerVars == <<runVars, captureVars, open, counters>>

Absent == [kind |-> "none"]
NoText == ""
NilValue == [kind |-> "nil"]
IntValue(i) == [kind |-> "int", n |-> i]
FloatValue(n) == [kind |-> "float", n |-> n]
NaN == [kind |-> "nan"]
BoolValue(b) == [kind |-> "bool", b |-> b]
TextValue(s) == [kind |-> "text", s |-> s]

(* A value, and one that was expected: no literal is read as NaN.          *)
Expected ==
  {NilValue} \cup [kind : {"int", "float"}, n : Int]
    \cup [kind : {"bool"}, b : BOOLEAN] \cup [kind : {"text"}, s : STRING]
Value == Expected \cup {NaN}
Ways == {"LEXER", "PARSER", "exception", "load", "RUNTIME", "value"}

(* Sources with what is expected of them.                                  *)
Test ==
  [ends : Ways, message : STRING, prints : Seq(Value), value : Value \cup {Absent}, expectError : STRING,
   expectOutputs : {Absent} \cup [kind : {"outputs"}, values : Seq(Expected)],
   expectReturn : {Absent} \cup Expected]

ASSUME UnitAssumption == Unit \in Nat /\ Unit > 1
ASSUME ExactAssumption == Exact \in Nat
ASSUME FilesAssumption ==
  \A fs \in Files :
    fs \in Seq(Test) /\ \A t \in 1..Len(fs) : fs[t].ends = "value" => fs[t].value # Absent

----------------------------------------------------------------------------
(* Comparing values.                                                       *)

(* Float64 of an Int64: beyond Exact only every second, fourth, ... integer *)
(* is left, and the nearest is taken, of two the even one.                 *)
Steps == {1, 2, 4, 8, 16, 32, 64, 128, 256, 512, 1024}
Nearest(i) ==
  LET step == CHOOSE p \in Steps : /\ i <= p * Exact
                                   /\ \A q \in Steps : i <= q * Exact => p <= q
      below == i \div step
      up == 2 * (i % step) > step \/ (2 * (i % step) = step /\ below % 2 = 1)
  IN step * IF up THEN below + 1 ELSE below
Float64(i) == IF i \in -Exact..Exact THEN i ELSE IF i > 0 THEN Nearest(i) ELSE -Nearest(-i)
AsFloat(v) == IF v.kind = "int" THEN Float64(v.n) * Unit ELSE v.n

(* Every comparison with NaN is false.                                     *)
isNumber(v) == v.kind \in {"int", "float"}
WithinEpsilon(a, e) == AsFloat(a) - AsFloat(e) \in -1..1
runtimeValueEquals(actual, expected) ==
  IF actual.kind = "int" /\ expected.kind = "int" THEN actual.n = expected.n
  ELSE IF isNumber(actual) /\ isNumber(expected) THEN WithinEpsilon(actual, expected)
  ELSE actual.kind # "nan" /\ actual = expected

verifyOutputs(actual, expected) ==
  /\ Len(actual) = Len(expected)
  /\ \A i \in 1..Len(expected) : runtimeValueEquals(actual[i], expected[i])

(* The expected value is true, false or a number; nil and other texts are  *)
(* not.  A difference that is NaN is not greater than EPSILON.             *)
verifyReturnValue(actual, expected) ==
  \/ expected.kind = "bool" /\ actual = expected
  \/ /\ isNumber(expected)
     /\ actual.kind = "nan" \/ (isNumber(actual) /\ WithinEpsilon(actual, expected))

----------------------------------------------------------------------------
TesterInit ==
  /\ test = 0 /\ at = "idle" /\ tests \in Files /\ printed = <<>>
  /\ result = Absent /\ engineError = NoText
  /\ currentOutputs = 0 /\ lists = <<>> /\ open = 0
  /\ passed = 0 /\ failed = 0 /\ errors = <<>>

(* runTest up to the call of run: a new list takes what is printed.  A     *)
(* slip: a capture that is still on goes on.                               *)
beginCaptureOnce(list) == currentOutputs' = IF currentOutputs = 0 THEN list ELSE currentOutputs
beginCapture(list) == currentOutputs' = list
runTest ==
  /\ at = "idle" /\ test < Len(tests)
  /\ test' = test + 1 /\ at' = "compile"
  /\ lists' = Append(lists, <<>>)
  /\ beginCapture(Len(lists) + 1)
  /\ printed' = <<>> /\ result' = Absent /\ engineError' = NoText
  /\ UNCHANGED <<tests, open, counters>>

Source == tests[test]

(* compileToBytecode, and the exceptions of generate.                      *)
compileToBytecode ==
  /\ at = "compile"
  /\ \/ /\ Source.ends \in {"LEXER", "PARSER"}
        /\ engineError' = Source.message /\ at' = "check" /\ currentOutputs' = 0
        /\ UNCHANGED open
     \/ /\ Source.ends = "exception"
        /\ at' = "caught" /\ UNCHANGED <<engineError, currentOutputs, open>>
     \/ /\ Source.ends \in {"load", "RUNTIME", "value"}
        /\ open' = open + 1 /\ at' = "run" /\ UNCHANGED <<engineError, currentOutputs>>
  /\ UNCHANGED <<test, tests, printed, result, lists, counters>>

appendOutputValue(v) ==
  lists' = IF currentOutputs = 0 THEN lists
           ELSE [lists EXCEPT ![currentOutputs] = Append(@, v)]
(* println of the program that runs.                                       *)
cangjiePrintln ==
  /\ at = "run" /\ Source.ends # "load" /\ Len(printed) < Len(Source.prints)
  /\ LET v == Source.prints[Len(printed) + 1]
     IN printed' = Append(printed, v) /\ appendOutputValue(v)
  /\ UNCHANGED <<test, at, tests, result, engineError, currentOutputs, open, counters>>

(* The rest of executeBytecode, and endCapture.                            *)
(* A slip: the state is not closed when the program fails.                 *)
executeBytecodeLeaks ==
  /\ at = "run" /\ (Source.ends = "load" \/ printed = Source.prints)
  /\ IF Source.ends = "value" THEN result' = Source.value /\ UNCHANGED engineError
                              ELSE engineError' = Source.message /\ UNCHANGED result
  /\ open' = IF Source.ends = "RUNTIME" THEN open ELSE open - 1
  /\ currentOutputs' = 0 /\ at' = "check"
  /\ UNCHANGED <<test, tests, printed, lists, counters>>
executeBytecode ==
  /\ at = "run" /\ (Source.ends = "load" \/ printed = Source.prints)
  /\ IF Source.ends = "value" THEN result' = Source.value /\ UNCHANGED engineError
                              ELSE engineError' = Source.message /\ UNCHANGED result
  /\ open' = open - 1
  /\ currentOutputs' = 0 /\ at' = "check"
  /\ UNCHANGED <<test, tests, printed, lists, counters>>

passTest == passed' = passed + 1 /\ UNCHANGED <<failed, errors>>
failTest(why) == failed' = failed + 1 /\ errors' = Append(errors, <<test, why>>) /\ UNCHANGED passed

verifyExpectedError ==
  IF result # Absent THEN failTest("succeeded")
  ELSE IF Source.expectError \notin {"any", engineError} THEN failTest("message") ELSE passTest
Verify ==
  IF result = Absent THEN failTest("error")
  ELSE IF Source.expectOutputs # Absent /\ ~verifyOutputs(lists[test], Source.expectOutputs.values)
  THEN failTest("outputs")
  ELSE IF Source.expectReturn # Absent /\ ~verifyReturnValue(result, Source.expectReturn)
  THEN failTest("return") ELSE passTest
(* A slip: an expected error is looked for only when the source succeeds.  *)
checkResultLate ==
  /\ at = "check" /\ at' = "idle"
  /\ IF Source.expectError # NoText /\ result # Absent THEN verifyExpectedError ELSE Verify
  /\ UNCHANGED <<test, tests, printed, result, engineError, captureVars, open>>
checkResult ==
  /\ at = "check" /\ at' = "idle"
  /\ IF Source.expectError # NoText THEN verifyExpectedError ELSE Verify
  /\ UNCHANGED <<test, tests, printed, result, engineError, captureVars, open>>

(* runTestFile: what run throws is reported as a file that cannot be read. *)
(* Two slips: it is reported but not counted, or ends the run of tests.    *)
catchUncounted ==
  /\ at = "caught" /\ at' = "idle"
  /\ errors' = Append(errors, <<test, "read error">>) /\ UNCHANGED <<passed, failed>>
  /\ UNCHANGED <<test, tests, printed, result, engineError, captureVars, open>>
catchStops ==
  /\ at = "caught" /\ at' = "stopped" /\ UNCHANGED counters
  /\ UNCHANGED <<test, tests, printed, result, engineError, captureVars, open>>
catch ==
  /\ at = "caught" /\ at' = "idle" /\ failTest("read error")
  /\ UNCHANGED <<test, tests, printed, result, engineError, captureVars, open>>

TesterNext ==
  \/ runTest \/ compileToBytecode \/ cangjiePrintln \/ executeBytecode
  \/ checkResult \/ catch

TesterSpec == TesterInit /\ [][TesterNext]_testerVars /\ WF_testerVars(TesterNext)

----------------------------------------------------------------------------
(* What is asked of the verdict on a source: an error of any kind where    *)
(* one is expected (src/README.md 10.2, tester.cj 92-95 and 108-111), else *)
(* its outputs and value, by what they are as numbers (10.3, tester.cj 74, *)
(* 236): two integers are the same, or a float is within EPSILON.          *)

Finished == IF at = "idle" THEN 1..test ELSE 1..test-1
Failed == {errors[j][1] : j \in 1..Len(errors)}

Number(v) == IF v.kind = "int" THEN v.n * Unit ELSE v.n
Alike(a, e) ==
  \/ a = e
  \/ /\ isNumber(a) /\ isNumber(e) /\ "float" \in {a.kind, e.kind}
     /\ Number(a) - Number(e) \in -1..1
OutputsAlike(as, es) == Len(as) = Len(es) /\ \A j \in DOMAIN es : Alike(as[j], es[j])
ShouldPass(s) ==
  IF s.expectError # NoText
  THEN s.ends # "value" /\ s.expectError \in {"any", s.message}
  ELSE /\ s.ends = "value"
       /\ s.expectOutputs = Absent \/ OutputsAlike(s.prints, s.expectOutputs.values)
       /\ \/ s.expectReturn = Absent
          \/ s.expectReturn.kind \in {"bool", "int", "float"} /\ Alike(s.value, s.expectReturn)

(* Where the verdict may be another: an expected error that generate       *)
(* throws, and is counted as a file that cannot be read (323); a returned  *)
(* NaN, which is near every number (250); an integer that is not itself as *)
(* a Float64, where it is compared as one (163, 173, 240).                 *)
Rounded(v) == v.kind = "int" /\ Float64(v.n) # v.n
RoundedPair(a, e) == isNumber(a) /\ isNumber(e) /\ (Rounded(a) \/ Rounded(e))
Excepted(s) ==
  \/ s.ends = "exception" /\ s.expectError \in {"any", s.message}
  \/ /\ s.ends = "value" /\ s.expectReturn # Absent /\ isNumber(s.expectReturn)
     /\ s.value = NaN \/ RoundedPair(s.value, s.expectReturn)
  \/ /\ s.expectOutputs # Absent
     /\ \E j \in DOMAIN s.prints \cap DOMAIN s.expectOutputs.values :
          LET a == s.prints[j]  e == s.expectOutputs.values[j]
          IN RoundedPair(a, e) /\ a.kind # e.kind

(* A test fails for what its own source does and prints, whatever the test *)
(* before it left in the counters and in the static capture (runTest, 262).*)
(* Each is counted once and each failed one has its line in the summary,   *)
(* on every way out of a test (49-63, 323-327).  Every Lua state is closed *)
(* when the next test begins (cangjie_lua.cj 83-104 has three ways out,    *)
(* and generate throws before there is a state).                           *)
VerdictsRight ==
  /\ \A t \in Finished : ~Excepted(tests[t]) => (t \in Failed) = ~ShouldPass(tests[t])
  /\ passed + failed = Cardinality(Finished)
  /\ failed = Len(errors) /\ failed = Cardinality(Failed)
  /\ at # "run" => open = 0

(* The summary names the tests that should fail, and no other              *)
(* (printSummary, 378-383).  Not so for the sources that are Excepted.     *)
SummaryRight ==
  at = "idle" /\ test = Len(tests) => Failed = {t \in 1..test : ~ShouldPass(tests[t])}

(* What a test printed stays as it is when its verdict is given: although  *)
(* an exception leaves the capture on, later tests do not print into it.   *)
OutputsStay == [][\A t \in Finished : lists'[t] = lists[t]]_testerVars

(* All tests are run, also after one that throws.                          *)
AllRun == <>(at = "idle" /\ test = Len(tests))
=============================================================================
