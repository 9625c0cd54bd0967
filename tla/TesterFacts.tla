---------------------------- MODULE TesterFacts ----------------------------
(***************************************************************************)
(* The verdicts of the test runner, for every list of tests, every EPSILON *)
(* and every size of the exact Float64s.                                   *)
(***************************************************************************)
EXTENDS Tester, TLAPS, FiniteSetTheorems, SequenceTheorems

----------------------------------------------------------------------------
(* The inductive invariant.                                                *)

Places == {"idle", "compile", "run", "check", "caught"}

Reasons == {"succeeded", "message", "error", "outputs", "return", "read error"}

(* What has been decided is about tests that have been run.                *)
Bookkeeping ==
  /\ tests \in Files
  /\ test \in 0..Len(tests) /\ at \in Places /\ (at # "idle" => test > 0)
  /\ printed \in Seq(Value)
  /\ lists \in Seq(Seq(Value)) /\ Len(lists) = test
  /\ currentOutputs \in 0..test
  /\ passed \in Nat /\ failed \in Nat
  /\ errors \in Seq(Nat \X Reasons)

(* Where the test that runs is: what it prints goes to its own list, and   *)
(* its result and message are those of its source.                         *)
OwnList == currentOutputs = test /\ lists[test] = printed /\ result = Absent /\ engineError = NoText
Progress ==
  /\ at = "compile" => OwnList /\ printed = <<>>
  /\ at = "run" => OwnList /\ Source.ends \in {"load", "RUNTIME", "value"}
  /\ at = "caught" => Source.ends = "exception"
  /\ at = "check" => /\ currentOutputs = 0 /\ Source.ends # "exception"
                     /\ IF Source.ends = "value"
                        THEN result = Source.value /\ lists[test] = Source.prints
                        ELSE result = Absent /\ engineError = Source.message

(* The states: only a program that runs has one.                           *)
StatesClosed == open = IF at = "run" THEN 1 ELSE 0

LastFinished == IF at = "idle" THEN test ELSE test - 1
Verdicts ==
  /\ \A t \in 1..LastFinished : ~Excepted(tests[t]) => (t \in Failed) = ~ShouldPass(tests[t])
  /\ Failed \subseteq 1..LastFinished
  /\ passed + failed = LastFinished
  /\ failed = Len(errors) /\ failed = Cardinality(Failed)

TesterInv == Bookkeeping /\ Progress /\ StatesClosed /\ Verdicts

----------------------------------------------------------------------------
(* Comparing.                                                              *)

(* Integers within EPSILON of each other are equal.                        *)
LEMMA IntegersApart ==
  ASSUME NEW i \in Int, NEW j \in Int
  PROVE  i * Unit - j * Unit \in -1..1 <=> i = j
<1>1. Unit \in Int /\ Unit > 1
  BY UnitAssumption
<1>2. i * Unit - j * Unit = (i - j) * Unit
  BY <1>1
<1>3. CASE i = j
  BY <1>1, <1>2, <1>3
<1>4. CASE i > j
  <2>1. (i - j) * Unit >= Unit
    BY <1>1, <1>4
  <2> QED
    BY <1>1, <1>2, <1>4, <2>1
<1>5. CASE j > i
  <2>1. (j - i) * Unit >= Unit
    BY <1>1, <1>5
  <2>2. (i - j) * Unit = -((j - i) * Unit)
    BY <1>1
  <2> QED
    BY <1>1, <1>2, <1>5, <2>1, <2>2
<1> QED
  BY <1>3, <1>4, <1>5

(* What kinds of values there are.                                         *)
LEMMA ExpectedKinds ==
  ASSUME NEW e \in Expected
  PROVE  \/ e.kind = "int" /\ e = [kind |-> "int", n |-> e.n] /\ e.n \in Int
         \/ e.kind = "float" /\ e = [kind |-> "float", n |-> e.n] /\ e.n \in Int
         \/ e.kind \in {"nil", "bool", "text"}
  BY DEF Expected, NilValue
LEMMA Kinds ==
  ASSUME NEW v \in Value
  PROVE  v \in Expected \/ v = NaN
  BY DEF Value

(* A number that is itself as a Float64 is compared as what it is.         *)
LEMMA FloatIsNumber ==
  ASSUME NEW v \in Expected, isNumber(v), ~Rounded(v)
  PROVE  AsFloat(v) = Number(v) /\ Number(v) \in Int
  BY ExpectedKinds, UnitAssumption DEF isNumber, Rounded, AsFloat, Number

LEMMA WithinIsAlike ==
  ASSUME NEW a \in Expected, NEW e \in Expected, isNumber(a), isNumber(e), ~Rounded(a), ~Rounded(e)
  PROVE  WithinEpsilon(a, e) <=> Alike(a, e)
<1>1. WithinEpsilon(a, e) <=> Number(a) - Number(e) \in -1..1
  BY FloatIsNumber DEF WithinEpsilon
<1>2. CASE a.kind = "int" /\ e.kind = "int"
  <2>1. Number(a) - Number(e) \in -1..1 <=> a.n = e.n
    BY <1>2, IntegersApart, ExpectedKinds DEF Number
  <2>2. a = e <=> a.n = e.n
    BY <1>2, ExpectedKinds
  <2> QED
    BY <1>1, <1>2, <2>1, <2>2 DEF Alike
<1>3. CASE "float" \in {a.kind, e.kind}
  <2>1. Alike(a, e) <=> a = e \/ Number(a) - Number(e) \in -1..1
    BY <1>3 DEF Alike
  <2>2. a = e => Number(a) - Number(e) \in -1..1
    BY FloatIsNumber
  <2> QED
    BY <1>1, <2>1, <2>2
<1> QED
  BY <1>2, <1>3, ExpectedKinds DEF isNumber

(* runtimeValueEquals is exact for two integers, and else unless an        *)
(* integer is rounded.                                                     *)
LEMMA EqualsIsAlike ==
  ASSUME NEW a \in Value, NEW e \in Expected, RoundedPair(a, e) => a.kind = e.kind
  PROVE  runtimeValueEquals(a, e) <=> Alike(a, e)
<1>1. CASE a = NaN
  BY <1>1, ExpectedKinds DEF runtimeValueEquals, Alike, NaN, isNumber
<1>2. CASE a \in Expected /\ ~(isNumber(a) /\ isNumber(e))
  BY <1>2, ExpectedKinds DEF runtimeValueEquals, Alike, isNumber
<1>3. CASE a \in Expected /\ a.kind = "int" /\ e.kind = "int"
  BY <1>3, ExpectedKinds DEF runtimeValueEquals, Alike
<1>4. CASE a \in Expected /\ isNumber(a) /\ isNumber(e) /\ ~(a.kind = "int" /\ e.kind = "int")
  <2>1. ~Rounded(a) /\ ~Rounded(e)
    BY <1>4, ExpectedKinds DEF RoundedPair, Rounded, isNumber
  <2>2. runtimeValueEquals(a, e) <=> WithinEpsilon(a, e)
    BY <1>4 DEF runtimeValueEquals
  <2> QED
    BY <1>4, <2>1, <2>2, WithinIsAlike
<1> QED
  BY <1>1, <1>2, <1>3, <1>4, Kinds

ComparedExactly(as, es) ==
  \A j \in DOMAIN as \cap DOMAIN es : RoundedPair(as[j], es[j]) => as[j].kind = es[j].kind
LEMMA OutputsVerified ==
  ASSUME NEW as \in Seq(Value), NEW es \in Seq(Expected), ComparedExactly(as, es)
  PROVE  verifyOutputs(as, es) <=> OutputsAlike(as, es)
<1>1. \A i \in 1..Len(es) : Len(as) = Len(es) => (runtimeValueEquals(as[i], es[i]) <=> Alike(as[i], es[i]))
  <2> SUFFICES ASSUME NEW i \in 1..Len(es), Len(as) = Len(es)
               PROVE  runtimeValueEquals(as[i], es[i]) <=> Alike(as[i], es[i])
    OBVIOUS
  <2>0. DOMAIN as = 1..Len(as)
    BY LenProperties
  <2>1. DOMAIN as = 1..Len(as) /\ DOMAIN es = 1..Len(es)
    BY <2>0, LenProperties
  <2>2. as[i] \in Value
    BY ElementOfSeq
  <2>3. es[i] \in Expected
    BY ElementOfSeq
  <2> QED
    BY <2>1, <2>2, <2>3, EqualsIsAlike DEF ComparedExactly
<1>2. DOMAIN es = 1..Len(es)
  OBVIOUS
<1> QED
  BY <1>1, <1>2 DEF verifyOutputs, OutputsAlike

LEMMA ReturnVerified ==
  ASSUME NEW a \in Value, NEW e \in Expected, isNumber(e) => a # NaN /\ ~RoundedPair(a, e)
  PROVE  verifyReturnValue(a, e) <=> e.kind \in {"bool", "int", "float"} /\ Alike(a, e)
<1>1. CASE isNumber(e) /\ isNumber(a)
  <2>1. a \in Expected /\ a.kind # "nan" /\ e.kind # "bool" /\ ~Rounded(a) /\ ~Rounded(e)
    BY <1>1, Kinds DEF RoundedPair, isNumber, NaN
  <2> QED
    BY <1>1, <2>1, WithinIsAlike DEF verifyReturnValue, isNumber
<1>2. CASE isNumber(e) /\ ~isNumber(a)
  <2>1. a.kind # "nan" /\ e.kind # "bool"
    BY <1>2, Kinds, ExpectedKinds DEF isNumber
  <2>2. a # e
    BY <1>2
  <2> QED
    BY <1>2, <2>1, <2>2 DEF verifyReturnValue, Alike
<1>3. CASE ~isNumber(e)
  BY <1>3 DEF verifyReturnValue, Alike, isNumber
<1> QED
  BY <1>1, <1>2, <1>3

----------------------------------------------------------------------------
(* One test.                                                               *)

(* The test that runs is one of Files.                                     *)
LEMMA SourceType ==
  ASSUME Bookkeeping, test > 0
  PROVE  Source \in Test /\ (Source.ends = "value" => Source.value # Absent)
<1>1. tests \in Seq(Test) /\ test \in 1..Len(tests)
  BY FilesAssumption DEF Bookkeeping
<1>2. tests[test] \in Test
  BY <1>1, ElementOfSeq
<1>3. tests[test].ends = "value" => tests[test].value # Absent
  BY <1>1, FilesAssumption DEF Bookkeeping
<1> QED
  BY <1>2, <1>3 DEF Source

LEMMA TestFields ==
  ASSUME NEW s \in Test
  PROVE  /\ s.ends \in Ways /\ s.message \in STRING /\ s.prints \in Seq(Value)
         /\ s.value \in Value \cup {Absent} /\ s.expectError \in STRING
         /\ s.expectOutputs = Absent \/ s.expectOutputs.values \in Seq(Expected)
         /\ s.expectReturn \in Expected \cup {Absent}
  BY DEF Test

LEMMA AbsentIsNoValue == Absent \notin Value
  BY DEF Absent, Value, Expected, NilValue, NaN

FailsOnce ==
  failed' = failed + 1 /\ passed' = passed /\ \E why \in Reasons : errors' = Append(errors, <<test, why>>)

(* The verdict is given once, and it is the one that is asked for.         *)
Judged == IF ShouldPass(Source) THEN passTest ELSE FailsOnce
LEMMA VerdictOnce ==
  ASSUME checkResult PROVE passTest \/ FailsOnce
  BY DEF checkResult, verifyExpectedError, Verify, failTest, FailsOnce, Reasons

LEMMA VerdictIsRight ==
  ASSUME TesterInv, checkResult, ~Excepted(Source)
  PROVE  Judged
<1> DEFINE s == Source
<1>1. at = "check" /\ test > 0 /\ s \in Test /\ (s.ends = "value" => s.value # Absent)
  BY SourceType DEF TesterInv, Bookkeeping, checkResult
<1>2. /\ s.ends \in Ways \ {"exception"} /\ s.prints \in Seq(Value) /\ s.value \in Value \cup {Absent}
      /\ s.expectOutputs = Absent \/ s.expectOutputs.values \in Seq(Expected)
      /\ s.expectReturn \in Expected \cup {Absent}
  BY <1>1, TestFields DEF TesterInv, Progress
<1>3. IF s.ends = "value" THEN result = s.value /\ lists[test] = s.prints /\ result # Absent
                          ELSE result = Absent /\ engineError = s.message
  BY <1>1 DEF TesterInv, Progress
<1>4. CASE s.expectError # NoText
  BY <1>2, <1>3, <1>4 DEF failTest, passTest, FailsOnce, Reasons, checkResult, verifyExpectedError, ShouldPass, Judged
<1>5. CASE s.expectError = NoText /\ s.ends # "value"
  BY <1>3, <1>5 DEF failTest, passTest, FailsOnce, Reasons, checkResult, Verify, ShouldPass, Judged
<1>6. CASE s.expectError = NoText /\ s.ends = "value"
  <2>1. result \in Value /\ result = s.value /\ lists[test] = s.prints
    BY <1>2, <1>3, <1>6
  <2>2. s.expectOutputs # Absent =>
          (verifyOutputs(s.prints, s.expectOutputs.values) <=> OutputsAlike(s.prints, s.expectOutputs.values))
    <3> SUFFICES ASSUME s.expectOutputs # Absent
                 PROVE  verifyOutputs(s.prints, s.expectOutputs.values) <=> OutputsAlike(s.prints, s.expectOutputs.values)
      OBVIOUS
    <3> DEFINE as == s.prints
               es == s.expectOutputs.values
    <3>1. as \in Seq(Value) /\ es \in Seq(Expected)
      BY <1>2
    <3>2. ComparedExactly(as, es)
      BY DEF Excepted, ComparedExactly
    <3> HIDE DEF as, es
    <3>3. verifyOutputs(as, es) <=> OutputsAlike(as, es)
      BY <3>1, <3>2, OutputsVerified
    <3> QED
      BY <3>3 DEF as, es
  <2>3. s.expectReturn # Absent =>
          (verifyReturnValue(result, s.expectReturn)
             <=> s.expectReturn.kind \in {"bool", "int", "float"} /\ Alike(result, s.expectReturn))
    BY <1>2, <1>6, <2>1, ReturnVerified DEF Excepted
  <2>4. IF s.expectOutputs # Absent /\ ~OutputsAlike(s.prints, s.expectOutputs.values) THEN failTest("outputs")
        ELSE IF s.expectReturn # Absent /\ ~verifyReturnValue(result, s.expectReturn) THEN failTest("return")
        ELSE passTest
    BY <1>3, <1>6, <2>1, <2>2, AbsentIsNoValue DEF checkResult, Verify
  <2> QED
    BY <1>6, <2>1, <2>2, <2>3, <2>4 DEF failTest, passTest, FailsOnce, Reasons, ShouldPass, Judged
<1> QED
  BY <1>4, <1>5, <1>6

----------------------------------------------------------------------------
(* The counters and the summary.                                           *)

LEMMA FailedIsFinite == Verdicts /\ Bookkeeping => IsFiniteSet(Failed)
<1> SUFFICES ASSUME Verdicts, Bookkeeping PROVE IsFiniteSet(Failed)
  OBVIOUS
<1>1. LastFinished \in Int
  BY DEF Bookkeeping, LastFinished
<1>2. IsFiniteSet(1..LastFinished)
  BY <1>1, FS_Interval
<1> QED
  BY <1>2, FS_Subset DEF Verdicts

LEMMA FailedGrows ==
  ASSUME Bookkeeping, FailsOnce
  PROVE  Failed' = Failed \cup {test}
<1> PICK why \in Reasons : errors' = Append(errors, <<test, why>>)
  BY DEF FailsOnce
<1>1. /\ Len(errors') = Len(errors) + 1 /\ Len(errors) \in Nat
      /\ errors'[Len(errors) + 1] = <<test, why>>
      /\ \A j \in 1..Len(errors) : errors'[j] = errors[j]
  BY DEF Bookkeeping
<1>2. Failed' = {errors'[j][1] : j \in 1..(Len(errors) + 1)}
  BY <1>1 DEF Failed
<1>3. Failed' = {errors'[j][1] : j \in 1..Len(errors)} \cup {errors'[Len(errors) + 1][1]}
  BY <1>1, <1>2
<1> QED
  BY <1>1, <1>3 DEF Failed

LEMMA VerdictsKept ==
  ASSUME Verdicts, tests' = tests, errors' = errors, passed' = passed, failed' = failed, LastFinished' = LastFinished
  PROVE  Verdicts'
  BY DEF Verdicts, Failed

LEMMA VerdictGiven ==
  ASSUME Bookkeeping, Verdicts, at # "idle", at' = "idle", tests' = tests, test' = test,
         passTest \/ FailsOnce, ~Excepted(Source) => Judged
  PROVE  Verdicts'
<1>1. test \in Nat /\ test > 0 /\ LastFinished = test - 1 /\ LastFinished' = test
  BY DEF Bookkeeping, LastFinished
<1>2. /\ Failed \subseteq 1..(test - 1) /\ passed \in Nat /\ failed \in Nat /\ passed + failed = test - 1
      /\ failed = Len(errors) /\ failed = Cardinality(Failed)
  BY <1>1 DEF Verdicts, Bookkeeping
<1>3. CASE passTest
  <2>1. passed' = passed + 1 /\ failed' = failed /\ errors' = errors /\ Failed' = Failed
    BY <1>3 DEF passTest, Failed
  <2>2. ~Excepted(Source) => ShouldPass(Source)
    BY <1>2, <2>1 DEF Judged, FailsOnce
  <2>3. \A t \in 1..test : ~Excepted(tests[t]) => (t \in Failed) = ~ShouldPass(tests[t])
    BY <1>1, <1>2, <2>2 DEF Verdicts, Source
  <2>4. Failed' \subseteq 1..LastFinished'
    BY <1>1, <1>2, <2>1
  <2>5. passed' + failed' = LastFinished'
    BY <1>1, <1>2, <2>1
  <2>6. failed' = Len(errors')
    BY <1>2, <2>1
  <2>7. failed' = Cardinality(Failed')
    BY <1>2, <2>1, Zenon
  <2>8. \A t \in 1..LastFinished' : ~Excepted(tests'[t]) => (t \in Failed') = ~ShouldPass(tests'[t])
    BY <1>1, <2>1, <2>3
  <2> QED
    BY <2>4, <2>5, <2>6, <2>7, <2>8 DEF Verdicts
<1>4. CASE FailsOnce
  <2>1. Failed' = Failed \cup {test} /\ failed' = failed + 1 /\ passed' = passed
    BY <1>4, FailedGrows DEF FailsOnce
  <2>2. Len(errors') = Len(errors) + 1
    BY <1>4 DEF Bookkeeping, FailsOnce
  <2>3. Cardinality(Failed') = Cardinality(Failed) + 1
    BY <1>1, <1>2, <2>1, FailedIsFinite, FS_AddElement
  <2>4. ~Excepted(Source) => ~ShouldPass(Source)
    BY <1>2, <2>1 DEF Judged, passTest
  <2>5. \A t \in 1..test : ~Excepted(tests[t]) => (t \in Failed') = ~ShouldPass(tests[t])
    BY <1>1, <1>2, <2>1, <2>4 DEF Verdicts, Source
  <2>6. \A t \in 1..LastFinished' : ~Excepted(tests'[t]) => (t \in Failed') = ~ShouldPass(tests'[t])
    BY <1>1, <2>5
  <2>7. passed' + failed' = LastFinished' /\ Failed' \subseteq 1..LastFinished'
    BY <1>1, <1>2, <2>1
  <2>8. failed' = Len(errors') /\ failed' = Cardinality(Failed')
    BY <1>2, <2>1, <2>2, <2>3
  <2> QED
    BY <2>6, <2>7, <2>8 DEF Verdicts
<1> QED
  BY <1>3, <1>4

----------------------------------------------------------------------------
(* Each action preserves the invariant.                                    *)

LEMMA InitInv == TesterInit => TesterInv
<1> SUFFICES ASSUME TesterInit PROVE TesterInv
  OBVIOUS
<1>1. Failed = {} /\ Cardinality(Failed) = 0 /\ Len(errors) = 0
  <2>0. errors = <<>>
    BY DEF TesterInit
  <2>1. 1..Len(errors) = {}
    BY <2>0
  <2>2. Failed = {}
    BY <2>1 DEF Failed
  <2> QED
    BY <2>0, <2>2, EmptySeq, FS_EmptySet
<1>2. tests \in Seq(Test)
  BY FilesAssumption DEF TesterInit
<1>3. tests \in Files /\ test = 0 /\ at = "idle" /\ currentOutputs = 0 /\ passed = 0 /\ failed = 0
  BY DEF TesterInit
<1>4. printed \in Seq(Value) /\ lists \in Seq(Seq(Value)) /\ Len(lists) = 0 /\ errors \in Seq(Nat \X Reasons)
  BY EmptySeq DEF TesterInit
<1>5. Bookkeeping
  BY <1>2, <1>3, <1>4 DEF Bookkeeping, Places
<1>6. Verdicts
  BY <1>1, <1>3 DEF Verdicts, LastFinished
<1> QED
  BY <1>3, <1>5, <1>6 DEF TesterInv, TesterInit, Progress, StatesClosed

LEMMA runTestInv == TesterInv /\ runTest => TesterInv'
<1> SUFFICES ASSUME TesterInv, runTest PROVE TesterInv'
  OBVIOUS
<1>1. /\ at = "idle" /\ at' = "compile" /\ test < Len(tests) /\ test' = test + 1
      /\ printed' = <<>> /\ result' = Absent /\ engineError' = NoText
      /\ lists' = Append(lists, <<>>) /\ currentOutputs' = Len(lists) + 1
      /\ UNCHANGED <<tests, open, passed, failed, errors>>
  BY DEF runTest, beginCapture, counters
<1>2. /\ tests \in Seq(Test) /\ test \in Nat /\ lists \in Seq(Seq(Value)) /\ Len(lists) = test
      /\ <<>> \in Seq(Value)
  BY FilesAssumption, EmptySeq DEF TesterInv, Bookkeeping
<1>3. lists' \in Seq(Seq(Value)) /\ Len(lists') = test + 1 /\ lists'[test + 1] = <<>>
  BY <1>1, <1>2, AppendProperties
<1>4. Bookkeeping'
  <2>1. test' \in 0..Len(tests') /\ at' \in Places /\ test' > 0 /\ currentOutputs' \in 0..test'
    BY <1>1, <1>2 DEF Places
  <2> QED
    BY <1>1, <1>2, <1>3, <2>1 DEF TesterInv, Bookkeeping
<1>5. Progress'
  BY <1>1, <1>2, <1>3 DEF Progress, OwnList
<1>6. StatesClosed'
  BY <1>1 DEF TesterInv, StatesClosed
<1>7. LastFinished' = LastFinished
  BY <1>1, <1>2 DEF LastFinished
<1>8. Verdicts'
  BY <1>1, <1>7, VerdictsKept DEF TesterInv
<1> QED
  BY <1>4, <1>5, <1>6, <1>8 DEF TesterInv

LEMMA compileInv == TesterInv /\ compileToBytecode => TesterInv'
<1> SUFFICES ASSUME TesterInv, compileToBytecode PROVE TesterInv'
  OBVIOUS
<1>1. Bookkeeping'
  BY DEF TesterInv, Bookkeeping, compileToBytecode, counters, Places
<1>2. Progress'
  BY DEF TesterInv, Progress, OwnList, compileToBytecode, Source
<1>3. StatesClosed'
  BY DEF TesterInv, StatesClosed, compileToBytecode
<1>4. LastFinished' = LastFinished
  BY DEF LastFinished, compileToBytecode
<1>5. Verdicts'
  BY <1>4, VerdictsKept DEF TesterInv, compileToBytecode, counters
<1> QED
  BY <1>1, <1>2, <1>3, <1>5 DEF TesterInv

LEMMA printInv == TesterInv /\ cangjiePrintln => TesterInv'
<1> SUFFICES ASSUME TesterInv, cangjiePrintln PROVE TesterInv'
  OBVIOUS
<1> DEFINE v == Source.prints[Len(printed) + 1]
<1>0. at = "run" /\ test \in Nat /\ test > 0 /\ lists \in Seq(Seq(Value)) /\ Len(lists) = test
  BY DEF TesterInv, Bookkeeping, cangjiePrintln
<1>1. /\ at = "run" /\ test \in 1..Len(lists) /\ currentOutputs = test /\ lists[test] = printed
      /\ printed \in Seq(Value) /\ lists \in Seq(Seq(Value)) /\ Len(lists) = test
  BY <1>0 DEF TesterInv, Progress, OwnList, Bookkeeping
<1>2. v \in Value
  <2>1. Source.prints \in Seq(Value)
    BY SourceType, TestFields, <1>1 DEF TesterInv
  <2>2. Len(printed) + 1 \in 1..Len(Source.prints)
    BY <1>1, <2>1 DEF cangjiePrintln
  <2> QED
    BY <2>1, <2>2, ElementOfSeq
<1>3. printed' = Append(printed, v) /\ lists' = [lists EXCEPT ![test] = Append(printed, v)]
  BY <1>1 DEF cangjiePrintln, appendOutputValue
<1> HIDE DEF v
<1>4. /\ printed' \in Seq(Value) /\ lists' \in Seq(Seq(Value))
      /\ Len(lists') = test /\ lists'[test] = printed'
  BY <1>1, <1>2, <1>3
<1>5. Bookkeeping'
  BY <1>4 DEF TesterInv, Bookkeeping, cangjiePrintln, counters
<1>6. Progress'
  BY <1>1, <1>4 DEF TesterInv, Progress, OwnList, cangjiePrintln, Source
<1>7. StatesClosed'
  BY DEF TesterInv, StatesClosed, cangjiePrintln
<1>8. LastFinished' = LastFinished
  BY DEF LastFinished, cangjiePrintln
<1>9. Verdicts'
  BY <1>8, VerdictsKept DEF TesterInv, cangjiePrintln, counters
<1> QED
  BY <1>5, <1>6, <1>7, <1>9 DEF TesterInv

LEMMA executeInv == TesterInv /\ executeBytecode => TesterInv'
<1> SUFFICES ASSUME TesterInv, executeBytecode PROVE TesterInv'
  OBVIOUS
<1>1. Bookkeeping'
  BY DEF TesterInv, Bookkeeping, executeBytecode, counters, Places
<1>2. Progress'
  BY DEF TesterInv, Progress, OwnList, executeBytecode, Source
<1>3. StatesClosed'
  BY DEF TesterInv, StatesClosed, executeBytecode
<1>4. LastFinished' = LastFinished
  BY DEF LastFinished, executeBytecode
<1>5. Verdicts'
  BY <1>4, VerdictsKept DEF TesterInv, executeBytecode, counters
<1> QED
  BY <1>1, <1>2, <1>3, <1>5 DEF TesterInv

(* Both ways to a verdict.                                                 *)
LEMMA JudgedInv ==
  ASSUME TesterInv, passTest \/ FailsOnce, ~Excepted(Source) => Judged,
         UNCHANGED <<test, tests, printed, currentOutputs, lists, open>>,
         at \in {"check", "caught"}, at' = "idle"
  PROVE  TesterInv'
<1>1. test \in Nat /\ errors \in Seq(Nat \X Reasons) /\ passed \in Nat /\ failed \in Nat
  BY DEF TesterInv, Bookkeeping
<1>2. /\ errors' \in Seq(Nat \X Reasons) /\ passed' \in Nat /\ failed' \in Nat
  <2>1. CASE passTest
    BY <1>1, <2>1 DEF passTest
  <2>2. CASE FailsOnce
    <3> PICK why \in Reasons : errors' = Append(errors, <<test, why>>)
      BY <2>2 DEF FailsOnce
    <3>1. <<test, why>> \in Nat \X Reasons
      BY <1>1
    <3> QED
      BY <1>1, <2>2, <3>1, AppendProperties DEF FailsOnce
  <2> QED
    BY <2>1, <2>2
<1>3. Bookkeeping'
  BY <1>2 DEF TesterInv, Bookkeeping, Places
<1>4. Progress' /\ StatesClosed'
  BY DEF TesterInv, Progress, StatesClosed
<1>5. Verdicts'
  BY VerdictGiven DEF TesterInv
<1> QED
  BY <1>3, <1>4, <1>5 DEF TesterInv

LEMMA checkInv == TesterInv /\ checkResult => TesterInv'
<1> SUFFICES ASSUME TesterInv, checkResult PROVE TesterInv'
  OBVIOUS
<1>1. (passTest \/ FailsOnce) /\ (~Excepted(Source) => Judged)
  BY VerdictOnce, VerdictIsRight
<1>2. UNCHANGED <<test, tests, printed, currentOutputs, lists, open>> /\ at = "check" /\ at' = "idle"
  BY DEF checkResult, captureVars
<1> QED
  BY <1>1, <1>2, JudgedInv

LEMMA catchInv == TesterInv /\ catch => TesterInv'
<1> SUFFICES ASSUME TesterInv, catch PROVE TesterInv'
  OBVIOUS
<1>1. FailsOnce
  BY DEF catch, failTest, FailsOnce, Reasons
<1>2. ~Excepted(Source) => Judged
  BY <1>1 DEF catch, TesterInv, Progress, ShouldPass, Excepted, Judged
<1>3. UNCHANGED <<test, tests, printed, currentOutputs, lists, open>> /\ at = "caught" /\ at' = "idle"
  BY DEF catch, captureVars
<1> QED
  BY <1>1, <1>2, <1>3, JudgedInv

LEMMA StepInv == TesterInv /\ [TesterNext]_testerVars => TesterInv'
<1>1. ASSUME TesterInv, UNCHANGED testerVars PROVE TesterInv'
  <2>1. UNCHANGED <<test, at, tests, printed, result, engineError, currentOutputs, lists, open, passed, failed, errors>>
    BY <1>1 DEF testerVars, runVars, captureVars, counters
  <2>2. Bookkeeping' /\ Progress' /\ StatesClosed'
    BY <1>1, <2>1 DEF TesterInv, Bookkeeping, Progress, OwnList, Source, StatesClosed
  <2>3. LastFinished' = LastFinished
    BY <2>1 DEF LastFinished
  <2> QED
    BY <1>1, <2>1, <2>2, <2>3, VerdictsKept DEF TesterInv
<1> QED
  BY <1>1, runTestInv, compileInv, printInv, executeInv, checkInv, catchInv DEF TesterNext

----------------------------------------------------------------------------
(* The theorems.                                                           *)

(* The invariant holds of every run of the tests.                         *)
THEOREM TesterInvariant == TesterSpec => []TesterInv
  BY InitInv, StepInv, PTL DEF TesterSpec

LEMMA InvIsRight == TesterInv => VerdictsRight
<1> SUFFICES ASSUME TesterInv PROVE VerdictsRight
  OBVIOUS
<1>1. test \in Nat /\ LastFinished \in Nat /\ Finished = 1..LastFinished
  BY DEF TesterInv, Bookkeeping, LastFinished, Finished
<1>2. Cardinality(Finished) = LastFinished
  BY <1>1, FS_Interval
<1> QED
  BY <1>1, <1>2 DEF TesterInv, Verdicts, StatesClosed, VerdictsRight

(* runTest's verdicts: each is the one README 10.2 and 10.3 ask for about  *)
(* the test's own source and output, except where Excepted says; each test *)
(* is counted once, each failed one has its line in the summary, and every *)
(* Lua state is closed in time, whatever the tests are.                    *)
THEOREM VerdictsAreRight == TesterSpec => []VerdictsRight
  BY TesterInvariant, InvIsRight, PTL

(* What a finished test has printed is not touched again (OutputsStay).    *)
THEOREM OutputsStayAlways == TesterSpec => OutputsStay
<1>1. ASSUME TesterInv, [TesterNext]_testerVars
      PROVE  [\A t \in Finished : lists'[t] = lists[t]]_testerVars
  <2> SUFFICES ASSUME TesterNext, NEW t \in Finished PROVE lists'[t] = lists[t]
    BY <1>1
  <2>1. /\ test \in Nat /\ lists \in Seq(Seq(Value)) /\ Len(lists) = test /\ t \in 1..test
        /\ (at # "idle" => t # test)
    BY <1>1 DEF TesterInv, Bookkeeping, Finished
  <2>2. CASE runTest
    <3>1. lists' = Append(lists, <<>>) /\ <<>> \in Seq(Value)
      BY <2>2, EmptySeq DEF runTest, beginCapture
    <3> QED
      BY <2>1, <3>1, AppendProperties
  <2>3. CASE cangjiePrintln
    <3>1. currentOutputs = test /\ t # test
      BY <1>1, <2>1, <2>3 DEF TesterInv, Progress, OwnList, cangjiePrintln
    <3> QED
      BY <2>1, <2>3, <3>1 DEF cangjiePrintln, appendOutputValue
  <2> QED
    BY <2>2, <2>3 DEF TesterNext, compileToBytecode, executeBytecode, checkResult, catch, captureVars
<1> QED
  BY <1>1, TesterInvariant, PTL DEF TesterSpec, OutputsStay
=============================================================================
