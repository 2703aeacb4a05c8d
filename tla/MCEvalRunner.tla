---------------------------- MODULE MCEvalRunner ----------------------------
(***************************************************************************)
(* Instances of EvalRunner for TLC over the whole fixture: the curated     *)
(* cases one by one, two in a row where the first could leave something    *)
(* behind for the second, and one after a case that cannot be set up.      *)
(***************************************************************************)
EXTENDS EvalRunner, E2ECases

\* A case whose customer the fixture does not have.
UnknownCustomerCase == EndToEndEvalCase("cust-999", {}, "other", "low")

AfterUnknown == {<<UnknownCustomerCase, OtherCases[1]>>}

AloneOrAfterUnknown == {<<case>> : case \in E2E_CASES} \cup AfterUnknown

\* Two cases about the same order.
SameOrderPairs ==
    {<<first, second>> \in E2E_CASES \X E2E_CASES :
        /\ first # second
        /\ first.customer_message = second.customer_message
        /\ first.customer_message # {}}

MCBenchmarks == AloneOrAfterUnknown \cup SameOrderPairs

\* Case k runs on thread k with request k.
MCPositions == {1, 2}

MCCustomerIds == FixtureCustomers \cup {UnknownCustomerCase.customer_id}

MCMessages == {case.customer_message : case \in E2E_CASES}

MCFixtures == {FixtureRecords}

MCClassifications == Intents

=============================================================================
