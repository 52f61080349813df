------------------------ MODULE MCMultiprocExecutor -------------------------
(* Instances of MultiprocExecutor for TLC: two pipeline stages, of which the *)
(* second answers a step.                                                    *)
EXTENDS MultiprocExecutor

Step == [kind |-> "step", output_rank |-> 1, non_block |-> TRUE, timed |-> TRUE]
AggregatedStep == [Step EXCEPT !.output_rank = None]
Utility == [kind |-> "utility", output_rank |-> None, non_block |-> FALSE,
            timed |-> FALSE]

StepsAndUtilities == {Step, AggregatedStep, Utility}
StepAndUtility == {Step, Utility}
Utilities == {Utility}
=============================================================================
