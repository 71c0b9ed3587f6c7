---------------------------- MODULE MCFlowEngine ----------------------------
(***************************************************************************)
(* Small flows for FlowEngine.                                             *)
(***************************************************************************)
EXTENDS FlowEngine

\* write (agent), build (command), verify (agent), which sends the run back to write.
VerifySendsBack == <<0, 0, 1>>
TwoSteps == <<0, 1>>
NoEdges == <<0, 0>>
NoEdges3 == <<0, 0, 0>>
One == [s \in Steps |-> 1]
Two == [s \in Steps |-> 2]

Ends == {1, 3}
OnlyFirst == {1}

DefaultAllow == {"retry", "goto", "park", "abort"}
AllowSkip == DefaultAllow \cup {"skip"}
Nothing == {}

OneVerdict == {"no tests"}
MayBeQuiet == {"", "no tests"}

Forward == {"forward"}
SkipOrForward == {"skip", "forward"}
SaysContinue == {"continue"}
SaysRetry == {"retry"}

\* Everywhere but inside the clearing of a span and inside a consult.
CleanCrashes == {"loop", "running", "settled", "charging", "jumping", "consult", "deciding"}
\* In a step, and between a span that is cleared and its charge.
MidStep == {"running", "charging"}
InClearing == {"clearing"}
InCharging == {"charging"}
InRunning == {"running"}
InConsult == {"consulting"}
=============================================================================
