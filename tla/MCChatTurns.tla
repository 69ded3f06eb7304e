----------------------------- MODULE MCChatTurns -----------------------------
(***************************************************************************)
(* Model-checking instance of ChatTurns: the .cfg file gives the constants *)
(* their values.  Three lives, two turns, a stop and a clock that moves    *)
(* are too many together; a behaviour is bounded in one of two ways.       *)
(***************************************************************************)
EXTENDS ChatTurns

VARIABLE shape   \* how this behaviour is bounded

Shapes == {"wide", "deep"}

\* Bound: two lives, the second of them left running, with a stop or a step of the clock.
Wide ==
  /\ stops + clock <= 1
  /\ lives < 2 \/ (lives = 2 /\ phase \in {"offering", "replaying", "up"})

\* Bound: all the lives, with a stop and the clock for a single turn, and without for more.
Deep == accepted <= 1 \/ stops + clock = 0

WithinShape == IF shape = "wide" THEN Wide ELSE Deep

ShapedInit == Init /\ shape \in Shapes

ShapedNext == Next /\ UNCHANGED shape /\ WithinShape'

\* With the fairness of ChatTurns' FairSpec: no bound here holds back a step of the
\* daemon or its drain for good.
ShapedSpec ==
  ShapedInit /\ [][ShapedNext]_<<vars, shape>> /\ WF_vars(Drain) /\ WF_vars(Daemon)
=============================================================================
