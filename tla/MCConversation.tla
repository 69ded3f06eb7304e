---------------------------- MODULE MCConversation ---------------------------
(***************************************************************************)
(* Model-checking instance of the components around a conversation, each   *)
(* explored on its own: one run checks them all. The .cfg file gives the   *)
(* constants their values.                                                 *)
(***************************************************************************)
EXTENDS SlackIngress, SlackDispatch, ModelPins, SlackGate, SlackMarks, Approvals,
        FailureAlerts, PaneDialogs, TurnProgress, Telegram, TLC

Ty == <<"tagged", "tagged", "tagged", "continue", "untagged">>

Snd ==
    [thread : {"h1"}, text : {"words", "empty"}, by : {"person"}, mid : {TRUE}] \union
    [thread : {"h1"}, text : {"$command", "$compact", "picker"}, by : {"person"},
     mid : {FALSE}] \union
    [thread : {"h1"}, text : {"words"}, by : {"bot"}, mid : {FALSE}] \union
    [thread : {"h2"}, text : {"/skill"}, by : {"person"}, mid : {FALSE}]

CfgOf(g, r, t) == [whole |-> TRUE, global |-> g, row |-> r, route |-> t]
Opus == [mode |-> "native", model |-> "opus", ollama |-> "blank"]
Llama == [Opus EXCEPT !.mode = "ollama", !.ollama = "llama"]
ToNone == [name |-> "blank", pool |-> FALSE]
ToA == [name |-> "a", pool |-> FALSE]
ToPool == [name |-> "b", pool |-> TRUE]
Cfgs ==
    {CfgOf(Opus, "triage", ToPool), CfgOf(Opus, "missing", ToA), CfgOf(Llama, "none", ToNone),
     CfgOf([Llama EXCEPT !.ollama = "blank"], "none", ToA),
     [CfgOf(Opus, "none", ToNone) EXCEPT !.whole = FALSE]}
Bun == [Opus EXCEPT !.model = "blank"]
Tri == [model |-> "haiku", effort |-> "low"]
Reg == [a |-> [mode |-> "native", model |-> "blank"], b |-> [mode |-> "blank", model |-> "haiku"]]
Lst == [native |-> {"opus", "haiku", "opus-5", "haiku-4-5"}, ollama |-> {"llama"}]
Als == [opus |-> "opus-5", haiku |-> "haiku-4-5"]
Lvl == ("opus-5" :> {"high"}) @@ ("haiku-4-5" :> {})
Shp == [native |-> {"claude-new"}, ollama |-> {"glm:cloud"}]
Sai ==
    [mapped |-> {<<"opus", "high">>, <<"haiku", "high">>, <<"haiku", "blank">>,
                 <<"default", "blank">>, <<"default", "high">>},
     other |-> {<<"claude-new", "default">>}]

VARIABLE part    \* the component this behaviour is about

Parts == {"ingest", "dispatch", "pins", "gate", "marks", "approvals", "alerts", "dialog",
          "progress", "telegram"}

\* A choice the other components make at the start is fixed.
PartsInit ==
    /\ part \in Parts
    /\ Init
    /\ DispatchInit
    /\ part # "dispatch" => where = "mpim"
    /\ PinInit
    /\ part # "pins" => conf = CHOOSE f \in Confs : StartsOn(f)
    /\ GateInit
    /\ MarksInit
    /\ ApprovalsInit
    /\ part # "approvals" => wants = [c \in Calls |-> CHOOSE k \in GrantKeys : TRUE]
    /\ AlertsInit
    /\ DialogInit
    /\ ProgressInit
    /\ part # "progress" => ~silenced
    /\ TelegramInit

\* The components that a step is not about stand still.
Alone(p) ==
    /\ IF p = "ingest" THEN TRUE ELSE UNCHANGED vars
    /\ IF p = "dispatch" THEN TRUE ELSE UNCHANGED dispatchVars
    /\ IF p = "pins" THEN TRUE ELSE UNCHANGED pinVars
    /\ IF p = "gate" THEN TRUE ELSE UNCHANGED gateVars
    /\ IF p = "marks" THEN TRUE ELSE UNCHANGED marksVars
    /\ IF p = "approvals" THEN TRUE ELSE UNCHANGED approvalVars
    /\ IF p = "alerts" THEN TRUE ELSE UNCHANGED alertVars
    /\ IF p = "dialog" THEN TRUE ELSE UNCHANGED dialogVars
    /\ IF p = "progress" THEN TRUE ELSE UNCHANGED progressVars
    /\ IF p = "telegram" THEN TRUE ELSE UNCHANGED telegramVars
    /\ UNCHANGED part

PartsNext ==
    \/ part = "ingest" /\ Next /\ Alone("ingest")
    \/ part = "dispatch" /\ DispatchNext /\ Alone("dispatch")
    \/ part = "pins" /\ PinNext /\ Alone("pins")
    \/ part = "gate" /\ GateNext /\ Alone("gate")
    \/ part = "marks" /\ MarksNext /\ Alone("marks")
    \/ part = "approvals" /\ ApprovalsNext /\ Alone("approvals")
    \/ part = "alerts" /\ AlertsNext /\ Alone("alerts")
    \/ part = "dialog" /\ DialogNext /\ Alone("dialog")
    \/ part = "progress" /\ ProgressNext /\ Alone("progress")
    \/ part = "telegram" /\ TelegramNext /\ Alone("telegram")

PartsVars == <<part, vars, dispatchVars, pinVars, gateVars, marksVars,
               approvalVars, alertVars, dialogVars, progressVars, telegramVars>>

PartsSpec == PartsInit /\ [][PartsNext]_PartsVars

\* The types of the variables of the component at hand.
PartsTypeOK ==
    /\ part \in Parts
    /\ (part = "ingest" => TypeOK)
    /\ (part = "dispatch" => DispatchTypeOK)
    /\ (part = "pins" => PinTypeOK)
    /\ (part = "gate" => GateTypeOK)
    /\ (part = "marks" => MarksTypeOK)
    /\ (part = "approvals" => ApprovalsTypeOK)
    /\ (part = "alerts" => AlertsTypeOK)
    /\ (part = "dialog" => DialogTypeOK)
    /\ (part = "progress" => ProgressTypeOK)
    /\ (part = "telegram" => TelegramTypeOK)

\* What a person answers, on a card or in a dialog, decides what was asked and nothing
\* else, and the model a person pins is the one the conversation runs on: Approvals,
\* PaneDialogs and ModelPins together.
AnswersCount ==
    /\ part = "pins" => PinsHold
    /\ part = "approvals" => AnswerDecides
    /\ part = "dialog" => DialogsAreAnswered

\* Every event that is let in is handled, once, in the session it belongs to:
\* SlackIngress and SlackDispatch together.
MessagesAreHandled ==
    /\ part = "ingest" => EventsAreHandled
    /\ part = "dispatch" => DispatchKeeps

\* What the person sees of a turn, its reactions and its messages, follows the turn:
\* SlackMarks and TurnProgress together.
TurnIsShown ==
    /\ part = "marks" => FollowsTheTurns
    /\ part = "progress" => TurnIsToldWell
=============================================================================
