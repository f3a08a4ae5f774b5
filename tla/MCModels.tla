------------------------------ MODULE MCModels ------------------------------
(***************************************************************************)
(* Components that share no state, model-checked in one run for their      *)
(* safety properties: the first state chooses one of them (part), the      *)
(* others rest.  Here: descriptions and what asks a language model.        *)
(***************************************************************************)
EXTENDS MCDescriptions

CONSTANTS Windows, Template, Reminder, Answer, Thinking, JoinSlack, Framing, CharsPerToken, Items, Held, Passages, MaxCost, MaxCounts,  \* PromptSizing
          Callers, Capacity, Window, HasProcessGroups, LastTime, MaxCalls, MaxSpawns,                                                               \* LlmCalls
          Templates, MaxCached, Sizings, MaxServers, MaxEpochs                                                                          \* TemplateCosts

VARIABLES part,
          call, cost, size, sent,   \* PromptSizing
          now, limiter, grants, caller, workdir, alive, begun, spawned,   \* LlmCalls
          server, window, costs, epoch, probe, sizing   \* TemplateCosts

\* Token counts, ceilings and bounds are natural numbers; a sizing has a text, a collection a chunk and a token a
\* character.
ASSUME SizingFits ==
  /\ Windows \subseteq Nat
  /\ Template \in Nat /\ Reminder \in Nat /\ Answer \in Nat /\ Thinking \in Nat /\ JoinSlack \in Nat /\ Framing \in Nat
  /\ CharsPerToken \in Nat \ {0} /\ Items \in Nat \ {0} /\ Held \in Nat \ {0}
  /\ Passages \in Nat /\ MaxCost \in Nat /\ MaxCounts \in Nat

\* The config loader refuses a rate of no call per minute; the cache of counts has room for one.
ASSUME CallsFit == /\ Capacity \in Nat \ {0} /\ Window \in Nat /\ HasProcessGroups \in BOOLEAN
                   /\ LastTime \in Nat /\ MaxCalls \in Nat /\ MaxSpawns \in Nat
ASSUME CostsFit == MaxCached \in Nat \ {0} /\ MaxServers \in Nat \ {0} /\ MaxEpochs \in Nat

Sizing == INSTANCE PromptSizing
LlmCall == INSTANCE LlmCalls
Costs == INSTANCE TemplateCosts

sizingVars == <<call, cost, size, sent>>
callVars == <<now, limiter, grants, caller, workdir, alive, begun, spawned>>
costVars == <<server, window, costs, epoch, probe, sizing>>
allVars == <<part, vars, sizingVars, callVars, costVars>>

\* Where a part that rests stands: one of its first states is enough.
DescriptionsRest == /\ row = [c \in Collections |-> Bare] /\ version = [c \in Collections |-> 0]
                    /\ lock = [c \in Collections |-> "free"] /\ job = [c \in Collections |-> Idle] /\ slot = NoOne
                    /\ waiting = NoPlaces /\ maxQueued = 0 /\ asking = {} /\ failures = [c \in Collections |-> -1]
                    /\ phase = "up" /\ changes = [c \in Collections |-> 0]
                    /\ failed = [c \in Collections |-> NoFailure]
SizingRests == /\ call = (CHOOSE c \in Sizing!Calls : TRUE) /\ cost = [n \in 0..Items |-> 0]
               /\ size = Sizing!NotSized /\ sent = Sizing!NotSent

ModelsInit ==
  /\ part \in {"descriptions", "sizing", "calls", "templates"}
  /\ IF part = "descriptions" THEN Init ELSE DescriptionsRest
  /\ IF part = "sizing" THEN Sizing!SizingInit ELSE SizingRests
  /\ LlmCall!CallInit
  /\ Costs!CostInit

ModelsNext ==
  \/ /\ part = "descriptions" /\ Next
     /\ UNCHANGED <<part, sizingVars, callVars, costVars>>
  \/ /\ part = "sizing" /\ Sizing!SizingNext
     /\ UNCHANGED <<part, vars, callVars, costVars>>
  \/ /\ part = "calls" /\ LlmCall!CallNext
     /\ UNCHANGED <<part, vars, sizingVars, costVars>>
  \/ /\ part = "templates" /\ Costs!CostNext
     /\ UNCHANGED <<part, vars, sizingVars, callVars>>

ModelsSpec == ModelsInit /\ [][ModelsNext]_allVars

\* PromptSizing: prompt and answer fit the window (WindowHolds), a summary names as many entities as
\* fit (NamesMaximal), a sample is given up only when one excerpt alone is too long (SampleKept) and
\* stays spread (SampleSpread), a long first answer outlives an empty retry (LongAnswerKept).
PromptFits ==
  part = "sizing" => Sizing!SizingTypeOK /\ Sizing!WindowHolds /\ Sizing!NamesMaximal /\
                     Sizing!SampleKept /\ Sizing!SampleSpread /\ Sizing!LongAnswerKept

\* LlmCalls: no window's length holds more than two windows' slots (RateHeld), a refusal has its
\* cause (RefusedForCause), and a call that is over leaves no directory and, left early, no process
\* (NothingRuns).
CallsHeld ==
  /\ [](part = "calls" => LlmCall!CallTypeOK /\ LlmCall!RateHeld /\ LlmCall!NothingRuns)
  /\ LlmCall!RefusedForCause

\* TemplateCosts: a budget is never one server's window less an older one's count (BudgetNotOlder),
\* and a count is kept until it must make room (KeptUntilProbed).
BudgetTrue ==
  /\ [](part = "templates" => Costs!CostTypeOK /\ Costs!BudgetNotOlder)
  /\ Costs!KeptUntilProbed
=============================================================================
