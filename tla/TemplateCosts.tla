--------------------------- MODULE TemplateCosts ---------------------------
(***************************************************************************)
(* The llama_cpp client's context window and the token counts of its       *)
(* prompt templates (TemplateCostCache).  The llama-server may be started  *)
(* again with another model: its generation stands for the window, the     *)
(* chat template and the tokenizer that it answers with.  A count is two   *)
(* requests, and an answer may reach the client after a probe has found    *)
(* the next server.                                                        *)
(***************************************************************************)
EXTENDS Integers, Sequences, FiniteSets

CONSTANTS Templates,
          MaxCached,     \* MAX_CACHED_TEMPLATES
          Sizings,       \* tasks that size a prompt
          MaxServers, MaxEpochs   \* bounds on the server's generations and on successful probes

VARIABLES server,   \* the generation that answers now
          window,   \* the generation whose window the client uses; 0: the assumed window
          costs,    \* the cache, oldest first: the generation that counted each template
          epoch,
          probe,    \* the probe's answer on its way, or 0
          sizing    \* each sizing: its template, the epoch and the window it began with, and who answered it

costVars == <<server, window, costs, epoch, probe, sizing>>

NotSizing == [at |-> "off", text |-> "none", epoch |-> 0, window |-> 0, count |-> 0]
CostInit ==
  /\ server = 1 /\ window = 0 /\ costs = <<>> /\ epoch = 0 /\ probe = 0
  /\ sizing = [s \in Sizings |-> NotSizing]

At(s, at) == sizing[s].at = at
Restart == /\ server < MaxServers /\ server' = server + 1 /\ UNCHANGED <<window, costs, epoch, probe, sizing>>

-----------------------------------------------------------------------------
(* probe_context_window. *)
ProbeAnswered ==
  /\ probe = 0 /\ epoch < MaxEpochs /\ probe' = server /\ UNCHANGED <<server, window, costs, epoch, sizing>>
\* The window is taken over and the counts are forgotten.
ProbeRead ==
  /\ probe # 0 /\ probe' = 0 /\ window' = probe /\ costs' = <<>> /\ epoch' = epoch + 1
  /\ UNCHANGED <<server, sizing>>
\* No usable answer: the window stays as it was.
ProbeFails == /\ probe # 0 /\ probe' = 0 /\ UNCHANGED <<server, window, costs, epoch, sizing>>

-----------------------------------------------------------------------------
(* input_budget: exact_budget with the memoized count. *)
Cached(text) == {i \in 1..Len(costs) : costs[i].text = text}
Size(s, text) ==
  /\ sizing[s].at \in {"off", "budget"}
  /\ sizing' = [sizing EXCEPT ![s] =
       IF Cached(text) = {} THEN [at |-> "frame", text |-> text, epoch |-> epoch, window |-> window, count |-> 0]
       ELSE [at |-> "budget", text |-> text, epoch |-> epoch, window |-> window,
             count |-> costs[CHOOSE i \in Cached(text) : TRUE].by]]
  /\ UNCHANGED <<server, window, costs, epoch, probe>>
\* /apply-template, then /tokenize: a count is as old as the first of its two answers.
Framed(s) ==
  /\ At(s, "frame") /\ sizing' = [sizing EXCEPT ![s].at = "tokenize", ![s].count = server]
  /\ UNCHANGED <<server, window, costs, epoch, probe>>
Tokenized(s) ==
  /\ At(s, "tokenize") /\ sizing' = [sizing EXCEPT ![s].at = "counted"]
  /\ UNCHANGED <<server, window, costs, epoch, probe>>
\* SIZING_DEADLINE_SECONDS, an error of the server, or a cancel: nothing is remembered.
SizingFails(s) ==
  /\ sizing[s].at \in {"frame", "tokenize", "counted"} /\ sizing' = [sizing EXCEPT ![s] = NotSizing]
  /\ UNCHANGED <<server, window, costs, epoch, probe>>
\* Mutant: an answer is remembered whenever it comes.
Whenever(s) == TRUE
SameEpoch(s) == sizing[s].epoch = epoch
NeedsRoom(text) == Cached(text) = {} /\ Len(costs) >= MaxCached
\* _remember: an entry that is already there keeps its place.
Remembered(text, by) ==
  LET kept == IF NeedsRoom(text) THEN Tail(costs) ELSE costs
      there == {i \in 1..Len(kept) : kept[i].text = text}
  IN IF there = {} THEN Append(kept, [text |-> text, by |-> by])
     ELSE [i \in 1..Len(kept) |-> IF i \in there THEN [text |-> text, by |-> by] ELSE kept[i]]
Counted(s) ==
  /\ At(s, "counted") /\ sizing' = [sizing EXCEPT ![s].at = "budget"]
  /\ costs' = IF SameEpoch(s) THEN Remembered(sizing[s].text, sizing[s].count) ELSE costs
  /\ UNCHANGED <<server, window, epoch, probe>>

CostNext ==
  \/ Restart \/ ProbeAnswered \/ ProbeRead \/ ProbeFails
  \/ \E s \in Sizings : \/ Framed(s) \/ Tokenized(s) \/ SizingFails(s) \/ Counted(s)
                        \/ \E text \in Templates : Size(s, text)
CostSpec == CostInit /\ [][CostNext]_costVars

-----------------------------------------------------------------------------
\* The types of the client's state; the cache holds a template once, and at most MAX_CACHED_TEMPLATES.
CostTypeOK ==
  /\ server \in 1..MaxServers /\ window \in 0..MaxServers /\ probe \in 0..MaxServers /\ epoch \in 0..MaxEpochs
  /\ costs \in Seq([text : Templates, by : 1..MaxServers]) /\ Len(costs) <= MaxCached
  /\ \A i, j \in 1..Len(costs) : costs[i].text = costs[j].text => i = j
  /\ \A s \in Sizings : sizing[s].at \in {"off", "frame", "tokenize", "counted", "budget"}

\* A budget is never the window of one server less the count of an older one, however late an answer comes.
BudgetNotOlder == \A s \in Sizings : At(s, "budget") => sizing[s].count >= sizing[s].window
Texts == {costs[i].text : i \in 1..Len(costs)}
\* Until the next successful probe a count is pushed out only by a template that was not cached: never by two first
\* counts of one template at the same time.
KeptUntilProbed ==
  [][epoch' = epoch => Cardinality(Texts \ Texts') <= Cardinality(Texts' \ Texts)]_costVars
=============================================================================
