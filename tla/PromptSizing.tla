---------------------------- MODULE PromptSizing ----------------------------
(***************************************************************************)
(* How a prompt is sized to the window of a local model before it is sent: *)
(* the names and passages of a community summary, the sample of a          *)
(* collection description and its retry, the query of HyDE and RAG Fusion. *)
(* Every count asks the client's tokenizer, whose counts need not grow     *)
(* with the text: cost, chosen freely, gives the tokens of the first n     *)
(* names, of a draw of n excerpts, or of the head of n characters (a cloud *)
(* client has no budget: everything goes, and nothing is counted).         *)
(* Nothing is checked after a call: the sizing alone keeps it in the       *)
(* window.                                                                 *)
(***************************************************************************)
EXTENDS Integers, FiniteSets, FiniteSetsExt

CONSTANTS Windows,        \* context windows, in tokens
          Template, Reminder,   \* the prompt's fixed text; the retry's addition to it
          Answer,         \* the answer ceiling
          Thinking,       \* DESCRIPTION_THINKING_HEADROOM_TOKENS
          JoinSlack,      \* LLAMA_CPP_JOIN_SLACK_TOKENS
          Framing,        \* OLLAMA_CHAT_FRAMING_TOKENS
          CharsPerToken,  \* MAX_CHARS_PER_TOKEN
          Items,          \* names, excerpts or characters of the variable text
          Held,           \* chunks of the collection that is described
          Passages,       \* passages of the community
          MaxCost, MaxCounts   \* bound on cost; MAX_FIT_COUNTS

VARIABLES call,   \* what is sized, for which provider and window
          cost,
          size,   \* the sizing: its budget, the room of its current pass, what it found to fit (lo) and not to fit
                  \* (hi); second: the pass that gives the passages half, or the sample the headroom; used: the tokens
                  \* of the names and passages taken so far
          sent    \* what was sent, and what came of it

sizingVars == <<call, cost, size, sent>>

Calls == [kind : {"summary", "description", "query"}, provider : {"llama_cpp", "ollama", "cloud"}, window : Windows,
          think : BOOLEAN, long : BOOLEAN]
NotSized == [at |-> "budget", budget |-> 0, room |-> 0, lo |-> 0, hi |-> 0, kept |-> 0, second |-> FALSE,
             passages |-> 0, used |-> 0, headroom |-> 0, counts |-> 0]
NotSent == [ceiling |-> 0, used |-> 0, first |-> "none", outcome |-> "none"]
SizingInit ==
  /\ call \in {c \in Calls : (c.kind # "description" => ~c.think) /\ (c.kind = "description" => ~c.long)
                             /\ (c.provider = "cloud" => c.window = Max(Windows))}
  /\ cost \in {f \in [0..Items -> 0..MaxCost] : f[0] = 0}
  /\ size = NotSized /\ sent = NotSent

Chars == Items
Larger(a, b) == IF a >= b THEN a ELSE b
Smaller(a, b) == IF a <= b THEN a ELSE b
At(at) == size.at = at
-----------------------------------------------------------------------------
(* The budget. *)
\* Mutant: sized for the first attempt only.
WithoutReminder == Template
\* _sizing_template: the longest form the caller will send.
SizingTemplate == Template + (IF call.kind = "description" THEN Reminder ELSE 0)
\* exact_budget; estimated_budget, whose margin is 1/5.
InputBudget ==
  Larger(0, IF call.provider = "llama_cpp"
            THEN call.window - Answer - SizingTemplate - JoinSlack
            ELSE ((call.window - Answer - Framing) * 5) \div 6 - SizingTemplate)
\* The tokens that a prompt of this fixed text and this variable text may really take.
RealTokens(fixed, variable) ==
  IF call.provider = "llama_cpp" THEN fixed + variable + JoinSlack
  ELSE ((fixed + variable) * 6) \div 5 + Framing

TakeBudget ==
  /\ At("budget") /\ call.provider # "cloud"
  /\ LET b == InputBudget IN
     size' = [size EXCEPT !.budget = b, !.room = b, !.counts = 0,
                          !.at = CASE call.kind = "summary" -> "names"
                                   [] call.kind = "description" -> "headroom"
                                   [] OTHER -> "ceiling"]
  /\ UNCHANGED <<call, cost, sent>>
Send(ceiling, variable) ==
  sent' = [sent EXCEPT !.ceiling = ceiling, !.used = RealTokens(Template, variable), !.outcome = "sent"]
Give(outcome) == sent' = [sent EXCEPT !.outcome = outcome]
\* The unbounded budget: all names and passages, the full draw with all the headroom, the query as it is.
Whole ==
  /\ At("budget") /\ call.provider = "cloud"
  /\ size' = CASE call.kind = "summary" -> [size EXCEPT !.at = "passages", !.kept = Items, !.passages = Passages]
                [] call.kind = "description" -> [size EXCEPT !.at = "draw", !.lo = Smaller(Items, Held),
                                                             !.headroom = IF call.think THEN Thinking ELSE 0]
                [] OTHER -> [size EXCEPT !.at = "fitted", !.lo = Chars]
  /\ UNCHANGED <<call, cost, sent>>
\* The model's answer to a summary or a query.  Without one, or with an empty one, the community has no summary and
\* the search runs on the plain query.
Reply(a) ==
  /\ At("reply") /\ size' = [size EXCEPT !.at = "end"] /\ Give(IF a = "good" THEN "answered" ELSE "nothing")
  /\ UNCHANGED <<call, cost>>

-----------------------------------------------------------------------------
(* CommunityBuilder._fit_to_budget. *)
NameLength == IF call.long THEN 2 * CharsPerToken ELSE 1
\* _names_within_reach.
WithinReach(room) == Max({k \in 0..Items : k * NameLength <= room * CharsPerToken})
\* _fitting_names: all that are within reach, or a bisection below them.
CountNames ==
  /\ At("names")
  /\ LET r == WithinReach(size.room) IN
     size' = IF r = 0 \/ cost[r] <= size.room
             THEN [size EXCEPT !.at = "kept", !.lo = r]
             ELSE [size EXCEPT !.at = "bisect", !.lo = 0, !.hi = r]
  /\ UNCHANGED <<call, cost, sent>>
Closed == size.hi - size.lo <= 1
Bisect ==
  /\ At("bisect")
  /\ LET middle == (size.lo + size.hi) \div 2 IN
     size' = IF Closed THEN [size EXCEPT !.at = "kept"]
             ELSE IF cost[middle] <= size.room THEN [size EXCEPT !.lo = middle]
             ELSE [size EXCEPT !.hi = middle]
  /\ UNCHANGED <<call, cost, sent>>
\* Names that do not all fit are held to half of the budget, unless that holds none.
KeepNames ==
  /\ At("kept")
  /\ LET kept == IF size.second /\ size.lo = 0 THEN size.kept ELSE size.lo IN
     IF ~size.second /\ kept < Items /\ Passages > 0
     THEN size' = [size EXCEPT !.at = "names", !.second = TRUE, !.kept = kept, !.room = (size.budget * 50) \div 100]
          /\ UNCHANGED sent
     ELSE IF kept = 0
     THEN size' = [size EXCEPT !.at = "end"] /\ Give("no summary")
     ELSE size' = [size EXCEPT !.at = "passages", !.kept = kept, !.used = cost[kept]] /\ UNCHANGED sent
  /\ UNCHANGED <<call, cost>>
\* The names and one passage more take this many tokens: it is kept, or it and those after it are left out.
AddPassage(tokens) ==
  /\ At("passages") /\ size.passages < Passages
  /\ size' = IF tokens <= size.budget THEN [size EXCEPT !.passages = @ + 1, !.used = tokens]
             ELSE [size EXCEPT !.at = "fits"]
  /\ UNCHANGED <<call, cost, sent>>
Summarise ==
  /\ At("fits") \/ (At("passages") /\ size.passages = Passages)
  /\ size' = [size EXCEPT !.at = "reply"] /\ Send(Answer, size.used)
  /\ UNCHANGED <<call, cost>>

-----------------------------------------------------------------------------
(* DescriptionGenerator._draw_sample, _fit and _ask. *)
\* _evenly_spaced.
Picks(n) == {((2 * j + 1) * Held) \div (2 * n) : j \in 0..(n - 1)}
Draw(room, headroom) ==
  IF room = 0 THEN [size EXCEPT !.at = "too small", !.room = room, !.headroom = headroom]
  ELSE [size EXCEPT !.at = "draw", !.room = room, !.headroom = headroom, !.lo = Smaller(Items, Held)]
TakeHeadroom ==
  /\ At("headroom")
  /\ LET h == IF call.think THEN Smaller(Thinking, size.budget \div 2) ELSE 0
     IN size' = Draw(size.budget - h, h)
  /\ UNCHANGED <<call, cost, sent>>
\* A draw that costs too much is drawn again, smaller.
CountDraw ==
  /\ At("draw")
  /\ LET n == size.lo IN
     size' = IF call.provider = "cloud" \/ cost[n] <= size.room THEN [size EXCEPT !.at = "ask"]
             ELSE IF n = 1 THEN [size EXCEPT !.at = "too small"]
             ELSE [size EXCEPT !.lo = Larger(1, Smaller(n - 1, (n * size.room) \div cost[n]))]
  /\ UNCHANGED <<call, cost, sent>>
\* The chunks cannot be listed or read, or none may be read.
ReadFails(outcome) ==
  /\ call.kind = "description" /\ (At("budget") \/ At("draw")) /\ size' = [size EXCEPT !.at = "end"] /\ Give(outcome)
  /\ UNCHANGED <<call, cost>>
MayDropHeadroom == call.think /\ ~size.second
\* A window too small for the headroom gives the sample all its room; one too small without it fails.
WithoutHeadroom ==
  /\ At("too small")
  /\ IF MayDropHeadroom THEN size' = [Draw(size.budget, 0) EXCEPT !.second = TRUE] /\ UNCHANGED sent
     ELSE size' = [size EXCEPT !.at = "end"] /\ Give("too small")
  /\ UNCHANGED <<call, cost>>
Answers == {"empty", "good", "long", "error"}
Ask ==
  /\ At("ask") /\ Send(Answer + size.headroom, cost[size.lo]) /\ size' = [size EXCEPT !.at = "answer"]
  /\ UNCHANGED <<call, cost>>
\* The one retry, with the reminder.
FirstAnswer(a) ==
  /\ At("answer")
  /\ IF a \in {"good", "error"}
     THEN size' = [size EXCEPT !.at = "end"] /\ Give(IF a = "good" THEN "described" ELSE "call failed")
     ELSE /\ size' = [size EXCEPT !.at = "retry"]
          /\ sent' = [sent EXCEPT !.first = a, !.used = RealTokens(Template + Reminder, cost[size.lo])]
  /\ UNCHANGED <<call, cost>>
\* "second or first"
Cleaned(a) == IF a = "empty" THEN sent.first ELSE a
SecondAnswer(a) ==
  /\ At("retry") /\ size' = [size EXCEPT !.at = "end"]
  /\ Give(CASE a = "error" -> "call failed" [] Cleaned(a) = "good" -> "described"
            [] Cleaned(a) = "long" -> "trimmed" [] OTHER -> "unusable")
  /\ UNCHANGED <<call, cost>>

-----------------------------------------------------------------------------
(* fit_query_to_window and fit_text_to_budget. *)
Reach == Smaller(Chars, size.budget * CharsPerToken)
\* _head: a text of words is cut before a space (here: an even length), another anywhere.
Head(position) == IF position >= Chars \/ ~call.long THEN position
                  ELSE Max({k \in 0..position : k % 2 = 0 \/ (position = 1 /\ k = 1)})
\* token_ceiling is within the budget: the query goes as it is.
Ceiling(bytes) ==
  /\ At("ceiling")
  /\ IF size.budget = 0 THEN size' = [size EXCEPT !.at = "end"] /\ Give("no room")
     ELSE IF Chars <= size.budget /\ bytes <= size.budget
     THEN size' = [size EXCEPT !.at = "reply"] /\ Send(Answer, cost[Chars])
     ELSE size' = [size EXCEPT !.at = "cut", !.room = Reach, !.lo = 0, !.hi = Reach + 1] /\ UNCHANGED sent
  /\ UNCHANGED <<call, cost>>
\* The next position is estimated from the last count (or the last two), and kept inside the open interval.
CutAt(estimate, lo, hi) == Smaller(Larger(estimate, lo + (hi - lo) \div 8), hi - 1 - (hi - lo) \div 8)
Done == size' = [size EXCEPT !.at = "fitted"]
Cut(estimate) ==
  /\ At("cut")
  /\ LET n == Head(size.room)
         c == cost[n]
         lo == IF c <= size.budget THEN n ELSE size.lo
         hi == IF c <= size.budget THEN size.hi ELSE n
     IN IF n <= size.lo \/ size.counts = MaxCounts THEN Done
        ELSE IF c <= size.budget /\ (size.room >= Reach \/ c * 100 >= size.budget * 90)
        THEN size' = [size EXCEPT !.at = "fitted", !.lo = lo]
        ELSE size' = [size EXCEPT !.lo = lo, !.hi = hi, !.counts = @ + 1, !.room = CutAt(estimate, lo, hi)]
  /\ UNCHANGED <<call, cost, sent>>
Query ==
  /\ At("fitted") /\ size' = [size EXCEPT !.at = IF size.lo = 0 THEN "end" ELSE "reply"]
  /\ IF size.lo = 0 THEN Give("no room") ELSE Send(Answer, cost[size.lo])
  /\ UNCHANGED <<call, cost>>

-----------------------------------------------------------------------------
\* A count (of the template, or of the variable text) asks the server or a tokenizer, and may fail: so does the sizing.
Counting ==
  \/ At("budget") \/ At("draw")
  \/ At("names") /\ WithinReach(size.room) > 0
  \/ At("bisect") /\ ~Closed
  \/ At("passages") /\ size.passages < Passages
  \/ At("cut") /\ size.counts < MaxCounts /\ Head(size.room) > size.lo
CountFails ==
  /\ Counting /\ call.provider # "cloud" /\ size' = [size EXCEPT !.at = "end"] /\ Give("call failed")
  /\ UNCHANGED <<call, cost>>

SizingNext ==
  \/ TakeBudget \/ Whole \/ CountFails \/ CountNames \/ Bisect \/ KeepNames \/ Summarise
  \/ \E tokens \in 0..MaxCost : AddPassage(tokens)
  \/ \E outcome \in {"read failed", "no open chunk"} : ReadFails(outcome)
  \/ TakeHeadroom \/ CountDraw \/ WithoutHeadroom \/ Ask \/ Query
  \/ \E a \in Answers : FirstAnswer(a) \/ SecondAnswer(a) \/ Reply(a)
  \/ \E bytes \in cost[Chars]..(MaxCost + 1) : Ceiling(bytes)
  \/ \E estimate \in 0..Chars : Cut(estimate)
SizingSpec == SizingInit /\ [][SizingNext]_sizingVars

-----------------------------------------------------------------------------
\* The types of the sizing's state; every bound stays within the text.
SizingTypeOK ==
  /\ call \in Calls /\ cost \in [0..Items -> 0..MaxCost]
  /\ size.at \in {"budget", "names", "bisect", "kept", "passages", "headroom", "draw", "too small", "ask", "answer",
                  "retry", "ceiling", "cut", "fitted", "fits", "reply", "end"}
  /\ size.budget \in Nat /\ size.room \in 0..Larger(size.budget, Items) /\ size.lo \in 0..Items
  /\ size.hi \in 0..(Items + 1) /\ size.kept \in 0..Items /\ size.passages \in 0..Passages
  /\ size.used \in 0..MaxCost /\ size.headroom \in 0..Thinking /\ size.counts \in 0..MaxCounts
  /\ sent.outcome \in {"none", "sent", "no summary", "no room", "too small", "described", "trimmed", "unusable",
                       "call failed", "read failed", "no open chunk", "answered", "nothing"}

\* What is sent and the answer it asks for fit the window, also the retry with its reminder, and also when the count
\* of a longer text is smaller than that of a shorter one.
WindowHolds == call.provider # "cloud" => sent.used + sent.ceiling <= call.window
Rising == \A n \in 1..Items : cost[n - 1] <= cost[n]
Longest(room) == Max({0} \cup {k \in 1..WithinReach(room) : cost[k] <= room})
\* With counts that grow with the text, a summary names as many entities as fit: all, or else as many as fit half of
\* the budget, or else (not even one fits the half) as many as fit the whole.
NamesMaximal ==
  (At("passages") /\ call.provider # "cloud" /\ Rising) =>
    size.kept = IF Longest(size.budget) = Items \/ Passages = 0 \/ Longest((size.budget * 50) \div 100) = 0
                THEN Longest(size.budget) ELSE Longest((size.budget * 50) \div 100)
\* A description fails for its window only if one excerpt alone does not fit: never for the room held for thinking.
SampleKept == sent.outcome = "too small" => (size.budget = 0 \/ cost[1] > size.budget)
\* However far it was shrunk, a sample has an excerpt from each of its equal parts of the collection.
SampleSpread ==
  At("ask") =>
    /\ Cardinality(Picks(size.lo)) = size.lo
    /\ \A j \in 0..(size.lo - 1) :
         \E p \in Picks(size.lo) : p >= (j * Held) \div size.lo /\ p * size.lo < (j + 1) * Held
\* A generation is unusable only if the model said nothing twice: a first answer that was too long is trimmed when
\* the retry is empty.
LongAnswerKept == sent.outcome = "unusable" => sent.first = "empty"
=============================================================================
