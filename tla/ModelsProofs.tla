---------------------------- MODULE ModelsProofs ----------------------------
(***************************************************************************)
(* The parts of MCModels that ask a language model.  PromptSizing, for     *)
(* every window, template, answer ceiling, text and token count: what is   *)
(* sent fits, and as much is sent as fits.  LlmCalls, for every rate and   *)
(* window: the rate is held and nothing is left running.  TemplateCosts:   *)
(* a budget never mixes a window with an older count.                      *)
(***************************************************************************)
EXTENDS MCModels, Sequences, FunctionTheorems, FiniteSetTheorems, WellFoundedInduction, TLAPS

-----------------------------------------------------------------------------
(* The greatest number of a set, and division. *)

\* A set of naturals that is not empty has a least element.
LEMMA LeastOf ==
  ASSUME NEW S \in SUBSET Nat, S # {}
  PROVE  \E x \in S : \A y \in S : x <= y
<1> DEFINE R == OpToRel(<, Nat)
<1>1. IsWellFoundedOn(R, Nat)
  BY NatLessThanWellFounded
<1>2. \E x \in S : \A y \in S : ~(<<y, x>> \in R)
  <2> HIDE DEF R
  <2> QED
    BY <1>1, WFMin
<1>3. \A x, y \in Nat : <<y, x>> \in R <=> y < x
  BY DEF OpToRel
<1> QED
  <2> HIDE DEF R
  <2>1. PICK x \in S : \A y \in S : ~(<<y, x>> \in R)
    BY <1>2
  <2>2. ASSUME NEW y \in S PROVE x <= y
    <3>1. x \in Nat /\ y \in Nat
      OBVIOUS
    <3>2. ~(y < x)
      BY <1>3, <2>1, <3>1
    <3> QED
      BY <3>1, <3>2
  <2> QED
    BY <2>2

\* A set of naturals up to n that is not empty has a greatest element, and Max is it.
LEMMA GreatestOf ==
  ASSUME NEW n \in Nat, NEW S \in SUBSET (0..n), S # {}
  PROVE  /\ Sizing!Max(S) \in S
         /\ \A y \in S : Sizing!Max(S) >= y
<1> DEFINE T == {n - x : x \in S}
<1>1. T \in SUBSET Nat /\ T # {}
  <2>1. \A x \in S : n - x \in Nat
    OBVIOUS
  <2>2. T \in SUBSET Nat
    BY <2>1
  <2>3. PICK x : x \in S
    OBVIOUS
  <2>4. n - x \in T
    BY <2>3
  <2> QED
    BY <2>2, <2>4
<1>2. PICK t \in T : \A y \in T : t <= y
  BY <1>1, LeastOf
<1>3. PICK x \in S : t = n - x
  OBVIOUS
<1>4. \A y \in S : x >= y
  <2> TAKE y \in S
  <2>1. n - y \in T
    OBVIOUS
  <2>2. t <= n - y
    BY <1>2, <2>1
  <2> QED
    BY <1>3, <2>2
<1>5. \E z \in S : \A y \in S : z >= y
  BY <1>4
<1> QED
  BY <1>5, Zenon DEF Sizing!Max

\* The greatest of a set is the one that no other exceeds.
LEMMA GreatestIs ==
  ASSUME NEW n \in Nat, NEW S \in SUBSET (0..n), NEW x \in S, \A y \in S : y <= x
  PROVE  Sizing!Max(S) = x
<1>1. Sizing!Max(S) \in S /\ \A y \in S : Sizing!Max(S) >= y
  BY GreatestOf
<1> QED
  <2> DEFINE m == Sizing!Max(S)
  <2>1. m \in S /\ m >= x
    BY <1>1
  <2> HIDE DEF m
  <2>2. m = x
    BY <2>1
  <2> QED
    BY <2>2 DEF m

-----------------------------------------------------------------------------
(* The inductive invariant. *)

Local == call.provider # "cloud"
Half == (size.budget * 50) \div 100
NamePlaces == {"names", "bisect", "kept"}
SamplePlaces == {"headroom", "draw", "too small", "ask", "answer", "retry"}
QueryPlaces == {"ceiling", "cut", "fitted"}
SizingPlaces == NamePlaces \cup SamplePlaces \cup QueryPlaces \cup {"budget", "passages", "fits", "reply", "end"}
SizingOutcomes == {"none", "sent", "no summary", "no room", "too small", "described", "trimmed", "unusable", "call failed",
             "read failed", "no open chunk", "answered", "nothing"}

\* The types of the sizing's state, field by field.
SizingTyped ==
  /\ call \in Sizing!Calls
  /\ cost \in [0..Items -> 0..MaxCost]
  /\ size \in [at : SizingPlaces, budget : Nat, room : Nat, lo : 0..Items, hi : 0..(Items + 1), kept : 0..Items,
               second : BOOLEAN, passages : 0..Passages, used : 0..MaxCost, headroom : 0..Thinking,
               counts : 0..MaxCounts]
  /\ sent \in [ceiling : Nat, used : Nat, first : {"none"} \cup Sizing!Answers, outcome : SizingOutcomes]
  /\ size.room <= Sizing!Larger(size.budget, Items)

\* Each place belongs to one kind of call, and the places that count or give up to a client with a budget.
PlacesFit ==
  /\ size.at = "budget" => size = Sizing!NotSized /\ sent = Sizing!NotSent
  /\ size.at \in NamePlaces \cup {"passages", "fits"} => call.kind = "summary"
  /\ size.at \in SamplePlaces => call.kind = "description"
  /\ size.at \in QueryPlaces => call.kind = "query"
  /\ size.at \in NamePlaces \cup {"fits", "headroom", "too small", "ceiling", "cut"} => Local

\* The budget that was taken is the one of the call.
BudgetKnown == (Local /\ size.at \notin {"budget", "end"}) => size.budget = Sizing!InputBudget

\* Which names the whole budget holds, once only half of it is tried.
HalfTried ==
  size.second => /\ Passages > 0 /\ size.kept < Items
                 /\ size.kept <= Sizing!WithinReach(size.budget)
                 /\ size.kept = 0 \/ cost[size.kept] <= size.budget
                 /\ Sizing!Rising => size.kept = Sizing!Longest(size.budget)
NamesRoom == HalfTried /\ size.room = IF size.second THEN Half ELSE size.budget
Bisected == /\ size.lo < size.hi /\ size.hi <= Sizing!WithinReach(size.room) /\ cost[size.hi] > size.room
            /\ size.lo = 0 \/ cost[size.lo] <= size.room
Found == /\ size.lo <= Sizing!WithinReach(size.room)
         /\ size.lo = 0 \/ cost[size.lo] <= size.room
         /\ size.lo = Sizing!WithinReach(size.room) \/ cost[size.lo + 1] > size.room
MostNames ==
  IF Sizing!Longest(size.budget) = Items \/ Passages = 0 \/ Sizing!Longest(Half) = 0
  THEN Sizing!Longest(size.budget) ELSE Sizing!Longest(Half)
NamesSized ==
  /\ size.at \in NamePlaces => NamesRoom
  /\ size.at = "bisect" => Bisected
  /\ size.at = "kept" => Found
  /\ (Local /\ size.at \in {"passages", "fits"}) => size.budget > 0 /\ size.used <= size.budget
  /\ (Local /\ size.at = "passages" /\ Sizing!Rising) => size.kept = MostNames
  /\ (~Local /\ size.at = "passages") => size.passages = Passages

\* A sample that fits leaves the headroom free.
SampleSized ==
  /\ size.at = "headroom" => ~size.second
  /\ size.at \in {"draw", "ask", "answer", "retry"} => size.lo \in 1..Held
  /\ (Local /\ size.at \in {"draw", "too small"}) =>
       size.room + size.headroom = size.budget /\ ((size.second \/ ~call.think) => size.headroom = 0)
  /\ (Local /\ size.at = "draw") => size.room > 0
  /\ size.at = "too small" => size.room = 0 \/ cost[1] > size.room
  /\ (Local /\ size.at \in {"ask", "answer", "retry"}) => size.budget > 0 /\ cost[size.lo] + size.headroom <= size.budget
  /\ size.at \in {"answer", "retry"} => sent.ceiling = Answer + size.headroom
  /\ size.at = "retry" => sent.first \in {"empty", "long"}

\* The head that was found fits, and the interval that is left is not empty.
QuerySized ==
  /\ size.at = "cut" => size.lo < size.hi /\ size.room < size.hi /\ size.budget > 0
  /\ (Local /\ size.at \in {"cut", "fitted"}) => size.budget > 0 /\ (size.lo = 0 \/ cost[size.lo] <= size.budget)

\* What was sent fits, and an outcome is the end.
SentFits ==
  /\ Sizing!WindowHolds
  /\ sent.outcome \notin {"none", "sent"} => size.at = "end"
  /\ Sizing!SampleKept /\ Sizing!LongAnswerKept

SizingInv == SizingTyped /\ PlacesFit /\ BudgetKnown /\ NamesSized /\ SampleSized /\ QuerySized /\ SentFits

-----------------------------------------------------------------------------
(* What fits the budget fits the window. *)

\* The estimate's margin: a count that is 1/5 too small still fits.
LEMMA MarginHolds ==
  ASSUME NEW D \in Int, NEW s \in Nat, NEW h \in Nat, s + h <= (D * 5) \div 6
  PROVE  (s * 6) \div 5 + h <= D /\ (s * 6) \div 5 \in Nat
OBVIOUS

\* The fixed text of an attempt is at most the one that was sized for.
LEMMA RoomHolds ==
  ASSUME call \in Sizing!Calls, Local, NEW b \in Nat, b = Sizing!InputBudget, b > 0,
         NEW v \in Nat, NEW h \in Nat, v + h <= b, NEW f \in Nat, f <= Sizing!SizingTemplate
  PROVE  Sizing!RealTokens(f, v) + Answer + h <= call.window /\ Sizing!RealTokens(f, v) \in Nat
<1> DEFINE t == Sizing!SizingTemplate
<1>1. call.window \in Nat /\ call.provider \in {"llama_cpp", "ollama"}
  BY SizingFits DEF Sizing!Calls, Local
<1>2. t \in Nat
  BY SizingFits DEF Sizing!SizingTemplate
<1>3. CASE call.provider = "llama_cpp"
  <2>1. b = Sizing!Larger(0, call.window - Answer - t - JoinSlack)
    BY <1>3, Zenon DEF Sizing!InputBudget
  <2>2. Sizing!RealTokens(f, v) = f + v + JoinSlack
    BY <1>3, Zenon DEF Sizing!RealTokens
  <2> HIDE DEF t
  <2>3. b = call.window - Answer - t - JoinSlack
    BY <1>1, <1>2, <2>1, SizingFits DEF Sizing!Larger
  <2>4. f <= t
    BY DEF t
  <2> QED
    BY <1>1, <1>2, <2>2, <2>3, <2>4, SizingFits
<1>4. CASE call.provider = "ollama"
  <2> DEFINE D == call.window - Answer - Framing
  <2>1. b = Sizing!Larger(0, (D * 5) \div 6 - t)
    BY <1>4, Zenon DEF Sizing!InputBudget
  <2>2. Sizing!RealTokens(f, v) = ((f + v) * 6) \div 5 + Framing
    BY <1>4, Zenon DEF Sizing!RealTokens
  <2>3. D \in Int
    BY <1>1, SizingFits
  <2>4. f <= t
    BY DEF t
  <2> HIDE DEF t, D
  <2>5. b = (D * 5) \div 6 - t
    BY <1>2, <2>1, <2>3 DEF Sizing!Larger
  <2>6. (f + v) + h <= (D * 5) \div 6
    BY <1>2, <2>3, <2>4, <2>5
  <2>7. ((f + v) * 6) \div 5 + h <= D /\ ((f + v) * 6) \div 5 \in Nat
    BY <2>3, <2>6, MarginHolds
  <2> QED
    BY <1>1, <2>2, <2>3, <2>7, SizingFits DEF D
<1> QED
  BY <1>1, <1>3, <1>4

\* Only the first of two attempts may be shorter than what was sized for.
LEMMA Forms ==
  ASSUME call \in Sizing!Calls
  PROVE  /\ Template \in Nat /\ Template <= Sizing!SizingTemplate
         /\ call.kind = "description" => Template + Reminder \in Nat /\ Template + Reminder <= Sizing!SizingTemplate
BY SizingFits DEF Sizing!SizingTemplate

LEMMA BudgetNat ==
  ASSUME call \in Sizing!Calls, Local
  PROVE  Sizing!InputBudget \in Nat
<1> DEFINE t == Sizing!SizingTemplate
<1>1. call.window \in Nat
  BY SizingFits DEF Sizing!Calls
<1>2. t \in Nat
  BY SizingFits DEF Sizing!SizingTemplate
<1> HIDE DEF t
<1>3. call.window - Answer - t - JoinSlack \in Int
  BY <1>1, <1>2, SizingFits
<1>4. ((call.window - Answer - Framing) * 5) \div 6 - t \in Int
  BY <1>1, <1>2, SizingFits
<1>5. \A n \in Int : Sizing!Larger(0, n) \in Nat
  BY DEF Sizing!Larger
<1>6. Sizing!InputBudget \in {Sizing!Larger(0, call.window - Answer - t - JoinSlack),
                              Sizing!Larger(0, ((call.window - Answer - Framing) * 5) \div 6 - t)}
  BY Zenon DEF Sizing!InputBudget, t
<1> QED
  BY <1>3, <1>4, <1>5, <1>6

-----------------------------------------------------------------------------
(* A sample is spread over the collection. *)

\* The quotient is the greatest multiple that fits.
LEMMA Quotient ==
  ASSUME NEW a \in Nat, NEW b \in Nat \ {0}
  PROVE  /\ a \div b \in Nat
         /\ (a \div b) * b <= a
         /\ \A q \in Nat : q * b <= a => q <= a \div b
<1> DEFINE d == a \div b
           r == a % b
<1>1. d \in Int /\ r \in Int /\ 0 <= r /\ r < b /\ a = b * d + r
  OBVIOUS
<1> HIDE DEF d, r
<1>2. d \in Nat
  <2>1. SUFFICES ASSUME d <= -1 PROVE FALSE
    BY <1>1
  <2>2. b * d <= b * (-1)
    BY <1>1, <2>1
  <2> QED
    BY <1>1, <2>2
<1>3. d * b <= a
  BY <1>1
<1>4. ASSUME NEW q \in Nat, q * b <= a PROVE q <= d
  <2>1. SUFFICES ASSUME q >= d + 1 PROVE FALSE
    BY <1>2
  <2>2. q * b >= (d + 1) * b
    BY <1>2, <2>1
  <2>3. (d + 1) * b = b * d + b
    BY <1>2
  <2> QED
    BY <1>1, <1>2, <1>4, <2>2, <2>3
<1> QED
  BY <1>2, <1>3, <1>4 DEF d

Pick(n, j) == ((2 * j + 1) * Held) \div (2 * n)

\* A pick lies in its own part of the collection, and two picks differ.
LEMMA PickInPart ==
  ASSUME NEW n \in 1..Held, NEW j \in 0..(n - 1)
  PROVE  /\ Pick(n, j) \in Nat
         /\ Pick(n, j) >= (j * Held) \div n
         /\ Pick(n, j) * n < (j + 1) * Held
         /\ \A k \in 0..(n - 1) : j < k => Pick(n, j) < Pick(n, k)
<1>1. Held \in Nat \ {0} /\ n \in Nat \ {0} /\ j \in Nat /\ n <= Held
  BY SizingFits
<1> DEFINE p(i) == Pick(n, i)
           q == (j * Held) \div n
<1>2. ASSUME NEW i \in Nat
      PROVE  /\ p(i) \in Nat
             /\ p(i) * (2 * n) <= (2 * i + 1) * Held
             /\ \A z \in Nat : z * (2 * n) <= (2 * i + 1) * Held => z <= p(i)
  <2>1. (2 * i + 1) * Held \in Nat /\ 2 * n \in Nat \ {0}
    BY <1>1
  <2> DEFINE a == (2 * i + 1) * Held
             c == 2 * n
  <2>2. a \in Nat /\ c \in Nat \ {0}
    BY <2>1
  <2> HIDE DEF a, c
  <2>3. a \div c \in Nat /\ (a \div c) * c <= a /\ \A z \in Nat : z * c <= a => z <= a \div c
    BY <2>2, Quotient
  <2> QED
    BY <2>3, Zenon DEF a, c, Pick
<1>3. q \in Nat /\ q * n <= j * Held
  <2>1. j * Held \in Nat
    BY <1>1
  <2> QED
    BY <1>1, <2>1, Quotient
<1> HIDE DEF p, q
<1>4. q <= p(j)
  <2>1. q * (2 * n) = 2 * (q * n)
    BY <1>1, <1>3
  <2>2. (2 * j + 1) * Held = 2 * (j * Held) + Held
    BY <1>1
  <2>3. q * (2 * n) <= (2 * j + 1) * Held
    <3> DEFINE x == q * n
               y == j * Held
    <3>1. x \in Nat /\ y \in Nat /\ x <= y
      BY <1>1, <1>3
    <3>2. q * (2 * n) = 2 * x /\ (2 * j + 1) * Held = 2 * y + Held
      BY <2>1, <2>2
    <3> HIDE DEF x, y
    <3> QED
      BY <1>1, <3>1, <3>2
  <2> QED
    BY <1>1, <1>2, <1>3, <2>3
<1>5. p(j) * n < (j + 1) * Held
  <2> DEFINE x == p(j) * n
             y == j * Held
  <2>1. p(j) \in Nat /\ p(j) * (2 * n) <= (2 * j + 1) * Held
    BY <1>1, <1>2
  <2>2. p(j) * (2 * n) = 2 * x /\ (2 * j + 1) * Held = 2 * y + Held /\ (j + 1) * Held = y + Held
    BY <1>1, <2>1
  <2>3. x \in Nat /\ y \in Nat
    BY <1>1, <2>1
  <2> HIDE DEF x, y
  <2>4. 2 * x <= 2 * y + Held
    BY <2>1, <2>2
  <2>5. x < y + Held
    BY <1>1, <2>3, <2>4
  <2> QED
    BY <2>2, <2>5 DEF x
<1>6. ASSUME NEW k \in 0..(n - 1), j < k PROVE p(j) < p(k)
  <2> DEFINE x == p(j) * (2 * n)
             y == (2 * j + 1) * Held
             z == (2 * k + 1) * Held
  <2>1. k \in Nat /\ k >= j + 1
    BY <1>1, <1>6
  <2>2. p(j) \in Nat /\ p(k) \in Nat /\ x <= y
    BY <1>1, <1>2, <2>1
  <2>3. (p(j) + 1) * (2 * n) = x + 2 * n
    BY <1>1, <2>2
  <2>4. z >= y + 2 * Held
    <3>1. z >= (2 * (j + 1) + 1) * Held
      <4>1. 2 * k + 1 >= 2 * (j + 1) + 1
        BY <1>1, <2>1
      <4> QED
        BY <1>1, <2>1, <4>1
    <3>2. (2 * (j + 1) + 1) * Held = y + 2 * Held
      BY <1>1
    <3> QED
      BY <3>1, <3>2
  <2>5. x \in Nat /\ y \in Nat /\ z \in Nat
    BY <1>1, <2>1, <2>2
  <2>6. (p(j) + 1) * (2 * n) <= z
    <3> HIDE DEF x, y, z
    <3> QED
      BY <1>1, <2>2, <2>3, <2>4, <2>5
  <2>7. p(j) + 1 \in Nat
    BY <2>2
  <2>8. p(j) + 1 <= p(k)
    BY <1>2, <2>1, <2>6, <2>7
  <2> QED
    BY <2>2, <2>8
<1>7. p(j) \in Nat
  BY <1>1, <1>2
<1> QED
  BY <1>4, <1>5, <1>6, <1>7 DEF p, q

LEMMA Counted == ASSUME NEW S PROVE Sizing!Cardinality(S) = Cardinality(S)
BY Zenon DEF Sizing!Cardinality, Cardinality

\* A sample of n excerpts, of a collection that holds as many, has n different ones, one in each of its n parts.
LEMMA Spread ==
  ASSUME NEW n \in 1..Held
  PROVE  /\ Sizing!Cardinality(Sizing!Picks(n)) = n
         /\ \A j \in 0..(n - 1) :
              \E p \in Sizing!Picks(n) : p >= (j * Held) \div n /\ p * n < (j + 1) * Held
<1> DEFINE J == 0..(n - 1)
           P == {Pick(n, j) : j \in J}
           f == [j \in J |-> Pick(n, j)]
<1>1. Sizing!Picks(n) = P
  BY Zenon DEF Sizing!Picks, Pick
<1>2. \A j, k \in J : Pick(n, j) = Pick(n, k) => j = k
  <2>1. ASSUME NEW j \in J, NEW k \in J, Pick(n, j) = Pick(n, k) PROVE j = k
    <3>1. Pick(n, j) \in Nat /\ (j < k => Pick(n, j) < Pick(n, k))
      BY PickInPart
    <3>2. Pick(n, k) \in Nat /\ (k < j => Pick(n, k) < Pick(n, j))
      BY PickInPart
    <3> QED
      BY <2>1, <3>1, <3>2, SizingFits
  <2> QED
    BY <2>1
<1>3. IsFiniteSet(J) /\ Cardinality(J) = n
  <2>1. 0 \in Int /\ n - 1 \in Int /\ ~(0 > n - 1) /\ (n - 1) - 0 + 1 = n
    BY SizingFits
  <2> QED
    BY <2>1, FS_Interval
<1>4. f \in Bijection(J, P)
  <2> HIDE DEF J
  <2>1. f \in [J -> P]
    OBVIOUS
  <2>2. \A a, b \in J : f[a] = f[b] => a = b
    BY <1>2
  <2>3. \A t \in P : \E s \in J : f[s] = t
    OBVIOUS
  <2> HIDE DEF f, P
  <2> QED
    BY <2>1, <2>2, <2>3, Fun_IsBij
<1>5. ExistsBijection(J, P)
  BY <1>4, Zenon DEF ExistsBijection
<1>6. Cardinality(P) = n
  <2> HIDE DEF J, P, f
  <2> QED
    BY <1>3, <1>5, FS_Bijection
<1>7. \A j \in J : Pick(n, j) \in P /\ Pick(n, j) >= (j * Held) \div n /\ Pick(n, j) * n < (j + 1) * Held
  <2> TAKE j \in J
  <2>1. Pick(n, j) >= (j * Held) \div n /\ Pick(n, j) * n < (j + 1) * Held
    BY PickInPart
  <2> QED
    BY <2>1
<1> HIDE DEF P, f
<1> QED
  BY <1>1, <1>6, <1>7, Counted, Zenon

-----------------------------------------------------------------------------
(* The names that fit. *)

\* What is within reach of a room is part of the text, and nothing is within reach of no room.
LEMMA ReachIs ==
  ASSUME NEW room \in Nat
  PROVE  Sizing!WithinReach(room) \in 0..Items /\ (room = 0 => Sizing!WithinReach(room) = 0)
<1> DEFINE L == Sizing!NameLength
           S == {k \in 0..Items : k * L <= room * CharsPerToken}
<1>1. L \in Nat \ {0}
  BY SizingFits DEF Sizing!NameLength
<1> HIDE DEF L
<1>2. room * CharsPerToken \in Nat /\ 0 * L = 0
  BY <1>1, SizingFits
<1>3. 0 \in S /\ S \in SUBSET (0..Items)
  BY <1>2, SizingFits
<1>4. Sizing!Max(S) \in S
  BY <1>3, GreatestOf, SizingFits
<1>5. ASSUME room = 0, NEW k \in S PROVE k = 0
  <2>1. k \in Nat /\ k * L <= 0
    BY <1>5, SizingFits
  <2> QED
    BY <1>1, <2>1
<1>6. Sizing!WithinReach(room) = Sizing!Max(S)
  BY Zenon DEF Sizing!WithinReach, L
<1> DEFINE m == Sizing!Max(S)
<1>7. m \in 0..Items /\ (room = 0 => m = 0)
  <2>1. m \in S
    BY <1>4
  <2> HIDE DEF m
  <2> QED
    BY <1>5, <2>1
<1> QED
  BY <1>6, <1>7, Zenon

\* Counts that never fall from one text to the next never fall.
LEMMA RisingAll ==
  ASSUME cost \in [0..Items -> 0..MaxCost], Sizing!Rising, NEW m \in 0..Items, NEW n \in 0..Items, m <= n
  PROVE  cost[m] <= cost[n]
<1> DEFINE S == {k \in 0..Items : m <= k /\ cost[k] < cost[m]}
<1>1. Items \in Nat /\ MaxCost \in Nat /\ \A k \in 0..Items : cost[k] \in Nat
  BY SizingFits
<1>2. SUFFICES ASSUME ~(cost[m] <= cost[n]) PROVE FALSE
  OBVIOUS
<1>3. S \in SUBSET Nat /\ n \in S
  BY <1>1, <1>2
<1>4. PICK k \in S : \A y \in S : k <= y
  BY <1>3, LeastOf
<1>5. k \in 1..Items /\ k - 1 \in 0..Items /\ m <= k - 1
  BY <1>1, <1>4
<1>6. cost[k - 1] <= cost[k]
  BY <1>5 DEF Sizing!Rising
<1>7. k - 1 \in S
  BY <1>1, <1>4, <1>5, <1>6
<1> QED
  BY <1>3, <1>4, <1>7

\* The names found to fit are the most that do.
LEMMA FoundMost ==
  ASSUME cost \in [0..Items -> 0..MaxCost], size.room \in Nat, size.lo \in 0..Items, Found, Sizing!Rising
  PROVE  size.lo = Sizing!Longest(size.room)
<1> DEFINE w == Sizing!WithinReach(size.room)
           lo == size.lo
           room == size.room
           S == {0} \cup {k \in 1..w : cost[k] <= room}
<1>1. w \in 0..Items
  BY ReachIs
<1>2. /\ lo <= w
      /\ lo = 0 \/ cost[lo] <= room
      /\ lo = w \/ cost[lo + 1] > room
  BY Zenon DEF Found
<1>3. Sizing!Longest(room) = Sizing!Max(S)
  BY Zenon DEF Sizing!Longest
<1>4. lo \in 0..Items /\ room \in Nat
  OBVIOUS
<1> HIDE DEF w, lo, room
<1>5. lo \in S
  BY <1>1, <1>2, <1>4, SizingFits
<1>6. S \in SUBSET (0..Items)
  BY <1>1, SizingFits
<1>7. ASSUME NEW y \in S PROVE y <= lo
  <2>1. SUFFICES ASSUME y > lo PROVE FALSE
    BY <1>4, <1>6, SizingFits
  <2>2. y \in 1..w /\ cost[y] <= room /\ lo + 1 \in 0..Items /\ lo + 1 <= y /\ y \in 0..Items
    BY <1>1, <1>4, <1>6, <2>1, SizingFits
  <2>3. cost[lo + 1] > room
    BY <1>1, <1>2, <1>4, <2>1, <2>2, SizingFits
  <2>4. cost[lo + 1] <= cost[y]
    BY <2>2, RisingAll
  <2>5. cost[y] \in Nat /\ cost[lo + 1] \in Nat
    BY <2>2, SizingFits
  <2> QED
    BY <1>4, <2>2, <2>3, <2>4, <2>5
<1>8. Sizing!Max(S) = lo
  BY <1>5, <1>6, <1>7, GreatestIs, SizingFits
<1> QED
  BY <1>3, <1>8, Zenon DEF lo, room

-----------------------------------------------------------------------------
(* Every step of a sizing preserves the invariant.  The steps that end a call, and the ones that send a summary or a *)
(* query, share a lemma each.                                                                                        *)

\* A step leaves the call and its counts alone, and all that is computed from them.
LEMMA SameCall ==
  ASSUME UNCHANGED <<call, cost>>
  PROVE  /\ Local' <=> Local
         /\ Sizing!InputBudget' = Sizing!InputBudget
         /\ Sizing!Rising' <=> Sizing!Rising
         /\ Sizing!WithinReach(size.room)' = Sizing!WithinReach(size'.room)
         /\ Sizing!WithinReach(size.budget)' = Sizing!WithinReach(size'.budget)
         /\ Sizing!Longest(size.budget)' = Sizing!Longest(size'.budget)
         /\ Sizing!Longest(Half)' = Sizing!Longest(Half')
<1>1. call' = call /\ cost' = cost
  OBVIOUS
<1>2. Local' <=> Local
  BY <1>1 DEF Local
<1>3. Sizing!InputBudget' = Sizing!InputBudget
  BY <1>1, Zenon DEF Sizing!InputBudget, Sizing!SizingTemplate, Sizing!Larger
<1>4. Sizing!Rising' <=> Sizing!Rising
  BY <1>1, Zenon DEF Sizing!Rising
<1>5. Sizing!WithinReach(size.room)' = Sizing!WithinReach(size'.room)
  BY <1>1, Zenon DEF Sizing!WithinReach, Sizing!NameLength
<1>6. Sizing!WithinReach(size.budget)' = Sizing!WithinReach(size'.budget)
  BY <1>1, Zenon DEF Sizing!WithinReach, Sizing!NameLength
<1>7. Sizing!Longest(size.budget)' = Sizing!Longest(size'.budget)
  BY <1>1, Zenon DEF Sizing!Longest, Sizing!WithinReach, Sizing!NameLength
<1>8. Sizing!Longest(Half)' = Sizing!Longest(Half')
  BY <1>1, Zenon DEF Sizing!Longest, Sizing!WithinReach, Sizing!NameLength
<1> QED
  BY <1>2, <1>3, <1>4, <1>5, <1>6, <1>7, <1>8

LEMMA EndStep ==
  ASSUME SizingInv, UNCHANGED <<call, cost>>, size' = [size EXCEPT !.at = "end"],
         NEW o \in SizingOutcomes, sent' = [sent EXCEPT !.outcome = o],
         o = "too small" => (size.budget = 0 \/ cost[1] > size.budget),
         o = "unusable" => sent.first = "empty"
  PROVE  SizingInv'
<1>1. /\ size'.at = "end" /\ size'.budget = size.budget /\ size'.room = size.room
      /\ sent'.outcome = o /\ sent'.first = sent.first /\ sent'.used = sent.used /\ sent'.ceiling = sent.ceiling
      /\ call' = call /\ cost' = cost
  BY DEF SizingInv, SizingTyped
<1>2. SizingTyped'
  BY <1>1 DEF SizingInv, SizingTyped, SizingPlaces, Sizing!Larger, Sizing!Calls, Sizing!Answers
<1>3. PlacesFit' /\ BudgetKnown' /\ NamesSized' /\ SampleSized' /\ QuerySized'
  BY <1>1 DEF PlacesFit, BudgetKnown, NamesSized, SampleSized, QuerySized, NamePlaces, SamplePlaces, QueryPlaces
<1>4. SentFits'
  BY <1>1 DEF SizingInv, SentFits, Sizing!WindowHolds, Sizing!SampleKept, Sizing!LongAnswerKept
<1> QED
  BY <1>2, <1>3, <1>4 DEF SizingInv

\* The variable text that is sent fits the budget.
LEMMA SendStep ==
  ASSUME SizingInv, UNCHANGED <<call, cost>>, size.at # "budget", size.at # "end", size' = [size EXCEPT !.at = "reply"],
         NEW v \in Nat, Local => size.budget > 0 /\ v <= size.budget, Sizing!Send(Answer, v)
  PROVE  SizingInv'
<1> DEFINE u == Sizing!RealTokens(Template, v)
<1>1. /\ sent' = [sent EXCEPT !.ceiling = Answer, !.used = u, !.outcome = "sent"]
      /\ call' = call /\ cost' = cost
  BY Zenon DEF Sizing!Send
<1>2. u \in Nat
  BY SizingFits DEF Sizing!RealTokens
<1>3. Local => u + Answer <= call.window
  <2> SUFFICES ASSUME Local PROVE u + Answer <= call.window
    OBVIOUS
  <2>1. size.budget = Sizing!InputBudget /\ size.budget \in Nat /\ call \in Sizing!Calls
    BY DEF SizingInv, SizingTyped, BudgetKnown
  <2>2. Template \in Nat /\ Template <= Sizing!SizingTemplate
    BY <2>1, Forms
  <2>3. v + 0 <= size.budget /\ size.budget > 0 /\ 0 \in Nat
    BY <2>1
  <2>4. Sizing!RealTokens(Template, v) + Answer + 0 <= call.window
    BY <2>1, <2>2, <2>3, RoomHolds
  <2> HIDE DEF u
  <2>5. u + Answer + 0 <= call.window
    BY <2>4 DEF u
  <2> QED
    BY <1>2, <2>5, SizingFits
<1> HIDE DEF u
<1>4. /\ size'.at = "reply" /\ size'.budget = size.budget /\ size'.room = size.room
      /\ sent'.outcome = "sent" /\ sent'.used = u /\ sent'.ceiling = Answer
  BY <1>1 DEF SizingInv, SizingTyped
<1>5. SizingTyped'
  BY <1>1, <1>2, <1>4, SizingFits
  DEF SizingInv, SizingTyped, SizingPlaces, Sizing!Larger, Sizing!Calls, Sizing!Answers, SizingOutcomes
<1>6. PlacesFit' /\ NamesSized' /\ SampleSized' /\ QuerySized'
  BY <1>4 DEF PlacesFit, NamesSized, SampleSized, QuerySized, NamePlaces, SamplePlaces, QueryPlaces
<1>7. BudgetKnown'
  BY <1>4, SameCall DEF SizingInv, BudgetKnown
<1>8. Sizing!WindowHolds'
  BY <1>1, <1>2, <1>3, <1>4, SizingFits DEF SizingInv, SizingTyped, Sizing!WindowHolds, Sizing!Calls, Local
<1>9. SentFits'
  BY <1>4, <1>8 DEF SentFits, Sizing!SampleKept, Sizing!LongAnswerKept
<1> QED
  BY <1>5, <1>6, <1>7, <1>9 DEF SizingInv

LEMMA StepTakeBudget ==
  ASSUME SizingInv, Sizing!TakeBudget PROVE SizingInv'
<1> DEFINE b == Sizing!InputBudget
           p == CASE call.kind = "summary" -> "names" [] call.kind = "description" -> "headroom" [] OTHER -> "ceiling"
<1>1. /\ size.at = "budget" /\ call.provider # "cloud"
      /\ size' = [size EXCEPT !.budget = b, !.room = b, !.counts = 0, !.at = p]
      /\ call' = call /\ cost' = cost /\ sent' = sent
  BY Zenon DEF Sizing!TakeBudget, Sizing!At
<1>2. b \in Nat
  BY <1>1, BudgetNat DEF SizingInv, SizingTyped, Local
<1>3. size = Sizing!NotSized /\ sent = Sizing!NotSent /\ call.kind \in {"summary", "description", "query"}
  BY <1>1 DEF SizingInv, SizingTyped, Sizing!Calls, PlacesFit
<1>4. \/ call.kind = "summary" /\ p = "names"
      \/ call.kind = "description" /\ p = "headroom"
      \/ call.kind = "query" /\ p = "ceiling"
  <2>1. /\ call.kind = "summary" => p = "names"
        /\ call.kind = "description" => p = "headroom"
        /\ call.kind = "query" => p = "ceiling"
    BY Zenon
  <2> HIDE DEF p
  <2> QED
    BY <1>3, <2>1
<1> HIDE DEF b, p
<1>5. /\ size'.at = p /\ size'.budget = b /\ size'.room = b /\ size'.second = FALSE
  BY <1>1, <1>3 DEF Sizing!NotSized
<1>6. SizingTyped'
  <2>1. p \in SizingPlaces
    BY <1>4 DEF SizingPlaces, NamePlaces, SamplePlaces, QueryPlaces
  <2>2. b <= Sizing!Larger(b, Items) /\ 0 \in 0..MaxCounts
    BY <1>2, SizingFits DEF Sizing!Larger
  <2> QED
    BY <1>1, <1>2, <1>5, <2>1, <2>2 DEF SizingInv, SizingTyped
<1>7. PlacesFit'
  BY <1>1, <1>5, <1>4 DEF PlacesFit, NamePlaces, SamplePlaces, QueryPlaces, Local
<1>8. BudgetKnown'
  BY <1>1, <1>5, SameCall DEF BudgetKnown, b
<1>9. NamesSized' /\ SampleSized' /\ QuerySized'
  BY <1>5, <1>4 DEF NamesSized, NamesRoom, HalfTried, SampleSized, QuerySized, NamePlaces
<1>10. SentFits'
  BY <1>1, <1>3, <1>5, <1>4
  DEF SizingInv, SentFits, Sizing!WindowHolds, Sizing!SampleKept, Sizing!LongAnswerKept, Sizing!NotSent
<1> QED
  BY <1>6, <1>7, <1>8, <1>9, <1>10 DEF SizingInv

LEMMA StepWhole ==
  ASSUME SizingInv, Sizing!Whole PROVE SizingInv'
<1>1. /\ size.at = "budget" /\ call.provider = "cloud" /\ call' = call /\ cost' = cost /\ sent' = sent
      /\ size = Sizing!NotSized /\ sent = Sizing!NotSent
  BY DEF Sizing!Whole, Sizing!At, SizingInv, PlacesFit
<1>2. Sizing!Smaller(Items, Held) \in 1..Held /\ Sizing!Smaller(Items, Held) \in 0..Items
  BY SizingFits DEF Sizing!Smaller
<1> DEFINE h == IF call.think THEN Thinking ELSE 0
           n == Sizing!Smaller(Items, Held)
<1>3. /\ call.kind = "summary" => size' = [size EXCEPT !.at = "passages", !.kept = Items, !.passages = Passages]
      /\ call.kind = "description" => size' = [size EXCEPT !.at = "draw", !.lo = n, !.headroom = h]
      /\ call.kind = "query" => size' = [size EXCEPT !.at = "fitted", !.lo = Items]
  BY Zenon DEF Sizing!Whole, Sizing!Chars
<1>4. h \in 0..Thinking /\ n \in 1..Held /\ n \in 0..Items
  BY <1>2, SizingFits
<1>5. call.kind = "summary" \/ call.kind = "description" \/ call.kind = "query"
  BY DEF SizingInv, SizingTyped, Sizing!Calls
<1> HIDE DEF h, n
<1>6. SizingTyped'
  <2>1. /\ "passages" \in SizingPlaces /\ "draw" \in SizingPlaces /\ "fitted" \in SizingPlaces
        /\ Passages \in 0..Passages /\ Items \in 0..Items
    BY SizingFits DEF SizingPlaces, SamplePlaces, QueryPlaces
  <2>2. CASE call.kind = "summary"
    BY <1>1, <1>3, <2>1, <2>2 DEF SizingInv, SizingTyped
  <2>3. CASE call.kind = "description"
    BY <1>1, <1>3, <1>4, <2>1, <2>3 DEF SizingInv, SizingTyped
  <2>4. CASE call.kind = "query"
    BY <1>1, <1>3, <2>1, <2>4 DEF SizingInv, SizingTyped
  <2> QED
    BY <1>5, <2>2, <2>3, <2>4
<1>7. /\ call.kind = "summary" => size'.at = "passages" /\ size'.passages = Passages
      /\ call.kind = "description" => size'.at = "draw" /\ size'.lo = n
      /\ call.kind = "query" => size'.at = "fitted"
  BY <1>3 DEF SizingInv, SizingTyped
<1>8. PlacesFit' /\ BudgetKnown'
  BY <1>1, <1>7, <1>5, SameCall DEF PlacesFit, BudgetKnown, NamePlaces, SamplePlaces, QueryPlaces, Local
<1>9. NamesSized' /\ SampleSized' /\ QuerySized'
  BY <1>1, <1>7, <1>4, <1>5, SameCall DEF NamesSized, SampleSized, QuerySized, NamePlaces, Local
<1>10. SentFits'
  BY <1>1, <1>7, <1>5 DEF SizingInv, SentFits, Sizing!WindowHolds, Sizing!SampleKept, Sizing!LongAnswerKept, Sizing!NotSent
<1> QED
  BY <1>6, <1>8, <1>9, <1>10 DEF SizingInv

LEMMA StepReply ==
  ASSUME SizingInv, NEW a \in Sizing!Answers, Sizing!Reply(a) PROVE SizingInv'
<1> DEFINE o == IF a = "good" THEN "answered" ELSE "nothing"
<1>1. UNCHANGED <<call, cost>> /\ size' = [size EXCEPT !.at = "end"] /\ sent' = [sent EXCEPT !.outcome = o]
  BY Zenon DEF Sizing!Reply, Sizing!Give
<1>2. o \in SizingOutcomes /\ o # "too small" /\ o # "unusable"
  BY DEF SizingOutcomes
<1> HIDE DEF o
<1> QED
  BY <1>1, <1>2, EndStep

LEMMA StepReadFails ==
  ASSUME SizingInv, NEW o \in {"read failed", "no open chunk"}, Sizing!ReadFails(o) PROVE SizingInv'
<1>1. UNCHANGED <<call, cost>> /\ size' = [size EXCEPT !.at = "end"] /\ sent' = [sent EXCEPT !.outcome = o]
  BY Zenon DEF Sizing!ReadFails, Sizing!Give
<1>2. o \in SizingOutcomes /\ o # "too small" /\ o # "unusable"
  BY DEF SizingOutcomes
<1> QED
  BY <1>1, <1>2, EndStep

LEMMA StepCountFails ==
  ASSUME SizingInv, Sizing!CountFails PROVE SizingInv'
<1>1. UNCHANGED <<call, cost>> /\ size' = [size EXCEPT !.at = "end"] /\ sent' = [sent EXCEPT !.outcome = "call failed"]
  BY Zenon DEF Sizing!CountFails, Sizing!Give
<1>2. "call failed" \in SizingOutcomes
  BY DEF SizingOutcomes
<1> QED
  BY <1>1, <1>2, EndStep

\* A step within the names moves no passage and sends nothing.
LEMMA NamesStep ==
  ASSUME SizingInv, call' = call, cost' = cost, sent' = sent, size.at \in NamePlaces, size'.at \in NamePlaces,
         size'.budget = size.budget, SizingTyped', NamesSized'
  PROVE  SizingInv'
<1>1. PlacesFit'
  BY SameCall DEF SizingInv, PlacesFit, NamePlaces, SamplePlaces, QueryPlaces
<1>2. BudgetKnown'
  BY SameCall DEF SizingInv, BudgetKnown, NamePlaces
<1>3. SampleSized' /\ QuerySized'
  BY DEF SampleSized, QuerySized, NamePlaces
<1>4. SentFits'
  <2>1. sent.outcome \in {"none", "sent"}
    BY DEF SizingInv, SentFits, NamePlaces
  <2> QED
    BY <2>1 DEF SizingInv, SentFits, Sizing!WindowHolds, Sizing!SampleKept, Sizing!LongAnswerKept
<1> QED
  BY <1>1, <1>2, <1>3, <1>4 DEF SizingInv

LEMMA StepCountNames ==
  ASSUME SizingInv, Sizing!CountNames PROVE SizingInv'
<1> DEFINE r == Sizing!WithinReach(size.room)
<1>1. /\ size.at = "names" /\ call' = call /\ cost' = cost /\ sent' = sent
      /\ size' = IF r = 0 \/ cost[r] <= size.room THEN [size EXCEPT !.at = "kept", !.lo = r]
                 ELSE [size EXCEPT !.at = "bisect", !.lo = 0, !.hi = r]
  BY Zenon DEF Sizing!CountNames, Sizing!At
<1>2. r \in 0..Items /\ SizingTyped /\ NamesRoom
  BY <1>1, ReachIs DEF SizingInv, SizingTyped, NamesSized, NamePlaces
<1>3. "kept" \in SizingPlaces /\ "bisect" \in SizingPlaces /\ 0 \in 0..Items /\ r \in 0..(Items + 1)
  BY <1>2, SizingFits DEF SizingPlaces, NamePlaces
<1>4. Sizing!WithinReach(size.room)' = Sizing!WithinReach(size'.room)
      /\ Sizing!WithinReach(size.budget)' = Sizing!WithinReach(size'.budget)
      /\ Sizing!Longest(size.budget)' = Sizing!Longest(size'.budget) /\ (Sizing!Rising' <=> Sizing!Rising)
  BY <1>1, SameCall
<1>5. /\ size'.budget = size.budget /\ size'.room = size.room /\ size'.second = size.second /\ size'.kept = size.kept
      /\ size'.at \in {"kept", "bisect"}
  BY <1>1 DEF SizingInv, SizingTyped
<1>6. SizingTyped'
  <2> HIDE DEF r
  <2> QED
    BY <1>1, <1>2, <1>3, <1>5 DEF SizingTyped
<1>7. NamesRoom'
  BY <1>1, <1>2, <1>4, <1>5 DEF NamesRoom, HalfTried, Half
<1>8. size'.at = "bisect" => Bisected'
  <2> SUFFICES ASSUME size'.at = "bisect" PROVE Bisected'
    OBVIOUS
  <2>1. ~(r = 0 \/ cost[r] <= size.room) /\ size'.lo = 0 /\ size'.hi = r
    BY <1>1 DEF SizingInv, SizingTyped
  <2>2. Sizing!WithinReach(size.room)' = r
    BY <1>4, <1>5
  <2> HIDE DEF r
  <2>3. cost[r] \in Nat /\ size.room \in Nat /\ r > 0 /\ r <= r
    BY <1>2, <2>1, SizingFits DEF SizingTyped
  <2> QED
    BY <1>1, <1>5, <2>1, <2>2, <2>3 DEF Bisected
<1>9. size'.at = "kept" => Found'
  <2> SUFFICES ASSUME size'.at = "kept" PROVE Found'
    OBVIOUS
  <2>1. (r = 0 \/ cost[r] <= size.room) /\ size'.lo = r
    BY <1>1 DEF SizingInv, SizingTyped
  <2>2. Sizing!WithinReach(size.room)' = r
    BY <1>4, <1>5
  <2> HIDE DEF r
  <2> QED
    BY <1>1, <1>2, <1>5, <2>1, <2>2, SizingFits DEF Found
<1>10. NamesSized'
  BY <1>5, <1>7, <1>8, <1>9 DEF NamesSized
<1> QED
  BY <1>1, <1>5, <1>6, <1>10, NamesStep DEF NamePlaces

LEMMA StepBisect ==
  ASSUME SizingInv, Sizing!Bisect PROVE SizingInv'
<1> DEFINE m == (size.lo + size.hi) \div 2
           r == Sizing!WithinReach(size.room)
<1>1. /\ size.at = "bisect" /\ call' = call /\ cost' = cost /\ sent' = sent
      /\ size' = IF Sizing!Closed THEN [size EXCEPT !.at = "kept"]
                 ELSE IF cost[m] <= size.room THEN [size EXCEPT !.lo = m] ELSE [size EXCEPT !.hi = m]
  BY Zenon DEF Sizing!Bisect, Sizing!At
<1>2. r \in 0..Items /\ SizingTyped /\ NamesRoom /\ Bisected
  BY <1>1, ReachIs DEF SizingInv, SizingTyped, NamesSized, NamePlaces
<1>3. /\ size.lo \in 0..Items /\ size.hi \in 0..(Items + 1) /\ size.room \in Nat
      /\ size.lo < size.hi /\ size.hi <= r /\ cost[size.hi] > size.room
      /\ size.lo = 0 \/ cost[size.lo] <= size.room
  BY <1>2 DEF SizingTyped, Bisected
<1>4. Sizing!WithinReach(size.room)' = Sizing!WithinReach(size'.room)
      /\ Sizing!WithinReach(size.budget)' = Sizing!WithinReach(size'.budget)
      /\ Sizing!Longest(size.budget)' = Sizing!Longest(size'.budget) /\ (Sizing!Rising' <=> Sizing!Rising)
  BY <1>1, SameCall
<1>5. ~Sizing!Closed => m \in 0..Items /\ m \in 0..(Items + 1) /\ size.lo < m /\ m < size.hi
  BY <1>2, <1>3, SizingFits DEF Sizing!Closed
<1>6. Sizing!Closed => size.hi = size.lo + 1
  BY <1>3, SizingFits DEF Sizing!Closed
<1> HIDE DEF m
<1>7. /\ size'.budget = size.budget /\ size'.room = size.room /\ size'.second = size.second /\ size'.kept = size.kept
      /\ size'.at \in {"kept", "bisect"}
  BY <1>1 DEF SizingInv, SizingTyped
<1>8. SizingTyped'
  <2>1. "kept" \in SizingPlaces
    BY DEF SizingPlaces, NamePlaces
  <2> QED
    BY <1>1, <1>2, <1>5, <1>7, <2>1 DEF SizingTyped
<1>9. NamesRoom'
  BY <1>1, <1>2, <1>4, <1>7 DEF NamesRoom, HalfTried, Half
<1>10. Sizing!WithinReach(size.room)' = r
  BY <1>4, <1>7
<1> HIDE DEF r
<1>11. size'.at = "bisect" => Bisected'
  <2> SUFFICES ASSUME size'.at = "bisect" PROVE Bisected'
    OBVIOUS
  <2>1. ~Sizing!Closed
    BY <1>1 DEF SizingInv, SizingTyped
  <2>2. CASE cost[m] <= size.room
    <3>1. size'.lo = m /\ size'.hi = size.hi
      BY <1>1, <2>1, <2>2 DEF SizingInv, SizingTyped
    <3> QED
      BY <1>1, <1>3, <1>5, <1>7, <1>10, <2>1, <2>2, <3>1 DEF Bisected
  <2>3. CASE ~(cost[m] <= size.room)
    <3>1. size'.lo = size.lo /\ size'.hi = m
      BY <1>1, <2>1, <2>3 DEF SizingInv, SizingTyped
    <3>2. m \in 0..Items /\ m <= r
      BY <1>2, <1>3, <1>5, <2>1, SizingFits
    <3>3. cost[m] \in Nat
      <4>1. cost \in [0..Items -> 0..MaxCost]
        BY <1>2 DEF SizingTyped
      <4>2. cost[m] \in 0..MaxCost
        BY <3>2, <4>1
      <4> QED
        BY <4>2, SizingFits
    <3> QED
      BY <1>1, <1>3, <1>5, <1>7, <1>10, <2>1, <2>3, <3>1, <3>2, <3>3 DEF Bisected
  <2> QED
    BY <2>2, <2>3
<1>12. size'.at = "kept" => Found'
  <2> SUFFICES ASSUME size'.at = "kept" PROVE Found'
    OBVIOUS
  <2>1. Sizing!Closed /\ size'.lo = size.lo
    BY <1>1 DEF SizingInv, SizingTyped
  <2>2. size.lo <= r /\ cost[size.lo + 1] > size.room
    BY <1>2, <1>3, <1>6, <2>1, SizingFits
  <2> QED
    BY <1>1, <1>3, <1>7, <1>10, <2>1, <2>2 DEF Found
<1>13. NamesSized'
  BY <1>7, <1>9, <1>11, <1>12 DEF NamesSized
<1> QED
  BY <1>1, <1>7, <1>8, <1>13, NamesStep DEF NamePlaces

\* A step out of the names to the passages.
LEMMA StepKeepNames ==
  ASSUME SizingInv, Sizing!KeepNames PROVE SizingInv'
<1> DEFINE k == IF size.second /\ size.lo = 0 THEN size.kept ELSE size.lo
<1>1. /\ size.at = "kept" /\ call' = call /\ cost' = cost
      /\ IF ~size.second /\ k < Items /\ Passages > 0
         THEN size' = [size EXCEPT !.at = "names", !.second = TRUE, !.kept = k, !.room = Half] /\ sent' = sent
         ELSE IF k = 0
         THEN size' = [size EXCEPT !.at = "end"] /\ sent' = [sent EXCEPT !.outcome = "no summary"]
         ELSE size' = [size EXCEPT !.at = "passages", !.kept = k, !.used = cost[k]] /\ sent' = sent
  BY Zenon DEF Sizing!KeepNames, Sizing!At, Sizing!Give, Half
<1>2. SizingTyped /\ NamesRoom /\ Found /\ Local /\ call.kind = "summary" /\ sent.outcome \in {"none", "sent"}
  BY <1>1 DEF SizingInv, NamesSized, NamePlaces, PlacesFit, SentFits
<1>3. /\ size.lo \in 0..Items /\ size.kept \in 0..Items /\ size.room \in Nat /\ size.budget \in Nat
      /\ cost \in [0..Items -> 0..MaxCost] /\ size.second \in BOOLEAN
  BY <1>2 DEF SizingTyped
<1>4. Half \in Nat /\ Half <= size.budget
  BY <1>3 DEF Half
<1>5. k \in 0..Items
  BY <1>3
<1>6. Sizing!Rising => size.lo = Sizing!Longest(size.room)
  BY <1>2, <1>3, FoundMost
<1>7. /\ Sizing!WithinReach(size.budget)' = Sizing!WithinReach(size'.budget)
      /\ Sizing!Longest(size.budget)' = Sizing!Longest(size'.budget) /\ (Sizing!Rising' <=> Sizing!Rising)
      /\ Sizing!Longest(Half)' = Sizing!Longest(Half') /\ Sizing!InputBudget' = Sizing!InputBudget /\ Local'
  BY <1>1, <1>2, SameCall
<1>8. CASE ~size.second /\ k < Items /\ Passages > 0
  <2>1. k = size.lo /\ size.room = size.budget
    BY <1>2, <1>8 DEF NamesRoom
  <2> HIDE DEF k
  <2>2. size' = [size EXCEPT !.at = "names", !.second = TRUE, !.kept = k, !.room = Half] /\ sent' = sent
    BY <1>1, <1>8
  <2>3. size'.at = "names" /\ size'.second = TRUE /\ size'.kept = k /\ size'.room = Half /\ size'.budget = size.budget
    BY <1>2, <2>2 DEF SizingTyped
  <2>4. SizingTyped'
    <3>1. "names" \in SizingPlaces /\ Half <= Sizing!Larger(size.budget, Items)
      BY <1>3, <1>4, SizingFits DEF SizingPlaces, NamePlaces, Sizing!Larger
    <3> QED
      BY <1>1, <1>2, <1>4, <1>5, <2>2, <2>3, <3>1 DEF SizingTyped
  <2>5. /\ size.lo <= Sizing!WithinReach(size.budget) /\ (size.lo = 0 \/ cost[size.lo] <= size.budget)
        /\ Sizing!Rising => size.lo = Sizing!Longest(size.budget)
    BY <1>2, <1>6, <2>1 DEF Found
  <2>6. HalfTried'
    BY <1>1, <1>7, <1>8, <2>1, <2>3, <2>5 DEF HalfTried
  <2>7. Half' = Half
    BY <2>3 DEF Half
  <2>8. NamesSized'
    BY <2>3, <2>6, <2>7 DEF NamesSized, NamesRoom
  <2> QED
    BY <1>1, <2>2, <2>3, <2>4, <2>8, NamesStep DEF NamePlaces
<1>9. CASE ~(~size.second /\ k < Items /\ Passages > 0) /\ k = 0
  <2>1. size' = [size EXCEPT !.at = "end"] /\ sent' = [sent EXCEPT !.outcome = "no summary"]
    BY <1>1, <1>9, Zenon
  <2>2. "no summary" \in SizingOutcomes
    BY DEF SizingOutcomes
  <2> QED
    BY <1>1, <2>1, <2>2, EndStep
<1>10. CASE ~(~size.second /\ k < Items /\ Passages > 0) /\ k # 0
  <2>1. size' = [size EXCEPT !.at = "passages", !.kept = k, !.used = cost[k]] /\ sent' = sent
    BY <1>1, <1>10, Zenon
  <2>2. size.budget > 0 /\ cost[k] <= size.budget
    <3>1. CASE size.second /\ size.lo = 0
      <4>1. k = size.kept /\ size.kept <= Sizing!WithinReach(size.budget) /\ cost[size.kept] <= size.budget
        BY <1>2, <1>10, <3>1 DEF NamesRoom, HalfTried
      <4>2. Sizing!WithinReach(size.budget) \in 0..Items /\ (size.budget = 0 => Sizing!WithinReach(size.budget) = 0)
        BY <1>3, ReachIs
      <4> QED
        BY <1>3, <1>5, <1>10, <4>1, <4>2, SizingFits
    <3>2. CASE ~(size.second /\ size.lo = 0)
      <4>1. k = size.lo /\ size.lo <= Sizing!WithinReach(size.room) /\ cost[size.lo] <= size.room
        BY <1>2, <1>10, <3>2 DEF Found
      <4>2. Sizing!WithinReach(size.room) \in 0..Items /\ (size.room = 0 => Sizing!WithinReach(size.room) = 0)
        BY <1>3, ReachIs
      <4>3. size.room <= size.budget
        BY <1>2, <1>3, <1>4 DEF NamesRoom
      <4>4. size.room > 0 /\ cost[size.lo] \in Nat
        BY <1>3, <1>5, <1>10, <4>1, <4>2, SizingFits
      <4> QED
        BY <1>3, <4>1, <4>3, <4>4
    <3> QED
      BY <3>1, <3>2
  <2>3. Sizing!Rising => k = MostNames
    <3> SUFFICES ASSUME Sizing!Rising PROVE k = MostNames
      OBVIOUS
    <3>1. CASE size.second
      <4>1. /\ Passages > 0 /\ size.kept < Items /\ size.kept = Sizing!Longest(size.budget)
            /\ size.lo = Sizing!Longest(Half)
        BY <1>2, <1>6, <3>1 DEF NamesRoom, HalfTried
      <4> QED
        BY <1>3, <3>1, <4>1, SizingFits DEF MostNames
    <3>2. CASE ~size.second
      <4>1. k = Sizing!Longest(size.budget) /\ (k = Items \/ Passages = 0)
        BY <1>2, <1>3, <1>5, <1>6, <1>10, <3>2, SizingFits DEF NamesRoom
      <4> QED
        BY <4>1 DEF MostNames
    <3> QED
      BY <3>1, <3>2
  <2> HIDE DEF k
  <2>4. /\ size'.at = "passages" /\ size'.kept = k /\ size'.used = cost[k]
        /\ size'.room = size.room /\ size'.budget = size.budget
    BY <1>2, <2>1 DEF SizingTyped
  <2>5. SizingTyped'
    <3>1. "passages" \in SizingPlaces /\ cost[k] \in 0..MaxCost
      BY <1>3, <1>5 DEF SizingPlaces
    <3> QED
      BY <1>1, <1>2, <1>5, <2>1, <2>4, <3>1 DEF SizingTyped
  <2>6. MostNames' = MostNames
    BY <1>7, <2>4 DEF MostNames, Half
  <2>7. NamesSized'
    BY <1>7, <2>2, <2>3, <2>4, <2>6 DEF NamesSized, NamePlaces
  <2>8. PlacesFit' /\ SampleSized' /\ QuerySized'
    BY <1>1, <1>2, <2>4 DEF PlacesFit, SampleSized, QuerySized, NamePlaces, SamplePlaces, QueryPlaces
  <2>9. BudgetKnown'
    BY <1>1, <1>2, <1>7, <2>4 DEF SizingInv, BudgetKnown
  <2>10. SentFits'
    BY <1>1, <1>2, <2>1 DEF SizingInv, SentFits, Sizing!WindowHolds, Sizing!SampleKept, Sizing!LongAnswerKept
  <2> QED
    BY <2>5, <2>7, <2>8, <2>9, <2>10 DEF SizingInv
<1> QED
  BY <1>8, <1>9, <1>10

LEMMA StepAddPassage ==
  ASSUME SizingInv, NEW t \in 0..MaxCost, Sizing!AddPassage(t) PROVE SizingInv'
<1>1. /\ size.at = "passages" /\ size.passages < Passages /\ call' = call /\ cost' = cost /\ sent' = sent
      /\ size' = IF t <= size.budget THEN [size EXCEPT !.passages = size.passages + 1, !.used = t]
                 ELSE [size EXCEPT !.at = "fits"]
  BY Zenon DEF Sizing!AddPassage, Sizing!At
<1>2. SizingTyped /\ Local /\ call.kind = "summary" /\ sent.outcome \in {"none", "sent"}
  <2>1. SizingTyped /\ call.kind = "summary" /\ sent.outcome \in {"none", "sent"}
    BY <1>1 DEF SizingInv, PlacesFit, SentFits
  <2>2. Local
    BY <1>1, <2>1, SizingFits DEF SizingInv, SizingTyped, NamesSized
  <2> QED
    BY <2>1, <2>2
<1>3. size.budget > 0 /\ size.used <= size.budget /\ (Sizing!Rising => size.kept = MostNames)
  BY <1>1, <1>2 DEF SizingInv, NamesSized
<1>4. /\ size'.at \in {"passages", "fits"} /\ size'.kept = size.kept
      /\ size'.room = size.room /\ size'.budget = size.budget
      /\ size'.used <= size.budget
  <2>1. CASE t <= size.budget
    BY <1>1, <1>2, <2>1 DEF SizingTyped
  <2>2. CASE ~(t <= size.budget)
    BY <1>1, <1>2, <1>3, <2>2 DEF SizingTyped
  <2> QED
    BY <2>1, <2>2
<1>5. SizingTyped'
  <2>1. "fits" \in SizingPlaces /\ size.passages \in 0..Passages
    BY <1>2 DEF SizingPlaces, SizingTyped
  <2>2. size.passages + 1 \in 0..Passages
    BY <1>1, <2>1, SizingFits
  <2> QED
    BY <1>1, <1>2, <1>4, <2>1, <2>2 DEF SizingTyped
<1>6. /\ (Sizing!Rising' <=> Sizing!Rising) /\ Sizing!InputBudget' = Sizing!InputBudget /\ Local'
      /\ Sizing!Longest(size.budget)' = Sizing!Longest(size'.budget) /\ Sizing!Longest(Half)' = Sizing!Longest(Half')
  BY <1>1, <1>2, SameCall
<1>7. MostNames' = MostNames
  BY <1>4, <1>6 DEF MostNames, Half
<1>8. NamesSized'
  BY <1>3, <1>4, <1>6, <1>7 DEF NamesSized, NamePlaces
<1>9. PlacesFit' /\ SampleSized' /\ QuerySized'
  BY <1>1, <1>2, <1>4, <1>6 DEF PlacesFit, SampleSized, QuerySized, NamePlaces, SamplePlaces, QueryPlaces
<1>10. BudgetKnown'
  BY <1>1, <1>2, <1>4, <1>6 DEF SizingInv, BudgetKnown
<1>11. SentFits'
  BY <1>1, <1>2 DEF SizingInv, SentFits, Sizing!WindowHolds, Sizing!SampleKept, Sizing!LongAnswerKept
<1> QED
  BY <1>5, <1>8, <1>9, <1>10, <1>11 DEF SizingInv

LEMMA StepSummarise ==
  ASSUME SizingInv, Sizing!Summarise PROVE SizingInv'
<1>1. /\ size.at \in {"passages", "fits"} /\ UNCHANGED <<call, cost>> /\ size' = [size EXCEPT !.at = "reply"]
      /\ Sizing!Send(Answer, size.used)
  BY DEF Sizing!Summarise, Sizing!At
<1>2. size.used \in Nat
  BY SizingFits DEF SizingInv, SizingTyped
<1>3. Local => size.budget > 0 /\ size.used <= size.budget
  BY <1>1 DEF SizingInv, NamesSized
<1> QED
  BY <1>1, <1>2, <1>3, SendStep

\* A step within the sample: what it must still show.
LEMMA SampleStep ==
  ASSUME SizingInv, call' = call, cost' = cost, size.at \in SamplePlaces, size'.at \in SamplePlaces,
         size'.budget = size.budget, sent'.outcome \in {"none", "sent"},
         SizingTyped', SampleSized', Sizing!WindowHolds',
         size'.at \in {"headroom", "too small"} => Local
  PROVE  SizingInv'
<1>1. PlacesFit'
  BY SameCall DEF SizingInv, PlacesFit, NamePlaces, SamplePlaces, QueryPlaces
<1>2. BudgetKnown'
  BY SameCall DEF SizingInv, BudgetKnown, SamplePlaces
<1>3. NamesSized' /\ QuerySized'
  BY DEF NamesSized, QuerySized, SamplePlaces, NamePlaces
<1>4. SentFits'
  BY DEF SentFits, Sizing!SampleKept, Sizing!LongAnswerKept
<1> QED
  BY <1>1, <1>2, <1>3, <1>4 DEF SizingInv

LEMMA FullDraw ==
  Sizing!Smaller(Items, Held) \in 1..Held /\ Sizing!Smaller(Items, Held) \in 0..Items
BY SizingFits DEF Sizing!Smaller

\* A draw of all the excerpts there are, or none when there is no room.
BeforeDraw == size.at \in {"headroom", "too small"}
Drawn(room, h, second) ==
  /\ room = 0 => size' = [size EXCEPT !.at = "too small", !.room = room, !.headroom = h, !.second = second]
  /\ room # 0 => size' = [size EXCEPT !.at = "draw", !.room = room, !.headroom = h, !.second = second,
                                      !.lo = Sizing!Smaller(Items, Held)]
  /\ second \in BOOLEAN
  /\ (second \/ ~call.think) => h = 0
  /\ h <= Thinking /\ size.budget = room + h
LEMMA DrawStep ==
  ASSUME SizingInv, call' = call, cost' = cost, sent' = sent, BeforeDraw,
         NEW room \in Nat, NEW h \in Nat, NEW second, Drawn(room, h, second)
  PROVE  SizingInv'
<1> DEFINE n == Sizing!Smaller(Items, Held)
<1>1. n \in 1..Held /\ n \in 0..Items
  BY FullDraw
<1> HIDE DEF n
<1>2. SizingTyped /\ Local /\ sent.outcome \in {"none", "sent"} /\ Sizing!WindowHolds
  BY DEF SizingInv, PlacesFit, SentFits, BeforeDraw
<1>3. h \in 0..Thinking
  <2>1. h <= Thinking
    BY Zenon DEF Drawn
  <2> QED
    BY <2>1, SizingFits
<1>4. /\ room = 0 => size'.at = "too small"
      /\ room # 0 => size'.at = "draw" /\ size'.lo = n
      /\ size'.room = room /\ size'.headroom = h /\ size'.second = second /\ size'.budget = size.budget
  <2>1. CASE room = 0
    BY <1>2, <2>1 DEF SizingTyped, Drawn
  <2>2. CASE room # 0
    BY <1>2, <2>2 DEF SizingTyped, Drawn, n
  <2> QED
    BY <2>1, <2>2
<1>5. SizingTyped'
  <2>1. "too small" \in SizingPlaces /\ "draw" \in SizingPlaces /\ size.budget \in Nat
    BY <1>2 DEF SizingPlaces, SamplePlaces, SizingTyped
  <2>2. room <= Sizing!Larger(size.budget, Items)
    <3>1. room <= Sizing!Larger(room + h, Items)
      BY SizingFits DEF Sizing!Larger
    <3> QED
      BY <3>1 DEF Drawn
  <2>3. CASE room = 0
    BY <1>2, <1>4, <1>3, <2>1, <2>2, <2>3 DEF SizingTyped, Drawn
  <2>4. CASE room # 0
    BY <1>1, <1>2, <1>4, <1>3, <2>1, <2>2, <2>4 DEF SizingTyped, Drawn, n
  <2> QED
    BY <2>3, <2>4
<1>6. SampleSized'
  <2>1. (size'.second \/ ~call'.think) => size'.headroom = 0
    BY <1>4, Zenon DEF Drawn
  <2>2. size'.room + size'.headroom = size'.budget
    BY <1>4 DEF Drawn
  <2> QED
    <3>1. CASE room = 0
      BY <1>4, <2>1, <2>2, <3>1 DEF SampleSized
    <3>2. CASE room # 0
      <4>1. size'.at = "draw" /\ size'.lo \in 1..Held /\ size'.room > 0
        <5>1. room > 0
          BY <3>2
        <5> QED
          BY <1>1, <1>4, <3>2, <5>1
      <4> QED
        BY <2>1, <2>2, <4>1 DEF SampleSized
    <3> QED
      BY <3>1, <3>2
<1>7. Sizing!WindowHolds'
  BY <1>2 DEF Sizing!WindowHolds
<1> QED
  BY <1>2, <1>4, <1>5, <1>6, <1>7, SampleStep DEF SamplePlaces, BeforeDraw

LEMMA StepTakeHeadroom ==
  ASSUME SizingInv, Sizing!TakeHeadroom PROVE SizingInv'
<1> DEFINE h == IF call.think THEN Sizing!Smaller(Thinking, size.budget \div 2) ELSE 0
           room == size.budget - h
<1>1. size.at = "headroom" /\ call' = call /\ cost' = cost /\ sent' = sent /\ size' = Sizing!Draw(room, h)
  BY Zenon DEF Sizing!TakeHeadroom, Sizing!At
<1>2. SizingTyped /\ size.budget \in Nat /\ size.second = FALSE
  BY <1>1 DEF SizingInv, SizingTyped, SampleSized
<1>3. h \in Nat /\ h <= Thinking /\ h <= size.budget /\ (~call.think => h = 0)
  BY <1>2, SizingFits DEF Sizing!Smaller
<1> HIDE DEF h
<1>4. room \in Nat /\ size.budget = room + h
  BY <1>2, <1>3
<1>5. /\ room = 0 => size' = [size EXCEPT !.at = "too small", !.room = room, !.headroom = h]
      /\ room # 0 => size' = [size EXCEPT !.at = "draw", !.room = room, !.headroom = h,
                                          !.lo = Sizing!Smaller(Items, Held)]
  BY <1>1, Zenon DEF Sizing!Draw
<1> HIDE DEF room
<1>6. /\ room = 0 => size' = [size EXCEPT !.at = "too small", !.room = room, !.headroom = h, !.second = FALSE]
      /\ room # 0 => size' = [size EXCEPT !.at = "draw", !.room = room, !.headroom = h, !.second = FALSE,
                                          !.lo = Sizing!Smaller(Items, Held)]
  <2> DEFINE s == [size EXCEPT !.second = FALSE]
  <2>1. s = size
    BY <1>2, Zenon DEF SizingTyped
  <2>2. /\ room = 0 => size' = [s EXCEPT !.at = "too small", !.room = room, !.headroom = h]
        /\ room # 0 => size' = [s EXCEPT !.at = "draw", !.room = room, !.headroom = h,
                                          !.lo = Sizing!Smaller(Items, Held)]
    BY <1>5, <2>1, Zenon
  <2> QED
    BY <1>2, <2>2 DEF SizingTyped
<1>7. Drawn(room, h, FALSE)
  BY <1>3, <1>4, <1>6, Zenon DEF Drawn
<1>8. BeforeDraw
  BY <1>1 DEF BeforeDraw
<1> QED
  BY <1>1, <1>3, <1>4, <1>7, <1>8, DrawStep

LEMMA StepWithoutHeadroom ==
  ASSUME SizingInv, Sizing!WithoutHeadroom PROVE SizingInv'
<1>1. /\ size.at = "too small" /\ call' = call /\ cost' = cost
      /\ IF Sizing!MayDropHeadroom THEN size' = [Sizing!Draw(size.budget, 0) EXCEPT !.second = TRUE] /\ sent' = sent
         ELSE size' = [size EXCEPT !.at = "end"] /\ sent' = [sent EXCEPT !.outcome = "too small"]
  BY Zenon DEF Sizing!WithoutHeadroom, Sizing!At, Sizing!Give
<1>2. SizingTyped /\ size.budget \in Nat /\ size.room \in Nat /\ Local
  BY <1>1 DEF SizingInv, SizingTyped, PlacesFit
<1>3. CASE Sizing!MayDropHeadroom
  <2> DEFINE room == size.budget
  <2>1. size' = [Sizing!Draw(room, 0) EXCEPT !.second = TRUE] /\ sent' = sent
    BY <1>1, <1>3, Zenon
  <2>2. /\ room = 0 => size' = [[size EXCEPT !.at = "too small", !.room = room, !.headroom = 0] EXCEPT !.second = TRUE]
        /\ room # 0 => size' = [[size EXCEPT !.at = "draw", !.room = room, !.headroom = 0,
                                             !.lo = Sizing!Smaller(Items, Held)] EXCEPT !.second = TRUE]
    BY <2>1, Zenon DEF Sizing!Draw
  <2>3. room \in Nat /\ size.budget = room + 0 /\ 0 <= Thinking
    BY <1>2, SizingFits
  <2> HIDE DEF room
  <2>4. /\ room = 0 => size' = [size EXCEPT !.at = "too small", !.room = room, !.headroom = 0, !.second = TRUE]
        /\ room # 0 => size' = [size EXCEPT !.at = "draw", !.room = room, !.headroom = 0, !.second = TRUE,
                                            !.lo = Sizing!Smaller(Items, Held)]
    BY <1>2, <2>2 DEF SizingTyped
  <2>5. Drawn(room, 0, TRUE)
    BY <2>3, <2>4, Zenon DEF Drawn
  <2>6. BeforeDraw
    BY <1>1 DEF BeforeDraw
  <2> QED
    BY <1>1, <2>1, <2>3, <2>5, <2>6, DrawStep
<1>4. CASE ~Sizing!MayDropHeadroom
  <2>1. size' = [size EXCEPT !.at = "end"] /\ sent' = [sent EXCEPT !.outcome = "too small"]
    BY <1>1, <1>4, Zenon
  <2>2. size.room + size.headroom = size.budget /\ size.headroom = 0 /\ (size.room = 0 \/ cost[1] > size.room)
    BY <1>1, <1>2, <1>4 DEF SizingInv, SampleSized, Sizing!MayDropHeadroom
  <2>3. size.budget = 0 \/ cost[1] > size.budget
    BY <1>2, <2>2
  <2>4. "too small" \in SizingOutcomes
    BY DEF SizingOutcomes
  <2> QED
    BY <1>1, <2>1, <2>3, <2>4, EndStep
<1> QED
  BY <1>3, <1>4

LEMMA StepCountDraw ==
  ASSUME SizingInv, Sizing!CountDraw PROVE SizingInv'
<1> DEFINE n == size.lo
           q == (n * size.room) \div cost[n]
           m == Sizing!Larger(1, Sizing!Smaller(n - 1, q))
<1>1. /\ size.at = "draw" /\ call' = call /\ cost' = cost /\ sent' = sent
      /\ size' = IF call.provider = "cloud" \/ cost[n] <= size.room THEN [size EXCEPT !.at = "ask"]
                 ELSE IF n = 1 THEN [size EXCEPT !.at = "too small"] ELSE [size EXCEPT !.lo = m]
  BY Zenon DEF Sizing!CountDraw, Sizing!At
<1>2. /\ SizingTyped /\ n \in 1..Held /\ n \in 0..Items /\ size.room \in Nat /\ size.budget \in Nat
      /\ size.headroom \in 0..Thinking
  BY <1>1 DEF SizingInv, SizingTyped, SampleSized
<1>3. Local => /\ size.room + size.headroom = size.budget /\ size.room > 0
               /\ (size.second \/ ~call.think) => size.headroom = 0
  BY <1>1 DEF SizingInv, SampleSized
<1>4. cost[n] \in Nat
  <2>1. cost \in [0..Items -> 0..MaxCost]
    BY <1>2 DEF SizingTyped
  <2>2. cost[n] \in 0..MaxCost
    BY <1>2, <2>1
  <2> QED
    BY <2>2, SizingFits
<1>5. sent.outcome \in {"none", "sent"} /\ Sizing!WindowHolds'
  BY <1>1 DEF SizingInv, SentFits, Sizing!WindowHolds
<1> HIDE DEF n, m
<1>6. CASE call.provider = "cloud" \/ cost[n] <= size.room
  <2>1. size' = [size EXCEPT !.at = "ask"] /\ sent' = sent
    BY <1>1, <1>6
  <2>2. size'.at = "ask" /\ size'.lo = n /\ size'.budget = size.budget /\ size'.headroom = size.headroom
        /\ size'.room = size.room
    BY <1>2, <2>1 DEF SizingTyped, n
  <2>3. SizingTyped'
    <3>1. "ask" \in SizingPlaces
      BY DEF SizingPlaces, SamplePlaces
    <3> QED
      BY <1>1, <1>2, <2>1, <2>2, <3>1 DEF SizingTyped
  <2>4. Local => size.budget > 0 /\ cost[n] + size.headroom <= size.budget
    <3>1. size.headroom \in Nat
      BY <1>2, SizingFits
    <3> QED
      BY <1>2, <1>3, <1>4, <1>6, <3>1 DEF Local
  <2>5. SampleSized'
    BY <1>1, <1>2, <2>2, <2>4, SameCall DEF SampleSized
  <2> QED
    BY <1>1, <1>5, <2>1, <2>2, <2>3, <2>5, SampleStep DEF SamplePlaces
<1>7. CASE Local /\ ~(cost[n] <= size.room) /\ n = 1
  <2>1. size' = [size EXCEPT !.at = "too small"] /\ sent' = sent
    BY <1>1, <1>7 DEF Local
  <2>2. size'.at = "too small" /\ size'.budget = size.budget /\ size'.headroom = size.headroom
        /\ size'.room = size.room /\ size'.second = size.second
    BY <1>2, <2>1 DEF SizingTyped
  <2>3. SizingTyped'
    <3>1. "too small" \in SizingPlaces
      BY DEF SizingPlaces, SamplePlaces
    <3> QED
      BY <1>1, <1>2, <2>1, <2>2, <3>1 DEF SizingTyped
  <2>4. cost[1] > size.room
    BY <1>2, <1>4, <1>7
  <2>5. SampleSized'
    BY <1>1, <1>3, <1>7, <2>2, <2>4, SameCall DEF SampleSized
  <2> QED
    BY <1>1, <1>5, <1>7, <2>1, <2>2, <2>3, <2>5, SampleStep DEF SamplePlaces
<1>8. CASE Local /\ ~(cost[n] <= size.room) /\ n # 1
  <2>1. size' = [size EXCEPT !.lo = m] /\ sent' = sent
    BY <1>1, <1>8 DEF Local
  <2>2. m \in 1..Held /\ m \in 0..Items
    <3>1. n \in Nat /\ n * size.room \in Nat /\ cost[n] \in Nat \ {0} /\ n > 1
      BY <1>2, <1>4, <1>8, SizingFits
    <3>2. q \in Nat
      BY <3>1, Quotient
    <3> HIDE DEF q
    <3>3. m = Sizing!Larger(1, Sizing!Smaller(n - 1, q))
      BY DEF m
    <3>4. m \in Nat /\ m >= 1 /\ m <= n - 1
      BY <3>1, <3>2, <3>3 DEF Sizing!Larger, Sizing!Smaller
    <3> QED
      BY <1>2, <3>1, <3>4, SizingFits
  <2>3. size'.at = "draw" /\ size'.lo = m /\ size'.budget = size.budget /\ size'.headroom = size.headroom
        /\ size'.room = size.room /\ size'.second = size.second
    BY <1>1, <1>2, <2>1 DEF SizingTyped
  <2>4. SizingTyped'
    BY <1>1, <1>2, <2>1, <2>2, <2>3 DEF SizingTyped
  <2>5. SampleSized'
    BY <1>1, <1>3, <1>8, <2>2, <2>3, SameCall DEF SampleSized
  <2> QED
    BY <1>1, <1>5, <2>1, <2>3, <2>4, <2>5, SampleStep DEF SamplePlaces
<1> QED
  BY <1>6, <1>7, <1>8 DEF Local

\* An attempt with a sample that fits, with or without the reminder, fits with the headroom of its answer.
LEMMA SampleHolds ==
  ASSUME SizingInv, size.at \in SamplePlaces, Local, size.lo \in 0..Items,
         size.budget > 0, cost[size.lo] + size.headroom <= size.budget,
         NEW f \in {Template, Template + Reminder}
  PROVE  Sizing!RealTokens(f, cost[size.lo]) + (Answer + size.headroom) <= call.window
<1>1. /\ call \in Sizing!Calls /\ call.kind = "description" /\ size.budget = Sizing!InputBudget
      /\ size.budget \in Nat /\ size.headroom \in Nat /\ call.window \in Nat
  <2>1. /\ call \in Sizing!Calls /\ call.kind = "description" /\ size.budget = Sizing!InputBudget
        /\ size.budget \in Nat /\ size.headroom \in 0..Thinking
    BY DEF SizingInv, SizingTyped, PlacesFit, BudgetKnown, SamplePlaces
  <2>2. call.window \in Nat
    BY <2>1, SizingFits DEF Sizing!Calls
  <2> QED
    BY <2>1, <2>2, SizingFits
<1>2. cost[size.lo] \in Nat
  <2>1. cost[size.lo] \in 0..MaxCost
    BY DEF SizingInv, SizingTyped
  <2> QED
    BY <2>1, SizingFits
<1>3. f \in Nat /\ f <= Sizing!SizingTemplate
  BY <1>1, Forms
<1> DEFINE v == cost[size.lo]
           h == size.headroom
           t == Sizing!RealTokens(f, v)
<1>4. t + Answer + h <= call.window /\ t \in Nat
  BY <1>1, <1>2, <1>3, RoomHolds
<1>5. h \in Nat
  BY <1>1
<1> HIDE DEF t, h
<1>6. t + (Answer + h) <= call.window
  BY <1>1, <1>4, <1>5, SizingFits
<1> QED
  BY <1>6 DEF t, h

LEMMA RealNat ==
  ASSUME NEW f \in Nat, NEW v \in Nat
  PROVE  Sizing!RealTokens(f, v) \in Nat
BY SizingFits DEF Sizing!RealTokens

LEMMA StepAsk ==
  ASSUME SizingInv, Sizing!Ask PROVE SizingInv'
<1> DEFINE v == cost[size.lo]
           u == Sizing!RealTokens(Template, v)
           c == Answer + size.headroom
<1>1. /\ size.at = "ask" /\ call' = call /\ cost' = cost /\ size' = [size EXCEPT !.at = "answer"]
      /\ sent' = [sent EXCEPT !.ceiling = c, !.used = u, !.outcome = "sent"]
  BY Zenon DEF Sizing!Ask, Sizing!At, Sizing!Send
<1>2. /\ SizingTyped /\ size.lo \in 1..Held /\ size.lo \in 0..Items /\ size.headroom \in 0..Thinking
      /\ (Local => size.budget > 0 /\ v + size.headroom <= size.budget)
  BY <1>1 DEF SizingInv, SizingTyped, SampleSized
<1>3. size.at \in SamplePlaces
  BY <1>1 DEF SamplePlaces
<1>4. Local => u + c <= call.window
  BY <1>2, <1>3, SampleHolds
<1>5. v \in 0..MaxCost
  BY <1>2 DEF SizingTyped
<1>6. u \in Nat /\ c \in Nat
  <2>1. v \in Nat /\ Template \in Nat /\ c \in Nat
    BY <1>2, <1>5, SizingFits
  <2> HIDE DEF v, c
  <2> QED
    BY <2>1, RealNat
<1> HIDE DEF u, c
<1>7. /\ size'.at = "answer" /\ size'.lo = size.lo /\ size'.budget = size.budget /\ size'.headroom = size.headroom
      /\ size'.room = size.room /\ sent'.used = u /\ sent'.ceiling = c /\ sent'.outcome = "sent"
  BY <1>1, <1>2 DEF SizingTyped
<1>8. SizingTyped'
  <2>1. "answer" \in SizingPlaces /\ "sent" \in SizingOutcomes
    BY DEF SizingPlaces, SamplePlaces, SizingOutcomes
  <2> QED
    BY <1>1, <1>2, <1>6, <1>7, <2>1 DEF SizingTyped
<1>9. SampleSized'
  BY <1>1, <1>2, <1>7, SameCall DEF SampleSized, c, v
<1>10. Sizing!WindowHolds'
  BY <1>1, <1>4, <1>7 DEF Sizing!WindowHolds, Local
<1> QED
  BY <1>1, <1>3, <1>7, <1>8, <1>9, <1>10, SampleStep DEF SamplePlaces

LEMMA StepFirstAnswer ==
  ASSUME SizingInv, NEW a \in Sizing!Answers, Sizing!FirstAnswer(a) PROVE SizingInv'
<1> DEFINE v == cost[size.lo]
           u == Sizing!RealTokens(Template + Reminder, v)
           o == IF a = "good" THEN "described" ELSE "call failed"
<1>1. /\ size.at = "answer" /\ call' = call /\ cost' = cost
      /\ IF a \in {"good", "error"} THEN size' = [size EXCEPT !.at = "end"] /\ sent' = [sent EXCEPT !.outcome = o]
         ELSE size' = [size EXCEPT !.at = "retry"] /\ sent' = [sent EXCEPT !.first = a, !.used = u]
  BY Zenon DEF Sizing!FirstAnswer, Sizing!At, Sizing!Give
<1>2. CASE a \in {"good", "error"}
  <2>1. size' = [size EXCEPT !.at = "end"] /\ sent' = [sent EXCEPT !.outcome = o]
    BY <1>1, <1>2, Zenon
  <2>2. o \in SizingOutcomes /\ o # "too small" /\ o # "unusable"
    BY DEF SizingOutcomes
  <2> HIDE DEF o
  <2> QED
    BY <1>1, <2>1, <2>2, EndStep
<1>3. CASE a \notin {"good", "error"}
  <2>1. size' = [size EXCEPT !.at = "retry"] /\ sent' = [sent EXCEPT !.first = a, !.used = u] /\ a \in {"empty", "long"}
    BY <1>1, <1>3, Zenon DEF Sizing!Answers
  <2>2. /\ SizingTyped /\ size.lo \in 1..Held /\ size.lo \in 0..Items /\ size.headroom \in 0..Thinking
        /\ (Local => size.budget > 0 /\ v + size.headroom <= size.budget)
        /\ sent.ceiling = Answer + size.headroom /\ sent.outcome \in {"none", "sent"}
    BY <1>1 DEF SizingInv, SizingTyped, SampleSized, SentFits
  <2>3. size.at \in SamplePlaces
    BY <1>1 DEF SamplePlaces
  <2>4. Local => u + sent.ceiling <= call.window
    BY <2>2, <2>3, SampleHolds
  <2>5. v \in 0..MaxCost
    BY <2>2 DEF SizingTyped
  <2>6. u \in Nat
    <3>1. v \in Nat /\ Template + Reminder \in Nat
      BY <2>5, SizingFits
    <3> HIDE DEF v
    <3> QED
      BY <3>1, RealNat
  <2> HIDE DEF u
  <2>7. /\ size'.at = "retry" /\ size'.lo = size.lo /\ size'.budget = size.budget /\ size'.headroom = size.headroom
        /\ size'.room = size.room /\ sent'.used = u /\ sent'.ceiling = sent.ceiling /\ sent'.first = a
        /\ sent'.outcome = sent.outcome
    BY <2>1, <2>2 DEF SizingTyped
  <2>8. SizingTyped'
    <3>1. "retry" \in SizingPlaces
      BY DEF SizingPlaces, SamplePlaces
    <3> QED
      BY <1>1, <2>1, <2>2, <2>6, <2>7, <3>1 DEF SizingTyped
  <2>9. SampleSized'
    BY <1>1, <2>1, <2>2, <2>7, SameCall DEF SampleSized, v
  <2>10. Sizing!WindowHolds'
    BY <1>1, <2>4, <2>7 DEF Sizing!WindowHolds, Local
  <2> QED
    BY <1>1, <2>2, <2>3, <2>7, <2>8, <2>9, <2>10, SampleStep DEF SamplePlaces
<1> QED
  BY <1>2, <1>3

\* An empty retry leaves the first answer: only two empty ones are unusable.
LEMMA StepSecondAnswer ==
  ASSUME SizingInv, NEW a \in Sizing!Answers, Sizing!SecondAnswer(a) PROVE SizingInv'
<1> DEFINE o == CASE a = "error" -> "call failed" [] Sizing!Cleaned(a) = "good" -> "described"
                  [] Sizing!Cleaned(a) = "long" -> "trimmed" [] OTHER -> "unusable"
<1>1. /\ size.at = "retry" /\ UNCHANGED <<call, cost>> /\ size' = [size EXCEPT !.at = "end"]
      /\ sent' = [sent EXCEPT !.outcome = o]
  BY Zenon DEF Sizing!SecondAnswer, Sizing!At, Sizing!Give
<1>2. sent.first = "empty" \/ sent.first = "long"
  BY <1>1 DEF SizingInv, SampleSized
<1>3. a = "empty" \/ a = "good" \/ a = "long" \/ a = "error"
  BY DEF Sizing!Answers
<1>4. o \in SizingOutcomes /\ o # "too small" /\ (o = "unusable" => sent.first = "empty")
  BY <1>2, <1>3 DEF Sizing!Cleaned, SizingOutcomes
<1> HIDE DEF o
<1> QED
  BY <1>1, <1>4, EndStep

\* A step within the query: what it must still show.
LEMMA QueryStep ==
  ASSUME SizingInv, call' = call, cost' = cost, sent' = sent, size.at \in QueryPlaces, size'.at \in {"cut", "fitted"},
         Local, size'.budget = size.budget, SizingTyped', QuerySized'
  PROVE  SizingInv'
<1>1. PlacesFit'
  BY SameCall DEF SizingInv, PlacesFit, NamePlaces, SamplePlaces, QueryPlaces
<1>2. BudgetKnown'
  BY SameCall DEF SizingInv, BudgetKnown, QueryPlaces
<1>3. NamesSized' /\ SampleSized'
  BY DEF NamesSized, SampleSized, NamePlaces
<1>4. SentFits'
  <2>1. sent.outcome \in {"none", "sent"}
    BY DEF SizingInv, SentFits, QueryPlaces
  <2> QED
    BY <2>1 DEF SizingInv, SentFits, Sizing!WindowHolds, Sizing!SampleKept, Sizing!LongAnswerKept
<1> QED
  BY <1>1, <1>2, <1>3, <1>4 DEF SizingInv

\* What of a query is within reach of its budget.
LEMMA ReachFits ==
  ASSUME size.budget \in Nat
  PROVE  Sizing!Reach \in 0..Items
<1>1. size.budget * CharsPerToken \in Nat
  BY SizingFits
<1> QED
  BY <1>1, SizingFits DEF Sizing!Reach, Sizing!Smaller, Sizing!Chars

\* A token ceiling within the budget bounds the query's tokens.
LEMMA StepCeiling ==
  ASSUME SizingInv, NEW bytes \in cost[Items]..(MaxCost + 1), Sizing!Ceiling(bytes) PROVE SizingInv'
<1> DEFINE r == Sizing!Reach
<1>1. /\ size.at = "ceiling" /\ call' = call /\ cost' = cost
      /\ IF size.budget = 0 THEN size' = [size EXCEPT !.at = "end"] /\ sent' = [sent EXCEPT !.outcome = "no room"]
         ELSE IF Items <= size.budget /\ bytes <= size.budget
         THEN size' = [size EXCEPT !.at = "reply"] /\ Sizing!Send(Answer, cost[Items])
         ELSE size' = [size EXCEPT !.at = "cut", !.room = r, !.lo = 0, !.hi = r + 1] /\ sent' = sent
  BY Zenon DEF Sizing!Ceiling, Sizing!At, Sizing!Give, Sizing!Chars
<1>2. SizingTyped /\ size.budget \in Nat /\ Local
  BY <1>1 DEF SizingInv, SizingTyped, PlacesFit
<1>3. cost[Items] \in Nat
  <2>1. cost \in [0..Items -> 0..MaxCost]
    BY <1>2 DEF SizingTyped
  <2>2. Items \in 0..Items
    BY SizingFits
  <2>3. cost[Items] \in 0..MaxCost
    BY <2>1, <2>2
  <2> QED
    BY <2>3, SizingFits
<1>4. CASE size.budget = 0
  <2>1. "no room" \in SizingOutcomes
    BY DEF SizingOutcomes
  <2> QED
    BY <1>1, <1>4, <2>1, EndStep
<1>5. CASE size.budget # 0 /\ Items <= size.budget /\ bytes <= size.budget
  <2>1. size.budget > 0 /\ cost[Items] <= size.budget
    BY <1>2, <1>3, <1>5, SizingFits
  <2> QED
    BY <1>1, <1>3, <1>5, <2>1, SendStep
<1>6. CASE size.budget # 0 /\ ~(Items <= size.budget /\ bytes <= size.budget)
  <2>1. size' = [size EXCEPT !.at = "cut", !.room = r, !.lo = 0, !.hi = r + 1] /\ sent' = sent
    BY <1>1, <1>6, Zenon
  <2>2. r \in 0..Items
    BY <1>2, ReachFits
  <2> HIDE DEF r
  <2>3. size'.at = "cut" /\ size'.room = r /\ size'.lo = 0 /\ size'.hi = r + 1 /\ size'.budget = size.budget
    BY <1>2, <2>1 DEF SizingTyped
  <2>4. SizingTyped'
    <3>1. "cut" \in SizingPlaces /\ 0 \in 0..Items /\ r \in Nat /\ r + 1 \in 0..(Items + 1)
      BY <2>2, SizingFits DEF SizingPlaces, QueryPlaces
    <3>2. r <= Sizing!Larger(size.budget, Items)
      BY <1>2, <2>2, SizingFits DEF Sizing!Larger
    <3> QED
      BY <1>1, <1>2, <2>1, <2>3, <3>1, <3>2 DEF SizingTyped
  <2>5. 0 < r + 1 /\ r < r + 1 /\ size.budget > 0
    BY <1>2, <1>6, <2>2, SizingFits
  <2>6. QuerySized'
    BY <2>3, <2>5 DEF QuerySized
  <2> QED
    BY <1>1, <1>2, <2>1, <2>3, <2>4, <2>6, QueryStep DEF QueryPlaces
<1> QED
  BY <1>4, <1>5, <1>6

LEMMA HeadFits ==
  ASSUME NEW p \in 0..Items
  PROVE  Sizing!Head(p) \in 0..p
<1> DEFINE S == {k \in 0..p : k % 2 = 0 \/ (p = 1 /\ k = 1)}
<1>1. p \in Nat /\ S \in SUBSET (0..p) /\ 0 \in S
  BY SizingFits
<1>2. Sizing!Max(S) \in S
  BY <1>1, GreatestOf
<1>3. Sizing!Max(S) \in 0..p /\ p \in 0..p
  BY <1>1, <1>2
<1>4. Sizing!Head(p) = p \/ Sizing!Head(p) = Sizing!Max(S)
  BY Zenon DEF Sizing!Head
<1> HIDE DEF S
<1> QED
  BY <1>3, <1>4, Zenon

\* The next position lies inside the interval that is left.
LEMMA CutInside ==
  ASSUME NEW e \in Nat, NEW lo \in Nat, NEW hi \in Nat, lo < hi
  PROVE  Sizing!CutAt(e, lo, hi) \in Nat /\ Sizing!CutAt(e, lo, hi) < hi
BY DEF Sizing!CutAt, Sizing!Larger, Sizing!Smaller

LEMMA StepCut ==
  ASSUME SizingInv, NEW e \in 0..Items, Sizing!Cut(e) PROVE SizingInv'
<1> DEFINE n == Sizing!Head(size.room)
           c == cost[n]
           lo == IF c <= size.budget THEN n ELSE size.lo
           hi == IF c <= size.budget THEN size.hi ELSE n
           p == Sizing!CutAt(e, lo, hi)
<1>1. /\ size.at = "cut" /\ call' = call /\ cost' = cost /\ sent' = sent
      /\ \/ size' = [size EXCEPT !.at = "fitted"]
         \/ n > size.lo /\ c <= size.budget /\ size' = [size EXCEPT !.at = "fitted", !.lo = lo]
         \/ /\ n > size.lo /\ size.counts # MaxCounts
            /\ size' = [size EXCEPT !.lo = lo, !.hi = hi, !.counts = size.counts + 1, !.room = p]
  <2>1. /\ size.at = "cut" /\ call' = call /\ cost' = cost /\ sent' = sent
        /\ IF n <= size.lo \/ size.counts = MaxCounts THEN size' = [size EXCEPT !.at = "fitted"]
           ELSE IF c <= size.budget /\ (size.room >= Sizing!Reach \/ c * 100 >= size.budget * 90)
           THEN size' = [size EXCEPT !.at = "fitted", !.lo = lo]
           ELSE size' = [size EXCEPT !.lo = lo, !.hi = hi, !.counts = size.counts + 1, !.room = p]
    BY Zenon DEF Sizing!Cut, Sizing!At, Sizing!Done
  <2>2. size.room \in 0..Items /\ size.lo \in Nat
    <3>1. size.room \in Nat /\ size.room < size.hi /\ size.hi \in 0..(Items + 1) /\ size.lo \in 0..Items
      BY <2>1 DEF SizingInv, SizingTyped, QuerySized
    <3> QED
      BY <3>1, SizingFits
  <2>3. n \in Nat
    BY <2>2, HeadFits, SizingFits
  <2> HIDE DEF n, c, lo, hi, p
  <2>4. n <= size.lo \/ n > size.lo
    BY <2>2, <2>3
  <2> QED
    BY <2>1, <2>4, Zenon
<1>2. /\ SizingTyped /\ Local /\ size.budget \in Nat /\ size.lo \in 0..Items /\ size.hi \in 0..(Items + 1)
      /\ size.counts \in 0..MaxCounts /\ size.room \in Nat
      /\ size.lo < size.hi /\ size.room < size.hi /\ size.budget > 0
      /\ size.lo = 0 \/ cost[size.lo] <= size.budget
  BY <1>1 DEF SizingInv, SizingTyped, QuerySized, PlacesFit
<1>3. size.room \in 0..Items
  BY <1>2, SizingFits
<1>4. n \in 0..Items /\ n <= size.room
  <2>1. n \in 0..size.room
    BY <1>3, HeadFits
  <2> HIDE DEF n
  <2> QED
    BY <1>3, <2>1, SizingFits
<1>5. c \in Nat
  <2> HIDE DEF n
  <2>1. cost \in [0..Items -> 0..MaxCost]
    BY <1>2 DEF SizingTyped
  <2>2. cost[n] \in 0..MaxCost
    BY <1>4, <2>1
  <2> QED
    BY <2>2, SizingFits
<1> HIDE DEF n, p
<1>6. CASE size' = [size EXCEPT !.at = "fitted"]
  <2>1. size'.at = "fitted" /\ size'.lo = size.lo /\ size'.budget = size.budget /\ size'.room = size.room
    BY <1>2, <1>6 DEF SizingTyped
  <2>2. SizingTyped'
    <3>1. "fitted" \in SizingPlaces
      BY DEF SizingPlaces, QueryPlaces
    <3> QED
      BY <1>1, <1>2, <1>6, <2>1, <3>1 DEF SizingTyped
  <2>3. QuerySized'
    BY <1>1, <1>2, <2>1 DEF QuerySized
  <2> QED
    BY <1>1, <1>2, <2>1, <2>2, <2>3, QueryStep DEF QueryPlaces
<1>7. CASE n > size.lo /\ c <= size.budget /\ size' = [size EXCEPT !.at = "fitted", !.lo = lo]
  <2>1. size' = [size EXCEPT !.at = "fitted", !.lo = n]
    BY <1>7
  <2>2. size'.at = "fitted" /\ size'.lo = n /\ size'.budget = size.budget /\ size'.room = size.room
    BY <1>2, <2>1 DEF SizingTyped
  <2>3. SizingTyped'
    <3>1. "fitted" \in SizingPlaces
      BY DEF SizingPlaces, QueryPlaces
    <3> QED
      BY <1>1, <1>2, <1>4, <2>1, <2>2, <3>1 DEF SizingTyped
  <2>4. QuerySized'
    BY <1>1, <1>2, <1>7, <2>2 DEF QuerySized
  <2> QED
    BY <1>1, <1>2, <2>2, <2>3, <2>4, QueryStep DEF QueryPlaces
<1>8. CASE /\ n > size.lo /\ size.counts # MaxCounts
           /\ size' = [size EXCEPT !.lo = lo, !.hi = hi, !.counts = size.counts + 1, !.room = p]
  <2>1. /\ lo \in 0..Items /\ hi \in 0..(Items + 1) /\ lo < hi
        /\ lo = 0 \/ cost[lo] <= size.budget
    <3>1. CASE c <= size.budget
      BY <1>2, <1>4, <3>1, SizingFits
    <3>2. CASE ~(c <= size.budget)
      BY <1>2, <1>4, <1>8, <3>2, SizingFits
    <3> QED
      BY <3>1, <3>2
  <2> HIDE DEF lo, hi
  <2>2. p \in Nat /\ p < hi
    <3>1. e \in Nat /\ lo \in Nat /\ hi \in Nat
      BY <2>1, SizingFits
    <3> QED
      BY <2>1, <3>1, CutInside DEF p
  <2>3. size'.at = "cut" /\ size'.lo = lo /\ size'.hi = hi /\ size'.room = p /\ size'.budget = size.budget
    BY <1>1, <1>2, <1>8 DEF SizingTyped
  <2>4. SizingTyped'
    <3>1. size.counts + 1 \in 0..MaxCounts /\ p <= Items
      BY <1>2, <1>8, <2>1, <2>2, SizingFits
    <3>2. p <= Sizing!Larger(size.budget, Items)
      BY <1>2, <2>2, <3>1, SizingFits DEF Sizing!Larger
    <3> QED
      BY <1>1, <1>2, <1>8, <2>1, <2>2, <2>3, <3>1, <3>2 DEF SizingTyped
  <2>5. QuerySized'
    BY <1>1, <1>2, <2>1, <2>2, <2>3 DEF QuerySized
  <2> QED
    BY <1>1, <1>2, <2>3, <2>4, <2>5, QueryStep DEF QueryPlaces
<1> QED
  BY <1>1, <1>6, <1>7, <1>8

LEMMA StepQuery ==
  ASSUME SizingInv, Sizing!Query PROVE SizingInv'
<1>1. /\ size.at = "fitted" /\ UNCHANGED <<call, cost>>
      /\ size.lo = 0 => size' = [size EXCEPT !.at = "end"] /\ sent' = [sent EXCEPT !.outcome = "no room"]
      /\ size.lo # 0 => size' = [size EXCEPT !.at = "reply"] /\ Sizing!Send(Answer, cost[size.lo])
  BY Zenon DEF Sizing!Query, Sizing!At, Sizing!Give
<1>2. CASE size.lo = 0
  <2>1. "no room" \in SizingOutcomes
    BY DEF SizingOutcomes
  <2> QED
    BY <1>1, <1>2, <2>1, EndStep
<1>3. CASE size.lo # 0
  <2>1. cost[size.lo] \in 0..MaxCost /\ (Local => size.budget > 0 /\ cost[size.lo] <= size.budget)
    BY <1>1, <1>3 DEF SizingInv, SizingTyped, QuerySized
  <2>2. cost[size.lo] \in Nat
    BY <2>1, SizingFits
  <2> QED
    BY <1>1, <1>3, <2>1, <2>2, SendStep
<1> QED
  BY <1>2, <1>3

-----------------------------------------------------------------------------
(* The theorem. *)

LEMMA SizingStarts ==
  ASSUME Sizing!SizingInit PROVE SizingInv
<1>1. /\ call \in Sizing!Calls /\ cost \in [0..Items -> 0..MaxCost]
      /\ size = Sizing!NotSized /\ sent = Sizing!NotSent
  BY DEF Sizing!SizingInit
<1>2. size.at = "budget" /\ sent.used = 0 /\ sent.ceiling = 0 /\ sent.outcome = "none"
  BY <1>1 DEF Sizing!NotSized, Sizing!NotSent
<1>3. SizingTyped
  <2>1. /\ 0 \in 0..Items /\ 0 \in 0..(Items + 1) /\ 0 \in 0..Passages /\ 0 \in 0..MaxCost /\ 0 \in 0..Thinking
        /\ 0 \in 0..MaxCounts /\ 0 \in Nat /\ 0 <= Sizing!Larger(0, Items)
    BY SizingFits DEF Sizing!Larger
  <2>2. "budget" \in SizingPlaces /\ "none" \in SizingOutcomes /\ FALSE \in BOOLEAN
    BY DEF SizingPlaces, SizingOutcomes
  <2> QED
    BY <1>1, <2>1, <2>2 DEF SizingTyped, Sizing!NotSized, Sizing!NotSent
<1>4. PlacesFit /\ BudgetKnown /\ NamesSized /\ SampleSized /\ QuerySized
  BY <1>1, <1>2
  DEF PlacesFit, BudgetKnown, NamesSized, SampleSized, QuerySized, NamePlaces, SamplePlaces, QueryPlaces
<1>5. SentFits
  <2>1. Local => call.window \in Nat
    BY <1>1, SizingFits DEF Sizing!Calls
  <2> QED
    BY <1>2, <2>1 DEF SentFits, Sizing!WindowHolds, Sizing!SampleKept, Sizing!LongAnswerKept, Local
<1> QED
  BY <1>3, <1>4, <1>5 DEF SizingInv

LEMMA SizingRestsSame ==
  ASSUME SizingInv, UNCHANGED sizingVars PROVE SizingInv'
<1>1. call' = call /\ cost' = cost /\ size' = size /\ sent' = sent
  BY DEF sizingVars
<1>2. SizingTyped' /\ PlacesFit' /\ BudgetKnown' /\ QuerySized' /\ SentFits' /\ SampleSized'
  <2>1. SizingTyped'
    BY <1>1, Zenon DEF SizingInv, SizingTyped, Sizing!Calls, Sizing!Larger
  <2>2. PlacesFit' /\ BudgetKnown'
    BY <1>1, SameCall, Zenon DEF SizingInv, PlacesFit, BudgetKnown
  <2>3. QuerySized' /\ SampleSized'
    BY <1>1, SameCall, Zenon DEF SizingInv, QuerySized, SampleSized
  <2>4. SentFits'
    BY <1>1, Zenon DEF SizingInv, SentFits, Sizing!WindowHolds, Sizing!SampleKept, Sizing!LongAnswerKept
  <2> QED
    BY <2>1, <2>2, <2>3, <2>4
<1>3. MostNames' = MostNames
  BY <1>1, SameCall DEF MostNames, Half
<1>4. NamesSized'
  BY <1>1, <1>3, SameCall DEF SizingInv, NamesSized, NamesRoom, HalfTried, Bisected, Found, Half
<1> QED
  BY <1>2, <1>4 DEF SizingInv

LEMMA SizingStep ==
  ASSUME SizingInv, Sizing!SizingNext PROVE SizingInv'
<1>1. ASSUME NEW a \in Sizing!Answers, Sizing!FirstAnswer(a) \/ Sizing!SecondAnswer(a) \/ Sizing!Reply(a)
      PROVE  SizingInv'
  BY <1>1, StepFirstAnswer, StepSecondAnswer, StepReply
<1>2. ASSUME NEW bytes \in cost[Sizing!Chars]..(MaxCost + 1), Sizing!Ceiling(bytes) PROVE SizingInv'
  BY <1>2, StepCeiling DEF Sizing!Chars
<1>3. ASSUME NEW e \in 0..Sizing!Chars, Sizing!Cut(e) PROVE SizingInv'
  BY <1>3, StepCut DEF Sizing!Chars
<1> QED
  BY <1>1, <1>2, <1>3, StepTakeBudget, StepWhole, StepCountFails, StepCountNames, StepBisect, StepKeepNames,
     StepSummarise, StepAddPassage, StepReadFails, StepTakeHeadroom, StepCountDraw, StepWithoutHeadroom, StepAsk, StepQuery,
     Zenon DEF Sizing!SizingNext

\* What the invariant says of the prompts.
LEMMA SizingGood ==
  ASSUME SizingInv
  PROVE  /\ Sizing!SizingTypeOK /\ Sizing!WindowHolds /\ Sizing!NamesMaximal
         /\ Sizing!SampleKept /\ Sizing!SampleSpread /\ Sizing!LongAnswerKept
<1>1. Sizing!WindowHolds /\ Sizing!SampleKept /\ Sizing!LongAnswerKept
  BY DEF SizingInv, SentFits
<1>2. Sizing!NamesMaximal
  BY DEF SizingInv, NamesSized, Sizing!NamesMaximal, Sizing!At, MostNames, Half, Local
<1>3. Sizing!SampleSpread
  <2> SUFFICES ASSUME size.at = "ask" PROVE
        /\ Sizing!Cardinality(Sizing!Picks(size.lo)) = size.lo
        /\ \A j \in 0..(size.lo - 1) :
             \E p \in Sizing!Picks(size.lo) : p >= (j * Held) \div size.lo /\ p * size.lo < (j + 1) * Held
    BY Zenon DEF Sizing!SampleSpread, Sizing!At
  <2>1. size.lo \in 1..Held
    BY DEF SizingInv, SampleSized
  <2> QED
    BY <2>1, Spread
<1>4. Sizing!SizingTypeOK
  <2>1. SizingTyped
    BY DEF SizingInv
  <2>2. size.room \in 0..Sizing!Larger(size.budget, Items)
    <3>1. size.room \in Nat /\ size.budget \in Nat /\ size.room <= Sizing!Larger(size.budget, Items)
      BY <2>1 DEF SizingTyped
    <3> QED
      BY <3>1, SizingFits DEF Sizing!Larger
  <2> QED
    BY <2>1, <2>2
    DEF SizingTyped, Sizing!SizingTypeOK, SizingPlaces, NamePlaces, SamplePlaces, QueryPlaces, SizingOutcomes
<1> QED
  BY <1>1, <1>2, <1>3, <1>4

\* PromptFits, for every window, text and token count: what the sizing sends to a model with a window fits it, with
\* the answer it asks for, also in the retry and also when a longer text counts fewer tokens (WindowHolds); a summary
\* names as many entities as fit when counts rise with the text (NamesMaximal); a description fails for its window only
\* if one excerpt does not fit (SampleKept), its sample covers each equal part of the collection (SampleSpread), and a
\* long first answer outlives an empty retry (LongAnswerKept).
THEOREM PromptsFit == ModelsSpec => []PromptFits
<1> DEFINE I == part = "sizing" => SizingInv
<1>1. ModelsInit => I
  BY SizingStarts, Zenon DEF ModelsInit
<1>2. I /\ [ModelsNext]_allVars => I'
  <2> SUFFICES ASSUME I, [ModelsNext]_allVars, part' = "sizing" PROVE SizingInv'
    OBVIOUS
  <2>1. CASE part = "sizing" /\ Sizing!SizingNext
    BY <2>1, SizingStep
  <2>2. CASE UNCHANGED <<part, sizingVars>>
    <3>1. part = "sizing" /\ UNCHANGED sizingVars
      BY <2>2
    <3> QED
      BY <3>1, SizingRestsSame
  <2>3. \/ part = "sizing" /\ Sizing!SizingNext
        \/ UNCHANGED <<part, sizingVars>>
        \/ part # "sizing" /\ part' = part
    BY Zenon DEF ModelsNext, allVars
  <2> QED
    BY <2>1, <2>2, <2>3
<1>3. I => PromptFits
  BY SizingGood, Zenon DEF PromptFits
<1> QED
  BY <1>1, <1>2, <1>3, PTL DEF ModelsSpec

-----------------------------------------------------------------------------
(***************************************************************************)
(* LlmCalls: the rate that the limiters hold, and what a call leaves.      *)
(***************************************************************************)
CallPlaces == {"off", "claude", "cloud", "spawn", "talk", "backoff", "reap", "ended"}
CallResults == {"none", "refused", "failed", "answered", "cancelled", "leftEarly"}
CallRow == [at : CallPlaces, feature : LlmCall!Features, attempt : 0..2, process : Nat, exit : {0, 1}, result : CallResults]
BucketRow == [left : 0..Capacity, ends : Nat]
CallTyped ==
  /\ now \in 0..LastTime /\ grants \in [LlmCall!Buckets -> Seq(0..LastTime)]
  /\ limiter \in [LlmCall!Buckets -> BucketRow] /\ caller \in [Callers -> CallRow]
  /\ workdir \subseteq Callers /\ alive \subseteq (1..spawned) \X {"child", "holder", "loose"}
  /\ begun \in 0..MaxCalls /\ spawned \in 0..MaxSpawns

\* At a time, a limiter's row m and the times g at which its slots were taken: the used slots of this window are the last grants,
\* the others came before it, and all but Capacity of those before the window that preceded it was over.
BucketFit(m, g, at) ==
  LET used == Capacity - m.left
      start == m.ends - Window
  IN /\ 0 <= start /\ start <= at /\ used <= Len(g)
     /\ \A j \in 1..Len(g) : g[j] <= at
     /\ \A j \in 1..Len(g) : IF j > Len(g) - used THEN g[j] >= start ELSE g[j] <= start
     /\ \A j \in 1..Len(g) : j + Capacity <= Len(g) - used => g[j] + Window <= start
     /\ \A j \in 1..Len(g) : j + 2 * Capacity <= Len(g) => g[j + 2 * Capacity] - g[j] >= Window

\* Each attempt's process is its own.
OwnProcess(c) ==
  /\ caller[c].process <= spawned
  /\ \A d \in Callers : c # d /\ caller[c].process # 0 => caller[c].process # caller[d].process
\* What was killed stays dead, and a directory exists only while a claude call is at work.
LeftClean(c) == LlmCall!Child(c) \notin alive /\ (HasProcessGroups => LlmCall!Group(c) = {})
CallerFit(c) ==
  /\ c \in workdir => caller[c].at \in {"spawn", "talk", "reap"}
  /\ caller[c].at = "backoff" => caller[c].attempt < LlmCall!Attempts(c)
  /\ caller[c].at = "reap" \/ caller[c].result = "leftEarly" => LeftClean(c)
  /\ caller[c].result # "none" => caller[c].at = "ended"
CallInv == /\ CallTyped /\ \A b \in LlmCall!Buckets : BucketFit(limiter[b], grants[b], now)
           /\ \A c \in Callers : OwnProcess(c) /\ CallerFit(c)

-----------------------------------------------------------------------------
(* The slots. *)
\* The window turns, or stays.
LEMMA TurnedFits ==
  ASSUME CallTyped, NEW b \in LlmCall!Buckets, BucketFit(limiter[b], grants[b], now)
  PROVE  LlmCall!Turned(b) \in BucketRow /\ BucketFit(LlmCall!Turned(b), grants[b], now)
<1> DEFINE m == limiter[b]
           g == grants[b]
           used == Capacity - m.left
           start == m.ends - Window
           t == [left |-> Capacity, ends |-> now + Window]
<1>1. m \in BucketRow /\ g \in Seq(0..LastTime) /\ Len(g) \in Nat /\ now \in Nat /\ (\A j \in 1..Len(g) : g[j] \in Nat)
      /\ Capacity \in Nat /\ Window \in Nat
  BY CallsFit DEF CallTyped
<1>2. m.left \in 0..Capacity /\ m.ends \in Nat
  BY <1>1 DEF BucketRow
<1>3. CASE ~LlmCall!WindowOver(b)
  BY <1>1, <1>3 DEF LlmCall!Turned
<1>4. CASE LlmCall!WindowOver(b)
  <2>1. LlmCall!Turned(b) = t /\ now >= m.ends
    BY <1>4 DEF LlmCall!Turned, LlmCall!NextEnd, LlmCall!WindowOver
  <2>2. t \in BucketRow /\ t.left = Capacity /\ t.ends = now + Window
    BY <1>1, CallsFit DEF BucketRow
  <2>3. /\ 0 <= start /\ start <= now /\ used <= Len(g)
        /\ \A j \in 1..Len(g) : g[j] <= now
        /\ \A j \in 1..Len(g) : IF j > Len(g) - used THEN g[j] >= start ELSE g[j] <= start
        /\ \A j \in 1..Len(g) : j + 2 * Capacity <= Len(g) => g[j + 2 * Capacity] - g[j] >= Window
    BY DEF BucketFit
  <2> HIDE DEF t, g, m
  <2>4. ASSUME NEW j \in 1..Len(g), j + Capacity <= Len(g) PROVE g[j] + Window <= now
    <3>1. ~(j > Len(g) - used)
      BY <1>1, <1>2, <2>4
    <3>2. g[j] <= start
      BY <2>3, <3>1
    <3> QED
      BY <1>1, <1>2, <2>1, <3>2
  <2>5. BucketFit(t, g, now)
    <3>1. Capacity - t.left = 0 /\ t.ends - Window = now
      BY <1>1, <2>2
    <3>2. \A j \in 1..Len(g) : ~(j > Len(g) - 0)
      BY <1>1
    <3> QED
      BY <1>1, <2>3, <2>4, <3>1, <3>2 DEF BucketFit
  <2> QED
    BY <2>1, <2>2, <2>5 DEF g
<1> QED
  BY <1>3, <1>4

\* A slot is taken.
LEMMA GrantFits ==
  ASSUME NEW m \in BucketRow, NEW g \in Seq(0..LastTime), now \in 0..LastTime, BucketFit(m, g, now), ~(m.left <= 0)
  PROVE  /\ [m EXCEPT !.left = @ - 1] \in BucketRow /\ Append(g, now) \in Seq(0..LastTime)
         /\ BucketFit([m EXCEPT !.left = @ - 1], Append(g, now), now)
<1> DEFINE n == [m EXCEPT !.left = @ - 1]
           h == Append(g, now)
           used == Capacity - m.left
           start == m.ends - Window
<1>1. /\ Len(g) \in Nat /\ now \in Nat /\ (\A j \in 1..Len(g) : g[j] \in Nat)
      /\ Capacity \in Nat /\ Window \in Nat /\ m.left \in 1..Capacity /\ m.ends \in Nat
  BY CallsFit DEF BucketRow
<1>2. n \in BucketRow /\ n.left = m.left - 1 /\ n.ends = m.ends
  BY <1>1 DEF BucketRow
<1>3. h \in Seq(0..LastTime) /\ Len(h) = Len(g) + 1 /\ h[Len(g) + 1] = now /\ \A j \in 1..Len(g) : h[j] = g[j]
  OBVIOUS
<1>4. /\ 0 <= start /\ start <= now /\ used <= Len(g)
      /\ \A j \in 1..Len(g) : g[j] <= now
      /\ \A j \in 1..Len(g) : IF j > Len(g) - used THEN g[j] >= start ELSE g[j] <= start
      /\ \A j \in 1..Len(g) : j + Capacity <= Len(g) - used => g[j] + Window <= start
      /\ \A j \in 1..Len(g) : j + 2 * Capacity <= Len(g) => g[j + 2 * Capacity] - g[j] >= Window
  BY DEF BucketFit
<1> HIDE DEF n, h
<1>5. Capacity - n.left = used + 1 /\ n.ends - Window = start /\ Len(h) - (used + 1) = Len(g) - used /\ used < Capacity
  <2>1. Capacity - n.left = used + 1
    BY <1>1, <1>2
  <2>2. used \in Int
    BY <1>1
  <2>3. n.ends - Window = start /\ Len(h) - (used + 1) = Len(g) - used
    BY <1>1, <1>2, <1>3, <2>2
  <2> QED
    BY <1>1, <2>1, <2>3
<1>6. \A j \in 1..Len(h) : j = Len(g) + 1 \/ j \in 1..Len(g)
  BY <1>1, <1>3
<1>7. ASSUME NEW j \in 1..Len(h) PROVE
        /\ h[j] <= now
        /\ IF j > Len(g) - used THEN h[j] >= start ELSE h[j] <= start
        /\ j + Capacity <= Len(g) - used => h[j] + Window <= start
  <2>1. CASE j \in 1..Len(g)
    BY <1>3, <1>4, <2>1
  <2>2. CASE j = Len(g) + 1
    BY <1>1, <1>3, <1>4, <2>2
  <2> QED
    BY <1>6, <2>1, <2>2
<1>8. ASSUME NEW j \in 1..Len(h), j + 2 * Capacity <= Len(h) PROVE h[j + 2 * Capacity] - h[j] >= Window
  <2>1. j + 2 * Capacity \in 1..Len(h) /\ j \in 1..Len(g)
    BY <1>1, <1>3, <1>5, <1>8
  <2>2. CASE j + 2 * Capacity \in 1..Len(g)
    <3>1. j + 2 * Capacity <= Len(g)
      BY <2>2
    <3> QED
      BY <1>3, <1>4, <2>1, <2>2, <3>1
  <2>3. CASE j + 2 * Capacity = Len(g) + 1
    <3>1. j + Capacity <= Len(g) - used
      BY <1>1, <1>5, <2>3
    <3>2. g[j] + Window <= start /\ g[j] \in Nat
      BY <1>1, <1>4, <2>1, <3>1
    <3>3. h[j + 2 * Capacity] = now /\ h[j] = g[j]
      BY <1>3, <2>1, <2>3
    <3>4. start <= now /\ start \in Int /\ now \in Int /\ Window \in Int
      BY <1>1, <1>4
    <3> QED
      BY <3>2, <3>3, <3>4
  <2> QED
    BY <1>6, <2>1, <2>2, <2>3
<1>9. BucketFit(n, h, now)
  <2>1. used + 1 <= Len(h)
    BY <1>1, <1>3, <1>4
  <2> HIDE DEF used, start
  <2> QED
    BY <1>4, <1>5, <1>7, <1>8, <2>1 DEF BucketFit
<1> QED
  BY <1>2, <1>3, <1>9 DEF n, h

\* A call takes a slot, or finds none.
LEMMA AcquireFits ==
  ASSUME CallInv, NEW b \in LlmCall!Buckets, LlmCall!Acquire(b), now' = now
  PROVE  /\ limiter' \in [LlmCall!Buckets -> BucketRow] /\ grants' \in [LlmCall!Buckets -> Seq(0..LastTime)]
         /\ \A d \in LlmCall!Buckets : BucketFit(limiter'[d], grants'[d], now')
<1> DEFINE t == LlmCall!Turned(b)
<1>1. t \in BucketRow /\ BucketFit(t, grants[b], now) /\ now \in 0..LastTime /\ grants[b] \in Seq(0..LastTime)
      /\ limiter \in [LlmCall!Buckets -> BucketRow] /\ grants \in [LlmCall!Buckets -> Seq(0..LastTime)]
  BY TurnedFits DEF CallInv, CallTyped
<1>2. ASSUME NEW m \in BucketRow, NEW g \in Seq(0..LastTime), BucketFit(m, g, now),
             limiter' = [limiter EXCEPT ![b] = m], grants' = [grants EXCEPT ![b] = g]
      PROVE  /\ limiter' \in [LlmCall!Buckets -> BucketRow] /\ grants' \in [LlmCall!Buckets -> Seq(0..LastTime)]
             /\ \A d \in LlmCall!Buckets : BucketFit(limiter'[d], grants'[d], now')
  <2>1. \A d \in LlmCall!Buckets : BucketFit(limiter[d], grants[d], now)
    BY DEF CallInv
  <2>2. \A d \in LlmCall!Buckets : limiter'[d] = (IF d = b THEN m ELSE limiter[d]) /\ grants'[d] = (IF d = b THEN g ELSE grants[d])
    BY <1>1, <1>2
  <2> QED
    BY <1>1, <1>2, <2>1, <2>2
<1> HIDE DEF t
<1>3. CASE t.left <= 0
  <2>1. limiter' = [limiter EXCEPT ![b] = t] /\ grants' = [grants EXCEPT ![b] = grants[b]]
    BY <1>1, <1>3 DEF LlmCall!Acquire, t
  <2> QED
    BY <1>1, <1>2, <2>1
<1>4. CASE ~(t.left <= 0)
  <2>1. limiter' = [limiter EXCEPT ![b] = [t EXCEPT !.left = @ - 1]] /\ grants' = [grants EXCEPT ![b] = Append(grants[b], now)]
    BY <1>4 DEF LlmCall!Acquire, t
  <2>2. /\ [t EXCEPT !.left = @ - 1] \in BucketRow /\ Append(grants[b], now) \in Seq(0..LastTime)
        /\ BucketFit([t EXCEPT !.left = @ - 1], Append(grants[b], now), now)
    BY <1>1, <1>4, GrantFits
  <2> QED
    BY <1>2, <2>1, <2>2
<1> QED
  BY <1>3, <1>4

\* A refused call found all the slots of its window taken, each after the window began.
LEMMA RefusedFits ==
  ASSUME CallInv, NEW b \in LlmCall!Buckets, LlmCall!Turned(b).left <= 0
  PROVE  /\ Len(grants[b]) >= Capacity
         /\ now - grants[b][Len(grants[b]) - Capacity + 1] < Window
<1> DEFINE m == limiter[b]
           g == grants[b]
<1>1. m \in BucketRow /\ g \in Seq(0..LastTime) /\ Len(g) \in Nat /\ now \in Nat /\ (\A j \in 1..Len(g) : g[j] \in Nat)
      /\ BucketFit(m, g, now)
  BY CallsFit DEF CallInv, CallTyped
<1>2. m.left \in 0..Capacity /\ m.ends \in Nat
  BY <1>1 DEF BucketRow
<1>3. ~LlmCall!WindowOver(b)
  BY CallsFit DEF LlmCall!Turned
<1>4. m.left = 0 /\ now < m.ends
  BY <1>1, <1>2, <1>3 DEF LlmCall!Turned, LlmCall!WindowOver
<1> HIDE DEF m, g
<1>5. Capacity - m.left = Capacity /\ Capacity <= Len(g)
  BY <1>1, <1>4, CallsFit DEF BucketFit
<1>6. Len(g) - Capacity + 1 \in 1..Len(g) /\ Len(g) - Capacity + 1 > Len(g) - Capacity
  BY <1>1, <1>5, CallsFit
<1>7. g[Len(g) - Capacity + 1] >= m.ends - Window
  BY <1>1, <1>5, <1>6 DEF BucketFit
<1>8. g[Len(g) - Capacity + 1] \in Nat
  BY <1>1, <1>6
<1>9. now - g[Len(g) - Capacity + 1] < Window
  <2> DEFINE e == g[Len(g) - Capacity + 1]
             ends == m.ends
  <2>1. e \in Nat /\ ends \in Nat /\ now \in Nat /\ now < ends /\ e >= ends - Window
    BY <1>1, <1>2, <1>4, <1>7, <1>8
  <2> HIDE DEF e, ends
  <2>2. now - e < Window
    BY <2>1, CallsFit
  <2> QED
    BY <2>2 DEF e
<1>10. Len(g) >= Capacity
  BY <1>1, <1>5, CallsFit
<1> QED
  BY <1>9, <1>10 DEF g

\* Time passes.
LEMMA TickFits == CallInv /\ LlmCall!Tick => CallInv'
<1> SUFFICES ASSUME CallInv, LlmCall!Tick PROVE CallInv'
  OBVIOUS
<1>1. /\ now \in 0..LastTime /\ now < LastTime /\ now' = now + 1
      /\ UNCHANGED <<limiter, grants, caller, workdir, alive, begun, spawned>>
  BY DEF CallInv, CallTyped, LlmCall!Tick
<1>2. CallTyped'
  BY <1>1, CallsFit DEF CallInv, CallTyped
<1>3. ASSUME NEW b \in LlmCall!Buckets PROVE BucketFit(limiter'[b], grants'[b], now')
  <2> DEFINE m == limiter[b]
             g == grants[b]
  <2>1. m \in BucketRow /\ g \in Seq(0..LastTime) /\ Len(g) \in Nat /\ (\A j \in 1..Len(g) : g[j] \in Nat)
        /\ BucketFit(m, g, now) /\ limiter'[b] = m /\ grants'[b] = g /\ m.ends \in Nat
    <3>1. limiter \in [LlmCall!Buckets -> BucketRow] /\ grants \in [LlmCall!Buckets -> Seq(0..LastTime)] /\ BucketFit(m, g, now)
      BY DEF CallInv, CallTyped
    <3>2. m \in BucketRow /\ g \in Seq(0..LastTime) /\ limiter'[b] = m /\ grants'[b] = g
      BY <1>1, <3>1
    <3> HIDE DEF m, g
    <3>3. m.ends \in Nat
      BY <3>2, CallsFit DEF BucketRow
    <3>4. Len(g) \in Nat /\ \A j \in 1..Len(g) : g[j] \in Nat
      BY <3>2, CallsFit
    <3> QED
      BY <3>1, <3>2, <3>3, <3>4
  <2> HIDE DEF m, g
  <2>2. now <= now' /\ now' \in Nat /\ now \in Nat
    BY <1>1, CallsFit
  <2>3. m.ends - Window <= now' /\ \A j \in 1..Len(g) : g[j] <= now'
    BY <2>1, <2>2, CallsFit DEF BucketFit
  <2>4. BucketFit(m, g, now')
    BY <2>1, <2>3 DEF BucketFit
  <2> QED
    BY <2>1, <2>4
<1>4. ASSUME NEW c \in Callers PROVE OwnProcess(c)' /\ CallerFit(c)'
  BY <1>1 DEF CallInv, OwnProcess, CallerFit, LeftClean, LlmCall!Child, LlmCall!Group, LlmCall!Attempts
<1> QED
  BY <1>2, <1>3, <1>4 DEF CallInv

-----------------------------------------------------------------------------
(* The callers. *)

\* A step of one caller: the others keep their processes, directories and what they left.
LEMMA CallerStep ==
  ASSUME CallInv, NEW c \in Callers, now' = now, begun' \in 0..MaxCalls, caller' \in [Callers -> CallRow],
         UNCHANGED <<limiter, grants>> \/ \E b \in LlmCall!Buckets : LlmCall!Acquire(b),
         \A d \in Callers : d # c => caller'[d] = caller[d],
         workdir' \subseteq Callers, \A d \in Callers : d # c /\ d \in workdir' => d \in workdir,
         spawned' \in 0..MaxSpawns, spawned' >= spawned,
         caller'[c].process \in {0, caller[c].process} \/ (caller'[c].process = spawned + 1 /\ spawned' = spawned + 1),
         alive' \subseteq (1..spawned') \X {"child", "holder", "loose"},
         \A p \in alive' : p \in alive \/ p[1] = caller'[c].process,
         CallerFit(c)'
  PROVE  CallInv'
<1>1. /\ caller \in [Callers -> CallRow] /\ spawned \in Nat /\ spawned' \in Nat
      /\ \A d \in Callers : caller[d].process \in Nat /\ caller[d].process <= spawned /\ caller'[d].process \in Nat
  BY CallsFit DEF CallInv, CallTyped, CallRow, OwnProcess
<1>3. /\ limiter' \in [LlmCall!Buckets -> BucketRow] /\ grants' \in [LlmCall!Buckets -> Seq(0..LastTime)]
      /\ \A b \in LlmCall!Buckets : BucketFit(limiter'[b], grants'[b], now')
  BY AcquireFits DEF CallInv, CallTyped
<1>2. CallTyped'
  BY <1>3 DEF CallInv, CallTyped
<1>4. ASSUME NEW d \in Callers PROVE OwnProcess(d)'
  <2>1. caller'[d].process <= spawned'
    BY <1>1
  <2>2. ASSUME NEW e \in Callers, d # e, caller'[d].process # 0 PROVE caller'[d].process # caller'[e].process
    <3>1. CASE d # c /\ e # c
      BY <2>2, <3>1 DEF CallInv, OwnProcess
    <3>2. CASE d = c
      <4>1. caller'[e].process = caller[e].process
        BY <2>2, <3>2
      <4>2. caller[c].process # 0 => caller[c].process # caller[e].process
        BY <2>2, <3>2 DEF CallInv, OwnProcess
      <4> QED
        BY <1>1, <2>2, <3>2, <4>1, <4>2
    <3>3. CASE e = c
      <4>1. caller'[d].process = caller[d].process
        BY <2>2, <3>3
      <4>2. caller[d].process # 0 => caller[d].process # caller[c].process
        BY <2>2, <3>3 DEF CallInv, OwnProcess
      <4> QED
        BY <1>1, <2>2, <3>3, <4>1, <4>2
    <3> QED
      BY <3>1, <3>2, <3>3
  <2> QED
    BY <2>1, <2>2 DEF OwnProcess
<1>5. ASSUME NEW d \in Callers, d # c PROVE CallerFit(d)'
  <2>1. caller'[d] = caller[d] /\ (d \in workdir' => d \in workdir) /\ CallerFit(d)
    BY <1>5 DEF CallInv
  <2>2. ASSUME LeftClean(d) PROVE LeftClean(d)'
    <3>1. ASSUME NEW p \in alive', p[1] = caller[d].process PROVE p \in alive
      <4>1. CASE p[1] = caller'[c].process
        <5>1. p[1] # 0
          BY <3>1
        <5>2. caller'[c].process # 0 /\ caller'[c].process # caller'[d].process
          BY <1>4, <1>5, <4>1, <5>1 DEF OwnProcess
        <5> QED
          BY <2>1, <3>1, <4>1, <5>2
      <4> QED
        BY <4>1
    <3>2. LlmCall!Child(d)' = LlmCall!Child(d) /\ LlmCall!Child(d)[1] = caller[d].process
      BY <2>1 DEF LlmCall!Child
    <3>3. LlmCall!Child(d)' \notin alive'
      BY <2>2, <3>1, <3>2 DEF LeftClean
    <3>4. HasProcessGroups => LlmCall!Group(d)' = {}
      BY <2>1, <2>2, <3>1 DEF LeftClean, LlmCall!Group
    <3> QED
      BY <3>3, <3>4 DEF LeftClean
  <2> QED
    BY <2>1, <2>2 DEF CallerFit, LlmCall!Attempts
<1> QED
  BY <1>2, <1>3, <1>4, <1>5 DEF CallInv

\* A call that is over.
LEMMA EndedStep ==
  ASSUME CallInv, NEW c \in Callers, NEW result \in CallResults \ {"none"}, LlmCall!Ended(c, result),
         UNCHANGED <<now, limiter, grants, alive, begun, spawned>>, workdir' = workdir \ {c},
         result = "leftEarly" => LeftClean(c)
  PROVE  CallInv'
<1> DEFINE r == [LlmCall!NotCalling EXCEPT !.at = "ended", !.process = caller[c].process, !.result = result]
<1>1. caller \in [Callers -> CallRow] /\ caller[c].process \in Nat /\ caller' = [caller EXCEPT ![c] = r]
  BY DEF CallInv, CallTyped, CallRow, LlmCall!Ended
<1>2. r \in CallRow /\ r.at = "ended" /\ r.process = caller[c].process /\ r.result = result
  <2>1. LlmCall!NotCalling \in CallRow
    BY DEF CallRow, CallPlaces, CallResults, LlmCall!NotCalling, LlmCall!Features
  <2>2. ASSUME NEW e \in CallRow, NEW n \in Nat PROVE
          LET f == [e EXCEPT !.at = "ended", !.process = n, !.result = result]
          IN f \in CallRow /\ f.at = "ended" /\ f.process = n /\ f.result = result
    BY DEF CallRow, CallPlaces
  <2> QED
    BY <1>1, <2>1, <2>2
<1> HIDE DEF r
<1>3. caller' \in [Callers -> CallRow] /\ caller'[c] = r /\ \A d \in Callers : d # c => caller'[d] = caller[d]
  BY <1>1, <1>2
<1>4. LeftClean(c) => LeftClean(c)'
  BY <1>2, <1>3 DEF LeftClean, LlmCall!Child, LlmCall!Group
<1>5. CallerFit(c)'
  BY <1>2, <1>3, <1>4 DEF CallerFit
<1>6. /\ begun' \in 0..MaxCalls /\ workdir' \subseteq Callers /\ spawned' \in 0..MaxSpawns /\ spawned' >= spawned
      /\ alive' \subseteq (1..spawned') \X {"child", "holder", "loose"}
  BY CallsFit DEF CallInv, CallTyped
<1>7. /\ caller'[c].process \in {0, caller[c].process} \/ (caller'[c].process = spawned + 1 /\ spawned' = spawned + 1)
      /\ \A d \in Callers : d # c /\ d \in workdir' => d \in workdir
      /\ \A p \in alive' : p \in alive \/ p[1] = caller'[c].process
  <2>1. caller'[c].process = caller[c].process
    BY <1>2, <1>3
  <2>2. \A d \in Callers : d # c /\ d \in workdir' => d \in workdir
    OBVIOUS
  <2>3. \A p \in alive' : p \in alive
    OBVIOUS
  <2> QED
    BY <2>1, <2>2, <2>3
<1> QED
  BY <1>3, <1>5, <1>6, <1>7, CallerStep

\* A claude call at a place that comes before its end.
LEMMA MovedStep ==
  ASSUME CallInv, NEW c \in Callers, NEW at \in CallPlaces \ {"ended"}, NEW attempt \in 0..2, NEW exit \in {0, 1},
         caller[c].result = "none",
         caller' = [caller EXCEPT ![c] = [caller[c] EXCEPT !.at = at, !.attempt = attempt, !.exit = exit]],
         UNCHANGED <<now, limiter, grants, begun, spawned>>,
         alive' \subseteq alive, workdir' \subseteq workdir \cup {c}, c \in workdir' => at \in {"spawn", "talk", "reap"},
         at = "backoff" => attempt < LlmCall!Attempts(c), at = "reap" => LeftClean(c)'
  PROVE  CallInv'
<1> DEFINE r == [caller[c] EXCEPT !.at = at, !.attempt = attempt, !.exit = exit]
<1>1. caller \in [Callers -> CallRow] /\ caller[c] \in CallRow
  BY DEF CallInv, CallTyped
<1>2. r \in CallRow /\ r.at = at /\ r.attempt = attempt /\ r.process = caller[c].process /\ r.result = "none" /\ r.feature = caller[c].feature
  BY <1>1 DEF CallRow, CallPlaces
<1> HIDE DEF r
<1>3. caller' \in [Callers -> CallRow] /\ caller'[c] = r /\ \A d \in Callers : d # c => caller'[d] = caller[d]
  BY <1>1, <1>2 DEF r
<1>5. CallerFit(c)'
  BY <1>2, <1>3 DEF CallerFit, LlmCall!Attempts
<1>6. /\ begun' \in 0..MaxCalls /\ workdir' \subseteq Callers /\ spawned' \in 0..MaxSpawns /\ spawned' >= spawned
      /\ alive' \subseteq (1..spawned') \X {"child", "holder", "loose"}
  BY CallsFit DEF CallInv, CallTyped
<1>7. /\ caller'[c].process \in {0, caller[c].process} \/ (caller'[c].process = spawned + 1 /\ spawned' = spawned + 1)
      /\ \A d \in Callers : d # c /\ d \in workdir' => d \in workdir
      /\ \A p \in alive' : p \in alive \/ p[1] = caller'[c].process
  <2>1. caller'[c].process = caller[c].process
    BY <1>2, <1>3
  <2>2. \A d \in Callers : d # c /\ d \in workdir' => d \in workdir
    OBVIOUS
  <2>3. \A p \in alive' : p \in alive
    OBVIOUS
  <2> QED
    BY <2>1, <2>2, <2>3
<1> QED
  BY <1>3, <1>5, <1>6, <1>7, CallerStep

\* A call begins, is refused, or fails at once.
LEMMA CallFits ==
  ASSUME CallInv, NEW c \in Callers, NEW feature \in LlmCall!Features, NEW provider \in {"claude", "cloud"},
         NEW usable \in BOOLEAN, LlmCall!Call(c, feature, provider, usable)
  PROVE  CallInv'
<1> DEFINE b == LlmCall!Bucket(feature, provider)
           new == [LlmCall!NotCalling EXCEPT !.feature = feature]
<1>1. /\ caller \in [Callers -> CallRow] /\ caller[c].at \in {"off", "ended"} /\ CallerFit(c)
      /\ begun < MaxCalls /\ begun' = begun + 1 /\ begun \in 0..MaxCalls /\ spawned \in 0..MaxSpawns
      /\ now' = now /\ workdir' = workdir /\ alive' = alive /\ spawned' = spawned /\ workdir \subseteq Callers
      /\ alive \subseteq (1..spawned) \X {"child", "holder", "loose"}
  BY DEF LlmCall!Call, CallInv, CallTyped
<1>2. UNCHANGED <<limiter, grants>> \/ \E d \in LlmCall!Buckets : LlmCall!Acquire(d)
  <2>1. b # "none" => b \in LlmCall!Buckets
    BY DEF LlmCall!Bucket, LlmCall!Buckets
  <2> QED
    BY <2>1 DEF LlmCall!Call
<1>3. new \in CallRow /\ new.process = 0 /\ new.result = "none" /\ new.attempt = 0
  <2>1. LlmCall!NotCalling \in CallRow /\ LlmCall!NotCalling.process = 0 /\ LlmCall!NotCalling.result = "none" /\ LlmCall!NotCalling.attempt = 0
    BY DEF CallRow, CallPlaces, CallResults, LlmCall!NotCalling, LlmCall!Features
  <2>2. ASSUME NEW e \in CallRow PROVE
          LET f == [e EXCEPT !.feature = feature]
          IN f \in CallRow /\ f.process = e.process /\ f.result = e.result /\ f.attempt = e.attempt
    BY DEF CallRow
  <2> QED
    BY <2>1, <2>2
<1>4. \E rw \in CallRow : /\ rw.process = 0 /\ rw.at \in {"ended", "claude", "cloud"} /\ rw.result \in {"none", "refused", "failed"}
                           /\ (rw.result # "none" => rw.at = "ended") /\ caller' = [caller EXCEPT ![c] = rw]
  <2> DEFINE x1 == [new EXCEPT !.at = "ended", !.result = "refused"]
             x2 == [new EXCEPT !.at = provider, !.attempt = 1]
             x3 == [new EXCEPT !.at = "ended", !.result = "failed"]
  <2>1. caller' = [caller EXCEPT ![c] = x1] \/ caller' = [caller EXCEPT ![c] = x2] \/ caller' = [caller EXCEPT ![c] = x3]
    BY DEF LlmCall!Call
  <2>2. ASSUME NEW e \in CallRow, e.process = 0, e.result = "none", NEW result \in {"refused", "failed"} PROVE
          LET f == [e EXCEPT !.at = "ended", !.result = result]
          IN f \in CallRow /\ f.process = 0 /\ f.at = "ended" /\ f.result = result
    BY <2>2 DEF CallRow, CallPlaces, CallResults
  <2>3. ASSUME NEW e \in CallRow, e.process = 0, e.result = "none", NEW at \in CallPlaces, NEW n \in 0..2 PROVE
          LET f == [e EXCEPT !.at = at, !.attempt = n]
          IN f \in CallRow /\ f.process = 0 /\ f.at = at /\ f.result = "none"
    BY <2>3 DEF CallRow
  <2>p. provider \in CallPlaces
    BY DEF CallPlaces
  <2> HIDE DEF new
  <2>4. /\ x1 \in CallRow /\ x1.process = 0 /\ x1.at = "ended" /\ x1.result = "refused"
        /\ x2 \in CallRow /\ x2.process = 0 /\ x2.at = provider /\ x2.result = "none"
        /\ x3 \in CallRow /\ x3.process = 0 /\ x3.at = "ended" /\ x3.result = "failed"
    <3>1. x2 \in CallRow /\ x2.process = 0 /\ x2.at = provider /\ x2.result = "none"
      <4>1. 1 \in 0..2
        OBVIOUS
      <4>2. x2 \in CallRow
        BY <1>3, <2>p, <4>1 DEF CallRow
      <4>3. x2.process = new.process /\ x2.at = provider /\ x2.result = new.result
        BY <1>3 DEF CallRow
      <4> QED
        BY <1>3, <4>2, <4>3
    <3>2. /\ x1 \in CallRow /\ x1.process = 0 /\ x1.at = "ended" /\ x1.result = "refused"
          /\ x3 \in CallRow /\ x3.process = 0 /\ x3.at = "ended" /\ x3.result = "failed"
      <4>1. x1 \in CallRow /\ x1.process = 0 /\ x1.at = "ended" /\ x1.result = "refused"
        BY <1>3, <2>2
      <4>2. x3 \in CallRow /\ x3.process = 0 /\ x3.at = "ended" /\ x3.result = "failed"
        BY <1>3, <2>2
      <4> QED
        BY <4>1, <4>2
    <3> QED
      BY <3>1, <3>2
  <2> HIDE DEF x1, x2, x3
  <2> QED
    BY <2>1, <2>4
<1>5. PICK e \in CallRow : /\ e.process = 0 /\ e.at \in {"ended", "claude", "cloud"} /\ e.result \in {"none", "refused", "failed"}
                           /\ (e.result # "none" => e.at = "ended") /\ caller' = [caller EXCEPT ![c] = e]
  BY <1>4
<1>6. caller' \in [Callers -> CallRow] /\ caller'[c] = e /\ \A d \in Callers : d # c => caller'[d] = caller[d]
  BY <1>1, <1>5
<1>7. CallerFit(c)'
  BY <1>1, <1>5, <1>6 DEF CallerFit
<1>8. begun' \in 0..MaxCalls /\ workdir' \subseteq Callers /\ spawned' \in 0..MaxSpawns /\ spawned' >= spawned
      /\ alive' \subseteq (1..spawned') \X {"child", "holder", "loose"}
  BY <1>1, CallsFit
<1>9. /\ caller'[c].process \in {0, caller[c].process} \/ (caller'[c].process = spawned + 1 /\ spawned' = spawned + 1)
      /\ \A d \in Callers : d # c /\ d \in workdir' => d \in workdir
      /\ \A p \in alive' : p \in alive \/ p[1] = caller'[c].process
  BY <1>1, <1>5, <1>6
<1> QED
  BY <1>1, <1>2, <1>6, <1>7, <1>8, <1>9, CallerStep

\* The steps of a claude call and of its processes.
LEMMA ClaudeFits ==
  ASSUME CallInv, NEW c \in Callers,
         \/ LlmCall!MakeWorkdir(c) \/ LlmCall!Talked(c) \/ LlmCall!Again(c) \/ LlmCall!LeaveEarly(c)
         \/ LlmCall!Fork(c) \/ LlmCall!Spawn(c)
         \/ \E status \in {0, 1} : LlmCall!Exit(c, status)
         \/ \E loose \in {{}, {"loose"}} : LlmCall!LetGo(c, loose)
  PROVE  CallInv'
<1> DEFINE Kinds3 == {"child", "holder", "loose"}
           q == caller[c]
<1>0. /\ caller \in [Callers -> CallRow] /\ q \in CallRow /\ CallerFit(c) /\ workdir \subseteq Callers
      /\ alive \subseteq (1..spawned) \X Kinds3 /\ spawned \in 0..MaxSpawns /\ begun \in 0..MaxCalls
      /\ q.process \in Nat /\ q.process <= spawned /\ q.attempt \in 0..2 /\ q.exit \in {0, 1} /\ q.at \in CallPlaces
      /\ q.result \in CallResults
  BY DEF CallInv, CallTyped, CallRow, OwnProcess
<1>r. q.at # "ended" => q.result = "none"
  BY <1>0 DEF CallerFit
<1>e. ASSUME NEW at PROVE
        /\ [caller EXCEPT ![c].at = at] = [caller EXCEPT ![c] = [q EXCEPT !.at = at, !.attempt = q.attempt, !.exit = q.exit]]
  <2>1. ASSUME NEW rw \in CallRow PROVE [rw EXCEPT !.at = at] = [rw EXCEPT !.at = at, !.attempt = rw.attempt, !.exit = rw.exit]
    BY DEF CallRow
  <2> QED
    BY <1>0, <2>1
<1>1. CASE LlmCall!MakeWorkdir(c)
  <2>1. /\ q.at = "claude" /\ workdir' = workdir \cup {c} /\ UNCHANGED <<now, limiter, grants, alive, begun, spawned>>
        /\ caller' = [caller EXCEPT ![c] = [q EXCEPT !.at = "spawn", !.attempt = q.attempt, !.exit = q.exit]]
    BY <1>1, <1>e DEF LlmCall!MakeWorkdir, LlmCall!At
  <2>2. "spawn" \in CallPlaces \ {"ended"}
    BY DEF CallPlaces
  <2> QED
    BY <1>0, <1>r, <2>1, <2>2, MovedStep
<1>2. CASE LlmCall!Talked(c)
  <2>1. q.at = "talk" /\ workdir' = workdir \ {c} /\ UNCHANGED <<now, limiter, grants, alive, begun, spawned>>
    BY <1>2 DEF LlmCall!Talked, LlmCall!At
  <2>2. CASE \E result \in {"answered", "failed"} : LlmCall!Ended(c, result)
    BY <2>1, <2>2, EndedStep DEF CallResults
  <2>3. CASE q.attempt < LlmCall!Attempts(c) /\ caller' = [caller EXCEPT ![c].at = "backoff"]
    <3>1. caller' = [caller EXCEPT ![c] = [q EXCEPT !.at = "backoff", !.attempt = q.attempt, !.exit = q.exit]]
      BY <1>e, <2>3
    <3>2. "backoff" \in CallPlaces \ {"ended"}
      BY DEF CallPlaces
    <3> QED
      BY <1>0, <1>r, <2>1, <2>3, <3>1, <3>2, MovedStep
  <2> QED
    BY <1>2, <2>2, <2>3 DEF LlmCall!Talked
<1>3. CASE LlmCall!Again(c)
  <2>1. /\ q.at = "backoff" /\ UNCHANGED <<now, limiter, grants, workdir, alive, begun, spawned>>
        /\ caller' = [caller EXCEPT ![c] = [q EXCEPT !.at = "claude", !.attempt = q.attempt + 1, !.exit = 0]]
    BY <1>3, <1>0 DEF LlmCall!Again, LlmCall!At
  <2>2. "claude" \in CallPlaces \ {"ended"} /\ q.attempt + 1 \in 0..2 /\ c \notin workdir
    BY <1>0, <2>1 DEF CallPlaces, CallerFit, LlmCall!Attempts
  <2> QED
    BY <1>0, <1>r, <2>1, <2>2, MovedStep
<1>4. CASE LlmCall!LeaveEarly(c)
  <2>1. /\ q.at = "talk" /\ alive' = alive \ LlmCall!Killed(c) /\ UNCHANGED <<now, limiter, grants, workdir, begun, spawned>>
        /\ caller' = [caller EXCEPT ![c] = [q EXCEPT !.at = "reap", !.attempt = q.attempt, !.exit = q.exit]]
    BY <1>4, <1>e DEF LlmCall!LeaveEarly, LlmCall!At
  <2>2. "reap" \in CallPlaces \ {"ended"}
    BY DEF CallPlaces
  <2>3. caller'[c].process = q.process
    BY <1>0, <2>1 DEF CallRow
  <2>4. LeftClean(c)'
    <3>1. LlmCall!Child(c)' = LlmCall!Child(c) /\ LlmCall!Child(c)[1] = q.process
      BY <2>3 DEF LlmCall!Child
    <3>2. LlmCall!Child(c)' \notin alive'
      BY <2>1, <3>1 DEF LlmCall!Killed, LlmCall!Group
    <3>3. HasProcessGroups => LlmCall!Group(c)' = {}
      BY <2>1, <2>3 DEF LlmCall!Killed, LlmCall!Group
    <3> QED
      BY <3>2, <3>3 DEF LeftClean
  <2> QED
    BY <1>0, <1>r, <2>1, <2>2, <2>4, MovedStep
<1>5. CASE \E status \in {0, 1} : LlmCall!Exit(c, status)
  <2>1. PICK status \in {0, 1} : LlmCall!Exit(c, status)
    BY <1>5
  <2>2. q.at = "talk" /\ alive' \subseteq alive /\ caller' = [caller EXCEPT ![c].exit = status]
        /\ UNCHANGED <<now, limiter, grants, workdir, begun, spawned>>
    BY <2>1 DEF LlmCall!Exit, LlmCall!At
  <2>3. caller' = [caller EXCEPT ![c] = [q EXCEPT !.at = "talk", !.attempt = q.attempt, !.exit = status]]
    <3>1. ASSUME NEW rw \in CallRow, rw.at = "talk" PROVE [rw EXCEPT !.exit = status] = [rw EXCEPT !.at = "talk", !.attempt = rw.attempt, !.exit = status]
      BY <3>1 DEF CallRow
    <3> QED
      BY <1>0, <2>2, <3>1
  <2>4. "talk" \in CallPlaces \ {"ended"}
    BY DEF CallPlaces
  <2> QED
    BY <1>0, <1>r, <2>2, <2>3, <2>4, MovedStep
<1>6. CASE LlmCall!Spawn(c)
  <2>1. /\ q.at = "spawn" /\ spawned < MaxSpawns /\ spawned' = spawned + 1 /\ alive' = alive \cup {<<spawned + 1, "child">>}
        /\ UNCHANGED <<now, limiter, grants, workdir, begun>>
        /\ caller' = [caller EXCEPT ![c] = [q EXCEPT !.at = "talk", !.process = spawned + 1]]
    BY <1>6, <1>0 DEF LlmCall!Spawn, LlmCall!At
  <2> DEFINE r == [q EXCEPT !.at = "talk", !.process = spawned + 1]
  <2>2. r \in CallRow /\ r.at = "talk" /\ r.process = spawned + 1 /\ r.result = "none"
    <3>1. spawned + 1 \in Nat
      BY <1>0, CallsFit
    <3>2. ASSUME NEW rw \in CallRow, NEW n \in Nat PROVE
            LET f == [rw EXCEPT !.at = "talk", !.process = n] IN f \in CallRow /\ f.at = "talk" /\ f.process = n /\ f.result = rw.result
      BY DEF CallRow, CallPlaces
    <3> QED
      BY <1>0, <1>r, <2>1, <3>1, <3>2
  <2>3. caller' \in [Callers -> CallRow] /\ caller'[c] = r /\ \A d \in Callers : d # c => caller'[d] = caller[d]
    BY <1>0, <2>1, <2>2
  <2> HIDE DEF r, q
  <2>4. CallerFit(c)'
    BY <2>2, <2>3 DEF CallerFit
  <2>5. spawned' \in 0..MaxSpawns /\ spawned' >= spawned
    BY <1>0, <2>1, CallsFit
  <2>6. alive' \subseteq (1..spawned') \X Kinds3
    <3>1. <<spawned + 1, "child">> \in (1..spawned') \X Kinds3 /\ 1..spawned \subseteq 1..spawned'
      BY <1>0, <2>1, CallsFit
    <3> QED
      BY <1>0, <2>1, <3>1
  <2>7. \A p \in alive' : p \in alive \/ p[1] = caller'[c].process
    BY <2>1, <2>2, <2>3
  <2> QED
    BY <1>0, <2>1, <2>2, <2>3, <2>4, <2>5, <2>6, <2>7, CallerStep
<1>7. CASE LlmCall!Fork(c) \/ \E loose \in {{}, {"loose"}} : LlmCall!LetGo(c, loose)
  <2>1. /\ UNCHANGED <<now, limiter, grants, caller, workdir, begun, spawned>>
        /\ \A p \in alive' : p \in alive \/ p \in {<<q.process, "holder">>, <<q.process, "loose">>}
    BY <1>7 DEF LlmCall!Fork, LlmCall!LetGo, LlmCall!Holder
  <2>2. \E p \in alive : p[1] = q.process
    BY <1>7 DEF LlmCall!Fork, LlmCall!LetGo, LlmCall!Holder, LlmCall!Child
  <2>3. q.process \in 1..spawned
    BY <1>0, <2>2
  <2>4. alive' \subseteq (1..spawned') \X Kinds3
    BY <1>0, <2>1, <2>3
  <2>5. caller[c].at = "reap" \/ caller[c].result = "leftEarly" => LeftClean(c)'
    <3>1. HAVE caller[c].at = "reap" \/ caller[c].result = "leftEarly"
    <3>2. LeftClean(c) /\ caller[c].at # "talk"
      BY <1>r, <3>1, <1>0 DEF CallerFit
    <3>3. LlmCall!Child(c) = <<q.process, "child">> /\ <<q.process, "child">> \notin alive'
      BY <2>1, <3>2 DEF LeftClean, LlmCall!Child
    <3>4. ~HasProcessGroups
      BY <2>2, <3>2 DEF LeftClean, LlmCall!Group
    <3> QED
      BY <2>1, <3>3, <3>4 DEF LeftClean, LlmCall!Child
  <2>6. CallerFit(c)'
    BY <1>0, <2>1, <2>5 DEF CallerFit, LlmCall!Attempts
  <2>7. \A p \in alive' : p \in alive \/ p[1] = caller'[c].process
    BY <2>1
  <2>8. spawned' \in 0..MaxSpawns /\ spawned' >= spawned
    BY <1>0, <2>1, CallsFit
  <2> QED
    BY <1>0, <2>1, <2>4, <2>6, <2>7, <2>8, CallerStep
<1> QED
  BY <1>1, <1>2, <1>3, <1>4, <1>5, <1>6, <1>7

LEMMA CallStep == CallInv /\ LlmCall!CallNext => CallInv'
<1> SUFFICES ASSUME CallInv, LlmCall!CallNext PROVE CallInv'
  OBVIOUS
<1>1. CASE LlmCall!Tick
  BY <1>1, TickFits
<1>2. ASSUME NEW c \in Callers, \E feature \in LlmCall!Features, provider \in {"claude", "cloud"}, usable \in BOOLEAN :
                                  LlmCall!Call(c, feature, provider, usable)
      PROVE  CallInv'
  BY <1>2, CallFits
<1>3. ASSUME NEW c \in Callers, \/ LlmCall!NoWorkdir(c) \/ LlmCall!CancelBackoff(c)
                                \/ \E result \in {"answered", "failed", "cancelled"} : LlmCall!CloudAnswers(c, result)
      PROVE  CallInv'
  <2>1. PICK result \in {"answered", "failed", "cancelled"} :
          caller[c].at \in {"claude", "cloud", "backoff"} /\ LlmCall!Ended(c, result) /\
          UNCHANGED <<now, limiter, grants, workdir, alive, begun, spawned>>
    BY <1>3 DEF LlmCall!NoWorkdir, LlmCall!CancelBackoff, LlmCall!CloudAnswers, LlmCall!At
  <2>2. workdir' = workdir \ {c}
    BY <2>1 DEF CallInv, CallerFit
  <2> QED
    BY <2>1, <2>2, EndedStep DEF CallResults
<1>4. ASSUME NEW c \in Callers, LlmCall!Reaped(c) \/ \E result \in {"failed", "cancelled"} : LlmCall!NoSpawn(c, result)
      PROVE  CallInv'
  <2>1. PICK result \in {"failed", "cancelled", "leftEarly"} :
          /\ result = "leftEarly" => caller[c].at = "reap"
          /\ LlmCall!Ended(c, result) /\ workdir' = workdir \ {c} /\ UNCHANGED <<now, limiter, grants, alive, begun, spawned>>
    BY <1>4 DEF LlmCall!Reaped, LlmCall!NoSpawn, LlmCall!At
  <2>2. result = "leftEarly" => LeftClean(c)
    BY <2>1 DEF CallInv, CallerFit
  <2> QED
    BY <2>1, <2>2, EndedStep DEF CallResults
<1> QED
  BY <1>1, <1>2, <1>3, <1>4, ClaudeFits DEF LlmCall!CallNext

LEMMA CallsStart == LlmCall!CallInit => CallInv
<1> SUFFICES ASSUME LlmCall!CallInit PROVE CallInv
  OBVIOUS
<1>1. LlmCall!NotCalling \in CallRow /\ LlmCall!NotCalling.process = 0 /\ LlmCall!NotCalling.result = "none" /\ LlmCall!NotCalling.at = "off"
  BY DEF CallRow, CallPlaces, CallResults, LlmCall!NotCalling, LlmCall!Features
<1>2. /\ now = 0 /\ limiter = [b \in LlmCall!Buckets |-> LlmCall!FullBucket] /\ grants = [b \in LlmCall!Buckets |-> <<>>]
      /\ caller = [c \in Callers |-> LlmCall!NotCalling] /\ workdir = {} /\ alive = {} /\ begun = 0 /\ spawned = 0
  BY DEF LlmCall!CallInit
<1>3. LlmCall!FullBucket \in BucketRow /\ LlmCall!FullBucket.left = Capacity /\ LlmCall!FullBucket.ends = Window
  BY <1>2, CallsFit DEF LlmCall!FullBucket, BucketRow
<1>4. CallTyped
  BY <1>1, <1>2, <1>3, CallsFit DEF CallTyped
<1>5. ASSUME NEW b \in LlmCall!Buckets PROVE BucketFit(limiter[b], grants[b], now)
  <2>1. limiter[b] = LlmCall!FullBucket /\ grants[b] = <<>> /\ Len(grants[b]) = 0
    BY <1>2
  <2> QED
    BY <1>2, <1>3, <2>1, CallsFit DEF BucketFit
<1>6. ASSUME NEW c \in Callers PROVE OwnProcess(c) /\ CallerFit(c)
  BY <1>1, <1>2 DEF OwnProcess, CallerFit
<1> QED
  BY <1>4, <1>5, <1>6 DEF CallInv

LEMMA CallsRest == CallInv /\ UNCHANGED callVars => CallInv'
<1> SUFFICES ASSUME CallInv, UNCHANGED callVars PROVE CallInv'
  OBVIOUS
<1>1. UNCHANGED <<now, limiter, grants, caller, workdir, alive, begun, spawned>>
  BY DEF callVars
<1>2. CallTyped' /\ \A b \in LlmCall!Buckets : BucketFit(limiter'[b], grants'[b], now')
  BY <1>1 DEF CallInv, CallTyped
<1>3. ASSUME NEW c \in Callers PROVE OwnProcess(c)' /\ CallerFit(c)'
  BY <1>1 DEF CallInv, OwnProcess, CallerFit, LeftClean, LlmCall!Child, LlmCall!Group, LlmCall!Attempts
<1> QED
  BY <1>2, <1>3 DEF CallInv

\* A call is refused only when its window is full.
LEMMA RefusedCause ==
  ASSUME CallInv, NEW c \in Callers, NEW feature \in LlmCall!Features, NEW provider \in {"claude", "cloud"}, NEW usable \in BOOLEAN,
         LlmCall!Call(c, feature, provider, usable), caller'[c].result = "refused"
  PROVE  LET taken == grants[LlmCall!Bucket(feature, provider)]
         IN Len(taken) >= Capacity /\ now - taken[Len(taken) - Capacity + 1] < Window
<1> DEFINE b == LlmCall!Bucket(feature, provider)
           new == [LlmCall!NotCalling EXCEPT !.feature = feature]
           asksFirst == usable \/ b = "search"
           refused == asksFirst /\ b # "none" /\ LlmCall!Turned(b).left <= 0
<1>1. b # "none" => b \in LlmCall!Buckets
  BY DEF LlmCall!Bucket, LlmCall!Buckets
<1>2. refused
  <2> SUFFICES ASSUME ~refused PROVE FALSE
    OBVIOUS
  <2>1. caller' = [caller EXCEPT ![c] = IF usable THEN [new EXCEPT !.at = provider, !.attempt = 1]
                                        ELSE [new EXCEPT !.at = "ended", !.result = "failed"]]
    BY DEF LlmCall!Call
  <2>2. caller \in [Callers -> CallRow]
    BY DEF CallInv, CallTyped
  <2>3. new.result = "none" /\ [new EXCEPT !.at = provider, !.attempt = 1].result = "none"
        /\ [new EXCEPT !.at = "ended", !.result = "failed"].result = "failed"
    BY DEF LlmCall!NotCalling
  <2> HIDE DEF new
  <2> QED
    BY <2>1, <2>2, <2>3
<1> QED
  BY <1>1, <1>2, RefusedFits

\* CallsHeld, for every rate, window, number of callers and processes: no window's length holds more than two windows'
\* slots (RateHeld), a call is refused only when its window is full (RefusedForCause), and a call that is over leaves no
\* working directory and, left early, none of its processes, whatever the child started (NothingRuns).
THEOREM CallsAreHeld == ModelsSpec => CallsHeld
<1>1. ModelsInit => CallInv
  BY CallsStart DEF ModelsInit
<1>2. [ModelsNext]_allVars => [LlmCall!CallNext]_callVars
  BY DEF ModelsNext, allVars
<1>3. CallInv /\ [ModelsNext]_allVars => CallInv'
  BY <1>2, CallStep, CallsRest
<1>4. CallInv => (part = "calls" => LlmCall!CallTypeOK /\ LlmCall!RateHeld /\ LlmCall!NothingRuns)
  <2> SUFFICES ASSUME CallInv PROVE LlmCall!CallTypeOK /\ LlmCall!RateHeld /\ LlmCall!NothingRuns
    OBVIOUS
  <2>1. LlmCall!CallTypeOK
    BY CallsFit DEF CallInv, CallTyped, CallRow, BucketRow, CallPlaces, CallResults, OwnProcess, LlmCall!CallTypeOK
  <2>2. LlmCall!RateHeld
    BY DEF CallInv, BucketFit, LlmCall!RateHeld
  <2>3. LlmCall!NothingRuns
    BY DEF CallInv, CallerFit, LeftClean, LlmCall!NothingRuns, LlmCall!At
  <2> QED
    BY <2>1, <2>2, <2>3
<1>5. CallInv => [begun' # begun => \A c \in Callers, feature \in LlmCall!Features, provider \in {"claude", "cloud"}, usable \in BOOLEAN :
                    (LlmCall!Call(c, feature, provider, usable) /\ caller'[c].result = "refused") =>
                      LET taken == grants[LlmCall!Bucket(feature, provider)]
                      IN Len(taken) >= Capacity /\ now - taken[Len(taken) - Capacity + 1] < Window]_LlmCall!callVars
  BY RefusedCause
<1> QED
  BY <1>1, <1>3, <1>4, <1>5, PTL DEF ModelsSpec, CallsHeld, LlmCall!RefusedForCause

-----------------------------------------------------------------------------
(***************************************************************************)
(* TemplateCosts: a budget never mixes a window with an older count.       *)
(***************************************************************************)
CountRow == [text : Templates, by : 1..MaxServers]
SizingRow == [at : {"off", "frame", "tokenize", "counted", "budget"}, text : Templates \cup {"none"},
              epoch : 0..MaxEpochs, window : 0..MaxServers, count : 0..MaxServers]
CostTyped ==
  /\ server \in 1..MaxServers /\ window \in 0..MaxServers /\ probe \in 0..MaxServers /\ epoch \in 0..MaxEpochs
  /\ costs \in Seq(CountRow) /\ Len(costs) <= MaxCached /\ sizing \in [Sizings -> SizingRow]
\* What the client knows is no newer than the server, and a probe's epoch is counted.
KnownOfServer == window <= server /\ probe <= server /\ (probe # 0 => epoch < MaxEpochs)
\* A template is cached once, and its count is at least as new as the window.
CachedFit ==
  /\ \A i \in 1..Len(costs) : costs[i].by >= window
  /\ \A i, j \in 1..Len(costs) : costs[i].text = costs[j].text => i = j
\* A sizing began with the window of its epoch, and what it counted is at least as new.
SizingFit(s) ==
  /\ sizing[s].epoch <= epoch /\ (sizing[s].at # "off" /\ sizing[s].epoch = epoch => sizing[s].window = window)
  /\ sizing[s].at # "off" => sizing[s].text \in Templates /\ sizing[s].window <= server
  /\ sizing[s].at \in {"tokenize", "counted", "budget"} => sizing[s].count >= sizing[s].window /\ sizing[s].count >= 1
CostInv == CostTyped /\ KnownOfServer /\ CachedFit /\ \A s \in Sizings : SizingFit(s)

\* _remember: the counts as a sequence of rows, each template once, and no more than there may be.
LEMMA RememberedFit ==
  ASSUME NEW text \in Templates, NEW by \in 1..MaxServers, CostTyped, CachedFit, by >= window
  PROVE  LET new == Costs!Remembered(text, by) IN
         /\ new \in Seq(CountRow) /\ Len(new) <= MaxCached
         /\ \A i \in 1..Len(new) : new[i].by >= window
         /\ \A i, j \in 1..Len(new) : new[i].text = new[j].text => i = j
<1> DEFINE entry == [text |-> text, by |-> by]
           kept == IF Costs!NeedsRoom(text) THEN Tail(costs) ELSE costs
           there == {i \in 1..Len(kept) : kept[i].text = text}
           new == Costs!Remembered(text, by)
<1>0. entry \in CountRow /\ entry.text = text /\ entry.by = by
  BY DEF CountRow
<1>1. costs \in Seq(CountRow) /\ Len(costs) \in Nat /\ Len(costs) <= MaxCached /\ window \in Int
  BY DEF CostTyped
<1>2. /\ kept \in Seq(CountRow) /\ Len(kept) \in Nat
      /\ \A i \in 1..Len(kept) : kept[i].by >= window
      /\ \A i, j \in 1..Len(kept) : kept[i].text = kept[j].text => i = j
      /\ Len(kept) <= MaxCached
      /\ there = {} => Len(kept) < MaxCached
  <2>1. CASE Costs!NeedsRoom(text)
    <3>1. Len(costs) >= MaxCached /\ Len(costs) # 0 /\ costs # <<>>
      BY <1>1, <2>1, CostsFit DEF Costs!NeedsRoom
    <3>2. kept = Tail(costs) /\ kept \in Seq(CountRow) /\ Len(kept) = Len(costs) - 1 /\ \A i \in 1..Len(kept) : kept[i] = costs[i + 1]
      BY <1>1, <2>1, <3>1
    <3> HIDE DEF kept
    <3> QED
      BY <1>1, <3>1, <3>2, CostsFit DEF CachedFit
  <2>2. CASE ~Costs!NeedsRoom(text)
    <3>1. kept = costs
      BY <2>2
    <3>2. there = {} => Len(costs) < MaxCached
      <4>1. there = Costs!Cached(text)
        BY <3>1 DEF Costs!Cached
      <4> QED
        BY <1>1, <2>2, <4>1, CostsFit DEF Costs!NeedsRoom
    <3> HIDE DEF kept
    <3> QED
      BY <1>1, <3>1, <3>2 DEF CachedFit
  <2> QED
    BY <2>1, <2>2
<1>3. new = IF there = {} THEN Append(kept, entry) ELSE [i \in 1..Len(kept) |-> IF i \in there THEN entry ELSE kept[i]]
  BY DEF Costs!Remembered
<1>4. \A i \in 1..Len(kept) : i \in there <=> kept[i].text = text
  OBVIOUS
<1> SUFFICES /\ new \in Seq(CountRow) /\ Len(new) <= MaxCached
             /\ \A i \in 1..Len(new) : new[i].by >= window
             /\ \A i, j \in 1..Len(new) : new[i].text = new[j].text => i = j
  OBVIOUS
<1>5. CASE there = {}
  <2>1. new = Append(kept, entry) /\ \A i \in 1..Len(kept) : kept[i].text # text
    BY <1>3, <1>4, <1>5
  <2> HIDE DEF kept, new, entry, there
  <2>2. /\ new \in Seq(CountRow) /\ Len(new) = Len(kept) + 1 /\ new[Len(kept) + 1] = entry
        /\ \A i \in 1..Len(kept) : new[i] = kept[i]
    BY <1>0, <1>2, <2>1
  <2>3. \A i \in 1..Len(new) : i = Len(kept) + 1 \/ i \in 1..Len(kept)
    BY <1>2, <2>2
  <2> QED
    BY <1>0, <1>2, <1>5, <2>1, <2>2, <2>3, CostsFit
<1>6. CASE there # {}
  <2>1. new = [i \in 1..Len(kept) |-> IF i \in there THEN entry ELSE kept[i]]
    BY <1>3, <1>6
  <2> HIDE DEF kept, new, entry, there
  <2>2. \A i \in 1..Len(kept) : kept[i] \in CountRow
    BY <1>2
  <2>3. new \in Seq(CountRow) /\ Len(new) = Len(kept) /\ \A i \in 1..Len(kept) : new[i] = IF i \in there THEN entry ELSE kept[i]
    BY <1>0, <1>2, <2>1, <2>2
  <2>4. \A i \in 1..Len(kept) : new[i].text = kept[i].text /\ new[i].by >= window
    BY <1>0, <1>1, <1>2, <1>4, <2>3
  <2> QED
    BY <1>2, <2>3, <2>4
<1> QED
  BY <1>5, <1>6

\* A sizing that takes a step keeps what a step of it alone has to: the rows of the others stay.
LEMMA OneSizing ==
  ASSUME NEW s \in Sizings, NEW r \in SizingRow, CostInv, sizing' = [sizing EXCEPT ![s] = r],
         UNCHANGED <<server, window, costs, epoch, probe>>,
         /\ r.epoch <= epoch /\ (r.at # "off" /\ r.epoch = epoch => r.window = window)
         /\ r.at # "off" => r.text \in Templates /\ r.window <= server
         /\ r.at \in {"tokenize", "counted", "budget"} => r.count >= r.window /\ r.count >= 1
  PROVE  CostInv'
<1>1. sizing \in [Sizings -> SizingRow]
  BY DEF CostInv, CostTyped
<1>2. sizing' \in [Sizings -> SizingRow] /\ sizing'[s] = r /\ \A t \in Sizings : t # s => sizing'[t] = sizing[t]
  BY <1>1
<1>3. CostTyped' /\ KnownOfServer' /\ CachedFit'
  BY <1>2 DEF CostInv, CostTyped, KnownOfServer, CachedFit
<1>4. ASSUME NEW t \in Sizings PROVE SizingFit(t)'
  <2>1. CASE t = s
    BY <1>2, <2>1 DEF SizingFit
  <2>2. CASE t # s
    BY <1>2, <2>2 DEF SizingFit, CostInv
  <2> QED
    BY <2>1, <2>2
<1> QED
  BY <1>3, <1>4 DEF CostInv

LEMMA CostStep == CostInv /\ Costs!CostNext => CostInv'
<1> SUFFICES ASSUME CostInv, Costs!CostNext PROVE CostInv'
  OBVIOUS
<1>t. /\ CostTyped /\ KnownOfServer /\ CachedFit /\ \A s \in Sizings : SizingFit(s)
      /\ server \in 1..MaxServers /\ window \in 0..MaxServers /\ probe \in 0..MaxServers /\ epoch \in 0..MaxEpochs
      /\ sizing \in [Sizings -> SizingRow]
  BY DEF CostInv, CostTyped
<1>1. CASE Costs!Restart
  BY <1>t, <1>1, CostsFit DEF Costs!Restart, CostInv, CostTyped, KnownOfServer, CachedFit, SizingFit, SizingRow
<1>2. CASE Costs!ProbeAnswered
  BY <1>t, <1>2, CostsFit DEF Costs!ProbeAnswered, CostInv, CostTyped, KnownOfServer, CachedFit, SizingFit
<1>3. CASE Costs!ProbeRead
  <2>1. /\ window' = probe /\ probe' = 0 /\ costs' = <<>> /\ epoch' = epoch + 1 /\ server' = server /\ sizing' = sizing
    BY <1>3 DEF Costs!ProbeRead
  <2>2. epoch < MaxEpochs
    BY <1>t, <1>3 DEF Costs!ProbeRead, KnownOfServer
  <2>3. CostTyped' /\ KnownOfServer' /\ CachedFit'
    BY <1>t, <2>1, <2>2, CostsFit DEF CostTyped, KnownOfServer, CachedFit
  <2>4. ASSUME NEW s \in Sizings PROVE SizingFit(s)'
    BY <1>t, <2>1, CostsFit DEF SizingFit, SizingRow
  <2> QED
    BY <2>3, <2>4 DEF CostInv
<1>4. CASE Costs!ProbeFails
  BY <1>t, <1>4, CostsFit DEF Costs!ProbeFails, CostInv, CostTyped, KnownOfServer, CachedFit, SizingFit
<1>5. ASSUME NEW s \in Sizings, Costs!Framed(s) PROVE CostInv'
  <2> DEFINE r == [at |-> "tokenize", text |-> sizing[s].text, epoch |-> sizing[s].epoch,
                   window |-> sizing[s].window, count |-> server]
  <2>0. [sizing[s] EXCEPT !.at = "tokenize", !.count = server] = r
    <3>1. sizing[s] \in SizingRow
      BY <1>t
    <3>2. ASSUME NEW entry \in SizingRow PROVE
            [entry EXCEPT !.at = "tokenize", !.count = server]
              = [at |-> "tokenize", text |-> entry.text, epoch |-> entry.epoch, window |-> entry.window, count |-> server]
      <4>1. [entry EXCEPT !.at = "tokenize"]
              = [at |-> "tokenize", text |-> entry.text, epoch |-> entry.epoch, window |-> entry.window, count |-> entry.count]
        BY DEF SizingRow
      <4>2. [[entry EXCEPT !.at = "tokenize"] EXCEPT !.count = server]
              = [at |-> "tokenize", text |-> entry.text, epoch |-> entry.epoch, window |-> entry.window, count |-> server]
        <5>1. [entry EXCEPT !.at = "tokenize"] \in SizingRow
          BY DEF SizingRow
        <5>2. ASSUME NEW e \in SizingRow PROVE
               [e EXCEPT !.count = server] = [at |-> e.at, text |-> e.text, epoch |-> e.epoch, window |-> e.window, count |-> server]
          BY DEF SizingRow
        <5> QED
          BY <4>1, <5>1, <5>2
      <4> QED
        BY <4>2
    <3> QED
      BY <3>1, <3>2
  <2>1. sizing[s].at = "frame" /\ sizing' = [sizing EXCEPT ![s] = r] /\ UNCHANGED <<server, window, costs, epoch, probe>>
    BY <1>5, <1>t, <2>0 DEF Costs!Framed, Costs!At
  <2>2. sizing[s] \in SizingRow /\ SizingFit(s)
    BY <1>t
  <2>3. r \in SizingRow /\ r.at = "tokenize" /\ r.count = server
        /\ r.text = sizing[s].text /\ r.epoch = sizing[s].epoch /\ r.window = sizing[s].window
    BY <1>t, <2>2, CostsFit DEF SizingRow
  <2> HIDE DEF r
  <2>4. sizing[s].text \in Templates /\ sizing[s].window <= server /\ server >= 1 /\ sizing[s].epoch <= epoch
        /\ (sizing[s].epoch = epoch => sizing[s].window = window)
    BY <1>t, <2>1, <2>2, CostsFit DEF SizingFit
  <2> QED
    BY <2>1, <2>3, <2>4, OneSizing
<1>6. ASSUME NEW s \in Sizings, Costs!Tokenized(s) PROVE CostInv'
  <2> DEFINE r == [sizing[s] EXCEPT !.at = "counted"]
  <2>1. sizing[s].at = "tokenize" /\ sizing' = [sizing EXCEPT ![s] = r] /\ UNCHANGED <<server, window, costs, epoch, probe>>
    BY <1>6, <1>t DEF Costs!Tokenized, Costs!At
  <2>2. sizing[s] \in SizingRow /\ SizingFit(s)
    BY <1>t
  <2>3. r \in SizingRow /\ r.at = "counted" /\ r.count = sizing[s].count
        /\ r.text = sizing[s].text /\ r.epoch = sizing[s].epoch /\ r.window = sizing[s].window
    BY <2>2 DEF SizingRow
  <2> HIDE DEF r
  <2> QED
    BY <2>1, <2>2, <2>3, OneSizing DEF SizingFit
<1>7. ASSUME NEW s \in Sizings, Costs!SizingFails(s) PROVE CostInv'
  <2>1. sizing' = [sizing EXCEPT ![s] = Costs!NotSizing] /\ UNCHANGED <<server, window, costs, epoch, probe>>
    BY <1>7 DEF Costs!SizingFails
  <2> DEFINE r == Costs!NotSizing
  <2>2. r \in SizingRow /\ r.at = "off" /\ r.epoch = 0
    BY CostsFit DEF Costs!NotSizing, SizingRow
  <2>3. r.epoch <= epoch /\ r.at \notin {"tokenize", "counted", "budget"} /\ sizing' = [sizing EXCEPT ![s] = r]
    BY <1>t, <2>1, <2>2, CostsFit
  <2> HIDE DEF r
  <2> QED
    BY <2>1, <2>2, <2>3, OneSizing
<1>8. ASSUME NEW s \in Sizings, NEW text \in Templates, Costs!Size(s, text) PROVE CostInv'
  <2> DEFINE c == CHOOSE i \in Costs!Cached(text) : TRUE
             r1 == [at |-> "frame", text |-> text, epoch |-> epoch, window |-> window, count |-> 0]
             r2 == [at |-> "budget", text |-> text, epoch |-> epoch, window |-> window, count |-> costs[c].by]
  <2>1. UNCHANGED <<server, window, costs, epoch, probe>>
        /\ sizing' = [sizing EXCEPT ![s] = IF Costs!Cached(text) = {} THEN r1 ELSE r2]
    BY <1>8 DEF Costs!Size
  <2>2. CASE Costs!Cached(text) = {}
    <3>1. r1 \in SizingRow
      BY <1>t, CostsFit DEF SizingRow
    <3>2. sizing' = [sizing EXCEPT ![s] = r1]
      BY <2>1, <2>2
    <3> QED
      BY <1>t, <2>1, <3>1, <3>2, OneSizing, CostsFit DEF KnownOfServer
  <2>3. CASE Costs!Cached(text) # {}
    <3>1. c \in Costs!Cached(text)
      BY <2>3
    <3>2. c \in 1..Len(costs)
      BY <3>1 DEF Costs!Cached
    <3> HIDE DEF c
    <3>3. costs[c] \in CountRow /\ costs[c].by >= window
      BY <1>t, <3>2 DEF CostTyped, CachedFit
    <3>4. r2 \in SizingRow
      BY <1>t, <3>3, CostsFit DEF SizingRow, CountRow
    <3>5. sizing' = [sizing EXCEPT ![s] = r2]
      BY <2>1, <2>3
    <3> QED
      BY <1>t, <2>1, <3>3, <3>4, <3>5, OneSizing, CostsFit DEF KnownOfServer, CountRow
  <2> QED
    BY <2>2, <2>3
<1>9. ASSUME NEW s \in Sizings, Costs!Counted(s) PROVE CostInv'
  <2> DEFINE r == [sizing[s] EXCEPT !.at = "budget"]
  <2>1. /\ sizing[s].at = "counted" /\ sizing' = [sizing EXCEPT ![s] = r] /\ UNCHANGED <<server, window, epoch, probe>>
        /\ costs' = IF sizing[s].epoch = epoch THEN Costs!Remembered(sizing[s].text, sizing[s].count) ELSE costs
    BY <1>9, <1>t DEF Costs!Counted, Costs!At, Costs!SameEpoch
  <2>2. sizing[s] \in SizingRow /\ SizingFit(s)
    BY <1>t
  <2>3. r \in SizingRow /\ r.at = "budget" /\ r.count = sizing[s].count
        /\ r.text = sizing[s].text /\ r.epoch = sizing[s].epoch /\ r.window = sizing[s].window
    BY <2>2 DEF SizingRow
  <2>4. sizing' \in [Sizings -> SizingRow] /\ sizing'[s] = r /\ \A t \in Sizings : t # s => sizing'[t] = sizing[t]
    BY <1>t, <2>1, <2>3
  <2> HIDE DEF r
  <2>5. ASSUME NEW t \in Sizings PROVE SizingFit(t)'
    <3>1. CASE t = s
      BY <2>1, <2>2, <2>3, <2>4, <3>1 DEF SizingFit
    <3>2. CASE t # s
      BY <1>t, <2>1, <2>4, <3>2 DEF SizingFit
    <3> QED
      BY <3>1, <3>2
  <2>6. costs' \in Seq(CountRow) /\ Len(costs') <= MaxCached /\ CachedFit'
    <3>1. CASE sizing[s].epoch = epoch
      <4>1. sizing[s].text \in Templates /\ sizing[s].count \in 1..MaxServers /\ sizing[s].count >= window
        BY <1>t, <2>1, <2>2, <3>1, CostsFit DEF SizingFit, SizingRow
      <4>2. costs' = Costs!Remembered(sizing[s].text, sizing[s].count)
        BY <2>1, <3>1
      <4> QED
        BY <1>t, <2>1, <4>1, <4>2, RememberedFit DEF CachedFit
    <3>2. CASE sizing[s].epoch # epoch
      BY <1>t, <2>1, <3>2 DEF CostTyped, CachedFit
    <3> QED
      BY <3>1, <3>2
  <2>7. CostTyped' /\ KnownOfServer'
    BY <1>t, <2>1, <2>4, <2>6 DEF CostTyped, KnownOfServer
  <2> QED
    BY <2>5, <2>6, <2>7 DEF CostInv
<1> QED
  BY <1>1, <1>2, <1>3, <1>4, <1>5, <1>6, <1>7, <1>8, <1>9 DEF Costs!CostNext

LEMMA CostStarts == Costs!CostInit => CostInv
<1> SUFFICES ASSUME Costs!CostInit PROVE CostInv
  OBVIOUS
<1>1. Costs!NotSizing \in SizingRow /\ Costs!NotSizing.at = "off" /\ Costs!NotSizing.epoch = 0
  BY CostsFit DEF Costs!NotSizing, SizingRow
<1>2. /\ server = 1 /\ window = 0 /\ costs = <<>> /\ epoch = 0 /\ probe = 0
      /\ sizing = [s \in Sizings |-> Costs!NotSizing]
  BY DEF Costs!CostInit
<1>3. \A s \in Sizings : sizing[s] = Costs!NotSizing
  BY <1>2
<1>4. CostTyped
  BY <1>1, <1>2, CostsFit DEF CostTyped
<1> QED
  BY <1>1, <1>2, <1>3, <1>4 DEF CostInv, KnownOfServer, CachedFit, SizingFit

LEMMA CostRests == CostInv /\ UNCHANGED costVars => CostInv'
BY DEF CostInv, costVars, CostTyped, KnownOfServer, CachedFit, SizingFit

LEMMA CardinalityOfTexts == ASSUME NEW S PROVE Costs!Cardinality(S) = Cardinality(S)
BY Zenon DEF Costs!Cardinality, Cardinality

\* _remember pushes out at most one count, and only for a template that was not cached.
LEMMA OneForOne ==
  ASSUME NEW text \in Templates, NEW by \in 1..MaxServers, CostInv, by >= window, costs' = Costs!Remembered(text, by)
  PROVE  Cardinality(Costs!Texts \ Costs!Texts') <= Cardinality(Costs!Texts' \ Costs!Texts)
<1> DEFINE entry == [text |-> text, by |-> by]
           kept == IF Costs!NeedsRoom(text) THEN Tail(costs) ELSE costs
           there == {i \in 1..Len(kept) : kept[i].text = text}
           T == {costs[i].text : i \in 1..Len(costs)}
           U == {costs'[i].text : i \in 1..Len(costs')}
<1>0. Costs!Texts = T /\ Costs!Texts' = U
  BY DEF Costs!Texts
<1>1. costs \in Seq(CountRow) /\ Len(costs) \in Nat /\ Len(costs) <= MaxCached
  BY DEF CostInv, CostTyped
<1>2. costs' = IF there = {} THEN Append(kept, entry) ELSE [i \in 1..Len(kept) |-> IF i \in there THEN entry ELSE kept[i]]
  BY DEF Costs!Remembered
<1>3. CASE Costs!NeedsRoom(text)
  <2>1. Len(costs) >= 1 /\ \A i \in 1..Len(costs) : costs[i].text # text
    BY <1>1, <1>3, CostsFit DEF Costs!NeedsRoom, Costs!Cached
  <2>2. kept = Tail(costs) /\ kept \in Seq(CountRow) /\ Len(kept) = Len(costs) - 1 /\ \A i \in 1..Len(kept) : kept[i] = costs[i + 1]
    BY <1>1, <1>3, <2>1
  <2>3. there = {}
    BY <1>1, <2>1, <2>2
  <2>4. costs' = Append(kept, entry) /\ entry.text = text /\ entry \in CountRow
    BY <1>2, <2>3 DEF CountRow
  <2> HIDE DEF kept, entry, there
  <2>5. Len(costs') = Len(costs) /\ costs'[Len(costs)].text = text /\ \A i \in 1..(Len(costs) - 1) : costs'[i] = costs[i + 1]
    BY <1>1, <2>1, <2>2, <2>4
  <2>6. U \ T = {text}
    <3>1. text \in U /\ text \notin T
      BY <1>1, <2>1, <2>5
    <3>2. ASSUME NEW x \in U PROVE x = text \/ x \in T
      <4>1. PICK i \in 1..Len(costs) : x = costs'[i].text
        BY <2>5
      <4>2. CASE i = Len(costs)
        BY <2>5, <4>1, <4>2
      <4>3. CASE i # Len(costs)
        <5>1. i + 1 \in 1..Len(costs) /\ i \in 1..(Len(costs) - 1)
          BY <1>1, <4>3
        <5> QED
          BY <2>5, <4>1, <5>1
      <4> QED
        BY <4>2, <4>3
    <3> QED
      BY <3>1, <3>2
  <2>7. T \ U \subseteq {costs[1].text}
    <3> SUFFICES ASSUME NEW i \in 1..Len(costs), i # 1 PROVE costs[i].text \in U
      OBVIOUS
    <3>1. i - 1 \in 1..(Len(costs) - 1) /\ i - 1 \in 1..Len(costs') /\ i - 1 + 1 = i
      BY <1>1, <2>5
    <3> QED
      BY <2>5, <3>1
  <2> HIDE DEF T, U
  <2>8. IsFiniteSet({costs[1].text}) /\ Cardinality({costs[1].text}) = 1 /\ Cardinality(U \ T) = 1
    BY <2>6, FS_Singleton
  <2>9. Cardinality(T \ U) <= Cardinality({costs[1].text})
    BY <2>7, <2>8, FS_Subset
  <2> QED
    BY <1>0, <2>8, <2>9
<1>4. CASE ~Costs!NeedsRoom(text)
  <2>1. kept = costs
    BY <1>4
  <2>2. T \ U = {}
    <3> SUFFICES ASSUME NEW i \in 1..Len(costs) PROVE i \in 1..Len(costs') /\ costs'[i].text = costs[i].text
      OBVIOUS
    <3>1. CASE there = {}
      <4>1. costs' = Append(costs, entry) /\ entry \in CountRow
        BY <1>2, <2>1, <3>1 DEF CountRow
      <4> QED
        BY <1>1, <4>1
    <3>2. CASE there # {}
      <4>1. costs' = [k \in 1..Len(costs) |-> IF k \in there THEN entry ELSE costs[k]]
        BY <1>2, <2>1, <3>2
      <4>2. entry \in CountRow /\ entry.text = text
        BY DEF CountRow
      <4>3. i \in there <=> costs[i].text = text
        BY <2>1
      <4> HIDE DEF there, entry, kept
      <4>4. costs' \in Seq(CountRow) /\ Len(costs') = Len(costs)
        BY <1>1, <4>1, <4>2
      <4> QED
        BY <4>1, <4>2, <4>3, <4>4
    <3> QED
      BY <3>1, <3>2
  <2>3. IsFiniteSet(U \ T)
    <3>1. Len(costs') \in Nat
      BY RememberedFit DEF CostInv
    <3>2. IsFiniteSet(1..Len(costs'))
      BY <3>1, FS_Interval
    <3>3. IsFiniteSet(U)
      <4> DEFINE f == [i \in 1..Len(costs') |-> costs'[i].text]
      <4>1. f \in Surjection(1..Len(costs'), U)
        BY DEF Surjection
      <4> HIDE DEF f, U
      <4> QED
        BY <3>2, <4>1, FS_Surjection
    <3> HIDE DEF T, U
    <3> QED
      BY <3>3, FS_Difference
  <2> HIDE DEF T, U
  <2>4. Cardinality(T \ U) = 0 /\ Cardinality(U \ T) \in Nat
    BY <2>2, <2>3, FS_EmptySet, FS_CardinalityType
  <2> QED
    BY <1>0, <2>4
<1> QED
  BY <1>3, <1>4

LEMMA CostsKept ==
  CostInv /\ [Costs!CostNext]_costVars => [epoch' = epoch => Costs!Cardinality(Costs!Texts \ Costs!Texts')
                                                             <= Costs!Cardinality(Costs!Texts' \ Costs!Texts)]_Costs!costVars
<1> SUFFICES ASSUME CostInv, Costs!CostNext, epoch' = epoch
             PROVE  Cardinality(Costs!Texts \ Costs!Texts') <= Cardinality(Costs!Texts' \ Costs!Texts)
  BY CardinalityOfTexts DEF Costs!costVars, costVars
<1>1. CASE costs' = costs
  <2>1. Costs!Texts' = Costs!Texts
    BY <1>1 DEF Costs!Texts
  <2>2. Costs!Texts \ Costs!Texts' = {} /\ Costs!Texts' \ Costs!Texts = {}
    BY <2>1
  <2> QED
    BY <2>2, FS_EmptySet
<1>2. ASSUME NEW s \in Sizings, Costs!Counted(s), sizing[s].epoch = epoch
      PROVE  Cardinality(Costs!Texts \ Costs!Texts') <= Cardinality(Costs!Texts' \ Costs!Texts)
  <2>1. sizing[s].at = "counted" /\ costs' = Costs!Remembered(sizing[s].text, sizing[s].count)
    BY <1>2 DEF Costs!Counted, Costs!At, Costs!SameEpoch
  <2>2. sizing[s].text \in Templates /\ sizing[s].count \in 1..MaxServers /\ sizing[s].count >= window
    BY <1>2, <2>1, CostsFit DEF CostInv, CostTyped, SizingFit, SizingRow
  <2> QED
    BY <2>1, <2>2, OneForOne
<1>3. costs' = costs \/ \E s \in Sizings : Costs!Counted(s) /\ sizing[s].epoch = epoch
  <2>1. epoch \in Nat
    BY CostsFit DEF CostInv, CostTyped
  <2>2. ~Costs!ProbeRead
    BY <2>1 DEF Costs!ProbeRead
  <2> QED
    BY <2>2 DEF Costs!CostNext, Costs!Restart, Costs!ProbeAnswered, Costs!ProbeFails, Costs!Framed, Costs!Tokenized,
                Costs!SizingFails, Costs!Counted, Costs!Size, Costs!SameEpoch
<1> QED
  BY <1>1, <1>2, <1>3

\* BudgetTrue, for every number of templates, tasks, servers and probes: a budget is never the window of one server less
\* the count of an older one (BudgetNotOlder), and until the next probe a cached count is pushed out only by a template
\* that was not cached (KeptUntilProbed).
THEOREM BudgetsTrue == ModelsSpec => BudgetTrue
<1>1. ModelsInit => CostInv
  BY CostStarts DEF ModelsInit
<1>2. [ModelsNext]_allVars => [Costs!CostNext]_costVars
  BY DEF ModelsNext, allVars
<1>3. CostInv /\ [ModelsNext]_allVars => CostInv'
  BY <1>2, CostStep, CostRests
<1>4. CostInv => (part = "templates" => Costs!CostTypeOK /\ Costs!BudgetNotOlder)
  BY CostsFit DEF CostInv, CostTyped, CachedFit, SizingFit, CountRow, SizingRow, Costs!CostTypeOK, Costs!BudgetNotOlder, Costs!At
<1>5. CostInv /\ [ModelsNext]_allVars
        => [epoch' = epoch => Costs!Cardinality(Costs!Texts \ Costs!Texts') <= Costs!Cardinality(Costs!Texts' \ Costs!Texts)]_Costs!costVars
  BY <1>2, CostsKept
<1> QED
  BY <1>1, <1>3, <1>4, <1>5, PTL DEF ModelsSpec, BudgetTrue, Costs!KeptUntilProbed

=============================================================================
