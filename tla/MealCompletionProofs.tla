------------------------ MODULE MealCompletionProofs ------------------------
(***************************************************************************)
(* What completions promise for any number of calls, entries, lots and     *)
(* ingredients: the stock is what the movements leave of it, the movements *)
(* of a line are what the line says, completions deadlock among themselves *)
(* only for lots of two ingredients that two plans use in two orders, a    *)
(* completion appears under an approved plan, and what expires first is    *)
(* used first.  Then the kitchen: forecast, detail and completion agree on *)
(* what the meals need and on what is missing, for any plans and stock.    *)
(***************************************************************************)
EXTENDS MealCompletion, Kitchen, FiniteSetTheorems, WellFoundedInduction, TLAPS

(***************************************************************************)
(* The inductive invariant.  First, types; a call that is in a transaction *)
(* has a completion of its own.                                            *)
(***************************************************************************)
Active(c) == pc[c] \in {"work", "locking"}
Cooking(c) == request[c].op \in {Complete, Skip}
Kinds == {"meal_consumption", "reversal", "other"}
StatementType ==
  [kind : {"deduct", "reverse"}, ingredient : Ingredient, amount : 0..MaxAmount]
AnyMovement ==
  [lot : Lot, line : LineId \cup {NoLine}, delta : Int, result : Int, type : Kinds]
ReplyType ==
  [status : Status, completion : CompletionId \cup {0}, version : Nat, state : State]

StoreTypes ==
  /\ today \in 0..LastDay /\ plan_state \in [Plan -> {"approved", "draft"}]
  /\ quantity_on_hand \in [Lot -> Int]
  /\ inventory_movement \in Seq(AnyMovement)
  /\ meal_completion \in [CompletionId -> RowType]
  /\ actual_amount \in [CompletionId -> [Ingredient -> 0..MaxAmount]]
  /\ domain_event \in Seq([kind : {"meal_completed", "meal_line_corrected", "meal_reopened"},
                           completion : CompletionId, call : Call])
  /\ \A r \in completion_operation : r.result \in ReplyType
LockTypes ==
  /\ plan_lock \in [Plan -> Call \cup {NoCall}]
  /\ completion_lock \in [CompletionId -> Call \cup {NoCall}]
  /\ lot_lock \in [Lot -> Call \cup {NoCall}]
CallTypes ==
  /\ pc \in [Call -> {"received", "open", "work", "locking", "done", "lost"}]
  /\ request \in [Call -> Request] /\ reply \in [Call -> ReplyType]
TransactionTypes ==
  /\ own \in [Call -> CompletionId \cup {0}]
  /\ row \in [Call -> RowType]
  /\ lines \in [Call -> [Ingredient -> 0..MaxAmount]]
  /\ work \in [Call -> Seq(StatementType)]
  /\ scan \in [Call -> Seq(Lot)]
  /\ locked \in [Call -> SUBSET Lot]
  /\ pending \in [Call -> Seq(AnyMovement)]
Shape ==
  \A c \in Call : /\ Active(c) => own[c] \in CompletionId
                  /\ pc[c] = "locking" => work[c] # <<>>
Types == StoreTypes /\ LockTypes /\ CallTypes /\ TransactionTypes /\ Shape

(***************************************************************************)
(* Control.  A call outside a transaction holds no lock and no private     *)
(* state.  Inside one it has the plan row (complete, skip) or the row of   *)
(* its completion (correct, reopen), in the state its guard saw, and the   *)
(* lots of every movement it has yet to commit.                            *)
(***************************************************************************)
Idle(c) ==
  /\ own[c] = 0 /\ lines[c] = NoLines
  /\ work[c] = <<>> /\ scan[c] = <<>> /\ locked[c] = {} /\ pending[c] = <<>>
  /\ \A p \in Plan : plan_lock[p] # c
  /\ \A m \in CompletionId : completion_lock[m] # c
  /\ \A l \in Lot : lot_lock[l] # c

HoldsPlan(c) ==
  /\ plan_lock[PlanFor(c)] = c /\ Approved(c) /\ row[c].entry = request[c].entry
  /\ meal_completion[own[c]] = NoRow /\ row[c].state = "recorded"
  /\ \A n \in DOMAIN work[c] : work[c][n].kind = "deduct" /\ work[c][n].amount > 0
  /\ request[c].op = Skip => work[c] = <<>>
HoldsCompletion(c) ==
  /\ own[c] = request[c].completion /\ completion_lock[own[c]] = c
  /\ meal_completion[own[c]].state = "recorded" /\ row[c].state = ChangedState(request[c])

CallControl(c) ==
  /\ ~Active(c) => Idle(c)
  /\ Active(c) /\ Cooking(c) => HoldsPlan(c)
  /\ Active(c) /\ ~Cooking(c) => HoldsCompletion(c)
  /\ pc[c] = "work" => scan[c] = <<>> /\ locked[c] = {}
  /\ pc[c] = "locking" => lines[c][Head(work[c]).ingredient] = Head(work[c]).amount
  /\ \A l \in locked[c] : lot_lock[l] = c
  /\ \A n \in DOMAIN pending[c] :
       /\ lot_lock[pending[c][n].lot] = c
       /\ \E i \in Ingredient : pending[c][n].line = <<own[c], i>>
OwnDistinct == \A c, d \in Call : c # d /\ Active(c) /\ Active(d) => own[c] # own[d]
Control == (\A c \in Call : CallControl(c)) /\ OwnDistinct

(***************************************************************************)
(* Listing.  The lots a statement selects are all those that matter: for   *)
(* a deduction every lot of the ingredient that is its own and not empty,  *)
(* for a reversal every lot the line has drawn on.  A complete or a skip   *)
(* has locked no lot but those of the ingredients it has come to.  The     *)
(* lots of a deduction are locked in the order in which they expire.       *)
(***************************************************************************)
Listed(c) == locked[c] \cup {scan[c][n] : n \in DOMAIN scan[c]}
Enumerated(c) ==
  /\ \A n \in DOMAIN scan[c] : scan[c][n] \notin locked[c]
  /\ \A n, k \in DOMAIN scan[c] : n # k => scan[c][n] # scan[c][k]
ListsTheLots(c) ==
  LET s == Head(work[c]) IN
  IF s.kind = "deduct"
  THEN /\ \A l \in Listed(c) : LotIngredient[l] = s.ingredient
       /\ \A l \in Lot :
            lot_lock[l] = c /\ LotIngredient[l] = s.ingredient /\ Balance(c, l) > 0
              => l \in Listed(c)
  ELSE Listed(c) = {l \in Lot : NetOf(<<own[c], s.ingredient>>, l) < 0}
CookedLots(c) ==
  \A l \in Lot : lot_lock[l] = c =>
    /\ lines[c][LotIngredient[l]] > 0
    /\ pc[c] = "locking" /\ LotIngredient[l] = Head(work[c]).ingredient => l \in locked[c]
Precedes(a, b) ==
  ExpiresSooner(a, b) \/ (ExpirationDate[a] = ExpirationDate[b] /\ a < b)
InTurn(c) ==
  Head(work[c]).kind = "deduct" =>
    /\ \A n, k \in DOMAIN scan[c] : n < k => Precedes(scan[c][n], scan[c][k])
    /\ \A l \in locked[c], n \in DOMAIN scan[c] : Precedes(l, scan[c][n])
CallListing(c) ==
  /\ Enumerated(c)
  /\ pc[c] = "locking" => ListsTheLots(c) /\ InTurn(c)
  /\ Active(c) /\ Cooking(c) => CookedLots(c)
Listing == \A c \in Call : CallListing(c)

(***************************************************************************)
(* Balances.  What a call sees of a lot is the stored quantity and what it *)
(* has written itself, and stays in range.                                 *)
(***************************************************************************)
SumOfLot(t, l) == SumOfDeltas(t, OfLot(t, l))
SumOf(t, line) == SumOfDeltas(t, OfLine(t, line))
SumOn(t, line, l) == SumOfDeltas(t, OfLineOnLot(t, line, l))

Written(c, l) == SumOfLot(pending[c], l)
Accounted(c, l) == Balance(c, l) = quantity_on_hand[l] + Written(c, l)
Bounded(c, l) == Balance(c, l) \in 0..MaxAmount
StockBounded == quantity_on_hand \in [Lot -> 0..MaxAmount] /\ inventory_movement \in Seq(MovementType)
BalanceInvariant ==
  /\ StockBounded
  /\ \A c \in Call : pending[c] \in Seq(MovementType)
  /\ \A c \in Call, l \in Lot : Accounted(c, l) /\ Bounded(c, l)

(***************************************************************************)
(* Accounts.  How far the movements a call has written for a line are from *)
(* what the line will say when it commits: a complete draws amount after   *)
(* amount; a correction first puts back, lot by lot, what was drawn, then  *)
(* draws anew; a reopening puts back every line.                           *)
(***************************************************************************)
Rows(c, i) == OfLine(pending[c], <<own[c], i>>)
Drawn(c, i) == SumOf(pending[c], <<own[c], i>>)
DrawnFrom(c, i, l) == SumOn(pending[c], <<own[c], i>>, l)
Net(m, i) == SumOf(inventory_movement, <<m, i>>)
Undone(c, i) == \A l \in Lot : DrawnFrom(c, i, l) = -NetOf(<<own[c], i>>, l)
Now(c, i) == pc[c] = "locking" /\ Head(work[c]).ingredient = i
ToDo(c) == {work[c][n].ingredient : n \in DOMAIN work[c]}

CookingAccount(c) ==
  /\ \A n \in DOMAIN pending[c] : pending[c][n].delta <= 0
  /\ \A i \in Ingredient :
     /\ lines[c][i] = 0 \/ Now(c, i) => Rows(c, i) = {}
     /\ lines[c][i] > 0 /\ ~Now(c, i) => Drawn(c, i) = -lines[c][i]

ToUndo(c, i, amount) ==
  work[c] = <<Undo(i), Deduct(i, amount)>> /\ pending[c] = <<>> /\ lines[c][i] = 0
ToDeduct(c, i, amount) == work[c] = <<Deduct(i, amount)>> /\ Undone(c, i)
Corrected(c, i, amount) ==
  /\ work[c] = <<>> /\ lines[c][i] = amount
  /\ Net(own[c], i) + Drawn(c, i) = -amount
  /\ \A l \in Lot : NetOf(<<own[c], i>>, l) + DrawnFrom(c, i, l) <= 0
CorrectionAccount(c, i, amount) ==
  /\ \A n \in DOMAIN pending[c] : pending[c][n].line = <<own[c], i>>
  /\ actual_amount[own[c]][i] > 0
  /\ \A j \in Ingredient : j # i => lines[c][j] = 0
  /\ ToUndo(c, i, amount) \/ ToDeduct(c, i, amount) \/ Corrected(c, i, amount)

ReopeningAccount(c) ==
  /\ lines[c] = NoLines
  /\ \A n \in DOMAIN work[c] : work[c][n].kind = "reverse" /\ work[c][n].amount = 0
  /\ \A n, k \in DOMAIN work[c] : n # k => work[c][n].ingredient # work[c][k].ingredient
  /\ \A i \in Ingredient :
     /\ Rows(c, i) # {} => actual_amount[own[c]][i] > 0
     /\ i \in ToDo(c) => Rows(c, i) = {}
     /\ i \notin ToDo(c) => Undone(c, i)

CallAccount(c) ==
  Active(c) =>
    /\ Cooking(c) => CookingAccount(c)
    /\ request[c].op = Correct => CorrectionAccount(c, request[c].ingredient, request[c].amount)
    /\ request[c].op = Reopen => ReopeningAccount(c)
LineAccount(m, i) ==
  /\ meal_completion[m] = NoRow => actual_amount[m][i] = 0
  /\ actual_amount[m][i] = 0 => OfLine(inventory_movement, <<m, i>>) = {}
LineAccounts == \A m \in CompletionId, i \in Ingredient : LineAccount(m, i)
CallAccounts == \A c \in Call : CallAccount(c)

(***************************************************************************)
(* Induction.  A set of counterexamples has a least one.                   *)
(***************************************************************************)
LEMMA LeastNatural ==
  ASSUME NEW S \in SUBSET Nat, S # {}
  PROVE  \E n \in S : \A m \in S : n <= m
<1>1. PICK n \in S : \A m \in S : <<m, n>> \notin OpToRel(<, Nat)
  BY NatLessThanWellFounded, WFMin, Zenon
<1>2. \A m \in S : ~(m < n)
  BY <1>1 DEF OpToRel
<1> HIDE <1>1
<1> QED  BY <1>2

LEMMA NaturalsReached ==
  ASSUME NEW F, 0 \in F, \A n \in Nat : n \in F => n + 1 \in F
  PROVE  Nat \subseteq F
<1> SUFFICES ASSUME Nat \ F # {} PROVE FALSE
  OBVIOUS
<1>1. PICK n \in Nat \ F : \A m \in Nat \ F : n <= m
  BY LeastNatural
<1>2. n # 0 /\ n - 1 \in Nat /\ n - 1 \in F
  BY <1>1
<1> QED  BY <1>1, <1>2

\* A family of subsets of a finite set has a member that includes no other.
LEMMA SmallestSubset ==
  ASSUME NEW S, IsFiniteSet(S), NEW F \in SUBSET (SUBSET S), F # {}
  PROVE  \E T \in F : \A U \in SUBSET T : U # T => U \notin F
<1> DEFINE sizes == {Cardinality(T) : T \in F}
<1>1. \A T \in F : IsFiniteSet(T) /\ Cardinality(T) \in Nat
  BY FS_Subset, FS_CardinalityType
<1>2. PICK n \in sizes : \A m \in sizes : n <= m
  <2>1. sizes \in SUBSET Nat /\ sizes # {}
    BY <1>1
  <2> HIDE DEF sizes
  <2> QED  BY <2>1, LeastNatural
<1>3. PICK T \in F : Cardinality(T) = n
  BY <1>2
<1>4. ASSUME NEW U \in SUBSET T, U # T PROVE U \notin F
  <2>1. Cardinality(U) < Cardinality(T) 
    BY <1>1, <1>4, FS_Subset, FS_CardinalityType
  <2> QED  BY <1>1, <1>2, <1>3, <2>1
<1> QED  BY <1>4

LEMMA SubsetsReached ==
  ASSUME NEW S, IsFiniteSet(S), NEW F, {} \in F,
         \A T \in SUBSET S, x \in S : T \in F /\ x \notin T => T \cup {x} \in F
  PROVE  S \in F
<1> SUFFICES ASSUME S \notin F PROVE FALSE
  OBVIOUS
<1> DEFINE missed == {T \in SUBSET S : T \notin F}
<1>1. missed \in SUBSET (SUBSET S) /\ S \in missed
  OBVIOUS
<1>2. PICK T \in missed : \A U \in SUBSET T : U # T => U \notin missed
  <2> HIDE DEF missed
  <2> QED  BY <1>1, SmallestSubset
<1>3. PICK x \in T : TRUE
  <2>1. T # {}
    BY <1>2
  <2> QED  BY <2>1
<1>4. T \ {x} \in F /\ (T \ {x}) \cup {x} = T /\ x \in S /\ T \ {x} \in SUBSET S
  BY <1>2, <1>3
<1> QED  BY <1>2, <1>4

\* A function on the subsets of a finite set that is defined by taking one
\* element after another out of them.
Recursive(S, V, base, pick, g) ==
  /\ IsFiniteSet(S) /\ base \in V
  /\ \A T \in SUBSET S : T # {} => pick[T] \in T
  /\ \A x \in S, v \in V : g[<<x, v>>] \in V
RecursivelyDefined(f, S, V, base, pick, g) ==
  /\ f \in [SUBSET S -> V]
  /\ \A T \in SUBSET S : f[T] = IF T = {} THEN base ELSE g[<<pick[T], f[T \ {pick[T]}]>>]
LEMMA Recursion ==
  ASSUME NEW S, NEW V, NEW base, NEW pick, NEW g, Recursive(S, V, base, pick, g)
  PROVE  \E f : RecursivelyDefined(f, S, V, base, pick, g)
<1> USE DEF Recursive, RecursivelyDefined
<1> DEFINE Upto(n) == {T \in SUBSET S : Cardinality(T) <= n}
           Unfold(f, T) == IF T = {} THEN base ELSE g[<<pick[T], f[T \ {pick[T]}]>>]
           Defined == {n \in Nat : \E f \in [Upto(n) -> V] : \A T \in Upto(n) : f[T] = Unfold(f, T)}
<1>1. \A T \in SUBSET S : IsFiniteSet(T) /\ Cardinality(T) \in Nat /\ Cardinality(T) <= Cardinality(S)
  BY FS_Subset, FS_CardinalityType
<1>2. \A T \in SUBSET S : T # {} =>
         T \ {pick[T]} \in SUBSET S /\ Cardinality(T \ {pick[T]}) = Cardinality(T) - 1
  BY <1>1, FS_RemoveElement
<1>3. \A T \in SUBSET S : Cardinality(T) = 0 <=> T = {}
  BY <1>1, FS_EmptySet
<1>4. 0 \in Defined
  <2> DEFINE f == [T \in Upto(0) |-> base]
  <2>1. \A T \in Upto(0) : T = {}
    BY <1>1, <1>3
  <2>2. f \in [Upto(0) -> V] /\ \A T \in Upto(0) : f[T] = Unfold(f, T)
    BY <2>1
  <2> QED  BY <2>2
<1>5. ASSUME NEW n \in Nat, n \in Defined PROVE n + 1 \in Defined
  <2>1. PICK f \in [Upto(n) -> V] : \A T \in Upto(n) : f[T] = Unfold(f, T)
    BY <1>5
  <2> DEFINE h == [T \in Upto(n + 1) |-> Unfold(f, T)]
  <2>2. \A T \in Upto(n + 1) : T # {} => T \ {pick[T]} \in Upto(n) /\ T \ {pick[T]} \in Upto(n + 1)
    BY <1>1, <1>2
  <2>3. \A T \in Upto(n) : T \in Upto(n + 1) /\ h[T] = f[T]
    BY <1>1, <2>1
  <2>4. h \in [Upto(n + 1) -> V]
    BY <2>2
  <2>5. \A T \in Upto(n + 1) : h[T] = Unfold(h, T)
    BY <2>2, <2>3
  <2> HIDE DEF h
  <2>6. \E k \in [Upto(n + 1) -> V] : \A T \in Upto(n + 1) : k[T] = Unfold(k, T)
    BY <2>4, <2>5
  <2> HIDE DEF Upto, Unfold
  <2>7. n + 1 \in Nat
    OBVIOUS
  <2> QED  BY <2>6, <2>7
<1> HIDE DEF Defined
<1>6. Cardinality(S) \in Defined
  BY <1>1, <1>4, <1>5, NaturalsReached
<1>7. Upto(Cardinality(S)) = SUBSET S
  BY <1>1
<1> QED  BY <1>6, <1>7 DEF Defined

(***************************************************************************)
(* Sums of deltas.                                                         *)
(***************************************************************************)
Pick(S) == CHOOSE x \in S : TRUE
SumRec(t, S, f) ==
  f = [T \in SUBSET S |-> IF T = {} THEN 0 ELSE t[Pick(T)].delta + f[T \ {Pick(T)}]]

LEMMA SumChosen ==
  ASSUME NEW t, NEW S, NEW g, SumRec(t, S, g)
  PROVE  \E f : SumRec(t, S, f) /\ SumOfDeltas(t, S) = f[S]
BY DEF SumOfDeltas, MapThenSumSet, MapThenFoldSet, SumRec, Pick

LEMMA SumExists ==
  ASSUME NEW t, NEW S, IsFiniteSet(S), \A x \in S : t[x].delta \in Int
  PROVE  \E f \in [SUBSET S -> Int] : SumRec(t, S, f)
<1> DEFINE pick == [T \in SUBSET S |-> Pick(T)]
           g == [p \in S \X Int |-> t[p[1]].delta + p[2]]
<1>1. \A T \in SUBSET S : T # {} => pick[T] \in T /\ pick[T] = Pick(T)
  BY DEF Pick
<1>2. \A x \in S, v \in Int : g[<<x, v>>] = t[x].delta + v
  OBVIOUS
<1>2a. \A x \in S, v \in Int : g[<<x, v>>] \in Int
  OBVIOUS
<1>2b. \A T \in SUBSET S : T # {} => pick[T] \in T
  BY <1>1
<1>2c. 0 \in Int
  OBVIOUS
<1>3. PICK f \in [SUBSET S -> Int] : \A T \in SUBSET S :
        f[T] = IF T = {} THEN 0 ELSE g[<<pick[T], f[T \ {pick[T]}]>>]
  <2>1. Recursive(S, Int, 0, pick, g)
    <3> HIDE DEF pick, g
    <3> QED  BY <1>2a, <1>2b, <1>2c DEF Recursive
  <2> HIDE DEF pick, g
  <2>2. PICK f : RecursivelyDefined(f, S, Int, 0, pick, g)
    BY <2>1, Recursion
  <2> QED  BY <2>2 DEF RecursivelyDefined
<1>4. \A T \in SUBSET S : T # {} => f[T] = t[Pick(T)].delta + f[T \ {Pick(T)}]
  <2> SUFFICES ASSUME NEW T \in SUBSET S, T # {} PROVE f[T] = t[Pick(T)].delta + f[T \ {Pick(T)}]
    OBVIOUS
  <2>1. f[T \ {Pick(T)}] \in Int /\ Pick(T) \in S
    BY <1>1
  <2> HIDE DEF pick, g
  <2> QED  BY <1>1, <1>2, <1>3, <2>1
<1>5. f = [T \in SUBSET S |-> IF T = {} THEN 0 ELSE t[Pick(T)].delta + f[T \ {Pick(T)}]]
  BY <1>3, <1>4
<1> QED  BY <1>5 DEF SumRec

LEMMA SumRecAgrees ==
  ASSUME NEW t, NEW S, IsFiniteSet(S), NEW R \in SUBSET S, NEW f, NEW g,
         SumRec(t, S, f), SumRec(t, R, g)
  PROVE  g[R] = f[R]
<1> DEFINE F == {T \in SUBSET R : g[T] # f[T]}
<1> SUFFICES ASSUME F # {} PROVE FALSE
  OBVIOUS
<1>1. IsFiniteSet(R) /\ F \in SUBSET (SUBSET R)
  BY FS_Subset
<1>2. PICK T \in F : \A U \in SUBSET T : U # T => U \notin F
  <2> HIDE DEF F
  <2> QED  BY <1>1, SmallestSubset
<1>3. T # {}
  BY DEF SumRec
<1>4. Pick(T) \in T
  BY <1>3 DEF Pick
<1>5. g[T \ {Pick(T)}] = f[T \ {Pick(T)}]
  BY <1>2, <1>4
<1>6. g[T] = t[Pick(T)].delta + g[T \ {Pick(T)}]
  BY <1>2, <1>3 DEF SumRec
<1>7. T \in SUBSET S
  BY <1>2
<1>8. f[T] = t[Pick(T)].delta + f[T \ {Pick(T)}]
  BY <1>3, <1>7 DEF SumRec
<1> QED  BY <1>2, <1>5, <1>6, <1>8

LEMMA SumUnfolds ==
  ASSUME NEW t, NEW S, IsFiniteSet(S), \A x \in S : t[x].delta \in Int
  PROVE  /\ SumOfDeltas(t, S) \in Int
         /\ S = {} => SumOfDeltas(t, S) = 0
         /\ S # {} => /\ Pick(S) \in S
                      /\ SumOfDeltas(t, S) = t[Pick(S)].delta + SumOfDeltas(t, S \ {Pick(S)})
<1>1. PICK f \in [SUBSET S -> Int] : SumRec(t, S, f)
  BY SumExists
<1>2. \A R \in SUBSET S : SumOfDeltas(t, R) = f[R]
  <2> SUFFICES ASSUME NEW R \in SUBSET S PROVE SumOfDeltas(t, R) = f[R]
    OBVIOUS
  <2>1. IsFiniteSet(R)
    BY FS_Subset
  <2>2. PICK g : SumRec(t, R, g)
    BY <2>1, SumExists
  <2>3. PICK h : SumRec(t, R, h) /\ SumOfDeltas(t, R) = h[R]
    BY <2>2, SumChosen
  <2> QED  BY <1>1, <2>3, SumRecAgrees
<1>3. S # {} => Pick(S) \in S
  BY DEF Pick
<1>4. S # {} => f[S] = t[Pick(S)].delta + f[S \ {Pick(S)}]
  BY <1>1 DEF SumRec
<1>5. S = {} => f[S] = 0
  BY <1>1 DEF SumRec
<1> QED  BY <1>1, <1>2, <1>3, <1>4, <1>5

LEMMA SumType ==
  ASSUME NEW t, NEW S, IsFiniteSet(S), \A x \in S : t[x].delta \in Int
  PROVE  SumOfDeltas(t, S) \in Int
BY SumUnfolds

LEMMA SumEmpty ==
  ASSUME NEW t
  PROVE  SumOfDeltas(t, {}) = 0
BY SumUnfolds, FS_EmptySet

\* The order in which the rows are added up does not matter.
LEMMA SumWithout ==
  ASSUME NEW t, NEW S, IsFiniteSet(S), \A x \in S : t[x].delta \in Int, NEW y \in S
  PROVE  SumOfDeltas(t, S) = t[y].delta + SumOfDeltas(t, S \ {y})
<1> DEFINE F == {T \in SUBSET S : \E x \in T :
                   SumOfDeltas(t, T) # t[x].delta + SumOfDeltas(t, T \ {x})}
<1> SUFFICES ASSUME F # {} PROVE FALSE
  OBVIOUS
<1>1. PICK T \in F : \A U \in SUBSET T : U # T => U \notin F
  <2>1. F \in SUBSET (SUBSET S)
    OBVIOUS
  <2> HIDE DEF F
  <2> QED  BY <2>1, SmallestSubset
<1>2. PICK x \in T : SumOfDeltas(t, T) # t[x].delta + SumOfDeltas(t, T \ {x})
  BY <1>1
<1> DEFINE p == Pick(T)
<1>3. \A U \in SUBSET S : /\ IsFiniteSet(U) /\ SumOfDeltas(t, U) \in Int
                          /\ U # {} => /\ Pick(U) \in U
                                       /\ SumOfDeltas(t, U) = t[Pick(U)].delta + SumOfDeltas(t, U \ {Pick(U)})
  BY SumUnfolds, FS_Subset
<1>4. p \in T /\ SumOfDeltas(t, T) = t[p].delta + SumOfDeltas(t, T \ {p})
  BY <1>3
<1>5. p # x
  BY <1>2, <1>4
<1>6. T \ {p} \in SUBSET T /\ T \ {x} \in SUBSET T /\ T \ {p} \notin F /\ T \ {x} \notin F
  BY <1>1, <1>2, <1>4
<1>7. SumOfDeltas(t, T \ {p}) = t[x].delta + SumOfDeltas(t, (T \ {p}) \ {x})
  BY <1>5, <1>6, <1>2
<1>8. SumOfDeltas(t, T \ {x}) = t[p].delta + SumOfDeltas(t, (T \ {x}) \ {p})
  BY <1>5, <1>6, <1>4
<1>9. (T \ {x}) \ {p} = (T \ {p}) \ {x} /\ (T \ {x}) \ {p} \in SUBSET S
  BY <1>1
<1>10. t[x].delta \in Int /\ t[p].delta \in Int /\ SumOfDeltas(t, (T \ {x}) \ {p}) \in Int
  BY <1>1, <1>2, <1>3, <1>4, <1>9
<1>11. SumOfDeltas(t, (T \ {x}) \ {p}) = SumOfDeltas(t, (T \ {p}) \ {x})
  BY <1>9, Zenon
<1> HIDE DEF p, F
<1> QED  BY <1>2, <1>4, <1>7, <1>8, <1>10, <1>11

LEMMA SumAdd ==
  ASSUME NEW t, NEW S, IsFiniteSet(S), NEW y, y \notin S,
         \A x \in S \cup {y} : t[x].delta \in Int
  PROVE  SumOfDeltas(t, S \cup {y}) = SumOfDeltas(t, S) + t[y].delta
<1>1. IsFiniteSet(S \cup {y})
  BY FS_AddElement
<1>2. (S \cup {y}) \ {y} = S
  OBVIOUS
<1>3. SumOfDeltas(t, S \cup {y}) = t[y].delta + SumOfDeltas(t, S)
  BY <1>1, <1>2, SumWithout
<1> QED  BY <1>3, SumType

\* A sum depends on the deltas of its rows only, wherever they stand.
LEMMA SumMoved ==
  ASSUME NEW t, NEW u, NEW S, IsFiniteSet(S), NEW at,
         \A x, y \in S : at[x] = at[y] => x = y,
         \A x \in S : t[x].delta \in Int /\ u[at[x]].delta = t[x].delta
  PROVE  SumOfDeltas(u, {at[x] : x \in S}) = SumOfDeltas(t, S)
<1> DEFINE image(T) == {at[x] : x \in T}
           F == {T \in SUBSET S : IsFiniteSet(image(T)) /\ SumOfDeltas(u, image(T)) = SumOfDeltas(t, T)}
<1>1. {} \in F
  BY SumEmpty, FS_EmptySet
<1>2. ASSUME NEW T \in SUBSET S, NEW x \in S, T \in F, x \notin T PROVE T \cup {x} \in F
  <2>1. image(T \cup {x}) = image(T) \cup {at[x]} /\ at[x] \notin image(T) /\ IsFiniteSet(T)
    BY <1>2, FS_Subset
  <2>2. IsFiniteSet(image(T)) /\ SumOfDeltas(u, image(T)) = SumOfDeltas(t, T)
    BY <1>2
  <2>3. \A y \in image(T) \cup {at[x]} : u[y].delta \in Int
    OBVIOUS
  <2>4. \A y \in T \cup {x} : t[y].delta \in Int
    OBVIOUS
  <2>5. IsFiniteSet(image(T) \cup {at[x]})
    BY <2>2, FS_AddElement
  <2>6. SumOfDeltas(u, image(T) \cup {at[x]}) = SumOfDeltas(u, image(T)) + u[at[x]].delta
    <3> HIDE DEF image
    <3> QED  BY <2>1, <2>2, <2>3, SumAdd
  <2>7. SumOfDeltas(t, T \cup {x}) = SumOfDeltas(t, T) + t[x].delta
    BY <1>2, <2>1, <2>4, SumAdd
  <2> HIDE DEF image
  <2> QED  BY <1>2, <2>1, <2>2, <2>5, <2>6, <2>7
<1>3. S \in F
  <2> HIDE DEF F
  <2> QED  BY <1>1, <1>2, SubsetsReached
<1> QED  BY <1>3

LEMMA SumSame ==
  ASSUME NEW t, NEW u, NEW S, IsFiniteSet(S),
         \A x \in S : t[x].delta \in Int /\ u[x].delta = t[x].delta
  PROVE  SumOfDeltas(u, S) = SumOfDeltas(t, S)
<1> DEFINE at == [x \in S |-> x]
<1>1. {at[x] : x \in S} = S
  OBVIOUS
<1>2. \A x \in S : at[x] = x
  OBVIOUS
<1> HIDE DEF at
<1>3. SumOfDeltas(u, {at[x] : x \in S}) = SumOfDeltas(t, S)
  BY <1>2, SumMoved
<1> QED  BY <1>1, <1>3

LEMMA SumUnion ==
  ASSUME NEW t, NEW S, IsFiniteSet(S), NEW R, IsFiniteSet(R), S \cap R = {},
         \A x \in S \cup R : t[x].delta \in Int
  PROVE  SumOfDeltas(t, S \cup R) = SumOfDeltas(t, S) + SumOfDeltas(t, R)
<1> DEFINE F == {T \in SUBSET R : IsFiniteSet(S \cup T) /\
                   SumOfDeltas(t, S \cup T) = SumOfDeltas(t, S) + SumOfDeltas(t, T)}
<1>0. SumOfDeltas(t, S) \in Int
  BY SumType
<1>1. {} \in F
  <2>1. S \cup {} = S
    OBVIOUS
  <2> QED  BY <1>0, <2>1, SumEmpty
<1>2. ASSUME NEW T \in SUBSET R, NEW x \in R, T \in F, x \notin T PROVE T \cup {x} \in F
  <2>1. S \cup (T \cup {x}) = (S \cup T) \cup {x} /\ x \notin S \cup T
    BY <1>2
  <2>2. IsFiniteSet(S \cup T) /\ IsFiniteSet(T) /\ IsFiniteSet((S \cup T) \cup {x})
    BY <1>2, FS_Subset, FS_AddElement
  <2>3. SumOfDeltas(t, (S \cup T) \cup {x}) = SumOfDeltas(t, S \cup T) + t[x].delta
    BY <2>1, <2>2, SumAdd
  <2>4. SumOfDeltas(t, T \cup {x}) = SumOfDeltas(t, T) + t[x].delta
    BY <1>2, <2>2, SumAdd
  <2>5. SumOfDeltas(t, T) \in Int
    BY <2>2, SumType
  <2>6. SumOfDeltas(t, S \cup (T \cup {x})) = SumOfDeltas(t, (S \cup T) \cup {x})
        /\ IsFiniteSet(S \cup (T \cup {x}))
    BY <2>1, <2>2, Zenon
  <2> QED  BY <1>0, <1>2, <2>3, <2>4, <2>5, <2>6
<1>3. R \in F
  <2> HIDE DEF F
  <2> QED  BY <1>1, <1>2, SubsetsReached
<1> QED  BY <1>3

LEMMA SumSign ==
  ASSUME NEW t, NEW S, IsFiniteSet(S), \A x \in S : t[x].delta \in Int /\ t[x].delta <= 0
  PROVE  SumOfDeltas(t, S) <= 0
<1> DEFINE F == {T \in SUBSET S : SumOfDeltas(t, T) <= 0}
<1>1. {} \in F
  BY SumEmpty
<1>2. ASSUME NEW T \in SUBSET S, NEW x \in S, T \in F, x \notin T PROVE T \cup {x} \in F
  <2>1. IsFiniteSet(T) /\ SumOfDeltas(t, T) \in Int
    BY FS_Subset, SumType
  <2>2. SumOfDeltas(t, T \cup {x}) = SumOfDeltas(t, T) + t[x].delta
    BY <1>2, <2>1, SumAdd
  <2> QED  BY <1>2, <2>1, <2>2
<1>3. S \in F
  <2> HIDE DEF F
  <2> QED  BY <1>1, <1>2, SubsetsReached
<1> QED  BY <1>3

\* What balances on every lot balances altogether.
LEMMA SumByLot ==
  ASSUME NEW t, NEW S, IsFiniteSet(S), \A x \in S : t[x].delta \in Int,
         NEW L, IsFiniteSet(L), \A x \in S : t[x].lot \in L,
         \A l \in L : SumOfDeltas(t, {x \in S : t[x].lot = l}) = 0
  PROVE  SumOfDeltas(t, S) = 0
<1> DEFINE on(T) == {x \in S : t[x].lot \in T}
           F == {T \in SUBSET L : SumOfDeltas(t, on(T)) = 0}
<1>1. {} \in F
  BY SumEmpty
<1>2. ASSUME NEW T \in SUBSET L, NEW l \in L, T \in F, l \notin T PROVE T \cup {l} \in F
  <2> DEFINE new == {x \in S : t[x].lot = l}
  <2>1. on(T \cup {l}) = on(T) \cup new /\ on(T) \cap new = {}
    BY <1>2
  <2>2. IsFiniteSet(on(T)) /\ IsFiniteSet(new)
    BY FS_Subset
  <2>3. \A x \in on(T) \cup new : t[x].delta \in Int
    OBVIOUS
  <2>4. SumOfDeltas(t, on(T)) = 0 /\ SumOfDeltas(t, new) = 0
    BY <1>2
  <2>5. SumOfDeltas(t, on(T) \cup new) = SumOfDeltas(t, on(T)) + SumOfDeltas(t, new)
    <3> HIDE DEF on, new
    <3> QED  BY <2>1, <2>2, <2>3, SumUnion
  <2> HIDE DEF on, new
  <2>6. SumOfDeltas(t, on(T \cup {l})) = SumOfDeltas(t, on(T) \cup new)
    BY <2>1, Zenon
  <2> QED  BY <1>2, <2>4, <2>5, <2>6
<1>3. L \in F
  <2> HIDE DEF F
  <2> QED  BY <1>1, <1>2, SubsetsReached
<1>4. on(L) = S
  OBVIOUS
<1> QED  BY <1>3, <1>4

(***************************************************************************)
(* Movement tables.                                                        *)
(***************************************************************************)
Table(t) == t \in Seq(AnyMovement)

LEMMA TableRows ==
  ASSUME NEW t, Table(t)
  PROVE  /\ DOMAIN t = 1..Len(t) /\ Len(t) \in Nat
         /\ \A i \in DOMAIN t : t[i] \in AnyMovement
         /\ \A i \in DOMAIN t : t[i].delta \in Int /\ t[i].lot \in Lot /\ t[i].result \in Int
         /\ IsFiniteSet(DOMAIN t)
         /\ \A R \in SUBSET DOMAIN t : IsFiniteSet(R) /\ SumOfDeltas(t, R) \in Int
<1>1. DOMAIN t = 1..Len(t) /\ Len(t) \in Nat /\ \A i \in DOMAIN t : t[i] \in AnyMovement
  BY DEF Table
<1>2. \A i \in DOMAIN t : t[i].delta \in Int /\ t[i].lot \in Lot /\ t[i].result \in Int
  BY <1>1 DEF AnyMovement
<1>3. IsFiniteSet(DOMAIN t)
  BY <1>1, FS_Interval, 0 \in Int, 1 \in Int
<1>4. \A R \in SUBSET DOMAIN t : IsFiniteSet(R)
  BY <1>3, FS_Subset
<1>5. ASSUME NEW R \in SUBSET DOMAIN t PROVE SumOfDeltas(t, R) \in Int
  BY <1>2, <1>4, SumType
<1> QED  BY <1>1, <1>2, <1>3, <1>4, <1>5

LEMMA TableOf ==
  ASSUME NEW n \in Nat, NEW t, t = [i \in 1..n |-> t[i]], \A i \in 1..n : t[i] \in AnyMovement
  PROVE  Table(t)
BY DEF Table

Moved(t, R) == {Len(t) + k : k \in R}

LEMMA Concatenated ==
  ASSUME NEW t, Table(t), NEW p, Table(p)
  PROVE  /\ Table(t \o p) /\ Len(t \o p) = Len(t) + Len(p)
         /\ \A i \in DOMAIN t : i \in DOMAIN (t \o p) /\ (t \o p)[i] = t[i]
         /\ \A k \in DOMAIN p : Len(t) + k \in DOMAIN (t \o p) /\ (t \o p)[Len(t) + k] = p[k]
         /\ \A i \in DOMAIN (t \o p) : i \in DOMAIN t \/ (i - Len(t) \in DOMAIN p /\ i = Len(t) + (i - Len(t)))
         /\ \A k \in DOMAIN p : Len(t) + k \notin DOMAIN t
BY DEF Table

LEMMA SumConcatenated ==
  ASSUME NEW t, Table(t), NEW p, Table(p),
         NEW T \in SUBSET DOMAIN t, NEW R \in SUBSET DOMAIN p
  PROVE  SumOfDeltas(t \o p, T \cup Moved(t, R)) = SumOfDeltas(t, T) + SumOfDeltas(p, R)
<1> DEFINE all == t \o p
<1>1. /\ Table(all)
      /\ \A i \in DOMAIN t : i \in DOMAIN all /\ all[i] = t[i]
      /\ \A k \in DOMAIN p : Len(t) + k \in DOMAIN all /\ all[Len(t) + k] = p[k] /\ Len(t) + k \notin DOMAIN t
  <2>1. Table(all) /\ \A i \in DOMAIN t : i \in DOMAIN all /\ all[i] = t[i]
    BY Concatenated, Zenon
  <2>2. \A k \in DOMAIN p : Len(t) + k \in DOMAIN all /\ all[Len(t) + k] = p[k]
    BY Concatenated, Zenon
  <2>3. \A k \in DOMAIN p : Len(t) + k \notin DOMAIN t
    BY Concatenated, Zenon
  <2> QED  BY <2>1, <2>2, <2>3, Zenon
<1>2. /\ \A i \in DOMAIN all : all[i].delta \in Int
      /\ \A S \in SUBSET DOMAIN all : IsFiniteSet(S)
  BY <1>1, TableRows
<1>3. /\ \A i \in DOMAIN t : t[i].delta \in Int
      /\ IsFiniteSet(T) /\ IsFiniteSet(R)
      /\ \A i \in DOMAIN p : p[i].delta \in Int
  BY TableRows
<1>4. Moved(t, R) \in SUBSET DOMAIN all /\ T \in SUBSET DOMAIN all /\ T \cap Moved(t, R) = {}
  BY <1>1 DEF Moved
<1>5. SumOfDeltas(all, T) = SumOfDeltas(t, T)
  <2> HIDE DEF all
  <2> QED  BY <1>1, <1>3, SumSame
<1>6. SumOfDeltas(all, Moved(t, R)) = SumOfDeltas(p, R)
  <2> DEFINE at == [k \in R |-> Len(t) + k]
  <2>0. Len(t) \in Int /\ \A k \in R : k \in Int
    BY TableRows
  <2>1. \A x, y \in R : at[x] = at[y] => x = y
    BY <2>0
  <2>2. \A x \in R : p[x].delta \in Int /\ all[at[x]].delta = p[x].delta
    BY <1>1, <1>3
  <2>3. {at[x] : x \in R} = Moved(t, R)
    BY DEF Moved
  <2> HIDE DEF all, at
  <2>4. SumOfDeltas(all, {at[x] : x \in R}) = SumOfDeltas(p, R)
    BY <1>3, <2>1, <2>2, SumMoved
  <2> QED  BY <2>3, <2>4
<1>7. SumOfDeltas(all, T \cup Moved(t, R)) = SumOfDeltas(all, T) + SumOfDeltas(all, Moved(t, R))
  <2> HIDE DEF all
  <2>1. IsFiniteSet(T) /\ IsFiniteSet(Moved(t, R)) /\ \A x \in T \cup Moved(t, R) : all[x].delta \in Int
    BY <1>2, <1>4
  <2> QED  BY <1>4, <2>1, SumUnion
<1> QED  BY <1>5, <1>6, <1>7

\* The rows of a lot and of a line in a table that was added to.
LEMMA RowsConcatenated ==
  ASSUME NEW t, Table(t), NEW p, Table(p), NEW l, NEW line
  PROVE  /\ OfLot(t \o p, l) = OfLot(t, l) \cup Moved(t, OfLot(p, l))
         /\ OfLine(t \o p, line) = OfLine(t, line) \cup Moved(t, OfLine(p, line))
         /\ OfLineOnLot(t \o p, line, l)
              = OfLineOnLot(t, line, l) \cup Moved(t, OfLineOnLot(p, line, l))
<1>1. /\ \A i \in DOMAIN t : i \in DOMAIN (t \o p) /\ (t \o p)[i] = t[i]
      /\ \A k \in DOMAIN p : Len(t) + k \in DOMAIN (t \o p) /\ (t \o p)[Len(t) + k] = p[k]
      /\ \A i \in DOMAIN (t \o p) : i \in DOMAIN t \/ (i - Len(t) \in DOMAIN p /\ i = Len(t) + (i - Len(t)))
  BY Concatenated
<1> DEFINE all == t \o p
<1> HIDE DEF all
<1>2. OfLot(all, l) = OfLot(t, l) \cup Moved(t, OfLot(p, l))
  BY <1>1 DEF all, OfLot, Moved
<1>3. OfLine(all, line) = OfLine(t, line) \cup Moved(t, OfLine(p, line))
  BY <1>1 DEF all, OfLine, Moved
<1>4. OfLineOnLot(all, line, l) = OfLineOnLot(t, line, l) \cup Moved(t, OfLineOnLot(p, line, l))
  BY <1>1 DEF all, OfLineOnLot, OfLine, OfLot, Moved
<1> QED  BY <1>2, <1>3, <1>4 DEF all

LEMMA SumsConcatenated ==
  ASSUME NEW t, Table(t), NEW p, Table(p), NEW l, NEW line
  PROVE  /\ SumOfDeltas(t \o p, OfLot(t \o p, l))
              = SumOfDeltas(t, OfLot(t, l)) + SumOfDeltas(p, OfLot(p, l))
         /\ SumOfDeltas(t \o p, OfLine(t \o p, line))
              = SumOfDeltas(t, OfLine(t, line)) + SumOfDeltas(p, OfLine(p, line))
         /\ SumOfDeltas(t \o p, OfLineOnLot(t \o p, line, l))
              = SumOfDeltas(t, OfLineOnLot(t, line, l)) + SumOfDeltas(p, OfLineOnLot(p, line, l))
<1>1. /\ OfLot(t, l) \in SUBSET DOMAIN t /\ OfLot(p, l) \in SUBSET DOMAIN p
      /\ OfLine(t, line) \in SUBSET DOMAIN t /\ OfLine(p, line) \in SUBSET DOMAIN p
      /\ OfLineOnLot(t, line, l) \in SUBSET DOMAIN t /\ OfLineOnLot(p, line, l) \in SUBSET DOMAIN p
  BY DEF OfLot, OfLine, OfLineOnLot
<1>2. /\ SumOfDeltas(t \o p, OfLot(t \o p, l)) = SumOfDeltas(t \o p, OfLot(t, l) \cup Moved(t, OfLot(p, l)))
      /\ SumOfDeltas(t \o p, OfLine(t \o p, line))
            = SumOfDeltas(t \o p, OfLine(t, line) \cup Moved(t, OfLine(p, line)))
      /\ SumOfDeltas(t \o p, OfLineOnLot(t \o p, line, l))
            = SumOfDeltas(t \o p, OfLineOnLot(t, line, l) \cup Moved(t, OfLineOnLot(p, line, l)))
  <2>1. /\ OfLot(t \o p, l) = OfLot(t, l) \cup Moved(t, OfLot(p, l))
        /\ OfLine(t \o p, line) = OfLine(t, line) \cup Moved(t, OfLine(p, line))
        /\ OfLineOnLot(t \o p, line, l)
              = OfLineOnLot(t, line, l) \cup Moved(t, OfLineOnLot(p, line, l))
    BY RowsConcatenated
  <2> QED  BY <2>1, Zenon
<1>3. /\ SumOfDeltas(t \o p, OfLot(t, l) \cup Moved(t, OfLot(p, l)))
           = SumOfDeltas(t, OfLot(t, l)) + SumOfDeltas(p, OfLot(p, l))
      /\ SumOfDeltas(t \o p, OfLine(t, line) \cup Moved(t, OfLine(p, line)))
           = SumOfDeltas(t, OfLine(t, line)) + SumOfDeltas(p, OfLine(p, line))
      /\ SumOfDeltas(t \o p, OfLineOnLot(t, line, l) \cup Moved(t, OfLineOnLot(p, line, l)))
           = SumOfDeltas(t, OfLineOnLot(t, line, l)) + SumOfDeltas(p, OfLineOnLot(p, line, l))
  <2>1. \A T \in SUBSET DOMAIN t, R \in SUBSET DOMAIN p :
          SumOfDeltas(t \o p, T \cup Moved(t, R)) = SumOfDeltas(t, T) + SumOfDeltas(p, R)
    BY SumConcatenated
  <2> QED  BY <1>1, <2>1, Zenon
<1> QED  BY <1>2, <1>3, Zenon

LEMMA SumsTyped ==
  ASSUME NEW t, Table(t), NEW l, NEW line
  PROVE  /\ SumOfDeltas(t, OfLot(t, l)) \in Int /\ SumOfDeltas(t, OfLine(t, line)) \in Int
         /\ SumOfDeltas(t, OfLineOnLot(t, line, l)) \in Int
         /\ OfLot(t, l) = {} => SumOfDeltas(t, OfLot(t, l)) = 0
         /\ OfLine(t, line) = {} => /\ SumOfDeltas(t, OfLine(t, line)) = 0
                                    /\ SumOfDeltas(t, OfLineOnLot(t, line, l)) = 0
         /\ OfLineOnLot(t, line, l) = {} => SumOfDeltas(t, OfLineOnLot(t, line, l)) = 0
<1>1. /\ OfLot(t, l) \in SUBSET DOMAIN t /\ OfLine(t, line) \in SUBSET DOMAIN t
      /\ OfLineOnLot(t, line, l) \in SUBSET DOMAIN t
      /\ OfLine(t, line) = {} => OfLineOnLot(t, line, l) = {}
  BY DEF OfLot, OfLine, OfLineOnLot
<1>2. SumOfDeltas(t, {}) = 0
  BY SumEmpty
<1>3. /\ SumOfDeltas(t, OfLot(t, l)) \in Int /\ SumOfDeltas(t, OfLine(t, line)) \in Int
      /\ SumOfDeltas(t, OfLineOnLot(t, line, l)) \in Int
  BY <1>1, TableRows
<1> QED  BY <1>1, <1>2, <1>3, Zenon

LEMMA EmptyTable ==
  /\ Table(<<>>)
  /\ \A l : OfLot(<<>>, l) = {}
  /\ \A line : OfLine(<<>>, line) = {}
  /\ \A line, l : OfLineOnLot(<<>>, line, l) = {}
BY DEF Table, OfLot, OfLine, OfLineOnLot

\* A line that balances on every lot sums to nothing.
LEMMA LineBalances ==
  ASSUME NEW t, Table(t), NEW line,
         \A l \in Lot : SumOfDeltas(t, OfLineOnLot(t, line, l)) = 0
  PROVE  SumOfDeltas(t, OfLine(t, line)) = 0
<1> DEFINE S == OfLine(t, line)
<1>1. S \in SUBSET DOMAIN t
  BY DEF OfLine
<1>2. IsFiniteSet(S) /\ (\A x \in S : t[x].delta \in Int /\ t[x].lot \in Lot)
  BY <1>1, TableRows
<1>3. \A l \in Lot : OfLineOnLot(t, line, l) = {x \in S : t[x].lot = l}
  BY <1>1 DEF OfLineOnLot, OfLot
<1>4. \A l \in Lot : SumOfDeltas(t, {x \in S : t[x].lot = l}) = 0
  <2> SUFFICES ASSUME NEW l \in Lot PROVE SumOfDeltas(t, {x \in S : t[x].lot = l}) = 0
    OBVIOUS
  <2>1. OfLineOnLot(t, line, l) = {x \in S : t[x].lot = l}
    BY <1>3
  <2>2. SumOfDeltas(t, OfLineOnLot(t, line, l)) = 0
    OBVIOUS
  <2> HIDE DEF S
  <2> QED  BY <2>1, <2>2, Zenon
<1>5. IsFiniteSet(Lot)
  BY CompletionAssumption
<1> HIDE DEF S
<1>6. SumOfDeltas(t, S) = 0
  BY <1>2, <1>4, <1>5, SumByLot
<1> QED  BY <1>6 DEF S

(***************************************************************************)
(* Sorting.                                                                *)
(***************************************************************************)
TotalOrder(S, R) ==
  /\ \A x, y \in S : x # y => <<x, y>> \in R \/ <<y, x>> \in R
  /\ \A x, y, z \in S : <<x, y>> \in R /\ <<y, z>> \in R => <<x, z>> \in R
InOrder(s, R) == \A i, j \in DOMAIN s : i < j => <<s[i], s[j]>> \in R

LEMMA EnumerationProperties ==
  ASSUME NEW S, IsFiniteSet(S), NEW s \in SetToSeqs(S)
  PROVE  /\ s \in Seq(S) /\ Len(s) = Cardinality(S) /\ DOMAIN s = 1..Len(s) /\ Len(s) \in Nat
         /\ \A i, j \in DOMAIN s : s[i] = s[j] => i = j
         /\ \A i \in DOMAIN s : s[i] \in S
         /\ \A x \in S : \E i \in DOMAIN s : s[i] = x
<1> DEFINE n == Cardinality(S)
<1>1. n \in Nat
  BY FS_CardinalityType
<1>2. s \in [1..n -> S] /\ \A i, j \in 1..n : i # j => s[i] # s[j]
  BY DEF SetToSeqs
<1>3. s \in Seq(S) /\ Len(s) = n /\ DOMAIN s = 1..n
  BY <1>1, <1>2
<1>4. ASSUME NEW x \in S, \A i \in 1..n : s[i] # x PROVE FALSE
  <2>1. IsFiniteSet(S \ {x}) /\ Cardinality(S \ {x}) = n - 1
    BY FS_RemoveElement
  <2>2. IsFiniteSet(1..n) /\ Cardinality(1..n) = n
    BY <1>1, FS_Interval
  <2>3. s \in [1..n -> S \ {x}]
    BY <1>2, <1>4
  <2>4. Cardinality(S \ {x}) < Cardinality(1..n)
    BY <1>1, <2>1, <2>2
  <2> HIDE DEF n
  <2>5. \E i, j \in 1..n : i # j /\ s[i] = s[j]
    BY <2>1, <2>2, <2>3, <2>4, FS_PigeonHole
  <2> QED  BY <1>2, <2>5
<1> QED  BY <1>1, <1>2, <1>3, <1>4

LEMMA Greatest ==
  ASSUME NEW S, IsFiniteSet(S), NEW R, TotalOrder(S, R), S # {}
  PROVE  \E g \in S : \A y \in S : y = g \/ <<y, g>> \in R
<1> DEFINE F == {T \in SUBSET S : T = {} \/ \E g \in T : \A y \in T : y = g \/ <<y, g>> \in R}
<1>1. {} \in F
  OBVIOUS
<1>2. ASSUME NEW T \in SUBSET S, NEW x \in S, T \in F, x \notin T PROVE T \cup {x} \in F
  <2>1. CASE T = {}
    BY <2>1
  <2>2. CASE T # {}
    <3>1. PICK g \in T : \A y \in T : y = g \/ <<y, g>> \in R
      BY <1>2, <2>2
    <3>2. CASE <<g, x>> \in R
      BY <3>1, <3>2 DEF TotalOrder
    <3>3. CASE <<x, g>> \in R
      BY <3>1, <3>3
    <3> QED  BY <1>2, <3>1, <3>2, <3>3 DEF TotalOrder
  <2> QED  BY <2>1, <2>2
<1>3. S \in F
  <2> HIDE DEF F
  <2> QED  BY <1>1, <1>2, SubsetsReached
<1> QED  BY <1>3

LEMMA SortedExists ==
  ASSUME NEW S, IsFiniteSet(S), NEW R, TotalOrder(S, R)
  PROVE  \E s \in SetToSeqs(S) : InOrder(s, R)
<1> DEFINE F == {T \in SUBSET S : ~ \E s \in SetToSeqs(T) : InOrder(s, R)}
<1> SUFFICES ASSUME F # {} PROVE FALSE
  OBVIOUS
<1>1. PICK T \in F : \A U \in SUBSET T : U # T => U \notin F
  <2>1. F \in SUBSET (SUBSET S)
    OBVIOUS
  <2> HIDE DEF F
  <2> QED  BY <2>1, SmallestSubset
<1>2. T # {}
  <2> SUFFICES ASSUME T = {} PROVE FALSE
    OBVIOUS
  <2>1. <<>> \in SetToSeqs(T) /\ InOrder(<<>>, R)
    BY FS_EmptySet DEF SetToSeqs, InOrder
  <2> QED  BY <1>1, <2>1
<1>3. IsFiniteSet(T) /\ TotalOrder(T, R)
  <2>1. IsFiniteSet(T)
    BY FS_Subset
  <2> QED  BY <2>1 DEF TotalOrder
<1>4. PICK g \in T : \A y \in T : y = g \/ <<y, g>> \in R
  BY <1>2, <1>3, Greatest
<1> DEFINE U == T \ {g}
           n == Cardinality(U)
<1>5. U \notin F /\ U \in SUBSET S
  BY <1>1, <1>4
<1>6. PICK s \in SetToSeqs(U) : InOrder(s, R)
  BY <1>5
<1>7. IsFiniteSet(U) /\ n \in Nat /\ Cardinality(T) = n + 1
  <2>1. IsFiniteSet(U) /\ Cardinality(U) = Cardinality(T) - 1
    BY <1>3, <1>4, FS_RemoveElement
  <2>2. Cardinality(T) \in Nat /\ Cardinality(U) \in Nat
    BY <1>3, <2>1, FS_CardinalityType
  <2> QED  BY <2>1, <2>2
<1>8. /\ s \in [1..n -> U] /\ (\A i, j \in 1..n : i # j => s[i] # s[j])
      /\ \A i \in 1..n : s[i] \in T /\ s[i] # g /\ s[i] \in U
  BY <1>6 DEF SetToSeqs
<1> HIDE DEF U, n
<1> DEFINE longer == [i \in 1..(n + 1) |-> IF i = n + 1 THEN g ELSE s[i]]
<1>9. longer \in SetToSeqs(T)
  <2>1. longer \in [1..(n + 1) -> T]
    BY <1>4, <1>7, <1>8
  <2>2. \A i, j \in 1..(n + 1) : i # j => longer[i] # longer[j]
    BY <1>7, <1>8
  <2> HIDE DEF longer
  <2> QED  BY <1>7, <2>1, <2>2 DEF SetToSeqs
<1>10. InOrder(longer, R)
  <2> SUFFICES ASSUME NEW i \in 1..(n + 1), NEW j \in 1..(n + 1), i < j
               PROVE  <<longer[i], longer[j]>> \in R
    BY DEF InOrder
  <2>1. i \in 1..n
    BY <1>7
  <2>2. CASE j = n + 1
    <3>1. longer[i] = s[i] /\ longer[j] = g /\ s[i] \in U
      BY <1>7, <1>8, <2>1, <2>2
    <3> QED  BY <1>4, <1>8, <2>1, <3>1
  <2>3. CASE j # n + 1
    <3>1. j \in 1..n /\ DOMAIN s = 1..n
      BY <1>7, <1>8, <2>3
    <3>2. <<s[i], s[j]>> \in R
      BY <1>6, <2>1, <3>1 DEF InOrder
    <3>3. longer[i] = s[i] /\ longer[j] = s[j]
      BY <1>7, <2>1, <2>3, <3>1
    <3> QED  BY <3>2, <3>3
  <2> QED  BY <2>2, <2>3
<1> HIDE DEF longer
<1> QED  BY <1>1, <1>9, <1>10

\* The three orders the code sorts by.

LEMMA SortedNumbers ==
  ASSUME NEW S \in SUBSET Nat, IsFiniteSet(S)
  PROVE  Sorted(S, <) \in SetToSeqs(S)
<1> DEFINE R == {p \in S \X S : p[1] < p[2]}
<1>1. TotalOrder(S, R)
  BY DEF TotalOrder
<1>2. PICK s \in SetToSeqs(S) : InOrder(s, R)
  <2> HIDE DEF R
  <2> QED  BY <1>1, SortedExists
<1>3. \A i, j \in DOMAIN s : i < j => s[i] < s[j]
  BY <1>2 DEF InOrder
<1> QED  BY <1>2, <1>3 DEF Sorted

ByLot(S) == \A x, y \in S : x.lot \in Nat /\ (x.lot = y.lot => x = y)
LEMMA SortedByLot ==
  ASSUME NEW S, IsFiniteSet(S), ByLot(S)
  PROVE  Sorted(S, LAMBDA a, b : a.lot < b.lot) \in SetToSeqs(S)
<1> DEFINE R == {p \in S \X S : p[1].lot < p[2].lot}
<1>1. TotalOrder(S, R)
  BY DEF TotalOrder, ByLot
<1>2. PICK s \in SetToSeqs(S) : InOrder(s, R)
  <2> HIDE DEF R
  <2> QED  BY <1>1, SortedExists
<1>3. \A i, j \in DOMAIN s : i < j => s[i].lot < s[j].lot
  BY <1>2 DEF InOrder
<1> QED  BY <1>2, <1>3 DEF Sorted

IsStockLot(lot) == lot.id \in Nat /\ lot.quantity \in Int /\ lot.expires \in Int \cup {NoDate}
StockLots(S) ==
  /\ IsFiniteSet(S) /\ \A x \in S : IsStockLot(x)
  /\ \A x, y \in S : x.id = y.id => x = y
LEMMA SortedByExpiration ==
  ASSUME NEW S, StockLots(S)
  PROVE  /\ Sorted(S, Earlier) \in SetToSeqs(S)
         /\ \A i, j \in DOMAIN Sorted(S, Earlier) :
              i < j => Earlier(Sorted(S, Earlier)[i], Sorted(S, Earlier)[j])
<1> DEFINE R == {p \in S \X S : Earlier(p[1], p[2])}
<1>0. NoDate \notin Int
  BY DateAssumption
<1>1. TotalOrder(S, R)
  <2>1. \A x \in S : x.id \in Nat /\ x.expires \in Int \cup {NoDate} /\ x.quantity \in Int
    BY DEF StockLots, IsStockLot
  <2>2. \A x, y \in S : x.id = y.id => x = y
    BY DEF StockLots
  <2> QED  BY <1>0, <2>1, <2>2 DEF TotalOrder, Earlier
<1>2. PICK s \in SetToSeqs(S) : InOrder(s, R)
  <2>1. IsFiniteSet(S)
    BY DEF StockLots
  <2> HIDE DEF R
  <2> QED  BY <1>1, <2>1, SortedExists
<1>3. \A i, j \in DOMAIN s : i < j => Earlier(s[i], s[j])
  BY <1>2 DEF InOrder
<1> QED  BY <1>2, <1>3 DEF Sorted

(***************************************************************************)
(* fefo_allocate.                                                          *)
(***************************************************************************)
LEMMA MaxOfNumbers ==
  ASSUME NEW S \in SUBSET Nat, IsFiniteSet(S), S # {}
  PROVE  Max(S) \in S /\ \A x \in S : Max(S) >= x
<1> DEFINE R == {p \in S \X S : p[1] < p[2]}
<1>1. TotalOrder(S, R)
  BY DEF TotalOrder
<1>2. PICK g \in S : \A y \in S : y = g \/ <<y, g>> \in R
  <2> HIDE DEF R
  <2> QED  BY <1>1, Greatest
<1>3. \A y \in S : g >= y
  <2> SUFFICES ASSUME NEW y \in S PROVE g >= y
    OBVIOUS
  <2>1. g \in Nat /\ y \in Nat /\ (y = g \/ <<y, g>> \in R)
    BY <1>2
  <2> QED  BY <2>1
<1> QED  BY <1>3 DEF Max

LEMMA MinOfNumbers ==
  ASSUME NEW S \in SUBSET Nat, S # {}
  PROVE  Min(S) \in S /\ \A x \in S : Min(S) <= x
BY LeastNatural DEF Min

FoldRec(s, base, f) ==
  f = [T \in SUBSET DOMAIN s |-> IF T = {} THEN base
                                 ELSE TakeFrom(f[T \ {Max(T)}], s[Max(T)])]
LEMMA FoldChosen ==
  ASSUME NEW s, NEW base, NEW g, FoldRec(s, base, g)
  PROVE  \E f : FoldRec(s, base, f) /\ FoldLeft(TakeFrom, base, s) = f[DOMAIN s]
BY DEF FoldLeft, MapThenFoldSet, FoldRec

Take == [lot : Nat, amount : Int]
Allocations == [remaining : Int, taken : Seq(Take)]
Queue(s) ==
  DOMAIN s = 1..Len(s) /\ Len(s) \in Nat /\ \A j \in DOMAIN s : IsStockLot(s[j])

LEMMA TakeFromTyped ==
  ASSUME NEW v \in Allocations, NEW lot, IsStockLot(lot)
  PROVE  TakeFrom(v, lot) \in Allocations
BY DEF IsStockLot, TakeFrom, Allocations, Take, Least

LEMMA FoldExists ==
  ASSUME NEW s, Queue(s), NEW base \in Allocations
  PROVE  \E f : FoldRec(s, base, f)
<1> DEFINE S == DOMAIN s
           pick == [T \in SUBSET S |-> Max(T)]
           g == [p \in S \X Allocations |-> TakeFrom(p[2], s[p[1]])]
<1>1. IsFiniteSet(S) /\ S \in SUBSET Nat /\ S = 1..Len(s) /\ Len(s) \in Nat
  <2>1. S = 1..Len(s) /\ Len(s) \in Nat
    BY DEF Queue
  <2>2. IsFiniteSet(1..Len(s))
    BY <2>1, FS_Interval
  <2> QED  BY <2>1, <2>2
<1>2. \A T \in SUBSET S : T # {} => Max(T) \in T
  BY <1>1, MaxOfNumbers, FS_Subset
<1>3. \A T \in SUBSET S : pick[T] = Max(T) /\ (T # {} => pick[T] \in T)
  BY <1>2
<1>4. \A x \in S, v \in Allocations : g[<<x, v>>] = TakeFrom(v, s[x]) /\ g[<<x, v>>] \in Allocations
  <2>1. \A x \in S : IsStockLot(s[x])
    BY DEF Queue
  <2> QED  BY <2>1, TakeFromTyped
<1>5. Recursive(S, Allocations, base, pick, g)
  <2> HIDE DEF S, pick, g
  <2> QED  BY <1>1, <1>3, <1>4 DEF Recursive
<1>6. PICK f : RecursivelyDefined(f, S, Allocations, base, pick, g)
  <2> HIDE DEF S, pick, g
  <2> QED  BY <1>5, Recursion
<1> HIDE DEF pick, g
<1>7. f \in [SUBSET S -> Allocations]
  BY <1>6 DEF RecursivelyDefined
<1>8. ASSUME NEW T \in SUBSET S
      PROVE  f[T] = IF T = {} THEN base ELSE TakeFrom(f[T \ {Max(T)}], s[Max(T)])
  <2>1. f[T] = IF T = {} THEN base ELSE g[<<pick[T], f[T \ {pick[T]}]>>]
    BY <1>6 DEF RecursivelyDefined
  <2>2. CASE T = {}
    BY <2>1, <2>2
  <2>3. CASE T # {}
    <3>1. Max(T) \in S /\ f[T \ {Max(T)}] \in Allocations /\ pick[T] = Max(T)
      BY <1>2, <1>3, <1>7, <2>3
    <3> QED  BY <1>4, <2>1, <2>3, <3>1
  <2> QED  BY <2>2, <2>3
<1> QED  BY <1>7, <1>8 DEF FoldRec

Given(taken) == [j \in DOMAIN taken |-> [delta |-> -taken[j].amount]]
\* What has been taken when the first k lots of the queue have been tried.
TakenSoFar(v, queue, k, amount) ==
  /\ v \in Allocations /\ v.remaining \in 0..amount
  /\ Len(v.taken) <= k
  /\ v.remaining > 0 =>
       Len(v.taken) = k /\ \A j \in DOMAIN v.taken : v.taken[j].amount = queue[j].quantity
  /\ \A j \in DOMAIN v.taken :
       /\ v.taken[j].lot = queue[j].id
       /\ v.taken[j].amount \in 1..queue[j].quantity
       /\ j < Len(v.taken) => v.taken[j].amount = queue[j].quantity
  /\ SumOfDeltas(Given(v.taken), DOMAIN v.taken) = v.remaining - amount

LEMMA GivenMore ==
  ASSUME NEW t \in Seq(Take), NEW x \in Take
  PROVE  SumOfDeltas(Given(Append(t, x)), DOMAIN Append(t, x))
           = SumOfDeltas(Given(t), DOMAIN t) - x.amount
<1> DEFINE u == Append(t, x)
           n == Len(t)
<1>1. /\ u \in Seq(Take) /\ DOMAIN u = DOMAIN t \cup {n + 1} /\ n + 1 \notin DOMAIN t
      /\ n \in Nat /\ DOMAIN t = 1..n /\ u[n + 1] = x
      /\ \A j \in DOMAIN t : u[j] = t[j] /\ t[j] \in Take
  OBVIOUS
<1>1a. x.amount \in Int /\ \A j \in DOMAIN t : t[j].amount \in Int
  BY <1>1 DEF Take
<1>2. IsFiniteSet(DOMAIN t)
  BY <1>1, FS_Interval
<1> HIDE DEF u, n
<1>3. /\ \A j \in DOMAIN t : Given(t)[j].delta \in Int /\ Given(u)[j].delta = Given(t)[j].delta
      /\ Given(u)[n + 1].delta = -x.amount
  BY <1>1, <1>1a DEF Given
<1>4. SumOfDeltas(Given(u), DOMAIN t) = SumOfDeltas(Given(t), DOMAIN t)
  BY <1>2, <1>3, SumSame
<1>5. SumOfDeltas(Given(t), DOMAIN t) \in Int
  BY <1>2, <1>3, SumType
<1>6. SumOfDeltas(Given(u), DOMAIN t \cup {n + 1}) = SumOfDeltas(Given(u), DOMAIN t) + Given(u)[n + 1].delta
  <2>1. \A j \in DOMAIN t \cup {n + 1} : Given(u)[j].delta \in Int
    BY <1>1, <1>1a, <1>3
  <2> QED  BY <1>1, <1>2, <2>1, SumAdd
<1>7. SumOfDeltas(Given(u), DOMAIN u) = SumOfDeltas(Given(u), DOMAIN t \cup {n + 1})
  BY <1>1, Zenon
<1>8. SumOfDeltas(Given(u), DOMAIN u) = SumOfDeltas(Given(t), DOMAIN t) - x.amount
  BY <1>1a, <1>3, <1>4, <1>5, <1>6, <1>7
<1> QED  BY <1>8 DEF u

LEMMA AllocatedOneMore ==
  ASSUME NEW queue, Queue(queue), \A j \in DOMAIN queue : queue[j].quantity > 0,
         NEW amount \in Nat, NEW k \in Nat, k + 1 \in DOMAIN queue,
         NEW v, TakenSoFar(v, queue, k, amount)
  PROVE  TakenSoFar(TakeFrom(v, queue[k + 1]), queue, k + 1, amount)
<1> DEFINE lot == queue[k + 1]
           w == TakeFrom(v, lot)
<1>1. lot.id \in Nat /\ lot.quantity \in Int /\ lot.quantity > 0
  <2>1. IsStockLot(lot)
    BY DEF Queue
  <2> QED  BY <2>1 DEF IsStockLot
<1>2. v \in Allocations /\ v.remaining \in 0..amount /\ v.taken \in Seq(Take)
  BY DEF TakenSoFar, Allocations
<1>3. CASE v.remaining = 0
  BY <1>2, <1>3 DEF TakenSoFar, TakeFrom
<1>4. CASE v.remaining > 0
  <2> DEFINE take == Least(lot.quantity, v.remaining)
             x == [lot |-> lot.id, amount |-> take]
  <2>1. take \in 1..lot.quantity /\ take \in 1..v.remaining
        /\ (v.remaining - take > 0 => take = lot.quantity)
    BY <1>1, <1>2, <1>4 DEF Least
  <2>2. w = [remaining |-> v.remaining - take, taken |-> Append(v.taken, x)]
    BY <1>2, <1>4 DEF TakeFrom
  <2>3. x \in Take
    BY <1>1, <2>1 DEF Take
  <2>4. Len(v.taken) = k /\ \A j \in DOMAIN v.taken : v.taken[j].amount = queue[j].quantity
    BY <1>4 DEF TakenSoFar
  <2>5. \A j \in DOMAIN v.taken : v.taken[j].lot = queue[j].id /\ v.taken[j].amount \in 1..queue[j].quantity
    BY DEF TakenSoFar
  <2> HIDE DEF take, x, lot, w
  <2>6. /\ w.taken = Append(v.taken, x) /\ w.taken \in Seq(Take) /\ w.remaining = v.remaining - take
        /\ w \in Allocations
    BY <1>2, <2>1, <2>2, <2>3 DEF Allocations
  <2>7. /\ Len(w.taken) = k + 1 /\ DOMAIN w.taken = 1..(k + 1) /\ DOMAIN v.taken = 1..k
        /\ w.taken[k + 1] = x /\ \A j \in 1..k : w.taken[j] = v.taken[j]
    BY <1>2, <2>3, <2>4, <2>6
  <2>8. w.remaining \in 0..amount /\ (w.remaining > 0 => take = lot.quantity)
    BY <1>2, <2>1, <2>6
  <2>9. x.lot = lot.id /\ x.amount = take
    BY DEF x
  <2>10. \A j \in DOMAIN w.taken :
           /\ w.taken[j].lot = queue[j].id
           /\ w.taken[j].amount \in 1..queue[j].quantity
           /\ j < k + 1 => w.taken[j].amount = queue[j].quantity
    <3> SUFFICES ASSUME NEW j \in 1..(k + 1)
                 PROVE  /\ w.taken[j].lot = queue[j].id
                        /\ w.taken[j].amount \in 1..queue[j].quantity
                        /\ j < k + 1 => w.taken[j].amount = queue[j].quantity
      BY <2>7
    <3>1. CASE j = k + 1
      BY <2>1, <2>7, <2>9, <3>1 DEF lot
    <3>2. CASE j # k + 1
      <4>1. j \in 1..k
        BY <3>2
      <4> QED  BY <2>4, <2>5, <2>7, <4>1
    <3> QED  BY <3>1, <3>2
  <2>11. w.remaining > 0 => \A j \in DOMAIN w.taken : w.taken[j].amount = queue[j].quantity
    <3> SUFFICES ASSUME w.remaining > 0, NEW j \in 1..(k + 1)
                 PROVE  w.taken[j].amount = queue[j].quantity
      BY <2>7
    <3>1. CASE j = k + 1
      BY <2>7, <2>8, <2>9, <3>1 DEF lot
    <3>2. CASE j # k + 1
      <4>1. j \in 1..k
        BY <3>2
      <4> QED  BY <2>4, <2>7, <4>1
    <3> QED  BY <3>1, <3>2
  <2>12. SumOfDeltas(Given(w.taken), DOMAIN w.taken) = w.remaining - amount
    <3>1. SumOfDeltas(Given(Append(v.taken, x)), DOMAIN Append(v.taken, x))
            = SumOfDeltas(Given(v.taken), DOMAIN v.taken) - x.amount
      BY <1>2, <2>3, GivenMore
    <3>2. SumOfDeltas(Given(v.taken), DOMAIN v.taken) = v.remaining - amount
      BY DEF TakenSoFar
    <3> QED  BY <1>2, <2>1, <2>6, <2>9, <3>1, <3>2
  <2>13. TakenSoFar(w, queue, k + 1, amount)
    BY <2>6, <2>7, <2>8, <2>10, <2>11, <2>12 DEF TakenSoFar
  <2> QED  BY <2>13 DEF w, lot
<1> QED  BY <1>2, <1>3, <1>4

LEMMA QueueAllocated ==
  ASSUME NEW queue, Queue(queue), \A j \in DOMAIN queue : queue[j].quantity > 0,
         NEW amount \in Nat
  PROVE  TakenSoFar(FoldLeft(TakeFrom, [remaining |-> amount, taken |-> <<>>], queue),
                   queue, Len(queue), amount)
<1> DEFINE base == [remaining |-> amount, taken |-> <<>>]
           n == Len(queue)
<1>1. base \in Allocations
  BY DEF Allocations
<1>2. n \in Nat /\ DOMAIN queue = 1..n
  BY DEF Queue
<1>3. PICK g : FoldRec(queue, base, g)
  <2> HIDE DEF base
  <2> QED  BY <1>1, FoldExists
<1>4. PICK f : FoldRec(queue, base, f) /\ FoldLeft(TakeFrom, base, queue) = f[DOMAIN queue]
  <2> HIDE DEF base
  <2> QED  BY <1>3, FoldChosen
<1> DEFINE F == {k \in Nat : k <= n => TakenSoFar(f[1..k], queue, k, amount)}
<1>5. 0 \in F
  <2>1. 1..0 = {} /\ f[{}] = base
    BY <1>2, <1>4 DEF FoldRec
  <2>2. f[1..0] = base
    BY <2>1, Zenon
  <2>3. base.taken = <<>> /\ base.remaining = amount /\ DOMAIN base.taken = {} /\ Len(base.taken) = 0
    OBVIOUS
  <2>4. SumOfDeltas(Given(base.taken), DOMAIN base.taken) = base.remaining - amount
    <3>1. SumOfDeltas(Given(base.taken), {}) = 0
      BY SumEmpty
    <3>2. SumOfDeltas(Given(base.taken), DOMAIN base.taken) = SumOfDeltas(Given(base.taken), {})
      BY <2>3, Zenon
    <3> QED  BY <2>3, <3>1, <3>2
  <2> HIDE DEF base
  <2>5. TakenSoFar(base, queue, 0, amount)
    BY <1>1, <2>3, <2>4 DEF TakenSoFar
  <2> QED  BY <2>2, <2>5
<1>6. ASSUME NEW k \in Nat, k \in F PROVE k + 1 \in F
  <2> SUFFICES ASSUME k + 1 <= n PROVE TakenSoFar(f[1..(k + 1)], queue, k + 1, amount)
    OBVIOUS
  <2> DEFINE T == 1..(k + 1)
  <2>1. TakenSoFar(f[1..k], queue, k, amount) /\ k + 1 \in DOMAIN queue
    BY <1>2, <1>6
  <2>2. T \in SUBSET DOMAIN queue /\ T # {} /\ T \in SUBSET Nat /\ IsFiniteSet(T)
    <3>1. IsFiniteSet(T)
      BY FS_Interval
    <3> QED  BY <1>2, <3>1
  <2>3. Max(T) = k + 1
    <3>1. Max(T) \in T /\ \A x \in T : Max(T) >= x
      <4> HIDE DEF T
      <4> QED  BY <2>2, MaxOfNumbers
    <3>2. k + 1 \in T
      OBVIOUS
    <3>3. Max(T) >= k + 1
      BY <3>1, <3>2
    <3> QED  BY <3>1, <3>3
  <2>4. T \ {k + 1} = 1..k
    OBVIOUS
  <2>5. f[T] = TakeFrom(f[T \ {Max(T)}], queue[Max(T)])
    <3> HIDE DEF T
    <3> QED  BY <1>4, <2>2 DEF FoldRec
  <2> HIDE DEF T
  <2>6. f[T] = TakeFrom(f[1..k], queue[k + 1])
    BY <2>3, <2>4, <2>5, Zenon
  <2>7. TakenSoFar(f[T], queue, k + 1, amount)
    BY <2>1, <2>6, AllocatedOneMore
  <2> QED  BY <2>7 DEF T
<1>7. n \in F
  <2> HIDE DEF F
  <2> QED  BY <1>2, <1>5, <1>6, NaturalsReached
<1>8. TakenSoFar(f[1..n], queue, n, amount)
  BY <1>2, <1>7
<1>9. f[DOMAIN queue] = f[1..n]
  BY <1>2, Zenon
<1> QED  BY <1>4, <1>8, <1>9

\* What fefo_allocate returns when the stock suffices.
FefoAllocation(shelf, amount, day, taken) ==
  /\ amount > 0 /\ taken \in Seq(Take)
  /\ SumOfDeltas(Given(taken), DOMAIN taken) = -amount
  /\ \A j \in DOMAIN taken : \E lot \in shelf :
       Usable(lot, day) /\ taken[j].lot = lot.id /\ taken[j].amount \in 1..lot.quantity
  /\ \A j, k \in DOMAIN taken : taken[j].lot = taken[k].lot => j = k
  /\ \A a, b \in shelf, k \in DOMAIN taken :
       Usable(a, day) /\ Earlier(a, b) /\ taken[k].lot = b.id
         => \E j \in DOMAIN taken : taken[j].lot = a.id /\ taken[j].amount = a.quantity

LEMMA FefoAllocates ==
  ASSUME NEW shelf, StockLots(shelf), NEW amount \in Nat, NEW day \in Int,
         fefo_allocate(shelf, amount, day).ok
  PROVE  FefoAllocation(shelf, amount, day, fefo_allocate(shelf, amount, day).value)
<1> DEFINE S == {lot \in shelf : Usable(lot, day)}
           queue == Sorted(S, Earlier)
           n == Len(queue)
           final == FoldLeft(TakeFrom, [remaining |-> amount, taken |-> <<>>], queue)
           taken == fefo_allocate(shelf, amount, day).value
<1>1. StockLots(S)
  <2>1. IsFiniteSet(S)
    BY FS_Subset DEF StockLots
  <2> QED  BY <2>1 DEF StockLots
<1>2. queue \in SetToSeqs(S) /\ \A i, j \in DOMAIN queue : i < j => Earlier(queue[i], queue[j])
  <2> HIDE DEF S
  <2> QED  BY <1>1, SortedByExpiration
<1>3. /\ queue \in Seq(S) /\ DOMAIN queue = 1..n /\ n \in Nat
      /\ \A i, j \in DOMAIN queue : queue[i] = queue[j] => i = j
      /\ \A i \in DOMAIN queue : queue[i] \in S
      /\ \A x \in S : \E i \in DOMAIN queue : queue[i] = x
  <2>1. IsFiniteSet(S)
    BY <1>1 DEF StockLots
  <2> HIDE DEF S, queue
  <2> QED  BY <1>2, <2>1, EnumerationProperties
<1>4. Queue(queue) /\ \A j \in DOMAIN queue : queue[j].quantity > 0
  <2>1. \A x \in S : IsStockLot(x) /\ x.quantity > 0
    BY DEF StockLots, Usable
  <2> HIDE DEF S, queue
  <2> QED  BY <1>3, <2>1 DEF Queue
<1>5. TakenSoFar(final, queue, n, amount)
  <2> HIDE DEF queue
  <2> QED  BY <1>4, QueueAllocated
<1>6. amount # 0 /\ ~(final.remaining > 0) /\ taken = final.taken
  BY DEF fefo_allocate, Refused, Result
<1> HIDE DEF final, queue, n, taken
<1>7. /\ taken \in Seq(Take) /\ Len(taken) <= n /\ DOMAIN taken = 1..Len(taken)
      /\ SumOfDeltas(Given(taken), DOMAIN taken) = -amount /\ Len(taken) \in Nat
      /\ \A j \in DOMAIN taken :
           /\ taken[j].lot = queue[j].id
           /\ taken[j].amount \in 1..queue[j].quantity
           /\ j < Len(taken) => taken[j].amount = queue[j].quantity
  BY <1>5, <1>6 DEF TakenSoFar, Allocations
<1>8. \A j \in DOMAIN taken : j \in DOMAIN queue
  BY <1>3, <1>7
<1>9. \A x, y \in S : x.id = y.id => x = y
  BY <1>1 DEF StockLots
<1>10. ASSUME NEW a \in shelf, NEW b \in shelf, NEW k \in DOMAIN taken,
              Usable(a, day), Earlier(a, b), taken[k].lot = b.id
       PROVE  \E j \in DOMAIN taken : taken[j].lot = a.id /\ taken[j].amount = a.quantity
  <2>1. queue[k] = b
    <3>1. queue[k] \in shelf /\ queue[k].id = b.id
      BY <1>3, <1>7, <1>8, <1>10
    <3> QED  BY <3>1 DEF StockLots
  <2>2. PICK i \in DOMAIN queue : queue[i] = a
    BY <1>3, <1>10
  <2>3. ~Earlier(b, a) /\ a # b
    <3>1. IsStockLot(a) /\ IsStockLot(b) /\ NoDate \notin Int
      BY DateAssumption DEF StockLots
    <3>2. a.id \in Int /\ b.id \in Int /\ a.expires \in Int \cup {NoDate} /\ b.expires \in Int \cup {NoDate}
      BY <3>1 DEF IsStockLot
    <3> QED  BY <1>10, <3>1, <3>2 DEF Earlier
  <2>4. i # k /\ ~(k < i)
    BY <1>2, <1>8, <2>1, <2>2, <2>3
  <2>5. i < k /\ i \in DOMAIN taken /\ i < Len(taken)
    BY <1>3, <1>7, <2>2, <2>4
  <2> QED  BY <1>7, <2>2, <2>5
<1>11. \A j \in DOMAIN taken : \E lot \in shelf :
         Usable(lot, day) /\ taken[j].lot = lot.id /\ taken[j].amount \in 1..lot.quantity
  BY <1>3, <1>7, <1>8
<1>12. \A j, k \in DOMAIN taken : taken[j].lot = taken[k].lot => j = k
  <2> SUFFICES ASSUME NEW j \in DOMAIN taken, NEW k \in DOMAIN taken, taken[j].lot = taken[k].lot
               PROVE  j = k
    OBVIOUS
  <2>1. queue[j] \in S /\ queue[k] \in S /\ queue[j].id = queue[k].id
    BY <1>3, <1>7, <1>8
  <2> HIDE DEF S
  <2>2. queue[j] = queue[k]
    BY <1>9, <2>1
  <2> QED  BY <1>3, <1>8, <2>2
<1> QED  BY <1>6, <1>7, <1>10, <1>11, <1>12 DEF FefoAllocation, taken

(***************************************************************************)
(* What a completion consumes.                                             *)
(***************************************************************************)
LineType ==
  [ingredient : Ingredient, planned : Int, actual : 1..MaxAmount, optional : BOOLEAN]

LEMMA SelectedIndices ==
  ASSUME NEW S, NEW s \in Seq(S), NEW K \in SUBSET DOMAIN s
  PROVE  /\ Sorted(K, <) \in Seq(K)
         /\ \A n \in DOMAIN Sorted(K, <) : Sorted(K, <)[n] \in K /\ s[Sorted(K, <)[n]] \in S
<1>1. DOMAIN s = 1..Len(s) /\ Len(s) \in Nat /\ K \in SUBSET Nat
  OBVIOUS
<1>2. IsFiniteSet(DOMAIN s)
  BY <1>1, FS_Interval
<1>3. IsFiniteSet(K)
  BY <1>2, FS_Subset
<1>4. Sorted(K, <) \in SetToSeqs(K)
  BY <1>1, <1>3, SortedNumbers, Zenon
<1> DEFINE at == Sorted(K, <)
<1>5. at \in Seq(K) /\ \A n \in DOMAIN at : at[n] \in K
  <2> HIDE DEF at
  <2> QED  BY <1>3, <1>4, EnumerationProperties, Zenon DEF at
<1>6. \A i \in K : s[i] \in S
  OBVIOUS
<1> HIDE DEF at
<1>7. \A n \in DOMAIN at : at[n] \in K /\ s[at[n]] \in S
  BY <1>5, <1>6
<1> QED  BY <1>5, <1>7, Zenon DEF at

LEMMA RoundedIsInteger ==
  ASSUME NEW n \in Int, NEW d \in Nat \ {0}
  PROVE  round_half_up(n, d) \in Int
BY DEF round_half_up

LEMMA ScaledIsInteger ==
  ASSUME NEW amount \in Nat, NEW servings \in Nat \ {0}, NEW base \in Nat \ {0}
  PROVE  scaled_amount(amount, servings, base) \in Int
<1>1. Scale \in Nat \ {0} /\ servings * Scale \in Int
  BY ScaleAssumption
<1>2. scale_factor(servings, base) \in Int
  BY <1>1, RoundedIsInteger DEF scale_factor
<1>3. amount * scale_factor(servings, base) \in Int
  BY <1>2
<1> QED  BY <1>1, <1>3, RoundedIsInteger DEF scaled_amount

LEMMA PlannedLines ==
  ASSUME NEW e \in Entry, planned_lines(Recipe[e], Servings[e], BaseServings[e]).ok
  PROVE  planned_lines(Recipe[e], Servings[e], BaseServings[e]).value \in Seq(LineType)
<1> DEFINE recipe == Recipe[e]
           Scaled(r) == scaled_amount(r.amount, Servings[e], BaseServings[e])
           K == {n \in DOMAIN recipe : ~recipe[n].pantry_staple /\ Scaled(recipe[n]) > 0}
           at == Sorted(K, <)
           kept == [n \in DOMAIN at |-> recipe[at[n]]]
           result == [i \in DOMAIN kept |-> Line(kept[i], Scaled(kept[i]))]
<1>1. recipe \in Seq(RecipeRowType) /\ Servings[e] \in Nat \ {0} /\ BaseServings[e] \in Nat \ {0}
  BY CompletionAssumption
<1>2. /\ at \in Seq(K)
      /\ \A n \in DOMAIN at : at[n] \in K /\ recipe[at[n]] \in RecipeRowType
  <2>1. K \in SUBSET DOMAIN recipe
    OBVIOUS
  <2> HIDE DEF K, recipe
  <2> QED  BY <1>1, <2>1, SelectedIndices, Zenon
<1>3. \A r \in RecipeRowType : Scaled(r) \in Int /\ r.ingredient \in Ingredient /\ r.optional \in BOOLEAN
  <2> SUFFICES ASSUME NEW r \in RecipeRowType
               PROVE Scaled(r) \in Int /\ r.ingredient \in Ingredient /\ r.optional \in BOOLEAN
    OBVIOUS
  <2>1. r.amount \in Nat /\ r.ingredient \in Ingredient /\ r.optional \in BOOLEAN
    BY DEF RecipeRowType
  <2> QED  BY <1>1, <2>1, ScaledIsInteger, Zenon
<1>4. /\ planned_lines(Recipe[e], Servings[e], BaseServings[e]).value = result
      /\ ~\E i \in DOMAIN kept : Scaled(kept[i]) > MaxAmount
  BY Zenon DEF planned_lines, Selected, Refused, Result
<1>5. DOMAIN kept = DOMAIN at /\ DOMAIN at = 1..Len(at) /\ Len(at) \in Nat
  <2> HIDE DEF at
  <2> QED  BY <1>2
<1>6. \A n \in DOMAIN at : kept[n] \in RecipeRowType /\ Scaled(kept[n]) > 0
  <2>1. \A n \in DOMAIN at : Scaled(recipe[at[n]]) > 0
    BY <1>2, Zenon
  <2> HIDE DEF at, K, recipe, Scaled
  <2> QED  BY <1>2, <2>1
<1> HIDE DEF kept, at, K, Scaled
<1>7. \A n \in DOMAIN at : Line(kept[n], Scaled(kept[n])) \in LineType
  <2> SUFFICES ASSUME NEW n \in DOMAIN at PROVE Line(kept[n], Scaled(kept[n])) \in LineType
    OBVIOUS
  <2>1. Scaled(kept[n]) \in 1..MaxAmount /\ MaxAmount \in Nat
    BY <1>3, <1>4, <1>5, <1>6, ScaleAssumption
  <2>2. kept[n].ingredient \in Ingredient /\ kept[n].optional \in BOOLEAN
    BY <1>3, <1>6
  <2> QED  BY <2>1, <2>2 DEF Line, LineType
<1>8. result \in Seq(LineType)
  BY <1>5, <1>7
<1> HIDE DEF result
<1> QED  BY <1>4, <1>8

LEMMA ActualLines ==
  ASSUME NEW planned \in Seq(LineType), NEW actuals, NEW staples,
         apply_actual_amounts(planned, actuals, staples).ok
  PROVE  apply_actual_amounts(planned, actuals, staples).value \in Seq(LineType)
<1> DEFINE GivenFor(line) == {j \in DOMAIN actuals : actuals[j].ingredient = line.ingredient}
           K == {n \in DOMAIN planned : GivenFor(planned[n]) # {} \/ ~planned[n].optional}
           at == Sorted(K, <)
           kept == [n \in DOMAIN at |-> planned[at[n]]]
           Actual(line) == IF GivenFor(line) = {} THEN line
                           ELSE [line EXCEPT !.actual = actuals[CHOOSE j \in GivenFor(line) : TRUE].amount]
           result == [i \in DOMAIN kept |-> Actual(kept[i])]
<1>1. /\ at \in Seq(K)
      /\ \A n \in DOMAIN at : at[n] \in K /\ planned[at[n]] \in LineType
  <2>1. K \in SUBSET DOMAIN planned
    OBVIOUS
  <2> HIDE DEF K
  <2> QED  BY <2>1, SelectedIndices, Zenon
<1>2. /\ apply_actual_amounts(planned, actuals, staples).value = result
      /\ \A j \in DOMAIN actuals : actuals[j].amount \in 1..MaxAmount
  BY Zenon DEF apply_actual_amounts, Selected, Refused, Result
<1>3. /\ DOMAIN kept = DOMAIN at /\ DOMAIN at = 1..Len(at) /\ Len(at) \in Nat
      /\ \A n \in DOMAIN at : kept[n] \in LineType
  <2> HIDE DEF at
  <2> QED  BY <1>1
<1>4. \A line \in LineType : Actual(line) \in LineType
  <2> SUFFICES ASSUME NEW line \in LineType, GivenFor(line) # {} PROVE Actual(line) \in LineType
    OBVIOUS
  <2>1. (CHOOSE j \in GivenFor(line) : TRUE) \in GivenFor(line)
    OBVIOUS
  <2>2. actuals[CHOOSE j \in GivenFor(line) : TRUE].amount \in 1..MaxAmount
    BY <1>2, <2>1, Zenon
  <2> QED  BY <2>2, Zenon DEF LineType
<1> HIDE DEF kept, at, K, Actual
<1>5. result \in Seq(LineType)
  BY <1>3, <1>4
<1> HIDE DEF result
<1> QED  BY <1>2, <1>5

LEMMA LinesTyped ==
  ASSUME NEW q \in Request, q.op \in {Complete, Skip}, LinesOf(q).ok
  PROVE  LinesOf(q).value \in Seq(LineType)
<1>1. q.entry \in Entry
  BY CompletionAssumption DEF WellFormed
<1> DEFINE planned == planned_lines(Recipe[q.entry], Servings[q.entry], BaseServings[q.entry])
<1>2. planned.ok => planned.value \in Seq(LineType)
  BY <1>1, PlannedLines
<1>3. CASE q.op = Skip
  BY <1>3 DEF LinesOf, Result
<1>4. CASE q.op # Skip /\ (~planned.ok \/ q.actuals = <<>>)
  <2>1. LinesOf(q) = planned
    BY <1>4 DEF LinesOf
  <2> HIDE DEF planned
  <2> QED  BY <1>2, <2>1
<1>5. CASE q.op # Skip /\ ~(~planned.ok \/ q.actuals = <<>>)
  <2>1. LinesOf(q) = apply_actual_amounts(planned.value, q.actuals, Staples(q.entry)) /\ planned.ok
    BY <1>5 DEF LinesOf
  <2> HIDE DEF planned
  <2> QED  BY <1>2, <2>1, ActualLines
<1> QED  BY <1>3, <1>4, <1>5

LEMMA DeductionsTyped ==
  ASSUME NEW consumed \in Seq(LineType)
  PROVE  LET work0 == [i \in DOMAIN consumed |-> Deduct(consumed[i].ingredient, consumed[i].actual)] IN
         /\ work0 \in Seq(StatementType)
         /\ \A n \in DOMAIN work0 : work0[n].kind = "deduct" /\ work0[n].amount > 0
<1> DEFINE work0 == [i \in DOMAIN consumed |-> Deduct(consumed[i].ingredient, consumed[i].actual)]
<1>1. \A i \in DOMAIN consumed : consumed[i].ingredient \in Ingredient /\ consumed[i].actual \in 1..MaxAmount
  <2>1. \A i \in DOMAIN consumed : consumed[i] \in LineType
    OBVIOUS
  <2> QED  BY <2>1 DEF LineType
<1>2. \A i \in DOMAIN consumed : work0[i] = Deduct(consumed[i].ingredient, consumed[i].actual)
  OBVIOUS
<1>3. MaxAmount \in Nat
  BY ScaleAssumption
<1>4. \A i \in DOMAIN consumed : /\ work0[i] \in StatementType
                                 /\ work0[i].kind = "deduct" /\ work0[i].amount > 0
  BY <1>1, <1>2, <1>3 DEF Deduct, StatementType
<1>5. DOMAIN consumed = 1..Len(consumed) /\ Len(consumed) \in Nat /\ DOMAIN work0 = DOMAIN consumed
  OBVIOUS
<1> HIDE DEF work0
<1>6. work0 \in Seq(StatementType)
  <2>1. work0 = [i \in 1..Len(consumed) |-> work0[i]]
    BY <1>5 DEF work0
  <2> QED  BY <1>4, <1>5, <2>1
<1> QED  BY <1>4, <1>5, <1>6 DEF work0

(***************************************************************************)
(* What a statement on the inventory writes.                               *)
(***************************************************************************)
LEMMA BalanceType ==
  ASSUME Types, NEW c \in Call, NEW l \in Lot
  PROVE  Balance(c, l) \in Int
<1> DEFINE written == OfLot(pending[c], l)
<1>1. Table(pending[c]) /\ quantity_on_hand[l] \in Int
  BY DEF Types, StoreTypes, LockTypes, CallTypes, TransactionTypes, Shape, Table
<1>2. written \in SUBSET DOMAIN pending[c]
  BY DEF OfLot
<1>3. IsFiniteSet(written) /\ written \in SUBSET Nat
  BY <1>1, <1>2, TableRows
<1>4. written # {} => Max(written) \in written
  <2> HIDE DEF written
  <2> QED  BY <1>3, MaxOfNumbers
<1>5. written # {} => pending[c][Max(written)].result \in Int
  BY <1>1, <1>2, <1>4, TableRows
<1> QED  BY <1>1, <1>5 DEF Balance

LEMMA HeldStock ==
  ASSUME Types, NEW c \in Call, NEW L \in SUBSET Lot
  PROVE  StockLots({StockLot(c, l) : l \in L})
<1> DEFINE S == {StockLot(c, l) : l \in L}
<1>1. IsFiniteSet(L) /\ L \subseteq Nat /\ ExpirationDate \in [Lot -> Int \cup {NoDate}]
  BY CompletionAssumption, FS_Subset
<1>2. \A l \in L : IsStockLot(StockLot(c, l)) /\ StockLot(c, l).id = l
  BY <1>1, BalanceType DEF StockLot, IsStockLot
<1>3. IsFiniteSet(S)
  <2> HIDE DEF S
  <2>1. DEFINE f == [l \in L |-> StockLot(c, l)]
  <2>2. f \in Surjection(L, S)
    BY DEF Surjection, S
  <2> QED  BY <1>1, <2>2, FS_Surjection DEF ExistsSurjection
<1> QED  BY <1>2, <1>3 DEF StockLots

\* The movements of one statement: one for each lot, of lots it has locked.
Moves(c, moves) ==
  /\ Table(moves)
  /\ \A n \in DOMAIN moves :
       /\ moves[n].lot \in locked[c]
       /\ moves[n].line = <<own[c], Head(work[c]).ingredient>>
       /\ moves[n].result = Balance(c, moves[n].lot) + moves[n].delta
       /\ moves[n].type \in {"meal_consumption", "reversal"}
  /\ \A n, k \in DOMAIN moves : moves[n].lot = moves[k].lot => n = k

Deducted(c, moves) ==
  /\ \A n \in DOMAIN moves : /\ Balance(c, moves[n].lot) > 0
                             /\ Usable(StockLot(c, moves[n].lot), today)
                             /\ moves[n].delta \in Int /\ moves[n].delta < 0
                             /\ moves[n].result >= 0
  /\ SumOfDeltas(moves, DOMAIN moves) = -Head(work[c]).amount
  /\ \A n \in DOMAIN moves, a \in locked[c] :
       Usable(StockLot(c, a), today) /\ Earlier(StockLot(c, a), StockLot(c, moves[n].lot))
         => \E k \in DOMAIN moves : moves[k].lot = a /\ moves[k].result = 0

Reversed(c, moves) ==
  /\ \A n \in DOMAIN moves :
       /\ moves[n].delta = -NetOf(<<own[c], Head(work[c]).ingredient>>, moves[n].lot)
       /\ moves[n].result <= MaxAmount
  /\ \A l \in locked[c] : \E n \in DOMAIN moves : moves[n].lot = l
LEMMA MovementTyped ==
  ASSUME NEW l \in Lot, NEW line \in LineId \cup {NoLine}, NEW d \in Int, NEW r \in Int, NEW type \in Kinds
  PROVE  /\ Movement(l, line, d, r, type) \in AnyMovement
         /\ Movement(l, line, d, r, type).lot = l /\ Movement(l, line, d, r, type).line = line
         /\ Movement(l, line, d, r, type).delta = d /\ Movement(l, line, d, r, type).result = r
         /\ Movement(l, line, d, r, type).type = type
BY DEF Movement, AnyMovement

LEMMA HeadOfWork ==
  ASSUME Types, NEW c \in Call, work[c] # <<>>
  PROVE  /\ Head(work[c]) \in StatementType /\ Tail(work[c]) \in Seq(StatementType)
         /\ Head(work[c]).ingredient \in Ingredient /\ Head(work[c]).amount \in 0..MaxAmount
         /\ Head(work[c]).kind \in {"deduct", "reverse"}
         /\ Head(work[c]) = work[c][1] /\ 1 \in DOMAIN work[c]
         /\ Len(Tail(work[c])) = Len(work[c]) - 1 /\ DOMAIN work[c] = 1..Len(work[c])
         /\ \A n \in DOMAIN Tail(work[c]) : n + 1 \in DOMAIN work[c] /\ Tail(work[c])[n] = work[c][n + 1]
         /\ DOMAIN Tail(work[c]) = 1..Len(Tail(work[c])) /\ Len(work[c]) \in Nat
<1>1. work[c] \in Seq(StatementType)
  BY DEF Types, StoreTypes, LockTypes, CallTypes, TransactionTypes, Shape
<1>2. Head(work[c]) \in StatementType
  BY <1>1
<1> QED  BY <1>1, <1>2 DEF StatementType

Deduction(c, s, taken) ==
  [n \in DOMAIN taken |->
     LET take == taken[n] IN
     Movement(take.lot, <<own[c], s.ingredient>>, -take.amount,
              Balance(c, take.lot) - take.amount, "meal_consumption")]

LEMMA DeductionMoves ==
  ASSUME Types, NEW c \in Call, pc[c] = "locking", Consumption(c, Head(work[c])).ok
  PROVE  LET moves == Deduction(c, Head(work[c]), Consumption(c, Head(work[c])).value) IN
         Moves(c, moves) /\ Deducted(c, moves)
<1> DEFINE s == Head(work[c])
           taken == Consumption(c, s).value
           moves == Deduction(c, s, taken)
           line == <<own[c], s.ingredient>>
           L == {k \in locked[c] : Balance(c, k) > 0}
           stock0 == {StockLot(c, l) : l \in L}
<1>1. s.ingredient \in Ingredient /\ s.amount \in Nat
  <2>1. work[c] # <<>> /\ MaxAmount \in Nat
    BY ScaleAssumption DEF Types, StoreTypes, LockTypes, CallTypes, TransactionTypes, Shape
  <2> QED  BY <2>1, HeadOfWork
<1>2. L \in SUBSET Lot /\ locked[c] \in SUBSET Lot /\ today \in Int /\ own[c] \in CompletionId
  BY CompletionAssumption DEF Types, StoreTypes, LockTypes, CallTypes, TransactionTypes, Shape, Active
<1>3. /\ fefo_allocate(stock0, s.amount, today).ok
      /\ taken = fefo_allocate(stock0, s.amount, today).value
  BY DEF Consumption
<1>4. StockLots(stock0)
  <2> HIDE DEF L
  <2> QED  BY <1>2, HeldStock
<1> HIDE DEF taken
<1>5. /\ s.amount > 0 /\ taken \in Seq(Take)
      /\ SumOfDeltas(Given(taken), DOMAIN taken) = -s.amount
      /\ \A j \in DOMAIN taken : \E lot \in stock0 :
           Usable(lot, today) /\ taken[j].lot = lot.id /\ taken[j].amount \in 1..lot.quantity
      /\ \A j, k \in DOMAIN taken : taken[j].lot = taken[k].lot => j = k
      /\ \A a, b \in stock0, k \in DOMAIN taken :
           Usable(a, today) /\ Earlier(a, b) /\ taken[k].lot = b.id
             => \E j \in DOMAIN taken : taken[j].lot = a.id /\ taken[j].amount = a.quantity
  <2> HIDE DEF s, stock0
  <2>1. FefoAllocation(stock0, s.amount, today, fefo_allocate(stock0, s.amount, today).value)
    BY <1>1, <1>2, <1>3, <1>4, FefoAllocates
  <2>2. FefoAllocation(stock0, s.amount, today, taken)
    BY <1>3, <2>1, Zenon
  <2> QED  BY <2>2 DEF FefoAllocation
<1>6. \A l \in L : /\ l \in Lot /\ StockLot(c, l) \in stock0 /\ StockLot(c, l).id = l
                   /\ StockLot(c, l).quantity = Balance(c, l) /\ Balance(c, l) \in Int
                   /\ Balance(c, l) > 0 /\ l \in locked[c]
  BY <1>2, BalanceType DEF StockLot
<1>7. \A n \in DOMAIN taken : /\ taken[n].lot \in L
                              /\ taken[n].amount \in 1..Balance(c, taken[n].lot)
                              /\ Usable(StockLot(c, taken[n].lot), today)
  <2> SUFFICES ASSUME NEW n \in DOMAIN taken
               PROVE  /\ taken[n].lot \in L /\ taken[n].amount \in 1..Balance(c, taken[n].lot)
                      /\ Usable(StockLot(c, taken[n].lot), today)
    OBVIOUS
  <2>1. PICK lot \in stock0 : Usable(lot, today) /\ taken[n].lot = lot.id /\ taken[n].amount \in 1..lot.quantity
    BY <1>5
  <2>2. PICK l \in L : lot = StockLot(c, l)
    BY <2>1
  <2> HIDE DEF L, stock0
  <2> QED  BY <1>6, <2>1, <2>2
<1>8. DOMAIN moves = DOMAIN taken /\ DOMAIN taken = 1..Len(taken) /\ Len(taken) \in Nat
  BY <1>5 DEF Deduction
<1>9. \A n \in DOMAIN taken :
        moves[n] = Movement(taken[n].lot, line, -taken[n].amount,
                            Balance(c, taken[n].lot) - taken[n].amount, "meal_consumption")
  BY DEF Deduction
<1> HIDE DEF s, L, stock0, moves
<1>9a. line \in LineId
  BY <1>1, <1>2 DEF LineId
<1> HIDE DEF line
<1>10. \A n \in DOMAIN taken : /\ moves[n] \in AnyMovement
                               /\ moves[n].lot = taken[n].lot /\ moves[n].delta = -taken[n].amount
                               /\ moves[n].line = line /\ moves[n].type = "meal_consumption"
                               /\ moves[n].delta \in Int /\ moves[n].delta < 0
                               /\ moves[n].result = Balance(c, taken[n].lot) + moves[n].delta
                               /\ moves[n].result >= 0
  <2> SUFFICES ASSUME NEW n \in DOMAIN taken
               PROVE  /\ moves[n] \in AnyMovement
                      /\ moves[n].lot = taken[n].lot /\ moves[n].delta = -taken[n].amount
                      /\ moves[n].line = line /\ moves[n].type = "meal_consumption"
                      /\ moves[n].delta \in Int /\ moves[n].delta < 0
                      /\ moves[n].result = Balance(c, taken[n].lot) + moves[n].delta
                      /\ moves[n].result >= 0
    OBVIOUS
  <2>1. taken[n].lot \in Lot /\ Balance(c, taken[n].lot) \in Int /\ taken[n].amount \in 1..Balance(c, taken[n].lot)
    BY <1>6, <1>7
  <2>2. /\ -taken[n].amount \in Int /\ Balance(c, taken[n].lot) - taken[n].amount \in Int
        /\ line \in LineId \cup {NoLine} /\ "meal_consumption" \in Kinds
        /\ Balance(c, taken[n].lot) - taken[n].amount = Balance(c, taken[n].lot) + (-taken[n].amount)
        /\ Balance(c, taken[n].lot) - taken[n].amount >= 0 /\ -taken[n].amount < 0
    BY <1>9a, <2>1 DEF Kinds
  <2> DEFINE d == -taken[n].amount
             r == Balance(c, taken[n].lot) - taken[n].amount
  <2>3. moves[n] = Movement(taken[n].lot, line, d, r, "meal_consumption")
    BY <1>9
  <2>4. /\ d \in Int /\ r \in Int /\ r = Balance(c, taken[n].lot) + d /\ r >= 0 /\ d < 0
    BY <2>2
  <2> HIDE DEF d, r
  <2>5. /\ moves[n] \in AnyMovement
        /\ moves[n].lot = taken[n].lot /\ moves[n].delta = d /\ moves[n].line = line
        /\ moves[n].type = "meal_consumption" /\ moves[n].result = r
    BY <2>1, <2>2, <2>3, <2>4, MovementTyped
  <2> QED  BY <2>4, <2>5 DEF d
<1>11. Table(moves)
  <2>1. moves = [n \in 1..Len(taken) |-> moves[n]]
    BY <1>8 DEF moves, Deduction
  <2>2. \A n \in 1..Len(taken) : moves[n] \in AnyMovement
    BY <1>8, <1>10
  <2> QED  BY <1>8, <2>1, <2>2, TableOf
<1>12. Moves(c, moves)
  <2>1. \A n \in DOMAIN moves : moves[n].lot \in locked[c]
    BY <1>6, <1>7, <1>8, <1>10
  <2>2. \A n, k \in DOMAIN moves : moves[n].lot = moves[k].lot => n = k
    BY <1>5, <1>8, <1>10
  <2> QED  BY <1>8, <1>10, <1>11, <2>1, <2>2 DEF Moves, s, line
<1>13. SumOfDeltas(moves, DOMAIN moves) = -s.amount
  <2>1. IsFiniteSet(DOMAIN taken)
    BY <1>8, FS_Interval
  <2>2. \A n \in DOMAIN taken : Given(taken)[n].delta \in Int /\ moves[n].delta = Given(taken)[n].delta
    BY <1>10 DEF Given
  <2>3. SumOfDeltas(moves, DOMAIN taken) = SumOfDeltas(Given(taken), DOMAIN taken)
    BY <2>1, <2>2, SumSame
  <2>4. SumOfDeltas(moves, DOMAIN moves) = SumOfDeltas(moves, DOMAIN taken)
    BY <1>8, Zenon
  <2> QED  BY <1>5, <2>3, <2>4
<1>14. ASSUME NEW n \in DOMAIN moves, NEW a \in locked[c], Usable(StockLot(c, a), today),
              Earlier(StockLot(c, a), StockLot(c, moves[n].lot))
       PROVE  \E k \in DOMAIN moves : moves[k].lot = a /\ moves[k].result = 0
  <2>1. a \in L
    BY <1>14 DEF L, Usable, StockLot
  <2>2. moves[n].lot = taken[n].lot /\ taken[n].lot \in L /\ n \in DOMAIN taken
    BY <1>7, <1>8, <1>10
  <2>3. PICK k \in DOMAIN taken : taken[k].lot = a /\ taken[k].amount = Balance(c, a)
    <3>1. /\ StockLot(c, a) \in stock0 /\ StockLot(c, taken[n].lot) \in stock0
          /\ StockLot(c, a).id = a /\ StockLot(c, a).quantity = Balance(c, a)
          /\ StockLot(c, taken[n].lot).id = taken[n].lot
      BY <1>6, <2>1, <2>2
    <3>2. Earlier(StockLot(c, a), StockLot(c, taken[n].lot))
      BY <1>14, <2>2
    <3> QED  BY <1>5, <1>14, <2>2, <3>1, <3>2
  <2>4. Balance(c, a) \in Int
    BY <1>6, <2>1
  <2>5. moves[k].lot = a /\ moves[k].result = Balance(c, a) + (-Balance(c, a)) /\ k \in DOMAIN moves
    BY <1>8, <1>10, <2>3
  <2> QED  BY <2>4, <2>5
<1>15. \A n \in DOMAIN moves : Balance(c, moves[n].lot) > 0 /\ Usable(StockLot(c, moves[n].lot), today)
  BY <1>6, <1>7, <1>8, <1>10
<1>16. Deducted(c, moves)
  BY <1>8, <1>10, <1>13, <1>14, <1>15 DEF Deducted, s
<1> QED  BY <1>12, <1>16 DEF moves, taken, s

LEMMA NetType ==
  ASSUME Types, NEW line, NEW l
  PROVE  NetOf(line, l) \in Int
<1>1. Table(inventory_movement)
  BY DEF Types, StoreTypes, LockTypes, CallTypes, TransactionTypes, Shape, Table
<1> QED  BY <1>1, SumsTyped DEF NetOf

Reversals(c, i) == {Reversal(c, l, i) : l \in locked[c]}
LEMMA ReversalMoves ==
  ASSUME Types, NEW c \in Call, pc[c] = "locking",
         \A v \in Reversals(c, Head(work[c]).ingredient) : Fits(v)
  PROVE  LET moves == Sorted(Reversals(c, Head(work[c]).ingredient), LAMBDA a, b : a.lot < b.lot) IN
         Moves(c, moves) /\ Reversed(c, moves)
<1> DEFINE reversals == Reversals(c, Head(work[c]).ingredient)
           moves == Sorted(reversals, LAMBDA a, b : a.lot < b.lot)
           i == Head(work[c]).ingredient
<1>1. i \in Ingredient
  <2>1. work[c] # <<>>
    BY DEF Types, StoreTypes, LockTypes, CallTypes, TransactionTypes, Shape
  <2> QED  BY <2>1, HeadOfWork
<1>2. locked[c] \in SUBSET Lot /\ own[c] \in CompletionId /\ IsFiniteSet(locked[c]) /\ Lot \subseteq Nat
  <2>1. locked[c] \in SUBSET Lot /\ own[c] \in CompletionId
    BY DEF Types, StoreTypes, LockTypes, CallTypes, TransactionTypes, Shape, Active
  <2> QED  BY <2>1, CompletionAssumption, FS_Subset
<1> HIDE DEF i
<1>2a. <<own[c], i>> \in LineId
  BY <1>1, <1>2 DEF LineId
<1>3. \A l \in locked[c] :
        /\ Reversal(c, l, i) \in AnyMovement
        /\ Reversal(c, l, i).lot = l /\ Reversal(c, l, i).line = <<own[c], i>>
        /\ Reversal(c, l, i).delta = -NetOf(<<own[c], i>>, l)
        /\ Reversal(c, l, i).result = Balance(c, l) + Reversal(c, l, i).delta
        /\ Reversal(c, l, i).type = "reversal"
  <2> SUFFICES ASSUME NEW l \in locked[c]
               PROVE  /\ Reversal(c, l, i) \in AnyMovement
                      /\ Reversal(c, l, i).lot = l /\ Reversal(c, l, i).line = <<own[c], i>>
                      /\ Reversal(c, l, i).delta = -NetOf(<<own[c], i>>, l)
                      /\ Reversal(c, l, i).result = Balance(c, l) + Reversal(c, l, i).delta
                      /\ Reversal(c, l, i).type = "reversal"
    OBVIOUS
  <2>1. Balance(c, l) \in Int /\ NetOf(<<own[c], i>>, l) \in Int /\ l \in Lot
    BY <1>2, BalanceType, NetType
  <2> DEFINE line0 == <<own[c], i>>
  <2>2. Reversal(c, l, i) = [lot |-> l, line |-> line0, delta |-> -NetOf(line0, l),
                             result |-> Balance(c, l) - NetOf(line0, l), type |-> "reversal"]
    BY DEF Reversal, Movement
  <2>3. line0 \in LineId /\ NetOf(line0, l) \in Int
    BY <1>2a, <2>1
  <2> HIDE DEF line0
  <2>4. /\ Reversal(c, l, i) \in AnyMovement
        /\ Reversal(c, l, i).lot = l /\ Reversal(c, l, i).line = line0
        /\ Reversal(c, l, i).delta = -NetOf(line0, l)
        /\ Reversal(c, l, i).result = Balance(c, l) + Reversal(c, l, i).delta
        /\ Reversal(c, l, i).type = "reversal"
    BY <2>1, <2>2, <2>3 DEF AnyMovement, Kinds
  <2> QED  BY <2>4 DEF line0
<1>4. reversals = {Reversal(c, l, i) : l \in locked[c]}
  BY DEF i, Reversals
<1> HIDE DEF reversals
<1>5. IsFiniteSet(reversals) /\ ByLot(reversals)
  <2> DEFINE f == [l \in locked[c] |-> Reversal(c, l, i)]
  <2>1. f \in Surjection(locked[c], reversals)
    BY <1>4 DEF Surjection
  <2>2. IsFiniteSet(reversals)
    <3> HIDE DEF f
    <3> QED  BY <1>2, <2>1, FS_Surjection
  <2>3. ByLot(reversals)
    <3> SUFFICES ASSUME NEW x \in reversals, NEW y \in reversals
                 PROVE  x.lot \in Nat /\ (x.lot = y.lot => x = y)
      BY DEF ByLot
    <3>1. PICK a \in locked[c], b \in locked[c] : x = Reversal(c, a, i) /\ y = Reversal(c, b, i)
      BY <1>4
    <3>2. x.lot = a /\ y.lot = b
      BY <1>3, <3>1
    <3> QED  BY <1>2, <3>1, <3>2
  <2> QED  BY <2>2, <2>3
<1>6. moves \in SetToSeqs(reversals)
  BY <1>5, SortedByLot, Zenon
<1> HIDE DEF moves
<1>7. /\ moves \in Seq(reversals) /\ DOMAIN moves = 1..Len(moves) /\ Len(moves) \in Nat
      /\ \A n, k \in DOMAIN moves : moves[n] = moves[k] => n = k
      /\ \A n \in DOMAIN moves : moves[n] \in reversals
      /\ \A x \in reversals : \E n \in DOMAIN moves : moves[n] = x
  BY <1>5, <1>6, EnumerationProperties
<1>8. Table(moves)
  <2>1. \A x \in reversals : x \in AnyMovement
    BY <1>3, <1>4
  <2>2. \A n \in DOMAIN moves : moves[n] \in AnyMovement
    BY <1>7, <2>1
  <2>3. moves = [n \in 1..Len(moves) |-> moves[n]]
    BY <1>7
  <2> QED  BY <1>7, <2>2, <2>3, TableOf
<1>9. \A n \in DOMAIN moves :
        /\ moves[n].lot \in locked[c] /\ moves[n].line = <<own[c], i>>
        /\ moves[n].delta = -NetOf(<<own[c], i>>, moves[n].lot)
        /\ moves[n].result = Balance(c, moves[n].lot) + moves[n].delta
        /\ moves[n].type = "reversal" /\ moves[n].result <= MaxAmount
  <2> SUFFICES ASSUME NEW n \in DOMAIN moves
               PROVE  /\ moves[n].lot \in locked[c] /\ moves[n].line = <<own[c], i>>
                      /\ moves[n].delta = -NetOf(<<own[c], i>>, moves[n].lot)
                      /\ moves[n].result = Balance(c, moves[n].lot) + moves[n].delta
                      /\ moves[n].type = "reversal" /\ moves[n].result <= MaxAmount
    OBVIOUS
  <2>1. PICK l \in locked[c] : moves[n] = Reversal(c, l, i)
    BY <1>4, <1>7
  <2>2. Fits(moves[n])
    BY <1>7 DEF reversals
  <2> QED  BY <1>3, <2>1, <2>2 DEF Fits
<1>10. \A l \in locked[c] : \E n \in DOMAIN moves : moves[n].lot = l
  <2> SUFFICES ASSUME NEW l \in locked[c] PROVE \E n \in DOMAIN moves : moves[n].lot = l
    OBVIOUS
  <2>1. PICK n \in DOMAIN moves : moves[n] = Reversal(c, l, i)
    BY <1>4, <1>7
  <2> QED  BY <1>3, <2>1
<1>11. \A n, k \in DOMAIN moves : moves[n].lot = moves[k].lot => n = k
  BY <1>5, <1>7 DEF ByLot
<1>12. Moves(c, moves) /\ Reversed(c, moves)
  BY <1>8, <1>9, <1>10, <1>11 DEF Moves, Reversed, i
<1> QED  BY <1>12, Zenon DEF moves, reversals

LEMMA Constants ==
  /\ NoRow \in RowType /\ NoLines \in [Ingredient -> 0..MaxAmount] /\ NoReply \in ReplyType
  /\ \A status \in Status : Refusal(status) \in ReplyType
  /\ MaxAmount \in Nat /\ LastDay \in Nat
<1>1. MaxAmount \in Nat /\ LastDay \in Nat
  BY ScaleAssumption, CompletionAssumption
<1> QED  BY <1>1 DEF NoRow, RowType, State, NoLines, NoReply, ReplyType, Refusal, Status

LEMMA TypesInit == Init => Types
<1> SUFFICES ASSUME Init PROVE Types
  OBVIOUS
<1>1. StoreTypes
  BY Constants, CompletionAssumption, ScaleAssumption DEF Init, StoreTypes
<1>2. LockTypes /\ CallTypes /\ TransactionTypes
  BY Constants DEF Init, LockTypes, CallTypes, TransactionTypes
<1>3. Shape
  BY DEF Init, Shape, Active
<1> QED  BY <1>1, <1>2, <1>3 DEF Types

LEMMA EndedTypes ==
  ASSUME Types, NEW c \in Call, EndTransaction(c)
  PROVE  LockTypes' /\ TransactionTypes'
BY Constants DEF Types, EndTransaction, LockTypes, TransactionTypes, Released

\* A transaction ends in a state in which it has no private state left.
LEMMA EndedShape ==
  ASSUME Types, NEW c \in Call, EndTransaction(c), NEW p \in {"done", "lost"},
         pc' = [pc EXCEPT ![c] = p]
  PROVE  Shape'
BY DEF Types, Shape, Active, EndTransaction, TransactionTypes, CallTypes

LEMMA RefuseTypes ==
  ASSUME Types, NEW c \in Call, NEW status \in Status, Refuse(c, status)
  PROVE  Types'
<1>1. EndTransaction(c) /\ pc' = [pc EXCEPT ![c] = "done"]
  BY DEF Refuse, Answer
<1>2. LockTypes' /\ TransactionTypes' /\ Shape'
  BY <1>1, EndedTypes, EndedShape
<1>3. StoreTypes'
  BY DEF Types, Refuse, StoreTypes, stock, records, world
<1>4. CallTypes'
  BY Constants DEF Types, Refuse, Answer, CallTypes
<1> QED  BY <1>2, <1>3, <1>4 DEF Types

LEMMA ReplayTypes ==
  ASSUME Types, NEW c \in Call, NEW r \in completion_operation, Replay(c, r), UNCHANGED request
  PROVE  CallTypes' /\ pc' = [pc EXCEPT ![c] = "done"]
<1>1. r.result \in ReplyType /\ Refusal("key_conflict") \in ReplyType
  BY Constants DEF Types, StoreTypes, Status
<1> QED  BY <1>1 DEF Types, Replay, Answer, CallTypes

LEMMA FindTypes ==
  ASSUME Types, NEW c \in Call, FindReceipt(c) \/ FindNoReceipt(c)
  PROVE  Types'
<1>1. StoreTypes' /\ LockTypes' /\ TransactionTypes'
  BY DEF Types, FindReceipt, FindNoReceipt, StoreTypes, LockTypes, TransactionTypes,
         stock, records, world, locks, transaction
<1>2. CASE FindNoReceipt(c)
  <2>1. CallTypes'
    BY <1>2 DEF Types, FindNoReceipt, CallTypes
  <2>2. Shape'
    BY <1>2 DEF Types, FindNoReceipt, CallTypes, Shape, Active, transaction
  <2> QED  BY <1>1, <2>1, <2>2 DEF Types
<1>3. CASE FindReceipt(c)
  <2>1. PICK r \in completion_operation : Replay(c, r)
    BY <1>3 DEF FindReceipt, Receipts
  <2>2. UNCHANGED request
    BY <1>3 DEF FindReceipt
  <2>3. CallTypes' /\ pc' = [pc EXCEPT ![c] = "done"]
    BY <2>1, <2>2, ReplayTypes
  <2>4. Shape'
    BY <1>3, <2>3 DEF Types, FindReceipt, CallTypes, Shape, Active, transaction
  <2> QED  BY <1>1, <2>3, <2>4 DEF Types
<1> QED  BY <1>2, <1>3

LEMMA UnusedIdentifier ==
  ASSUME Unused # {}
  PROVE  Min(Unused) \in Unused /\ Min(Unused) \in CompletionId
<1>1. Unused \in SUBSET Nat
  BY CompletionAssumption DEF Unused
<1>2. Min(Unused) \in Unused
  BY <1>1, MinOfNumbers
<1> QED  BY <1>2 DEF Unused

LEMMA RecordTypes ==
  ASSUME Types, NEW c \in Call, RecordCompletion(c)
  PROVE  Types'
<1> DEFINE q == request[c]
           consumed == LinesOf(q).value
           w == [i \in DOMAIN consumed |-> Deduct(consumed[i].ingredient, consumed[i].actual)]
           m == Min(Unused)
           r == [version |-> 1, state |-> "recorded", entry |-> q.entry,
                 outcome |-> IF q.op = Complete THEN "cooked" ELSE "skipped"]
<1>1. q \in Request /\ q.op \in {Complete, Skip} /\ LinesOf(q).ok /\ Unused # {}
  BY DEF Types, CallTypes, RecordCompletion
<1>2. consumed \in Seq(LineType)
  <2> HIDE DEF q
  <2> QED  BY <1>1, LinesTyped
<1>3. w \in Seq(StatementType)
  <2> HIDE DEF consumed
  <2> QED  BY <1>2, DeductionsTyped
<1>4. m \in CompletionId
  BY <1>1, UnusedIdentifier
<1>5. r \in RowType
  <2>1. q.entry \in Entry
    BY <1>1, CompletionAssumption DEF WellFormed
  <2> QED  BY <2>1 DEF RowType, State
<1>6. /\ plan_lock' = [plan_lock EXCEPT ![PlanFor(c)] = c] /\ own' = [own EXCEPT ![c] = m] /\ row' = [row EXCEPT ![c] = r]
      /\ work' = [work EXCEPT ![c] = w] /\ pc' = [pc EXCEPT ![c] = "work"]
      /\ UNCHANGED <<stock, records, world, completion_lock, lot_lock, request, reply,
                     lines, scan, locked, pending>>
  BY DEF RecordCompletion
<1> HIDE DEF q, consumed, w, m, r
<1>7. StoreTypes'
  BY <1>6 DEF Types, StoreTypes, stock, records, world
<1>8. LockTypes' /\ CallTypes'
  BY <1>6 DEF Types, LockTypes, CallTypes
<1>9. TransactionTypes'
  BY <1>3, <1>4, <1>5, <1>6 DEF Types, TransactionTypes
<1>10. Shape'
  BY <1>4, <1>6 DEF Types, Shape, Active, TransactionTypes, CallTypes
<1> QED  BY <1>7, <1>8, <1>9, <1>10 DEF Types

LEMMA StatementsTyped ==
  ASSUME NEW q \in Request, q.op \in {Correct, Reopen}, NEW s \in Statements(q)
  PROVE  /\ s \in Seq(StatementType)
         /\ q.op = Correct => s = <<Undo(q.ingredient), Deduct(q.ingredient, q.amount)>>
         /\ q.op # Correct =>
              /\ \A n \in DOMAIN s : s[n] = Undo(s[n].ingredient) /\ s[n].ingredient \in LineIngredients(q.completion)
              /\ \A n, k \in DOMAIN s : n # k => s[n].ingredient # s[k].ingredient
              /\ {s[n].ingredient : n \in DOMAIN s} = LineIngredients(q.completion)
<1>0. MaxAmount \in Nat /\ \A i \in Ingredient : Undo(i) \in StatementType /\ Undo(i).ingredient = i
  BY ScaleAssumption DEF Undo, StatementType
<1>1. CASE q.op = Correct
  <2>1. q.ingredient \in Ingredient /\ q.amount \in 1..MaxAmount
    BY <1>1, CompletionAssumption DEF WellFormed
  <2>2. s = <<Undo(q.ingredient), Deduct(q.ingredient, q.amount)>>
    BY <1>1 DEF Statements
  <2>3. Deduct(q.ingredient, q.amount) \in StatementType
    BY <1>0, <2>1 DEF Deduct, StatementType
  <2> QED  BY <1>0, <1>1, <2>1, <2>2, <2>3
<1>2. CASE q.op # Correct
  <2> DEFINE I == LineIngredients(q.completion)
  <2>1. IsFiniteSet(I) /\ I \subseteq Ingredient
    <3>1. I \subseteq Ingredient
      BY DEF LineIngredients
    <3> QED  BY <3>1, CompletionAssumption, FS_Subset
  <2>2. PICK t \in SetToSeqs(I) : s = [n \in DOMAIN t |-> Undo(t[n])]
    BY <1>2 DEF Statements
  <2> HIDE DEF I
  <2>3. /\ t \in Seq(I) /\ DOMAIN t = 1..Len(t) /\ Len(t) \in Nat
        /\ \A i, j \in DOMAIN t : t[i] = t[j] => i = j
        /\ \A i \in DOMAIN t : t[i] \in I
        /\ \A x \in I : \E i \in DOMAIN t : t[i] = x
    BY <2>1, EnumerationProperties
  <2>4. DOMAIN s = DOMAIN t /\ \A n \in DOMAIN t : s[n] = Undo(t[n])
    BY <2>2
  <2>5. \A n \in DOMAIN t : s[n] \in StatementType /\ s[n].ingredient = t[n] /\ s[n] = Undo(s[n].ingredient)
    BY <1>0, <2>1, <2>3, <2>4
  <2>6. s \in Seq(StatementType)
    <3>1. s = [n \in 1..Len(t) |-> s[n]]
      BY <2>2, <2>3
    <3>2. \A n \in 1..Len(t) : s[n] \in StatementType
      BY <2>3, <2>5
    <3> HIDE <2>2
    <3> QED  BY <2>3, <3>1, <3>2
  <2>7. {s[n].ingredient : n \in DOMAIN s} = I
    BY <2>3, <2>4, <2>5
  <2> QED  BY <1>2, <2>3, <2>4, <2>5, <2>6, <2>7, SMTT(30) DEF I
<1> QED  BY <1>1, <1>2

LEMMA ChangeTypes ==
  ASSUME Types, NEW c \in Call, ChangeCompletion(c)
  PROVE  Types'
<1> DEFINE q == request[c]
           m == q.completion
           r == [meal_completion[m] EXCEPT !.version = @ + 1, !.state = ChangedState(q)]
<1>1. q \in Request /\ q.op \in {Correct, Reopen}
  BY DEF Types, CallTypes, ChangeCompletion
<1>2. m \in CompletionId
  BY <1>1, CompletionAssumption DEF WellFormed, Correct, Reopen, Complete, Skip
<1>3. r \in RowType
  <2>1. meal_completion[m] \in RowType
    BY <1>2 DEF Types, StoreTypes
  <2>2. ChangedState(q) \in State
    BY DEF ChangedState, State
  <2>3. ASSUME NEW x \in RowType, NEW st \in State
        PROVE  [x EXCEPT !.version = @ + 1, !.state = st] \in RowType
    <3>1. x.version + 1 \in Nat
      BY DEF RowType
    <3> HIDE DEF State
    <3> QED  BY <3>1 DEF RowType
  <2> QED  BY <2>1, <2>2, <2>3, Zenon
<1>4. PICK s \in Statements(q) : work' = [work EXCEPT ![c] = s]
  BY DEF ChangeCompletion
<1>5. s \in Seq(StatementType)
  <2> HIDE DEF q
  <2> QED  BY <1>1, StatementsTyped
<1>6. /\ completion_lock' = [completion_lock EXCEPT ![m] = c]
      /\ own' = [own EXCEPT ![c] = m] /\ row' = [row EXCEPT ![c] = r]
      /\ pc' = [pc EXCEPT ![c] = "work"]
      /\ UNCHANGED <<stock, records, world, plan_lock, lot_lock, request, reply,
                     lines, scan, locked, pending>>
  BY DEF ChangeCompletion
<1> HIDE DEF q, m, r
<1>7. StoreTypes'
  BY <1>6 DEF Types, StoreTypes, stock, records, world
<1>8. LockTypes' /\ CallTypes'
  BY <1>2, <1>6 DEF Types, LockTypes, CallTypes
<1>9. TransactionTypes'
  BY <1>2, <1>3, <1>4, <1>5, <1>6 DEF Types, TransactionTypes
<1>10. Shape'
  BY <1>2, <1>4, <1>6 DEF Types, Shape, Active, TransactionTypes, CallTypes
<1> QED  BY <1>7, <1>8, <1>9, <1>10 DEF Types
LEMMA ScanTyped ==
  ASSUME Types, NEW c \in Call, NEW i \in Ingredient
  PROVE  /\ ScanFEFO(c, i) \in Seq(Lot) /\ ScanReversed(c, i) \in Seq(Lot)
         /\ \A n, k \in DOMAIN ScanFEFO(c, i) : ScanFEFO(c, i)[n] = ScanFEFO(c, i)[k] => n = k
         /\ \A n, k \in DOMAIN ScanReversed(c, i) : ScanReversed(c, i)[n] = ScanReversed(c, i)[k] => n = k
         /\ \A n, k \in DOMAIN ScanFEFO(c, i) : n < k => Precedes(ScanFEFO(c, i)[n], ScanFEFO(c, i)[k])
         /\ {ScanFEFO(c, i)[n] : n \in DOMAIN ScanFEFO(c, i)}
              = {l \in Lot : LotIngredient[l] = i /\ Balance(c, l) > 0}
         /\ {ScanReversed(c, i)[n] : n \in DOMAIN ScanReversed(c, i)}
              = {l \in Lot : NetOf(<<own[c], i>>, l) < 0}
<1>0. IsFiniteSet(Lot) /\ Lot \subseteq Nat
  BY CompletionAssumption
<1> DEFINE found == {l \in Lot : LotIngredient[l] = i /\ Balance(c, l) > 0}
           S == {StockLot(c, l) : l \in found}
           sorted == Sorted(S, Earlier)
           fefo == [n \in DOMAIN sorted |-> sorted[n].id]
<1>1. ScanFEFO(c, i) = fefo
  BY DEF ScanFEFO
<1>2. StockLots(S)
  <2>1. found \in SUBSET Lot
    OBVIOUS
  <2> HIDE DEF found
  <2> QED  BY <2>1, HeldStock
<1>3. /\ sorted \in SetToSeqs(S) /\ IsFiniteSet(S)
      /\ \A n, k \in DOMAIN sorted : n < k => Earlier(sorted[n], sorted[k])
  <2> HIDE DEF S
  <2> QED  BY <1>2, SortedByExpiration DEF StockLots
<1>4. /\ DOMAIN sorted = 1..Len(sorted) /\ Len(sorted) \in Nat
      /\ \A n, k \in DOMAIN sorted : sorted[n] = sorted[k] => n = k
      /\ \A n \in DOMAIN sorted : sorted[n] \in S
      /\ \A x \in S : \E n \in DOMAIN sorted : sorted[n] = x
  <2> HIDE DEF S, sorted
  <2> QED  BY <1>3, EnumerationProperties
<1>5. \A x \in S : x.id \in found
  BY DEF StockLot
<1>6. \A l \in found : StockLot(c, l) \in S /\ StockLot(c, l).id = l
  BY DEF StockLot
<1>6a. \A x, y \in S : Earlier(x, y) => Precedes(x.id, y.id)
  <2>1. ASSUME NEW k, NEW l, Earlier(StockLot(c, k), StockLot(c, l)) PROVE Precedes(k, l)
    BY <2>1 DEF Earlier, Precedes, ExpiresSooner, StockLot
  <2>2. \A x \in S : \E l \in found : x = StockLot(c, l) /\ x.id = l
    BY <1>6
  <2> HIDE DEF S
  <2> QED  BY <2>1, <2>2
<1>7. \A x, y \in S : x.id = y.id => x = y
  BY <1>2 DEF StockLots
<1>8. DOMAIN fefo = DOMAIN sorted /\ \A n \in DOMAIN sorted : fefo[n] = sorted[n].id
  OBVIOUS
<1>9. found \subseteq Lot
  OBVIOUS
<1> HIDE DEF found, S, sorted
<1>10. fefo \in Seq(found) /\ fefo \in Seq(Lot)
  BY <1>4, <1>5, <1>9
<1> HIDE DEF fefo
<1>11. \A n, k \in DOMAIN fefo : fefo[n] = fefo[k] => n = k
  BY <1>4, <1>7, <1>8
<1>11a. \A n, k \in DOMAIN fefo : n < k => Precedes(fefo[n], fefo[k])
  BY <1>3, <1>4, <1>6a, <1>8
<1>12. {fefo[n] : n \in DOMAIN fefo} = found
  <2>1. \A n \in DOMAIN fefo : fefo[n] \in found
    BY <1>4, <1>5, <1>8
  <2>2. ASSUME NEW l \in found PROVE \E n \in DOMAIN fefo : fefo[n] = l
    <3>1. PICK n \in DOMAIN sorted : sorted[n] = StockLot(c, l)
      BY <1>4, <1>6
    <3> QED  BY <1>6, <1>8, <3>1
  <2> QED  BY <2>1, <2>2
<1> DEFINE R == {l \in Lot : NetOf(<<own[c], i>>, l) < 0}
           reversed == Sorted(R, <)
<1>13. ScanReversed(c, i) = reversed
  BY DEF ScanReversed
<1>14. R \in SUBSET Nat /\ IsFiniteSet(R) /\ R \subseteq Lot
  BY <1>0, FS_Subset
<1> HIDE DEF R
<1>15. reversed \in SetToSeqs(R)
  BY <1>14, SortedNumbers, Zenon
<1> HIDE DEF reversed
<1>16. /\ reversed \in Seq(R)
       /\ \A n, k \in DOMAIN reversed : reversed[n] = reversed[k] => n = k
       /\ \A n \in DOMAIN reversed : reversed[n] \in R
       /\ \A x \in R : \E n \in DOMAIN reversed : reversed[n] = x
  BY <1>14, <1>15, EnumerationProperties
<1>17. reversed \in Seq(Lot)
  <2>1. \A n \in DOMAIN reversed : reversed[n] \in Lot
    BY <1>14, <1>16
  <2>2. DOMAIN reversed = 1..Len(reversed) /\ Len(reversed) \in Nat
        /\ reversed = [n \in 1..Len(reversed) |-> reversed[n]]
    BY <1>16
  <2> QED  BY <2>1, <2>2
<1>18. {reversed[n] : n \in DOMAIN reversed} = R
  BY <1>16
<1>19. {ScanFEFO(c, i)[n] : n \in DOMAIN ScanFEFO(c, i)} = found
  BY <1>1, <1>12, Zenon
<1>20. {ScanReversed(c, i)[n] : n \in DOMAIN ScanReversed(c, i)} = R
  BY <1>13, <1>18, Zenon
<1> QED  BY <1>1, <1>10, <1>11, <1>11a, <1>13, <1>16, <1>17, <1>19, <1>20 DEF found, R

LEMMA BeginTypes ==
  ASSUME Types, NEW c \in Call, BeginStatement(c)
  PROVE  Types'
<1> DEFINE s == Head(work[c])
           listed == IF s.kind = "deduct" THEN ScanFEFO(c, s.ingredient) ELSE ScanReversed(c, s.ingredient)
<1>1. /\ work[c] # <<>> /\ pc[c] = "work"
      /\ scan' = [scan EXCEPT ![c] = listed]
      /\ lines' = [lines EXCEPT ![c][s.ingredient] = s.amount]
      /\ pc' = [pc EXCEPT ![c] = "locking"]
      /\ UNCHANGED <<stock, records, world, locks, own, row, work, locked, pending, request, reply>>
  BY DEF BeginStatement
<1>2. s.ingredient \in Ingredient /\ s.amount \in 0..MaxAmount
  BY <1>1, HeadOfWork
<1>3. listed \in Seq(Lot)
  BY <1>2, ScanTyped
<1> HIDE DEF s, listed
<1>4. StoreTypes'
  BY <1>1 DEF Types, StoreTypes, stock, records, world
<1>5. LockTypes' /\ CallTypes'
  BY <1>1 DEF Types, LockTypes, CallTypes, locks
<1>6. TransactionTypes'
  BY <1>1, <1>2, <1>3 DEF Types, TransactionTypes
<1>7. Shape'
  BY <1>1 DEF Types, Shape, Active, CallTypes
<1> QED  BY <1>4, <1>5, <1>6, <1>7 DEF Types

LEMMA LockTypesKept ==
  ASSUME Types, NEW c \in Call, LockNextLot(c)
  PROVE  Types' /\ Head(scan[c]) \in Lot
<1> DEFINE l == Head(scan[c])
<1>1. /\ pc[c] = "locking" /\ scan[c] # <<>>
      /\ lot_lock' = [lot_lock EXCEPT ![l] = c]
      /\ scan' = [scan EXCEPT ![c] = Tail(@)]
      /\ locked' = [locked EXCEPT ![c] = @ \cup {l}]
      /\ UNCHANGED <<stock, records, world, plan_lock, completion_lock, own, row, lines,
                     work, pending, pc, request, reply>>
  BY DEF LockNextLot
<1>2. l \in Lot /\ Tail(scan[c]) \in Seq(Lot)
  BY <1>1 DEF Types, TransactionTypes
<1> HIDE DEF l
<1>4. StoreTypes'
  BY <1>1 DEF Types, StoreTypes, stock, records, world
<1>5. LockTypes' /\ CallTypes'
  BY <1>1, <1>2 DEF Types, LockTypes, CallTypes
<1>6. TransactionTypes'
  BY <1>1, <1>2 DEF Types, TransactionTypes
<1>7. Shape'
  BY <1>1 DEF Types, Shape, Active, CallTypes
<1> QED  BY <1>2, <1>4, <1>5, <1>6, <1>7 DEF Types, l

LEMMA EndStatementTypes ==
  ASSUME Types, NEW c \in Call, pc[c] = "locking", NEW moves, Table(moves), EndStatement(c, moves)
  PROVE  Types'
<1>1. /\ pending' = [pending EXCEPT ![c] = @ \o moves]
      /\ work' = [work EXCEPT ![c] = Tail(@)]
      /\ locked' = [locked EXCEPT ![c] = {}]
      /\ pc' = [pc EXCEPT ![c] = "work"]
      /\ UNCHANGED <<stock, records, world, locks, own, row, lines, scan, request, reply>>
  BY DEF EndStatement
<1>2. Tail(work[c]) \in Seq(StatementType)
  <2>1. work[c] # <<>>
    BY DEF Types, Shape
  <2> QED  BY <2>1, HeadOfWork
<1>3. pending[c] \o moves \in Seq(AnyMovement)
  BY DEF Types, TransactionTypes, Table
<1>4. StoreTypes'
  BY <1>1 DEF Types, StoreTypes, stock, records, world
<1>5. LockTypes' /\ CallTypes'
  BY <1>1 DEF Types, LockTypes, CallTypes, locks
<1>6. TransactionTypes'
  BY <1>1, <1>2, <1>3 DEF Types, TransactionTypes
<1>7. Shape'
  BY <1>1 DEF Types, Shape, Active, CallTypes
<1> QED  BY <1>4, <1>5, <1>6, <1>7 DEF Types

\* A statement ends with the movements it has to write or refuses the request.
LEMMA StatementEnds ==
  ASSUME Types, NEW c \in Call, DeductLine(c) \/ ReverseLine(c)
  PROVE  \/ \E status \in Status : Refuse(c, status)
         \/ /\ pc[c] = "locking" /\ scan[c] = <<>> /\ work[c] # <<>>
            /\ \E moves : /\ EndStatement(c, moves) /\ Moves(c, moves)
                          /\ Head(work[c]).kind = "deduct" => DeductLine(c) /\ Deducted(c, moves)
                          /\ Head(work[c]).kind # "deduct" => ReverseLine(c) /\ Reversed(c, moves)
<1> DEFINE s == Head(work[c])
<1>0. (pc[c] = "locking" => work[c] # <<>>) /\ "insufficient" \in Status /\ "balance" \in Status
  BY DEF Types, Shape, Status
<1>1. CASE DeductLine(c) /\ ~Consumption(c, s).ok
  BY <1>0, <1>1, Zenon DEF DeductLine
<1>2. CASE DeductLine(c) /\ Consumption(c, s).ok
  <2>1. pc[c] = "locking" /\ scan[c] = <<>> /\ s.kind = "deduct"
        /\ \/ EndStatement(c, Deduction(c, s, Consumption(c, s).value))
           \/ Refuse(c, "insufficient")
    BY <1>2, Zenon DEF DeductLine, Deduction
  <2>2. Moves(c, Deduction(c, s, Consumption(c, s).value))
        /\ Deducted(c, Deduction(c, s, Consumption(c, s).value))
    BY <1>2, <2>1, DeductionMoves
  <2> QED  BY <1>0, <1>2, <2>1, <2>2
<1>3. CASE ReverseLine(c) /\ ~\A v \in Reversals(c, s.ingredient) : Fits(v)
  BY <1>0, <1>3, Zenon DEF ReverseLine, Reversals
<1>4. CASE ReverseLine(c) /\ \A v \in Reversals(c, s.ingredient) : Fits(v)
  <2> DEFINE moves == Sorted(Reversals(c, s.ingredient), LAMBDA a, b : a.lot < b.lot)
  <2>1. pc[c] = "locking" /\ scan[c] = <<>> /\ s.kind = "reverse"
        /\ (EndStatement(c, moves) \/ Refuse(c, "balance"))
    BY <1>4, Zenon DEF ReverseLine, Reversals
  <2>2. Moves(c, moves) /\ Reversed(c, moves)
    BY <1>4, <2>1, ReversalMoves, Zenon
  <2> HIDE DEF moves
  <2> QED  BY <1>0, <1>4, <2>1, <2>2
<1> QED  BY <1>1, <1>2, <1>3, <1>4

LEMMA StatementTypes ==
  ASSUME Types, NEW c \in Call, DeductLine(c) \/ ReverseLine(c)
  PROVE  Types'
<1>1. CASE \E status \in Status : Refuse(c, status)
  BY <1>1, RefuseTypes
<1>2. CASE pc[c] = "locking" /\ \E moves : EndStatement(c, moves) /\ Moves(c, moves)
  BY <1>2, EndStatementTypes DEF Moves
<1> QED  BY <1>1, <1>2, StatementEnds

LEMMA CommitTypes ==
  ASSUME Types, NEW c \in Call, Commit(c)
  PROVE  Types'
<1> DEFINE q == request[c]
           m == own[c]
           result == Accepted(m, row[c])
           event == [kind |-> Kind(q.op), completion |-> m, call |-> c]
           receipts == IF q.key = NoKey THEN {} ELSE {[request |-> q, result |-> result]}
           amounts == [i \in Ingredient |-> IF lines[c][i] > 0 THEN lines[c][i] ELSE actual_amount[m][i]]
<1>1. /\ pc[c] = "work"
      /\ quantity_on_hand' = [l \in Lot |-> Balance(c, l)]
      /\ inventory_movement' = inventory_movement \o pending[c]
      /\ meal_completion' = [meal_completion EXCEPT ![m] = row[c]]
      /\ actual_amount' = [actual_amount EXCEPT ![m] = amounts]
      /\ domain_event' = Append(domain_event, event)
      /\ completion_operation' = completion_operation \cup receipts
      /\ Answer(c, result) /\ EndTransaction(c)
      /\ UNCHANGED <<world, request>>
  BY DEF Commit
<1>2. m \in CompletionId
  BY <1>1 DEF Types, Shape, Active
<1>3. result \in ReplyType
  <2>1. row[c] \in RowType
    BY DEF Types, TransactionTypes
  <2> QED  BY <1>2, <2>1 DEF Accepted, NoReply, ReplyType, RowType, Status
<1>4. event \in [kind : {"meal_completed", "meal_line_corrected", "meal_reopened"},
                 completion : CompletionId, call : Call]
  <2>1. q.op \in {Complete, Skip, Correct, Reopen}
    BY CompletionAssumption DEF Types, CallTypes, WellFormed
  <2>2. Kind(q.op) \in {"meal_completed", "meal_line_corrected", "meal_reopened"}
    BY <2>1 DEF Kind, Complete, Skip, Correct, Reopen
  <2> HIDE DEF q
  <2> QED  BY <1>2, <2>2
<1>5. amounts \in [Ingredient -> 0..MaxAmount]
  BY <1>2 DEF Types, StoreTypes, TransactionTypes
<1>6. \A r \in receipts : r.result \in ReplyType
  BY <1>3
<1>7. [l \in Lot |-> Balance(c, l)] \in [Lot -> Int]
  BY BalanceType
<1>8. inventory_movement \o pending[c] \in Seq(AnyMovement)
  BY DEF Types, StoreTypes, TransactionTypes
<1> HIDE DEF q, m, result, event, receipts, amounts
<1>9. StoreTypes'
  <2>1. today' \in 0..LastDay /\ plan_state' \in [Plan -> {"approved", "draft"}]
    BY <1>1 DEF Types, StoreTypes, world
  <2>2. quantity_on_hand' \in [Lot -> Int] /\ inventory_movement' \in Seq(AnyMovement)
    BY <1>1, <1>7, <1>8
  <2>3. meal_completion' \in [CompletionId -> RowType]
    BY <1>1 DEF Types, StoreTypes, TransactionTypes
  <2>4. actual_amount' \in [CompletionId -> [Ingredient -> 0..MaxAmount]]
    BY <1>1, <1>5 DEF Types, StoreTypes
  <2>5. domain_event' \in Seq([kind : {"meal_completed", "meal_line_corrected", "meal_reopened"},
                               completion : CompletionId, call : Call])
    BY <1>1, <1>4 DEF Types, StoreTypes
  <2>6. \A r \in completion_operation' : r.result \in ReplyType
    BY <1>1, <1>6 DEF Types, StoreTypes
  <2> QED  BY <2>1, <2>2, <2>3, <2>4, <2>5, <2>6 DEF StoreTypes
<1>10. LockTypes' /\ TransactionTypes'
  BY <1>1, EndedTypes
<1>11. CallTypes' /\ pc' = [pc EXCEPT ![c] = "done"]
  BY <1>1, <1>3 DEF Types, CallTypes, Answer
<1>12. Shape'
  BY <1>1, <1>11, EndedShape
<1> QED  BY <1>9, <1>10, <1>11, <1>12 DEF Types

LEMMA CommitRefusedTypes ==
  ASSUME Types, NEW c \in Call, CommitRefused(c)
  PROVE  Types'
<1>1. PICK r \in completion_operation : Replay(c, r)
  BY DEF CommitRefused, Receipts
<1>2. EndTransaction(c) /\ UNCHANGED request /\ UNCHANGED <<stock, records, world>>
  BY DEF CommitRefused
<1>3. CallTypes' /\ pc' = [pc EXCEPT ![c] = "done"]
  BY <1>1, <1>2, ReplayTypes
<1>4. LockTypes' /\ TransactionTypes' /\ Shape'
  BY <1>2, <1>3, EndedTypes, EndedShape
<1>5. StoreTypes'
  BY <1>2 DEF Types, StoreTypes, stock, records, world
<1> QED  BY <1>3, <1>4, <1>5 DEF Types

LEMMA CrashTypes ==
  ASSUME Types, NEW c \in Call, Crash(c)
  PROVE  Types'
<1>1. EndTransaction(c) /\ pc' = [pc EXCEPT ![c] = "lost"]
      /\ UNCHANGED <<stock, records, world, request, reply>>
  BY DEF Crash
<1>2. LockTypes' /\ TransactionTypes' /\ Shape'
  BY <1>1, EndedTypes, EndedShape
<1>3. StoreTypes' /\ CallTypes'
  BY <1>1 DEF Types, StoreTypes, CallTypes, stock, records, world
<1> QED  BY <1>2, <1>3 DEF Types

LEMMA OtherTypes ==
  ASSUME Types, NEW l \in Lot, NEW d \in {-1, 1}, OtherMovement(l, d)
  PROVE  /\ Types'
         /\ LET row0 == Movement(l, NoLine, d, quantity_on_hand[l] + d, "other") IN
            /\ row0 \in AnyMovement /\ Table(<<row0>>)
            /\ inventory_movement' = inventory_movement \o <<row0>>
<1> DEFINE r == quantity_on_hand[l] + d
           row0 == Movement(l, NoLine, d, r, "other")
<1>1. /\ quantity_on_hand' = [quantity_on_hand EXCEPT ![l] = @ + d]
      /\ inventory_movement' = Append(inventory_movement, row0)
      /\ UNCHANGED <<records, world, locks, transaction, pc, request, reply>>
  BY DEF OtherMovement
<1>2. d \in Int /\ r \in Int
  BY DEF Types, StoreTypes
<1> HIDE DEF r
<1>3. row0 \in AnyMovement
  BY <1>2, MovementTyped DEF Kinds
<1> HIDE DEF row0
<1>4. inventory_movement' \in Seq(AnyMovement) /\ inventory_movement' = inventory_movement \o <<row0>>
      /\ Table(<<row0>>)
  BY <1>1, <1>3 DEF Types, StoreTypes, Table
<1>5. StoreTypes'
  <2>1. quantity_on_hand' \in [Lot -> Int]
    BY <1>1, <1>2 DEF Types, StoreTypes
  <2> QED  BY <1>1, <1>4, <2>1 DEF Types, StoreTypes, records, world
<1>6. LockTypes' /\ CallTypes' /\ TransactionTypes' /\ Shape'
  BY <1>1 DEF Types, LockTypes, CallTypes, TransactionTypes, Shape, Active, locks, transaction
<1> QED  BY <1>3, <1>4, <1>5, <1>6 DEF Types, row0, r

LEMMA TypesStep ==
  ASSUME Types, [Next]_vars
  PROVE  Types'
<1>1. ASSUME NEW c \in Call, Step(c) PROVE Types'
  <2>1. CASE FindReceipt(c) \/ FindNoReceipt(c)
    BY <2>1, FindTypes
  <2>2. CASE RecordCompletion(c)
    BY <2>2, RecordTypes
  <2>3. CASE RefuseCompletion(c)
    <3>1. \E status \in Status : Refuse(c, status)
      BY <2>3 DEF RefuseCompletion, Status
    <3> QED  BY <3>1, RefuseTypes
  <2>4. CASE ChangeCompletion(c)
    BY <2>4, ChangeTypes
  <2>5. CASE RefuseChange(c)
    <3>1. \E status \in Status : Refuse(c, status)
      BY <2>5 DEF RefuseChange, Status
    <3> QED  BY <3>1, RefuseTypes
  <2>6. CASE BeginStatement(c)
    BY <2>6, BeginTypes
  <2>7. CASE RefuseDuplicateLine(c)
    <3>1. Refuse(c, "already_recorded") /\ "already_recorded" \in Status
      BY <2>7 DEF RefuseDuplicateLine, Status
    <3> QED  BY <3>1, RefuseTypes
  <2>8. CASE LockNextLot(c)
    BY <2>8, LockTypesKept
  <2>9. CASE DeductLine(c) \/ ReverseLine(c)
    BY <2>9, StatementTypes
  <2>10. CASE Commit(c)
    BY <2>10, CommitTypes
  <2>11. CASE CommitRefused(c)
    BY <2>11, CommitRefusedTypes
  <2>12. CASE AbortDeadlocked(c)
    <3>1. Refuse(c, "error") /\ "error" \in Status
      BY <2>12 DEF AbortDeadlocked, Status
    <3> QED  BY <3>1, RefuseTypes
  <2> QED  BY <1>1, <2>1, <2>2, <2>3, <2>4, <2>5, <2>6, <2>7, <2>8, <2>9, <2>10, <2>11, <2>12 DEF Step
<1>2. ASSUME NEW c \in Call, Crash(c) PROVE Types'
  BY <1>2, CrashTypes
<1>3. ASSUME NEW l \in Lot, NEW d \in {-1, 1}, OtherMovement(l, d) PROVE Types'
  BY <1>3, OtherTypes
<1>4. ASSUME NEW p \in Plan, ChangePlan(p) PROVE Types'
  BY <1>4 DEF ChangePlan, Types, StoreTypes, LockTypes, CallTypes, TransactionTypes, Shape, Active,
              stock, records, locks, transaction
<1>5. CASE NextDay
  <2>1. today' \in 0..LastDay
    BY <1>5, CompletionAssumption DEF NextDay, Types, StoreTypes
  <2> QED  BY <1>5, <2>1 DEF NextDay, Types, StoreTypes, LockTypes, CallTypes, TransactionTypes, Shape, Active,
                stock, records, locks, transaction
<1>6. CASE UNCHANGED vars
  BY <1>6 DEF Types, StoreTypes, LockTypes, CallTypes, TransactionTypes, Shape, Active,
              vars, stock, records, world, locks, transaction
<1> QED  BY <1>1, <1>2, <1>3, <1>4, <1>5, <1>6 DEF Next, Environment, Terminated

(***************************************************************************)
(* Who holds what.                                                         *)
(***************************************************************************)

\* A step of another call, or of the environment, leaves a call's own state,
\* its locks and the rows it has locked as they are.
Private(c) ==
  /\ pc'[c] = pc[c] /\ request'[c] = request[c]
  /\ own'[c] = own[c] /\ row'[c] = row[c] /\ lines'[c] = lines[c] /\ work'[c] = work[c]
  /\ scan'[c] = scan[c] /\ locked'[c] = locked[c] /\ pending'[c] = pending[c]
Holds(c) ==
  /\ \A p \in Plan : (plan_lock'[p] = c) <=> (plan_lock[p] = c)
  /\ \A m \in CompletionId : (completion_lock'[m] = c) <=> (completion_lock[m] = c)
  /\ \A l \in Lot : (lot_lock'[l] = c) <=> (lot_lock[l] = c)
Held(c) ==
  /\ \A p \in Plan : plan_lock[p] = c => plan_state'[p] = plan_state[p]
  /\ Active(c) => /\ meal_completion'[own[c]] = meal_completion[own[c]]
                  /\ actual_amount'[own[c]] = actual_amount[own[c]]
  /\ \A l \in Lot : lot_lock[l] = c => quantity_on_hand'[l] = quantity_on_hand[l]
Appends(c, p) ==
  /\ Table(p) /\ inventory_movement' = inventory_movement \o p
  /\ Active(c) => \A n \in DOMAIN p, i \in Ingredient : p[n].line # <<own[c], i>>
Untouched(c) == Private(c) /\ Holds(c) /\ Held(c) /\ \E p : Appends(c, p)

\* A completion is of a plan.
LEMMA PlanOfCall ==
  ASSUME Types, NEW c \in Call, request[c].op \in {Complete, Skip}
  PROVE  PlanFor(c) \in Plan /\ request[c].entry \in Entry
<1>1. request[c].entry \in Entry
  BY CompletionAssumption DEF Types, CallTypes, WellFormed
<1> QED  BY <1>1, CompletionAssumption DEF PlanFor

LEMMA NothingAppended ==
  ASSUME Types, UNCHANGED inventory_movement, NEW c \in Call
  PROVE  Appends(c, <<>>)
  BY DEF Types, StoreTypes, Table, Appends

LEMMA Quiet ==
  ASSUME Types, UNCHANGED <<stock, records, plan_state, locks, transaction, pc, request>>,
         NEW c \in Call
  PROVE  Untouched(c)
<1>1. Appends(c, <<>>)
  BY NothingAppended DEF stock
<1>2. Private(c) /\ Holds(c) /\ Held(c)
  BY DEF Private, Holds, Held, stock, records, locks, transaction
<1> QED  BY <1>1, <1>2 DEF Untouched

LEMMA EndUntouches ==
  ASSUME Types, NEW d \in Call, EndTransaction(d), NEW p, pc' = [pc EXCEPT ![d] = p],
         UNCHANGED <<stock, records, world, request>>, NEW c \in Call, c # d
  PROVE  Untouched(c)
<1>1. Appends(c, <<>>)
  BY NothingAppended DEF stock
<1>2. NoCall \notin Call
  BY CompletionAssumption
<1>3. Holds(c)
  BY <1>2 DEF EndTransaction, Released, Types, LockTypes, Holds
<1>4. Private(c)
  BY DEF Private, EndTransaction, Types, TransactionTypes, CallTypes
<1>5. Held(c)
  BY DEF Held, stock, records, world
<1> QED  BY <1>1, <1>3, <1>4, <1>5 DEF Untouched

LEMMA CommitUntouches ==
  ASSUME Types, Control, NEW d \in Call, Commit(d), NEW c \in Call, c # d
  PROVE  Untouched(c)
<1>1. /\ pc[d] = "work" /\ EndTransaction(d) /\ pc' = [pc EXCEPT ![d] = "done"]
      /\ quantity_on_hand' = [l \in Lot |-> Balance(d, l)]
      /\ inventory_movement' = inventory_movement \o pending[d]
      /\ meal_completion' = [meal_completion EXCEPT ![own[d]] = row[d]]
      /\ \E amounts : actual_amount' = [actual_amount EXCEPT ![own[d]] = amounts]
      /\ UNCHANGED <<world, request>>
  BY DEF Commit, Answer
<1>2. NoCall \notin Call
  BY CompletionAssumption
<1>3. Holds(c)
  BY <1>1, <1>2 DEF EndTransaction, Released, Types, LockTypes, Holds
<1>4. Active(c) => own[c] # own[d] /\ own[c] \in CompletionId
  BY <1>1 DEF Types, Shape, Control, OwnDistinct, Active
<1>5. Active(c) => /\ meal_completion'[own[c]] = meal_completion[own[c]]
                   /\ actual_amount'[own[c]] = actual_amount[own[c]]
  BY <1>1, <1>4 DEF Types, StoreTypes
<1>6. ASSUME NEW l \in Lot, lot_lock[l] = c PROVE quantity_on_hand'[l] = quantity_on_hand[l]
  <2>1. OfLot(pending[d], l) = {}
    BY <1>6 DEF Control, CallControl, OfLot
  <2> QED  BY <1>1, <2>1 DEF Balance
<1>7. Table(pending[d])
  BY DEF Types, TransactionTypes, Table
<1>8. Active(c) => \A n \in DOMAIN pending[d], i \in Ingredient : pending[d][n].line # <<own[c], i>>
  BY <1>4 DEF Control, CallControl
<1>9. Private(c) /\ plan_state' = plan_state
  BY <1>1 DEF Private, EndTransaction, Types, TransactionTypes, CallTypes, world
<1>10. Held(c)
  BY <1>5, <1>6, <1>9 DEF Held
<1>11. Appends(c, pending[d])
  BY <1>1, <1>7, <1>8 DEF Appends
<1> QED  BY <1>3, <1>9, <1>10, <1>11 DEF Untouched

LEMMA GrabUntouches ==
  ASSUME Types, NEW d \in Call, RecordCompletion(d) \/ ChangeCompletion(d) \/ LockNextLot(d),
         NEW c \in Call, c # d
  PROVE  Untouched(c)
<1>1. UNCHANGED <<stock, records, world, request>>
  BY DEF RecordCompletion, ChangeCompletion, LockNextLot
<1>2. NoCall \notin Call
  BY CompletionAssumption
<1>3. Held(c) /\ Appends(c, <<>>)
  BY <1>1, NothingAppended DEF Held, stock, records, world
<1>4. CASE RecordCompletion(d)
  <2>0. PlanFor(d) \in Plan
    BY <1>4, PlanOfCall DEF RecordCompletion
  <2>1. Holds(c)
    BY <1>2, <1>4, <2>0 DEF RecordCompletion, PlanFree, LockFree, Holds, Types, LockTypes
  <2>2. Private(c)
    BY <1>1, <1>4 DEF RecordCompletion, Private, Types, TransactionTypes, CallTypes
  <2> QED  BY <1>3, <2>1, <2>2 DEF Untouched
<1>5. CASE ChangeCompletion(d)
  <2>1. request[d].completion \in CompletionId
    BY <1>5, CompletionAssumption DEF ChangeCompletion, WellFormed, Types, CallTypes, Correct, Reopen, Complete, Skip
  <2>2. Holds(c)
    BY <1>2, <1>5, <2>1 DEF ChangeCompletion, CompletionFree, LockFree, Types, LockTypes, Holds
  <2>3. Private(c)
    BY <1>1, <1>5 DEF ChangeCompletion, Private, Types, TransactionTypes, CallTypes
  <2> QED  BY <1>3, <2>2, <2>3 DEF Untouched
<1>6. CASE LockNextLot(d)
  <2>1. Head(scan[d]) \in Lot
    BY <1>6, LockTypesKept
  <2>2. Holds(c)
    BY <1>2, <1>6, <2>1 DEF LockNextLot, LockFree, Types, LockTypes, Holds
  <2>3. Private(c)
    BY <1>1, <1>6 DEF LockNextLot, Private, Types, TransactionTypes, CallTypes
  <2> QED  BY <1>3, <2>2, <2>3 DEF Untouched
<1> QED  BY <1>4, <1>5, <1>6

LEMMA StatementUntouches ==
  ASSUME Types, NEW d \in Call, BeginStatement(d) \/ \E moves : EndStatement(d, moves),
         NEW c \in Call, c # d
  PROVE  Untouched(c)
<1>1. UNCHANGED <<stock, records, world, locks, request>>
  BY DEF BeginStatement, EndStatement
<1>2. Held(c) /\ Appends(c, <<>>) /\ Holds(c)
  BY <1>1, NothingAppended DEF Held, Holds, stock, records, world, locks
<1>3. Private(c)
  BY <1>1 DEF BeginStatement, EndStatement, Private, Types, TransactionTypes, CallTypes
<1> QED  BY <1>2, <1>3 DEF Untouched

LEMMA FindUntouches ==
  ASSUME Types, NEW d \in Call, NEW c \in Call, c # d, FindReceipt(d) \/ FindNoReceipt(d)
  PROVE  Untouched(c)
<1>1. pc'[c] = pc[c] /\ UNCHANGED <<stock, records, world, locks, transaction, request>>
  BY DEF FindReceipt, FindNoReceipt, Replay, Answer, Types, CallTypes
<1>2. Appends(c, <<>>)
  BY <1>1, NothingAppended DEF stock
<1>3. Private(c) /\ Holds(c) /\ Held(c)
  BY <1>1 DEF Private, Holds, Held, stock, records, world, locks, transaction
<1> QED  BY <1>2, <1>3 DEF Untouched

\* What a step of a call comes to.
Ends(c) ==
  /\ EndTransaction(c) /\ pc' = [pc EXCEPT ![c] = pc'[c]] /\ pc'[c] \in {"done", "lost"}
  /\ UNCHANGED <<stock, records, world, request>>
StatementDone(c, moves) ==
  /\ pc[c] = "locking" /\ scan[c] = <<>> /\ work[c] # <<>>
  /\ EndStatement(c, moves) /\ Moves(c, moves)
  /\ Head(work[c]).kind = "deduct" => DeductLine(c) /\ Deducted(c, moves)
  /\ Head(work[c]).kind # "deduct" => ReverseLine(c) /\ Reversed(c, moves)

LEMMA StepCases ==
  ASSUME Types, NEW c \in Call, Step(c) \/ Crash(c)
  PROVE  \/ FindReceipt(c) \/ FindNoReceipt(c)
         \/ Ends(c)
         \/ RecordCompletion(c) \/ ChangeCompletion(c)
         \/ BeginStatement(c) \/ LockNextLot(c)
         \/ \E moves : StatementDone(c, moves)
         \/ Commit(c)
<1>1. ASSUME NEW status, Refuse(c, status) PROVE Ends(c)
  BY <1>1 DEF Refuse, Answer, Ends, Types, CallTypes
<1>2. CommitRefused(c) => Ends(c)
  BY DEF CommitRefused, Replay, Answer, Ends, Types, CallTypes
<1>3. Crash(c) => Ends(c)
  BY DEF Crash, Ends, Types, CallTypes
<1>4. ASSUME DeductLine(c) \/ ReverseLine(c) PROVE Ends(c) \/ \E moves : StatementDone(c, moves)
  <2>1. CASE \E status \in Status : Refuse(c, status)
    BY <1>1, <2>1
  <2>2. CASE ~\E status \in Status : Refuse(c, status)
    BY <1>4, <2>2, StatementEnds DEF StatementDone
  <2> QED  BY <2>1, <2>2
<1>5. RefuseCompletion(c) \/ RefuseChange(c) \/ RefuseDuplicateLine(c) \/ AbortDeadlocked(c)
        => \E status : Refuse(c, status)
  BY DEF RefuseCompletion, RefuseChange, RefuseDuplicateLine, AbortDeadlocked
<1> QED  BY <1>1, <1>2, <1>3, <1>4, <1>5 DEF Step

LEMMA OthersUntouched ==
  ASSUME Types, Control, NEW d \in Call, Step(d) \/ Crash(d), NEW c \in Call, c # d
  PROVE  Untouched(c)
<1>1. CASE Ends(d)
  BY <1>1, EndUntouches DEF Ends
<1>2. CASE \E moves : StatementDone(d, moves)
  BY <1>2, StatementUntouches DEF StatementDone
<1>3. CASE FindReceipt(d) \/ FindNoReceipt(d)
  BY <1>3, FindUntouches
<1>4. CASE RecordCompletion(d) \/ ChangeCompletion(d) \/ LockNextLot(d)
  BY <1>4, GrabUntouches
<1>5. CASE BeginStatement(d)
  BY <1>5, StatementUntouches
<1>6. CASE Commit(d)
  BY <1>6, CommitUntouches
<1> QED  BY <1>1, <1>2, <1>3, <1>4, <1>5, <1>6, StepCases

LEMMA EnvironmentUntouches ==
  ASSUME Types, Environment \/ UNCHANGED vars, NEW c \in Call
  PROVE  Untouched(c)
<1>0. NoCall \notin Call
  BY CompletionAssumption
<1>1. CASE UNCHANGED vars
  BY <1>1, Quiet DEF vars, world
<1>2. CASE NextDay
  BY <1>2, Quiet DEF NextDay
<1>3. ASSUME NEW p \in Plan, ChangePlan(p) PROVE Untouched(c)
  <2>1. Appends(c, <<>>)
    BY <1>3, NothingAppended DEF ChangePlan, stock
  <2>2. Private(c) /\ Holds(c)
    BY <1>3 DEF ChangePlan, Private, Holds, stock, records, locks, transaction
  <2>3. plan_lock[p] # c /\ \A x \in Plan : x # p => plan_state'[x] = plan_state[x]
    BY <1>0, <1>3 DEF ChangePlan, LockFree, Types, StoreTypes
  <2>4. Held(c)
    BY <1>3, <2>3 DEF ChangePlan, Held, stock, records
  <2> QED  BY <2>1, <2>2, <2>4 DEF Untouched
<1>4. ASSUME NEW l \in Lot, NEW d \in {-1, 1}, OtherMovement(l, d) PROVE Untouched(c)
  <2> DEFINE row0 == Movement(l, NoLine, d, quantity_on_hand[l] + d, "other")
  <2>1. Table(<<row0>>) /\ inventory_movement' = inventory_movement \o <<row0>>
    BY <1>4, OtherTypes
  <2>2. /\ LockFree(lot_lock[l], NoCall)
        /\ quantity_on_hand' = [quantity_on_hand EXCEPT ![l] = @ + d]
        /\ UNCHANGED <<records, world, locks, transaction, pc, request, reply>>
    BY <1>4 DEF OtherMovement
  <2>3. Active(c) => \A n \in DOMAIN <<row0>>, i \in Ingredient : <<row0>>[n].line # <<own[c], i>>
    <3>1. row0.line = NoLine
      BY DEF Movement
    <3>2. Active(c) => own[c] \in CompletionId
      BY DEF Types, Shape
    <3>3. NoLine \notin CompletionId \X Ingredient
      BY CompletionAssumption
    <3> HIDE DEF row0
    <3> QED  BY <3>1, <3>2, <3>3
  <2>4. Appends(c, <<row0>>)
    BY <2>1, <2>3 DEF Appends
  <2> HIDE DEF row0
  <2>5. Held(c)
    <3>1. \A k \in Lot : lot_lock[k] = c => quantity_on_hand'[k] = quantity_on_hand[k]
      BY <1>0, <2>2 DEF LockFree, Types, StoreTypes
    <3> QED  BY <2>2, <3>1 DEF Held, records, world
  <2>6. Private(c) /\ Holds(c)
    BY <2>2 DEF Private, Holds, locks, transaction
  <2> QED  BY <2>4, <2>5, <2>6 DEF Untouched
<1> QED  BY <1>1, <1>2, <1>3, <1>4 DEF Environment

LEMMA EitherRow ==
  ASSUME NEW t, Table(t), NEW p, Table(p), NEW n \in DOMAIN (t \o p)
  PROVE  \/ \E k \in DOMAIN t : (t \o p)[n] = t[k]
         \/ \E k \in DOMAIN p : (t \o p)[n] = p[k]
<1>1. CASE n \in DOMAIN t
  BY <1>1, Concatenated
<1>2. CASE n \notin DOMAIN t
  <2>1. n - Len(t) \in DOMAIN p /\ n = Len(t) + (n - Len(t))
    BY <1>2, Concatenated
  <2> DEFINE k == n - Len(t)
  <2>2. k \in DOMAIN p /\ n = Len(t) + k
    BY <2>1
  <2> HIDE DEF k
  <2>3. (t \o p)[Len(t) + k] = p[k]
    BY <2>2 DEF Table
  <2> QED  BY <2>2, <2>3
<1> QED  BY <1>1, <1>2

LEMMA ControlKept ==
  ASSUME Types, NEW c \in Call, CallControl(c), Untouched(c)
  PROVE  CallControl(c)'
<1>1. Private(c) /\ Holds(c) /\ Held(c)
  BY DEF Untouched
<1>2. Active(c) => own[c] \in CompletionId
  BY DEF Types, Shape
<1>3. (Active(c)' <=> Active(c)) /\ (Cooking(c)' <=> Cooking(c))
  BY <1>1 DEF Private, Active, Cooking
<1>4. Idle(c) => Idle(c)'
  BY <1>1 DEF Private, Holds, Idle
<1>5. ASSUME HoldsPlan(c), Active(c), Cooking(c) PROVE HoldsPlan(c)'
  <2>1. PlanFor(c) \in Plan /\ PlanFor(c)' = PlanFor(c)
    BY <1>1, <1>5, PlanOfCall DEF Private, PlanFor, Cooking
  <2>2. plan_lock'[PlanFor(c)'] = c /\ Approved(c)'
    BY <1>1, <1>5, <2>1 DEF Holds, Held, HoldsPlan, Approved
  <2> QED  BY <1>1, <1>5, <2>2 DEF Private, Held, HoldsPlan
<1>6. HoldsCompletion(c) /\ Active(c) => HoldsCompletion(c)'
  BY <1>1, <1>2 DEF Private, Holds, Held, HoldsCompletion
<1>7. (\A l \in locked[c] : lot_lock[l] = c) => (\A l \in locked'[c] : lot_lock'[l] = c)
  BY <1>1 DEF Private, Holds, Types, TransactionTypes
<1>8. (\A n \in DOMAIN pending[c] : lot_lock[pending[c][n].lot] = c)
        => (\A n \in DOMAIN pending'[c] : lot_lock'[pending'[c][n].lot] = c)
  <2>1. \A n \in DOMAIN pending[c] : pending[c][n].lot \in Lot
    BY TableRows DEF Types, TransactionTypes, Table
  <2> QED  BY <1>1, <2>1 DEF Private, Holds
<1> QED  BY <1>1, <1>3, <1>4, <1>5, <1>6, <1>7, <1>8 DEF CallControl, Private

LEMMA EndControl ==
  ASSUME Types, NEW c \in Call, EndTransaction(c), pc' = [pc EXCEPT ![c] = pc'[c]], pc'[c] \in {"done", "lost"}
  PROVE  CallControl(c)'
<1>1. NoCall \notin Call
  BY CompletionAssumption
<1>2. Idle(c)'
  BY <1>1 DEF Types, TransactionTypes, LockTypes, EndTransaction, Released, Idle
<1> QED  BY <1>2 DEF CallControl, Active, Idle

LEMMA FindControl ==
  ASSUME Types, NEW c \in Call, CallControl(c), FindReceipt(c) \/ FindNoReceipt(c)
  PROVE  CallControl(c)'
<1>1. /\ pc[c] = "received" /\ pc'[c] \in {"open", "done"}
      /\ UNCHANGED <<locks, transaction>>
  BY DEF FindReceipt, FindNoReceipt, Replay, Answer, Types, CallTypes
<1>2. Idle(c)
  BY <1>1 DEF CallControl, Active
<1>3. Idle(c)'
  BY <1>1, <1>2 DEF Idle, locks, transaction
<1> QED  BY <1>1, <1>3 DEF CallControl, Active, Idle

LEMMA RecordControl ==
  ASSUME Types, NEW c \in Call, CallControl(c), RecordCompletion(c)
  PROVE  /\ CallControl(c)' /\ own'[c] \in Unused /\ Approved(c)
         /\ \A n \in DOMAIN work'[c] : work'[c][n].kind = "deduct" /\ work'[c][n].amount > 0
<1> DEFINE q == request[c]
           consumed == LinesOf(q).value
           w == [i \in DOMAIN consumed |-> Deduct(consumed[i].ingredient, consumed[i].actual)]
<1>1. q \in Request /\ q.op \in {Complete, Skip} /\ LinesOf(q).ok /\ Unused # {} /\ pc[c] = "open"
  BY DEF Types, CallTypes, RecordCompletion
<1>2. consumed \in Seq(LineType)
  <2> HIDE DEF q
  <2> QED  BY <1>1, LinesTyped
<1>3. \A n \in DOMAIN w : w[n].kind = "deduct" /\ w[n].amount > 0
  <2> HIDE DEF consumed
  <2> QED  BY <1>2, DeductionsTyped
<1>3a. q.op = Skip => w = <<>>
  BY DEF LinesOf, Result
<1>4. /\ plan_lock' = [plan_lock EXCEPT ![PlanFor(c)] = c]
      /\ own' = [own EXCEPT ![c] = Min(Unused)]
      /\ row'[c].state = "recorded" /\ row'[c].entry = request[c].entry /\ Approved(c)
      /\ work' = [work EXCEPT ![c] = w] /\ pc' = [pc EXCEPT ![c] = "work"]
      /\ UNCHANGED <<stock, records, world, completion_lock, lot_lock, request, reply,
                     lines, scan, locked, pending>>
  BY DEF RecordCompletion, Types, TransactionTypes
<1> HIDE DEF w, consumed
<1>5. /\ own'[c] = Min(Unused) /\ work'[c] = w /\ pc'[c] = "work"
  BY <1>4 DEF Types, TransactionTypes, CallTypes
<1>6. Min(Unused) \in Unused
  BY <1>1, UnusedIdentifier
<1>7. meal_completion[Min(Unused)] = NoRow
  BY <1>6 DEF Unused
<1>7a. /\ PlanFor(c)' = PlanFor(c) /\ (Approved(c)' <=> Approved(c))
       /\ plan_lock'[PlanFor(c)] = c
  <2>1. PlanFor(c) \in Plan
    BY <1>1, PlanOfCall
  <2> QED  BY <1>4, <2>1 DEF PlanFor, Approved, world, Types, LockTypes
<1>8. HoldsPlan(c)'
  BY <1>3, <1>3a, <1>4, <1>5, <1>7, <1>7a DEF HoldsPlan, records
<1>9. Idle(c)
  BY <1>1 DEF CallControl, Active
<1>10. scan'[c] = <<>> /\ locked'[c] = {} /\ pending'[c] = <<>>
  BY <1>4, <1>9 DEF Idle
<1>11. Active(c)' /\ Cooking(c)' /\ pc'[c] = "work"
  BY <1>1, <1>4, <1>5 DEF Active, Cooking
<1>12. CallControl(c)'
  BY <1>8, <1>10, <1>11 DEF CallControl
<1> QED  BY <1>3, <1>4, <1>5, <1>6, <1>12

LEMMA ChangeControl ==
  ASSUME Types, NEW c \in Call, CallControl(c), ChangeCompletion(c)
  PROVE  /\ CallControl(c)' /\ own'[c] = request[c].completion /\ own'[c] \in CompletionId
         /\ meal_completion[own'[c]] # NoRow /\ completion_lock[own'[c]] \in {NoCall, c}
<1> DEFINE m == request[c].completion
<1>1. m \in CompletionId /\ request[c] \in Request /\ request[c].op \in {Correct, Reopen}
  BY CompletionAssumption DEF ChangeCompletion, WellFormed, Types, CallTypes, Correct, Reopen, Complete, Skip
<1>2. /\ pc[c] = "open" /\ meal_completion[m] # NoRow /\ completion_lock[m] \in {NoCall, c}
      /\ meal_completion[m].state = "recorded"
      /\ completion_lock' = [completion_lock EXCEPT ![m] = c] /\ own' = [own EXCEPT ![c] = m]
      /\ row' = [row EXCEPT ![c] = [meal_completion[m] EXCEPT
                                      !.version = @ + 1, !.state = ChangedState(request[c])]]
      /\ pc' = [pc EXCEPT ![c] = "work"]
      /\ UNCHANGED <<stock, records, world, plan_lock, lot_lock, request, reply, lines, scan, locked, pending>>
  BY DEF ChangeCompletion, CompletionFree, LockFree, CanChange
<1>3. pc'[c] = "work" /\ own'[c] = m /\ completion_lock'[m] = c
  BY <1>1, <1>2 DEF Types, TransactionTypes, CallTypes, LockTypes
<1>4. row'[c].state = ChangedState(request[c])
  <2>1. meal_completion[m] \in RowType
    BY <1>1 DEF Types, StoreTypes
  <2> QED  BY <1>2, <2>1 DEF Types, TransactionTypes, RowType
<1>5. HoldsCompletion(c)'
  BY <1>2, <1>3, <1>4 DEF HoldsCompletion, ChangedState, records
<1>6. scan'[c] = <<>> /\ locked'[c] = {} /\ pending'[c] = <<>>
  BY <1>2 DEF CallControl, Active, Idle
<1>7. Active(c)' /\ ~Cooking(c)' /\ pc'[c] = "work"
  BY <1>1, <1>2, <1>3 DEF Active, Cooking, Correct, Reopen, Complete, Skip
<1>8. CallControl(c)'
  BY <1>5, <1>6, <1>7 DEF CallControl
<1> QED  BY <1>1, <1>2, <1>3, <1>8

LEMMA BeginControl ==
  ASSUME Types, NEW c \in Call, CallControl(c), BeginStatement(c)
  PROVE  CallControl(c)'
<1>1. /\ pc[c] = "work" /\ work[c] # <<>> /\ pc' = [pc EXCEPT ![c] = "locking"]
      /\ lines' = [lines EXCEPT ![c][Head(work[c]).ingredient] = Head(work[c]).amount]
      /\ UNCHANGED <<stock, records, world, locks, own, row, work, locked, pending, request, reply>>
  BY DEF BeginStatement
<1>2. pc'[c] = "locking" /\ Active(c) /\ Active(c)' /\ (Cooking(c) <=> Cooking(c)')
  BY <1>1 DEF Types, CallTypes, Active, Cooking
<1>3. Head(work[c]).ingredient \in Ingredient
  BY <1>1, HeadOfWork
<1>4. lines'[c][Head(work'[c]).ingredient] = Head(work'[c]).amount
  BY <1>1, <1>3 DEF Types, TransactionTypes
<1>5. HoldsPlan(c) => HoldsPlan(c)'
  BY <1>1 DEF HoldsPlan, PlanFor, Approved, records, world, locks
<1>6. HoldsCompletion(c) => HoldsCompletion(c)'
  BY <1>1 DEF HoldsCompletion, records, locks
<1> QED  BY <1>1, <1>2, <1>4, <1>5, <1>6 DEF CallControl, locks

LEMMA LockControl ==
  ASSUME Types, NEW c \in Call, CallControl(c), LockNextLot(c)
  PROVE  CallControl(c)'
<1> DEFINE l == Head(scan[c])
<1>1. /\ pc[c] = "locking" /\ lot_lock' = [lot_lock EXCEPT ![l] = c]
      /\ locked' = [locked EXCEPT ![c] = @ \cup {l}]
      /\ UNCHANGED <<stock, records, world, plan_lock, completion_lock, own, row, lines,
                     work, pending, pc, request, reply>>
  BY DEF LockNextLot
<1>2. l \in Lot
  BY LockTypesKept
<1> HIDE DEF l
<1>3. Active(c) /\ Active(c)' /\ (Cooking(c) <=> Cooking(c)') /\ pc'[c] = "locking"
  BY <1>1 DEF Active, Cooking
<1>4. HoldsPlan(c) => HoldsPlan(c)'
  BY <1>1 DEF HoldsPlan, PlanFor, Approved, records, world
<1>5. HoldsCompletion(c) => HoldsCompletion(c)'
  BY <1>1 DEF HoldsCompletion, records
<1>6. (\A k \in locked[c] : lot_lock[k] = c) => \A k \in locked'[c] : lot_lock'[k] = c
  BY <1>1, <1>2 DEF Types, TransactionTypes, LockTypes
<1>7. \A n \in DOMAIN pending[c] : pending[c][n].lot \in Lot
  BY TableRows DEF Types, TransactionTypes, Table
<1>8. \A k \in Lot : lot_lock[k] = c => lot_lock'[k] = c
  BY <1>1, <1>2 DEF Types, LockTypes
<1> QED  BY <1>1, <1>3, <1>4, <1>5, <1>6, <1>7, <1>8 DEF CallControl

LEMMA StatementControl ==
  ASSUME Types, NEW c \in Call, CallControl(c), NEW moves, StatementDone(c, moves)
  PROVE  CallControl(c)'
<1>1. /\ pc[c] = "locking" /\ scan[c] = <<>> /\ work[c] # <<>> /\ Table(moves)
      /\ pending' = [pending EXCEPT ![c] = @ \o moves] /\ work' = [work EXCEPT ![c] = Tail(@)]
      /\ locked' = [locked EXCEPT ![c] = {}] /\ pc' = [pc EXCEPT ![c] = "work"]
      /\ UNCHANGED <<stock, records, world, locks, own, row, lines, scan, request, reply>>
  BY DEF StatementDone, EndStatement, Moves
<1>2. /\ pc'[c] = "work" /\ locked'[c] = {} /\ pending'[c] = pending[c] \o moves
      /\ work'[c] = Tail(work[c])
  BY <1>1 DEF Types, CallTypes, TransactionTypes
<1>3. Active(c) /\ Active(c)' /\ (Cooking(c) <=> Cooking(c)')
  BY <1>1, <1>2 DEF Active, Cooking
<1>4. HoldsPlan(c) => HoldsPlan(c)'
  BY <1>1, <1>2, HeadOfWork DEF HoldsPlan, PlanFor, Approved, records, world, locks
<1>5. HoldsCompletion(c) => HoldsCompletion(c)'
  BY <1>1 DEF HoldsCompletion, records, locks
<1>6. Head(work[c]).ingredient \in Ingredient
  BY <1>1, HeadOfWork
<1>7. \A n \in DOMAIN moves : /\ lot_lock[moves[n].lot] = c
                              /\ \E i \in Ingredient : moves[n].line = <<own[c], i>>
  BY <1>1, <1>6 DEF StatementDone, Moves, CallControl
<1>8. Table(pending[c])
  BY DEF Types, TransactionTypes, Table
<1>9. \A n \in DOMAIN pending'[c] : /\ lot_lock[pending'[c][n].lot] = c
                                    /\ \E i \in Ingredient : pending'[c][n].line = <<own[c], i>>
  <2> DEFINE Mine(r) == lot_lock[r.lot] = c /\ \E i \in Ingredient : r.line = <<own[c], i>>
  <2>1. \A k \in DOMAIN pending[c] : Mine(pending[c][k])
    BY DEF CallControl
  <2>2. \A k \in DOMAIN moves : Mine(moves[k])
    BY <1>7
  <2> HIDE DEF Mine
  <2>3. ASSUME NEW n \in DOMAIN (pending[c] \o moves) PROVE Mine((pending[c] \o moves)[n])
    <3>1. \/ \E k \in DOMAIN pending[c] : (pending[c] \o moves)[n] = pending[c][k]
          \/ \E k \in DOMAIN moves : (pending[c] \o moves)[n] = moves[k]
      BY <1>1, <1>8, EitherRow
    <3> QED  BY <2>1, <2>2, <3>1, Zenon
  <2> QED  BY <1>2, <2>3 DEF Mine
<1> QED  BY <1>1, <1>2, <1>3, <1>4, <1>5, <1>9 DEF CallControl, locks

LEMMA OwnControl ==
  ASSUME Types, NEW c \in Call, CallControl(c), Step(c) \/ Crash(c)
  PROVE  CallControl(c)'
<1>1. CASE FindReceipt(c) \/ FindNoReceipt(c)
  BY <1>1, FindControl
<1>2. CASE Ends(c)
  BY <1>2, EndControl DEF Ends
<1>3. CASE RecordCompletion(c)
  BY <1>3, RecordControl
<1>4. CASE ChangeCompletion(c)
  BY <1>4, ChangeControl
<1>5. CASE BeginStatement(c)
  BY <1>5, BeginControl
<1>6. CASE LockNextLot(c)
  BY <1>6, LockControl
<1>7. CASE \E moves : StatementDone(c, moves)
  BY <1>7, StatementControl
<1>8. CASE Commit(c)
  BY <1>8, EndControl DEF Commit, Answer, Types, CallTypes
<1> QED  BY <1>1, <1>2, <1>3, <1>4, <1>5, <1>6, <1>7, <1>8, StepCases

LEMMA OwnDistinctStep ==
  ASSUME Types, Control, NEW d \in Call, Step(d) \/ Crash(d)
  PROVE  OwnDistinct'
<1> SUFFICES ASSUME NEW c \in Call, c # d, Active(c)', Active(d)' PROVE own'[c] # own'[d]
  <2>1. ASSUME NEW a \in Call, NEW b \in Call, a # b, a # d, b # d, Active(a)', Active(b)'
        PROVE own'[a] # own'[b]
    <3>1. Private(a) /\ Private(b)
      BY <2>1, OthersUntouched DEF Untouched
    <3> QED  BY <2>1, <3>1 DEF Private, Active, Control, OwnDistinct
  <2> QED  BY <2>1 DEF OwnDistinct
<1>1. own'[c] = own[c] /\ Active(c)
  BY OthersUntouched DEF Untouched, Private, Active
<1>2. CASE RecordCompletion(d)
  BY <1>1, <1>2, RecordControl DEF Control, Unused
<1>3. CASE ChangeCompletion(d)
  <2>1. /\ own'[d] \in CompletionId /\ meal_completion[own'[d]] # NoRow
        /\ completion_lock[own'[d]] \in {NoCall, d}
    BY <1>3, ChangeControl DEF Control
  <2>2. NoCall \notin Call
    BY CompletionAssumption
  <2> QED  BY <1>1, <2>1, <2>2 DEF Control, CallControl, HoldsPlan, HoldsCompletion
<1>4. CASE ~RecordCompletion(d) /\ ~ChangeCompletion(d)
  <2>1. ~Ends(d) /\ ~Commit(d) /\ ~FindReceipt(d) /\ ~FindNoReceipt(d)
    BY DEF Ends, Commit, Answer, FindReceipt, FindNoReceipt, Replay, Active, Types, CallTypes
  <2>2. BeginStatement(d) \/ LockNextLot(d) \/ \E moves : StatementDone(d, moves)
    BY <1>4, <2>1, StepCases
  <2>3. own' = own /\ Active(d)
    BY <2>2 DEF BeginStatement, LockNextLot, StatementDone, EndStatement, Active
  <2> QED  BY <1>1, <2>3 DEF Control, OwnDistinct
<1> QED  BY <1>2, <1>3, <1>4

LEMMA ControlInit == Init => Control
<1> SUFFICES ASSUME Init PROVE Control
  OBVIOUS
<1>1. NoCall \notin Call
  BY CompletionAssumption
<1>2. \A c \in Call : Idle(c) /\ ~Active(c)
  BY <1>1 DEF Init, Idle, Active
<1> QED  BY <1>2 DEF Control, CallControl, OwnDistinct, Idle, Active

\* A step of the environment touches no call.
LEMMA NextCases ==
  ASSUME Types, Control, [Next]_vars
  PROVE  \/ \A c \in Call : Untouched(c)
         \/ \E d \in Call : (Step(d) \/ Crash(d)) /\ \A c \in Call : c # d => Untouched(c)
<1>1. CASE Environment \/ UNCHANGED vars
  BY <1>1, EnvironmentUntouches
<1>2. CASE ~(Environment \/ UNCHANGED vars)
  BY <1>2, OthersUntouched DEF Next, Terminated
<1> QED  BY <1>1, <1>2

LEMMA ControlStep ==
  ASSUME Types, Control, [Next]_vars
  PROVE  Control'
<1>1. CASE \A c \in Call : Untouched(c)
  <2>1. \A c \in Call : CallControl(c)'
    BY <1>1, ControlKept DEF Control
  <2>2. OwnDistinct'
    BY <1>1 DEF Untouched, Private, Control, OwnDistinct, Active
  <2> QED  BY <2>1, <2>2 DEF Control
<1>2. ASSUME NEW d \in Call, Step(d) \/ Crash(d), \A c \in Call : c # d => Untouched(c)
      PROVE  Control'
  <2>1. \A c \in Call : CallControl(c)'
    BY <1>2, ControlKept, OwnControl DEF Control
  <2>2. OwnDistinct'
    BY <1>2, OwnDistinctStep
  <2> QED  BY <2>1, <2>2 DEF Control
<1> QED  BY <1>1, <1>2, NextCases

(***************************************************************************)
(* What a statement locks.                                                 *)
(***************************************************************************)
LEMMA NothingOfLine ==
  ASSUME NEW t, Table(t), NEW p, Table(p), NEW line, OfLine(p, line) = {}, NEW l
  PROVE  /\ SumOn(t \o p, line, l) = SumOn(t, line, l)
         /\ SumOf(t \o p, line) = SumOf(t, line)
         /\ OfLine(t, line) = {} => OfLine(t \o p, line) = {}
<1>1. /\ SumOfDeltas(p, OfLine(p, line)) = 0 /\ SumOfDeltas(p, OfLineOnLot(p, line, l)) = 0
      /\ SumOn(t, line, l) \in Int /\ SumOf(t, line) \in Int
  BY SumsTyped DEF SumOn, SumOf
<1>2. /\ SumOn(t \o p, line, l) = SumOn(t, line, l) + SumOfDeltas(p, OfLineOnLot(p, line, l))
      /\ SumOf(t \o p, line) = SumOf(t, line) + SumOfDeltas(p, OfLine(p, line))
  BY SumsConcatenated DEF SumOn, SumOf
<1>3. OfLine(t \o p, line) = OfLine(t, line) \cup Moved(t, OfLine(p, line))
  BY RowsConcatenated
<1>4. Moved(t, {}) = {}
  BY DEF Moved
<1> QED  BY <1>1, <1>2, <1>3, <1>4

LEMMA LineKept ==
  ASSUME Types, NEW c \in Call, Active(c), Untouched(c), NEW i \in Ingredient, NEW l
  PROVE  /\ SumOn(inventory_movement', <<own[c], i>>, l) = SumOn(inventory_movement, <<own[c], i>>, l)
         /\ SumOf(inventory_movement', <<own[c], i>>) = SumOf(inventory_movement, <<own[c], i>>)
         /\ OfLine(inventory_movement, <<own[c], i>>) = {} => OfLine(inventory_movement', <<own[c], i>>) = {}
<1>1. PICK p : Appends(c, p)
  BY DEF Untouched
<1>2. Table(p) /\ Table(inventory_movement) /\ inventory_movement' = inventory_movement \o p
  BY <1>1 DEF Appends, Types, StoreTypes, Table
<1>3. OfLine(p, <<own[c], i>>) = {}
  BY <1>1 DEF Appends, OfLine
<1> DEFINE line == <<own[c], i>>
<1> HIDE DEF line
<1>4. OfLine(p, line) = {}
  BY <1>3 DEF line
<1> SUFFICES /\ SumOn(inventory_movement', line, l) = SumOn(inventory_movement, line, l)
             /\ SumOf(inventory_movement', line) = SumOf(inventory_movement, line)
             /\ OfLine(inventory_movement, line) = {} => OfLine(inventory_movement', line) = {}
  BY DEF line
<1> DEFINE t == inventory_movement
<1>5. Table(t)
  BY <1>2
<1> HIDE DEF t
<1>6. Table(p)
  BY <1>2
<1>7. /\ SumOn(t \o p, line, l) = SumOn(t, line, l)
      /\ SumOf(t \o p, line) = SumOf(t, line)
      /\ OfLine(t, line) = {} => OfLine(t \o p, line) = {}
  BY <1>4, <1>5, <1>6, NothingOfLine
<1> QED  BY <1>2, <1>7, Zenon DEF t

\* What a call that holds a lot sees of it does not move.
LEMMA BalanceKept ==
  ASSUME Types, NEW c \in Call, CallControl(c), Untouched(c), NEW l \in Lot
  PROVE  /\ lot_lock[l] = c => Balance(c, l)' = Balance(c, l)
         /\ OfLot(pending[c], l) # {} => lot_lock[l] = c
         /\ OfLot(pending[c], l) = {} => Balance(c, l)' = quantity_on_hand'[l]
         /\ pending'[c] = pending[c]
<1>1. pending'[c] = pending[c] /\ (lot_lock[l] = c => quantity_on_hand'[l] = quantity_on_hand[l])
  BY DEF Untouched, Private, Held
<1>2. OfLot(pending[c], l) # {} => lot_lock[l] = c
  BY DEF CallControl, OfLot
<1> QED  BY <1>1, <1>2 DEF Balance

LEMMA ListingKept ==
  ASSUME Types, NEW c \in Call, CallControl(c), CallListing(c), Untouched(c)
  PROVE  CallListing(c)'
<1>1. Private(c) /\ Holds(c)
  BY DEF Untouched
<1>2. Enumerated(c)'
  BY <1>1 DEF CallListing, Enumerated, Private
<1>3. Active(c) /\ Cooking(c) => CookedLots(c)'
  BY <1>1 DEF CallListing, CookedLots, Private, Holds
<1>4. ASSUME pc[c] = "locking" PROVE ListsTheLots(c)'
  <2>1. Active(c) /\ Head(work[c]).ingredient \in Ingredient
    BY <1>4, HeadOfWork DEF Active, Types, Shape
  <2>2. \A l \in Lot : NetOf(<<own[c], Head(work[c]).ingredient>>, l)'
                         = NetOf(<<own[c], Head(work[c]).ingredient>>, l)
    BY <1>1, <2>1, LineKept DEF NetOf, SumOn, Private
  <2>3. \A l \in Lot : lot_lock[l] = c => Balance(c, l)' = Balance(c, l)
    BY BalanceKept
  <2>4. ListsTheLots(c)
    BY <1>4 DEF CallListing
  <2>5. Listed(c)' = Listed(c)
    BY <1>1 DEF Listed, Private
  <2>6. work'[c] = work[c] /\ \A l \in Lot : (lot_lock'[l] = c) <=> (lot_lock[l] = c)
    BY <1>1 DEF Private, Holds
  <2>7. CASE Head(work[c]).kind = "deduct"
    BY <2>3, <2>4, <2>5, <2>6, <2>7 DEF ListsTheLots
  <2>8. CASE Head(work[c]).kind # "deduct"
    BY <2>2, <2>4, <2>5, <2>6, <2>8 DEF ListsTheLots
  <2> QED  BY <2>7, <2>8
<1>5. InTurn(c) => InTurn(c)'
  BY <1>1 DEF InTurn, Private
<1> QED  BY <1>1, <1>2, <1>3, <1>4, <1>5 DEF CallListing, Active, Cooking, Private

LEMMA NoScanListing ==
  ASSUME NEW c \in Call, scan'[c] = <<>>, ~Active(c)'
  PROVE  CallListing(c)'
  BY DEF CallListing, Enumerated, Active

LEMMA GrabListing ==
  ASSUME Types, NEW c \in Call, CallControl(c), RecordCompletion(c) \/ ChangeCompletion(c)
  PROVE  CallListing(c)'
<1>1. /\ pc[c] = "open" /\ pc' = [pc EXCEPT ![c] = "work"]
      /\ UNCHANGED <<lot_lock, scan, locked>>
  BY DEF RecordCompletion, ChangeCompletion
<1>2. Idle(c) /\ pc'[c] = "work"
  BY <1>1 DEF CallControl, Active, Types, CallTypes
<1>3. Enumerated(c)' /\ CookedLots(c)'
  BY <1>1, <1>2 DEF Idle, Enumerated, CookedLots
<1> QED  BY <1>2, <1>3 DEF CallListing

LEMMA BeginListing ==
  ASSUME Types, NEW c \in Call, CallControl(c), CallListing(c), BeginStatement(c)
  PROVE  CallListing(c)'
<1> DEFINE s == Head(work[c])
           found == IF s.kind = "deduct" THEN ScanFEFO(c, s.ingredient) ELSE ScanReversed(c, s.ingredient)
<1>1. /\ pc[c] = "work" /\ work[c] # <<>> /\ ~DuplicateLine(c) /\ pc' = [pc EXCEPT ![c] = "locking"]
      /\ scan' = [scan EXCEPT ![c] = found]
      /\ lines' = [lines EXCEPT ![c][s.ingredient] = s.amount]
      /\ UNCHANGED <<stock, records, world, locks, own, row, work, locked, pending, request, reply>>
  BY DEF BeginStatement
<1>2. pc'[c] = "locking" /\ scan'[c] = found /\ locked'[c] = {} /\ work'[c] = work[c] /\ own'[c] = own[c]
  BY <1>1 DEF CallControl, Types, CallTypes, TransactionTypes
<1>3. s.ingredient \in Ingredient /\ s.amount \in 0..MaxAmount
  BY <1>1, HeadOfWork
<1>4. /\ found \in Seq(Lot) /\ \A n, k \in DOMAIN found : found[n] = found[k] => n = k
      /\ {found[n] : n \in DOMAIN found} =
           IF s.kind = "deduct" THEN {l \in Lot : LotIngredient[l] = s.ingredient /\ Balance(c, l) > 0}
           ELSE {l \in Lot : NetOf(<<own[c], s.ingredient>>, l) < 0}
      /\ s.kind = "deduct" => \A n, k \in DOMAIN found : n < k => Precedes(found[n], found[k])
  <2> HIDE DEF s
  <2> QED  BY <1>3, ScanTyped
<1>5. Listed(c)' = {found[n] : n \in DOMAIN found}
  <2> HIDE DEF found
  <2> QED  BY <1>2 DEF Listed
<1>6. Enumerated(c)'
  <2> HIDE DEF found
  <2> QED  BY <1>2, <1>4 DEF Enumerated
<1>7. \A l \in Lot : /\ Balance(c, l)' = Balance(c, l)
                     /\ NetOf(<<own[c], s.ingredient>>, l)' = NetOf(<<own[c], s.ingredient>>, l)
  BY <1>1, <1>2 DEF Balance, NetOf, stock
<1>8. ListsTheLots(c)'
  <2>1. CASE s.kind = "deduct"
    BY <1>2, <1>4, <1>5, <1>7, <2>1, SMTT(60) DEF ListsTheLots
  <2>2. CASE s.kind # "deduct"
    BY <1>2, <1>4, <1>5, <1>7, <2>2, SMTT(60) DEF ListsTheLots
  <2> QED  BY <2>1, <2>2
<1>8a. InTurn(c)'
  <2> HIDE DEF found
  <2> QED  BY <1>2, <1>4 DEF InTurn
<1>9. ASSUME Cooking(c) PROVE CookedLots(c)'
  <2>1. HoldsPlan(c) /\ CookedLots(c)
    BY <1>1, <1>9 DEF CallControl, CallListing, Active
  <2>2. s.amount > 0 /\ request[c].op = Complete
    BY <1>1, <1>9, <2>1, HeadOfWork DEF HoldsPlan, Cooking
  <2>3. lines[c][s.ingredient] = 0
    BY <1>1, <1>3, <2>2 DEF DuplicateLine, Types, TransactionTypes
  <2>4. lines'[c] = [lines[c] EXCEPT ![s.ingredient] = s.amount]
    BY <1>1 DEF Types, TransactionTypes
  <2>5. lines[c] \in [Ingredient -> 0..MaxAmount] /\ LotIngredient \in [Lot -> Ingredient]
    BY CompletionAssumption DEF Types, TransactionTypes
  <2> HIDE DEF s, found
  <2>6. ASSUME NEW l \in Lot, lot_lock[l] = c
        PROVE  lines'[c][LotIngredient[l]] > 0 /\ LotIngredient[l] # s.ingredient
    BY <1>3, <2>1, <2>3, <2>4, <2>5, <2>6 DEF CookedLots
  <2>7. lot_lock' = lot_lock /\ Head(work'[c]).ingredient = s.ingredient
    BY <1>1, <1>2 DEF locks, s
  <2> QED  BY <2>6, <2>7 DEF CookedLots
<1> QED  BY <1>1, <1>6, <1>8, <1>8a, <1>9 DEF CallListing, Cooking

LEMMA TailProperties ==
  ASSUME NEW S, NEW s \in Seq(S), s # <<>>
  PROVE  /\ Head(s) = s[1] /\ 1 \in DOMAIN s /\ Len(s) \in Nat
         /\ DOMAIN s = 1..Len(s) /\ DOMAIN Tail(s) = 1..(Len(s) - 1)
         /\ \A n \in DOMAIN Tail(s) : Tail(s)[n] = s[n + 1]
  OBVIOUS

LEMMA LockListing ==
  ASSUME Types, NEW c \in Call, CallControl(c), CallListing(c), LockNextLot(c)
  PROVE  CallListing(c)'
<1> DEFINE s == Head(work[c])
           l == Head(scan[c])
<1>1. /\ pc[c] = "locking" /\ scan[c] # <<>>
      /\ lot_lock' = [lot_lock EXCEPT ![l] = c]
      /\ scan' = [scan EXCEPT ![c] = Tail(@)]
      /\ locked' = [locked EXCEPT ![c] = @ \cup {l}]
      /\ UNCHANGED <<stock, records, world, plan_lock, completion_lock, own, row, lines,
                     work, pending, pc, request, reply>>
  BY DEF LockNextLot
<1>2. l \in Lot
  BY LockTypesKept
<1>3. scan[c] \in Seq(Lot) /\ scan'[c] = Tail(scan[c]) /\ locked'[c] = locked[c] \cup {l}
  BY <1>1 DEF Types, TransactionTypes
<1>4a. /\ Head(scan[c]) = scan[c][1] /\ 1 \in DOMAIN scan[c] /\ Len(scan[c]) \in Nat
       /\ DOMAIN scan[c] = 1..Len(scan[c]) /\ DOMAIN Tail(scan[c]) = 1..(Len(scan[c]) - 1)
       /\ \A n \in DOMAIN Tail(scan[c]) : Tail(scan[c])[n] = scan[c][n + 1]
  <2>1. scan[c] \in Seq(Lot) /\ scan[c] # <<>>
    BY <1>1, <1>3
  <2> QED  BY <2>1, TailProperties
<1>4. /\ l = scan[c][1] /\ 1 \in DOMAIN scan[c]
      /\ \A n \in DOMAIN scan'[c] : n + 1 \in DOMAIN scan[c] /\ n + 1 # 1 /\ scan'[c][n] = scan[c][n + 1]
      /\ \A n \in DOMAIN scan[c] : n = 1 \/ (n - 1 \in DOMAIN scan'[c] /\ scan'[c][n - 1] = scan[c][n])
      /\ \A n, k \in DOMAIN scan'[c] : n # k => n + 1 # k + 1
  BY <1>3, <1>4a
<1> HIDE DEF l
<1>5. Enumerated(c)'
  <2>1. Enumerated(c)
    BY DEF CallListing
  <2> QED  BY <1>3, <1>4, <2>1 DEF Enumerated
<1>6. Listed(c)' = Listed(c)
  <2>1. \A k : k \in Listed(c)' => k \in Listed(c)
    BY <1>3, <1>4 DEF Listed
  <2>2. ASSUME NEW k, k \in Listed(c) PROVE k \in Listed(c)'
    <3>1. CASE k \in locked[c] \/ k = l
      BY <1>3, <3>1 DEF Listed
    <3>2. CASE k \notin locked[c] /\ k # l
      <4>1. PICK n \in DOMAIN scan[c] : k = scan[c][n]
        BY <2>2, <3>2 DEF Listed
      <4>2. n # 1
        BY <1>4, <3>2, <4>1
      <4>3. n - 1 \in DOMAIN scan'[c] /\ scan'[c][n - 1] = k
        BY <1>4, <4>1, <4>2
      <4> QED  BY <4>3 DEF Listed
    <3> QED  BY <3>1, <3>2
  <2> QED  BY <2>1, <2>2
<1>7. l \in Listed(c)
  BY <1>4 DEF Listed
<1>8. \A k \in Lot : /\ Balance(c, k)' = Balance(c, k)
                     /\ NetOf(<<own[c], s.ingredient>>, k)' = NetOf(<<own[c], s.ingredient>>, k)
  BY <1>1 DEF Balance, NetOf, stock
<1>9. work' = work /\ own' = own
  BY <1>1
<1>10. \A k \in Lot : lot_lock'[k] = c <=> (lot_lock[k] = c \/ k = l)
  BY <1>1, <1>2 DEF Types, LockTypes
<1>11. ListsTheLots(c)
  BY <1>1 DEF CallListing
<1>12. ListsTheLots(c)'
  <2>1. CASE s.kind = "deduct"
    BY <1>6, <1>7, <1>8, <1>9, <1>10, <1>11, <2>1 DEF ListsTheLots
  <2>2. CASE s.kind # "deduct"
    BY <1>6, <1>8, <1>9, <1>11, <2>2 DEF ListsTheLots
  <2> QED  BY <2>1, <2>2
<1>12a. InTurn(c)'
  <2>1. InTurn(c)
    BY <1>1 DEF CallListing
  <2>2. \A n, k \in DOMAIN scan'[c] : n < k => 1 < n + 1 /\ n + 1 < k + 1
    BY <1>3, <1>4a
  <2> QED  BY <1>3, <1>4, <1>9, <2>1, <2>2 DEF InTurn
<1>13. ASSUME Cooking(c) PROVE CookedLots(c)'
  <2>1. HoldsPlan(c) /\ CookedLots(c)
    BY <1>1, <1>13 DEF CallControl, CallListing, Active
  <2>2. s.kind = "deduct" /\ s.amount > 0 /\ lines[c][s.ingredient] = s.amount
    BY <1>1, <2>1, HeadOfWork DEF HoldsPlan, CallControl, Types, Shape
  <2>3. LotIngredient[l] = s.ingredient
    BY <1>7, <1>11, <2>2 DEF ListsTheLots
  <2> QED  BY <1>1, <1>3, <1>9, <1>10, <2>1, <2>2, <2>3 DEF CookedLots
<1> QED  BY <1>1, <1>5, <1>12, <1>12a, <1>13 DEF CallListing, Cooking

LEMMA StatementListing ==
  ASSUME Types, NEW c \in Call, CallListing(c), NEW moves, StatementDone(c, moves)
  PROVE  CallListing(c)'
<1>1. /\ pc[c] = "locking" /\ scan[c] = <<>> /\ pc' = [pc EXCEPT ![c] = "work"]
      /\ UNCHANGED <<lot_lock, lines, scan, request>>
  BY DEF StatementDone, EndStatement, locks
<1>2. pc'[c] = "work" /\ scan'[c] = <<>> /\ (Cooking(c)' => Cooking(c)) /\ Active(c)
  BY <1>1 DEF Types, CallTypes, Cooking, Active
<1>3. Enumerated(c)'
  BY <1>2 DEF Enumerated
<1>4. Cooking(c) => CookedLots(c)'
  BY <1>1, <1>2 DEF CallListing, CookedLots
<1> QED  BY <1>2, <1>3, <1>4 DEF CallListing

LEMMA OwnListing ==
  ASSUME Types, NEW c \in Call, CallControl(c), CallListing(c), Step(c) \/ Crash(c)
  PROVE  CallListing(c)'
<1>1. CASE FindReceipt(c) \/ FindNoReceipt(c)
  <2>1. pc[c] = "received" /\ pc'[c] \in {"open", "done"} /\ scan' = scan
    BY <1>1 DEF FindReceipt, FindNoReceipt, Replay, Answer, Types, CallTypes, transaction
  <2>2. scan[c] = <<>>
    BY <2>1 DEF CallControl, Idle, Active
  <2> QED  BY <2>1, <2>2, NoScanListing DEF Active
<1>2. CASE Ends(c) \/ Commit(c)
  <2>1. EndTransaction(c) /\ pc'[c] \in {"done", "lost"}
    BY <1>2 DEF Ends, Commit, Answer, Types, CallTypes
  <2>2. scan'[c] = <<>>
    BY <2>1 DEF EndTransaction, Types, TransactionTypes
  <2> QED  BY <2>1, <2>2, NoScanListing DEF Active
<1>3. CASE RecordCompletion(c) \/ ChangeCompletion(c)
  BY <1>3, GrabListing
<1>4. CASE BeginStatement(c)
  BY <1>4, BeginListing
<1>5. CASE LockNextLot(c)
  BY <1>5, LockListing
<1>6. CASE \E moves : StatementDone(c, moves)
  BY <1>6, StatementListing
<1> QED  BY <1>1, <1>2, <1>3, <1>4, <1>5, <1>6, StepCases

LEMMA ListingInit == Init => Listing
  BY DEF Init, Listing, CallListing, Enumerated, Active

LEMMA ListingStep ==
  ASSUME Types, Control, Listing, [Next]_vars
  PROVE  Listing'
<1> SUFFICES ASSUME NEW c \in Call PROVE CallListing(c)'
  BY DEF Listing
<1>1. CallControl(c) /\ CallListing(c)
  BY DEF Control, Listing
<1>2. CASE Untouched(c)
  BY <1>1, <1>2, ListingKept
<1>3. CASE Step(c) \/ Crash(c)
  BY <1>1, <1>3, OwnListing
<1> QED  BY <1>2, <1>3, NextCases

-----------------------------------------------------------------------------
LEMMA Waiting ==
  ASSUME Types, Control, NEW S \in SUBSET Call, {WaitsFor(c) : c \in S} = S, NEW e \in S
  PROVE  pc[e] = "locking" /\ scan[e] # <<>> /\ WaitsFor(e) = lot_lock[Head(scan[e])]
<1>1. PICK d \in S : WaitsFor(d) = e
  OBVIOUS
<1>2. NoCall \notin S /\ e \in Call /\ d \in Call
  BY CompletionAssumption
<1>3. WaitsFor(e) # NoCall
  BY <1>2
<1>4. e # NoCall
  BY <1>2
<1>5. Active(e)
  <2>1. request[d] \in Request
    BY <1>2 DEF Types, CallTypes
  <2>2. request[d].op \in {Correct, Reopen} => request[d].completion \in CompletionId
    BY <2>1, CompletionAssumption DEF WellFormed
  <2>3. pc[d] = "locking" /\ scan[d] # <<>> => Head(scan[d]) \in Lot
    BY <1>2 DEF Types, TransactionTypes
  <2>4. ~Active(e) => Idle(e)
    BY <1>2 DEF Control, CallControl
  <2>5. \/ request[d].op \in {Complete, Skip} /\ e = plan_lock[PlanFor(d)]
        \/ request[d].op \in {Correct, Reopen} /\ e = completion_lock[request[d].completion]
        \/ pc[d] = "locking" /\ scan[d] # <<>> /\ e = lot_lock[Head(scan[d])]
    BY <1>1, <1>4 DEF WaitsFor
  <2>6. request[d].op \in {Complete, Skip} => PlanFor(d) \in Plan
    BY <1>2, PlanOfCall
  <2> QED  BY <2>2, <2>3, <2>4, <2>5, <2>6 DEF Idle
<1>6. pc[e] # "open"
  BY <1>5 DEF Active
<1> QED  BY <1>3, <1>6 DEF WaitsFor

\* Of two completions in a deadlock the first waits for a lot that comes before
\* the one the second waits for, when they are at the same ingredient.
LEMMA WaitsInOrder ==
  ASSUME Types, Control, Listing, NEW c \in Call, NEW d \in Call,
         pc[c] = "locking", scan[c] # <<>>, Cooking(c),
         pc[d] = "locking", scan[d] # <<>>, Cooking(d),
         Head(work[c]).ingredient = Head(work[d]).ingredient, lot_lock[Head(scan[c])] = d
  PROVE  Precedes(Head(scan[c]), Head(scan[d]))
<1> DEFINE l == Head(scan[c])
<1>1. /\ Head(scan[c]) = scan[c][1] /\ 1 \in DOMAIN scan[c] /\ Head(scan[c]) \in Lot
      /\ Head(scan[d]) = scan[d][1] /\ 1 \in DOMAIN scan[d]
  BY DEF Types, TransactionTypes
<1>2. \A e \in {c, d} : /\ HoldsPlan(e) /\ ListsTheLots(e) /\ InTurn(e) /\ CookedLots(e)
                        /\ work[e] # <<>>
  BY DEF Control, CallControl, Listing, CallListing, Active, Types, Shape
<1>3. \A e \in {c, d} : Head(work[e]).kind = "deduct"
  BY <1>2, HeadOfWork DEF HoldsPlan
<1>4. LotIngredient[l] = Head(work[d]).ingredient
  <2>1. l \in Listed(c)
    BY <1>1 DEF Listed
  <2> QED  BY <1>2, <1>3, <2>1 DEF ListsTheLots
<1>5. l \in locked[d]
  BY <1>1, <1>2, <1>4 DEF CookedLots
<1> QED  BY <1>1, <1>2, <1>3, <1>5 DEF InTurn

\* Each of finitely many lots cannot come before another of them.
LEMMA NoEndlessQueue ==
  ASSUME NEW L \in SUBSET Lot, L # {}
  PROVE  \E a \in L : \A b \in L : ~Precedes(a, b)
<1> DEFINE R == {p \in L \X L : Precedes(p[1], p[2])}
<1>1. /\ IsFiniteSet(L) /\ L \subseteq Nat /\ NoDate \notin Int
      /\ \A l \in L : ExpirationDate[l] \in Int \cup {NoDate}
  BY CompletionAssumption, DateAssumption, FS_Subset
<1>2. \A a, b \in L : <<a, b>> \in R <=> Precedes(a, b)
  OBVIOUS
<1>3. \A a, b \in L : a # b => Precedes(a, b) \/ Precedes(b, a)
  BY <1>1 DEF Precedes, ExpiresSooner
<1>4. \A a, b \in L : ~(Precedes(a, b) /\ Precedes(b, a))
  BY <1>1 DEF Precedes, ExpiresSooner
<1>5. \A a, b, e \in L : Precedes(a, b) /\ Precedes(b, e) => Precedes(a, e)
  BY <1>1 DEF Precedes, ExpiresSooner
<1> HIDE DEF R
<1>6. TotalOrder(L, R)
  BY <1>2, <1>3, <1>5 DEF TotalOrder
<1>7. PICK g \in L : \A y \in L : y = g \/ <<y, g>> \in R
  BY <1>1, <1>6, Greatest
<1> QED  BY <1>2, <1>4, <1>7

LEMMA CyclesNeedTwoOrders ==
  ASSUME Types, Control, Listing
  PROVE  DeadlockTakesTwoOrders
<1> SUFFICES ASSUME NEW S \in SUBSET Call, S # {}, {WaitsFor(c) : c \in S} = S
             PROVE  LET completions == {c \in S : request[c].op \in {Complete, Skip}} IN
                    /\ \A c \in S : pc[c] = "locking"
                    /\ \A c, d \in completions : PlanFor(c) = PlanFor(d) => c = d
                    /\ completions = S =>
                         \E c, d \in S : Head(work[c]).ingredient # Head(work[d]).ingredient
  BY DEF DeadlockTakesTwoOrders
<1>1. \A c \in S : pc[c] = "locking" /\ scan[c] # <<>> /\ WaitsFor(c) = lot_lock[Head(scan[c])]
  BY Waiting
<1>2. ASSUME NEW c \in S, NEW d \in S, Cooking(c), Cooking(d), PlanFor(c) = PlanFor(d) PROVE c = d
  BY <1>1, <1>2 DEF Control, CallControl, HoldsPlan, Active
<1>3. ASSUME \A c \in S : Cooking(c), \A c, d \in S : Head(work[c]).ingredient = Head(work[d]).ingredient
      PROVE  FALSE
  <2> DEFINE awaited == {Head(scan[c]) : c \in S}
  <2>1. awaited \in SUBSET Lot /\ awaited # {}
    <3>1. \A c \in S : scan[c] \in Seq(Lot) /\ scan[c] # <<>>
      BY <1>1 DEF Types, TransactionTypes
    <3>2. \A c \in S : Head(scan[c]) \in Lot
      BY <3>1, TailProperties
    <3> QED  BY <3>2
  <2>2. ASSUME NEW a \in awaited PROVE \E b \in awaited : Precedes(a, b)
    <3>1. PICK c \in S : a = Head(scan[c])
      OBVIOUS
    <3>2. PICK d \in S : WaitsFor(c) = d
      OBVIOUS
    <3>3. Precedes(a, Head(scan[d]))
      BY <1>1, <1>3, <3>1, <3>2, WaitsInOrder
    <3> QED  BY <3>3
  <2> HIDE DEF awaited
  <2> QED  BY <2>1, <2>2, NoEndlessQueue
<1> QED  BY <1>1, <1>2, <1>3 DEF Cooking

(***************************************************************************)
(* Balances.                                                               *)
(***************************************************************************)
LEMMA GreatestIndex ==
  ASSUME NEW n \in Nat, NEW S \in SUBSET (1..n), S # {}
  PROVE  Max(S) \in S /\ \A x \in S : x <= Max(S)
<1>1. IsFiniteSet(S) /\ S \in SUBSET Nat
  <2>1. IsFiniteSet(1..n)
    BY FS_Interval
  <2>2. IsFiniteSet(S)
    BY <2>1, FS_Subset
  <2> QED  BY <2>2
<1>2. Max(S) \in S /\ \A x \in S : Max(S) >= x
  BY <1>1, MaxOfNumbers
<1> QED  BY <1>1, <1>2

LEMMA WrittenNothing ==
  ASSUME Types, NEW c \in Call, NEW l
  PROVE  /\ Written(c, l) \in Int
         /\ OfLot(pending[c], l) = {} => Written(c, l) = 0 /\ Balance(c, l) = quantity_on_hand[l]
<1>1. Table(pending[c])
  BY DEF Types, TransactionTypes, Table
<1> QED  BY <1>1, SumsTyped DEF Written, SumOfLot, Balance

LEMMA BalancesKept ==
  ASSUME Types, Types', NEW c \in Call, CallControl(c), Untouched(c), NEW l \in Lot,
         Accounted(c, l), Bounded(c, l), quantity_on_hand'[l] \in 0..MaxAmount
  PROVE  Accounted(c, l)' /\ Bounded(c, l)'
<1>1. /\ lot_lock[l] = c => Balance(c, l)' = Balance(c, l)
      /\ OfLot(pending[c], l) # {} => lot_lock[l] = c
      /\ pending'[c] = pending[c]
  BY BalanceKept
<1>2. Written(c, l)' = Written(c, l)
  BY <1>1 DEF Written
<1>3. CASE OfLot(pending[c], l) = {}
  <2>1. Written(c, l)' = 0 /\ Balance(c, l)' = quantity_on_hand'[l]
    <3>1. Written(c, l) = 0
      BY <1>3, WrittenNothing
    <3>2. OfLot(pending'[c], l) = {}
      BY <1>1, <1>3
    <3> QED  BY <1>2, <3>1, <3>2 DEF Balance
  <2>2. quantity_on_hand'[l] \in Int
    BY DEF Types, StoreTypes
  <2> QED  BY <2>1, <2>2 DEF Accounted, Bounded
<1>4. CASE OfLot(pending[c], l) # {}
  <2>1. quantity_on_hand'[l] = quantity_on_hand[l]
    BY <1>1, <1>4 DEF Untouched, Held
  <2> QED  BY <1>1, <1>2, <1>4, <2>1 DEF Accounted, Bounded
<1> QED  BY <1>3, <1>4

LEMMA BalancesEmptied ==
  ASSUME Types, Types', NEW c \in Call, pending'[c] = <<>>, NEW l \in Lot, quantity_on_hand'[l] \in 0..MaxAmount
  PROVE  Accounted(c, l)' /\ Bounded(c, l)'
<1>1. OfLot(pending'[c], l) = {}
  BY EmptyTable
<1>2. Written(c, l)' = 0
  BY <1>1, EmptyTable, SumsTyped DEF Written, SumOfLot
<1>3. Balance(c, l)' = quantity_on_hand'[l]
  BY <1>1 DEF Balance
<1> QED  BY <1>2, <1>3 DEF Accounted, Bounded

\* The movements of a statement and the balance of a lot after it.
Follows(c, l, moves, both) ==
  /\ (\A n \in DOMAIN moves : moves[n].lot # l)
       => /\ OfLot(both, l) = OfLot(pending[c], l)
          /\ SumOfLot(both, l) = Written(c, l)
          /\ OfLot(both, l) # {} => both[Max(OfLot(both, l))].result = Balance(c, l)
  /\ \A n \in DOMAIN moves : moves[n].lot = l
       => /\ OfLot(both, l) # {} /\ both[Max(OfLot(both, l))].result = moves[n].result
          /\ SumOfLot(both, l) = Written(c, l) + moves[n].delta

LEMMA AfterMoves ==
  ASSUME Types, NEW c \in Call, NEW moves, Moves(c, moves), NEW l \in Lot
  PROVE  Follows(c, l, moves, pending[c] \o moves)
<1> DEFINE t == pending[c]
           both == t \o moves
<1>1. Table(t) /\ Table(moves)
  BY DEF Moves, Types, TransactionTypes, Table
<1> HIDE DEF t
<1>2. OfLot(both, l) = OfLot(t, l) \cup Moved(t, OfLot(moves, l))
  BY <1>1, RowsConcatenated
<1>3. SumOfLot(both, l) = SumOfLot(t, l) + SumOfLot(moves, l) /\ SumOfLot(t, l) \in Int
  <2>1. SumOfDeltas(both, OfLot(both, l)) = SumOfDeltas(t, OfLot(t, l)) + SumOfDeltas(moves, OfLot(moves, l))
    BY <1>1, SumsConcatenated
  <2> HIDE DEF both
  <2> QED  BY <1>1, <2>1, SumsTyped DEF SumOfLot
<1>4. Written(c, l) = SumOfLot(t, l)
  BY DEF Written, SumOfLot, t
<1>5. /\ \A i \in DOMAIN t : i \in DOMAIN both /\ both[i] = t[i]
      /\ \A k \in DOMAIN moves : Len(t) + k \in DOMAIN both /\ both[Len(t) + k] = moves[k]
  BY <1>1, Concatenated
<1>6. /\ DOMAIN t = 1..Len(t) /\ Len(t) \in Nat /\ DOMAIN moves = 1..Len(moves) /\ Len(moves) \in Nat
      /\ \A n \in DOMAIN moves : moves[n].delta \in Int
      /\ OfLot(t, l) \subseteq DOMAIN t /\ OfLot(moves, l) \subseteq DOMAIN moves
  BY <1>1, TableRows DEF OfLot
<1>7. Balance(c, l) = IF OfLot(t, l) = {} THEN quantity_on_hand[l] ELSE t[Max(OfLot(t, l))].result
  BY DEF Balance, t
<1> HIDE DEF both
<1>8. ASSUME \A n \in DOMAIN moves : moves[n].lot # l
      PROVE  /\ OfLot(both, l) = OfLot(t, l) /\ SumOfLot(both, l) = Written(c, l)
             /\ OfLot(both, l) # {} => both[Max(OfLot(both, l))].result = Balance(c, l)
  <2>1. OfLot(moves, l) = {}
    BY <1>8 DEF OfLot
  <2>2. SumOfLot(moves, l) = 0
    BY <1>1, <2>1, SumsTyped DEF SumOfLot
  <2>3. Moved(t, {}) = {}
    BY DEF Moved
  <2>4. OfLot(both, l) = OfLot(t, l)
    BY <1>2, <2>1, <2>3
  <2>5. ASSUME OfLot(t, l) # {} PROVE both[Max(OfLot(t, l))].result = Balance(c, l)
    <3>1. Max(OfLot(t, l)) \in DOMAIN t
      <4>1. OfLot(t, l) \in SUBSET (1..Len(t)) /\ Len(t) \in Nat
        BY <1>6
      <4> QED  BY <1>6, <2>5, <4>1, GreatestIndex
    <3> QED  BY <1>5, <1>7, <2>5, <3>1
  <2> QED  BY <1>3, <1>4, <2>2, <2>4, <2>5
<1>9. ASSUME NEW n \in DOMAIN moves, moves[n].lot = l
      PROVE  /\ OfLot(both, l) # {} /\ both[Max(OfLot(both, l))].result = moves[n].result
             /\ SumOfLot(both, l) = Written(c, l) + moves[n].delta
  <2>1. OfLot(moves, l) = {n}
    BY <1>9 DEF OfLot, Moves
  <2>2. SumOfLot(moves, l) = moves[n].delta
    <3>1. SumOfDeltas(moves, {n}) = moves[n].delta
      <4>1. IsFiniteSet({}) /\ n \notin {} /\ {} \cup {n} = {n} /\ moves[n].delta \in Int
        BY <1>6, FS_EmptySet
      <4>2. SumOfDeltas(moves, {}) = 0
        BY SumEmpty
      <4>3. SumOfDeltas(moves, {} \cup {n}) = SumOfDeltas(moves, {}) + moves[n].delta
        BY <4>1, SumAdd
      <4> QED  BY <1>6, <4>1, <4>2, <4>3
    <3> QED  BY <2>1, <3>1, Zenon DEF SumOfLot
  <2>3. Moved(t, {n}) = {Len(t) + n}
    BY DEF Moved
  <2>4. OfLot(both, l) = OfLot(t, l) \cup {Len(t) + n}
    BY <1>2, <2>1, <2>3
  <2>5. Max(OfLot(both, l)) = Len(t) + n
    <3>1. OfLot(both, l) # {} /\ OfLot(both, l) \in SUBSET (1..(Len(t) + n))
      BY <1>6, <1>9, <2>4
    <3>2. Len(t) + n \in Nat /\ Len(t) + n \in OfLot(both, l)
      BY <1>6, <2>4
    <3>3. Max(OfLot(both, l)) \in OfLot(both, l) /\ \A x \in OfLot(both, l) : x <= Max(OfLot(both, l))
      BY <3>1, <3>2, GreatestIndex
    <3> QED  BY <1>6, <3>1, <3>2, <3>3
  <2>6. both[Len(t) + n] = moves[n]
    BY <1>5, <1>9
  <2> QED  BY <1>3, <1>4, <2>2, <2>4, <2>5, <2>6
<1> QED  BY <1>8, <1>9 DEF both, t, Follows

LEMMA StatementBalances ==
  ASSUME Types, NEW c \in Call, NEW moves, StatementDone(c, moves), NEW l \in Lot
  PROVE  /\ (\A n \in DOMAIN moves : moves[n].lot # l)
              => Balance(c, l)' = Balance(c, l) /\ Written(c, l)' = Written(c, l)
         /\ \A n \in DOMAIN moves : moves[n].lot = l
              => /\ Balance(c, l)' = moves[n].result
                 /\ Written(c, l)' = Written(c, l) + moves[n].delta
         /\ quantity_on_hand' = quantity_on_hand
<1>1. /\ Moves(c, moves) /\ UNCHANGED stock
      /\ pending' = [pending EXCEPT ![c] = @ \o moves]
  BY DEF StatementDone, EndStatement
<1>2. pending'[c] = pending[c] \o moves /\ quantity_on_hand' = quantity_on_hand
  BY <1>1 DEF Types, TransactionTypes, stock
<1> DEFINE both == pending[c] \o moves
<1>3. Follows(c, l, moves, both)
  BY <1>1, AfterMoves
<1> HIDE DEF both
<1>4. pending'[c] = both
  BY <1>2 DEF both
<1>5. Written(c, l)' = SumOfLot(both, l)
  BY <1>4, Zenon DEF Written, SumOfLot
<1>6. Balance(c, l)' = IF OfLot(both, l) = {} THEN quantity_on_hand[l] ELSE both[Max(OfLot(both, l))].result
  BY <1>2, <1>4 DEF Balance
<1> QED  BY <1>2, <1>3, <1>5, <1>6 DEF Balance, Follows

\* Every movement a statement writes keeps the balance of its lot in range.
LEMMA MovesFit ==
  ASSUME Types, Listing, NEW c \in Call, NEW moves, StatementDone(c, moves),
         \A l \in Lot : Bounded(c, l), NEW n \in DOMAIN moves
  PROVE  /\ moves[n] \in MovementType /\ moves[n].lot \in Lot
         /\ moves[n].result \in 0..MaxAmount /\ moves[n].delta \in -MaxAmount..MaxAmount
         /\ moves[n].result = Balance(c, moves[n].lot) + moves[n].delta
<1> DEFINE s == Head(work[c])
           l == moves[n].lot
           b == Balance(c, l)
<1>1. Moves(c, moves) /\ pc[c] = "locking" /\ scan[c] = <<>>
  BY DEF StatementDone
<1>2. moves[n] \in AnyMovement /\ l \in locked[c] /\ moves[n].result = b + moves[n].delta
  BY <1>1 DEF Moves, Table
<1>3. l \in Lot /\ b \in 0..MaxAmount /\ MaxAmount \in Nat /\ moves[n].delta \in Int
  BY <1>2, Constants DEF Types, TransactionTypes, Bounded, AnyMovement
<1>4. moves[n].result \in 0..MaxAmount
  <2>1. CASE s.kind = "deduct"
    <3>1. moves[n].delta < 0 /\ moves[n].result >= 0
      BY <2>1 DEF StatementDone, Deducted
    <3> HIDE DEF b, l
    <3> QED  BY <1>2, <1>3, <3>1
  <2>2. CASE s.kind # "deduct"
    <3>1. moves[n].delta = -NetOf(<<own[c], s.ingredient>>, l) /\ moves[n].result <= MaxAmount
      BY <2>2 DEF StatementDone, Reversed
    <3>2. l \in Listed(c)
      BY <1>2 DEF Listed
    <3>3. NetOf(<<own[c], s.ingredient>>, l) < 0
      BY <1>1, <2>2, <3>2 DEF Listing, CallListing, ListsTheLots
    <3>4. NetOf(<<own[c], s.ingredient>>, l) \in Int
      BY NetType
    <3> HIDE DEF b, l, s
    <3> QED  BY <1>2, <1>3, <3>1, <3>3, <3>4
  <2> QED  BY <2>1, <2>2
<1> HIDE DEF b, s
<1>5. moves[n].delta \in -MaxAmount..MaxAmount
  BY <1>2, <1>3, <1>4
<1>6. moves[n] \in MovementType
  BY <1>2, <1>4, <1>5 DEF AnyMovement, MovementType, Kinds
<1> QED  BY <1>2, <1>3, <1>4, <1>5, <1>6 DEF b

LEMMA AppendedTyped ==
  ASSUME NEW t \in Seq(MovementType), NEW p \in Seq(MovementType)
  PROVE  t \o p \in Seq(MovementType)
  OBVIOUS

\* What a step does to the stored balances and to the movements of them all.
LEMMA CommitStock ==
  ASSUME Types, BalanceInvariant, NEW c \in Call, Commit(c)
  PROVE  StockBounded'
<1>1. /\ quantity_on_hand' = [l \in Lot |-> Balance(c, l)]
      /\ inventory_movement' = inventory_movement \o pending[c]
  BY DEF Commit
<1>2. quantity_on_hand' \in [Lot -> 0..MaxAmount]
  BY <1>1 DEF BalanceInvariant, Bounded
<1>3. inventory_movement' \in Seq(MovementType)
  BY <1>1, AppendedTyped DEF BalanceInvariant, StockBounded
<1> QED  BY <1>2, <1>3 DEF StockBounded

LEMMA OtherStock ==
  ASSUME Types, BalanceInvariant, NEW l \in Lot, NEW d \in {-1, 1}, OtherMovement(l, d)
  PROVE  StockBounded'
<1> DEFINE row0 == Movement(l, NoLine, d, quantity_on_hand[l] + d, "other")
<1>1. /\ quantity_on_hand[l] + d \in 0..MaxAmount
      /\ quantity_on_hand' = [quantity_on_hand EXCEPT ![l] = @ + d]
      /\ inventory_movement' = Append(inventory_movement, row0)
  BY DEF OtherMovement
<1>2. row0 \in MovementType
  BY <1>1, Constants, ScaleAssumption DEF Movement, MovementType
<1>3. quantity_on_hand' \in [Lot -> 0..MaxAmount]
  BY <1>1 DEF BalanceInvariant, StockBounded
<1> HIDE DEF row0
<1>4. inventory_movement' \in Seq(MovementType)
  BY <1>1, <1>2 DEF BalanceInvariant, StockBounded
<1> QED  BY <1>3, <1>4 DEF StockBounded

LEMMA StockCases ==
  ASSUME Types, [Next]_vars
  PROVE  UNCHANGED stock \/ (\E c \in Call : Commit(c)) \/ \E l \in Lot, d \in {-1, 1} : OtherMovement(l, d)
<1>1. ASSUME NEW c \in Call, Step(c) \/ Crash(c) PROVE UNCHANGED stock \/ Commit(c)
  BY <1>1, StepCases, Zenon DEF FindReceipt, FindNoReceipt, Ends, RecordCompletion, ChangeCompletion,
                         BeginStatement, LockNextLot, StatementDone, EndStatement
<1>2. Environment => UNCHANGED stock \/ \E l \in Lot, d \in {-1, 1} : OtherMovement(l, d)
  BY DEF Environment, ChangePlan, NextDay
<1> QED  BY <1>1, <1>2 DEF Next, Terminated, vars

LEMMA StockStep ==
  ASSUME Types, BalanceInvariant, [Next]_vars
  PROVE  StockBounded'
<1>1. CASE UNCHANGED stock
  BY <1>1 DEF stock, BalanceInvariant, StockBounded
<1> QED  BY <1>1, StockCases, CommitStock, OtherStock

LEMMA OwnBalances ==
  ASSUME Types, Types', Control, Listing, BalanceInvariant, StockBounded',
         NEW c \in Call, Step(c) \/ Crash(c)
  PROVE  /\ pending'[c] \in Seq(MovementType)
         /\ \A l \in Lot : Accounted(c, l)' /\ Bounded(c, l)'
<1>1. CASE Ends(c) \/ Commit(c)
  <2>1. pending'[c] = <<>>
    BY <1>1 DEF Ends, Commit, EndTransaction, Types, TransactionTypes
  <2>2. \A l \in Lot : Accounted(c, l)' /\ Bounded(c, l)'
    BY <2>1, BalancesEmptied DEF StockBounded
  <2> QED  BY <2>1, <2>2
<1>2. CASE pending' = pending /\ quantity_on_hand' = quantity_on_hand
  BY <1>2 DEF BalanceInvariant, Accounted, Bounded, Balance, Written
<1>3. ASSUME NEW moves, StatementDone(c, moves)
      PROVE  /\ pending'[c] \in Seq(MovementType)
             /\ \A l \in Lot : Accounted(c, l)' /\ Bounded(c, l)'
  <2>1. Moves(c, moves) /\ pending'[c] = pending[c] \o moves
    BY <1>3 DEF StatementDone, EndStatement, Types, TransactionTypes
  <2>2. \A l \in Lot : Accounted(c, l) /\ Bounded(c, l) /\ quantity_on_hand[l] \in 0..MaxAmount
    BY DEF BalanceInvariant, StockBounded
  <2>3. \A n \in DOMAIN moves :
          /\ moves[n] \in MovementType
          /\ moves[n].result \in 0..MaxAmount /\ moves[n].delta \in -MaxAmount..MaxAmount
          /\ moves[n].result = Balance(c, moves[n].lot) + moves[n].delta
    BY <1>3, <2>2, MovesFit
  <2>4. moves \in Seq(MovementType)
    <3>1. moves \in Seq(AnyMovement)
      BY <2>1 DEF Moves, Table
    <3> QED  BY <2>3, <3>1
  <2>5. pending'[c] \in Seq(MovementType)
    BY <2>1, <2>4, AppendedTyped DEF BalanceInvariant
  <2>6. ASSUME NEW l \in Lot PROVE Accounted(c, l)' /\ Bounded(c, l)'
    <3>1. /\ (\A n \in DOMAIN moves : moves[n].lot # l)
              => Balance(c, l)' = Balance(c, l) /\ Written(c, l)' = Written(c, l)
          /\ \A n \in DOMAIN moves : moves[n].lot = l
              => /\ Balance(c, l)' = moves[n].result
                 /\ Written(c, l)' = Written(c, l) + moves[n].delta
          /\ quantity_on_hand' = quantity_on_hand
      BY <1>3, StatementBalances
    <3>2. CASE \A n \in DOMAIN moves : moves[n].lot # l
      BY <2>2, <3>1, <3>2 DEF Accounted, Bounded
    <3>3. ASSUME NEW n \in DOMAIN moves, moves[n].lot = l PROVE Accounted(c, l)' /\ Bounded(c, l)'
      <4>1. Balance(c, l)' = moves[n].result /\ Written(c, l)' = Written(c, l) + moves[n].delta
        BY <3>1, <3>3
      <4>2. Balance(c, l) = quantity_on_hand[l] + Written(c, l) /\ quantity_on_hand[l] \in Int
        BY <2>2 DEF Accounted
      <4>3. moves[n].result = Balance(c, l) + moves[n].delta /\ moves[n].delta \in Int
            /\ moves[n].result \in 0..MaxAmount
        BY <2>3, <3>3
      <4>4. Written(c, l) \in Int
        BY WrittenNothing
      <4> QED  BY <3>1, <4>1, <4>2, <4>3, <4>4 DEF Accounted, Bounded
    <3> QED  BY <3>2, <3>3
  <2> QED  BY <2>5, <2>6
<1>4. Ends(c) \/ Commit(c) \/ (pending' = pending /\ quantity_on_hand' = quantity_on_hand)
        \/ \E moves : StatementDone(c, moves)
  BY StepCases, Zenon DEF FindReceipt, FindNoReceipt, RecordCompletion, ChangeCompletion, BeginStatement, LockNextLot,
                   stock, transaction
<1> QED  BY <1>1, <1>2, <1>3, <1>4

LEMMA BalanceInit == Init => BalanceInvariant
<1> SUFFICES ASSUME Init PROVE BalanceInvariant
  OBVIOUS
<1>1. StockBounded
  BY CompletionAssumption DEF Init, StockBounded
<1>2. \A c \in Call : pending[c] = <<>>
  BY DEF Init
<1>3. ASSUME NEW c \in Call, NEW l \in Lot PROVE Accounted(c, l) /\ Bounded(c, l)
  <2>1. OfLot(pending[c], l) = {}
    BY <1>2, EmptyTable
  <2>2. Written(c, l) = 0
    BY <1>2, <2>1, EmptyTable, SumsTyped DEF Written, SumOfLot
  <2>3. Balance(c, l) = quantity_on_hand[l]
    BY <2>1 DEF Balance
  <2> QED  BY <1>1, <2>2, <2>3 DEF Accounted, Bounded, StockBounded
<1>4. \A c \in Call : pending[c] \in Seq(MovementType)
  <2>1. <<>> \in Seq(MovementType)
    OBVIOUS
  <2> QED  BY <1>2, <2>1, Zenon
<1> QED  BY <1>1, <1>3, <1>4 DEF BalanceInvariant

LEMMA BalanceStep ==
  ASSUME Types, Control, Listing, BalanceInvariant, [Next]_vars
  PROVE  BalanceInvariant'
<1>1. Types' /\ StockBounded'
  BY TypesStep, StockStep
<1>2. ASSUME NEW c \in Call
      PROVE  /\ pending'[c] \in Seq(MovementType)
             /\ \A l \in Lot : Accounted(c, l)' /\ Bounded(c, l)'
  <2>1. CASE Untouched(c)
    <3>1. pending'[c] \in Seq(MovementType)
      BY <2>1 DEF Untouched, Private, BalanceInvariant
    <3>2. \A l \in Lot : Accounted(c, l)' /\ Bounded(c, l)'
      BY <1>1, <2>1, BalancesKept DEF Control, BalanceInvariant, StockBounded
    <3> QED  BY <3>1, <3>2
  <2>2. CASE Step(c) \/ Crash(c)
    BY <1>1, <2>2, OwnBalances
  <2> QED  BY <2>1, <2>2, NextCases
<1> QED  BY <1>1, <1>2 DEF BalanceInvariant

LEMMA ReconciliationInit == Init => Reconciliation
<1> SUFFICES ASSUME Init PROVE Reconciliation
  OBVIOUS
<1>1. inventory_movement = <<>> /\ quantity_on_hand = InitialQuantity
  BY DEF Init
<1>2. ASSUME NEW l \in Lot PROVE SumOfDeltas(inventory_movement, OfLot(inventory_movement, l)) = 0
  BY <1>1, EmptyTable, SumsTyped
<1>3. \A l \in Lot : InitialQuantity[l] \in Int
  BY CompletionAssumption
<1> QED  BY <1>1, <1>2, <1>3 DEF Reconciliation

LEMMA ReconciliationStep ==
  ASSUME Types, BalanceInvariant, Reconciliation, [Next]_vars
  PROVE  Reconciliation'
<1> DEFINE t == inventory_movement
<1>1. Table(t) /\ \A l \in Lot : InitialQuantity[l] \in Int
  BY CompletionAssumption DEF Types, StoreTypes, Table
<1>2. CASE UNCHANGED stock
  BY <1>2 DEF stock, Reconciliation
<1>3. ASSUME NEW p, Table(p), inventory_movement' = t \o p,
             \A l \in Lot : quantity_on_hand'[l] = quantity_on_hand[l] + SumOfLot(p, l)
      PROVE  Reconciliation'
  <2> SUFFICES ASSUME NEW l \in Lot
               PROVE  quantity_on_hand'[l] = InitialQuantity[l] + SumOfLot(inventory_movement', l)
    BY DEF Reconciliation, SumOfLot
  <2>1. quantity_on_hand[l] = InitialQuantity[l] + SumOfLot(t, l)
    BY DEF Reconciliation, SumOfLot
  <2> HIDE DEF t
  <2>2. SumOfLot(t \o p, l) = SumOfLot(t, l) + SumOfLot(p, l)
    <3>1. Table(p)
      BY <1>3
    <3> QED  BY <1>1, <3>1, SumsConcatenated DEF SumOfLot
  <2>3. SumOfLot(t, l) \in Int /\ SumOfLot(p, l) \in Int
    BY <1>1, <1>3, SumsTyped DEF SumOfLot
  <2>4. SumOfLot(inventory_movement', l) = SumOfLot(t, l) + SumOfLot(p, l)
    BY <1>3, <2>2, Zenon
  <2> QED  BY <1>1, <1>3, <2>1, <2>3, <2>4
<1>4. ASSUME NEW c \in Call, Commit(c) PROVE Reconciliation'
  <2>1. Table(pending[c]) /\ inventory_movement' = t \o pending[c]
    BY <1>4 DEF Commit, Types, TransactionTypes, Table
  <2>2. \A l \in Lot : quantity_on_hand'[l] = quantity_on_hand[l] + SumOfLot(pending[c], l)
    BY <1>4 DEF Commit, BalanceInvariant, Accounted, Written, SumOfLot
  <2> QED  BY <1>3, <2>1, <2>2
<1>5. ASSUME NEW k \in Lot, NEW d \in {-1, 1}, OtherMovement(k, d) PROVE Reconciliation'
  <2> DEFINE row0 == Movement(k, NoLine, d, quantity_on_hand[k] + d, "other")
             p == <<row0>>
  <2>1. Table(p) /\ inventory_movement' = t \o p
    BY <1>5, OtherTypes
  <2>2. quantity_on_hand' = [quantity_on_hand EXCEPT ![k] = @ + d]
    BY <1>5 DEF OtherMovement
  <2>3. row0.lot = k /\ row0.delta = d
    BY DEF Movement
  <2> HIDE DEF row0
  <2>4. DOMAIN p = {1} /\ p[1] = row0
    OBVIOUS
  <2> HIDE DEF p
  <2>5. \A l \in Lot : SumOfLot(p, l) = IF l = k THEN d ELSE 0
    <3> SUFFICES ASSUME NEW l \in Lot PROVE SumOfLot(p, l) = IF l = k THEN d ELSE 0
      OBVIOUS
    <3>1. CASE l # k
      <4>1. OfLot(p, l) = {}
        BY <2>3, <2>4, <3>1 DEF OfLot
      <4> QED  BY <2>1, <3>1, <4>1, SumsTyped DEF SumOfLot
    <3>2. CASE l = k
      <4>1. OfLot(p, l) = {} \cup {1}
        BY <2>3, <2>4, <3>2 DEF OfLot
      <4>2. SumOfDeltas(p, {} \cup {1}) = SumOfDeltas(p, {}) + p[1].delta
        <5>1. IsFiniteSet({}) /\ 1 \notin {} /\ \A x \in {} \cup {1} : p[x].delta \in Int
          BY <2>3, <2>4, FS_EmptySet
        <5> QED  BY <5>1, SumAdd
      <4>3. SumOfDeltas(p, {}) = 0
        BY SumEmpty
      <4>4. SumOfLot(p, l) = SumOfDeltas(p, {} \cup {1})
        BY <4>1, Zenon DEF SumOfLot
      <4> QED  BY <2>3, <2>4, <3>2, <4>2, <4>3, <4>4
    <3> QED  BY <3>1, <3>2
  <2>6. \A l \in Lot : quantity_on_hand'[l] = quantity_on_hand[l] + SumOfLot(p, l)
    BY <2>2, <2>5 DEF BalanceInvariant, StockBounded
  <2> QED  BY <1>3, <2>1, <2>6
<1> QED  BY <1>2, <1>4, <1>5, StockCases

(***************************************************************************)
(* What a call has drawn for a line.                                       *)
(***************************************************************************)
LEMMA LineSums ==
  ASSUME NEW t, Table(t), NEW line, NEW l
  PROVE  /\ SumOf(t, line) \in Int /\ SumOn(t, line, l) \in Int
         /\ OfLine(t, line) = {} => SumOf(t, line) = 0 /\ SumOn(t, line, l) = 0
  BY SumsTyped DEF SumOf, SumOn

LEMMA LineSumsConcatenated ==
  ASSUME NEW t, Table(t), NEW p, Table(p), NEW line, NEW l
  PROVE  /\ SumOf(t \o p, line) = SumOf(t, line) + SumOf(p, line)
         /\ SumOn(t \o p, line, l) = SumOn(t, line, l) + SumOn(p, line, l)
         /\ OfLine(t, line) = {} /\ OfLine(p, line) = {} => OfLine(t \o p, line) = {}
         /\ OfLine(p, line) = {} => OfLine(t \o p, line) = OfLine(t, line)
<1>1. OfLine(t \o p, line) = OfLine(t, line) \cup Moved(t, OfLine(p, line))
  BY RowsConcatenated
<1>2. Moved(t, {}) = {}
  BY DEF Moved
<1>3. /\ SumOf(t \o p, line) = SumOf(t, line) + SumOf(p, line)
      /\ SumOn(t \o p, line, l) = SumOn(t, line, l) + SumOn(p, line, l)
  BY SumsConcatenated DEF SumOf, SumOn
<1> QED  BY <1>1, <1>2, <1>3

LEMMA MovesOfLine ==
  ASSUME NEW c \in Call, NEW moves, Moves(c, moves), NEW i, NEW l
  PROVE  /\ i # Head(work[c]).ingredient => OfLine(moves, <<own[c], i>>) = {}
         /\ i = Head(work[c]).ingredient =>
              /\ OfLine(moves, <<own[c], i>>) = DOMAIN moves
              /\ (\A n \in DOMAIN moves : moves[n].lot # l) => SumOn(moves, <<own[c], i>>, l) = 0
              /\ \A n \in DOMAIN moves : moves[n].lot = l => SumOn(moves, <<own[c], i>>, l) = moves[n].delta
<1>1. Table(moves) /\ \A n \in DOMAIN moves : moves[n].line = <<own[c], Head(work[c]).ingredient>>
  BY DEF Moves
<1>2. i # Head(work[c]).ingredient => OfLine(moves, <<own[c], i>>) = {}
  BY <1>1 DEF OfLine
<1>3. i = Head(work[c]).ingredient => OfLine(moves, <<own[c], i>>) = DOMAIN moves
  BY <1>1 DEF OfLine
<1> DEFINE line == <<own[c], i>>
<1> HIDE DEF line
<1>4. ASSUME OfLine(moves, line) = DOMAIN moves, \A n \in DOMAIN moves : moves[n].lot # l
      PROVE  SumOn(moves, line, l) = 0
  <2>1. OfLineOnLot(moves, line, l) = {}
    BY <1>4 DEF OfLineOnLot, OfLot
  <2> QED  BY <1>1, <2>1, SumsTyped DEF SumOn
<1>5. ASSUME OfLine(moves, line) = DOMAIN moves, NEW n \in DOMAIN moves, moves[n].lot = l
      PROVE  SumOn(moves, line, l) = moves[n].delta
  <2>1. OfLineOnLot(moves, line, l) = {} \cup {n}
    BY <1>5 DEF OfLineOnLot, OfLot, Moves
  <2>2. IsFiniteSet({}) /\ n \notin {} /\ \A x \in {} \cup {n} : moves[x].delta \in Int
    BY <1>1, <1>5, TableRows, FS_EmptySet
  <2>3. SumOfDeltas(moves, {} \cup {n}) = SumOfDeltas(moves, {}) + moves[n].delta
    BY <2>2, SumAdd
  <2>4. SumOfDeltas(moves, {}) = 0
    BY SumEmpty
  <2>5. SumOn(moves, line, l) = SumOfDeltas(moves, {} \cup {n})
    BY <2>1, Zenon DEF SumOn
  <2> QED  BY <2>2, <2>3, <2>4, <2>5
<1> QED  BY <1>2, <1>3, <1>4, <1>5 DEF line

LEMMA NetNotPositive ==
  ASSUME NetConsumption, NEW m \in CompletionId, NEW i \in Ingredient, NEW l \in Lot
  PROVE  NetOf(<<m, i>>, l) <= 0
  BY Zenon DEF NetConsumption, NetOf

LEMMA ReversedSums ==
  ASSUME Types, Listing, NetConsumption, NEW c \in Call, NEW moves, StatementDone(c, moves),
         Head(work[c]).kind # "deduct", NEW l \in Lot
  PROVE  LET line == <<own[c], Head(work[c]).ingredient>> IN SumOn(moves, line, l) = -NetOf(line, l)
<1> DEFINE i == Head(work[c]).ingredient
<1>1. /\ pc[c] = "locking" /\ scan[c] = <<>> /\ work[c] # <<>>
      /\ Moves(c, moves) /\ Reversed(c, moves)
  BY DEF StatementDone
<1>2. i \in Ingredient /\ own[c] \in CompletionId
  BY <1>1, HeadOfWork DEF Types, Shape, Active
<1>3. NetOf(<<own[c], i>>, l) \in Int /\ NetOf(<<own[c], i>>, l) <= 0
  BY <1>2, NetType, NetNotPositive
<1>4. locked[c] = {k \in Lot : NetOf(<<own[c], i>>, k) < 0}
  <2>1. Listed(c) = locked[c]
    BY <1>1 DEF Listed
  <2> QED  BY <1>1, <2>1 DEF Listing, CallListing, ListsTheLots
<1> DEFINE line == <<own[c], i>>
<1> SUFFICES SumOn(moves, line, l) = -NetOf(line, l)
  OBVIOUS
<1>5. CASE \E n \in DOMAIN moves : moves[n].lot = l
  BY <1>1, <1>5, MovesOfLine DEF Reversed
<1>6. CASE \A n \in DOMAIN moves : moves[n].lot # l
  <2>1. l \notin locked[c]
    BY <1>1, <1>6 DEF Reversed
  <2>2. NetOf(line, l) = 0
    BY <1>3, <1>4, <2>1
  <2>3. SumOn(moves, line, l) = 0
    BY <1>1, <1>6, MovesOfLine
  <2>4. -NetOf(line, l) = 0
    <3> DEFINE v == NetOf(line, l)
    <3>1. v = 0 /\ v \in Int
      BY <2>2
    <3> HIDE DEF v
    <3>2. v \in Int
      BY <3>1
    <3>3. -v = 0 - v
      BY <3>2
    <3>4. 0 - v = 0
      BY <3>1
    <3> QED  BY <3>3, <3>4, Zenon DEF v
  <2> HIDE DEF line
  <2> QED  BY <2>3, <2>4, Zenon
<1> QED  BY <1>5, <1>6

LEMMA DeductedSums ==
  ASSUME Types, NEW c \in Call, NEW moves, StatementDone(c, moves), Head(work[c]).kind = "deduct"
  PROVE  LET line == <<own[c], Head(work[c]).ingredient>> IN
         /\ SumOf(moves, line) = -Head(work[c]).amount
         /\ \A l \in Lot : SumOn(moves, line, l) <= 0
         /\ \A n \in DOMAIN moves : moves[n].delta < 0
<1> DEFINE i == Head(work[c]).ingredient
           line == <<own[c], i>>
<1>1. Moves(c, moves) /\ Deducted(c, moves)
  BY DEF StatementDone
<1>2. OfLine(moves, line) = DOMAIN moves
  BY <1>1, MovesOfLine
<1>3. SumOfDeltas(moves, DOMAIN moves) = -Head(work[c]).amount
  BY <1>1 DEF Deducted
<1> HIDE DEF line
<1>4. SumOf(moves, line) = SumOfDeltas(moves, DOMAIN moves)
  BY <1>2, Zenon DEF SumOf
<1>5. \A n \in DOMAIN moves : moves[n].delta \in Int /\ moves[n].delta < 0
  BY <1>1 DEF Deducted
<1>6. ASSUME NEW l \in Lot PROVE SumOn(moves, line, l) <= 0
  <2>1. Table(moves)
    BY <1>1 DEF Moves
  <2>2. OfLineOnLot(moves, line, l) \in SUBSET DOMAIN moves
    BY <1>2 DEF OfLineOnLot
  <2>3. IsFiniteSet(OfLineOnLot(moves, line, l))
    BY <2>1, <2>2, TableRows
  <2>4. \A x \in OfLineOnLot(moves, line, l) : moves[x].delta \in Int /\ moves[x].delta <= 0
    BY <1>5, <2>2
  <2> QED  BY <2>3, <2>4, SumSign DEF SumOn
<1> QED  BY <1>3, <1>4, <1>5, <1>6 DEF line

\* A statement and what has been drawn for each line.
LEMMA StatementSums ==
  ASSUME Types, NEW c \in Call, NEW moves, StatementDone(c, moves), NEW i \in Ingredient
  PROVE  /\ i # Head(work[c]).ingredient =>
              /\ Rows(c, i)' = Rows(c, i) /\ Drawn(c, i)' = Drawn(c, i)
              /\ \A l : DrawnFrom(c, i, l)' = DrawnFrom(c, i, l)
         /\ Drawn(c, i)' = Drawn(c, i) + SumOf(moves, <<own[c], i>>)
         /\ \A l : DrawnFrom(c, i, l)' = DrawnFrom(c, i, l) + SumOn(moves, <<own[c], i>>, l)
         /\ Rows(c, i)' # {} => Rows(c, i) # {} \/ DOMAIN moves # {}
         /\ pending'[c] = pending[c] \o moves
<1>1. /\ Moves(c, moves) /\ own' = own
      /\ pending' = [pending EXCEPT ![c] = @ \o moves]
  BY DEF StatementDone, EndStatement
<1> DEFINE t == pending[c]
           line == <<own[c], i>>
<1>2. pending'[c] = t \o moves /\ <<own'[c], i>> = line
  BY <1>1 DEF Types, TransactionTypes
<1>3. Table(t) /\ Table(moves)
  BY <1>1 DEF Moves, Types, TransactionTypes, Table
<1>4. /\ i # Head(work[c]).ingredient => OfLine(moves, line) = {}
      /\ OfLine(moves, line) \subseteq DOMAIN moves
  BY <1>1, MovesOfLine DEF OfLine
<1>5. Rows(c, i) = OfLine(t, line) /\ Drawn(c, i) = SumOf(t, line)
      /\ \A l : DrawnFrom(c, i, l) = SumOn(t, line, l)
  BY DEF Rows, Drawn, DrawnFrom
<1> HIDE DEF t, line
<1>6. Rows(c, i)' = OfLine(t \o moves, line) /\ Drawn(c, i)' = SumOf(t \o moves, line)
      /\ \A l : DrawnFrom(c, i, l)' = SumOn(t \o moves, line, l)
  BY <1>2, Zenon DEF Rows, Drawn, DrawnFrom
<1>7. ASSUME NEW l
      PROVE  /\ SumOf(t \o moves, line) = SumOf(t, line) + SumOf(moves, line)
             /\ SumOn(t \o moves, line, l) = SumOn(t, line, l) + SumOn(moves, line, l)
             /\ OfLine(moves, line) = {} =>
                  /\ OfLine(t \o moves, line) = OfLine(t, line)
                  /\ SumOf(t \o moves, line) = SumOf(t, line)
                  /\ SumOn(t \o moves, line, l) = SumOn(t, line, l)
             /\ OfLine(t, line) = {} /\ OfLine(moves, line) = {} => OfLine(t \o moves, line) = {}
  BY <1>3, LineSumsConcatenated, LineSums, NothingOfLine
<1>8. pending'[c] = pending[c] \o moves
  BY <1>2 DEF t
<1> HIDE DEF line
<1>9. /\ SumOf(moves, <<own[c], i>>) = SumOf(moves, line)
      /\ \A l : SumOn(moves, <<own[c], i>>, l) = SumOn(moves, line, l)
  BY DEF line
<1>10. i # Head(work[c]).ingredient =>
              /\ Rows(c, i)' = Rows(c, i) /\ Drawn(c, i)' = Drawn(c, i)
              /\ \A l : DrawnFrom(c, i, l)' = DrawnFrom(c, i, l)
  BY <1>4, <1>5, <1>6, <1>7
<1>11. /\ Drawn(c, i)' = Drawn(c, i) + SumOf(moves, <<own[c], i>>)
       /\ \A l : DrawnFrom(c, i, l)' = DrawnFrom(c, i, l) + SumOn(moves, <<own[c], i>>, l)
  BY <1>5, <1>6, <1>7, <1>9
<1>12. Rows(c, i)' # {} => Rows(c, i) # {} \/ DOMAIN moves # {}
  BY <1>4, <1>5, <1>6, <1>7
<1> QED  BY <1>8, <1>10, <1>11, <1>12

\* The committed movements and amounts of a call's own completion stay.
SameLedger(c) ==
  \A i \in Ingredient :
    /\ Net(own[c], i)' = Net(own[c], i)
    /\ \A l \in Lot : NetOf(<<own[c], i>>, l)' = NetOf(<<own[c], i>>, l)
    /\ actual_amount'[own'[c]][i] = actual_amount[own[c]][i]
\* What it has drawn for a line stays.
SameDraws(c, i) ==
  /\ Rows(c, i)' = Rows(c, i) /\ Drawn(c, i)' = Drawn(c, i)
  /\ \A l \in Lot : DrawnFrom(c, i, l)' = DrawnFrom(c, i, l)

LEMMA LedgerUnchanged ==
  ASSUME NEW c \in Call, UNCHANGED <<inventory_movement, actual_amount, own>>
  PROVE  SameLedger(c)
  BY DEF SameLedger, Net, NetOf

LEMMA LedgerKept ==
  ASSUME Types, NEW c \in Call, Active(c), Untouched(c)
  PROVE  SameLedger(c)
<1>1. own'[c] = own[c] /\ actual_amount'[own[c]] = actual_amount[own[c]]
  BY DEF Untouched, Private, Held
<1> SUFFICES ASSUME NEW i \in Ingredient
             PROVE  /\ Net(own[c], i)' = Net(own[c], i)
                    /\ \A l \in Lot : NetOf(<<own[c], i>>, l)' = NetOf(<<own[c], i>>, l)
                    /\ actual_amount'[own'[c]][i] = actual_amount[own[c]][i]
  BY DEF SameLedger
<1>2. \A l : /\ SumOn(inventory_movement', <<own[c], i>>, l) = SumOn(inventory_movement, <<own[c], i>>, l)
             /\ SumOf(inventory_movement', <<own[c], i>>) = SumOf(inventory_movement, <<own[c], i>>)
  BY LineKept
<1>3. Net(own[c], i)' = Net(own[c], i)
  BY <1>1, <1>2 DEF Net
<1>4. \A l \in Lot : NetOf(<<own[c], i>>, l)' = NetOf(<<own[c], i>>, l)
  BY <1>1, <1>2 DEF NetOf, SumOn
<1> QED  BY <1>1, <1>3, <1>4

LEMMA DrawsUnchanged ==
  ASSUME NEW c \in Call, pending'[c] = pending[c], own'[c] = own[c], NEW i
  PROVE  SameDraws(c, i)
<1>1. Rows(c, i)' = Rows(c, i)
  BY Zenon DEF Rows
<1>2. Drawn(c, i)' = Drawn(c, i)
  BY Zenon DEF Drawn
<1>3. \A l \in Lot : DrawnFrom(c, i, l)' = DrawnFrom(c, i, l)
  BY Zenon DEF DrawnFrom
<1> QED  BY <1>1, <1>2, <1>3 DEF SameDraws

LEMMA UndoneSame ==
  ASSUME NEW c \in Call, SameLedger(c), NEW i \in Ingredient, SameDraws(c, i)
  PROVE  Undone(c, i)' <=> Undone(c, i)
<1>1. \A l \in Lot : /\ NetOf(<<own[c], i>>, l)' = NetOf(<<own[c], i>>, l)
                     /\ DrawnFrom(c, i, l)' = DrawnFrom(c, i, l)
  BY DEF SameLedger, SameDraws
<1> QED  BY <1>1 DEF Undone

LEMMA AccountSame ==
  ASSUME Types, NEW c \in Call, CallAccount(c), SameLedger(c),
         pc'[c] = pc[c], request'[c] = request[c], own'[c] = own[c], lines'[c] = lines[c],
         work'[c] = work[c], pending'[c] = pending[c]
  PROVE  CallAccount(c)'
<1>1. \A i : SameDraws(c, i)
  BY DrawsUnchanged
<1>2. \A i : Rows(c, i)' = Rows(c, i) /\ Drawn(c, i)' = Drawn(c, i)
  BY <1>1 DEF SameDraws
<1>3. \A i \in Ingredient : Undone(c, i)' <=> Undone(c, i)
  BY <1>1, UndoneSame
<1>4. (\A i : Now(c, i)' <=> Now(c, i)) /\ ToDo(c)' = ToDo(c)
  BY DEF Now, ToDo
<1>5. Active(c)' <=> Active(c)
  BY DEF Active
<1>6. CookingAccount(c) => CookingAccount(c)'
  BY <1>2, <1>4 DEF CookingAccount
<1>7. ReopeningAccount(c) => ReopeningAccount(c)'
  BY <1>2, <1>3, <1>4 DEF ReopeningAccount, SameLedger
<1>8. ASSUME NEW i \in Ingredient, NEW amount, CorrectionAccount(c, i, amount)
      PROVE  CorrectionAccount(c, i, amount)'
  <2>1. ToUndo(c, i, amount) => ToUndo(c, i, amount)'
    BY DEF ToUndo
  <2>2. ToDeduct(c, i, amount) => ToDeduct(c, i, amount)'
    BY <1>3 DEF ToDeduct
  <2>3. Corrected(c, i, amount) => Corrected(c, i, amount)'
    <3>1. Net(own[c], i)' = Net(own[c], i) /\ Drawn(c, i)' = Drawn(c, i)
      BY <1>2 DEF SameLedger
    <3>2. \A l \in Lot : /\ NetOf(<<own[c], i>>, l)' = NetOf(<<own[c], i>>, l)
                         /\ DrawnFrom(c, i, l)' = DrawnFrom(c, i, l)
      BY <1>1 DEF SameLedger, SameDraws
    <3> QED  BY <3>1, <3>2 DEF Corrected
  <2> QED  BY <1>8, <2>1, <2>2, <2>3 DEF CorrectionAccount, SameLedger
<1>9. request[c].op = Correct => request[c].ingredient \in Ingredient
  BY CompletionAssumption DEF Types, CallTypes, WellFormed
<1>10. Cooking(c)' <=> Cooking(c)
  BY DEF Cooking
<1> QED  BY <1>5, <1>6, <1>7, <1>8, <1>9, <1>10 DEF CallAccount

LEMMA NotActiveAccount ==
  ASSUME NEW c \in Call, ~Active(c)'
  PROVE  CallAccount(c)'
  BY DEF CallAccount

\* The beginning of a transaction.
LEMMA NothingDrawn ==
  ASSUME NEW c \in Call, pending[c] = <<>>, NEW i
  PROVE  /\ Rows(c, i) = {} /\ Drawn(c, i) = 0 /\ \A l : DrawnFrom(c, i, l) = 0
<1>1. Rows(c, i) = {}
  BY EmptyTable DEF Rows
<1>2. Table(<<>>) /\ OfLine(<<>>, <<own[c], i>>) = {}
  BY EmptyTable
<1>3. SumOf(<<>>, <<own[c], i>>) = 0 /\ \A l : SumOn(<<>>, <<own[c], i>>, l) = 0
  BY <1>2, LineSums
<1> QED  BY <1>1, <1>3 DEF Drawn, DrawnFrom

LEMMA RecordAccount ==
  ASSUME Types, NEW c \in Call, CallControl(c), RecordCompletion(c)
  PROVE  CallAccount(c)'
<1>1. /\ pc[c] = "open" /\ request[c].op \in {Complete, Skip} /\ pc'[c] = "work"
      /\ UNCHANGED <<request, lines, pending>>
  BY DEF RecordCompletion, Types, CallTypes
<1>2. lines'[c] = NoLines /\ pending'[c] = <<>>
  BY <1>1 DEF CallControl, Active, Idle
<1>3. \A i : Rows(c, i)' = {}
  BY <1>2, EmptyTable DEF Rows
<1>4. CookingAccount(c)'
  BY <1>2, <1>3 DEF CookingAccount, NoLines
<1> QED  BY <1>1, <1>4 DEF CallAccount, Complete, Skip, Correct, Reopen

LEMMA ChangeAccount ==
  ASSUME Types, LineAccounts, NEW c \in Call, CallControl(c), ChangeCompletion(c)
  PROVE  CallAccount(c)'
<1> DEFINE q == request[c]
           m == q.completion
<1>1. q \in Request /\ q.op \in {Correct, Reopen} /\ m \in CompletionId
      /\ (q.op = Correct => q.ingredient \in Ingredient)
  BY CompletionAssumption DEF ChangeCompletion, WellFormed, Types, CallTypes, Correct, Reopen, Complete, Skip
<1>2. /\ pc[c] = "open" /\ pc'[c] = "work" /\ own'[c] = m /\ LineExists(q)
      /\ UNCHANGED <<stock, records, request, lines, pending>>
  BY DEF ChangeCompletion, Types, CallTypes, TransactionTypes
<1>3. PICK s \in Statements(q) : work' = [work EXCEPT ![c] = s]
  BY DEF ChangeCompletion
<1>4. work'[c] = s
  BY <1>3 DEF Types, TransactionTypes
<1>5. lines'[c] = NoLines /\ pending'[c] = <<>>
  BY <1>2 DEF CallControl, Active, Idle
<1>6. \A i : Rows(c, i)' = {} /\ \A l : DrawnFrom(c, i, l)' = 0
  <2>1. Table(<<>>) /\ \A line : OfLine(<<>>, line) = {}
    BY EmptyTable
  <2>2. \A line, l : SumOn(<<>>, line, l) = 0
    BY <2>1, LineSums
  <2> QED  BY <1>5, <2>1, <2>2 DEF Rows, DrawnFrom
<1>7. CASE q.op = Correct
  <2>1. s = <<Undo(q.ingredient), Deduct(q.ingredient, q.amount)>>
    BY <1>1, <1>7, StatementsTyped
  <2>2. actual_amount[m][q.ingredient] > 0
    BY <1>2, <1>7 DEF LineExists, LineIngredients
  <2>3. ToUndo(c, q.ingredient, q.amount)'
    BY <1>1, <1>2, <1>4, <1>5, <1>7, <2>1 DEF ToUndo, NoLines
  <2>4. CorrectionAccount(c, q.ingredient, q.amount)'
    BY <1>2, <1>5, <2>2, <2>3 DEF CorrectionAccount, NoLines, records
  <2> QED  BY <1>2, <1>7, <2>4 DEF CallAccount, Cooking, Complete, Skip, Correct, Reopen
<1>8. CASE q.op = Reopen
  <2>1. /\ \A n \in DOMAIN s : s[n] = Undo(s[n].ingredient)
        /\ \A n, k \in DOMAIN s : n # k => s[n].ingredient # s[k].ingredient
        /\ {s[n].ingredient : n \in DOMAIN s} = LineIngredients(m)
    BY <1>1, <1>8, StatementsTyped DEF Correct, Reopen
  <2>2. ToDo(c)' = LineIngredients(m)
    BY <1>4, <2>1 DEF ToDo
  <2>3. \A n \in DOMAIN s : s[n].kind = "reverse" /\ s[n].amount = 0
    BY <2>1 DEF Undo
  <2>4. ASSUME NEW i \in Ingredient, i \notin ToDo(c)' PROVE Undone(c, i)'
    <3>1. actual_amount[m][i] = 0
      BY <1>1, <2>2, <2>4 DEF LineIngredients, Types, StoreTypes
    <3>2. OfLine(inventory_movement, <<m, i>>) = {}
      BY <1>1, <3>1 DEF LineAccounts, LineAccount
    <3>3. Table(inventory_movement)
      BY DEF Types, StoreTypes, Table
    <3>4. \A l \in Lot : SumOn(inventory_movement, <<m, i>>, l) = 0
      BY <3>2, <3>3, LineSums
    <3>5. \A l \in Lot : NetOf(<<own[c], i>>, l)' = 0
      BY <1>2, <3>4 DEF NetOf, SumOn, stock
    <3>6. ASSUME NEW l \in Lot PROVE DrawnFrom(c, i, l)' = -(NetOf(<<own[c], i>>, l)')
      <4> DEFINE v == NetOf(<<own[c], i>>, l)'
      <4>1. v = 0 /\ v \in Int /\ DrawnFrom(c, i, l)' = 0
        BY <1>6, <3>5
      <4> HIDE DEF v
      <4>2. v \in Int
        BY <4>1
      <4>3. -v = 0 - v
        BY <4>2
      <4>4. 0 - v = 0
        BY <4>1
      <4> QED  BY <4>1, <4>3, <4>4, Zenon DEF v
    <3> QED  BY <3>6 DEF Undone
  <2>5. ReopeningAccount(c)'
    BY <1>4, <1>5, <1>6, <2>1, <2>3, <2>4 DEF ReopeningAccount
  <2> QED  BY <1>2, <1>8, <2>5 DEF CallAccount, Cooking, Complete, Skip, Correct, Reopen
<1> QED  BY <1>1, <1>7, <1>8

LEMMA BeginAccount ==
  ASSUME Types, NEW c \in Call, CallControl(c), CallAccount(c), BeginStatement(c)
  PROVE  CallAccount(c)'
<1> DEFINE s == Head(work[c])
<1>1. /\ pc[c] = "work" /\ work[c] # <<>> /\ ~DuplicateLine(c) /\ pc'[c] = "locking"
      /\ lines'[c] = [lines[c] EXCEPT ![s.ingredient] = s.amount]
      /\ own'[c] = own[c] /\ pending'[c] = pending[c] /\ work'[c] = work[c] /\ request'[c] = request[c]
      /\ UNCHANGED <<inventory_movement, actual_amount, own>>
  BY DEF BeginStatement, Types, CallTypes, TransactionTypes, stock, records
<1>2. s.ingredient \in Ingredient /\ lines[c] \in [Ingredient -> 0..MaxAmount]
      /\ s = work[c][1] /\ 1 \in DOMAIN work[c] /\ s.amount \in 0..MaxAmount
  BY <1>1, HeadOfWork DEF Types, TransactionTypes
<1>3. SameLedger(c)
  BY <1>1, LedgerUnchanged
<1>4. \A i : SameDraws(c, i)
  BY <1>1, DrawsUnchanged
<1>5. \A i : Rows(c, i)' = Rows(c, i) /\ Drawn(c, i)' = Drawn(c, i)
  BY <1>4 DEF SameDraws
<1>6. \A i \in Ingredient : Undone(c, i)' <=> Undone(c, i)
  BY <1>3, <1>4, UndoneSame
<1>7. /\ \A i : ~Now(c, i) /\ (Now(c, i)' <=> s.ingredient = i)
      /\ ToDo(c)' = ToDo(c)
  BY <1>1 DEF Now, ToDo
<1>8. Active(c) /\ (Cooking(c)' <=> Cooking(c))
  BY <1>1 DEF Active, Cooking
<1>9. ASSUME Cooking(c) PROVE CookingAccount(c)'
  <2>1. HoldsPlan(c) /\ CookingAccount(c)
    BY <1>8, <1>9 DEF CallControl, CallAccount
  <2>2. request[c].op = Complete
    BY <1>1, <1>9, <2>1 DEF HoldsPlan, Cooking
  <2>3. lines[c][s.ingredient] = 0
    BY <1>1, <1>2, <2>2 DEF DuplicateLine
  <2>4. ASSUME NEW i \in Ingredient
        PROVE  /\ lines'[c][i] = 0 \/ Now(c, i)' => Rows(c, i)' = {}
               /\ lines'[c][i] > 0 /\ ~Now(c, i)' => Drawn(c, i)' = -lines'[c][i]
    <3>1. CASE i = s.ingredient
      <4>1. Rows(c, i) = {}
        BY <2>1, <2>3, <3>1 DEF CookingAccount
      <4> QED  BY <1>5, <1>7, <3>1, <4>1
    <3>2. CASE i # s.ingredient
      <4>1. lines'[c][i] = lines[c][i] /\ ~Now(c, i)'
        BY <1>1, <1>2, <1>7, <3>2
      <4> QED  BY <1>5, <1>7, <2>1, <4>1 DEF CookingAccount
    <3> QED  BY <3>1, <3>2
  <2> QED  BY <1>1, <2>1, <2>4 DEF CookingAccount
<1>10. ASSUME NEW i \in Ingredient, NEW amount, CorrectionAccount(c, i, amount)
       PROVE  CorrectionAccount(c, i, amount)'
  <2>1. CASE ToUndo(c, i, amount)
    <3>1. s = Undo(i)
      BY <1>2, <2>1 DEF ToUndo
    <3>2. s.ingredient = i /\ s.amount = 0
      BY <3>1 DEF Undo
    <3>3. ToUndo(c, i, amount)' /\ lines'[c] = lines[c]
      BY <1>1, <1>2, <2>1, <3>2 DEF ToUndo
    <3> QED  BY <1>1, <1>3, <1>10, <3>3 DEF CorrectionAccount, SameLedger
  <2>2. CASE ToDeduct(c, i, amount)
    <3>1. s = Deduct(i, amount)
      BY <1>2, <2>2 DEF ToDeduct
    <3>2. s.ingredient = i
      BY <3>1 DEF Deduct
    <3>3. ToDeduct(c, i, amount)' /\ \A j \in Ingredient : j # i => lines'[c][j] = lines[c][j]
      BY <1>1, <1>2, <1>6, <2>2, <3>2 DEF ToDeduct
    <3> QED  BY <1>1, <1>3, <1>10, <3>3 DEF CorrectionAccount, SameLedger
  <2>3. ~Corrected(c, i, amount)
    BY <1>1 DEF Corrected
  <2> QED  BY <1>10, <2>1, <2>2, <2>3 DEF CorrectionAccount
<1>11. ASSUME ReopeningAccount(c) PROVE ReopeningAccount(c)'
  <2>1. s.amount = 0 /\ lines[c] = NoLines
    BY <1>2, <1>11 DEF ReopeningAccount
  <2>2. lines'[c] = NoLines
    BY <1>1, <1>2, <2>1 DEF NoLines
  <2> QED  BY <1>1, <1>3, <1>5, <1>6, <1>7, <1>11, <2>2 DEF ReopeningAccount, SameLedger
<1>12. request[c].op = Correct => request[c].ingredient \in Ingredient
  BY CompletionAssumption DEF Types, CallTypes, WellFormed
<1> QED  BY <1>1, <1>8, <1>9, <1>10, <1>11, <1>12 DEF CallAccount

LEMMA StatementCooking ==
  ASSUME Types, NEW c \in Call, CallControl(c), CookingAccount(c), Cooking(c),
         NEW moves, StatementDone(c, moves)
  PROVE  CookingAccount(c)'
<1> DEFINE s == Head(work[c])
<1>1. /\ pc[c] = "locking" /\ work[c] # <<>> /\ pc'[c] = "work" /\ lines'[c] = lines[c]
      /\ Moves(c, moves)
  BY DEF StatementDone, EndStatement, Types, CallTypes
<1>2. HoldsPlan(c) /\ lines[c][s.ingredient] = s.amount
  BY <1>1 DEF CallControl, Active
<1>3. s.kind = "deduct" /\ s.amount > 0 /\ s.ingredient \in Ingredient /\ s.amount \in Nat
  BY <1>1, <1>2, HeadOfWork, Constants DEF HoldsPlan
<1>4. /\ SumOf(moves, <<own[c], s.ingredient>>) = -s.amount
      /\ \A n \in DOMAIN moves : moves[n].delta < 0
  BY <1>3, DeductedSums
<1>5. pending'[c] = pending[c] \o moves
  BY <1>3, StatementSums
<1>6. Table(pending[c]) /\ Table(moves)
  BY <1>1 DEF Moves, Types, TransactionTypes, Table
<1>7. \A n \in DOMAIN pending'[c] : pending'[c][n].delta <= 0
  <2> SUFFICES ASSUME NEW n \in DOMAIN (pending[c] \o moves) PROVE (pending[c] \o moves)[n].delta <= 0
    BY <1>5, Zenon
  <2>1. \A k \in DOMAIN pending[c] : pending[c][k].delta <= 0
    BY DEF CookingAccount
  <2>2. \A k \in DOMAIN moves : moves[k].delta <= 0
    BY <1>4, <1>6, TableRows
  <2>3. \/ \E k \in DOMAIN pending[c] : (pending[c] \o moves)[n] = pending[c][k]
        \/ \E k \in DOMAIN moves : (pending[c] \o moves)[n] = moves[k]
    BY <1>6, EitherRow
  <2> QED  BY <2>1, <2>2, <2>3, Zenon
<1>8. ASSUME NEW i \in Ingredient
      PROVE  /\ lines'[c][i] = 0 \/ Now(c, i)' => Rows(c, i)' = {}
             /\ lines'[c][i] > 0 /\ ~Now(c, i)' => Drawn(c, i)' = -lines'[c][i]
  <2>1. ~Now(c, i)'
    BY <1>1 DEF Now
  <2>2. CASE i = s.ingredient
    <3>1. Rows(c, i) = {}
      BY <1>1, <2>2 DEF CookingAccount, Now
    <3>2. Drawn(c, i) = 0
      BY <1>6, <3>1, LineSums DEF Drawn, Rows
    <3>3. Drawn(c, i)' = Drawn(c, i) + SumOf(moves, <<own[c], i>>)
      BY StatementSums
    <3>4. Drawn(c, i)' = 0 + SumOf(moves, <<own[c], i>>) /\ SumOf(moves, <<own[c], i>>) = -s.amount
      BY <1>4, <2>2, <3>2, <3>3
    <3> HIDE DEF s
    <3>5. Drawn(c, i)' = -s.amount
      BY <1>3, <3>4
    <3>6. lines'[c][i] = s.amount /\ s.amount # 0
      BY <1>1, <1>2, <1>3, <2>2 DEF s
    <3> QED  BY <2>1, <3>5, <3>6, Zenon
  <2>3. CASE i # s.ingredient
    <3>1. Rows(c, i)' = Rows(c, i) /\ Drawn(c, i)' = Drawn(c, i)
      BY <2>3, StatementSums
    <3>2. ~Now(c, i)
      BY <2>3 DEF Now
    <3> QED  BY <1>1, <2>1, <3>1, <3>2 DEF CookingAccount
  <2> QED  BY <2>2, <2>3
<1> QED  BY <1>7, <1>8 DEF CookingAccount

LEMMA StatementCorrection ==
  ASSUME Types, Listing, NetConsumption, NEW c \in Call, CallControl(c),
         NEW i \in Ingredient, NEW amount \in Nat, CorrectionAccount(c, i, amount),
         NEW moves, StatementDone(c, moves)
  PROVE  CorrectionAccount(c, i, amount)'
<1> DEFINE s == Head(work[c])
<1>1. /\ pc[c] = "locking" /\ work[c] # <<>> /\ pc'[c] = "work" /\ lines'[c] = lines[c] /\ own'[c] = own[c]
      /\ Moves(c, moves) /\ work'[c] = Tail(work[c]) /\ lines[c][s.ingredient] = s.amount
      /\ UNCHANGED <<inventory_movement, actual_amount, own>>
  BY DEF StatementDone, EndStatement, Types, CallTypes, TransactionTypes, CallControl, stock, records
<1>2. Table(pending[c]) /\ Table(moves) /\ Table(inventory_movement)
  BY <1>1 DEF Moves, Types, TransactionTypes, StoreTypes, Table
<1>3. s.ingredient = i
  BY <1>1 DEF CorrectionAccount, ToUndo, ToDeduct, Corrected, Undo, Deduct
<1>4. SameLedger(c)
  BY <1>1, LedgerUnchanged
<1>5. /\ pending'[c] = pending[c] \o moves
      /\ Drawn(c, i)' = Drawn(c, i) + SumOf(moves, <<own[c], i>>)
      /\ \A l : DrawnFrom(c, i, l)' = DrawnFrom(c, i, l) + SumOn(moves, <<own[c], i>>, l)
  BY StatementSums
<1>6. /\ Drawn(c, i) \in Int /\ SumOf(moves, <<own[c], i>>) \in Int /\ Net(own[c], i) \in Int
      /\ \A l : DrawnFrom(c, i, l) \in Int /\ SumOn(moves, <<own[c], i>>, l) \in Int
                /\ NetOf(<<own[c], i>>, l) \in Int
  BY <1>2, LineSums, NetType DEF Drawn, DrawnFrom, Net
<1>7. \A n \in DOMAIN pending'[c] : pending'[c][n].line = <<own'[c], i>>
  <2> SUFFICES ASSUME NEW n \in DOMAIN (pending[c] \o moves)
               PROVE  (pending[c] \o moves)[n].line = <<own[c], i>>
    BY <1>1, <1>5, Zenon
  <2>1. \A k \in DOMAIN pending[c] : pending[c][k].line = <<own[c], i>>
    BY DEF CorrectionAccount
  <2>2. \A k \in DOMAIN moves : moves[k].line = <<own[c], i>>
    BY <1>1, <1>3 DEF Moves
  <2>3. \/ \E k \in DOMAIN pending[c] : (pending[c] \o moves)[n] = pending[c][k]
        \/ \E k \in DOMAIN moves : (pending[c] \o moves)[n] = moves[k]
    BY <1>2, EitherRow, SMTT(30)
  <2> QED  BY <2>1, <2>2, <2>3, Zenon
<1>8. CASE ToUndo(c, i, amount)
  <2>1. s.kind # "deduct" /\ work'[c] = <<Deduct(i, amount)>>
    BY <1>1, <1>8 DEF ToUndo, Undo
  <2>2. ASSUME NEW l \in Lot PROVE DrawnFrom(c, i, l)' = -(NetOf(<<own[c], i>>, l)')
    <3>1. SumOn(moves, <<own[c], i>>, l) = -NetOf(<<own[c], i>>, l)
      BY <1>3, <2>1, ReversedSums
    <3>2. DrawnFrom(c, i, l) = 0
      BY <1>8, NothingDrawn DEF ToUndo
    <3>3. NetOf(<<own[c], i>>, l)' = NetOf(<<own[c], i>>, l)
      BY <1>4 DEF SameLedger
    <3>4. DrawnFrom(c, i, l)' = 0 + SumOn(moves, <<own[c], i>>, l)
      BY <1>5, <3>2
    <3>5. DrawnFrom(c, i, l)' = SumOn(moves, <<own[c], i>>, l)
      BY <1>6, <3>4
    <3> QED  BY <3>1, <3>3, <3>5, Zenon
  <2>3. ToDeduct(c, i, amount)'
    BY <2>1, <2>2 DEF ToDeduct, Undone
  <2> QED  BY <1>1, <1>4, <1>7, <2>3 DEF CorrectionAccount, SameLedger
<1>9. CASE ToDeduct(c, i, amount)
  <2>1. s = Deduct(i, amount) /\ work'[c] = <<>> /\ Undone(c, i)
    BY <1>1, <1>9 DEF ToDeduct
  <2>2. s.kind = "deduct" /\ s.amount = amount
    BY <2>1 DEF Deduct
  <2>3. SumOf(moves, <<own[c], i>>) = -amount /\ \A l \in Lot : SumOn(moves, <<own[c], i>>, l) <= 0
    BY <1>3, <2>2, DeductedSums
  <2>4. Net(own[c], i) + Drawn(c, i) = 0
    <3> DEFINE t == inventory_movement
               p == pending[c]
               line == <<own[c], i>>
    <3>1. /\ Net(own[c], i) = SumOf(t, line) /\ Drawn(c, i) = SumOf(p, line)
          /\ \A l : NetOf(line, l) = SumOn(t, line, l) /\ DrawnFrom(c, i, l) = SumOn(p, line, l)
      BY DEF Net, Drawn, NetOf, SumOn, DrawnFrom
    <3>2. Table(t) /\ Table(p)
      BY <1>2
    <3>3. \A l \in Lot : DrawnFrom(c, i, l) = -NetOf(line, l) /\ NetOf(line, l) \in Int
      BY <1>6, <2>1 DEF Undone
    <3> HIDE DEF t, p, line
    <3>4. ASSUME NEW l \in Lot PROVE SumOn(t \o p, line, l) = 0
      <4>1. SumOn(t \o p, line, l) = SumOn(t, line, l) + SumOn(p, line, l)
        BY <3>2, LineSumsConcatenated
      <4>2. SumOn(t, line, l) \in Int
        BY <3>2, LineSums
      <4>3. SumOn(p, line, l) = -SumOn(t, line, l)
        BY <3>1, <3>3
      <4> QED  BY <4>1, <4>2, <4>3
    <3>5. Table(t \o p)
      BY <3>2, Concatenated
    <3>6. SumOf(t \o p, line) = 0
      BY <3>4, <3>5, LineBalances DEF SumOn, SumOf
    <3>7. SumOf(t \o p, line) = SumOf(t, line) + SumOf(p, line)
      BY <3>2, LineSumsConcatenated
    <3> QED  BY <3>1, <3>6, <3>7
  <2>5. Net(own[c], i)' + Drawn(c, i)' = -amount
    <3>1. Net(own[c], i)' = Net(own[c], i)
      BY <1>4 DEF SameLedger
    <3>2. Drawn(c, i)' = Drawn(c, i) + (-amount)
      BY <1>5, <2>3
    <3> QED  BY <1>6, <2>4, <3>1, <3>2
  <2>6. ASSUME NEW l \in Lot PROVE NetOf(<<own[c], i>>, l)' + DrawnFrom(c, i, l)' <= 0
    <3>1. NetOf(<<own[c], i>>, l)' = NetOf(<<own[c], i>>, l)
      BY <1>4 DEF SameLedger
    <3>2. DrawnFrom(c, i, l) = -NetOf(<<own[c], i>>, l)
      BY <2>1 DEF Undone
    <3>3. DrawnFrom(c, i, l)' = DrawnFrom(c, i, l) + SumOn(moves, <<own[c], i>>, l)
      BY <1>5
    <3> QED  BY <1>6, <2>3, <3>1, <3>2, <3>3
  <2>7. lines'[c][i] = amount
    BY <1>1, <1>3, <2>2
  <2>8. Corrected(c, i, amount)'
    BY <2>1, <2>5, <2>6, <2>7 DEF Corrected
  <2> QED  BY <1>1, <1>4, <1>7, <2>8 DEF CorrectionAccount, SameLedger
<1>10. ~Corrected(c, i, amount)
  BY <1>1 DEF Corrected
<1> QED  BY <1>8, <1>9, <1>10 DEF CorrectionAccount

LEMMA StatementReopening ==
  ASSUME Types, Listing, LineAccounts, NetConsumption, NEW c \in Call, ReopeningAccount(c),
         NEW moves, StatementDone(c, moves)
  PROVE  ReopeningAccount(c)'
<1> DEFINE s == Head(work[c])
<1>1. /\ pc[c] = "locking" /\ scan[c] = <<>> /\ work[c] # <<>> /\ lines'[c] = lines[c] /\ own'[c] = own[c]
      /\ Moves(c, moves) /\ work'[c] = Tail(work[c])
      /\ UNCHANGED <<inventory_movement, actual_amount, own>>
  BY DEF StatementDone, EndStatement, Types, TransactionTypes, stock, records
<1>2. own[c] \in CompletionId
  BY <1>1 DEF Types, Shape, Active
<1>3. SameLedger(c)
  BY <1>1, LedgerUnchanged
<1>4. /\ s.ingredient \in Ingredient /\ s = work[c][1] /\ 1 \in DOMAIN work[c]
      /\ DOMAIN work[c] = 1..Len(work[c]) /\ Len(work[c]) \in Nat
      /\ DOMAIN Tail(work[c]) = 1..Len(Tail(work[c])) /\ Len(Tail(work[c])) = Len(work[c]) - 1
      /\ \A n \in DOMAIN Tail(work[c]) : n + 1 \in DOMAIN work[c] /\ Tail(work[c])[n] = work[c][n + 1]
  BY <1>1, HeadOfWork
<1>5. s.kind # "deduct"
  BY <1>4 DEF ReopeningAccount
<1> HIDE DEF s
<1>6. /\ s.ingredient \notin ToDo(c)'
      /\ \A i : i # s.ingredient => (i \in ToDo(c)' <=> i \in ToDo(c))
      /\ s.ingredient \in ToDo(c)
  <2>1. s.ingredient \notin ToDo(c)'
    <3>1. ASSUME NEW n \in DOMAIN Tail(work[c]) PROVE Tail(work[c])[n].ingredient # s.ingredient
      <4>1. n + 1 \in DOMAIN work[c] /\ n + 1 # 1 /\ Tail(work[c])[n] = work[c][n + 1]
        BY <1>4
      <4> QED  BY <1>4, <4>1 DEF ReopeningAccount
    <3> QED  BY <1>1, <3>1 DEF ToDo
  <2>2. ASSUME NEW i, i \in ToDo(c)' PROVE i \in ToDo(c)
    BY <1>1, <1>4, <2>2 DEF ToDo
  <2>3. ASSUME NEW i, i # s.ingredient, i \in ToDo(c) PROVE i \in ToDo(c)'
    <3>1. PICK n \in DOMAIN work[c] : work[c][n].ingredient = i
      BY <2>3 DEF ToDo
    <3>2. n # 1
      BY <1>4, <2>3, <3>1
    <3>3. n - 1 \in DOMAIN Tail(work[c]) /\ (n - 1) + 1 = n
      BY <1>4, <3>2
    <3>4. Tail(work[c])[n - 1] = work[c][n]
      BY <1>4, <3>3
    <3> QED  BY <1>1, <3>1, <3>3, <3>4 DEF ToDo
  <2>4. s.ingredient \in ToDo(c)
    BY <1>4 DEF ToDo
  <2> QED  BY <2>1, <2>2, <2>3, <2>4
<1>7. /\ \A n \in DOMAIN work'[c] : work'[c][n].kind = "reverse" /\ work'[c][n].amount = 0
      /\ \A n, k \in DOMAIN work'[c] : n # k => work'[c][n].ingredient # work'[c][k].ingredient
  <2>1. \A n, k \in DOMAIN Tail(work[c]) : n # k => n + 1 # k + 1
    BY <1>4
  <2> QED  BY <1>1, <1>4, <2>1 DEF ReopeningAccount
<1>8. ASSUME NEW i \in Ingredient
      PROVE  /\ Rows(c, i)' # {} => actual_amount'[own'[c]][i] > 0
             /\ i \in ToDo(c)' => Rows(c, i)' = {}
             /\ i \notin ToDo(c)' => Undone(c, i)'
  <2>1. CASE i # s.ingredient
    <3>1. SameDraws(c, i)
      BY <2>1, StatementSums DEF SameDraws, s
    <3>2. Undone(c, i)' <=> Undone(c, i)
      BY <1>3, <3>1, UndoneSame
    <3> QED  BY <1>1, <1>6, <2>1, <3>1, <3>2 DEF ReopeningAccount, SameDraws
  <2>2. CASE i = s.ingredient
    <3>1. Rows(c, i) = {}
      BY <1>6, <2>2 DEF ReopeningAccount
    <3>2. Table(pending[c]) /\ Table(inventory_movement)
      BY DEF Types, TransactionTypes, StoreTypes, Table
    <3>3. ASSUME NEW l \in Lot PROVE DrawnFrom(c, i, l)' = -(NetOf(<<own[c], i>>, l)')
      <4>1. SumOn(moves, <<own[c], i>>, l) = -NetOf(<<own[c], i>>, l)
        BY <1>5, <2>2, ReversedSums DEF s
      <4>2. DrawnFrom(c, i, l) = 0
        BY <3>1, <3>2, LineSums DEF Rows, DrawnFrom
      <4>3. NetOf(<<own[c], i>>, l)' = NetOf(<<own[c], i>>, l)
        BY <1>3 DEF SameLedger
      <4>4. DrawnFrom(c, i, l)' = DrawnFrom(c, i, l) + SumOn(moves, <<own[c], i>>, l)
        BY StatementSums
      <4>5. SumOn(moves, <<own[c], i>>, l) \in Int
        BY <1>1, LineSums DEF Moves
      <4>6. DrawnFrom(c, i, l)' = SumOn(moves, <<own[c], i>>, l)
        BY <4>2, <4>4, <4>5
      <4> QED  BY <4>1, <4>3, <4>6, Zenon
    <3>4. Undone(c, i)'
      BY <3>3 DEF Undone
    <3>5. ASSUME Rows(c, i)' # {} PROVE actual_amount[own[c]][i] # 0
      <4>1. DOMAIN moves # {}
        BY <3>1, <3>5, StatementSums
      <4>2. PICK n \in DOMAIN moves : moves[n].lot \in locked[c]
        BY <1>1, <4>1 DEF Moves
      <4>3. moves[n].lot \in Listed(c)
        BY <4>2 DEF Listed
      <4>4. moves[n].lot \in Lot /\ NetOf(<<own[c], i>>, moves[n].lot) < 0
        BY <1>1, <1>5, <2>2, <4>3 DEF Listing, CallListing, ListsTheLots, s
      <4>5. OfLine(inventory_movement, <<own[c], i>>) # {}
        <5> SUFFICES ASSUME OfLine(inventory_movement, <<own[c], i>>) = {} PROVE FALSE
          OBVIOUS
        <5>1. SumOn(inventory_movement, <<own[c], i>>, moves[n].lot) = 0
          BY <3>2, LineSums
        <5> QED  BY <4>4, <5>1 DEF NetOf, SumOn
      <4> QED  BY <1>2, <4>5 DEF LineAccounts, LineAccount
    <3>6. actual_amount[own[c]][i] \in Nat
      BY <1>2, Constants DEF Types, StoreTypes
    <3> QED  BY <1>1, <1>6, <2>2, <3>4, <3>5, <3>6
  <2> QED  BY <2>1, <2>2
<1> QED  BY <1>1, <1>7, <1>8 DEF ReopeningAccount

LEMMA StatementAccount ==
  ASSUME Types, Listing, LineAccounts, NetConsumption, NEW c \in Call, CallControl(c), CallAccount(c),
         NEW moves, StatementDone(c, moves)
  PROVE  CallAccount(c)'
<1>1. Active(c) /\ request' = request
  BY DEF StatementDone, EndStatement, Active
<1>2. Cooking(c) => CookingAccount(c)'
  BY <1>1, StatementCooking DEF CallAccount
<1>3. request[c].op = Reopen => ReopeningAccount(c)'
  BY <1>1, StatementReopening DEF CallAccount
<1>4. ASSUME request[c].op = Correct PROVE CorrectionAccount(c, request[c].ingredient, request[c].amount)'
  <2> DEFINE i == request[c].ingredient
             amount == request[c].amount
  <2>1. i \in Ingredient /\ amount \in Nat
    BY <1>4, CompletionAssumption, Constants DEF Types, CallTypes, WellFormed
  <2>2. CorrectionAccount(c, i, amount)
    BY <1>1, <1>4 DEF CallAccount
  <2>3. i' = i /\ amount' = amount
    BY <1>1
  <2>4. ASSUME NEW j \in Ingredient, NEW a \in Nat, CorrectionAccount(c, j, a) PROVE CorrectionAccount(c, j, a)'
    BY <2>4, StatementCorrection
  <2> HIDE DEF i, amount
  <2>5. \A j \in Ingredient, a \in Nat : CorrectionAccount(c, j, a) => CorrectionAccount(c, j, a)'
    BY <2>4
  <2> QED  BY <2>1, <2>2, <2>3, <2>5 DEF i, amount
<1> QED  BY <1>1, <1>2, <1>3, <1>4 DEF CallAccount, Cooking

(***************************************************************************)
(* What the committed movements of a line add up to.                       *)
(***************************************************************************)
LineConsumption(m, i) ==
  /\ \A l \in Lot : NetOf(<<m, i>>, l) <= 0
  /\ Net(m, i) = IF meal_completion[m].state = "recorded" THEN -actual_amount[m][i] ELSE 0

LEMMA ByLine ==
  /\ NetConsumption <=> \A m \in CompletionId, i \in Ingredient : LineConsumption(m, i)
  /\ NetConsumption' <=> \A m \in CompletionId, i \in Ingredient : LineConsumption(m, i)'
<1>1. NetConsumption <=> \A m \in CompletionId, i \in Ingredient : LineConsumption(m, i)
  BY DEF NetConsumption, LineConsumption, NetOf, Net, SumOf
<1>2. NetConsumption' <=> \A m \in CompletionId, i \in Ingredient : LineConsumption(m, i)'
  BY DEF NetConsumption, LineConsumption, NetOf, Net, SumOf
<1> QED  BY <1>1, <1>2

Adds(p) == Table(p) /\ inventory_movement' = inventory_movement \o p

\* A step that adds no movement of a line and leaves its completion alone.
LEMMA ConsumptionSame ==
  ASSUME Types, NEW m \in CompletionId, NEW i \in Ingredient, LineAccount(m, i), LineConsumption(m, i),
         NEW p, Adds(p), OfLine(p, <<m, i>>) = {},
         meal_completion'[m] = meal_completion[m], actual_amount'[m] = actual_amount[m]
  PROVE  LineAccount(m, i)' /\ LineConsumption(m, i)'
<1> DEFINE t == inventory_movement
           line == <<m, i>>
<1>1. Table(t) /\ inventory_movement' = t \o p
  BY DEF Types, StoreTypes, Table, Adds
<1>2. OfLine(p, line) = {} /\ Table(p)
  BY DEF Adds
<1>3. Net(m, i) = SumOf(t, line) /\ \A l : NetOf(line, l) = SumOn(t, line, l)
  BY DEF Net, NetOf, SumOn
<1>4. LineAccount(m, i) <=>
         /\ meal_completion[m] = NoRow => actual_amount[m][i] = 0
         /\ actual_amount[m][i] = 0 => OfLine(t, line) = {}
  BY DEF LineAccount
<1> HIDE DEF t, line
<1>5. ASSUME NEW l
      PROVE  /\ SumOf(t \o p, line) = SumOf(t, line)
             /\ SumOn(t \o p, line, l) = SumOn(t, line, l)
             /\ OfLine(t, line) = {} => OfLine(t \o p, line) = {}
  <2>1. Table(t)
    BY <1>1
  <2>2. Table(p)
    BY <1>2
  <2>3. OfLine(p, line) = {}
    BY <1>2
  <2> QED  BY <2>1, <2>2, <2>3, NothingOfLine
<1>6. Net(m, i)' = SumOf(t \o p, line) /\ \A l : NetOf(line, l)' = SumOn(t \o p, line, l)
  <2>1. inventory_movement' = t \o p
    BY <1>1
  <2> QED  BY <2>1, Zenon DEF Net, NetOf, SumOn, line
<1>7. LineAccount(m, i)'
  <2>1. actual_amount[m][i] = 0 => OfLine(inventory_movement', line) = {}
    BY <1>1, <1>4, <1>5, Zenon
  <2> QED  BY <1>4, <2>1 DEF LineAccount, line
<1>8. LineConsumption(m, i)'
  <2>1. Net(m, i)' = Net(m, i)
    BY <1>3, <1>5, <1>6, Zenon
  <2>2. \A l : NetOf(line, l)' = NetOf(line, l)
    BY <1>3, <1>5, <1>6, Zenon
  <2> QED  BY <2>1, <2>2 DEF LineConsumption, line
<1> QED  BY <1>7, <1>8

\* The commit of a call, seen from a line of its completion.
LEMMA CommitSums ==
  ASSUME Types, NEW c \in Call, Commit(c), NEW i \in Ingredient, NEW l
  PROVE  /\ Net(own[c], i) \in Int /\ Drawn(c, i) \in Int
         /\ NetOf(<<own[c], i>>, l) \in Int /\ DrawnFrom(c, i, l) \in Int
         /\ SumOf(inventory_movement', <<own[c], i>>) = Net(own[c], i) + Drawn(c, i)
         /\ SumOn(inventory_movement', <<own[c], i>>, l) = NetOf(<<own[c], i>>, l) + DrawnFrom(c, i, l)
         /\ OfLine(inventory_movement, <<own[c], i>>) = {} /\ Rows(c, i) = {}
              => OfLine(inventory_movement', <<own[c], i>>) = {}
         /\ Undone(c, i) => SumOf(inventory_movement', <<own[c], i>>) = 0
<1> DEFINE t == inventory_movement
           p == pending[c]
           line == <<own[c], i>>
<1>1. Table(t) /\ Table(p)
  BY DEF Types, StoreTypes, TransactionTypes, Table
<1>2. inventory_movement' = t \o p
  BY DEF Commit
<1>3. /\ Net(own[c], i) = SumOf(t, line) /\ Drawn(c, i) = SumOf(p, line) /\ Rows(c, i) = OfLine(p, line)
      /\ \A k : NetOf(line, k) = SumOn(t, line, k) /\ DrawnFrom(c, i, k) = SumOn(p, line, k)
      /\ Undone(c, i) => \A k \in Lot : DrawnFrom(c, i, k) = -NetOf(line, k)
  BY DEF Net, Drawn, NetOf, SumOn, DrawnFrom, Rows, Undone
<1> HIDE DEF t, p, line
<1>4. ASSUME NEW k
      PROVE  /\ SumOf(t, line) \in Int /\ SumOf(p, line) \in Int
             /\ SumOn(t, line, k) \in Int /\ SumOn(p, line, k) \in Int
             /\ SumOf(t \o p, line) = SumOf(t, line) + SumOf(p, line)
             /\ SumOn(t \o p, line, k) = SumOn(t, line, k) + SumOn(p, line, k)
             /\ OfLine(t, line) = {} /\ OfLine(p, line) = {} => OfLine(t \o p, line) = {}
  <2>1. Table(t)
    BY <1>1
  <2>2. Table(p)
    BY <1>1
  <2>3. SumOf(t, line) \in Int /\ SumOn(t, line, k) \in Int
    BY <2>1, LineSums
  <2>4. SumOf(p, line) \in Int /\ SumOn(p, line, k) \in Int
    BY <2>2, LineSums
  <2>5. /\ SumOf(t \o p, line) = SumOf(t, line) + SumOf(p, line)
        /\ SumOn(t \o p, line, k) = SumOn(t, line, k) + SumOn(p, line, k)
        /\ OfLine(t, line) = {} /\ OfLine(p, line) = {} => OfLine(t \o p, line) = {}
    BY <2>1, <2>2, LineSumsConcatenated
  <2> QED  BY <2>3, <2>4, <2>5
<1>5. ASSUME Undone(c, i) PROVE SumOf(t \o p, line) = 0
  <2>1. ASSUME NEW k \in Lot PROVE SumOn(t \o p, line, k) = 0
    <3>1. SumOn(p, line, k) = -SumOn(t, line, k)
      BY <1>3, <1>5
    <3> QED  BY <1>4, <3>1
  <2>2. Table(t \o p)
    BY <1>1, Concatenated
  <2> QED  BY <2>1, <2>2, LineBalances DEF SumOn, SumOf
<1>6. /\ SumOf(inventory_movement', line) = SumOf(t \o p, line)
      /\ SumOn(inventory_movement', line, l) = SumOn(t \o p, line, l)
      /\ OfLine(inventory_movement', line) = OfLine(t \o p, line)
  BY <1>2, Zenon
<1>7. /\ SumOf(inventory_movement', line) = Net(own[c], i) + Drawn(c, i)
      /\ SumOn(inventory_movement', line, l) = NetOf(line, l) + DrawnFrom(c, i, l)
      /\ OfLine(t, line) = {} /\ Rows(c, i) = {} => OfLine(inventory_movement', line) = {}
  BY <1>3, <1>4, <1>6, Zenon
<1>8. /\ Net(own[c], i) \in Int /\ Drawn(c, i) \in Int
      /\ NetOf(line, l) \in Int /\ DrawnFrom(c, i, l) \in Int
  BY <1>3, <1>4
<1>9. Undone(c, i) => SumOf(inventory_movement', line) = 0
  BY <1>5, <1>6, Zenon
<1> QED  BY <1>7, <1>8, <1>9 DEF t, line

LEMMA CommitRow ==
  ASSUME Types, NEW c \in Call, CallControl(c), Commit(c)
  PROVE  /\ own[c] \in CompletionId /\ Active(c) /\ work[c] = <<>>
         /\ meal_completion'[own[c]] = row[c] /\ row[c] # NoRow
         /\ row[c].state = IF request[c].op = Reopen THEN "reopened" ELSE "recorded"
         /\ \A i \in Ingredient :
              actual_amount'[own[c]][i] = IF lines[c][i] > 0 THEN lines[c][i] ELSE actual_amount[own[c]][i]
         /\ \A m \in CompletionId : m # own[c] =>
              meal_completion'[m] = meal_completion[m] /\ actual_amount'[m] = actual_amount[m]
         /\ request[c].op \in {Complete, Skip, Correct, Reopen}
<1>1. /\ pc[c] = "work" /\ work[c] = <<>>
      /\ meal_completion' = [meal_completion EXCEPT ![own[c]] = row[c]]
      /\ actual_amount' = [actual_amount EXCEPT ![own[c]] =
                            [i \in Ingredient |-> IF lines[c][i] > 0 THEN lines[c][i] ELSE @[i]]]
  BY DEF Commit
<1>2. Active(c) /\ own[c] \in CompletionId
  BY <1>1 DEF Active, Types, Shape
<1>3. request[c].op \in {Complete, Skip, Correct, Reopen}
  BY CompletionAssumption DEF Types, CallTypes, WellFormed
<1>4. row[c].state = IF request[c].op = Reopen THEN "reopened" ELSE "recorded"
  BY <1>2, <1>3 DEF CallControl, HoldsPlan, HoldsCompletion, ChangedState, Cooking, Complete, Skip, Correct, Reopen
<1>5. row[c] # NoRow
  <2>1. NoRow.state = "absent"
    BY DEF NoRow
  <2> QED  BY <1>4, <2>1
<1> QED  BY <1>1, <1>2, <1>3, <1>4, <1>5 DEF Types, StoreTypes

LEMMA CommitOwnLine ==
  ASSUME Types, LineAccounts, NetConsumption, NEW c \in Call, CallControl(c), CallAccount(c), Commit(c),
         NEW m \in CompletionId, m = own[c], NEW i \in Ingredient
  PROVE  LineAccount(m, i)' /\ LineConsumption(m, i)'
<1> DEFINE t == inventory_movement'
           line == <<m, i>>
           planned == lines[c][i]
           before == actual_amount[m][i]
           after == actual_amount'[m][i]
<1>1. /\ Active(c) /\ work[c] = <<>>
      /\ meal_completion'[m] = row[c] /\ row[c] # NoRow
      /\ row[c].state = IF request[c].op = Reopen THEN "reopened" ELSE "recorded"
      /\ after = IF planned > 0 THEN planned ELSE before
      /\ request[c].op \in {Complete, Skip, Correct, Reopen}
  BY CommitRow
<1>2. /\ Net(m, i) \in Int /\ Drawn(c, i) \in Int
      /\ SumOf(t, line) = Net(m, i) + Drawn(c, i)
      /\ OfLine(inventory_movement, line) = {} /\ Rows(c, i) = {} => OfLine(t, line) = {}
      /\ Undone(c, i) => SumOf(t, line) = 0
  BY CommitSums
<1>3. \A l : /\ NetOf(line, l) \in Int /\ DrawnFrom(c, i, l) \in Int
             /\ SumOn(t, line, l) = NetOf(line, l) + DrawnFrom(c, i, l)
  BY CommitSums
<1>4. LineAccount(m, i) /\ LineConsumption(m, i)
  BY <1>1, ByLine DEF LineAccounts
<1>5. planned \in Nat /\ before \in Nat
  BY <1>1, Constants DEF Types, TransactionTypes, StoreTypes
<1>6. /\ Rows(c, i) = {} => Drawn(c, i) = 0 /\ \A l : DrawnFrom(c, i, l) = 0
      /\ OfLine(inventory_movement, line) = {} => Net(m, i) = 0 /\ \A l : NetOf(line, l) = 0
  <2>1. Table(pending[c]) /\ Table(inventory_movement)
    BY DEF Types, StoreTypes, TransactionTypes, Table
  <2> QED  BY <2>1, LineSums DEF Rows, Drawn, DrawnFrom, Net, NetOf, SumOn
<1>7. /\ before = 0 => OfLine(inventory_movement, line) = {}
      /\ \A l \in Lot : NetOf(line, l) <= 0
      /\ Net(m, i) = IF meal_completion[m].state = "recorded" THEN -before ELSE 0
      /\ meal_completion[m] = NoRow => before = 0
  BY <1>4 DEF LineAccount, LineConsumption
<1> SUFFICES /\ after = 0 => OfLine(t, line) = {}
             /\ \A l \in Lot : SumOn(t, line, l) <= 0
             /\ SumOf(t, line) = IF row[c].state = "recorded" THEN -after ELSE 0
  <2>1. meal_completion'[m] # NoRow
    BY <1>1
  <2> QED  BY <1>1, <2>1 DEF LineAccount, LineConsumption, NetOf, Net, SumOn, SumOf
<1>8. CASE Cooking(c)
  <2>1. CookingAccount(c) /\ meal_completion[m] = NoRow /\ row[c].state = "recorded"
    BY <1>1, <1>8 DEF CallAccount, CallControl, HoldsPlan
  <2>2. OfLine(inventory_movement, line) = {} /\ before = 0
    BY <1>7, <2>1
  <2>3. Net(m, i) = 0 /\ \A l : NetOf(line, l) = 0
    BY <1>6, <2>2
  <2>4. ~Now(c, i)
    BY <1>1 DEF Now, Types, Shape
  <2>5. /\ planned = 0 => Rows(c, i) = {}
        /\ planned > 0 => Drawn(c, i) = -planned
        /\ \A n \in DOMAIN pending[c] : pending[c][n].delta <= 0
    BY <2>1, <2>4 DEF CookingAccount
  <2>6. ASSUME NEW l \in Lot PROVE DrawnFrom(c, i, l) <= 0
    <3>1. Table(pending[c])
      BY DEF Types, TransactionTypes, Table
    <3>2. /\ OfLineOnLot(pending[c], <<own[c], i>>, l) \in SUBSET DOMAIN pending[c]
          /\ IsFiniteSet(OfLineOnLot(pending[c], <<own[c], i>>, l))
      BY <3>1, TableRows DEF OfLineOnLot, OfLine
    <3>3. \A x \in OfLineOnLot(pending[c], <<own[c], i>>, l) :
            pending[c][x].delta \in Int /\ pending[c][x].delta <= 0
      BY <2>5, <3>1, <3>2, TableRows
    <3> QED  BY <3>2, <3>3, SumSign DEF DrawnFrom, SumOn
  <2> HIDE DEF t, line, planned, before, after
  <2>7. after = 0 => OfLine(t, line) = {}
    BY <1>1, <1>2, <1>5, <2>2, <2>5
  <2>8. \A l \in Lot : SumOn(t, line, l) <= 0
    BY <1>3, <2>3, <2>6
  <2>9. SumOf(t, line) = -after
    <3>1. CASE planned > 0
      <4>1. SumOf(t, line) = 0 + (-planned)
        BY <1>2, <2>3, <2>5, <3>1
      <4> QED  BY <1>1, <1>5, <3>1, <4>1
    <3>2. CASE planned = 0
      <4>1. after = 0 /\ after \in Int
        BY <1>1, <2>2, <3>2
      <4>2. after \in Int
        BY <4>1
      <4>3. -after = 0 - after
        BY <4>2
      <4>4. SumOf(t, line) = 0 - after
        BY <1>2, <1>6, <2>3, <2>5, <3>2, <4>1
      <4> QED  BY <4>3, <4>4, Zenon
    <3> QED  BY <1>5, <3>1, <3>2
  <2> QED  BY <2>1, <2>7, <2>8, <2>9
<1>9. CASE request[c].op = Correct
  <2> DEFINE k == request[c].ingredient
             amount == request[c].amount
  <2>1. k \in Ingredient /\ amount \in Nat \ {0}
    BY <1>9, Constants, CompletionAssumption DEF Types, CallTypes, WellFormed
  <2>2. CorrectionAccount(c, k, amount) /\ ~Cooking(c)
    BY <1>1, <1>9 DEF CallAccount, Cooking, Complete, Skip, Correct, Reopen
  <2>3. Corrected(c, k, amount) /\ before = before
    BY <1>1, <2>2 DEF CorrectionAccount, ToUndo, ToDeduct
  <2>4. /\ meal_completion[m].state = "recorded" /\ row[c].state = "recorded"
    BY <1>1, <1>9, <2>2 DEF CallControl, HoldsCompletion, Complete, Skip, Correct, Reopen
  <2>5. CASE i = k
    <3>1. /\ planned = amount /\ Net(m, i) + Drawn(c, i) = -amount
          /\ \A l \in Lot : NetOf(line, l) + DrawnFrom(c, i, l) <= 0
      BY <2>3, <2>5 DEF Corrected
    <3> HIDE DEF t, line, planned, before, after, amount
    <3>2. after = amount /\ after # 0
      BY <1>1, <2>1, <3>1
    <3>3. SumOf(t, line) = -after
      BY <1>2, <3>1, <3>2, Zenon
    <3>4. \A l \in Lot : SumOn(t, line, l) <= 0
      BY <1>3, <3>1, Zenon
    <3> QED  BY <2>4, <3>2, <3>3, <3>4
  <2>6. CASE i # k
    <3>1. planned = 0 /\ Rows(c, i) = {}
      BY <2>2, <2>6 DEF CorrectionAccount, Rows, OfLine
    <3> HIDE DEF t, line, planned, before, after, amount
    <3>2. after = before /\ Drawn(c, i) = 0 /\ \A l : DrawnFrom(c, i, l) = 0
      BY <1>1, <1>6, <3>1
    <3>3. SumOf(t, line) = Net(m, i)
      BY <1>2, <3>2
    <3>4. SumOf(t, line) = -after
      BY <1>7, <2>4, <3>2, <3>3, Zenon
    <3>5. \A l \in Lot : SumOn(t, line, l) <= 0
      BY <1>3, <1>7, <3>2
    <3>6. after = 0 => OfLine(t, line) = {}
      BY <1>2, <1>7, <3>1, <3>2
    <3> QED  BY <2>4, <3>4, <3>5, <3>6
  <2> QED  BY <2>5, <2>6
<1>10. CASE request[c].op = Reopen
  <2>1. ReopeningAccount(c) /\ row[c].state = "reopened"
    BY <1>1, <1>10 DEF CallAccount
  <2>2. i \notin ToDo(c)
    BY <1>1 DEF ToDo
  <2>3. Undone(c, i) /\ planned = 0 /\ (Rows(c, i) # {} => before > 0)
    BY <2>1, <2>2 DEF ReopeningAccount, NoLines
  <2>4. \A l \in Lot : DrawnFrom(c, i, l) = -NetOf(line, l)
    BY <2>3 DEF Undone
  <2> HIDE DEF t, line, planned, before, after
  <2>5. \A l \in Lot : SumOn(t, line, l) = 0
    BY <1>3, <2>4
  <2>6. after = 0 => OfLine(t, line) = {}
    BY <1>1, <1>2, <1>5, <1>7, <2>3
  <2>7. SumOf(t, line) = 0
    BY <1>2, <2>3
  <2> QED  BY <2>1, <2>5, <2>6, <2>7
<1> QED  BY <1>1, <1>8, <1>9, <1>10 DEF Cooking

LEMMA LedgerCases ==
  ASSUME Types, [Next]_vars
  PROVE  \/ UNCHANGED <<stock, records>>
         \/ \E c \in Call : Commit(c)
         \/ \E l \in Lot, d \in {-1, 1} : OtherMovement(l, d)
<1>1. ASSUME NEW c \in Call, Step(c) \/ Crash(c) PROVE UNCHANGED <<stock, records>> \/ Commit(c)
  BY <1>1, StepCases, Zenon DEF FindReceipt, FindNoReceipt, Ends, RecordCompletion, ChangeCompletion,
                         BeginStatement, LockNextLot, StatementDone, EndStatement
<1>2. Environment => UNCHANGED <<stock, records>> \/ \E l \in Lot, d \in {-1, 1} : OtherMovement(l, d)
  BY DEF Environment, ChangePlan, NextDay
<1> QED  BY <1>1, <1>2 DEF Next, Terminated, vars

LEMMA LinesStep ==
  ASSUME Types, Control, LineAccounts, NetConsumption, CallAccounts, [Next]_vars
  PROVE  LineAccounts' /\ NetConsumption'
<1> SUFFICES ASSUME NEW m \in CompletionId, NEW i \in Ingredient
             PROVE  LineAccount(m, i)' /\ LineConsumption(m, i)'
  BY ByLine DEF LineAccounts
<1>1. LineAccount(m, i) /\ LineConsumption(m, i)
  BY ByLine DEF LineAccounts
<1>2. CASE UNCHANGED <<stock, records>>
  BY <1>1, <1>2 DEF stock, records, LineAccount, LineConsumption, Net, NetOf
<1>3. ASSUME NEW c \in Call, Commit(c) PROVE LineAccount(m, i)' /\ LineConsumption(m, i)'
  <2>1. CASE m = own[c]
    BY <1>3, <2>1, CommitOwnLine DEF Control, CallAccounts
  <2>2. CASE m # own[c]
    <3>1. meal_completion'[m] = meal_completion[m] /\ actual_amount'[m] = actual_amount[m]
      BY <1>3, <2>2, CommitRow DEF Control
    <3>2. Table(pending[c]) /\ inventory_movement' = inventory_movement \o pending[c]
      BY <1>3 DEF Commit, Types, TransactionTypes, Table
    <3>3. OfLine(pending[c], <<m, i>>) = {}
      BY <2>2 DEF Control, CallControl, OfLine
    <3> QED  BY <1>1, <3>1, <3>2, <3>3, ConsumptionSame DEF Adds
  <2> QED  BY <2>1, <2>2
<1>4. ASSUME NEW l \in Lot, NEW d \in {-1, 1}, OtherMovement(l, d)
      PROVE  LineAccount(m, i)' /\ LineConsumption(m, i)'
  <2> DEFINE row0 == Movement(l, NoLine, d, quantity_on_hand[l] + d, "other")
             p == <<row0>>
  <2>1. Table(p) /\ inventory_movement' = inventory_movement \o p
    BY <1>4, OtherTypes
  <2>2. row0.line = NoLine
    BY DEF Movement
  <2>3. UNCHANGED records
    BY <1>4 DEF OtherMovement
  <2> HIDE DEF row0
  <2>4. OfLine(p, <<m, i>>) = {}
    <3>1. NoLine # <<m, i>>
      BY CompletionAssumption
    <3>2. DOMAIN p = {1} /\ p[1] = row0
      OBVIOUS
    <3> HIDE DEF p
    <3> QED  BY <2>2, <3>1, <3>2 DEF OfLine
  <2> HIDE DEF p
  <2> QED  BY <1>1, <2>1, <2>3, <2>4, ConsumptionSame DEF Adds, records
<1> QED  BY <1>2, <1>3, <1>4, LedgerCases

LEMMA CallAccountsStep ==
  ASSUME Types, Control, Listing, LineAccounts, NetConsumption, CallAccounts, [Next]_vars
  PROVE  CallAccounts'
<1> SUFFICES ASSUME NEW c \in Call PROVE CallAccount(c)'
  BY DEF CallAccounts
<1>1. CallControl(c) /\ CallAccount(c)
  BY DEF Control, CallAccounts
<1>2. CASE Untouched(c)
  <2>1. CASE Active(c)
    BY <1>1, <1>2, <2>1, LedgerKept, AccountSame DEF Untouched, Private
  <2>2. CASE ~Active(c)
    BY <1>2, <2>2, NotActiveAccount DEF Untouched, Private, Active
  <2> QED  BY <2>1, <2>2
<1>3. CASE Step(c) \/ Crash(c)
  <2>1. CASE FindReceipt(c) \/ FindNoReceipt(c) \/ Ends(c) \/ Commit(c)
    <3>1. ~Active(c)'
      BY <2>1 DEF FindReceipt, FindNoReceipt, Replay, Ends, Commit, Answer, Active, Types, CallTypes
    <3> QED  BY <3>1, NotActiveAccount
  <2>2. CASE RecordCompletion(c)
    BY <1>1, <2>2, RecordAccount
  <2>3. CASE ChangeCompletion(c)
    BY <1>1, <2>3, ChangeAccount
  <2>4. CASE BeginStatement(c)
    BY <1>1, <2>4, BeginAccount
  <2>5. CASE LockNextLot(c)
    <3>1. UNCHANGED <<inventory_movement, actual_amount, own, pc, request, lines, work, pending>>
      BY <2>5 DEF LockNextLot, stock, records
    <3>2. SameLedger(c)
      BY <3>1, LedgerUnchanged
    <3> QED  BY <1>1, <3>1, <3>2, AccountSame
  <2>6. CASE \E moves : StatementDone(c, moves)
    BY <1>1, <2>6, StatementAccount
  <2> QED  BY <1>3, <2>1, <2>2, <2>3, <2>4, <2>5, <2>6, StepCases
<1> QED  BY <1>2, <1>3, NextCases

LEMMA LinesInit == Init => LineAccounts /\ NetConsumption /\ CallAccounts
<1> SUFFICES ASSUME Init PROVE LineAccounts /\ NetConsumption /\ CallAccounts
  OBVIOUS
<1>1. /\ inventory_movement = <<>> /\ meal_completion = [m \in CompletionId |-> NoRow]
      /\ actual_amount = [m \in CompletionId |-> NoLines] /\ \A c \in Call : pc[c] = "received"
  BY DEF Init
<1>2. CallAccounts
  BY <1>1 DEF CallAccounts, CallAccount, Active
<1>3. LineAccounts
  BY <1>1, EmptyTable DEF LineAccounts, LineAccount, NoLines
<1>4. ASSUME NEW m \in CompletionId, NEW i \in Ingredient PROVE LineConsumption(m, i)
  <2>1. meal_completion[m].state # "recorded"
    BY <1>1 DEF NoRow
  <2>2. Table(<<>>) /\ OfLine(<<>>, <<m, i>>) = {}
    BY EmptyTable
  <2>3. SumOf(<<>>, <<m, i>>) = 0 /\ \A l : SumOn(<<>>, <<m, i>>, l) = 0
    BY <2>2, LineSums
  <2>4. Net(m, i) = 0 /\ \A l \in Lot : NetOf(<<m, i>>, l) = 0
    BY <1>1, <2>3, Zenon DEF Net, NetOf, SumOn
  <2> QED  BY <2>1, <2>4 DEF LineConsumption
<1>5. NetConsumption
  BY <1>4, ByLine
<1> QED  BY <1>2, <1>3, <1>5

(***************************************************************************)
(* The theorems.                                                           *)
(***************************************************************************)
\* The inductive invariant.
Inv ==
  /\ Types /\ Control /\ Listing /\ BalanceInvariant /\ Reconciliation
  /\ LineAccounts /\ NetConsumption /\ CallAccounts

LEMMA InvInit == Init => Inv
  BY TypesInit, ControlInit, ListingInit, BalanceInit, ReconciliationInit, LinesInit DEF Inv

LEMMA InvStep == Inv /\ [Next]_vars => Inv'
<1> SUFFICES ASSUME Inv, [Next]_vars PROVE Inv'
  OBVIOUS
<1>1. Types' /\ Control' /\ Listing'
  BY TypesStep, ControlStep, ListingStep DEF Inv
<1>2. BalanceInvariant' /\ Reconciliation'
  BY BalanceStep, ReconciliationStep DEF Inv
<1>3. LineAccounts' /\ NetConsumption' /\ CallAccounts'
  BY LinesStep, CallAccountsStep DEF Inv
<1> QED  BY <1>1, <1>2, <1>3 DEF Inv

\* Inv holds in every reachable state.
LEMMA Invariant == Spec => []Inv
  BY InvInit, InvStep, PTL DEF Spec

LEMMA InvTypeOK == Inv => TypeOK
<1> SUFFICES ASSUME Inv PROVE TypeOK
  OBVIOUS
<1>1. Types /\ BalanceInvariant
  BY DEF Inv
<1>2. reply \in [Call -> [status : Status, completion : CompletionId \cup {0},
                         version : Nat, state : State]]
  BY <1>1 DEF Types, CallTypes, ReplyType
<1>3. \A c \in Call : pending[c] \in Seq(MovementType) /\ locked[c] \subseteq Lot
  BY <1>1 DEF Types, TransactionTypes, BalanceInvariant
<1> QED  BY <1>1, <1>2, <1>3 DEF TypeOK, Types, StoreTypes, LockTypes, CallTypes, TransactionTypes,
                             BalanceInvariant, StockBounded

\* Every variable of a completion's transactions, and every reply, has its type.
THEOREM TypeCorrect == Spec => []TypeOK
  BY Invariant, InvTypeOK, PTL

\* The stored quantity of a lot is what it began with and the deltas of all its
\* movements, whichever calls consumed, corrected and reopened at once: each
\* updates under the lock it took before it read (deduct_for_meal, reverse_line).
THEOREM Reconciles == Spec => []Reconciliation
<1>1. Inv => Reconciliation
  BY DEF Inv
<1> QED  BY <1>1, Invariant, PTL

\* The movements of a recorded completion's line add up to the amount on the
\* line, on every lot to no more than nothing, and those of a reopened one to
\* nothing: correct_line and reopen put back exactly what was drawn before.
THEOREM ConsumptionAddsUp == Spec => []NetConsumption
<1>1. Inv => NetConsumption
  BY DEF Inv
<1> QED  BY <1>1, Invariant, PTL

\* A deadlock is one of lots.  The completions in it are of different plans, for
\* one plan's row is held by one of them (_approved_entry_for_update), and not
\* all at the same ingredient, for _locked_lots takes its lots in one order.
THEOREM DeadlocksNeedTwoOrders == Spec => []DeadlockTakesTwoOrders
<1>1. Inv => DeadlockTakesTwoOrders
  BY CyclesNeedTwoOrders DEF Inv
<1> QED  BY <1>1, Invariant, PTL

\* The commit that inserts a completion holds the plan row, still approved.
LEMMA OnlyUnderApprovedPlan ==
  ASSUME Inv, [Next]_vars, NEW m \in CompletionId, meal_completion[m] = NoRow, meal_completion'[m] # NoRow
  PROVE  plan_state[PlanOf[meal_completion'[m].entry]] = "approved"
<1>1. PICK c \in Call : Commit(c)
  BY LedgerCases DEF Inv, OtherMovement, records
<1>2. CallControl(c) /\ Types
  BY DEF Inv, Control
<1>3. m = own[c] /\ Active(c) /\ meal_completion'[m] = row[c]
  BY <1>1, <1>2, CommitRow
<1>4. NoRow.state = "absent"
  BY DEF NoRow
<1> QED  BY <1>2, <1>3, <1>4 DEF CallControl, HoldsPlan, HoldsCompletion, Approved, PlanFor

\* A completion appears only while the plan is approved, also when somebody
\* reopens the plan during the transaction: the plan row is locked before its
\* state is read.
THEOREM ApprovedAtTheCommit == Spec => RecordedUnderApprovedPlan
<1>1. Inv /\ [Next]_vars
        => [\A m \in CompletionId :
              meal_completion[m] = NoRow /\ meal_completion'[m] # NoRow
                => plan_state[PlanOf[meal_completion'[m].entry]] = "approved"]_vars
  BY OnlyUnderApprovedPlan
<1> QED  BY <1>1, Invariant, PTL DEF Spec, RecordedUnderApprovedPlan

\* What a deduction that ends shows of the lots it used and of those it passed over.
FirstOut(c) ==
  pc[c] = "locking" /\ pc'[c] = "work" /\ Head(work[c]).kind = "deduct" =>
    \A a, b \in Lot :
      LET used == \E n \in DOMAIN pending'[c] :
                    n > Len(pending[c]) /\ pending'[c][n].lot = b
      IN used =>
           /\ Usable(StockLot(c, b), today)
           /\ \/ LotIngredient[a] # LotIngredient[b] \/ lot_lock[a] # c
              \/ ~Usable(StockLot(c, a), today)
              \/ ~ExpiresSooner(a, b)
              \/ StockLot(c, a)'.quantity = 0

LEMMA DeductionFirstOut ==
  ASSUME Inv, [Next]_vars, NEW c \in Call, pc[c] = "locking", pc'[c] = "work", Head(work[c]).kind = "deduct",
         NEW a \in Lot, NEW b \in Lot,
         NEW n \in DOMAIN pending'[c], n > Len(pending[c]), pending'[c][n].lot = b
  PROVE  /\ Usable(StockLot(c, b), today)
         /\ \/ LotIngredient[a] # LotIngredient[b] \/ lot_lock[a] # c
            \/ ~Usable(StockLot(c, a), today)
            \/ ~ExpiresSooner(a, b)
            \/ StockLot(c, a)'.quantity = 0
<1>1. Types /\ CallListing(c)
  BY DEF Inv, Listing
<1>2. Step(c) \/ Crash(c)
  <2>1. ~Untouched(c)
    BY DEF Untouched, Private
  <2> QED  BY <2>1, NextCases DEF Inv
<1>3. PICK moves : StatementDone(c, moves)
  BY <1>1, <1>2, StepCases, Zenon DEF FindReceipt, FindNoReceipt, Ends, RecordCompletion, ChangeCompletion,
                              BeginStatement, LockNextLot, Commit
<1>4. Moves(c, moves) /\ Deducted(c, moves) /\ scan[c] = <<>> /\ Table(moves) /\ Table(pending[c])
  BY <1>1, <1>3 DEF StatementDone, Moves, Types, TransactionTypes, Table
<1>5. pending'[c] = pending[c] \o moves
  BY <1>1, <1>3 DEF StatementDone, EndStatement, Types, TransactionTypes
<1>6. PICK k \in DOMAIN moves : moves[k].lot = b
  <2> DEFINE t == pending[c]
  <2>1. n \in DOMAIN (t \o moves) /\ n > Len(t) /\ (t \o moves)[n].lot = b
    BY <1>5
  <2>2. Table(t)
    BY <1>4
  <2> HIDE DEF t
  <2>3. t \in Seq(AnyMovement) /\ moves \in Seq(AnyMovement)
    BY <1>4, <2>2 DEF Table
  <2>4. n - Len(t) \in DOMAIN moves /\ (t \o moves)[n] = moves[n - Len(t)]
    BY <2>1, <2>3
  <2> QED  BY <2>1, <2>4
<1>7. Usable(StockLot(c, b), today)
  BY <1>4, <1>6 DEF Deducted
<1>8. ASSUME LotIngredient[a] = LotIngredient[b], lot_lock[a] = c,
             Usable(StockLot(c, a), today), ExpiresSooner(a, b)
      PROVE  StockLot(c, a)'.quantity = 0
  <2>1. Listed(c) = locked[c] /\ ListsTheLots(c)
    BY <1>1, <1>4 DEF Listed, CallListing
  <2>2. LotIngredient[b] = Head(work[c]).ingredient
    BY <1>4, <1>6, <2>1 DEF Moves, ListsTheLots
  <2>3. Balance(c, a) > 0
    BY <1>8 DEF Usable, StockLot
  <2>4. a \in locked[c]
    BY <1>8, <2>1, <2>2, <2>3 DEF ListsTheLots
  <2>5. Earlier(StockLot(c, a), StockLot(c, b))
    BY <1>8 DEF Earlier, ExpiresSooner, StockLot
  <2>6. PICK j \in DOMAIN moves : moves[j].lot = a /\ moves[j].result = 0
    BY <1>4, <1>6, <1>8, <2>4, <2>5 DEF Deducted
  <2>7. Balance(c, a)' = 0
    BY <1>1, <1>3, <2>6, StatementBalances
  <2> QED  BY <2>7 DEF StockLot
<1> QED  BY <1>7, <1>8

\* A deduction takes usable lots only, and takes a lot that expires later only
\* if every lot of the ingredient it has locked that expires sooner is empty
\* when it is done (fefo_allocate over the locked rows).
THEOREM FirstToExpireIsUsedFirst == Spec => FirstExpiredFirstOut
<1>1. Inv /\ [Next]_vars => [\A c \in Call : FirstOut(c)]_vars
  BY DeductionFirstOut DEF FirstOut
<1>2. [\A c \in Call : FirstOut(c)]_vars
        => [\A c \in Call :
              pc[c] = "locking" /\ pc'[c] = "work" /\ Head(work[c]).kind = "deduct" =>
                \A a, b \in Lot :
                  LET used == \E n \in DOMAIN pending'[c] :
                                n > Len(pending[c]) /\ pending'[c][n].lot = b
                  IN used =>
                       /\ Usable(StockLot(c, b), today)
                       /\ \/ LotIngredient[a] # LotIngredient[b] \/ lot_lock[a] # c
                          \/ ~Usable(StockLot(c, a), today)
                          \/ ~ExpiresSooner(a, b)
                          \/ StockLot(c, a)'.quantity = 0]_vars
  BY DEF FirstOut
<1> QED  BY <1>1, <1>2, Invariant, PTL DEF Spec, FirstExpiredFirstOut

(***************************************************************************)
(*                                                                         *)
(*                              The kitchen                                *)
(*                                                                         *)
(***************************************************************************)

(***************************************************************************)
(* Sums of the values of a function.                                       *)
(***************************************************************************)
Total(f, S) == SumFunctionOnSet(f, S)
Integers(f, S) == \A x \in S : f[x] \in Int
Naturals(f, S) == \A x \in S : f[x] \in Nat
Deltas(f, S) == [x \in S |-> [delta |-> f[x]]]
TotalRec(f, S, g) ==
  g = [T \in SUBSET S |-> IF T = {} THEN 0 ELSE f[Pick(T)] + g[T \ {Pick(T)}]]

LEMMA TotalAsDeltas ==
  ASSUME NEW S, IsFiniteSet(S), NEW f, Integers(f, S)
  PROVE  Total(f, S) = SumOfDeltas(Deltas(f, S), S)
<1> DEFINE t == Deltas(f, S)
<1>1. \A x \in S : t[x].delta = f[x]
  BY DEF Deltas
<1>2. \A T \in SUBSET S : T # {} => t[Pick(T)].delta = f[Pick(T)]
  BY <1>1 DEF Pick
<1>3. PICK g : SumRec(t, S, g)
  BY <1>1, SumExists DEF Integers
<1> HIDE DEF t
<1>4. \A h : SumRec(t, S, h) <=> TotalRec(f, S, h)
  <2> SUFFICES ASSUME NEW h PROVE SumRec(t, S, h) <=> TotalRec(f, S, h)
    OBVIOUS
  <2>1. [T \in SUBSET S |-> IF T = {} THEN 0 ELSE t[Pick(T)].delta + h[T \ {Pick(T)}]]
          = [T \in SUBSET S |-> IF T = {} THEN 0 ELSE f[Pick(T)] + h[T \ {Pick(T)}]]
    BY <1>2
  <2> QED  BY <2>1, Zenon DEF SumRec, TotalRec
<1>5. PICK h : TotalRec(f, S, h) /\ Total(f, S) = h[S]
  <2>1. TotalRec(f, S, g)
    BY <1>3, <1>4
  <2> QED  BY <2>1 DEF Total, SumFunctionOnSet, FoldFunctionOnSet, MapThenFoldSet, TotalRec, Pick
<1>6. PICK k : SumRec(t, S, k) /\ SumOfDeltas(t, S) = k[S]
  BY <1>3, SumChosen
<1>7. SumRec(t, S, h) /\ S \in SUBSET S
  BY <1>4, <1>5
<1>8. h[S] = k[S]
  BY <1>6, <1>7, SumRecAgrees
<1> QED  BY <1>5, <1>6, <1>8 DEF t

LEMMA TotalWithin ==
  ASSUME NEW S, IsFiniteSet(S), NEW f, Integers(f, S), NEW R \in SUBSET S
  PROVE  Total(f, R) = SumOfDeltas(Deltas(f, S), R) /\ Total(f, R) \in Int /\ IsFiniteSet(R)
<1>1. IsFiniteSet(R) /\ Integers(f, R)
  BY FS_Subset DEF Integers
<1>2. \A x \in R : Deltas(f, S)[x].delta = f[x] /\ Deltas(f, R)[x].delta = f[x] /\ f[x] \in Int
  BY <1>1 DEF Deltas, Integers
<1>3. SumOfDeltas(Deltas(f, R), R) = SumOfDeltas(Deltas(f, S), R)
  BY <1>1, <1>2, SumSame
<1>4. SumOfDeltas(Deltas(f, S), R) \in Int
  BY <1>1, <1>2, SumType
<1> QED  BY <1>1, <1>3, <1>4, TotalAsDeltas

LEMMA TotalType ==
  ASSUME NEW S, IsFiniteSet(S), NEW f, Integers(f, S)
  PROVE  Total(f, S) \in Int
BY TotalWithin

LEMMA TotalEmpty ==
  ASSUME NEW f
  PROVE  Total(f, {}) = 0
BY TotalAsDeltas, SumEmpty, FS_EmptySet DEF Integers

LEMMA TotalUnion ==
  ASSUME NEW S, IsFiniteSet(S), NEW R, IsFiniteSet(R), S \cap R = {},
         NEW f, Integers(f, S \cup R)
  PROVE  Total(f, S \cup R) = Total(f, S) + Total(f, R)
<1> DEFINE t == Deltas(f, S \cup R)
<1>1. IsFiniteSet(S \cup R)
  BY FS_Union
<1>2. /\ Total(f, S \cup R) = SumOfDeltas(t, S \cup R)
      /\ Total(f, S) = SumOfDeltas(t, S) /\ Total(f, R) = SumOfDeltas(t, R)
  BY <1>1, TotalWithin
<1>3. \A x \in S \cup R : t[x].delta \in Int
  BY DEF Deltas, Integers
<1> HIDE DEF t
<1> QED  BY <1>2, <1>3, SumUnion

LEMMA TotalOne ==
  ASSUME NEW f, NEW x, f[x] \in Int
  PROVE  Total(f, {x}) = f[x]
<1> DEFINE t == Deltas(f, {x})
<1>1. IsFiniteSet({x}) /\ Integers(f, {x}) /\ t[x].delta = f[x]
  BY FS_Singleton DEF Deltas, Integers
<1>2. Total(f, {x}) = SumOfDeltas(t, {x})
  BY <1>1, TotalAsDeltas
<1> HIDE DEF t
<1>3. SumOfDeltas(t, {x}) = t[x].delta + SumOfDeltas(t, {x} \ {x})
  BY <1>1, SumWithout
<1>4. {x} \ {x} = {}
  OBVIOUS
<1>5. SumOfDeltas(t, {x} \ {x}) = 0
  BY <1>4, SumEmpty, Zenon
<1> QED  BY <1>1, <1>2, <1>3, <1>5

LEMMA TotalAdd ==
  ASSUME NEW S, IsFiniteSet(S), NEW x, x \notin S, NEW f, Integers(f, S \cup {x})
  PROVE  Total(f, S \cup {x}) = Total(f, S) + f[x]
<1>1. IsFiniteSet({x}) /\ S \cap {x} = {} /\ f[x] \in Int
  BY FS_Singleton DEF Integers
<1> QED  BY <1>1, TotalUnion, TotalOne

LEMMA TotalMoved ==
  ASSUME NEW S, IsFiniteSet(S), NEW f, Integers(f, S), NEW at, NEW g,
         \A x, y \in S : at[x] = at[y] => x = y,
         \A x \in S : g[at[x]] = f[x]
  PROVE  Total(g, {at[x] : x \in S}) = Total(f, S)
<1> DEFINE image == {at[x] : x \in S}
           t == Deltas(f, S)
           u == Deltas(g, image)
<1>1. IsFiniteSet(image) /\ Integers(g, image)
  <2>1. IsFiniteSet(image)
    <3>1. DEFINE h == [x \in S |-> at[x]]
    <3>2. h \in Surjection(S, image)
      BY DEF Surjection
    <3> HIDE DEF image
    <3> QED  BY <3>2, FS_Surjection DEF ExistsSurjection
  <2> QED  BY <2>1 DEF Integers
<1>2. \A x \in S : t[x].delta \in Int /\ u[at[x]].delta = t[x].delta
  BY DEF Deltas, Integers
<1>3. SumOfDeltas(u, image) = SumOfDeltas(t, S)
  <2> HIDE DEF t, u
  <2> QED  BY <1>2, SumMoved
<1> HIDE DEF image
<1> QED  BY <1>1, <1>3, TotalAsDeltas DEF image

LEMMA TotalSame ==
  ASSUME NEW S, IsFiniteSet(S), NEW f, Integers(f, S), NEW g, \A x \in S : g[x] = f[x]
  PROVE  Total(g, S) = Total(f, S)
<1>1. Integers(g, S)
  BY DEF Integers
<1>2. \A x \in S : /\ Deltas(f, S)[x].delta = f[x] /\ f[x] \in Int
                   /\ Deltas(g, S)[x].delta = Deltas(f, S)[x].delta
  BY DEF Deltas, Integers
<1>3. SumOfDeltas(Deltas(g, S), S) = SumOfDeltas(Deltas(f, S), S)
  BY <1>2, SumSame
<1> QED  BY <1>1, <1>3, TotalAsDeltas

LEMMA TotalPlus ==
  ASSUME NEW S, IsFiniteSet(S), NEW f, Integers(f, S), NEW g, Integers(g, S),
         NEW h, \A x \in S : h[x] = f[x] + g[x]
  PROVE  Total(h, S) = Total(f, S) + Total(g, S)
<1> DEFINE F == {T \in SUBSET S : Total(h, T) = Total(f, T) + Total(g, T)}
<1>0. Integers(h, S)
  BY DEF Integers
<1>1. {} \in F
  BY TotalEmpty
<1>2. ASSUME NEW T \in SUBSET S, NEW x \in S, T \in F, x \notin T PROVE T \cup {x} \in F
  <2>1. IsFiniteSet(T) /\ Total(f, T) \in Int /\ Total(g, T) \in Int
    BY TotalWithin
  <2>2. Integers(f, T \cup {x}) /\ Integers(g, T \cup {x}) /\ Integers(h, T \cup {x})
    BY <1>0 DEF Integers
  <2>3. /\ Total(f, T \cup {x}) = Total(f, T) + f[x]
        /\ Total(g, T \cup {x}) = Total(g, T) + g[x]
        /\ Total(h, T \cup {x}) = Total(h, T) + h[x]
    BY <1>2, <2>1, <2>2, TotalAdd
  <2>4. f[x] \in Int /\ g[x] \in Int /\ h[x] = f[x] + g[x] /\ Total(h, T) = Total(f, T) + Total(g, T)
    BY <1>2 DEF Integers
  <2>5. Total(h, T \cup {x}) = Total(f, T \cup {x}) + Total(g, T \cup {x})
    BY <2>1, <2>3, <2>4
  <2>6. T \cup {x} \in SUBSET S
    OBVIOUS
  <2> QED  BY <2>5, <2>6
<1>3. S \in F
  <2> HIDE DEF F
  <2> QED  BY <1>1, <1>2, SubsetsReached
<1> QED  BY <1>3

LEMMA TotalNatural ==
  ASSUME NEW S, IsFiniteSet(S), NEW f, Naturals(f, S)
  PROVE  Total(f, S) \in Nat /\ Integers(f, S)
<1> DEFINE F == {T \in SUBSET S : Total(f, T) \in Nat}
<1>0. Integers(f, S)
  BY DEF Integers, Naturals
<1>1. {} \in F
  BY TotalEmpty
<1>2. ASSUME NEW T \in SUBSET S, NEW x \in S, T \in F, x \notin T PROVE T \cup {x} \in F
  <2>1. IsFiniteSet(T) /\ Integers(f, T \cup {x}) /\ f[x] \in Nat
    BY <1>0, FS_Subset DEF Integers, Naturals
  <2>2. Total(f, T \cup {x}) = Total(f, T) + f[x]
    BY <1>2, <2>1, TotalAdd
  <2>3. Total(f, T \cup {x}) \in Nat
    BY <1>2, <2>1, <2>2
  <2> QED  BY <2>3
<1>3. S \in F
  <2> HIDE DEF F
  <2> QED  BY <1>1, <1>2, SubsetsReached
<1> QED  BY <1>0, <1>3

LEMMA TotalZero ==
  ASSUME NEW S, IsFiniteSet(S), NEW f, \A x \in S : f[x] = 0
  PROVE  Total(f, S) = 0
<1>1. Integers(f, S) /\ \A x \in S : f[x] = f[x] + f[x]
  BY DEF Integers
<1>2. Total(f, S) = Total(f, S) + Total(f, S)
  BY <1>1, TotalPlus
<1>3. Total(f, S) \in Int
  BY <1>1, TotalType
<1>4. \A v \in Int : v = v + v => v = 0
  OBVIOUS
<1> QED  BY <1>2, <1>3, <1>4, Zenon

\* A part of a sum of naturals, and a part outside which there are zeros only.
LEMMA TotalPart ==
  ASSUME NEW S, IsFiniteSet(S), NEW f, Naturals(f, S), NEW R \in SUBSET S
  PROVE  /\ Total(f, R) \in Nat /\ Total(f, S) \in Nat /\ Total(f, R) <= Total(f, S)
         /\ (\A x \in S \ R : f[x] = 0) => Total(f, R) = Total(f, S)
<1>1. IsFiniteSet(R) /\ IsFiniteSet(S \ R) /\ R \cap (S \ R) = {} /\ R \cup (S \ R) = S
  <2>1. S \ R \in SUBSET S
    OBVIOUS
  <2>2. IsFiniteSet(R) /\ IsFiniteSet(S \ R)
    BY <2>1, FS_Subset
  <2> QED  BY <2>2
<1>2. Naturals(f, R) /\ Naturals(f, S \ R) /\ Integers(f, R \cup (S \ R))
  BY <1>1 DEF Integers, Naturals
<1>3. Total(f, R \cup (S \ R)) = Total(f, R) + Total(f, S \ R)
  BY <1>1, <1>2, TotalUnion
<1>4. Total(f, S) = Total(f, R) + Total(f, S \ R)
  BY <1>1, <1>3, Zenon
<1>5. Total(f, R) \in Nat /\ Total(f, S \ R) \in Nat
  BY <1>1, <1>2, TotalNatural
<1>6. (\A x \in S \ R : f[x] = 0) => Total(f, S \ R) = 0
  BY <1>1, TotalZero
<1> QED  BY <1>4, <1>5, <1>6

LEMMA TotalMember ==
  ASSUME NEW S, IsFiniteSet(S), NEW f, Naturals(f, S), NEW x \in S
  PROVE  f[x] \in Nat /\ f[x] <= Total(f, S) /\ Total(f, S) \in Nat
<1>1. f[x] \in Nat /\ {x} \in SUBSET S
  BY DEF Naturals
<1>2. Total(f, {x}) = f[x]
  BY <1>1, TotalOne
<1>3. Total(f, S) \in Nat /\ Total(f, {x}) <= Total(f, S)
  BY <1>1, TotalPart, Zenon
<1> QED  BY <1>1, <1>2, <1>3

LEMMA TotalBelow ==
  ASSUME NEW S, IsFiniteSet(S), NEW f, Naturals(f, S), NEW g, Naturals(g, S),
         \A x \in S : f[x] <= g[x]
  PROVE  Total(f, S) <= Total(g, S)
<1> DEFINE h == [x \in S |-> g[x] - f[x]]
<1>1. Naturals(h, S) /\ \A x \in S : g[x] = f[x] + h[x]
  BY DEF Naturals
<1> HIDE DEF h
<1>2. Total(h, S) \in Nat /\ Total(f, S) \in Nat /\ Integers(f, S) /\ Integers(h, S)
  BY <1>1, TotalNatural
<1>3. Total(g, S) = Total(f, S) + Total(h, S)
  BY <1>1, <1>2, TotalPlus
<1> QED  BY <1>2, <1>3

(***************************************************************************)
(* fefo_allocate succeeds exactly if what is usable suffices.              *)
(***************************************************************************)
Amounts(taken) == [j \in DOMAIN taken |-> taken[j].amount]
LEMMA GivenTotal ==
  ASSUME NEW taken, IsFiniteSet(DOMAIN taken), Integers(Amounts(taken), DOMAIN taken)
  PROVE  /\ Total(Amounts(taken), DOMAIN taken) \in Int
         /\ SumOfDeltas(Given(taken), DOMAIN taken) = -Total(Amounts(taken), DOMAIN taken)
<1> DEFINE J == DOMAIN taken
           a == Amounts(taken)
           b == [j \in J |-> -taken[j].amount]
           zero == [j \in J |-> 0]
<1>1. \A j \in J : a[j] = taken[j].amount /\ a[j] \in Int /\ b[j] = -a[j] /\ zero[j] = 0
                   /\ Deltas(b, J)[j].delta = b[j] /\ Given(taken)[j].delta = b[j]
  BY DEF Amounts, Integers, Deltas, Given
<1> HIDE DEF J, a, b, zero
<1>2. IsFiniteSet(J) /\ Integers(a, J)
  BY DEF J, a
<1>3. Integers(b, J) /\ \A j \in J : zero[j] = a[j] + b[j]
  BY <1>1 DEF Integers
<1>4. Total(zero, J) = Total(a, J) + Total(b, J)
  BY <1>2, <1>3, TotalPlus
<1>5. Total(zero, J) = 0
  BY <1>1, <1>2, TotalZero
<1>6. Total(a, J) \in Int /\ Total(b, J) \in Int
  BY <1>2, <1>3, TotalType
<1>7. Total(b, J) = SumOfDeltas(Deltas(b, J), J)
  BY <1>2, <1>3, TotalAsDeltas
<1>8. SumOfDeltas(Given(taken), J) = SumOfDeltas(Deltas(b, J), J)
  BY <1>1, <1>2, <1>3, SumSame DEF Integers
<1>9. SumOfDeltas(Given(taken), J) = -Total(a, J)
  BY <1>4, <1>5, <1>6, <1>7, <1>8
<1> QED  BY <1>6, <1>9 DEF J, a

LEMMA QuantityOfQueue ==
  ASSUME NEW S, IsFiniteSet(S), \A lot \in S : lot.quantity \in Nat,
         NEW queue \in SetToSeqs(S)
  PROVE  LET q == [j \in DOMAIN queue |-> queue[j].quantity] IN
         /\ Naturals(q, DOMAIN queue) /\ IsFiniteSet(DOMAIN queue)
         /\ Total(q, DOMAIN queue) = QuantityOf(S)
<1> DEFINE J == DOMAIN queue
           q == [j \in J |-> queue[j].quantity]
           f == [lot \in S |-> lot.quantity]
<1>1. /\ J = 1..Len(queue) /\ Len(queue) \in Nat
      /\ \A i, j \in J : queue[i] = queue[j] => i = j
      /\ \A j \in J : queue[j] \in S
      /\ \A x \in S : \E j \in J : queue[j] = x
  BY EnumerationProperties, Zenon
<1>2. IsFiniteSet(J)
  <2>1. 1 \in Int /\ Len(queue) \in Int
    BY <1>1
  <2>2. IsFiniteSet(1..Len(queue))
    BY <2>1, FS_Interval, Zenon
  <2> QED  BY <1>1, <2>2, Zenon
<1>3. Naturals(q, J) /\ \A j \in J : f[queue[j]] = q[j]
  BY <1>1 DEF Naturals
<1>4. {queue[j] : j \in J} = S
  BY <1>1
<1> HIDE DEF J, f, q
<1>5. Integers(q, J)
  BY <1>3 DEF Integers, Naturals
<1>6. Total(f, {queue[j] : j \in J}) = Total(q, J)
  <2>1. \A i, j \in J : queue[i] = queue[j] => i = j
    BY <1>1, Zenon
  <2>2. \A j \in J : f[queue[j]] = q[j]
    BY <1>3, Zenon
  <2> QED  BY <1>2, <1>5, <2>1, <2>2, TotalMoved
<1>7. QuantityOf(S) = Total(f, S)
  BY DEF QuantityOf, Total, f
<1>8. Total(f, {queue[j] : j \in J}) = Total(f, S)
  BY <1>4, Zenon
<1> QED  BY <1>2, <1>3, <1>6, <1>7, <1>8 DEF J, q

UsableOf(shelf, day) == {lot \in shelf : Usable(lot, day)}
LEMMA EnoughIsAllocated ==
  ASSUME NEW shelf, StockLots(shelf), \A lot \in shelf : lot.quantity \in Nat,
         NEW amount \in Nat, NEW day \in Int
  PROVE  /\ QuantityOf(UsableOf(shelf, day)) \in Nat
         /\ fefo_allocate(shelf, amount, day).ok
              <=> amount # 0 /\ amount <= QuantityOf(UsableOf(shelf, day))
<1> DEFINE S == UsableOf(shelf, day)
           queue == Sorted(S, Earlier)
           n == Len(queue)
           final == FoldLeft(TakeFrom, [remaining |-> amount, taken |-> <<>>], queue)
           taken == final.taken
           J == DOMAIN taken
           a == Amounts(taken)
           q == [j \in DOMAIN queue |-> queue[j].quantity]
<1>1. StockLots(S) /\ IsFiniteSet(S) /\ \A lot \in S : lot.quantity \in Nat /\ lot.quantity > 0
  <2>1. IsFiniteSet(S)
    BY FS_Subset DEF StockLots, UsableOf
  <2> QED  BY <2>1 DEF StockLots, UsableOf, Usable
<1>2. fefo_allocate(shelf, amount, day).ok <=> ~(amount = 0 \/ final.remaining > 0)
  BY DEF fefo_allocate, Refused, Result, UsableOf
<1>3. queue \in SetToSeqs(S)
  <2> HIDE DEF S
  <2> QED  BY <1>1, SortedByExpiration
<1>4. /\ DOMAIN queue = 1..n /\ n \in Nat /\ \A j \in DOMAIN queue : queue[j] \in S
  <2> HIDE DEF S, queue
  <2> QED  BY <1>1, <1>3, EnumerationProperties
<1>5. Queue(queue) /\ \A j \in DOMAIN queue : queue[j].quantity > 0
  <2> HIDE DEF S, queue
  <2> QED  BY <1>1, <1>4 DEF Queue, StockLots
<1>6. TakenSoFar(final, queue, n, amount)
  <2> HIDE DEF queue
  <2> QED  BY <1>5, QueueAllocated
<1>7. Naturals(q, DOMAIN queue) /\ IsFiniteSet(DOMAIN queue) /\ Total(q, DOMAIN queue) = QuantityOf(S)
  <2> HIDE DEF S, queue
  <2> QED  BY <1>1, <1>3, QuantityOfQueue
<1> HIDE DEF final, queue, n, S
<1>8. /\ final.remaining \in 0..amount /\ taken \in Seq(Take) /\ Len(taken) <= n
      /\ J = 1..Len(taken) /\ Len(taken) \in Nat
      /\ \A j \in J : j \in DOMAIN queue /\ taken[j].amount \in 1..queue[j].quantity
      /\ final.remaining > 0 => Len(taken) = n /\ \A j \in J : taken[j].amount = queue[j].quantity
      /\ SumOfDeltas(Given(taken), J) = final.remaining - amount
  <2>1. /\ final.remaining \in 0..amount /\ taken \in Seq(Take) /\ Len(taken) <= n
        /\ \A j \in J : taken[j].amount \in 1..queue[j].quantity
        /\ final.remaining > 0 => Len(taken) = n /\ \A j \in J : taken[j].amount = queue[j].quantity
        /\ SumOfDeltas(Given(taken), J) = final.remaining - amount
    BY <1>6 DEF TakenSoFar, Allocations
  <2>2. J = 1..Len(taken) /\ Len(taken) \in Nat
    BY <2>1
  <2>3. \A j \in J : j \in DOMAIN queue
    BY <1>4, <2>1, <2>2
  <2> QED  BY <2>1, <2>2, <2>3, Zenon
<1>9. \A j \in J : q[j] = queue[j].quantity /\ a[j] = taken[j].amount /\ a[j] \in Nat /\ a[j] <= q[j] /\ q[j] \in Nat
  <2>1. \A j \in DOMAIN queue : queue[j].quantity \in Nat
    BY <1>1, <1>4
  <2>2. ASSUME NEW j \in J PROVE q[j] = queue[j].quantity /\ a[j] = taken[j].amount
    <3>1. j \in DOMAIN queue /\ j \in DOMAIN taken
      BY <1>8
    <3> QED  BY <3>1 DEF Amounts
  <2>3. \A j \in J : queue[j].quantity \in Nat /\ taken[j].amount \in 1..queue[j].quantity
    BY <1>8, <2>1
  <2> HIDE DEF J, q, a, taken
  <2> QED  BY <2>2, <2>3
<1>10. IsFiniteSet(J) /\ J \in SUBSET DOMAIN queue
  <2>1. IsFiniteSet(1..Len(taken))
    <3>1. Len(taken) \in Int /\ 1 \in Int
      BY <1>8
    <3> QED  BY <3>1, FS_Interval, Zenon
  <2>2. IsFiniteSet(J)
    BY <1>8, <2>1, Zenon
  <2> HIDE DEF taken, J
  <2> QED  BY <1>8, <2>2
<1> HIDE DEF taken, J, a, q
<1>11. Naturals(a, J) /\ Naturals(q, J) /\ Integers(a, J)
  BY <1>9 DEF Naturals, Integers
<1>12. Total(a, J) = amount - final.remaining
  <2>1. SumOfDeltas(Given(taken), J) = -Total(a, J) /\ Total(a, J) \in Int
    BY <1>10, <1>11, GivenTotal DEF a, J
  <2>2. final.remaining \in Int /\ SumOfDeltas(Given(taken), J) = final.remaining - amount
    BY <1>8
  <2> QED  BY <2>1, <2>2
<1>13. Total(a, J) <= Total(q, J)
  BY <1>9, <1>10, <1>11, TotalBelow
<1>14. Total(q, J) <= QuantityOf(S) /\ QuantityOf(S) \in Nat /\ Total(q, J) \in Nat
  BY <1>7, <1>10, TotalPart
<1>15. ASSUME final.remaining > 0 PROVE Total(a, J) = QuantityOf(S)
  <2>1. J = DOMAIN queue /\ \A j \in J : a[j] = q[j]
    BY <1>4, <1>8, <1>9, <1>15
  <2>2. Integers(q, J)
    BY <1>11 DEF Integers, Naturals
  <2>3. Total(a, J) = Total(q, J)
    BY <1>10, <2>1, <2>2, TotalSame
  <2> QED  BY <1>7, <2>1, <2>3, Zenon
<1>16. final.remaining > 0 <=> amount > QuantityOf(S)
  <2>1. CASE final.remaining > 0
    BY <1>8, <1>12, <1>14, <1>15, <2>1
  <2>2. CASE ~(final.remaining > 0)
    BY <1>8, <1>12, <1>13, <1>14, <2>2
  <2> QED  BY <2>1, <2>2
<1> QED  BY <1>2, <1>14, <1>16 DEF S

(***************************************************************************)
(* The rows of a recipe, scaled, and the lines a completion has of them.   *)
(***************************************************************************)
RowAmount(e, n) == scaled_amount(e.recipe[n].amount, e.servings, e.base_servings)
RowAmounts(e) == [n \in DOMAIN e.recipe |-> RowAmount(e, n)]
RowsOf(e, i) == {n \in DOMAIN e.recipe : e.recipe[n].ingredient = i}
RowTotal(e, i) == Total(RowAmounts(e), RowsOf(e, i))
Kept(e) == {n \in DOMAIN e.recipe : ~e.recipe[n].pantry_staple /\ RowAmount(e, n) > 0}
RowsFit(e) == \A n \in DOMAIN e.recipe : ~e.recipe[n].pantry_staple => RowAmount(e, n) <= MaxAmount

LEMMA RoundedHalfUp ==
  ASSUME NEW n \in Nat, NEW d \in Nat \ {0}
  PROVE  /\ round_half_up(n, d) \in Nat
         /\ -d <= 2 * (d * round_half_up(n, d) - n)
         /\ 2 * (d * round_half_up(n, d) - n) <= d
<1> DEFINE q == (2 * n + d) \div (2 * d)
           r == (2 * n + d) % (2 * d)
<1>1. /\ q \in Nat /\ r \in 0..(2 * d - 1)
      /\ 2 * n + d = (2 * d) * q + r
  BY SMT
<1> HIDE DEF q, r
<1>2. (2 * d) * q = 2 * (d * q) /\ d * q \in Int
  BY <1>1, SMT
<1>3. q = round_half_up(n, d)
  BY DEF round_half_up, q
<1> QED  BY <1>1, <1>2, <1>3, SMT

LEMMA ScaledIsNatural ==
  ASSUME NEW amount \in Nat, NEW servings \in Nat \ {0}, NEW base \in Nat \ {0}
  PROVE  scale_factor(servings, base) \in Nat /\ scaled_amount(amount, servings, base) \in Nat
<1>1. Scale \in Nat \ {0} /\ servings * Scale \in Nat
  BY ScaleAssumption
<1>2. scale_factor(servings, base) \in Nat
  BY <1>1, RoundedHalfUp DEF scale_factor
<1>3. amount * scale_factor(servings, base) \in Nat
  BY <1>2
<1> QED  BY <1>1, <1>2, <1>3, RoundedHalfUp DEF scaled_amount

LEMMA RowTypes ==
  ASSUME NEW e, Planning(e)
  PROVE  /\ e.recipe \in Seq(RecipeRow) /\ DOMAIN e.recipe = 1..Len(e.recipe) /\ Len(e.recipe) \in Nat
         /\ IsFiniteSet(DOMAIN e.recipe)
         /\ e.servings \in Nat \ {0} /\ e.base_servings \in Nat \ {0} /\ e.planned_date \in Int
         /\ e.recorded \in BOOLEAN
         /\ \A n \in DOMAIN e.recipe :
              /\ e.recipe[n].amount \in Nat /\ e.recipe[n].ingredient \in Product
              /\ e.recipe[n].optional \in BOOLEAN
              /\ e.recipe[n].pantry_staple <=> e.recipe[n].ingredient \in PantryStaple
              /\ RowAmount(e, n) \in Nat /\ RowAmounts(e)[n] = RowAmount(e, n)
<1>1. /\ e.recipe \in Seq(RecipeRow) /\ e.servings \in Nat \ {0} /\ e.base_servings \in Nat \ {0}
      /\ e.planned_date \in Int /\ e.recorded \in BOOLEAN
  BY DEF Planning, PlanEntry
<1>2. DOMAIN e.recipe = 1..Len(e.recipe) /\ Len(e.recipe) \in Nat
  BY <1>1
<1>3. IsFiniteSet(DOMAIN e.recipe)
  BY <1>2, FS_Interval
<1>4. ASSUME NEW n \in DOMAIN e.recipe
      PROVE  /\ e.recipe[n].amount \in Nat /\ e.recipe[n].ingredient \in Product
             /\ e.recipe[n].optional \in BOOLEAN
             /\ e.recipe[n].pantry_staple <=> e.recipe[n].ingredient \in PantryStaple
             /\ RowAmount(e, n) \in Nat /\ RowAmounts(e)[n] = RowAmount(e, n)
  <2>1. e.recipe[n] \in RecipeRow
    BY <1>1
  <2>2. /\ e.recipe[n].amount \in Nat /\ e.recipe[n].ingredient \in Product
        /\ e.recipe[n].optional \in BOOLEAN
    BY <2>1 DEF RecipeRow
  <2>3. e.recipe[n].pantry_staple <=> e.recipe[n].ingredient \in PantryStaple
    BY DEF Planning
  <2>4. RowAmount(e, n) \in Nat
    BY <1>1, <2>2, ScaledIsNatural DEF RowAmount
  <2>5. RowAmounts(e)[n] = RowAmount(e, n)
    BY DEF RowAmounts
  <2> QED  BY <2>2, <2>3, <2>4, <2>5, Zenon
<1> QED  BY <1>1, <1>2, <1>3, <1>4, Zenon

LEMMA RowTotalType ==
  ASSUME NEW e, Planning(e), NEW i
  PROVE  /\ RowTotal(e, i) \in Nat /\ IsFiniteSet(RowsOf(e, i))
         /\ Naturals(RowAmounts(e), RowsOf(e, i))
<1>1. IsFiniteSet(RowsOf(e, i)) /\ Naturals(RowAmounts(e), RowsOf(e, i))
  <2>1. RowsOf(e, i) \in SUBSET DOMAIN e.recipe
    BY DEF RowsOf
  <2>2. IsFiniteSet(RowsOf(e, i))
    BY <2>1, RowTypes, FS_Subset
  <2>3. \A n \in RowsOf(e, i) : RowAmounts(e)[n] \in Nat
    BY <2>1, RowTypes
  <2> QED  BY <2>2, <2>3 DEF Naturals
<1> QED  BY <1>1, TotalNatural DEF RowTotal

\* The lines are the kept rows, in the order of the recipe.
LinesAt(e, at) ==
  /\ DOMAIN Lines(e).value = DOMAIN at
  /\ DOMAIN at = 1..Len(at) /\ Len(at) \in Nat
  /\ \A j, k \in DOMAIN at : at[j] = at[k] => j = k
  /\ \A n \in Kept(e) : \E j \in DOMAIN at : at[j] = n
  /\ \A j \in DOMAIN at :
       /\ at[j] \in Kept(e)
       /\ Lines(e).value[j].ingredient = e.recipe[at[j]].ingredient
       /\ Lines(e).value[j].actual = RowAmount(e, at[j])
LEMMA LinesAtDomain ==
  ASSUME NEW e, NEW at, LinesAt(e, at)
  PROVE  DOMAIN Lines(e).value = DOMAIN at /\ DOMAIN at = 1..Len(at) /\ Len(at) \in Nat
BY Zenon DEF LinesAt

LEMMA LinesAreRows ==
  ASSUME NEW e, Planning(e)
  PROVE  /\ Lines(e).ok => \E at : LinesAt(e, at)
         /\ ~Lines(e).ok /\ RowsFit(e) => Lines(e).value = <<>> /\ Kept(e) = {}
<1> DEFINE recipe == e.recipe
           Scaled(r) == scaled_amount(r.amount, e.servings, e.base_servings)
           K == {n \in DOMAIN recipe : ~recipe[n].pantry_staple /\ Scaled(recipe[n]) > 0}
           at == Sorted(K, <)
           kept == [n \in DOMAIN at |-> recipe[at[n]]]
           result == [i \in DOMAIN kept |-> Line(kept[i], Scaled(kept[i]))]
           refused == \/ recipe = <<>>
                      \/ kept = <<>> /\ \E n \in DOMAIN recipe : ~recipe[n].pantry_staple
                      \/ \E i \in DOMAIN kept : Scaled(kept[i]) > MaxAmount
<1>1. Lines(e) = IF refused THEN Refused ELSE Result(result)
  BY Zenon DEF Lines, planned_lines, Selected
<1>2. (Lines(e).ok <=> ~refused) /\ Lines(e).value = IF refused THEN <<>> ELSE result
  <2> HIDE DEF refused, result
  <2> QED  BY <1>1 DEF Refused, Result
<1>3. K = Kept(e) /\ K \in SUBSET DOMAIN recipe /\ K \in SUBSET Nat /\ IsFiniteSet(K)
  <2>1. K = Kept(e)
    BY Zenon DEF Kept, RowAmount
  <2>2. K \in SUBSET DOMAIN recipe
    OBVIOUS
  <2> HIDE DEF K
  <2> QED  BY <2>1, <2>2, RowTypes, FS_Subset
<1>4. at \in SetToSeqs(K)
  <2> HIDE DEF K
  <2> QED  BY <1>3, SortedNumbers, Zenon
<1>5. /\ DOMAIN at = 1..Len(at) /\ Len(at) \in Nat
      /\ \A j, k \in DOMAIN at : at[j] = at[k] => j = k
      /\ \A n \in K : \E j \in DOMAIN at : at[j] = n
      /\ \A j \in DOMAIN at : at[j] \in K
  <2> HIDE DEF K, at
  <2> QED  BY <1>3, <1>4, EnumerationProperties, Zenon
<1>6. ASSUME Lines(e).ok PROVE LinesAt(e, at)
  <2>1. Lines(e).value = result
    BY <1>2, <1>6, Zenon
  <2>2. DOMAIN result = DOMAIN at /\ \A j \in DOMAIN at : result[j] = Line(recipe[at[j]], Scaled(recipe[at[j]]))
    <3> HIDE DEF at
    <3> QED  BY DEF kept
  <2> HIDE DEF K, at, result
  <2>3. ASSUME NEW j \in DOMAIN at
        PROVE  /\ Lines(e).value[j].ingredient = e.recipe[at[j]].ingredient
               /\ Lines(e).value[j].actual = RowAmount(e, at[j])
    <3>1. Lines(e).value[j] = Line(recipe[at[j]], Scaled(recipe[at[j]]))
      BY <2>1, <2>2, Zenon
    <3> QED  BY <3>1 DEF Line, RowAmount
  <2>4. DOMAIN Lines(e).value = DOMAIN at
    BY <2>1, <2>2, Zenon
  <2> QED  BY <1>3, <1>5, <2>3, <2>4, Zenon DEF LinesAt
<1>7. ASSUME ~Lines(e).ok, RowsFit(e) PROVE Lines(e).value = <<>> /\ Kept(e) = {}
  <2>1. refused /\ Lines(e).value = <<>>
    <3> HIDE DEF refused, result
    <3> QED  BY <1>2, <1>7
  <2>2. DOMAIN kept = DOMAIN at /\ \A j \in DOMAIN at : kept[j] = recipe[at[j]]
    <3> HIDE DEF at
    <3> QED  OBVIOUS
  <2>3. ~\E i \in DOMAIN kept : Scaled(kept[i]) > MaxAmount
    <3> SUFFICES ASSUME NEW j \in DOMAIN at, Scaled(recipe[at[j]]) > MaxAmount PROVE FALSE
      BY <2>2, Zenon
    <3>1. at[j] \in DOMAIN e.recipe /\ ~e.recipe[at[j]].pantry_staple
      BY <1>3, <1>5, Zenon DEF Kept
    <3>2. RowAmount(e, at[j]) <= MaxAmount /\ RowAmount(e, at[j]) \in Nat
      <4> HIDE DEF at
      <4> QED  BY <1>7, <3>1, RowTypes DEF RowsFit
    <3>3. RowAmount(e, at[j]) > MaxAmount
      BY Zenon DEF RowAmount
    <3> HIDE DEF at, Scaled
    <3> QED  BY <3>2, <3>3, ScaleAssumption
  <2>4. K = {}
    <3>1. CASE recipe = <<>>
      <4>1. DOMAIN recipe = {}
        BY <3>1
      <4> QED  BY <4>1, Zenon
    <3>2. CASE kept = <<>>
      <4>1. DOMAIN at = {}
        <5> HIDE DEF at, kept
        <5> QED  BY <2>2, <3>2
      <4> HIDE DEF at, K
      <4> QED  BY <1>5, <4>1
    <3> QED  BY <2>1, <2>3, <3>1, <3>2, Zenon
  <2> QED  BY <1>3, <2>1, <2>4, Zenon
<1> QED  BY <1>6, <1>7, Zenon

\* What the lines consume of an ingredient that is no staple is what the rows
\* that name it demand.
LEMMA ConsumedIsRows ==
  ASSUME NEW e, Planning(e), NEW i \in Product \ PantryStaple, Lines(e).ok \/ RowsFit(e)
  PROVE  Consumed(e, i) = RowTotal(e, i)
<1> DEFINE R == {n \in Kept(e) : e.recipe[n].ingredient = i}
           L == Lines(e).value
           S == {j \in DOMAIN L : L[j].ingredient = i}
           f == [j \in DOMAIN L |-> L[j].actual]
           g == RowAmounts(e)
<1>0. Consumed(e, i) = Total(f, S)
  BY DEF Consumed, Total
<1>1. R \in SUBSET RowsOf(e, i) /\ \A n \in RowsOf(e, i) \ R : g[n] = 0
  <2>1. R \in SUBSET RowsOf(e, i)
    BY DEF Kept, RowsOf
  <2>2. ASSUME NEW n \in RowsOf(e, i) \ R PROVE g[n] = 0
    <3>1. n \in DOMAIN e.recipe /\ e.recipe[n].ingredient = i /\ n \notin Kept(e)
      BY DEF RowsOf
    <3>2. ~e.recipe[n].pantry_staple /\ RowAmount(e, n) \in Nat /\ g[n] = RowAmount(e, n)
      BY <3>1, RowTypes
    <3> QED  BY <3>1, <3>2 DEF Kept
  <2> QED  BY <2>1, <2>2
<1>2. Total(g, R) = RowTotal(e, i)
  <2> HIDE DEF R, g
  <2>1. IsFiniteSet(RowsOf(e, i)) /\ Naturals(g, RowsOf(e, i)) /\ RowTotal(e, i) = Total(g, RowsOf(e, i))
    BY RowTotalType DEF RowTotal, g
  <2> QED  BY <1>1, <2>1, TotalPart
<1>3. CASE Lines(e).ok
  <2>1. PICK at : LinesAt(e, at)
    BY <1>3, LinesAreRows
  <2>2. /\ IsFiniteSet(S) /\ \A j \in S : j \in DOMAIN at /\ at[j] \in R /\ at[j] \in DOMAIN e.recipe
                                          /\ f[j] = RowAmount(e, at[j])
        /\ \A n \in R : \E j \in S : at[j] = n
    <3>1. IsFiniteSet(DOMAIN at) /\ DOMAIN L = DOMAIN at
      <4>1. DOMAIN at = 1..Len(at) /\ Len(at) \in Nat /\ DOMAIN L = DOMAIN at
        BY <2>1, LinesAtDomain, Zenon
      <4>2. 1 \in Int /\ Len(at) \in Int
        BY <4>1
      <4>3. IsFiniteSet(1..Len(at))
        BY <4>2, FS_Interval, Zenon
      <4> QED  BY <4>1, <4>3, Zenon
    <3>2. IsFiniteSet(S)
      BY <3>1, FS_Subset
    <3>3. ASSUME NEW j \in S
          PROVE  j \in DOMAIN at /\ at[j] \in R /\ at[j] \in DOMAIN e.recipe /\ f[j] = RowAmount(e, at[j])
      <4>1. /\ j \in DOMAIN at /\ j \in DOMAIN L /\ L[j].ingredient = i /\ at[j] \in Kept(e)
            /\ L[j].ingredient = e.recipe[at[j]].ingredient /\ L[j].actual = RowAmount(e, at[j])
        BY <2>1, Zenon DEF LinesAt
      <4>2. at[j] \in R /\ at[j] \in DOMAIN e.recipe
        BY <4>1, Zenon DEF Kept
      <4>3. f[j] = L[j].actual
        BY <4>1, Zenon
      <4> QED  BY <4>1, <4>2, <4>3, Zenon
    <3>4. ASSUME NEW n \in R PROVE \E j \in S : at[j] = n
      <4>1. PICK j \in DOMAIN at : at[j] = n
        BY <2>1, Zenon DEF LinesAt
      <4>2. L[j].ingredient = i /\ j \in DOMAIN L
        BY <2>1, <4>1, Zenon DEF LinesAt
      <4> QED  BY <4>1, <4>2, Zenon
    <3> QED  BY <3>2, <3>3, <3>4, Zenon
  <2>3. \A j \in S : g[at[j]] = f[j] /\ f[j] \in Int
    <3> SUFFICES ASSUME NEW j \in S PROVE g[at[j]] = f[j] /\ f[j] \in Int
      OBVIOUS
    <3>1. at[j] \in DOMAIN e.recipe /\ f[j] = RowAmount(e, at[j])
      BY <2>2, Zenon
    <3>2. \A n \in DOMAIN e.recipe : RowAmount(e, n) \in Nat /\ g[n] = RowAmount(e, n)
      BY RowTypes
    <3> HIDE DEF f, g, S
    <3>3. g[at[j]] = f[j] /\ f[j] \in Nat
      BY <3>1, <3>2, Zenon
    <3> QED  BY <3>3
  <2>4. \A j, k \in S : at[j] = at[k] => j = k
    BY <2>1, <2>2, Zenon DEF LinesAt
  <2> HIDE DEF R, L, S, f, g
  <2>5. {at[j] : j \in S} = R
    BY <2>2
  <2>6. Total(g, {at[j] : j \in S}) = Total(f, S)
    BY <2>2, <2>3, <2>4, TotalMoved DEF Integers
  <2>7. Total(g, R) = Total(f, S)
    BY <2>5, <2>6, Zenon
  <2> QED  BY <1>0, <1>2, <2>7, Zenon
<1>4. CASE ~Lines(e).ok
  <2>1. L = <<>> /\ Kept(e) = {}
    BY <1>4, LinesAreRows
  <2>2. S = {} /\ R = {}
    <3>1. DOMAIN L = {}
      BY <2>1
    <3> QED  BY <2>1, <3>1, Zenon
  <2> HIDE DEF R, L, S, f, g
  <2>3. Total(f, S) = 0 /\ Total(g, R) = 0
    BY <2>2, TotalEmpty, Zenon
  <2> QED  BY <1>0, <1>2, <2>3, Zenon
<1> QED  BY <1>3, <1>4

(***************************************************************************)
(* The demand of the planned entries is what their rows name.              *)
(***************************************************************************)
PlannedEntries(planned) == IsFiniteSet(planned) /\ \A e \in planned : Planning(e)
RowTotals(planned, i) == [e \in planned |-> RowTotal(e, i)]
DemandOf(planned, i) == Total(RowTotals(planned, i), planned)
Amounted(planned, i) == [x \in Demanding(planned, i) |-> ScaledDemand(x)]

LEMMA DemandRowsOf ==
  ASSUME NEW planned, NEW x
  PROVE  x \in DemandRows(planned) <=> \E e \in planned : \E n \in DOMAIN e.recipe : x = <<e, n>>
<1>1. ASSUME x \in DemandRows(planned)
      PROVE  \E e \in planned : \E n \in DOMAIN e.recipe : x = <<e, n>>
  <2>1. PICK e \in planned : x \in {e} \X DOMAIN e.recipe
    BY <1>1 DEF DemandRows
  <2> QED  BY <2>1
<1>2. ASSUME NEW e \in planned, NEW n \in DOMAIN e.recipe, x = <<e, n>>
      PROVE  x \in DemandRows(planned)
  <2>1. x \in {e} \X DOMAIN e.recipe
    BY <1>2
  <2> QED  BY <2>1 DEF DemandRows
<1> QED  BY <1>1, <1>2, Zenon

LEMMA DemandingOf ==
  ASSUME NEW planned, NEW i, NEW x
  PROVE  x \in Demanding(planned, i) <=> \E e \in planned : \E n \in RowsOf(e, i) : x = <<e, n>>
<1>1. x \in Demanding(planned, i)
        <=> x \in DemandRows(planned) /\ x[1].recipe[x[2]].ingredient = i
  BY Zenon DEF Demanding
<1>2. ASSUME x \in Demanding(planned, i)
      PROVE  \E e \in planned : \E n \in RowsOf(e, i) : x = <<e, n>>
  <2>1. PICK e \in planned : \E n \in DOMAIN e.recipe : x = <<e, n>>
    <3>1. x \in DemandRows(planned)
      BY <1>1, <1>2
    <3> QED  BY <3>1, DemandRowsOf
  <2>2. PICK n \in DOMAIN e.recipe : x = <<e, n>>
    BY <2>1
  <2>3. x[1] = e /\ x[2] = n
    BY <2>2
  <2>4. n \in RowsOf(e, i)
    BY <1>1, <1>2, <2>3, Zenon DEF RowsOf
  <2> QED  BY <2>2, <2>4, Zenon
<1>3. ASSUME NEW e \in planned, NEW n \in RowsOf(e, i), x = <<e, n>>
      PROVE  x \in Demanding(planned, i)
  <2>1. x[1] = e /\ x[2] = n
    BY <1>3
  <2>2. n \in DOMAIN e.recipe /\ e.recipe[n].ingredient = i
    BY DEF RowsOf
  <2>3. x \in DemandRows(planned)
    BY <1>3, <2>2, DemandRowsOf, Zenon
  <2> QED  BY <1>1, <2>1, <2>2, <2>3, Zenon
<1> QED  BY <1>2, <1>3, Zenon

LEMMA DemandIsRows ==
  ASSUME NEW planned, PlannedEntries(planned), NEW i
  PROVE  /\ IsFiniteSet(Demanding(planned, i)) /\ Naturals(Amounted(planned, i), Demanding(planned, i))
         /\ Total(Amounted(planned, i), Demanding(planned, i)) = DemandOf(planned, i)
<1> DEFINE f == Amounted(planned, i)
           g == RowTotals(planned, i)
           F == {T \in SUBSET planned :
                   IsFiniteSet(Demanding(T, i)) /\ Total(f, Demanding(T, i)) = Total(g, T)}
<1>1. Naturals(f, Demanding(planned, i))
  <2> SUFFICES ASSUME NEW x \in Demanding(planned, i) PROVE f[x] \in Nat
    BY DEF Naturals
  <2>1. PICK e \in planned : \E n \in RowsOf(e, i) : x = <<e, n>>
    BY DemandingOf
  <2>2. PICK n \in RowsOf(e, i) : x = <<e, n>>
    BY <2>1
  <2>3. f[x] = RowAmount(e, n)
    BY <2>2 DEF Amounted, ScaledDemand, RowAmount
  <2>4. RowAmount(e, n) \in Nat
    BY RowTypes DEF PlannedEntries, RowsOf
  <2> QED  BY <2>3, <2>4
<1>2. Naturals(g, planned) /\ Integers(g, planned) /\ IsFiniteSet(planned)
  BY RowTotalType DEF PlannedEntries, RowTotals, Naturals, Integers
<1>3. {} \in F
  <2>1. Demanding({}, i) = {}
    BY DemandingOf
  <2> HIDE DEF f, g
  <2>2. Total(f, Demanding({}, i)) = 0 /\ Total(g, {}) = 0 /\ IsFiniteSet(Demanding({}, i))
    BY <2>1, TotalEmpty, FS_EmptySet, Zenon
  <2> QED  BY <2>2
<1>4. ASSUME NEW T \in SUBSET planned, NEW e \in planned, T \in F, e \notin T PROVE T \cup {e} \in F
  <2> DEFINE at == [n \in RowsOf(e, i) |-> <<e, n>>]
             new == {at[n] : n \in RowsOf(e, i)}
             old == Demanding(T, i)
             h == RowAmounts(e)
  <2>1. Planning(e) /\ IsFiniteSet(RowsOf(e, i)) /\ Naturals(h, RowsOf(e, i))
        /\ RowTotal(e, i) = Total(h, RowsOf(e, i))
    BY RowTotalType DEF PlannedEntries, RowTotal
  <2>2. \A n \in RowsOf(e, i) : at[n] = <<e, n>> /\ at[n] \in Demanding(planned, i)
    BY DemandingOf
  <2>3. Demanding(T \cup {e}, i) = old \cup new /\ old \cap new = {}
    <3>1. \A x : x \in new <=> \E n \in RowsOf(e, i) : x = <<e, n>>
      BY <2>2
    <3>2. \A x : x \in old <=> \E d \in T : \E n \in RowsOf(d, i) : x = <<d, n>>
      BY DemandingOf
    <3>3. \A x : x \in Demanding(T \cup {e}, i) <=> \E d \in T \cup {e} : \E n \in RowsOf(d, i) : x = <<d, n>>
      BY DemandingOf
    <3>4. \A x : x \in Demanding(T \cup {e}, i) <=> x \in old \/ x \in new
      <4> HIDE DEF old, new, at
      <4> QED  BY <3>1, <3>2, <3>3, Zenon
    <3>5. \A x : ~(x \in old /\ x \in new)
      <4> HIDE DEF old, new, at
      <4> QED  BY <1>4, <3>1, <3>2
    <3> HIDE DEF old, new
    <3> QED  BY <3>4, <3>5
  <2>4. \A n \in RowsOf(e, i) : f[at[n]] = h[n] /\ h[n] \in Int
    <3> SUFFICES ASSUME NEW n \in RowsOf(e, i) PROVE f[at[n]] = h[n] /\ h[n] \in Int
      OBVIOUS
    <3>1. f[at[n]] = ScaledDemand(<<e, n>>)
      BY <2>2 DEF Amounted
    <3>2. ScaledDemand(<<e, n>>) = RowAmount(e, n)
      BY DEF ScaledDemand, RowAmount
    <3>3. h[n] = RowAmount(e, n) /\ RowAmount(e, n) \in Nat
      BY <2>1, RowTypes DEF RowsOf
    <3> HIDE DEF f, at, h
    <3> QED  BY <3>1, <3>2, <3>3
  <2>5. \A m, n \in RowsOf(e, i) : at[m] = at[n] => m = n
    BY <2>2
  <2>6. IsFiniteSet(new)
    <3>1. at \in Surjection(RowsOf(e, i), new)
      BY DEF Surjection
    <3> HIDE DEF new, at
    <3> QED  BY <2>1, <3>1, FS_Surjection DEF ExistsSurjection
  <2> HIDE DEF at, h, f, g
  <2>7. Total(f, new) = RowTotal(e, i)
    <3>1. Total(f, {at[n] : n \in RowsOf(e, i)}) = Total(h, RowsOf(e, i))
      BY <2>1, <2>4, <2>5, TotalMoved DEF Integers
    <3> QED  BY <2>1, <3>1
  <2>8. IsFiniteSet(old) /\ Total(f, old) = Total(g, T)
    BY <1>4
  <2>9. Integers(f, old \cup new)
    <3>1. old \cup new \in SUBSET Demanding(planned, i)
      <4>1. \A x \in old : x \in Demanding(planned, i)
        BY DemandingOf
      <4>2. \A x \in new : x \in Demanding(planned, i)
        BY <2>2
      <4> HIDE DEF old, new
      <4> QED  BY <4>1, <4>2
    <3> HIDE DEF old, new
    <3> QED  BY <1>1, <3>1 DEF Integers, Naturals
  <2> HIDE DEF old, new
  <2>10. Total(f, old \cup new) = Total(f, old) + Total(f, new)
    BY <2>3, <2>6, <2>8, <2>9, TotalUnion
  <2>11. Total(g, T \cup {e}) = Total(g, T) + g[e]
    <3>1. IsFiniteSet(T) /\ Integers(g, T \cup {e})
      BY <1>2, FS_Subset DEF Integers
    <3> QED  BY <1>4, <3>1, TotalAdd
  <2>12. g[e] = RowTotal(e, i)
    BY DEF g, RowTotals
  <2>13. Total(f, old \cup new) = Total(g, T \cup {e}) /\ IsFiniteSet(old \cup new)
    BY <2>6, <2>7, <2>8, <2>10, <2>11, <2>12, FS_Union
  <2>14. IsFiniteSet(Demanding(T \cup {e}, i)) /\ Total(f, Demanding(T \cup {e}, i)) = Total(g, T \cup {e})
    BY <2>3, <2>13, Zenon
  <2>15. T \cup {e} \in SUBSET planned
    BY <1>4
  <2> QED  BY <2>14, <2>15
<1>5. planned \in F
  <2> HIDE DEF F
  <2> QED  BY <1>2, <1>3, <1>4, SubsetsReached
<1>6. IsFiniteSet(Demanding(planned, i)) /\ Total(f, Demanding(planned, i)) = Total(g, planned)
  BY <1>5
<1> QED  BY <1>1, <1>6 DEF DemandOf

LEMMA DemandType ==
  ASSUME NEW planned, PlannedEntries(planned), NEW i
  PROVE  DemandOf(planned, i) \in Nat /\ Naturals(RowTotals(planned, i), planned)
<1>1. Naturals(RowTotals(planned, i), planned) /\ IsFiniteSet(planned)
  BY RowTotalType DEF PlannedEntries, RowTotals, Naturals
<1> QED  BY <1>1, TotalNatural DEF DemandOf

LEMMA DemandLineOf ==
  ASSUME NEW planned, PlannedEntries(planned), NEW i
  PROVE  LET line == DemandLine(planned, i) IN
         /\ line.required \in Nat /\ line.optional \in Nat
         /\ total_amount(line) = DemandOf(planned, i)
         /\ DemandOf(planned, i) > 0 => i \in DemandedIngredients(planned)
         /\ i \notin PantryStaple => ~line.pantry_staple
         /\ \A e \in planned : \A n \in RowsOf(e, i) :
              RowAmount(e, n) <= line.required \/ RowAmount(e, n) <= line.optional
<1> DEFINE line == DemandLine(planned, i)
           D == Demanding(planned, i)
           f == Amounted(planned, i)
           Part(optional) == {x \in D : x[1].recipe[x[2]].optional = optional}
<1>1. /\ line.required = Total(f, Part(FALSE)) /\ line.optional = Total(f, Part(TRUE))
      /\ line.pantry_staple <=> \E x \in D : x[1].recipe[x[2]].pantry_staple
  BY DEF DemandLine, Total, Amounted
<1>2. \A x \in D : \E e \in planned : \E n \in RowsOf(e, i) :
        /\ x[1] = e /\ x[2] = n /\ Planning(e) /\ n \in DOMAIN e.recipe /\ e.recipe[n].ingredient = i
        /\ e.recipe[n].optional \in BOOLEAN /\ (e.recipe[n].pantry_staple <=> i \in PantryStaple)
  <2> SUFFICES ASSUME NEW x \in D
               PROVE  \E e \in planned : \E n \in RowsOf(e, i) :
                        /\ x[1] = e /\ x[2] = n /\ Planning(e) /\ n \in DOMAIN e.recipe
                        /\ e.recipe[n].ingredient = i /\ e.recipe[n].optional \in BOOLEAN
                        /\ e.recipe[n].pantry_staple <=> i \in PantryStaple
    OBVIOUS
  <2>1. PICK e \in planned : \E n \in RowsOf(e, i) : x = <<e, n>>
    BY DemandingOf
  <2>2. PICK n \in RowsOf(e, i) : x = <<e, n>>
    BY <2>1
  <2>3. Planning(e) /\ n \in DOMAIN e.recipe /\ e.recipe[n].ingredient = i /\ x[1] = e /\ x[2] = n
    BY <2>2 DEF PlannedEntries, RowsOf
  <2>4. e.recipe[n].optional \in BOOLEAN /\ (e.recipe[n].pantry_staple <=> i \in PantryStaple)
    BY <2>3, RowTypes, Zenon
  <2> QED  BY <2>3, <2>4, Zenon
<1>3. Part(FALSE) \cup Part(TRUE) = D /\ Part(FALSE) \cap Part(TRUE) = {}
  <2>1. \A x \in D : x[1].recipe[x[2]].optional \in BOOLEAN
    BY <1>2, Zenon
  <2> HIDE DEF D
  <2> QED  BY <2>1
<1>4. IsFiniteSet(D) /\ Naturals(f, D) /\ Total(f, D) = DemandOf(planned, i)
  BY DemandIsRows
<1>5. Part(FALSE) \in SUBSET D /\ Part(TRUE) \in SUBSET D
  OBVIOUS
<1> DEFINE P == Part(FALSE)
           Q == Part(TRUE)
<1>6. \A e \in planned : \A n \in RowsOf(e, i) : (<<e, n>> \in P \/ <<e, n>> \in Q) /\ f[<<e, n>>] = RowAmount(e, n)
  <2> SUFFICES ASSUME NEW e \in planned, NEW n \in RowsOf(e, i)
               PROVE  (<<e, n>> \in P \/ <<e, n>> \in Q) /\ f[<<e, n>>] = RowAmount(e, n)
    OBVIOUS
  <2>1. <<e, n>> \in D
    BY DemandingOf
  <2>2. f[<<e, n>>] = RowAmount(e, n)
    BY <2>1 DEF Amounted, ScaledDemand, RowAmount
  <2> HIDE DEF P, Q, f, D
  <2>3. P \cup Q = D
    BY <1>3 DEF P, Q
  <2> QED  BY <2>1, <2>2, <2>3
<1> HIDE DEF D, f, Part, P, Q, line
<1>7. /\ IsFiniteSet(P) /\ IsFiniteSet(Q) /\ Naturals(f, P) /\ Naturals(f, Q)
      /\ P \cup Q = D /\ P \cap Q = {}
  <2>1. P \in SUBSET D /\ Q \in SUBSET D /\ P \cup Q = D /\ P \cap Q = {}
    BY <1>3, <1>5 DEF P, Q
  <2> QED  BY <1>4, <2>1, FS_Subset DEF Naturals
<1>8. Total(f, P) \in Nat /\ Total(f, Q) \in Nat
  BY <1>7, TotalNatural
<1>9. Total(f, P \cup Q) = Total(f, P) + Total(f, Q)
  <2>1. Integers(f, P \cup Q)
    BY <1>4, <1>7 DEF Integers, Naturals
  <2> QED  BY <1>7, <2>1, TotalUnion
<1>10. Total(f, D) = Total(f, P) + Total(f, Q)
  BY <1>7, <1>9, Zenon
<1>11. line.required = Total(f, P) /\ line.optional = Total(f, Q)
  BY <1>1 DEF P, Q
<1>12. total_amount(line) = DemandOf(planned, i)
  BY <1>4, <1>10, <1>11 DEF total_amount
<1>13. ASSUME DemandOf(planned, i) > 0 PROVE i \in DemandedIngredients(planned)
  <2>1. D # {}
    <3> SUFFICES ASSUME D = {} PROVE FALSE
      OBVIOUS
    <3>1. Total(f, D) = 0
      BY TotalEmpty
    <3> QED  BY <1>4, <1>13, <3>1
  <2>2. PICK x \in D : TRUE
    BY <2>1
  <2>3. x \in DemandRows(planned) /\ x[1].recipe[x[2]].ingredient = i
    BY <2>2 DEF D, Demanding
  <2> QED  BY <2>3 DEF DemandedIngredients
<1>14. i \notin PantryStaple => ~line.pantry_staple
  BY <1>1, <1>2, Zenon
<1>15. ASSUME NEW e \in planned, NEW n \in RowsOf(e, i)
       PROVE  RowAmount(e, n) <= line.required \/ RowAmount(e, n) <= line.optional
  <2>1. CASE <<e, n>> \in P
    BY <1>6, <1>7, <1>11, <2>1, TotalMember
  <2>2. CASE <<e, n>> \in Q
    BY <1>6, <1>7, <1>11, <2>2, TotalMember
  <2> QED  BY <1>6, <2>1, <2>2
<1> QED  BY <1>8, <1>11, <1>12, <1>13, <1>14, <1>15, Zenon DEF line

LEMMA ProjectedLines ==
  ASSUME NEW planned, PlannedEntries(planned)
  PROVE  LET lines0 == project_demand(planned) IN
         /\ \A i : i \in DOMAIN lines0 <=> DemandOf(planned, i) > 0
         /\ \A i \in DOMAIN lines0 : lines0[i] = DemandLine(planned, i)
         /\ Projectable(lines0) => \A e \in planned : RowsFit(e)
<1> DEFINE lines0 == project_demand(planned)
           demanded == {i \in DemandedIngredients(planned) : total_amount(DemandLine(planned, i)) > 0}
<1>1. lines0 = [i \in demanded |-> DemandLine(planned, i)]
  BY Zenon DEF project_demand
<1>2. \A i : i \in demanded <=> DemandOf(planned, i) > 0
  BY DemandLineOf, Zenon
<1> HIDE DEF demanded
<1>3. /\ \A i : i \in DOMAIN lines0 <=> DemandOf(planned, i) > 0
      /\ \A i \in DOMAIN lines0 : lines0[i] = DemandLine(planned, i)
  BY <1>1, <1>2
<1> HIDE DEF lines0
<1>4. ASSUME Projectable(lines0), NEW e \in planned, NEW n \in DOMAIN e.recipe
      PROVE  RowAmount(e, n) <= MaxAmount
  <2> DEFINE i == e.recipe[n].ingredient
             line == DemandLine(planned, i)
  <2>1. n \in RowsOf(e, i) /\ RowAmount(e, n) \in Nat
    BY RowTypes DEF RowsOf, PlannedEntries
  <2>2. /\ line.required \in Nat /\ line.optional \in Nat
        /\ total_amount(line) = DemandOf(planned, i)
        /\ RowAmount(e, n) <= line.required \/ RowAmount(e, n) <= line.optional
    BY <2>1, DemandLineOf, Zenon
  <2>3. CASE i \in DOMAIN lines0
    <3>1. line.required <= MaxAmount /\ line.optional <= MaxAmount
      BY <1>3, <1>4, <2>3 DEF Projectable
    <3> HIDE DEF i, line
    <3> QED  BY <2>1, <2>2, <3>1, ScaleAssumption
  <2>4. CASE i \notin DOMAIN lines0
    <3>1. ~(total_amount(line) > 0)
      BY <1>3, <2>2, <2>4, Zenon
    <3> HIDE DEF i, line
    <3> QED  BY <2>1, <2>2, <3>1, ScaleAssumption DEF total_amount
  <2> QED  BY <2>3, <2>4
<1>5. Projectable(lines0) => \A e \in planned : RowsFit(e)
  BY <1>4, Zenon DEF RowsFit
<1> QED  BY <1>3, <1>5, Zenon DEF lines0

(***************************************************************************)
(* Two roundings of half a quantum each, one of them of the factor.        *)
(***************************************************************************)
LEMMA ScaledProduct ==
  ASSUME NEW b \in Nat, NEW x \in Int, NEW k \in Nat, -k <= 2 * x, 2 * x <= k
  PROVE  b * x \in Int /\ -(b * k) <= 2 * (b * x) /\ 2 * (b * x) <= b * k
<1>1. b * (2 * x) = 2 * (b * x)
  BY SMT
<1>2. b * (2 * x) <= b * k
  BY SMT
<1>3. b * (-k) <= b * (2 * x)
  BY SMT
<1>4. b * (-k) = -(b * k)
  BY SMT
<1> QED  BY <1>1, <1>2, <1>3, <1>4, SMT

LEMMA ScalingIsAccurate ==
  \A amount \in Nat, servings, base \in Nat \ {0} : Close(amount, servings, base)
<1> SUFFICES ASSUME NEW amount \in Nat, NEW servings \in Nat \ {0}, NEW base \in Nat \ {0}
             PROVE  Close(amount, servings, base)
  OBVIOUS
<1> DEFINE f == scale_factor(servings, base)
           a == scaled_amount(amount, servings, base)
           X == Scale * a - amount * f
           Y == base * f - servings * Scale
<1>1. f \in Nat /\ -base <= 2 * Y /\ 2 * Y <= base
  <2>1. servings * Scale \in Nat
    BY ScaleAssumption
  <2> QED  BY <2>1, RoundedHalfUp DEF scale_factor
<1>2. a \in Nat /\ -Scale <= 2 * X /\ 2 * X <= Scale
  <2>1. amount * f \in Nat
    BY <1>1
  <2> HIDE DEF f
  <2>2. f = scale_factor(servings, base)
    BY DEF f
  <2> QED  BY <2>1, <2>2, RoundedHalfUp, ScaleAssumption DEF scaled_amount
<1>3. Scale \in Nat \ {0}
  BY ScaleAssumption
<1>4. X \in Int /\ Y \in Int
  <2> HIDE DEF f, a
  <2> QED  BY <1>1, <1>2, <1>3 DEF X, Y
<1>5. /\ base * X \in Int /\ -(base * Scale) <= 2 * (base * X) /\ 2 * (base * X) <= base * Scale
  <2> HIDE DEF X
  <2> QED  BY <1>2, <1>3, <1>4, ScaledProduct
<1>6. /\ amount * Y \in Int /\ -(amount * base) <= 2 * (amount * Y) /\ 2 * (amount * Y) <= amount * base
  <2> HIDE DEF Y
  <2> QED  BY <1>1, <1>4, ScaledProduct
<1>7. base * X + amount * Y = Scale * (a * base - amount * servings)
  <2> HIDE DEF f, a
  <2>1. /\ base * X = base * (Scale * a) - base * (amount * f)
        /\ amount * Y = amount * (base * f) - amount * (servings * Scale)
    BY <1>1, <1>2, <1>3, SMT DEF X, Y
  <2>2. base * (amount * f) = amount * (base * f)
    BY <1>1, SMT
  <2>3. base * (Scale * a) = Scale * (a * base)
    BY <1>2, <1>3, SMT
  <2>4. amount * (servings * Scale) = Scale * (amount * servings)
    BY <1>3, SMT
  <2>5. Scale * (a * base - amount * servings) = Scale * (a * base) - Scale * (amount * servings)
    BY <1>2, <1>3, SMT
  <2> HIDE DEF X, Y
  <2> QED  BY <2>1, <2>2, <2>3, <2>4, <2>5, <1>1, <1>2, <1>3, SMT
<1>8. base * (amount + Scale) = amount * base + base * Scale
  BY <1>3, SMT
<1> DEFINE E == a * base - amount * servings
           error == IF amount * servings > a * base THEN amount * servings - a * base
                    ELSE a * base - amount * servings
<1>9. E \in Int /\ Scale * E \in Int /\ Scale * (-E) = -(Scale * E) /\ error \in {E, -E}
  <2>1. a * base \in Int /\ amount * servings \in Int
    BY <1>2
  <2> HIDE DEF a
  <2> QED  BY <2>1, <1>3, SMT
<1>10. error = E \/ error = -E
  BY <1>9
<1>11. 2 * Scale * error = 2 * (Scale * error)
  BY <1>9, <1>3, <1>10, SMT
<1>12. 2 * (Scale * error) <= base * (amount + Scale)
  <2> HIDE DEF E, error, X, Y
  <2>1. base * X + amount * Y = Scale * E
    BY <1>7 DEF E
  <2>2. Scale * error = Scale * E \/ Scale * error = -(Scale * E)
    BY <1>9, <1>10
  <2>3. base * Scale \in Int /\ amount * base \in Int
    BY <1>3
  <2> QED  BY <2>1, <2>2, <2>3, <1>5, <1>6, <1>8, <1>9, SMT
<1> QED  BY <1>11, <1>12 DEF Close

(***************************************************************************)
(* A kitchen: its entries, lots and days have their types.                 *)
(***************************************************************************)
KitchenTypes ==
  /\ PlannedEntries(entries)
  /\ Stored(pantry)
  /\ window \in Int \X Int
  /\ cooking \in BOOLEAN

LEMMA ShelfOf ==
  ASSUME NEW lots, Stored(lots), NEW i, NEW day \in Int
  PROVE  LET shelf == {lot \in lots : lot.ingredient = i} IN
         /\ StockLots(shelf) /\ \A lot \in shelf : lot.quantity \in Nat
         /\ OnHand(lots, i, day) = QuantityOf(UsableOf(shelf, day)) /\ OnHand(lots, i, day) \in Nat
<1> DEFINE shelf == {lot \in lots : lot.ingredient = i}
<1>1. \A lot \in lots : lot.id \in Nat /\ lot.quantity \in Nat /\ lot.expires \in Int \cup {NoDate}
  BY DEF Stored, StoredLot
<1>2. IsFiniteSet(shelf) /\ shelf \in SUBSET lots
  BY FS_Subset DEF Stored
<1>3. {lot \in lots : lot.ingredient = i /\ Usable(lot, day)} = UsableOf(shelf, day)
  BY DEF UsableOf
<1>4. OnHand(lots, i, day) = QuantityOf(UsableOf(shelf, day))
  BY <1>3, Zenon DEF OnHand
<1> HIDE DEF shelf
<1>5. \A lot \in shelf : lot.quantity \in Nat
  BY <1>1, <1>2
<1>6. StockLots(shelf)
  BY <1>1, <1>2 DEF StockLots, IsStockLot, Stored
<1>7. 0 \in Nat
  OBVIOUS
<1>8. QuantityOf(UsableOf(shelf, day)) \in Nat
  BY <1>5, <1>6, <1>7, EnoughIsAllocated
<1> QED  BY <1>4, <1>5, <1>6, <1>8 DEF shelf

LEMMA DifferentLots ==
  ASSUME NEW lots, Stored(lots), NEW lot, lot \in StoredLot, \A l \in lots : l.id # lot.id
  PROVE  Stored(lots \cup {lot})
<1>1. IsFiniteSet(lots \cup {lot})
  BY FS_AddElement DEF Stored
<1>2. lots \cup {lot} \subseteq StoredLot
  BY DEF Stored
<1>3. \A a, b \in lots \cup {lot} : a.id = b.id => a = b
  BY DEF Stored
<1> QED  BY <1>1, <1>2, <1>3 DEF Stored

LEMMA NewLotStored ==
  ASSUME Stored(pantry), NEW i \in Product, NEW quantity \in Nat
  PROVE  Stored(pantry \cup {NewLot(i, quantity)})
<1> DEFINE at == [lot \in pantry |-> lot.id]
           ids == {lot.id : lot \in pantry}
<1>1. \A lot \in pantry : lot.id \in Nat
  BY DEF Stored, StoredLot
<1>2. IsFiniteSet(ids)
  <2>1. at \in Surjection(pantry, ids)
    BY DEF Surjection
  <2> HIDE DEF at, ids
  <2> QED  BY <2>1, FS_Surjection DEF Stored
<1>3. {0} \cup ids \in SUBSET Nat /\ IsFiniteSet({0} \cup ids) /\ {0} \cup ids # {}
  <2>1. IsFiniteSet({0} \cup ids)
    BY <1>2, FS_AddElement, FS_Singleton, FS_Union
  <2> QED  BY <1>1, <2>1
<1> HIDE DEF ids
<1>4. Max({0} \cup ids) \in Nat /\ \A x \in {0} \cup ids : Max({0} \cup ids) >= x
  BY <1>3, MaxOfNumbers
<1>5. NewLot(i, quantity) = [id |-> 1 + Max({0} \cup ids), ingredient |-> i, quantity |-> quantity,
                             expires |-> NoDate]
  BY Zenon DEF NewLot, ids
<1>6. NewLot(i, quantity) \in StoredLot /\ NewLot(i, quantity).id = 1 + Max({0} \cup ids)
  BY <1>4, <1>5 DEF StoredLot
<1>7. ASSUME NEW lot \in pantry PROVE lot.id # NewLot(i, quantity).id
  <2>1. lot.id \in ids /\ lot.id \in Nat
    BY <1>1 DEF ids
  <2> QED  BY <1>4, <1>6, <2>1
<1> QED  BY <1>6, <1>7, DifferentLots

(***************************************************************************)
(* What cooking an entry takes: its lots are the shelf's, and from one lot *)
(* only one line takes.                                                    *)
(***************************************************************************)
LEMMA AllocatedLine ==
  ASSUME Stored(pantry), NEW e, Planning(e), NEW day \in Int, Cookable(e, day),
         NEW n \in DOMAIN Lines(e).value
  PROVE  LET line == Lines(e).value[n] IN
         FefoAllocation(Shelf(line.ingredient), line.actual, day, Allocation(e, n, day).value)
<1> DEFINE line == Lines(e).value[n]
<1>1. Lines(e).ok /\ Allocation(e, n, day).ok
  BY DEF Cookable, Completable
<1>2. line.actual \in Nat
  <2>1. PICK at : LinesAt(e, at)
    BY <1>1, LinesAreRows
  <2>2. at[n] \in DOMAIN e.recipe /\ line.actual = RowAmount(e, at[n])
    BY <2>1, Zenon DEF LinesAt, Kept
  <2>3. RowAmount(e, at[n]) \in Nat
    BY <2>2, RowTypes
  <2> QED  BY <2>2, <2>3, Zenon
<1>3. Allocation(e, n, day) = fefo_allocate(Shelf(line.ingredient), line.actual, day)
  BY Zenon DEF Allocation
<1>4. StockLots(Shelf(line.ingredient))
  BY ShelfOf, Zenon DEF Shelf
<1> HIDE DEF line
<1>5. fefo_allocate(Shelf(line.ingredient), line.actual, day).ok
  BY <1>1, <1>3, Zenon
<1>6. FefoAllocation(Shelf(line.ingredient), line.actual, day,
                     fefo_allocate(Shelf(line.ingredient), line.actual, day).value)
  BY <1>2, <1>4, <1>5, FefoAllocates
<1>7. FefoAllocation(Shelf(line.ingredient), line.actual, day, Allocation(e, n, day).value)
  BY <1>3, <1>6, Zenon
<1> QED  BY <1>7 DEF line

LEMMA TakenOnce ==
  ASSUME Stored(pantry), NEW e, Planning(e), NEW day \in Int, Cookable(e, day)
  PROVE  /\ \A t \in Takes(e, day) : \E n \in DOMAIN Lines(e).value :
              \E j \in DOMAIN Allocation(e, n, day).value : t = Allocation(e, n, day).value[j]
         /\ \A n \in DOMAIN Lines(e).value : \A j \in DOMAIN Allocation(e, n, day).value :
              /\ Allocation(e, n, day).value[j] \in Takes(e, day)
              /\ \E lot \in pantry :
                   /\ lot.ingredient = Lines(e).value[n].ingredient
                   /\ Usable(lot, day) /\ Allocation(e, n, day).value[j].lot = lot.id
                   /\ Allocation(e, n, day).value[j].amount \in 1..lot.quantity
         /\ \A t, u \in Takes(e, day) : t.lot = u.lot => t = u
<1> DEFINE taken(n) == Allocation(e, n, day).value
           L == Lines(e).value
<1>1. ASSUME NEW t \in Takes(e, day)
      PROVE  \E n \in DOMAIN L : \E j \in DOMAIN taken(n) : t = taken(n)[j]
  BY DEF Takes, Range
<1>2. ASSUME NEW n \in DOMAIN L, NEW j \in DOMAIN taken(n)
      PROVE  /\ taken(n)[j] \in Takes(e, day)
             /\ \E lot \in pantry :
                  /\ lot.ingredient = L[n].ingredient
                  /\ Usable(lot, day) /\ taken(n)[j].lot = lot.id /\ taken(n)[j].amount \in 1..lot.quantity
  <2>1. taken(n)[j] \in Takes(e, day)
    BY DEF Takes, Range
  <2>2. FefoAllocation(Shelf(L[n].ingredient), L[n].actual, day, taken(n))
    BY AllocatedLine
  <2> HIDE DEF taken, L
  <2>3. PICK lot \in Shelf(L[n].ingredient) :
          Usable(lot, day) /\ taken(n)[j].lot = lot.id /\ taken(n)[j].amount \in 1..lot.quantity
    BY <2>2 DEF FefoAllocation
  <2>4. lot \in pantry /\ lot.ingredient = L[n].ingredient
    BY DEF Shelf
  <2> QED  BY <2>1, <2>3, <2>4, Zenon
<1>3. ASSUME NEW t \in Takes(e, day), NEW u \in Takes(e, day), t.lot = u.lot PROVE t = u
  <2>1. PICK n \in DOMAIN L : \E j \in DOMAIN taken(n) : t = taken(n)[j]
    BY <1>1
  <2>2. PICK j \in DOMAIN taken(n) : t = taken(n)[j]
    BY <2>1
  <2>3. PICK m \in DOMAIN L : \E k \in DOMAIN taken(m) : u = taken(m)[k]
    BY <1>1
  <2>4. PICK k \in DOMAIN taken(m) : u = taken(m)[k]
    BY <2>3
  <2> HIDE DEF taken, L
  <2>5. L[n].ingredient = L[m].ingredient
    <3>1. PICK a \in pantry : a.ingredient = L[n].ingredient /\ t.lot = a.id
      BY <1>2, <2>2, Zenon
    <3>2. PICK b \in pantry : b.ingredient = L[m].ingredient /\ u.lot = b.id
      BY <1>2, <2>4, Zenon
    <3>3. a = b
      BY <1>3, <3>1, <3>2 DEF Stored
    <3> QED  BY <3>1, <3>2, <3>3, Zenon
  <2>6. n = m
    BY <2>5 DEF Cookable, Completable, L
  <2>7. FefoAllocation(Shelf(L[n].ingredient), L[n].actual, day, taken(n))
    BY AllocatedLine DEF L, taken
  <2>8. \A x, y \in DOMAIN taken(n) : taken(n)[x].lot = taken(n)[y].lot => x = y
    BY <2>7 DEF FefoAllocation
  <2>9. k \in DOMAIN taken(n) /\ u = taken(n)[k]
    BY <2>4, <2>6, Zenon
  <2> QED  BY <1>3, <2>2, <2>8, <2>9, Zenon
<1> QED  BY <1>1, <1>2, <1>3, Zenon DEF L, taken

LEMMA TakenWithin ==
  ASSUME Stored(pantry), NEW e, Planning(e), NEW day \in Int, Cookable(e, day), NEW lot \in pantry
  PROVE  /\ Taken(lot, Takes(e, day)) \in 0..lot.quantity /\ lot.quantity \in Nat
         /\ \A t \in Takes(e, day) : t.lot = lot.id => Taken(lot, Takes(e, day)) = t.amount
<1> DEFINE takes == Takes(e, day)
<1>1. lot.quantity \in Nat
  BY DEF Stored, StoredLot
<1>2. CASE \E t \in takes : t.lot = lot.id
  <2> DEFINE u == CHOOSE t \in takes : t.lot = lot.id
  <2>1. u \in takes /\ u.lot = lot.id
    BY <1>2
  <2>2. Taken(lot, takes) = u.amount
    BY <1>2, Zenon DEF Taken
  <2> HIDE DEF u
  <2>3. PICK n \in DOMAIN Lines(e).value :
          \E j \in DOMAIN Allocation(e, n, day).value : u = Allocation(e, n, day).value[j]
    BY <2>1, TakenOnce
  <2>4. PICK l \in pantry : u.lot = l.id /\ u.amount \in 1..l.quantity
    <3>1. PICK j \in DOMAIN Allocation(e, n, day).value : u = Allocation(e, n, day).value[j]
      BY <2>3
    <3>2. PICK l \in pantry : /\ Allocation(e, n, day).value[j].lot = l.id
                              /\ Allocation(e, n, day).value[j].amount \in 1..l.quantity
      BY TakenOnce
    <3> QED  BY <3>1, <3>2, Zenon
  <2>5. l = lot
    BY <2>1, <2>4 DEF Stored
  <2>6. \A t \in takes : t.lot = lot.id => t = u
    BY <2>1, TakenOnce
  <2> QED  BY <1>1, <2>2, <2>4, <2>5, <2>6
<1>3. CASE ~\E t \in takes : t.lot = lot.id
  BY <1>1, <1>3 DEF Taken
<1> QED  BY <1>2, <1>3

LEMMA TakenTotal ==
  ASSUME Stored(pantry), NEW e, Planning(e), NEW day \in Int, Cookable(e, day),
         NEW i \in Product \ PantryStaple
  PROVE  LET U == UsableOf(Shelf(i), day) IN
         Total([lot \in U |-> Taken(lot, Takes(e, day))], U) = RowTotal(e, i)
<1> DEFINE U == UsableOf(Shelf(i), day)
           takes == Takes(e, day)
           k == [lot \in U |-> Taken(lot, takes)]
           L == Lines(e).value
           S == {n \in DOMAIN L : L[n].ingredient = i}
           f == [n \in DOMAIN L |-> L[n].actual]
<1>1. Total(f, S) = RowTotal(e, i)
  <2>1. Lines(e).ok
    BY DEF Cookable, Completable
  <2>2. Consumed(e, i) = RowTotal(e, i)
    BY <2>1, ConsumedIsRows
  <2> QED  BY <2>2 DEF Consumed, Total
<1>2. IsFiniteSet(U) /\ \A lot \in U : lot \in pantry /\ lot.ingredient = i
  <2>1. U \in SUBSET pantry /\ \A lot \in U : lot.ingredient = i
    BY DEF UsableOf, Shelf
  <2> HIDE DEF U
  <2> QED  BY <2>1, FS_Subset DEF Stored
<1>3. \A lot \in U : k[lot] = Taken(lot, takes) /\ k[lot] \in Nat
  <2> SUFFICES ASSUME NEW lot \in U PROVE k[lot] = Taken(lot, takes) /\ k[lot] \in Nat
    OBVIOUS
  <2>1. k[lot] = Taken(lot, takes)
    OBVIOUS
  <2> HIDE DEF U, k, takes
  <2>2. Taken(lot, takes) \in 0..lot.quantity /\ lot.quantity \in Nat
    BY <1>2, TakenWithin DEF takes
  <2> QED  BY <2>1, <2>2
<1>4. \A lot \in U, t \in takes : t.lot = lot.id =>
        \E n \in S : \E j \in DOMAIN Allocation(e, n, day).value : t = Allocation(e, n, day).value[j]
  <2> SUFFICES ASSUME NEW lot \in U, NEW t \in takes, t.lot = lot.id
               PROVE  \E n \in S : \E j \in DOMAIN Allocation(e, n, day).value :
                        t = Allocation(e, n, day).value[j]
    OBVIOUS
  <2> HIDE DEF U
  <2>1. PICK n \in DOMAIN L : \E j \in DOMAIN Allocation(e, n, day).value :
                                t = Allocation(e, n, day).value[j]
    BY TakenOnce
  <2>2. PICK j \in DOMAIN Allocation(e, n, day).value : t = Allocation(e, n, day).value[j]
    BY <2>1
  <2>3. PICK l \in pantry : l.ingredient = L[n].ingredient /\ t.lot = l.id
    <3>1. PICK l \in pantry : /\ l.ingredient = Lines(e).value[n].ingredient
                              /\ Allocation(e, n, day).value[j].lot = l.id
      BY TakenOnce
    <3> QED  BY <2>2, <3>1, Zenon
  <2>4. l = lot
    BY <1>2, <2>3 DEF Stored
  <2>5. L[n].ingredient = i
    BY <1>2, <2>3, <2>4
  <2> QED  BY <2>2, <2>5
<1>5. CASE S = {}
  <2>1. \A lot \in U : k[lot] = 0
    <3> SUFFICES ASSUME NEW lot \in U PROVE k[lot] = 0
      OBVIOUS
    <3>1. ~\E t \in takes : t.lot = lot.id
      BY <1>4, <1>5
    <3>2. Taken(lot, takes) = 0
      BY <3>1 DEF Taken
    <3> QED  BY <1>3, <3>2
  <2> HIDE DEF U, k, S, f
  <2>2. Total(k, U) = 0 /\ Total(f, S) = 0
    BY <1>2, <1>5, <2>1, TotalZero, TotalEmpty
  <2> QED  BY <1>1, <2>2 DEF k, U
<1>6. ASSUME NEW n \in S PROVE Total(k, U) = RowTotal(e, i)
  <2> DEFINE taken == Allocation(e, n, day).value
             J == DOMAIN taken
             a == Amounts(taken)
             at == [j \in J |-> CHOOSE lot \in U : lot.id = taken[j].lot]
             image == {at[j] : j \in J}
  <2>1. FefoAllocation(Shelf(i), L[n].actual, day, taken)
    BY AllocatedLine
  <2>2. S = {n}
    BY DEF Cookable, Completable
  <2>3. f[n] = L[n].actual /\ taken \in Seq(Take)
        /\ SumOfDeltas(Given(taken), J) = -L[n].actual /\ L[n].actual \in Int
    <3>1. f[n] = L[n].actual /\ n \in DOMAIN L
      OBVIOUS
    <3>2. taken \in Seq(Take) /\ SumOfDeltas(Given(taken), J) = -L[n].actual
      BY <2>1 DEF FefoAllocation
    <3>3. L[n].actual \in Nat
      <4>1. PICK r : LinesAt(e, r)
        BY LinesAreRows DEF Cookable, Completable
      <4>2. r[n] \in DOMAIN e.recipe /\ L[n].actual = RowAmount(e, r[n])
        BY <3>1, <4>1, Zenon DEF LinesAt, Kept
      <4>3. RowAmount(e, r[n]) \in Nat
        BY <4>2, RowTypes
      <4> QED  BY <4>2, <4>3, Zenon
    <3> QED  BY <3>1, <3>2, <3>3
  <2>4. ASSUME NEW j \in J
        PROVE  at[j] \in U /\ at[j].id = taken[j].lot /\ k[at[j]] = a[j] /\ a[j] \in Int
    <3>1. PICK lot \in Shelf(i) :
            Usable(lot, day) /\ taken[j].lot = lot.id /\ taken[j].amount \in 1..lot.quantity
      BY <2>1 DEF FefoAllocation
    <3>2. lot \in U
      BY <3>1 DEF UsableOf
    <3>3. at[j] \in U /\ at[j].id = taken[j].lot
      <4> HIDE DEF U
      <4>1. \E l \in U : l.id = taken[j].lot
        BY <3>1, <3>2
      <4> QED  BY <4>1
    <3>4. taken[j] \in takes
      BY TakenOnce
    <3>5. a[j] = taken[j].amount /\ a[j] \in Int
      <4>1. a[j] = taken[j].amount
        BY DEF Amounts
      <4>2. taken[j] \in Take
        BY <2>3
      <4> QED  BY <4>1, <4>2 DEF Take
    <3> HIDE DEF U, k, takes, at, taken, J, a
    <3>6. Taken(at[j], takes) = taken[j].amount
      BY <1>2, <3>3, <3>4, TakenWithin DEF takes
    <3> QED  BY <1>3, <3>3, <3>5, <3>6, Zenon
  <2>5. \A j, l \in J : at[j] = at[l] => j = l
    <3>1. \A j, l \in J : taken[j].lot = taken[l].lot => j = l
      BY <2>1 DEF FefoAllocation
    <3>2. \A j \in J : at[j].id = taken[j].lot
      BY <2>4
    <3> HIDE DEF at, taken, J
    <3> QED  BY <3>1, <3>2
  <2>6. ASSUME NEW lot \in U \ image PROVE k[lot] = 0
    <3>1. ASSUME NEW t \in takes, t.lot = lot.id PROVE FALSE
      <4>1. PICK m \in S : \E j \in DOMAIN Allocation(e, m, day).value : t = Allocation(e, m, day).value[j]
        BY <1>4, <3>1
      <4>2. m = n
        BY <2>2, <4>1
      <4>3. PICK j \in J : t = taken[j]
        BY <4>1, <4>2
      <4> HIDE DEF U, at, taken, J, takes, S
      <4>4. at[j] \in U /\ at[j].id = lot.id
        BY <2>4, <3>1, <4>3
      <4>5. at[j] = lot
        BY <1>2, <4>4 DEF Stored
      <4> QED  BY <4>5
    <3>2. Taken(lot, takes) = 0
      BY <3>1 DEF Taken
    <3> QED  BY <1>3, <3>2
  <2>7. IsFiniteSet(J)
    <3>1. J = 1..Len(taken) /\ Len(taken) \in Int
      BY <2>3
    <3>2. IsFiniteSet(1..Len(taken))
      BY <3>1, FS_Interval
    <3> QED  BY <3>1, <3>2, Zenon
  <2>8. image \in SUBSET U
    BY <2>4
  <2>9. J = DOMAIN taken /\ a = Amounts(taken)
    OBVIOUS
  <2> HIDE DEF U, k, takes, at, taken, J, a, S, f, L
  <2>10. Total(a, J) = L[n].actual
    <3>1. Integers(a, J)
      BY <2>4 DEF Integers
    <3>2. Total(a, J) \in Int /\ SumOfDeltas(Given(taken), J) = -Total(a, J)
      BY <2>7, <2>9, <3>1, GivenTotal
    <3> QED  BY <2>3, <3>2
  <2>11. Total(k, {at[j] : j \in J}) = Total(a, J)
    <3>1. Integers(a, J)
      BY <2>4 DEF Integers
    <3> QED  BY <2>4, <2>5, <2>7, <3>1, TotalMoved
  <2>12. Total(k, image) = Total(k, U)
    <3>1. Naturals(k, U)
      BY <1>3 DEF Naturals
    <3> HIDE DEF image
    <3> QED  BY <1>2, <2>6, <2>8, <3>1, TotalPart
  <2>13. Total(f, S) = f[n]
    BY <2>2, <2>3, TotalOne
  <2> QED  BY <1>1, <2>3, <2>10, <2>11, <2>12, <2>13
<1> QED  BY <1>5, <1>6

\* What is left: the lots keep their ids and lose what has been taken.
LEMMA WhatIsLeft ==
  ASSUME Stored(pantry), NEW e, Planning(e), NEW day \in Int, Cookable(e, day)
  PROVE  /\ Stored(Without(Takes(e, day)))
         /\ \A i \in Product \ PantryStaple :
              OnHand(Without(Takes(e, day)), i, day) = OnHand(pantry, i, day) - RowTotal(e, i)
<1> DEFINE takes == Takes(e, day)
           left(lot) == [lot EXCEPT !.quantity = @ - Taken(lot, takes)]
           at == [lot \in pantry |-> left(lot)]
           lots == Without(takes)
<1>1. \A lot \in pantry :
        /\ lot \in StoredLot /\ lot.id \in Nat /\ lot.quantity \in Nat
        /\ Taken(lot, takes) \in 0..lot.quantity
        /\ at[lot].id = lot.id /\ at[lot].ingredient = lot.ingredient /\ at[lot].expires = lot.expires
        /\ at[lot].quantity = lot.quantity - Taken(lot, takes) /\ at[lot] \in StoredLot
  <2> SUFFICES ASSUME NEW lot \in pantry
               PROVE  /\ lot \in StoredLot /\ lot.id \in Nat /\ lot.quantity \in Nat
                      /\ Taken(lot, takes) \in 0..lot.quantity
                      /\ at[lot].id = lot.id /\ at[lot].ingredient = lot.ingredient
                      /\ at[lot].expires = lot.expires
                      /\ at[lot].quantity = lot.quantity - Taken(lot, takes)
                      /\ at[lot] \in StoredLot
    OBVIOUS
  <2>1. Taken(lot, takes) \in 0..lot.quantity /\ lot.quantity \in Nat
    BY TakenWithin
  <2>2. lot \in StoredLot
    BY DEF Stored
  <2>3. at[lot] = [lot EXCEPT !.quantity = @ - Taken(lot, takes)]
    OBVIOUS
  <2> HIDE DEF at, takes
  <2> QED  BY <2>1, <2>2, <2>3 DEF StoredLot
<1>2. lots = {at[lot] : lot \in pantry}
  BY DEF Without
<1> HIDE DEF at, lots, takes
<1>3. \A a, b \in pantry : a.id = b.id => a = b
  BY DEF Stored
<1>4. Stored(lots)
  <2>1. at \in Surjection(pantry, lots)
    <3>1. DOMAIN at = pantry /\ at = [lot \in pantry |-> at[lot]]
      BY DEF at
    <3> QED  BY <1>2, <3>1 DEF Surjection
  <2>2. IsFiniteSet(lots)
    BY <2>1, FS_Surjection DEF Stored
  <2>3. \A x \in lots : \E lot \in pantry : x = at[lot]
    BY <1>2
  <2>4. lots \subseteq StoredLot
    BY <1>1, <2>3
  <2>5. \A x, y \in lots : x.id = y.id => x = y
    BY <1>1, <1>3, <2>3
  <2> QED  BY <2>2, <2>4, <2>5 DEF Stored
<1>5. ASSUME NEW i \in Product \ PantryStaple
      PROVE  OnHand(lots, i, day) = OnHand(pantry, i, day) - RowTotal(e, i)
  <2> DEFINE U == UsableOf(Shelf(i), day)
             k == [lot \in U |-> Taken(lot, takes)]
             q == [lot \in U |-> lot.quantity]
             r == [lot \in U |-> at[lot].quantity]
             image == {at[lot] : lot \in U}
             V == {lot \in lots : lot.ingredient = i /\ Usable(lot, day)}
             f == [lot \in image |-> lot.quantity]
  <2>1. Total(k, U) = RowTotal(e, i)
    BY TakenTotal DEF takes
  <2>2. Total(q, U) = OnHand(pantry, i, day)
    BY ShelfOf DEF Shelf, QuantityOf, Total
  <2>3. IsFiniteSet(U) /\ U \in SUBSET pantry
        /\ \A lot \in U : lot.ingredient = i /\ Usable(lot, day)
    <3>1. U \in SUBSET pantry /\ \A lot \in U : lot.ingredient = i /\ Usable(lot, day)
      BY DEF UsableOf, Shelf
    <3> HIDE DEF U
    <3> QED  BY <3>1, FS_Subset DEF Stored
  <2>4. \A lot \in pantry : lot.ingredient = i /\ Usable(lot, day) => lot \in U
    BY DEF UsableOf, Shelf
  <2>5. \A lot \in U : /\ q[lot] = lot.quantity /\ k[lot] = Taken(lot, takes) /\ r[lot] = at[lot].quantity
                       /\ f[at[lot]] = at[lot].quantity
    OBVIOUS
  <2> HIDE DEF U
  <2>6. \A lot \in U : q[lot] \in Nat /\ k[lot] \in Nat /\ r[lot] \in Nat /\ q[lot] = r[lot] + k[lot]
                       /\ f[at[lot]] = r[lot]
    <3> HIDE DEF q, k, r, f, image
    <3> QED  BY <1>1, <2>3, <2>5
  <2> HIDE DEF q, k, r
  <2>7. Total(q, U) = Total(r, U) + Total(k, U)
    <3> HIDE DEF f, image
    <3>1. Integers(r, U) /\ Integers(k, U) /\ \A lot \in U : q[lot] = r[lot] + k[lot]
      BY <2>6 DEF Integers
    <3> QED  BY <2>3, <3>1, TotalPlus
  <2>8. \A a, b \in U : at[a] = at[b] => a = b
    BY <1>1, <1>3, <2>3
  <2>9. Total(f, {at[lot] : lot \in U}) = Total(r, U)
    <3> HIDE DEF f, image
    <3> QED  BY <2>3, <2>6, <2>8, TotalMoved DEF Integers
  <2>10. V \in SUBSET image /\ \A x \in image \ V : f[x] = 0
    <3>1. \A x \in V : \E lot \in pantry : x = at[lot] /\ lot.ingredient = i /\ Usable(x, day)
      BY <1>1, <1>2
    <3>2. \A x \in image : \E lot \in U : x = at[lot]
      OBVIOUS
    <3>3. \A lot \in U : at[lot] \in lots
      BY <1>2, <2>3
    <3>4. ASSUME NEW x \in V PROVE x \in image
      <4>1. PICK lot \in pantry : x = at[lot] /\ lot.ingredient = i /\ Usable(x, day)
        BY <3>1
      <4>2. Usable(lot, day)
        BY <1>1, <4>1 DEF Usable
      <4>3. lot \in U
        BY <2>4, <4>1, <4>2
      <4> QED  BY <4>1, <4>3
    <3>5. ASSUME NEW x \in image \ V PROVE f[x] = 0
      <4>1. PICK lot \in U : x = at[lot]
        BY <3>2
      <4>2. x \in lots /\ x.ingredient = i /\ f[x] = x.quantity /\ x.quantity \in Nat
        <5>1. x \in lots
          BY <3>3, <4>1
        <5>2. f[x] = x.quantity
          OBVIOUS
        <5> HIDE DEF image, f
        <5> QED  BY <1>1, <2>3, <2>6, <4>1, <5>1, <5>2
      <4>3. ~Usable(x, day)
        BY <4>2
      <4>4. x.quantity = 0
        <5> HIDE DEF image, f, V
        <5> QED  BY <1>1, <2>3, <4>1, <4>2, <4>3 DEF Usable
      <4> QED  BY <4>2, <4>4
    <3> QED  BY <3>4, <3>5
  <2>11. IsFiniteSet(image) /\ Naturals(f, image)
    <3>1. IsFiniteSet(lots) /\ image \in SUBSET lots
      BY <1>2, <1>4, <2>3 DEF Stored
    <3>2. Naturals(f, image)
      <4>1. \A x \in image : \E lot \in U : x = at[lot]
        OBVIOUS
      <4> HIDE DEF f, image
      <4> QED  BY <2>6, <4>1 DEF Naturals
    <3> QED  BY <3>1, <3>2, FS_Subset
  <2>12. Total(f, V) = OnHand(lots, i, day)
    <3> DEFINE g == [lot \in V |-> lot.quantity]
    <3>1. Total(g, V) = OnHand(lots, i, day)
      BY DEF OnHand, QuantityOf, Total
    <3>2. \A x \in V : g[x] = f[x]
      BY <2>10
    <3> HIDE DEF V, g, f, image
    <3>3. IsFiniteSet(V) /\ Integers(f, V)
      BY <2>10, <2>11, FS_Subset DEF Integers, Naturals
    <3>4. Total(g, V) = Total(f, V)
      BY <3>2, <3>3, TotalSame
    <3> QED  BY <3>1, <3>4
  <2> HIDE DEF V, f
  <2>13. Total(f, V) = Total(f, image)
    <3> HIDE DEF image
    <3> QED  BY <2>10, <2>11, TotalPart
  <2>14. Total(r, U) \in Int /\ Total(k, U) \in Int
    BY <2>3, <2>6, TotalType DEF Integers
  <2> QED  BY <2>1, <2>2, <2>7, <2>9, <2>12, <2>13, <2>14
<1> QED  BY <1>4, <1>5 DEF lots, takes

(***************************************************************************)
(* While nothing is bought any more the stock covers what is still due.    *)
(***************************************************************************)
Covered ==
  cooking => /\ window[1] = window[2]
             /\ \A i \in Product \ PantryStaple : DemandOf(Due, i) <= OnHand(pantry, i, window[1])
KitchenInv == KitchenTypes /\ Covered /\ NothingMissingMeansCookable

LEMMA DueEntries ==
  ASSUME KitchenTypes
  PROVE  PlannedEntries(Due) /\ Due \in SUBSET entries /\ window[1] \in Int /\ window[2] \in Int
<1>1. Due \in SUBSET entries /\ window[1] \in Int /\ window[2] \in Int
  BY DEF KitchenTypes, Due, Planned
<1>2. IsFiniteSet(Due) /\ \A e \in Due : Planning(e)
  BY <1>1, FS_Subset DEF KitchenTypes, PlannedEntries
<1> QED  BY <1>1, <1>2 DEF PlannedEntries

LEMMA NothingMissingCovers ==
  ASSUME KitchenTypes, NothingMissing, NEW i \in Product \ PantryStaple
  PROVE  DemandOf(Due, i) <= OnHand(pantry, i, window[1])
<1> DEFINE day == window[1]
           lines0 == project_demand(Due)
           short == [j \in DOMAIN lines0 |-> shortfall_amount(lines0[j], OnHand(pantry, j, day))]
<1>1. PlannedEntries(Due) /\ day \in Int
  BY DueEntries
<1>2. Missing.value = short
  <2>1. Missing = Result(short) \/ Missing = Refused
    BY Zenon DEF Missing, demand_forecast, Due
  <2>2. Missing.ok
    BY DEF NothingMissing
  <2> HIDE DEF short
  <2> QED  BY <2>1, <2>2 DEF Result, Refused
<1>3. \A j \in DOMAIN lines0 : shortfall_amount(lines0[j], OnHand(pantry, j, day)) = 0
  <2>1. DOMAIN short = DOMAIN lines0
        /\ \A j \in DOMAIN lines0 : short[j] = shortfall_amount(lines0[j], OnHand(pantry, j, day))
    OBVIOUS
  <2>2. \A j \in DOMAIN short : short[j] = 0
    <3> HIDE DEF short
    <3> QED  BY <1>2, Zenon DEF NothingMissing
  <2> HIDE DEF short, lines0, day
  <2> QED  BY <2>1, <2>2
<1>4. DemandOf(Due, i) \in Nat /\ OnHand(pantry, i, day) \in Nat
  BY <1>1, DemandType, ShelfOf DEF KitchenTypes
<1>5. CASE DemandOf(Due, i) > 0
  <2>1. i \in DOMAIN lines0 /\ lines0[i] = DemandLine(Due, i)
    BY <1>1, <1>5, ProjectedLines, Zenon
  <2>2. total_amount(lines0[i]) = DemandOf(Due, i) /\ ~lines0[i].pantry_staple
    BY <1>1, <2>1, DemandLineOf, Zenon
  <2>3. shortfall_amount(lines0[i], OnHand(pantry, i, day)) = 0
    BY <1>3, <2>1
  <2> HIDE DEF lines0
  <2> QED  BY <1>4, <2>2, <2>3 DEF shortfall_amount
<1> QED  BY <1>4, <1>5

\* Lines that the stock covers one ingredient at a time are all allocated.
LEMMA EnoughIsCookable ==
  ASSUME Stored(pantry), NEW e, Planning(e), NEW day \in Int, Completable(e),
         \A i \in Product \ PantryStaple : RowTotal(e, i) <= OnHand(pantry, i, day)
  PROVE  Cookable(e, day)
<1>1. PICK at : LinesAt(e, at)
  BY LinesAreRows DEF Completable
<1> SUFFICES ASSUME NEW n \in DOMAIN Lines(e).value PROVE Allocation(e, n, day).ok
  BY DEF Cookable
<1> DEFINE i == Lines(e).value[n].ingredient
           amount == Lines(e).value[n].actual
<1>2. /\ at[n] \in Kept(e) /\ i = e.recipe[at[n]].ingredient /\ amount = RowAmount(e, at[n])
  BY <1>1, Zenon DEF LinesAt
<1>3. at[n] \in DOMAIN e.recipe /\ ~e.recipe[at[n]].pantry_staple /\ RowAmount(e, at[n]) > 0
  BY <1>2 DEF Kept
<1>4. i \in Product \ PantryStaple /\ at[n] \in RowsOf(e, i) /\ amount \in Nat /\ amount > 0
      /\ RowAmounts(e)[at[n]] = amount
  <2>1. /\ e.recipe[at[n]].ingredient \in Product
        /\ e.recipe[at[n]].pantry_staple <=> e.recipe[at[n]].ingredient \in PantryStaple
        /\ RowAmount(e, at[n]) \in Nat /\ RowAmounts(e)[at[n]] = RowAmount(e, at[n])
    BY <1>3, RowTypes
  <2> HIDE DEF i, amount
  <2> QED  BY <1>2, <1>3, <2>1 DEF RowsOf
<1> HIDE DEF i, amount
<1>5. amount <= RowTotal(e, i) /\ RowTotal(e, i) \in Nat
  BY <1>4, RowTotalType, TotalMember DEF RowTotal
<1>6. RowTotal(e, i) <= OnHand(pantry, i, day)
  BY <1>4
<1>7. /\ StockLots(Shelf(i)) /\ \A lot \in Shelf(i) : lot.quantity \in Nat
      /\ OnHand(pantry, i, day) = QuantityOf(UsableOf(Shelf(i), day)) /\ OnHand(pantry, i, day) \in Nat
  BY ShelfOf, Zenon DEF Shelf
<1>8. amount # 0 /\ amount <= QuantityOf(UsableOf(Shelf(i), day))
  BY <1>4, <1>5, <1>6, <1>7
<1>9. fefo_allocate(Shelf(i), amount, day).ok
  BY <1>4, <1>7, <1>8, EnoughIsAllocated
<1> QED  BY <1>9, Zenon DEF Allocation, i, amount

\* An entry that is due and can be completed finds what it needs.
LEMMA CoveredIsCookable ==
  ASSUME KitchenTypes, Covered, cooking, NEW e \in Due, Completable(e)
  PROVE  Cookable(e, window[1])
<1> DEFINE day == window[1]
<1>1. PlannedEntries(Due) /\ day \in Int /\ Planning(e) /\ Stored(pantry)
  BY DueEntries DEF PlannedEntries, KitchenTypes
<1>2. ASSUME NEW i \in Product \ PantryStaple PROVE RowTotal(e, i) <= OnHand(pantry, i, day)
  <2>1. Naturals(RowTotals(Due, i), Due) /\ DemandOf(Due, i) \in Nat
    BY <1>1, DemandType
  <2>2. RowTotals(Due, i)[e] = RowTotal(e, i)
    BY DEF RowTotals
  <2>3. RowTotals(Due, i)[e] \in Nat /\ RowTotals(Due, i)[e] <= Total(RowTotals(Due, i), Due)
    BY <1>1, <2>1, TotalMember DEF PlannedEntries
  <2>4. DemandOf(Due, i) <= OnHand(pantry, i, day)
    BY DEF Covered
  <2>5. OnHand(pantry, i, day) \in Nat
    BY <1>1, ShelfOf
  <2> QED  BY <2>1, <2>2, <2>3, <2>4, <2>5 DEF DemandOf
<1> QED  BY <1>1, <1>2, EnoughIsCookable

LEMMA KitchenStarts == KitchenInit => KitchenInv
<1> SUFFICES ASSUME KitchenInit PROVE KitchenInv
  OBVIOUS
<1>1. PICK w \in Week : entries = w.entries /\ pantry = w.pantry /\ window = w.window
  BY DEF KitchenInit
<1>2. /\ IsFiniteSet(w.entries) /\ \A e \in w.entries : Planning(e)
      /\ Stored(w.pantry) /\ w.window \in Int \X Int
  BY WeekAssumption
<1>3. cooking = FALSE /\ failed = {}
  BY DEF KitchenInit
<1>4. KitchenTypes
  BY <1>1, <1>2, <1>3 DEF KitchenTypes, PlannedEntries
<1>5. Covered /\ NothingMissingMeansCookable
  BY <1>3 DEF Covered, NothingMissingMeansCookable
<1> QED  BY <1>4, <1>5 DEF KitchenInv

\* A purchase comes before the cooking, and is a new lot.
LEMMA BuyStep ==
  ASSUME KitchenInv, NEW i \in Product, Buy(i)
  PROVE  KitchenInv'
<1>1. /\ pantry' = pantry \cup {NewLot(i, Missing.value[i])} /\ Missing.value[i] \in 1..MaxAmount
      /\ entries' = entries /\ window' = window /\ cooking' = cooking /\ failed' = failed /\ ~cooking
  BY DEF Buy
<1>2. Missing.value[i] \in Nat
  BY <1>1, ScaleAssumption
<1>3. Stored(pantry')
  BY <1>1, <1>2, NewLotStored, Zenon DEF KitchenInv, KitchenTypes
<1>4. KitchenTypes'
  BY <1>1, <1>3 DEF KitchenInv, KitchenTypes
<1>5. Covered'
  BY <1>1 DEF Covered
<1>6. NothingMissingMeansCookable'
  BY <1>1 DEF KitchenInv, NothingMissingMeansCookable
<1> QED  BY <1>4, <1>5, <1>6 DEF KitchenInv

LEMMA StartStep ==
  ASSUME KitchenInv, StartCooking
  PROVE  KitchenInv'
<1>1. /\ entries' = entries /\ pantry' = pantry /\ window' = window /\ failed' = failed
      /\ cooking' = TRUE /\ window[1] = window[2]
  BY DEF StartCooking
<1>2. KitchenTypes'
  BY <1>1 DEF KitchenInv, KitchenTypes
<1>3. \A i \in Product \ PantryStaple : DemandOf(Due, i) <= OnHand(pantry, i, window[1])
  BY NothingMissingCovers DEF KitchenInv, StartCooking
<1>4. Due' = Due
  BY <1>1 DEF Due
<1>5. Covered'
  BY <1>1, <1>3, <1>4, Zenon DEF Covered
<1>6. NothingMissingMeansCookable'
  BY <1>1 DEF KitchenInv, NothingMissingMeansCookable
<1> QED  BY <1>2, <1>5, <1>6 DEF KitchenInv

LEMMA RefuseStep ==
  ASSUME KitchenInv, NEW e \in entries, RefuseToCook(e)
  PROVE  KitchenInv'
<1>1. /\ entries' = entries /\ pantry' = pantry /\ window' = window /\ cooking' = cooking
      /\ failed' = failed \cup {e} /\ cooking /\ e \in Due /\ ~Cookable(e, window[1])
  BY DEF RefuseToCook
<1>2. KitchenTypes'
  BY <1>1 DEF KitchenInv, KitchenTypes
<1>3. Due' = Due
  BY <1>1 DEF Due
<1>4. Covered'
  BY <1>1, <1>3, Zenon DEF KitchenInv, Covered
<1>5. ~Completable(e)
  BY <1>1, CoveredIsCookable DEF KitchenInv
<1>6. NothingMissingMeansCookable'
  BY <1>1, <1>5 DEF KitchenInv, NothingMissingMeansCookable
<1> QED  BY <1>2, <1>4, <1>6 DEF KitchenInv

\* The demand of an ingredient falls by what the entry took of it.
LEMMA CookStep ==
  ASSUME KitchenInv, NEW e \in entries, Cook(e)
  PROVE  KitchenInv'
<1> DEFINE day == window[1]
           cooked == [e EXCEPT !.recorded = TRUE]
<1>1. /\ pantry' = Without(Takes(e, day)) /\ entries' = (entries \ {e}) \cup {cooked}
      /\ window' = window /\ cooking' = cooking /\ failed' = failed
      /\ cooking /\ e \in Due /\ Cookable(e, day)
  BY DEF Cook
<1>2. /\ PlannedEntries(entries) /\ PlannedEntries(Due) /\ Due \in SUBSET entries /\ Planning(e)
      /\ Stored(pantry) /\ day \in Int
  BY DueEntries DEF KitchenInv, KitchenTypes, PlannedEntries
<1>3. /\ Stored(pantry')
      /\ \A i \in Product \ PantryStaple : OnHand(pantry', i, day) = OnHand(pantry, i, day) - RowTotal(e, i)
  BY <1>1, <1>2, WhatIsLeft, Zenon
<1>4. Planning(cooked) /\ cooked.recorded
  <2>1. e \in PlanEntry
    BY <1>2 DEF Planning
  <2>2. cooked \in PlanEntry /\ cooked.recipe = e.recipe /\ cooked.recorded
    BY <2>1 DEF PlanEntry
  <2> HIDE DEF cooked
  <2> QED  BY <1>2, <2>2 DEF Planning
<1> HIDE DEF cooked
<1>5. PlannedEntries(entries')
  <2>1. IsFiniteSet(entries')
    BY <1>1, <1>2, FS_AddElement, FS_RemoveElement DEF PlannedEntries
  <2>2. \A d \in entries' : Planning(d)
    BY <1>1, <1>2, <1>4 DEF PlannedEntries
  <2> QED  BY <2>1, <2>2 DEF PlannedEntries
<1>6. KitchenTypes'
  BY <1>1, <1>3, <1>5 DEF KitchenInv, KitchenTypes
<1>7. Due' = Due \ {e}
  <2>1. \A d \in entries' : d \in entries \ {e} \/ d = cooked
    BY <1>1
  <2>2. \A d : d \in Due <=> d \in entries /\ d.plan_state = "approved" /\ ~d.recorded
                                   /\ d.planned_date \in window[1]..window[2]
    BY DEF Due, Planned
  <2>3. \A d : d \in Due' <=> d \in entries' /\ d.plan_state = "approved" /\ ~d.recorded
                                   /\ d.planned_date \in window[1]..window[2]
    BY <1>1 DEF Due, Planned
  <2>4. \A d : d \in entries' <=> (d \in entries /\ d # e) \/ d = cooked
    BY <1>1
  <2>5. \A d : d \in Due' <=> d \in Due /\ d # e
    BY <1>4, <2>2, <2>3, <2>4, Zenon
  <2> QED  BY <2>5
<1>8. ASSUME NEW i \in Product \ PantryStaple PROVE DemandOf(Due', i) <= OnHand(pantry', i, day)
  <2> DEFINE f == RowTotals(Due, i)
             g == RowTotals(Due \ {e}, i)
             R == Due \ {e}
  <2>1. IsFiniteSet(R) /\ e \notin R /\ R \cup {e} = Due
    BY <1>1, <1>2, FS_RemoveElement DEF PlannedEntries
  <2>2. Naturals(f, Due) /\ DemandOf(Due, i) \in Nat
    BY <1>2, DemandType
  <2>3. f[e] = RowTotal(e, i) /\ \A d \in R : g[d] = f[d]
    BY <1>1 DEF RowTotals
  <2>4. OnHand(pantry, i, day) \in Nat /\ RowTotal(e, i) \in Nat
    BY <1>2, ShelfOf, RowTotalType
  <2>5. DemandOf(Due, i) = Total(f, Due) /\ DemandOf(R, i) = Total(g, R)
    BY DEF DemandOf
  <2> HIDE DEF f, g, R
  <2>6. Integers(f, R \cup {e}) /\ Integers(f, R)
    BY <2>1, <2>2 DEF Integers, Naturals
  <2>7. Total(f, R \cup {e}) = Total(f, R) + f[e]
    BY <2>1, <2>6, TotalAdd
  <2>8. Total(f, Due) = Total(f, R) + f[e]
    BY <2>1, <2>7, Zenon
  <2>9. Total(g, R) = Total(f, R) /\ Total(f, R) \in Int
    BY <2>1, <2>3, <2>6, TotalSame, TotalType
  <2>10. DemandOf(R, i) = DemandOf(Due, i) - RowTotal(e, i)
    BY <2>3, <2>4, <2>5, <2>8, <2>9
  <2>11. DemandOf(Due, i) <= OnHand(pantry, i, day)
    BY <1>1 DEF KitchenInv, Covered
  <2>12. DemandOf(R, i) <= OnHand(pantry', i, day)
    BY <1>3, <2>2, <2>4, <2>10, <2>11
  <2> QED  BY <1>7, <2>12, Zenon DEF R
<1>9. Covered'
  <2>1. window[1] = window[2]
    BY <1>1 DEF KitchenInv, Covered
  <2> QED  BY <1>1, <1>8, <2>1 DEF Covered
<1>10. NothingMissingMeansCookable'
  BY <1>1 DEF KitchenInv, NothingMissingMeansCookable
<1> QED  BY <1>6, <1>9, <1>10 DEF KitchenInv

LEMMA KitchenStep == KitchenInv /\ [KitchenNext]_kitchen_vars => KitchenInv'
<1> SUFFICES ASSUME KitchenInv, [KitchenNext]_kitchen_vars PROVE KitchenInv'
  OBVIOUS
<1>1. ASSUME NEW i \in Product, Buy(i) PROVE KitchenInv'
  BY <1>1, BuyStep
<1>2. CASE StartCooking
  BY <1>2, StartStep
<1>3. ASSUME NEW e \in entries, Cook(e) PROVE KitchenInv'
  BY <1>3, CookStep
<1>4. ASSUME NEW e \in entries, RefuseToCook(e) PROVE KitchenInv'
  BY <1>4, RefuseStep
<1>5. CASE UNCHANGED kitchen_vars
  <2>1. entries' = entries /\ pantry' = pantry /\ window' = window /\ cooking' = cooking /\ failed' = failed
    BY <1>5 DEF kitchen_vars
  <2>2. Due' = Due
    BY <2>1 DEF Due
  <2>3. KitchenTypes' /\ NothingMissingMeansCookable'
    BY <2>1 DEF KitchenInv, KitchenTypes, NothingMissingMeansCookable
  <2>4. Covered'
    BY <2>1, <2>2, Zenon DEF KitchenInv, Covered
  <2> QED  BY <2>3, <2>4 DEF KitchenInv
<1> QED  BY <1>1, <1>2, <1>3, <1>4, <1>5 DEF KitchenNext

LEMMA KitchenInvariant == KitchenSpec => []KitchenInv
BY KitchenStarts, KitchenStep, PTL DEF KitchenSpec

(***************************************************************************)
(* Forecast, shopping and completion agree: when nothing is missing for a  *)
(* day, purchase_item has bought what demand_forecast told, and            *)
(* complete_entry refuses no meal of that day for lack of stock, in        *)
(* whatever order the meals are cooked (completion_service, _deduct_line). *)
(***************************************************************************)
THEOREM EveryMealOfTheDayIsCooked == KitchenSpec => []NothingMissingMeansCookable
BY KitchenInvariant, PTL DEF KitchenInv

(***************************************************************************)
(* scaled_amount rounds twice, the factor and the product, and is never    *)
(* further from the exact amount than half a quantum and half a quantum    *)
(* for every unit of the recipe's row, for any servings.                   *)
(***************************************************************************)
THEOREM ScalingStaysClose == KitchenSpec => []ScalingIsClose
<1>1. KitchenInv => ScalingIsClose
  <2> SUFFICES ASSUME KitchenInv, NEW e \in entries, NEW n \in DOMAIN e.recipe
               PROVE  Close(e.recipe[n].amount, e.servings, e.base_servings)
    BY DEF ScalingIsClose
  <2>1. Planning(e)
    BY DEF KitchenInv, KitchenTypes, PlannedEntries
  <2>2. e.recipe[n].amount \in Nat /\ e.servings \in Nat \ {0} /\ e.base_servings \in Nat \ {0}
    BY <2>1, RowTypes
  <2> QED  BY <2>2, ScalingIsAccurate
<1> QED  BY <1>1, KitchenInvariant, PTL

(***************************************************************************)
(* project_demand names, of every ingredient that is no staple, what the   *)
(* completions of the entries that are still to be cooked will consume:    *)
(* planned_lines and the forecast read and scale the same rows.            *)
(***************************************************************************)
THEOREM ForecastIsWhatCookingTakes == KitchenSpec => []DemandIsConsumption
<1>1. KitchenInv => DemandIsConsumption
  <2> DEFINE lines0 == project_demand(Due)
             due == {e \in entries : /\ e.plan_state = "approved" /\ ~e.recorded
                                     /\ e.planned_date \in window[1]..window[2]}
  <2> SUFFICES ASSUME KitchenInv, Missing.ok, NEW i \in Product \ PantryStaple
               PROVE  SumFunctionOnSet([e \in due |-> Consumed(e, i)], due)
                        = IF i \in DOMAIN lines0 THEN total_amount(lines0[i]) ELSE 0
    BY Zenon DEF DemandIsConsumption
  <2>1. due = Due
    BY DEF Due, Planned
  <2>2. PlannedEntries(Due) /\ window[1] \in Int
    BY DueEntries DEF KitchenInv
  <2>3. Projectable(lines0)
    <3>1. Missing.ok => Projectable(lines0)
      BY DEF Missing, demand_forecast, Due, Refused
    <3> QED  BY <3>1
  <2>4. \A e \in Due : RowsFit(e)
    BY <2>2, <2>3, ProjectedLines, Zenon
  <2> DEFINE f == [e \in due |-> Consumed(e, i)]
             g == RowTotals(Due, i)
  <2>5. \A e \in Due : f[e] = g[e]
    <3> SUFFICES ASSUME NEW e \in Due PROVE f[e] = g[e]
      OBVIOUS
    <3>1. f[e] = Consumed(e, i)
      BY <2>1
    <3>2. Consumed(e, i) = RowTotal(e, i)
      BY <2>2, <2>4, ConsumedIsRows DEF PlannedEntries
    <3>3. g[e] = RowTotal(e, i)
      BY DEF RowTotals
    <3> QED  BY <3>1, <3>2, <3>3
  <2>6. Naturals(g, Due) /\ IsFiniteSet(Due) /\ DemandOf(Due, i) = Total(g, Due) /\ DemandOf(Due, i) \in Nat
    BY <2>2, DemandType DEF PlannedEntries, DemandOf
  <2>7. i \in DOMAIN lines0 <=> DemandOf(Due, i) > 0
    BY <2>2, ProjectedLines, Zenon
  <2>8. i \in DOMAIN lines0 => total_amount(lines0[i]) = DemandOf(Due, i)
    BY <2>2, ProjectedLines, DemandLineOf, Zenon
  <2> HIDE DEF f, g, lines0, due
  <2>9. Total(f, Due) = Total(g, Due)
    BY <2>5, <2>6, TotalSame DEF Integers, Naturals
  <2>10. SumFunctionOnSet(f, due) = Total(g, Due)
    BY <2>1, <2>9, Zenon DEF Total
  <2>11. Total(g, Due) = IF i \in DOMAIN lines0 THEN total_amount(lines0[i]) ELSE 0
    BY <2>6, <2>7, <2>8
  <2> QED  BY <2>10, <2>11, Zenon DEF f
<1> QED  BY <1>1, KitchenInvariant, PTL

(***************************************************************************)
(* The detail of an entry.  When the first k rows have been projected, what *)
(* is shown as missing of an ingredient is what they need of it above the  *)
(* stock, and what remains is the stock above what they need.              *)
(***************************************************************************)
DetailRow ==
  [ingredient : Product, required : Nat, on_hand : Nat, pantry_staple : BOOLEAN, shortfall : Nat]
NamedBy(e) == {e.recipe[n].ingredient : n \in DOMAIN e.recipe}
Projections(e) == [projected : Seq(DetailRow), remaining_stock : [NamedBy(e) -> Nat]]
ProjectRow(e, v, n) == Project(v, e.recipe[n], RowAmount(e, n))

Above(a, b) == IF a > b THEN a - b ELSE 0
ShownOf(s, i) == {n \in DOMAIN s : s[n].ingredient = i}
NeededIn(s, i) == Total([n \in DOMAIN s |-> s[n].required], ShownOf(s, i))
ShortIn(s, i) == Total([n \in DOMAIN s |-> s[n].shortfall], ShownOf(s, i))
RowsUpTo(e, i, k) == {n \in RowsOf(e, i) : n <= k}

DetailSoFar(e, v, k, day) ==
  /\ v \in Projections(e)
  /\ \A i \in Product \ PantryStaple :
       /\ NeededIn(v.projected, i) = Total(RowAmounts(e), RowsUpTo(e, i, k))
       /\ NeededIn(v.projected, i) \in Nat
       /\ ShortIn(v.projected, i) = Above(NeededIn(v.projected, i), OnHand(pantry, i, day))
       /\ i \in NamedBy(e) =>
            v.remaining_stock[i] = Above(OnHand(pantry, i, day), NeededIn(v.projected, i))

LEMMA ProjectedRow ==
  ASSUME NEW e, Planning(e), NEW v \in Projections(e), NEW n \in DOMAIN e.recipe
  PROVE  LET row0 == e.recipe[n]
             q == RowAmount(e, n)
             left == v.remaining_stock[row0.ingredient]
             line == DetailLine(row0, q, left)
         IN /\ q \in Nat /\ left \in Nat /\ row0.ingredient \in NamedBy(e)
            /\ q = 0 => ProjectRow(e, v, n) = v
            /\ line \in DetailRow /\ line.ingredient = row0.ingredient /\ line.required = q
            /\ q # 0 => /\ ProjectRow(e, v, n).projected = Append(v.projected, line)
                        /\ ProjectRow(e, v, n).remaining_stock
                             = [v.remaining_stock EXCEPT ![row0.ingredient] =
                                  @ - Allocated(row0, q, left)]
            /\ Allocated(row0, q, left) \in 0..left
            /\ ~row0.pantry_staple => /\ Allocated(row0, q, left) = Least(q, left)
                                      /\ line.shortfall = Above(q, left)
            /\ ProjectRow(e, v, n) \in Projections(e)
<1> DEFINE row0 == e.recipe[n]
           i == row0.ingredient
           q == RowAmount(e, n)
           left == v.remaining_stock[i]
           line == DetailLine(row0, q, left)
<1>1. /\ q \in Nat /\ i \in Product /\ i \in NamedBy(e) /\ row0.pantry_staple \in BOOLEAN
  <2>1. q \in Nat /\ i \in Product
    BY RowTypes
  <2>2. i \in NamedBy(e)
    BY DEF NamedBy
  <2>3. row0 \in RecipeRow
    BY RowTypes
  <2>4. row0.pantry_staple \in BOOLEAN
    BY <2>3 DEF RecipeRow
  <2> QED  BY <2>1, <2>2, <2>4
<1>2. left \in Nat /\ v.projected \in Seq(DetailRow) /\ v.remaining_stock \in [NamedBy(e) -> Nat]
  <2>1. v.projected \in Seq(DetailRow) /\ v.remaining_stock \in [NamedBy(e) -> Nat]
    BY DEF Projections
  <2> HIDE DEF i
  <2> QED  BY <1>1, <2>1
<1>3. ProjectRow(e, v, n)
        = IF q = 0 THEN v
          ELSE [projected |-> Append(v.projected, line),
                remaining_stock |-> [v.remaining_stock EXCEPT ![i] = @ - Allocated(row0, q, left)]]
  BY Zenon DEF ProjectRow, Project
<1>4. /\ line = [ingredient |-> i, required |-> q, on_hand |-> left, pantry_staple |-> row0.pantry_staple,
                 shortfall |-> line.shortfall]
      /\ line.shortfall = IF row0.pantry_staple THEN IF left = 0 THEN q ELSE 0 ELSE Above(q, left)
  <2> DEFINE sum == [required |-> q, optional |-> 0, pantry_staple |-> row0.pantry_staple]
  <2>1. line = [ingredient |-> i, required |-> q, on_hand |-> left, pantry_staple |-> row0.pantry_staple,
                shortfall |-> shortfall_amount(sum, left)]
    BY Zenon DEF DetailLine
  <2>2. total_amount(sum) = q + 0 /\ (sum.pantry_staple <=> row0.pantry_staple)
    BY DEF total_amount
  <2>3. total_amount(sum) = q
    BY <1>1, <2>2
  <2>4. shortfall_amount(sum, left)
          = IF sum.pantry_staple THEN IF left = 0 THEN total_amount(sum) ELSE 0
            ELSE IF total_amount(sum) > left THEN total_amount(sum) - left ELSE 0
    BY Zenon DEF shortfall_amount
  <2> HIDE DEF sum, line, left, q, i, row0
  <2>5. shortfall_amount(sum, left)
          = IF row0.pantry_staple THEN IF left = 0 THEN q ELSE 0 ELSE Above(q, left)
    BY <2>2, <2>3, <2>4 DEF Above
  <2>6. line.shortfall = shortfall_amount(sum, left)
    BY <2>1
  <2> QED  BY <2>1, <2>5, <2>6, Zenon
<1>5. Allocated(row0, q, left) = IF row0.pantry_staple THEN 0 ELSE Least(q, left)
  BY DEF Allocated
<1>6. /\ Allocated(row0, q, left) \in 0..left
      /\ ~row0.pantry_staple => Allocated(row0, q, left) = Least(q, left)
  <2> HIDE DEF row0, q, left, i
  <2> QED  BY <1>1, <1>2, <1>5 DEF Least
<1>7. line.shortfall \in Nat /\ (~row0.pantry_staple => line.shortfall = Above(q, left))
  <2> HIDE DEF row0, q, left, i, line
  <2> QED  BY <1>1, <1>2, <1>4 DEF Above
<1>8. line \in DetailRow /\ line.ingredient = i /\ line.required = q
  <2> HIDE DEF row0, q, left, i, line
  <2> QED  BY <1>1, <1>2, <1>4, <1>7 DEF DetailRow
<1> HIDE DEF row0, q, left, i, line
<1>9. /\ q = 0 => ProjectRow(e, v, n) = v
      /\ q # 0 => /\ ProjectRow(e, v, n).projected = Append(v.projected, line)
                  /\ ProjectRow(e, v, n).remaining_stock
                       = [v.remaining_stock EXCEPT ![i] = @ - Allocated(row0, q, left)]
  BY <1>3
<1>10. ProjectRow(e, v, n) \in Projections(e)
  <2>1. CASE q = 0
    BY <1>9, <2>1
  <2>2. CASE q # 0
    <3>1. Append(v.projected, line) \in Seq(DetailRow)
      BY <1>2, <1>8
    <3>2. [v.remaining_stock EXCEPT ![i] = @ - Allocated(row0, q, left)] \in [NamedBy(e) -> Nat]
      <4>1. v.remaining_stock[i] - Allocated(row0, q, left) \in Nat
        BY <1>2, <1>6 DEF left
      <4> QED  BY <1>2, <4>1
    <3> QED  BY <1>3, <2>2, <3>1, <3>2 DEF Projections
  <2> QED  BY <2>1, <2>2
<1>11. left = v.remaining_stock[i] /\ left = v.remaining_stock[row0.ingredient]
  BY DEF left, i
<1> QED  BY <1>1, <1>2, <1>6, <1>7, <1>8, <1>9, <1>10, Zenon DEF line, left, q, i, row0

\* A line more adds to the sums of its ingredient.
LEMMA ShownMore ==
  ASSUME NEW s \in Seq(DetailRow), NEW x \in DetailRow, NEW i, NEW f, NEW g,
         \A n \in DOMAIN s : f[n] \in Nat /\ g[n] = f[n], g[Len(s) + 1] \in Nat
  PROVE  Total(g, ShownOf(Append(s, x), i))
           = Total(f, ShownOf(s, i)) + (IF x.ingredient = i THEN g[Len(s) + 1] ELSE 0)
<1> DEFINE u == Append(s, x)
           m == Len(s) + 1
           S == ShownOf(s, i)
<1>1. /\ DOMAIN s = 1..Len(s) /\ Len(s) \in Nat /\ DOMAIN u = DOMAIN s \cup {m} /\ m \notin DOMAIN s
      /\ u[m] = x /\ \A n \in DOMAIN s : u[n] = s[n]
  OBVIOUS
<1>2. IsFiniteSet(DOMAIN s)
  <2>1. IsFiniteSet(1..Len(s))
    BY <1>1, FS_Interval
  <2> QED  BY <1>1, <2>1, Zenon
<1>3. S \in SUBSET DOMAIN s
  BY DEF ShownOf
<1> HIDE DEF m, u
<1>4. ShownOf(u, i) = IF x.ingredient = i THEN S \cup {m} ELSE S
  BY <1>1 DEF ShownOf
<1> HIDE DEF S
<1>5. IsFiniteSet(S) /\ m \notin S
  BY <1>1, <1>2, <1>3, FS_Subset
<1>6. Integers(f, S) /\ \A n \in S : g[n] = f[n] /\ f[n] \in Nat
  BY <1>3 DEF Integers
<1>7. Total(g, S) = Total(f, S) /\ Total(f, S) \in Int
  BY <1>5, <1>6, TotalSame, TotalType
<1>8. CASE x.ingredient = i
  <2>1. Integers(g, S \cup {m})
    BY <1>6 DEF Integers, m
  <2>2. Total(g, S \cup {m}) = Total(g, S) + g[m]
    BY <1>5, <2>1, TotalAdd
  <2>3. Total(g, ShownOf(u, i)) = Total(g, S) + g[m]
    BY <1>4, <1>8, <2>2, Zenon
  <2> QED  BY <1>7, <1>8, <2>3 DEF u, m, S
<1>9. CASE x.ingredient # i
  <2>1. Total(g, ShownOf(u, i)) = Total(g, S)
    BY <1>4, <1>9, Zenon
  <2> QED  BY <1>7, <1>9, <2>1 DEF u, S
<1> QED  BY <1>8, <1>9

LEMMA SumsMore ==
  ASSUME NEW s \in Seq(DetailRow), NEW x \in DetailRow, NEW i
  PROVE  /\ NeededIn(Append(s, x), i) = NeededIn(s, i) + (IF x.ingredient = i THEN x.required ELSE 0)
         /\ ShortIn(Append(s, x), i) = ShortIn(s, i) + (IF x.ingredient = i THEN x.shortfall ELSE 0)
<1> DEFINE u == Append(s, x)
           f == [n \in DOMAIN s |-> s[n].required]
           g == [n \in DOMAIN u |-> u[n].required]
           h == [n \in DOMAIN s |-> s[n].shortfall]
           k == [n \in DOMAIN u |-> u[n].shortfall]
<1>1. /\ DOMAIN u = DOMAIN s \cup {Len(s) + 1} /\ u[Len(s) + 1] = x
      /\ \A n \in DOMAIN s : u[n] = s[n] /\ s[n] \in DetailRow
  OBVIOUS
<1>2. x.required \in Nat /\ x.shortfall \in Nat /\ \A r \in DetailRow : r.required \in Nat /\ r.shortfall \in Nat
  BY DEF DetailRow
<1>3. /\ \A n \in DOMAIN s : f[n] \in Nat /\ g[n] = f[n] /\ h[n] \in Nat /\ k[n] = h[n]
      /\ g[Len(s) + 1] = x.required /\ k[Len(s) + 1] = x.shortfall
  <2> HIDE DEF u
  <2> QED  BY <1>1, <1>2
<1>4. /\ NeededIn(u, i) = Total(g, ShownOf(u, i)) /\ NeededIn(s, i) = Total(f, ShownOf(s, i))
      /\ ShortIn(u, i) = Total(k, ShownOf(u, i)) /\ ShortIn(s, i) = Total(h, ShownOf(s, i))
  BY Zenon DEF NeededIn, ShortIn
<1>5. u = Append(s, x)
  OBVIOUS
<1> HIDE DEF f, g, h, k, u
<1>6. Total(g, ShownOf(Append(s, x), i))
        = Total(f, ShownOf(s, i)) + (IF x.ingredient = i THEN g[Len(s) + 1] ELSE 0)
  BY <1>2, <1>3, ShownMore
<1>7. Total(k, ShownOf(Append(s, x), i))
        = Total(h, ShownOf(s, i)) + (IF x.ingredient = i THEN k[Len(s) + 1] ELSE 0)
  BY <1>2, <1>3, ShownMore
<1> QED  BY <1>3, <1>4, <1>5, <1>6, <1>7, Zenon

LEMMA RowsMore ==
  ASSUME NEW e, Planning(e), NEW i, NEW k \in Nat, k + 1 \in DOMAIN e.recipe
  PROVE  Total(RowAmounts(e), RowsUpTo(e, i, k + 1))
           = Total(RowAmounts(e), RowsUpTo(e, i, k))
             + (IF e.recipe[k + 1].ingredient = i THEN RowAmount(e, k + 1) ELSE 0)
<1> DEFINE f == RowAmounts(e)
           S == RowsUpTo(e, i, k)
           m == k + 1
<1>1. IsFiniteSet(RowsOf(e, i)) /\ Naturals(f, RowsOf(e, i)) /\ DOMAIN e.recipe \in SUBSET Nat
      /\ f[m] = RowAmount(e, m) /\ RowAmount(e, m) \in Nat
  BY RowTotalType, RowTypes
<1>2. S \in SUBSET RowsOf(e, i) /\ m \notin S
  BY DEF RowsUpTo
<1>3. RowsUpTo(e, i, m) = IF e.recipe[m].ingredient = i THEN S \cup {m} ELSE S
  <2>1. \A n \in RowsOf(e, i) : n \in Nat
    BY <1>1 DEF RowsOf
  <2>2. m \in RowsOf(e, i) <=> e.recipe[m].ingredient = i
    BY DEF RowsOf
  <2>3. \A n \in Nat : n <= m <=> n <= k \/ n = m
    OBVIOUS
  <2>4. m <= m
    OBVIOUS
  <2> HIDE DEF m
  <2>5. \A n : n \in RowsUpTo(e, i, m) <=> n \in RowsOf(e, i) /\ (n <= k \/ n = m)
    BY <2>1, <2>3 DEF RowsUpTo
  <2> QED  BY <2>2, <2>5 DEF RowsUpTo
<1> HIDE DEF S, m, f
<1>4. IsFiniteSet(S) /\ Integers(f, S) /\ Integers(f, S \cup {m}) /\ Total(f, S) \in Int
  <2>1. IsFiniteSet(S) /\ Integers(f, S) /\ Integers(f, S \cup {m})
    BY <1>1, <1>2, FS_Subset DEF Integers, Naturals
  <2> QED  BY <2>1, TotalType
<1>5. Total(f, S \cup {m}) = Total(f, S) + f[m]
  BY <1>2, <1>4, TotalAdd
<1>6. CASE e.recipe[m].ingredient = i
  <2>1. Total(f, RowsUpTo(e, i, m)) = Total(f, S) + f[m]
    BY <1>3, <1>5, <1>6, Zenon
  <2> QED  BY <1>1, <1>6, <2>1 DEF f, m, S
<1>7. CASE e.recipe[m].ingredient # i
  <2>1. Total(f, RowsUpTo(e, i, m)) = Total(f, S)
    BY <1>3, <1>7, Zenon
  <2> QED  BY <1>4, <1>7, <2>1 DEF f, m, S
<1> QED  BY <1>6, <1>7

LEMMA DetailOneMore ==
  ASSUME Stored(pantry), NEW day \in Int, NEW e, Planning(e), NEW k \in Nat, k + 1 \in DOMAIN e.recipe,
         NEW v, DetailSoFar(e, v, k, day)
  PROVE  DetailSoFar(e, ProjectRow(e, v, k + 1), k + 1, day)
<1> DEFINE n == k + 1
           j == e.recipe[n].ingredient
           q == RowAmount(e, n)
           left == v.remaining_stock[j]
           line == DetailLine(e.recipe[n], q, left)
           w == ProjectRow(e, v, n)
           taken == Allocated(e.recipe[n], q, left)
<1>1. v \in Projections(e) /\ v.projected \in Seq(DetailRow) /\ v.remaining_stock \in [NamedBy(e) -> Nat]
  BY DEF DetailSoFar, Projections
<1>2. q \in Nat /\ left \in Nat /\ j \in NamedBy(e) /\ (q = 0 => w = v)
  BY <1>1, ProjectedRow, Zenon
<1>3. /\ line \in DetailRow /\ line.ingredient = j /\ line.required = q
      /\ q # 0 => /\ w.projected = Append(v.projected, line)
                  /\ w.remaining_stock = [v.remaining_stock EXCEPT ![j] = @ - taken]
      /\ w \in Projections(e)
      /\ ~e.recipe[n].pantry_staple => taken = Least(q, left) /\ line.shortfall = Above(q, left)
  <2>1. line \in DetailRow /\ line.ingredient = j /\ line.required = q
    <3>1. line \in DetailRow
      BY <1>1, ProjectedRow, Zenon
    <3>2. line.ingredient = j
      BY <1>1, ProjectedRow, Zenon
    <3>3. line.required = q
      BY <1>1, ProjectedRow, Zenon
    <3> QED  BY <3>1, <3>2, <3>3
  <2>2. q # 0 => w.projected = Append(v.projected, line)
    BY <1>1, ProjectedRow, Zenon
  <2>3. q # 0 => w.remaining_stock = [v.remaining_stock EXCEPT ![j] = @ - taken]
    BY <1>1, ProjectedRow, Zenon
  <2>4. w \in Projections(e)
    BY <1>1, ProjectedRow, Zenon
  <2>5. ~e.recipe[n].pantry_staple => taken = Least(q, left) /\ line.shortfall = Above(q, left)
    <3>1. ~e.recipe[n].pantry_staple => taken = Least(q, left)
      BY <1>1, ProjectedRow, Zenon
    <3>2. ~e.recipe[n].pantry_staple => line.shortfall = Above(q, left)
      BY <1>1, ProjectedRow, Zenon
    <3> QED  BY <3>1, <3>2
  <2> QED  BY <2>1, <2>2, <2>3, <2>4, <2>5, Zenon
<1>4. e.recipe[n].pantry_staple <=> j \in PantryStaple
  <2>1. n \in DOMAIN e.recipe
    OBVIOUS
  <2> QED  BY <2>1, RowTypes, Zenon
<1> HIDE DEF n, j, q, left, line, w, taken
<1>5. ASSUME NEW i \in Product \ PantryStaple
      PROVE  /\ NeededIn(w.projected, i) = Total(RowAmounts(e), RowsUpTo(e, i, n))
             /\ NeededIn(w.projected, i) \in Nat
             /\ ShortIn(w.projected, i) = Above(NeededIn(w.projected, i), OnHand(pantry, i, day))
             /\ i \in NamedBy(e) =>
                  w.remaining_stock[i] = Above(OnHand(pantry, i, day), NeededIn(w.projected, i))
  <2> DEFINE H == OnHand(pantry, i, day)
             N == NeededIn(v.projected, i)
             M == ShortIn(v.projected, i)
             more == IF j = i THEN q ELSE 0
  <2>1. /\ N = Total(RowAmounts(e), RowsUpTo(e, i, k)) /\ N \in Nat /\ M = Above(N, H)
        /\ i \in NamedBy(e) => v.remaining_stock[i] = Above(H, N)
    BY DEF DetailSoFar
  <2>2. H \in Nat
    BY ShelfOf
  <2>3. Total(RowAmounts(e), RowsUpTo(e, i, n)) = N + more
    BY <2>1, RowsMore DEF n, j, q
  <2> HIDE DEF H, N, M
  <2>4. CASE q = 0
    <3>1. N + more = N
      BY <2>1, <2>4
    <3>2. w = v
      BY <1>2, <2>4
    <3> HIDE DEF more
    <3>3. Total(RowAmounts(e), RowsUpTo(e, i, n)) = N
      BY <2>3, <3>1, Zenon
    <3> QED  BY <2>1, <3>2, <3>3, Zenon DEF H, N, M
  <2>5. CASE q # 0 /\ j # i
    <3>1. w.projected = Append(v.projected, line) /\ line.ingredient # i
      BY <1>3, <2>5
    <3>2. NeededIn(w.projected, i) = N + 0 /\ ShortIn(w.projected, i) = M + 0
      BY <1>1, <1>3, <3>1, SumsMore DEF N, M
    <3>3. M \in Int
      BY <2>1, <2>2 DEF Above
    <3>4. NeededIn(w.projected, i) = N /\ ShortIn(w.projected, i) = M
      BY <2>1, <3>2, <3>3
    <3>5. i \in NamedBy(e) => w.remaining_stock[i] = v.remaining_stock[i]
      BY <1>1, <1>3, <2>5
    <3>6. Total(RowAmounts(e), RowsUpTo(e, i, n)) = N
      BY <2>1, <2>3, <2>5
    <3> QED  BY <2>1, <3>4, <3>5, <3>6, Zenon DEF H
  <2>6. CASE q # 0 /\ j = i
    <3>1. w.projected = Append(v.projected, line) /\ line.ingredient = i
      BY <1>3, <2>6
    <3>2. NeededIn(w.projected, i) = N + q /\ ShortIn(w.projected, i) = M + line.shortfall
      BY <1>1, <1>3, <3>1, SumsMore DEF N, M
    <3>3. taken = Least(q, left) /\ line.shortfall = Above(q, left)
      BY <1>3, <1>4, <2>6
    <3>4. left = Above(H, N)
      BY <1>2, <2>1, <2>6 DEF left
    <3>5. w.remaining_stock[i] = left - taken
      BY <1>1, <1>2, <1>3, <2>6 DEF left
    <3>6. Total(RowAmounts(e), RowsUpTo(e, i, n)) = N + q
      BY <2>3, <2>6
    <3>7. M + line.shortfall = Above(N + q, H) /\ left - taken = Above(H, N + q)
      BY <1>2, <2>1, <2>2, <3>3, <3>4 DEF Above, Least
    <3>8. N + q \in Nat
      BY <1>2, <2>1
    <3> QED  BY <3>2, <3>5, <3>6, <3>7, <3>8, Zenon DEF H
  <2> QED  BY <2>4, <2>5, <2>6
<1>6. DetailSoFar(e, w, n, day)
  BY <1>3, <1>5 DEF DetailSoFar
<1> QED  BY <1>6 DEF w, n

DetailRec(e, base, f) ==
  f = [T \in SUBSET DOMAIN e.recipe |-> IF T = {} THEN base
                                        ELSE ProjectRow(e, f[T \ {Max(T)}], Max(T))]
Detailed(e, base) ==
  FoldLeft(LAMBDA projection, r :
             Project(projection, r, scaled_amount(r.amount, e.servings, e.base_servings)),
           base, e.recipe)
LEMMA DetailChosen ==
  ASSUME NEW e, NEW base, NEW g, DetailRec(e, base, g)
  PROVE  \E f : DetailRec(e, base, f) /\ Detailed(e, base) = f[DOMAIN e.recipe]
BY DEF Detailed, FoldLeft, MapThenFoldSet, DetailRec, ProjectRow, RowAmount

LEMMA DetailExists ==
  ASSUME NEW e, Planning(e), NEW base \in Projections(e)
  PROVE  \E f : DetailRec(e, base, f)
<1> DEFINE S == DOMAIN e.recipe
           V == Projections(e)
           pick == [T \in SUBSET S |-> Max(T)]
           g == [p \in S \X V |-> ProjectRow(e, p[2], p[1])]
<1>1. IsFiniteSet(S) /\ S \in SUBSET Nat
  BY RowTypes
<1>2. \A T \in SUBSET S : T # {} => Max(T) \in T
  BY <1>1, MaxOfNumbers, FS_Subset
<1>3. \A T \in SUBSET S : pick[T] = Max(T) /\ (T # {} => pick[T] \in T)
  BY <1>2
<1>4. \A x \in S, v \in V : g[<<x, v>>] = ProjectRow(e, v, x) /\ g[<<x, v>>] \in V
  <2> SUFFICES ASSUME NEW x \in S, NEW v \in V
               PROVE  g[<<x, v>>] = ProjectRow(e, v, x) /\ g[<<x, v>>] \in V
    OBVIOUS
  <2>1. ProjectRow(e, v, x) \in V
    BY ProjectedRow, Zenon
  <2> HIDE DEF V, S
  <2>2. g[<<x, v>>] = ProjectRow(e, v, x)
    OBVIOUS
  <2> QED  BY <2>1, <2>2
<1>5. Recursive(S, V, base, pick, g)
  <2>1. base \in V
    OBVIOUS
  <2> HIDE DEF S, V, pick, g
  <2> QED  BY <1>1, <1>3, <1>4, <2>1 DEF Recursive
<1> HIDE DEF pick, g, V
<1>6. PICK f : RecursivelyDefined(f, S, V, base, pick, g)
  <2> HIDE DEF S
  <2> QED  BY <1>5, Recursion
<1>7. f \in [SUBSET S -> V]
  BY <1>6 DEF RecursivelyDefined
<1>8. ASSUME NEW T \in SUBSET S
      PROVE  f[T] = IF T = {} THEN base ELSE ProjectRow(e, f[T \ {Max(T)}], Max(T))
  <2>1. f[T] = IF T = {} THEN base ELSE g[<<pick[T], f[T \ {pick[T]}]>>]
    BY <1>6 DEF RecursivelyDefined
  <2>2. CASE T = {}
    BY <2>1, <2>2
  <2>3. CASE T # {}
    <3>1. Max(T) \in S /\ f[T \ {Max(T)}] \in V /\ pick[T] = Max(T)
      BY <1>2, <1>3, <1>7, <2>3
    <3> QED  BY <1>4, <2>1, <2>3, <3>1
  <2> QED  BY <2>2, <2>3
<1> QED  BY <1>7, <1>8 DEF DetailRec

LEMMA DetailFolds ==
  ASSUME Stored(pantry), NEW day \in Int, NEW e, Planning(e), NEW base, DetailSoFar(e, base, 0, day)
  PROVE  DetailSoFar(e, Detailed(e, base), Len(e.recipe), day)
<1> DEFINE n == Len(e.recipe)
<1>1. n \in Nat /\ DOMAIN e.recipe = 1..n
  BY RowTypes
<1>2. PICK g : DetailRec(e, base, g)
  BY DetailExists DEF DetailSoFar
<1>3. PICK f : DetailRec(e, base, f) /\ Detailed(e, base) = f[DOMAIN e.recipe]
  BY <1>2, DetailChosen
<1> HIDE DEF n
<1> DEFINE F == {k \in Nat : k <= n => DetailSoFar(e, f[1..k], k, day)}
<1>4. 0 \in F
  <2>1. 1..0 = {} /\ f[{}] = base
    BY <1>3 DEF DetailRec
  <2>2. f[1..0] = base
    BY <2>1, Zenon
  <2>3. DetailSoFar(e, f[1..0], 0, day)
    BY <2>2, Zenon
  <2> QED  BY <2>3
<1>5. ASSUME NEW k \in Nat, k \in F PROVE k + 1 \in F
  <2> SUFFICES ASSUME k + 1 <= n PROVE DetailSoFar(e, f[1..(k + 1)], k + 1, day)
    OBVIOUS
  <2> DEFINE T == 1..(k + 1)
  <2>1. DetailSoFar(e, f[1..k], k, day) /\ k + 1 \in DOMAIN e.recipe
    BY <1>1, <1>5
  <2>2. T \in SUBSET DOMAIN e.recipe /\ T # {} /\ T \in SUBSET Nat /\ IsFiniteSet(T)
    <3>1. IsFiniteSet(T)
      BY FS_Interval
    <3>2. 1 \in T /\ \A x \in T : x \in Nat /\ x \in 1..n
      BY <1>1
    <3> HIDE DEF T
    <3> QED  BY <1>1, <3>1, <3>2
  <2>3. Max(T) = k + 1
    <3>1. Max(T) \in T /\ \A x \in T : Max(T) >= x
      <4> HIDE DEF T
      <4> QED  BY <2>2, MaxOfNumbers
    <3>2. k + 1 \in T
      OBVIOUS
    <3>3. Max(T) >= k + 1
      <4> HIDE DEF T
      <4> QED  BY <3>1, <3>2
    <3>4. Max(T) \in 1..(k + 1)
      BY <3>1
    <3> QED  BY <3>3, <3>4
  <2>4. T \ {k + 1} = 1..k
    OBVIOUS
  <2>5. f[T] = ProjectRow(e, f[T \ {Max(T)}], Max(T))
    <3> HIDE DEF T
    <3> QED  BY <1>3, <2>2 DEF DetailRec
  <2> HIDE DEF T
  <2>6. f[T] = ProjectRow(e, f[1..k], k + 1)
    BY <2>3, <2>4, <2>5, Zenon
  <2>7. DetailSoFar(e, ProjectRow(e, f[1..k], k + 1), k + 1, day)
    BY <2>1, DetailOneMore
  <2> QED  BY <2>6, <2>7, Zenon DEF T
<1>6. n \in F
  <2> HIDE DEF F
  <2> QED  BY <1>1, <1>4, <1>5, NaturalsReached
<1>7. DetailSoFar(e, f[1..n], n, day)
  BY <1>1, <1>6
<1>8. f[DOMAIN e.recipe] = f[1..n]
  BY <1>1, Zenon
<1> QED  BY <1>3, <1>7, <1>8, Zenon DEF n

\* Before the first row: nothing is shown, and all of the stock remains.
LEMMA NothingProjected ==
  ASSUME Stored(pantry), NEW day \in Int, NEW e, Planning(e)
  PROVE  DetailSoFar(e, [projected |-> <<>>,
                         remaining_stock |-> [i \in NamedBy(e) |-> OnHand(pantry, i, day)]], 0, day)
<1> DEFINE whole == [i \in NamedBy(e) |-> OnHand(pantry, i, day)]
           v == [projected |-> <<>>, remaining_stock |-> whole]
<1>1. \A i : OnHand(pantry, i, day) \in Nat
  BY ShelfOf
<1>2. whole \in [NamedBy(e) -> Nat] /\ \A i \in NamedBy(e) : whole[i] = OnHand(pantry, i, day)
  BY <1>1
<1> HIDE DEF whole
<1>3. v \in Projections(e) /\ v.projected = <<>> /\ v.remaining_stock = whole
  BY <1>2 DEF Projections
<1> HIDE DEF v
<1>4. ASSUME NEW i \in Product \ PantryStaple
      PROVE  /\ NeededIn(v.projected, i) = 0 /\ ShortIn(v.projected, i) = 0
             /\ Total(RowAmounts(e), RowsUpTo(e, i, 0)) = 0
  <2>1. ShownOf(v.projected, i) = {}
    <3>1. DOMAIN v.projected = {}
      BY <1>3
    <3> QED  BY <3>1 DEF ShownOf
  <2>2. RowsUpTo(e, i, 0) = {}
    <3>1. \A n \in RowsOf(e, i) : n \in 1..Len(e.recipe) /\ Len(e.recipe) \in Nat
      BY RowTypes DEF RowsOf
    <3>2. \A n \in RowsOf(e, i) : ~(n <= 0)
      BY <3>1
    <3> QED  BY <3>2 DEF RowsUpTo
  <2>3. NeededIn(v.projected, i) = 0 /\ ShortIn(v.projected, i) = 0
    BY <2>1, TotalEmpty, Zenon DEF NeededIn, ShortIn
  <2> QED  BY <2>2, <2>3, TotalEmpty, Zenon
<1>5. ASSUME NEW i \in Product \ PantryStaple
      PROVE  /\ NeededIn(v.projected, i) = Total(RowAmounts(e), RowsUpTo(e, i, 0))
             /\ NeededIn(v.projected, i) \in Nat
             /\ ShortIn(v.projected, i) = Above(NeededIn(v.projected, i), OnHand(pantry, i, day))
             /\ i \in NamedBy(e) =>
                  v.remaining_stock[i] = Above(OnHand(pantry, i, day), NeededIn(v.projected, i))
  <2>1. OnHand(pantry, i, day) \in Nat
    BY <1>1
  <2>2. Above(0, OnHand(pantry, i, day)) = 0 /\ Above(OnHand(pantry, i, day), 0) = OnHand(pantry, i, day)
    BY <2>1 DEF Above
  <2>3. i \in NamedBy(e) => v.remaining_stock[i] = OnHand(pantry, i, day)
    BY <1>2, <1>3
  <2> QED  BY <1>4, <2>2, <2>3
<1>6. DetailSoFar(e, v, 0, day)
  BY <1>3, <1>5 DEF DetailSoFar
<1> QED  BY <1>6 DEF v, whole

(***************************************************************************)
(* What the detail of a meal tells (spec 017, FR-018 and FR-019): no       *)
(* shortfall of anything but staples, exactly when complete_entry finds    *)
(* the stock for it, although calculate_entry_detail_ingredients goes by   *)
(* rows and their order and fefo_allocate by lots; and the shortfalls of   *)
(* the rows that name one ingredient add up to what is missing of it.      *)
(***************************************************************************)
THEOREM DetailIsRight == KitchenSpec => []DetailTellsWhatIsMissing
<1>1. KitchenInv => DetailTellsWhatIsMissing
  <2> SUFFICES ASSUME KitchenInv, NEW e \in entries PROVE
        LET answer == calculate_entry_detail_ingredients(e, pantry, e.planned_date)
            shown == answer.value
            OfIngredient(i) == {n \in DOMAIN shown : shown[n].ingredient = i}
            Needed(i) == SumFunctionOnSet([n \in DOMAIN shown |-> shown[n].required], OfIngredient(i))
            Short(i) == SumFunctionOnSet([n \in DOMAIN shown |-> shown[n].shortfall], OfIngredient(i))
            Fresh(i) == QuantityOf({lot \in Shelf(i) :
                                     lot.expires = NoDate \/ lot.expires >= e.planned_date})
        IN answer.ok =>
             /\ Completable(e) =>
                  (Cookable(e, e.planned_date) <=> \A i \in Product \ PantryStaple : Short(i) = 0)
             /\ \A i \in Product \ PantryStaple :
                  Short(i) = IF Needed(i) > Fresh(i) THEN Needed(i) - Fresh(i) ELSE 0
    BY Zenon DEF DetailTellsWhatIsMissing
  <2> DEFINE day == e.planned_date
             answer == calculate_entry_detail_ingredients(e, pantry, day)
             shown == answer.value
             base == [projected |-> <<>>,
                      remaining_stock |-> [i \in NamedBy(e) |-> OnHand(pantry, i, day)]]
             Fresh(i) == QuantityOf({lot \in Shelf(i) : lot.expires = NoDate \/ lot.expires >= day})
  <2>1. Planning(e) /\ Stored(pantry) /\ day \in Int
    <3>1. Planning(e) /\ Stored(pantry)
      BY DEF KitchenInv, KitchenTypes, PlannedEntries
    <3> QED  BY <3>1, RowTypes
  <2>2. answer.ok => shown = Detailed(e, base).projected
    <3>1. reference_date(day, day) = day
      BY DEF reference_date
    <3>2. answer = Result(Detailed(e, base).projected) \/ answer = Refused
      BY <3>1, Zenon DEF calculate_entry_detail_ingredients, Detailed, NamedBy
    <3> QED  BY <3>2 DEF Result, Refused
  <2>3. DetailSoFar(e, Detailed(e, base), Len(e.recipe), day)
    BY <2>1, NothingProjected, DetailFolds
  <2>4. ASSUME answer.ok, NEW i \in Product \ PantryStaple
        PROVE  /\ NeededIn(shown, i) = RowTotal(e, i) /\ RowTotal(e, i) \in Nat
               /\ ShortIn(shown, i) = Above(RowTotal(e, i), OnHand(pantry, i, day))
               /\ OnHand(pantry, i, day) \in Nat /\ Fresh(i) = OnHand(pantry, i, day)
    <3> DEFINE v == Detailed(e, base)
    <3>1. /\ NeededIn(v.projected, i) = Total(RowAmounts(e), RowsUpTo(e, i, Len(e.recipe)))
          /\ ShortIn(v.projected, i) = Above(NeededIn(v.projected, i), OnHand(pantry, i, day))
      BY <2>3, Zenon DEF DetailSoFar
    <3>2. RowsUpTo(e, i, Len(e.recipe)) = RowsOf(e, i)
      <4>1. \A n \in RowsOf(e, i) : n \in 1..Len(e.recipe) /\ Len(e.recipe) \in Nat
        BY <2>1, RowTypes DEF RowsOf
      <4>2. \A n \in RowsOf(e, i) : n <= Len(e.recipe)
        BY <4>1
      <4> QED  BY <4>2 DEF RowsUpTo
    <3>3. Total(RowAmounts(e), RowsUpTo(e, i, Len(e.recipe))) = RowTotal(e, i)
      BY <3>2, Zenon DEF RowTotal
    <3>4. RowTotal(e, i) \in Nat /\ OnHand(pantry, i, day) \in Nat
      BY <2>1, RowTotalType, ShelfOf
    <3>5. Fresh(i) = OnHand(pantry, i, day)
      <4> DEFINE W == {lot \in Shelf(i) : lot.expires = NoDate \/ lot.expires >= day}
                 U == UsableOf(Shelf(i), day)
                 f == [lot \in W |-> lot.quantity]
                 g == [lot \in U |-> lot.quantity]
      <4>1. IsFiniteSet(Shelf(i)) /\ \A lot \in Shelf(i) : lot.quantity \in Nat
        <5>1. IsFiniteSet(Shelf(i)) /\ Shelf(i) \in SUBSET pantry
          BY <2>1, FS_Subset DEF Shelf, Stored
        <5>2. \A lot \in pantry : lot.quantity \in Nat
          BY <2>1 DEF Stored, StoredLot
        <5> QED  BY <5>1, <5>2
      <4>2. OnHand(pantry, i, day) = Total(g, U)
        BY <2>1, ShelfOf DEF Shelf, QuantityOf, Total
      <4>3. Fresh(i) = Total(f, W)
        BY DEF QuantityOf, Total
      <4>4. /\ W \in SUBSET Shelf(i) /\ U \in SUBSET W
            /\ \A lot \in W \ U : ~(lot.quantity > 0)
            /\ \A lot \in W : f[lot] = lot.quantity
            /\ \A lot \in U : g[lot] = lot.quantity
        BY DEF UsableOf, Usable
      <4> HIDE DEF W, U, f, g
      <4>5. IsFiniteSet(W) /\ IsFiniteSet(U) /\ Naturals(f, W) /\ Integers(f, U)
        BY <4>1, <4>4, FS_Subset DEF Naturals, Integers
      <4>6. \A lot \in W \ U : f[lot] = 0
        BY <4>1, <4>4
      <4>7. Total(f, U) = Total(f, W)
        BY <4>4, <4>5, <4>6, TotalPart
      <4>8. Total(g, U) = Total(f, U)
        <5>1. \A lot \in U : g[lot] = f[lot]
          BY <4>4
        <5> QED  BY <4>5, <5>1, TotalSame
      <4> QED  BY <4>2, <4>3, <4>7, <4>8
    <3>6. shown = v.projected
      BY <2>2, <2>4
    <3> HIDE DEF shown, v, Fresh
    <3> QED  BY <3>1, <3>3, <3>4, <3>5, <3>6
  <2>5. ASSUME answer.ok, Completable(e)
        PROVE  Cookable(e, day) <=> \A i \in Product \ PantryStaple : ShortIn(shown, i) = 0
    <3> HIDE DEF answer, shown, Fresh, day
    <3>1. \A i \in Product \ PantryStaple : ShortIn(shown, i) = 0 <=> RowTotal(e, i) <= OnHand(pantry, i, day)
      BY <2>4, <2>5 DEF Above
    <3>2. ASSUME Cookable(e, day), NEW i \in Product \ PantryStaple
          PROVE  RowTotal(e, i) <= OnHand(pantry, i, day)
      <4> DEFINE lots == Without(Takes(e, day))
      <4>1. Stored(lots) /\ OnHand(lots, i, day) = OnHand(pantry, i, day) - RowTotal(e, i)
        BY <2>1, <3>2, WhatIsLeft
      <4> HIDE DEF lots
      <4>2. OnHand(lots, i, day) \in Nat
        BY <2>1, <4>1, ShelfOf
      <4>3. OnHand(pantry, i, day) \in Nat /\ RowTotal(e, i) \in Nat
        BY <2>1, ShelfOf, RowTotalType
      <4> QED  BY <4>1, <4>2, <4>3
    <3>3. (\A i \in Product \ PantryStaple : RowTotal(e, i) <= OnHand(pantry, i, day)) => Cookable(e, day)
      BY <2>1, <2>5, EnoughIsCookable
    <3> QED  BY <3>1, <3>2, <3>3, Zenon
  <2>6. ASSUME answer.ok, NEW i \in Product \ PantryStaple
        PROVE  ShortIn(shown, i) = IF NeededIn(shown, i) > Fresh(i) THEN NeededIn(shown, i) - Fresh(i) ELSE 0
    <3> HIDE DEF answer, shown, Fresh, day
    <3> QED  BY <2>4, <2>6 DEF Above
  <2>7. \A i : /\ ShortIn(shown, i) = SumFunctionOnSet([n \in DOMAIN shown |-> shown[n].shortfall],
                                                     {n \in DOMAIN shown : shown[n].ingredient = i})
               /\ NeededIn(shown, i) = SumFunctionOnSet([n \in DOMAIN shown |-> shown[n].required],
                                                      {n \in DOMAIN shown : shown[n].ingredient = i})
    <3> HIDE DEF answer, shown
    <3> QED  BY Zenon DEF ShortIn, NeededIn, Total, ShownOf
  <2> QED  BY <2>5, <2>6, <2>7, Zenon
<1> QED  BY <1>1, KitchenInvariant, PTL
=============================================================================
