-------------------------- MODULE CoinsFlushProofs --------------------------
(***************************************************************************)
(* Proofs about CoinsFlush, for every block tree and every set of outputs: *)
(* the interrupted flush can be replayed, the entries of the cache are     *)
(* valid, and the database and the cache hold the unspent outputs of the   *)
(* tips they name.                                                         *)
(***************************************************************************)
EXTENDS CoinsFlush, WellFoundedInduction, TLAPS

-----------------------------------------------------------------------------
(* Induction, over sets.                                                   *)

(* A non-empty set of naturals has a least element.                        *)
LEMMA LeastExists ==
  ASSUME NEW S \in SUBSET Nat, S # {}
  PROVE  \E x \in S : \A y \in S : x <= y
<1> DEFINE R == {ss \in Nat \X Nat : ss[1] < ss[2]}
<1>1. IsWellFoundedOn(R, Nat)
  BY Zenon, NatLessThanWellFounded DEF OpToRel
<1>2. PICK x \in S : \A y \in S : ~(<<y, x>> \in R)
  <2> HIDE DEF R
  <2> QED BY <1>1, WFMin, Zenon
<1>3. \A y \in S : x <= y
  <2> TAKE y \in S
  <2>1. ~(y < x)
    BY Zenon, <1>2
  <2> QED BY <2>1
<1> QED
  BY Zenon, <1>3

(* A set with 0 and with the successor of each of its members has every    *)
(* natural number.                                                         *)
LEMMA SetInduction ==
  ASSUME NEW S, 0 \in S, \A i \in Nat : i \in S => i + 1 \in S
  PROVE  \A i \in Nat : i \in S
<1> DEFINE T == {i \in Nat : i \notin S}
<1> SUFFICES ASSUME T # {} PROVE FALSE
  BY Zenon
<1>1. PICK x \in T : \A y \in T : x <= y
  <2> T \in SUBSET Nat
    BY Zenon
  <2> QED BY Zenon, LeastExists
<1>2. x \in Nat /\ x # 0 /\ x \notin S
  BY Zenon
<1>3. x - 1 \in Nat /\ x - 1 < x /\ (x - 1) + 1 = x
  BY <1>2
<1>4. x - 1 \notin T
  BY <1>1, <1>3
<1> QED
  BY Zenon, <1>2, <1>3, <1>4

(* The values a loop goes through.                                         *)
Trace(f, E, step, e, n) ==
  /\ f \in [0 .. n -> E]
  /\ f[0] = e /\ \A i \in 1 .. n : f[i] = step[i][f[i - 1]]

(* What a loop computes: the last of the values it goes through.           *)
LEMMA LoopRuns ==
  ASSUME NEW E, NEW n \in Nat, NEW e \in E, NEW step \in [1 .. n -> [E -> E]]
  PROVE  \E f : Trace(f, E, step, e, n) /\ Loop(step, e, n) = f[n]
<1> DEFINE Runs(k, f) == f[0] = e /\ \A i \in 1 .. k : f[i] = step[i][f[i - 1]]
           S == {k \in Nat : k <= n => \E f \in [0 .. k -> E] : Runs(k, f)}
<1>1. 0 \in S
  <2> DEFINE f == [i \in 0 .. 0 |-> e]
  <2>1. f \in [0 .. 0 -> E] /\ Runs(0, f)
    OBVIOUS
  <2> QED BY Zenon, <2>1
<1>2. ASSUME NEW k \in Nat, k \in S PROVE k + 1 \in S
  <2> SUFFICES ASSUME k + 1 <= n
               PROVE  \E g \in [0 .. (k + 1) -> E] : Runs(k + 1, g)
    OBVIOUS
  <2>1. PICK f \in [0 .. k -> E] : Runs(k, f)
    BY <1>2
  <2> DEFINE g == [i \in 0 .. (k + 1) |-> IF i <= k THEN f[i] ELSE step[k + 1][f[k]]]
  <2>2. step[k + 1][f[k]] \in E
    OBVIOUS
  <2>3. g \in [0 .. (k + 1) -> E]
    BY <2>2
  <2>4. Runs(k + 1, g)
    BY <2>1
  <2> QED BY Zenon, <2>3, <2>4
<1>3. n \in S
  <2> HIDE DEF S
  <2> QED BY Zenon, <1>1, <1>2, SetInduction
<1>4. PICK f \in [0 .. n -> E] : Runs(n, f)
  BY <1>3
<1> DEFINE A == CHOOSE g : g = [i \in 0 .. n |-> IF i = 0 THEN e ELSE step[i][g[i - 1]]]
<1>5. f = [i \in 0 .. n |-> IF i = 0 THEN e ELSE step[i][f[i - 1]]]
  BY <1>4
<1>6. A = [i \in 0 .. n |-> IF i = 0 THEN e ELSE step[i][A[i - 1]]]
  <2> HIDE DEF A
  <2> QED BY Zenon, <1>5 DEF A
<1>7. Loop(step, e, n) = A[n]
  BY Zenon DEF Loop
<1> HIDE DEF A
<1>8. \A i \in 1 .. n : A[i] = step[i][A[i - 1]]
  BY <1>6
<1>9. A[0] = e
  BY <1>6
<1> DEFINE V == {i \in Nat : i <= n => A[i] \in E}
<1>10. \A i \in 0 .. n : A[i] \in E
  <2>1. 0 \in V
    BY Zenon, <1>9
  <2>2. ASSUME NEW i \in Nat, i \in V PROVE i + 1 \in V
    <3> SUFFICES ASSUME i + 1 <= n PROVE A[i + 1] \in E
      OBVIOUS
    <3>1. A[i] \in E /\ i + 1 \in 1 .. n /\ (i + 1) - 1 = i
      BY <2>2
    <3> QED BY <3>1, <1>8
  <2>3. \A i \in Nat : i \in V
    <3> HIDE DEF V
    <3> QED BY Zenon, <2>1, <2>2, SetInduction
  <2> QED BY <2>3
<1>11. A \in [0 .. n -> E]
  BY Zenon, <1>6, <1>10
<1>12. Trace(A, E, step, e, n)
  BY Zenon, <1>8, <1>9, <1>11 DEF Trace
<1> QED
  BY Zenon, <1>7, <1>12

(* The rule for loops: P[i] is what holds after i turns.                   *)
LEMMA LoopRule ==
  ASSUME NEW E, NEW n \in Nat, NEW e \in E, NEW step \in [1 .. n -> [E -> E]],
         NEW P \in [0 .. n -> SUBSET E], e \in P[0],
         \A i \in 1 .. n : \A x \in P[i - 1] : step[i][x] \in P[i]
  PROVE  Loop(step, e, n) \in P[n]
<1>1. PICK f : Trace(f, E, step, e, n) /\ Loop(step, e, n) = f[n]
  BY LoopRuns, Zenon
<1> DEFINE S == {i \in Nat : i <= n => f[i] \in P[i]}
<1>2. 0 \in S
  BY Zenon, <1>1 DEF Trace
<1>3. ASSUME NEW i \in Nat, i \in S PROVE i + 1 \in S
  <2> SUFFICES ASSUME i + 1 <= n PROVE f[i + 1] \in P[i + 1]
    OBVIOUS
  <2>1. f[i] \in P[i] /\ i + 1 \in 1 .. n /\ (i + 1) - 1 = i
    BY <1>3
  <2>2. f[i + 1] = step[i + 1][f[i]]
    BY Zenon, <1>1, <2>1 DEF Trace
  <2> QED BY Zenon, <2>1, <2>2
<1>4. n \in S
  <2> HIDE DEF S
  <2> QED BY Zenon, <1>2, <1>3, SetInduction
<1> QED
  BY <1>1, <1>4

-----------------------------------------------------------------------------
(* The block tree.                                                         *)

(* A chain has its block and the parents of its members, and is contained  *)
(* in every set that does.                                                 *)
LEMMA ChainClosed ==
  ASSUME NEW b \in Blocks
  PROVE  /\ Chain[b] \subseteq Blocks /\ b \in Chain[b]
         /\ \A a \in Chain[b] \ {Genesis} : Parent[a] \in Chain[b]
         /\ \A S \in SUBSET Blocks : b \in S /\ Closed(S) => Chain[b] \subseteq S
<1>1. Chain[b] = {a \in Blocks : \A S \in SUBSET Blocks : b \in S /\ Closed(S) => a \in S}
  BY Zenon DEF Chain
<1>2. ASSUME NEW a \in Chain[b] \ {Genesis} PROVE Parent[a] \in Chain[b]
  <2>1. a \in Blocks \ {Genesis} /\ Parent[a] \in Blocks
    BY Zenon, <1>1, TreeAssumption
  <2>2. ASSUME NEW S \in SUBSET Blocks, b \in S, Closed(S) PROVE Parent[a] \in S
    BY Zenon, <1>1, <2>1, <2>2 DEF Closed
  <2> QED BY Zenon, <1>1, <2>1, <2>2
<1> QED
  BY Zenon, <1>1, <1>2

(* The chain of a member is part of the chain.                             *)
LEMMA ChainOfMember ==
  ASSUME NEW b \in Blocks, NEW a \in Chain[b]
  PROVE  Chain[a] \subseteq Chain[b]
<1>1. a \in Blocks /\ Chain[b] \in SUBSET Blocks
  BY Zenon, ChainClosed
<1>2. Closed(Chain[b])
  BY Zenon, ChainClosed DEF Closed
<1> QED
  BY Zenon, <1>1, <1>2, ChainClosed

(* The chain of a block is the block on top of the chain of its parent.    *)
LEMMA ChainStep ==
  ASSUME NEW b \in Blocks \ {Genesis}
  PROVE  Parent[b] \in Blocks /\ Chain[b] = {b} \cup Chain[Parent[b]]
<1> DEFINE S == {b} \cup Chain[Parent[b]]
<1>1. Parent[b] \in Blocks
  BY Zenon, TreeAssumption
<1>2. S \in SUBSET Blocks /\ b \in S
  BY Zenon, <1>1, ChainClosed
<1>3. Closed(S)
  BY Zenon, <1>1, ChainClosed DEF Closed
<1>4. Chain[b] \subseteq S
  BY Zenon, <1>2, <1>3, ChainClosed
<1>5. Parent[b] \in Chain[b]
  BY Zenon, ChainClosed
<1>6. Chain[Parent[b]] \subseteq Chain[b]
  BY Zenon, <1>5, ChainOfMember
<1> QED
  BY <1>1, <1>4, <1>6, ChainClosed

(* The chain of the genesis block.                                         *)
LEMMA ChainGenesis ==
  Genesis \in Blocks /\ Chain[Genesis] = {Genesis}
<1>1. Genesis \in Blocks /\ Closed({Genesis})
  BY Zenon, TreeAssumption DEF Closed
<1> QED
  BY <1>1, ChainClosed

(* The members of a chain are not above its block, and each is above its   *)
(* parent.                                                                 *)
LEMMA ChainHeights ==
  ASSUME NEW b \in Blocks
  PROVE  /\ \A a \in Chain[b] : a \in Blocks /\ Height[a] \in Nat /\ Height[a] <= Height[b]
         /\ b # Genesis => Height[b] = Height[Parent[b]] + 1
<1> DEFINE S == {a \in Blocks : Height[a] <= Height[b]}
<1>1. \A a \in Blocks : Height[a] \in Nat
  BY Zenon, TreeAssumption
<1>2. Closed(S)
  <2> SUFFICES ASSUME NEW a \in S \ {Genesis} PROVE Parent[a] \in S
    BY Zenon DEF Closed
  <2>1. Parent[a] \in Blocks /\ Height[a] = Height[Parent[a]] + 1
    BY Zenon, TreeAssumption
  <2> QED BY <2>1, <1>1
<1>3. b \in S
  BY <1>1
<1>4. Chain[b] \subseteq S
  <2> S \in SUBSET Blocks
    BY Zenon
  <2> HIDE DEF S
  <2> QED BY Zenon, <1>2, <1>3, ChainClosed
<1> QED
  BY Zenon, <1>1, <1>4, TreeAssumption

(* What holds of the genesis block, and of a block when it holds of its    *)
(* parent, holds of every block.                                           *)
LEMMA TreeInduction ==
  ASSUME NEW S, Genesis \in S, \A b \in Blocks \ {Genesis} : Parent[b] \in S => b \in S
  PROVE  Blocks \subseteq S
<1> DEFINE T == {h \in Nat : \A b \in Blocks : Height[b] = h => b \in S}
<1>1. \A b \in Blocks : Height[b] \in Nat /\ (b # Genesis => Parent[b] \in Blocks /\ Height[b] = Height[Parent[b]] + 1)
  BY Zenon, TreeAssumption
<1>2. 0 \in T
  <2> SUFFICES ASSUME NEW b \in Blocks, Height[b] = 0 PROVE b \in S
    BY Zenon
  <2>1. b = Genesis
    BY <1>1
  <2> QED BY Zenon, <2>1
<1>3. ASSUME NEW h \in Nat, h \in T PROVE h + 1 \in T
  <2> SUFFICES ASSUME NEW b \in Blocks, Height[b] = h + 1 PROVE b \in S
    OBVIOUS
  <2>1. b # Genesis
    BY TreeAssumption
  <2>2. Parent[b] \in Blocks /\ Height[Parent[b]] = h
    BY <1>1, <2>1
  <2> QED BY Zenon, <1>3, <2>1, <2>2
<1>4. \A h \in Nat : h \in T
  <2> HIDE DEF T
  <2> QED BY Zenon, <1>2, <1>3, SetInduction
<1> QED
  BY Zenon, <1>1, <1>4

(* Every chain has the genesis block, and one block at a height.           *)
LEMMA ChainIsLine ==
  ASSUME NEW b \in Blocks
  PROVE  /\ Genesis \in Chain[b]
         /\ \A x, y \in Chain[b] : Height[x] = Height[y] => x = y
<1> DEFINE Good(c) == Genesis \in Chain[c] /\ \A x, y \in Chain[c] : Height[x] = Height[y] => x = y
           S == {c \in Blocks : Good(c)}
<1>1. Genesis \in S
  BY Zenon, ChainGenesis
<1>2. ASSUME NEW c \in Blocks \ {Genesis}, Parent[c] \in S PROVE c \in S
  <2>1. Chain[c] = {c} \cup Chain[Parent[c]] /\ Good(Parent[c])
    BY Zenon, <1>2, ChainStep
  <2>2. \A x \in Chain[Parent[c]] : Height[x] \in Nat /\ Height[x] <= Height[Parent[c]]
    BY Zenon, <1>2, ChainHeights
  <2>3. Height[c] = Height[Parent[c]] + 1 /\ Height[Parent[c]] \in Nat
    BY Zenon, <1>2, TreeAssumption
  <2>4. \A x \in Chain[Parent[c]] : Height[x] # Height[c]
    BY <2>2, <2>3
  <2> QED BY Zenon, <2>1, <2>4
<1>3. Blocks \subseteq S
  <2> HIDE DEF S
  <2> QED BY Zenon, <1>1, <1>2, TreeInduction
<1> QED
  BY Zenon, <1>3

(* The genesis block makes and spends nothing.                             *)
LEMMA GenesisIsEmpty ==
  Outs(Genesis) = {} /\ Ins(Genesis) = {}
<1>1. Ins(Genesis) \subseteq UNION {Outs(a) : a \in Chain[Genesis]}
  BY Zenon, BlocksAssumption, TreeAssumption
<1>2. UNION {Outs(a) : a \in Chain[Genesis]} = Outs(Genesis)
  BY Zenon, ChainGenesis
<1> QED
  BY Zenon, <1>1, <1>2, BlocksAssumption

(* An output is made by one block of a chain.                              *)
LEMMA OneMaker ==
  ASSUME NEW b \in Blocks, NEW o, NEW a \in Chain[b], o \in Outs(a)
  PROVE  MadeAt(b, o) = Height[a] /\ a # Genesis /\ Height[a] \in Nat \ {0}
<1> DEFINE S == {c \in Blocks : \A x, y \in Chain[c] : o \in Outs(x) /\ o \in Outs(y) => x = y}
<1>1. Genesis \in S
  BY Zenon, ChainGenesis
<1>2. ASSUME NEW c \in Blocks \ {Genesis}, Parent[c] \in S PROVE c \in S
  <2>1. Chain[c] = {c} \cup Chain[Parent[c]]
    BY Zenon, ChainStep
  <2>2. \A x \in Chain[c] : x # c => ~(o \in Outs(x) /\ o \in Outs(c))
    BY Zenon, BlocksAssumption
  <2> QED BY Zenon, <1>2, <2>1, <2>2
<1>3. Blocks \subseteq S
  <2> HIDE DEF S
  <2> QED BY Zenon, <1>1, <1>2, TreeInduction
<1>4. (CHOOSE x \in Chain[b] : o \in Outs(x)) = a
  BY Zenon, <1>3
<1>5. a # Genesis /\ a \in Blocks
  BY Zenon, GenesisIsEmpty, ChainClosed
<1>6. Height[a] \in Nat /\ Height[a] = Height[Parent[a]] + 1 /\ Height[Parent[a]] \in Nat
  BY Zenon, <1>5, TreeAssumption
<1>7. MadeAt(b, o) = Height[a]
  BY <1>4, Zenon DEF MadeAt
<1>8. Height[a] \in Nat \ {0}
  BY <1>6
<1> QED
  BY Zenon, <1>5, <1>7, <1>8

(* An input was made on the chain.                                         *)
LEMMA InputsAreMade ==
  ASSUME NEW b \in Blocks, NEW o \in Ins(b)
  PROVE  \E a \in Chain[b] : o \in Outs(a)
BY BlocksAssumption

Coin == Heights \ {Broken}
Before(b) == IF b = Genesis THEN None ELSE Parent[b]

(* The heights that blocks give to coins.                                  *)
LEMMA CoinTypes ==
  /\ Spent \in Coin /\ Spent \in Heights /\ Broken \in Heights /\ Broken # Spent
  /\ \A b \in Blocks : Height[b] \in Coin
<1>1. \A b \in Blocks : Height[b] \in Nat
  BY Zenon, TreeAssumption
<1>2. Broken \notin Nat
  BY Zenon, TreeAssumption
<1> QED
  BY <1>1, <1>2 DEF Coin, Heights, Spent

(* The unspent outputs of a chain without the changes of its last block.   *)
LEMMA UtxoStep ==
  ASSUME NEW b \in Blocks, NEW o \in Outpoints
  PROVE  /\ o \in Ins(b) => Utxo(b)[o] = Spent
         /\ o \in Outs(b) => Utxo(Before(b))[o] = Spent /\ Height[b] # Spent
         /\ o \in Outs(b) /\ o \notin Ins(b) => Utxo(b)[o] = Height[b]
         /\ o \in Ins(b) => MadeAt(b, o) \in Coin \ {Spent}
         /\ o \in Ins(b) /\ o \notin Outs(b) => Utxo(Before(b))[o] = MadeAt(b, o)
         /\ o \notin Ins(b) /\ o \notin Outs(b) => Utxo(b)[o] = Utxo(Before(b))[o]
<1> DEFINE Made(c) == \E a \in Chain[c] : o \in Outs(a)
           Used(c) == \E a \in Chain[c] : o \in Ins(a)
           p == Parent[b]
<1>1. \A c \in Blocks : Utxo(c)[o] = IF Made(c) /\ ~Used(c) THEN MadeAt(c, o) ELSE Spent
  BY Zenon, TreeAssumption DEF Utxo
<1>2. Utxo(None)[o] = Spent
  BY Zenon DEF Utxo
<1>3. b \in Chain[b]
  BY Zenon, ChainClosed
<1>4. o \in Ins(b) => Used(b)
  BY Zenon, <1>3
<1>5. o \in Outs(b) => MadeAt(b, o) = Height[b] /\ Made(b) /\ Height[b] # Spent
  BY Zenon, <1>3, OneMaker DEF Spent
<1>6. CASE b = Genesis
  <2>1. ~Made(b) /\ ~Used(b) /\ o \notin Ins(b) /\ o \notin Outs(b)
    BY Zenon, <1>6, ChainGenesis, GenesisIsEmpty
  <2> QED BY Zenon, <1>1, <1>2, <1>6, <2>1 DEF Before
<1>7. CASE b # Genesis
  <2>1. p \in Blocks /\ Chain[b] = {b} \cup Chain[p] /\ Before(b) = p
    BY Zenon, <1>7, ChainStep DEF Before
  <2>2. \A a \in Chain[p] : a # b
    <3>1. Height[b] = Height[p] + 1 /\ Height[p] \in Nat
      BY Zenon, <1>7, <2>1, TreeAssumption
    <3>2. \A a \in Chain[p] : Height[a] \in Nat /\ Height[a] <= Height[p]
      BY Zenon, <2>1, ChainHeights
    <3> QED BY <3>1, <3>2
  <2>3. \A a \in Chain[p] : (o \in Outs(b) => o \notin Outs(a)) /\ (o \in Ins(b) => o \notin Ins(a))
    BY Zenon, <2>1, <2>2, BlocksAssumption
  <2>4. Used(p) => Made(p)
    <3> SUFFICES ASSUME NEW a \in Chain[p], o \in Ins(a) PROVE Made(p)
      BY Zenon
    <3>1. a \in Blocks /\ Chain[a] \subseteq Chain[p]
      BY Zenon, <2>1, ChainClosed, ChainOfMember
    <3>2. \E c \in Chain[a] : o \in Outs(c)
      BY Zenon, <3>1, InputsAreMade
    <3> QED BY Zenon, <3>1, <3>2
  <2>5. Made(p) => Made(b) /\ MadeAt(b, o) = MadeAt(p, o) /\ MadeAt(p, o) \in Coin \ {Spent}
    <3> SUFFICES ASSUME NEW a \in Chain[p], o \in Outs(a)
                 PROVE  Made(b) /\ MadeAt(b, o) = MadeAt(p, o) /\ MadeAt(p, o) \in Coin \ {Spent}
      BY Zenon
    <3>1. a \in Chain[b] /\ a \in Blocks
      BY Zenon, <2>1, ChainClosed
    <3>2. MadeAt(b, o) = Height[a] /\ MadeAt(p, o) = Height[a] /\ Height[a] # 0
      BY <2>1, <3>1, OneMaker
    <3> QED BY Zenon, <3>1, <3>2, CoinTypes DEF Spent
  <2>6. Made(b) <=> o \in Outs(b) \/ Made(p)
    BY Zenon, <2>1
  <2>7. Used(b) <=> o \in Ins(b) \/ Used(p)
    BY Zenon, <2>1
  <2>8. o \in Outs(b) => ~Made(p)
    BY Zenon, <2>3
  <2>9. o \in Ins(b) => ~Used(p) /\ Made(b)
    BY Zenon, <2>3, InputsAreMade
  <2>10. o \in Outs(b) => MadeAt(b, o) \in Coin \ {Spent}
    BY Zenon, <1>5, CoinTypes
  <2> HIDE DEF Made, Used, p
  <2> QED BY Zenon, <1>1, <1>5, <2>1, <2>4, <2>5, <2>6, <2>7, <2>8, <2>9, <2>10
<1> QED
  BY Zenon, <1>6, <1>7

(* No coin of a set of unspent outputs is broken; without a chain there    *)
(* are none, and none after the genesis block.                             *)
LEMMA UtxoTypes ==
  /\ \A b : Utxo(b) \in [Outpoints -> Coin] \/ b \notin Blocks \cup {None}
  /\ \A o \in Outpoints : Utxo(None)[o] = Spent /\ Utxo(Genesis)[o] = Spent
<1>1. \A o \in Outpoints : Utxo(None)[o] = Spent
  BY Zenon DEF Utxo
<1>2. ASSUME NEW b \in Blocks, NEW o \in Outpoints PROVE Utxo(b)[o] \in Coin
  <2> DEFINE Made == \E a \in Chain[b] : o \in Outs(a)
  <2>1. ~Made => Utxo(b)[o] = Spent
    BY Zenon DEF Utxo
  <2>2. Utxo(b)[o] \in {Spent, MadeAt(b, o)}
    BY Zenon DEF Utxo
  <2>3. Made => MadeAt(b, o) \in Coin
    <3> SUFFICES ASSUME NEW a \in Chain[b], o \in Outs(a) PROVE MadeAt(b, o) \in Coin
      BY Zenon
    <3>1. a \in Blocks
      BY Zenon, ChainClosed
    <3> QED BY <3>1, OneMaker, CoinTypes
  <2> QED BY Zenon, <2>1, <2>2, <2>3, CoinTypes
<1>3. \A o \in Outpoints : Utxo(Genesis)[o] = Spent
  <2> TAKE o \in Outpoints
  <2>1. Utxo(Genesis)[o] = Utxo(Before(Genesis))[o]
    BY Zenon, UtxoStep, GenesisIsEmpty, ChainGenesis
  <2> QED BY Zenon, <2>1, <1>1 DEF Before
<1>4. \A b : Utxo(b) = [o \in Outpoints |-> Utxo(b)[o]]
  BY Zenon DEF Utxo
<1> QED
  BY Zenon, <1>1, <1>2, <1>3, <1>4, CoinTypes

-----------------------------------------------------------------------------
(* Cache entries.                                                          *)

(* An entry above coin b is absent, a copy of b, a change of it that must  *)
(* be written, or a coin that b does not have.                             *)
Copy(c) == Entry(c, FALSE, FALSE)
Changed(c) == Entry(c, TRUE, FALSE)
New(c) == Entry(c, TRUE, TRUE)

Sound(e, b) ==
  \/ e = NoEntry
  \/ e = Copy(b) /\ b # Spent
  \/ \E c \in Coin : e = Changed(c)
  \/ \E c \in Coin \ {Spent} : e = New(c) /\ b = Spent

(* The fields of entries.                                                  *)
LEMMA Fields ==
  /\ NoEntry.coin = Spent /\ ~NoEntry.dirty /\ ~NoEntry.fresh /\ ~NoEntry.is
  /\ \A c : Copy(c).coin = c /\ ~Copy(c).dirty /\ ~Copy(c).fresh /\ Copy(c).is
  /\ \A c : Changed(c).coin = c /\ Changed(c).dirty /\ ~Changed(c).fresh /\ Changed(c).is
  /\ \A c : New(c).coin = c /\ New(c).dirty /\ New(c).fresh /\ New(c).is
BY Zenon DEF NoEntry, Entry, Copy, Changed, New

(* The four states that are sound, and what is seen in them.               *)
LEMMA Shapes ==
  ASSUME NEW b
  PROVE  /\ Sound(NoEntry, b) /\ Seen(NoEntry, b) = b
         /\ b # Spent => Sound(Copy(b), b)
         /\ \A c \in Coin : Sound(Changed(c), b)
         /\ \A c \in Coin \ {Spent} : b = Spent => Sound(New(c), b)
         /\ \A c : Seen(Copy(c), b) = c /\ Seen(Changed(c), b) = c /\ Seen(New(c), b) = c
<1>1. Seen(NoEntry, b) = b /\ \A c : Seen(Copy(c), b) = c /\ Seen(Changed(c), b) = c /\ Seen(New(c), b) = c
  BY Zenon, Fields DEF Seen
<1> QED
  BY <1>1, Zenon DEF Sound

(* Coins, and what sound entries show.                                     *)
LEMMA SoundTypes ==
  ASSUME NEW b \in Coin, NEW e, Sound(e, b)
  PROVE  e \in Entries /\ Seen(e, b) \in Coin
<1>1. Coin \subseteq Heights
  BY Zenon DEF Coin
<1>2. NoEntry \in Entries
  BY Zenon, CoinTypes DEF Entries, NoEntry
<1>3. \A c \in Heights : Copy(c) \in Entries /\ Changed(c) \in Entries /\ New(c) \in Entries
  BY Zenon DEF Entries, Entry, Copy, Changed, New
<1> QED
  BY <1>1, <1>2, <1>3, Shapes DEF Sound

(* FetchCoin changes nothing of what is seen, and finds what is there.     *)
LEMMA FetchSound ==
  ASSUME NEW b \in Coin, NEW e, Sound(e, b)
  PROVE  /\ Sound(FetchCoin(e, b), b) /\ Seen(FetchCoin(e, b), b) = Seen(e, b)
         /\ FetchCoin(e, b).is \/ (FetchCoin(e, b) = NoEntry /\ b = Spent)
<1>1. CASE e = NoEntry
  <2>1. FetchCoin(e, b) = IF b # Spent THEN Copy(b) ELSE NoEntry
    BY Zenon, <1>1, Fields DEF FetchCoin, Copy
  <2> QED BY <1>1, <2>1, Fields, Shapes
<1>2. CASE e # NoEntry
  <2>1. e.is
    BY <1>2, Fields DEF Sound
  <2> QED BY Zenon, <2>1 DEF FetchCoin
<1> QED
  BY Zenon, <1>1, <1>2

(* A spent coin is no longer seen.                                         *)
LEMMA SpendSound ==
  ASSUME NEW b \in Coin, NEW e, Sound(e, b)
  PROVE  Sound(SpendCoin(e, b), b) /\ Seen(SpendCoin(e, b), b) = Spent
<1> DEFINE f == FetchCoin(e, b)
<1>1. Spent \in Coin /\ Broken \notin Coin
  BY Zenon, CoinTypes DEF Coin
<1>2. Sound(f, b) /\ (f.is \/ (f = NoEntry /\ b = Spent))
  BY Zenon, FetchSound
<1>3. SpendCoin(e, b) = IF ~f.is \/ f.coin = Broken THEN f
                        ELSE IF f.fresh THEN NoEntry ELSE Changed(Spent)
  BY Zenon DEF SpendCoin, Changed
<1> HIDE DEF f
<1>4. CASE ~f.is
  BY Zenon, <1>2, <1>3, <1>4, Shapes
<1>5. CASE f.is
  <2>1. f.coin # Broken /\ (f.fresh => b = Spent)
    BY <1>1, <1>2, <1>5, Fields DEF Sound
  <2> QED BY <1>1, <1>3, <1>5, <2>1, Shapes
<1> QED
  BY Zenon, <1>4, <1>5

(* An added coin is seen, when it overwrites or there was none.            *)
LEMMA AddSound ==
  ASSUME NEW b \in Coin, NEW e, Sound(e, b), NEW h \in Coin \ {Spent}, NEW w,
         w \/ Seen(e, b) = Spent
  PROVE  Sound(AddCoin(e, h, w), b) /\ Seen(AddCoin(e, h, w), b) = h
<1>1. ~(~w /\ e.is /\ e.coin # Spent)
  BY Zenon DEF Seen
<1>2. AddCoin(e, h, w) = Entry(h, TRUE, (~w /\ ~e.dirty) \/ e.fresh)
  BY <1>1, Zenon DEF AddCoin
<1>3. CASE (~w /\ ~e.dirty) \/ e.fresh
  <2>1. AddCoin(e, h, w) = New(h)
    BY Zenon, <1>2, <1>3 DEF New, Entry
  <2>2. b = Spent
    BY <1>3, Fields, Shapes DEF Sound
  <2> QED BY <2>1, <2>2, Shapes
<1>4. CASE ~((~w /\ ~e.dirty) \/ e.fresh)
  <2>1. AddCoin(e, h, w) = Changed(h)
    BY Zenon, <1>2, <1>4 DEF Changed, Entry
  <2> QED BY <2>1, Shapes
<1> QED
  BY Zenon, <1>3, <1>4

(* AddCoin after HaveCoin needs no such condition.                         *)
LEMMA OverwriteSound ==
  ASSUME NEW b \in Coin, NEW e, Sound(e, b), NEW h \in Coin \ {Spent}
  PROVE  Sound(Overwrite(e, b, h), b) /\ Seen(Overwrite(e, b, h), b) = h
<1> DEFINE f == FetchCoin(e, b)
           w == f.is /\ f.coin # Spent
<1>1. Sound(f, b) /\ (f.is \/ (f = NoEntry /\ b = Spent))
  BY Zenon, FetchSound
<1>2. w \/ Seen(f, b) = Spent
  BY Zenon, <1>1, Fields DEF Sound, Seen
<1>3. Overwrite(e, b, h) = AddCoin(f, h, w)
  BY Zenon DEF Overwrite
<1> HIDE DEF f, w
<1> QED
  BY <1>1, <1>2, <1>3, AddSound

(* A DIRTY entry with the FRESH flag of another one.                       *)
LEMMA FlagTaken ==
  ASSUME NEW e \in Entries, NEW x
  PROVE  /\ e.fresh => Entry(x, TRUE, e.fresh) = New(x)
         /\ ~e.fresh => Entry(x, TRUE, e.fresh) = Changed(x)
<1>1. e.fresh \in BOOLEAN
  BY Zenon DEF Entries
<1>2. CASE e.fresh = TRUE
  BY Zenon, <1>2 DEF Entry, New
<1>3. CASE e.fresh = FALSE
  BY Zenon, <1>3 DEF Entry, Changed
<1> QED
  BY Zenon, <1>1, <1>2, <1>3

(* A child's entry c, above what the entry p shows, goes into p: what was  *)
(* seen through both is seen through the result.                           *)
LEMMA MergeSound ==
  ASSUME NEW b \in Coin, NEW p, Sound(p, b), NEW c, Sound(c, Seen(p, b))
  PROVE  Sound(MergeEntry(c, p), b) /\ Seen(MergeEntry(c, p), b) = Seen(c, Seen(p, b))
<1> DEFINE v == Seen(p, b)
<1>1. Spent \in Coin /\ v \in Coin /\ p \in Entries /\ c \in Entries
  BY Zenon, CoinTypes, SoundTypes
<1>2. CASE ~c.dirty
  <2>1. MergeEntry(c, p) = p
    BY Zenon, <1>2 DEF MergeEntry
  <2>2. Seen(c, v) = v
    BY <1>2, Fields, Shapes DEF Sound
  <2> QED BY Zenon, <2>1, <2>2
<1>3. CASE c.dirty
  <2> DEFINE x == c.coin
  <2>1. x \in Coin /\ Seen(c, v) = x /\ (c.fresh => x # Spent /\ v = Spent)
    BY <1>3, Fields, Shapes DEF Sound
  <2>2. CASE ~p.is
    <3>1. p = NoEntry /\ v = b
      BY <2>2, Fields, Shapes DEF Sound
    <3>2. MergeEntry(c, p) = Entry(x, TRUE, c.fresh)
      BY Zenon, <1>3, <2>1, <2>2 DEF MergeEntry
    <3> HIDE DEF x, v
    <3>3. CASE c.fresh
      <4>1. MergeEntry(c, p) = New(x)
        BY Zenon, <1>1, <3>2, <3>3, FlagTaken
      <4> QED BY <2>1, <3>1, <3>3, <4>1, Shapes DEF v
    <3>4. CASE ~c.fresh
      <4>1. MergeEntry(c, p) = Changed(x)
        BY Zenon, <1>1, <3>2, <3>4, FlagTaken
      <4> QED BY <2>1, <3>1, <4>1, Shapes DEF v
    <3> QED BY Zenon, <3>3, <3>4
  <2>3. CASE p.is
    <3>1. v = p.coin /\ (p.fresh => b = Spent)
      BY <2>3, Fields DEF Sound, Seen
    <3>2. MergeEntry(c, p) = IF p.fresh /\ x = Spent THEN NoEntry ELSE Entry(x, TRUE, p.fresh)
      BY Zenon, <1>3, <2>1, <2>3, <3>1 DEF MergeEntry
    <3> HIDE DEF x, v
    <3>3. CASE p.fresh
      <4>1. MergeEntry(c, p) = IF x = Spent THEN NoEntry ELSE New(x)
        BY Zenon, <1>1, <3>2, <3>3, FlagTaken
      <4> QED BY <2>1, <3>1, <3>3, <4>1, Shapes DEF v
    <3>4. CASE ~p.fresh
      <4>1. MergeEntry(c, p) = Changed(x)
        BY Zenon, <1>1, <3>2, <3>4, FlagTaken
      <4> QED BY <2>1, <3>1, <4>1, Shapes DEF v
    <3> QED BY Zenon, <3>3, <3>4
  <2> QED BY Zenon, <2>2, <2>3
<1> QED
  BY Zenon, <1>2, <1>3

-----------------------------------------------------------------------------
(* Blocks.                                                                 *)

(* Every operation leaves an entry.                                        *)
LEMMA OperationTypes ==
  ASSUME NEW x \in Entries, NEW c \in Heights, NEW h \in Heights, NEW w \in BOOLEAN
  PROVE  /\ FetchCoin(x, c) \in Entries /\ SpendCoin(x, c) \in Entries
         /\ AddCoin(x, h, w) \in Entries /\ Overwrite(x, c, h) \in Entries
<1>1. NoEntry \in Entries
  BY Zenon, CoinTypes DEF Entries, NoEntry
<1>2. \A y \in Heights, d \in BOOLEAN, f \in BOOLEAN : Entry(y, d, f) \in Entries
  BY Zenon DEF Entries, Entry
<1>3. FetchCoin(x, c) \in Entries
  BY Zenon, <1>2 DEF FetchCoin
<1>4. SpendCoin(x, c) \in Entries
  BY Zenon, <1>1, <1>2, <1>3, CoinTypes DEF SpendCoin
<1>5. ASSUME NEW y \in Entries, NEW v \in BOOLEAN PROVE AddCoin(y, h, v) \in Entries
  <2>1. ((~v /\ ~y.dirty) \/ y.fresh) \in BOOLEAN
    BY Zenon
  <2>2. Entry(h, TRUE, (~v /\ ~y.dirty) \/ y.fresh) \in Entries
    BY <1>2, <2>1, Zenon
  <2>3. Entry(Broken, TRUE, FALSE) \in Entries
    BY Zenon, <1>2, CoinTypes
  <2> QED BY <2>2, <2>3, Zenon DEF AddCoin
<1>6. Overwrite(x, c, h) \in Entries
  <2> DEFINE f == FetchCoin(x, c)
             v == f.is /\ f.coin # Spent
  <2>1. v \in BOOLEAN /\ Overwrite(x, c, h) = AddCoin(f, h, v)
    BY Zenon DEF Overwrite
  <2> HIDE DEF f, v
  <2> QED BY Zenon, <1>3, <1>5, <2>1 DEF f
<1> QED
  BY Zenon, <1>3, <1>4, <1>5, <1>6

(* The transactions of a block.                                            *)
LEMMA TxFacts ==
  ASSUME NEW b \in Blocks
  PROVE  /\ Len(Txs[b]) \in Nat /\ DOMAIN Txs[b] = 1 .. Len(Txs[b])
         /\ \A i \in 1 .. Len(Txs[b]) : /\ Txs[b][i].coinbase \in BOOLEAN
                                         /\ Txs[b][i].outs \subseteq Outpoints
                                         /\ Txs[b][i].ins \subseteq Outpoints
         /\ \A o : o \in Outs(b) <=> \E i \in 1 .. Len(Txs[b]) : o \in Txs[b][i].outs
         /\ \A o : o \in Ins(b) <=> \E i \in 1 .. Len(Txs[b]) : o \in Txs[b][i].ins
         /\ \A o : \A i, j \in 1 .. Len(Txs[b]) :
              /\ o \in Txs[b][i].outs /\ o \in Txs[b][j].outs => i = j
              /\ o \in Txs[b][i].ins /\ o \in Txs[b][j].ins => i = j
              /\ o \in Txs[b][i].outs /\ o \in Txs[b][j].ins => i < j
<1> DEFINE T == [ins : SUBSET Outpoints, outs : SUBSET Outpoints, coinbase : BOOLEAN]
<1>1. Txs[b] \in Seq(T)
  BY Zenon, BlocksAssumption
<1>2. Len(Txs[b]) \in Nat /\ DOMAIN Txs[b] = 1 .. Len(Txs[b])
  <2> HIDE DEF T
  <2> QED BY <1>1
<1>3. \A i \in 1 .. Len(Txs[b]) : Txs[b][i] \in T
  <2> HIDE DEF T
  <2> QED BY <1>1
<1>4. \A i \in 1 .. Len(Txs[b]) : /\ Txs[b][i].coinbase \in BOOLEAN
                                  /\ Txs[b][i].outs \subseteq Outpoints
                                  /\ Txs[b][i].ins \subseteq Outpoints
  BY Zenon, <1>3
<1>5. \A o : o \in Outs(b) <=> \E i \in 1 .. Len(Txs[b]) : o \in Txs[b][i].outs
  BY Zenon, <1>2 DEF Outs
<1>6. \A o : o \in Ins(b) <=> \E i \in 1 .. Len(Txs[b]) : o \in Txs[b][i].ins
  BY Zenon, <1>2 DEF Ins
<1>7. \A i, j \in 1 .. Len(Txs[b]) :
        /\ i # j => /\ Txs[b][i].outs \cap Txs[b][j].outs = {}
                    /\ Txs[b][i].ins \cap Txs[b][j].ins = {}
        /\ Txs[b][i].outs \cap Txs[b][j].ins # {} => i < j
  BY <1>2, BlocksAssumption, Zenon
<1>8. ASSUME NEW o, NEW i \in 1 .. Len(Txs[b]), NEW j \in 1 .. Len(Txs[b])
      PROVE  /\ o \in Txs[b][i].outs /\ o \in Txs[b][j].outs => i = j
             /\ o \in Txs[b][i].ins /\ o \in Txs[b][j].ins => i = j
             /\ o \in Txs[b][i].outs /\ o \in Txs[b][j].ins => i < j
  BY Zenon, <1>7
<1> QED
  BY Zenon, <1>2, <1>4, <1>5, <1>6, <1>8

(* What a block makes of coin v of an output, and what taking it back      *)
(* does.                                                                   *)
Forward(b, o, v) == IF o \in Ins(b) THEN Spent ELSE IF o \in Outs(b) THEN Height[b] ELSE v
Back(b, o, v) == IF o \in Outs(b) THEN Spent ELSE IF o \in Ins(b) THEN MadeAt(b, o) ELSE v

(* A block leads from the unspent outputs before it to those after it, and *)
(* back; a coin that has neither value keeps it or gets the right one.     *)
LEMMA BlockUtxo ==
  ASSUME NEW b \in Blocks, NEW o \in Outpoints
  PROVE  /\ Forward(b, o, Utxo(Before(b))[o]) = Utxo(b)[o]
         /\ Back(b, o, Utxo(b)[o]) = Utxo(Before(b))[o]
         /\ \A v : Forward(b, o, v) \in {Utxo(b)[o], v} /\ Back(b, o, v) \in {Utxo(Before(b))[o], v}
<1> DEFINE in == o \in Ins(b)
           out == o \in Outs(b)
<1>1. CASE in
  BY Zenon, <1>1, UtxoStep DEF Forward, Back
<1>2. CASE ~in /\ out
  BY Zenon, <1>2, UtxoStep DEF Forward, Back
<1>3. CASE ~in /\ ~out
  BY Zenon, <1>3, UtxoStep DEF Forward, Back
<1> QED
  BY Zenon, <1>1, <1>2, <1>3

(* Connecting a block on a sound cache spends its inputs and adds its      *)
(* outputs.                                                                *)
LEMMA ConnectSound ==
  ASSUME NEW b \in Blocks, NEW o \in Outpoints, NEW e, NEW below,
         below[o] \in Coin, Sound(e[o], below[o]),
         o \in Outs(b) => Seen(e[o], below[o]) = Spent
  PROVE  LET r == ConnectBlock(e, below, b)[o]
         IN  /\ Sound(r, below[o])
             /\ Seen(r, below[o]) = Forward(b, o, Seen(e[o], below[o]))
<1> DEFINE n == Len(Txs[b])
           T == Txs[b]
           c == below[o]
           step == [i \in DOMAIN Txs[b] |-> [x \in Entries |->
                      UpdateCoins(x, below[o], o, Txs[b][i], Height[b])]]
           Spends(i) == \E j \in 1 .. i : o \in T[j].ins
           Makes(i) == \E j \in 1 .. i : o \in T[j].outs
           After(i) == IF Spends(i) THEN Spent ELSE IF Makes(i) THEN Height[b] ELSE Seen(e[o], c)
           P == [i \in 0 .. n |-> {x \in Entries : Sound(x, c) /\ Seen(x, c) = After(i)}]
<1>1. /\ n \in Nat /\ DOMAIN T = 1 .. n /\ c \in Coin /\ c \in Heights
      /\ Height[b] \in Coin /\ Height[b] \in Heights
  BY Zenon, TxFacts, CoinTypes DEF Coin
<1>2. step \in [1 .. n -> [Entries -> Entries]]
  <2> SUFFICES ASSUME NEW i \in 1 .. n, NEW x \in Entries
               PROVE  UpdateCoins(x, c, o, T[i], Height[b]) \in Entries
    BY Zenon, <1>1
  <2>1. T[i].coinbase \in BOOLEAN
    BY Zenon, TxFacts
  <2> QED BY Zenon, <1>1, <2>1, OperationTypes DEF UpdateCoins
<1>3. e[o] \in Entries /\ e[o] \in P[0]
  <2>1. ~Spends(0) /\ ~Makes(0) /\ 0 \in 0 .. n
    BY <1>1
  <2>2. e[o] \in Entries
    BY Zenon, SoundTypes
  <2> QED BY Zenon, <2>1, <2>2
<1>4. ASSUME NEW i \in 1 .. n, NEW x \in P[i - 1] PROVE step[i][x] \in P[i]
  <2> DEFINE y == UpdateCoins(x, c, o, T[i], Height[b])
  <2>1. i - 1 \in 0 .. n /\ i \in 0 .. n /\ x \in Entries
    BY <1>1
  <2>2. Sound(x, c) /\ Seen(x, c) = After(i - 1)
    BY Zenon, <2>1
  <2>3. step[i][x] = y
    BY Zenon, <1>1, <2>1
  <2>4. Spends(i) <=> Spends(i - 1) \/ o \in T[i].ins
    BY SMTT(30), <1>1
  <2>5. Makes(i) <=> Makes(i - 1) \/ o \in T[i].outs
    BY <1>1
  <2>6. o \in T[i].ins => ~Spends(i - 1)
    BY <1>1, TxFacts
  <2>7. o \in T[i].outs => ~Spends(i - 1) /\ ~Makes(i - 1) /\ Seen(e[o], c) = Spent /\ Height[b] # Spent
    <3>1. o \in T[i].outs => ~Spends(i - 1) /\ ~Makes(i - 1)
      BY SMTT(30), <1>1, TxFacts
    <3>2. o \in T[i].outs => o \in Outs(b)
      BY Zenon, TxFacts
    <3> QED BY Zenon, <3>1, <3>2, UtxoStep
  <2>8. Sound(y, c) /\ Seen(y, c) = After(i)
    <3> HIDE DEF Spends, Makes, y, c, T
    <3>1. CASE o \in T[i].ins
      <4>1. y = SpendCoin(x, c)
        BY Zenon, <3>1 DEF y, UpdateCoins
      <4> QED BY Zenon, <1>1, <2>2, <2>4, <3>1, <4>1, SpendSound
    <3>2. CASE o \notin T[i].ins /\ o \in T[i].outs
      <4>1. y = AddCoin(x, Height[b], T[i].coinbase)
        BY Zenon, <3>2 DEF y, UpdateCoins
      <4>2. Seen(x, c) = Spent
        BY Zenon, <2>2, <2>7, <3>2
      <4>3. After(i) = Height[b] /\ Height[b] # Spent
        BY Zenon, <2>4, <2>5, <2>7, <3>2
      <4> QED BY <1>1, <2>2, <4>1, <4>2, <4>3, AddSound
    <3>3. CASE o \notin T[i].ins /\ o \notin T[i].outs
      <4>1. y = x
        BY Zenon, <3>3 DEF y, UpdateCoins
      <4>2. After(i) = After(i - 1)
        BY Zenon, <2>4, <2>5, <3>3
      <4> QED BY Zenon, <2>2, <4>1, <4>2
    <3> QED BY Zenon, <3>1, <3>2, <3>3
  <2>9. y \in Entries
    BY Zenon, <1>1, <2>8, SoundTypes
  <2> HIDE DEF y, Spends, Makes
  <2> QED BY <2>1, <2>3, <2>8, <2>9
<1>5. P \in [0 .. n -> SUBSET Entries]
  BY Zenon
<1>6. Loop(step, e[o], n) \in P[n]
  <2> HIDE DEF P, step, n
  <2> QED BY Zenon, <1>1, <1>2, <1>3, <1>4, <1>5, LoopRule
<1>7. ConnectBlock(e, below, b)[o] = Loop(step, e[o], n)
  BY Zenon DEF ConnectBlock
<1>8. (Spends(n) <=> o \in Ins(b)) /\ (Makes(n) <=> o \in Outs(b))
  BY Zenon, TxFacts
<1>9. n \in 0 .. n
  BY <1>1
<1> HIDE DEF Spends, Makes, step
<1> QED
  BY Zenon, <1>6, <1>7, <1>8, <1>9 DEF Forward

(* Rolling a block forward does so too, whatever part of the block is      *)
(* there already.                                                          *)
LEMMA RollforwardSound ==
  ASSUME NEW b \in Blocks, NEW o \in Outpoints, NEW e, NEW below,
         below[o] \in Coin, Sound(e[o], below[o])
  PROVE  LET r == RollforwardBlock(e, below, b)[o]
         IN  /\ Sound(r, below[o])
             /\ Seen(r, below[o]) = Forward(b, o, Seen(e[o], below[o]))
<1> DEFINE n == Len(Txs[b])
           T == Txs[b]
           c == below[o]
           step == [i \in DOMAIN Txs[b] |-> [x \in Entries |->
                      Reapply(x, below[o], o, Txs[b][i], Height[b])]]
           Spends(i) == \E j \in 1 .. i : o \in T[j].ins
           Makes(i) == \E j \in 1 .. i : o \in T[j].outs
           After(i) == IF Spends(i) THEN Spent ELSE IF Makes(i) THEN Height[b] ELSE Seen(e[o], c)
           P == [i \in 0 .. n |-> {x \in Entries : Sound(x, c) /\ Seen(x, c) = After(i)}]
<1>1. /\ n \in Nat /\ DOMAIN T = 1 .. n /\ c \in Coin /\ c \in Heights
      /\ Height[b] \in Coin /\ Height[b] \in Heights
  BY Zenon, TxFacts, CoinTypes DEF Coin
<1>2. step \in [1 .. n -> [Entries -> Entries]]
  <2> SUFFICES ASSUME NEW i \in 1 .. n, NEW x \in Entries
               PROVE  Reapply(x, c, o, T[i], Height[b]) \in Entries
    BY Zenon, <1>1
  <2> QED BY Zenon, <1>1, OperationTypes DEF Reapply
<1>3. e[o] \in Entries /\ e[o] \in P[0]
  <2>1. ~Spends(0) /\ ~Makes(0) /\ 0 \in 0 .. n
    BY <1>1
  <2>2. e[o] \in Entries
    BY Zenon, SoundTypes
  <2> QED BY Zenon, <2>1, <2>2
<1>4. ASSUME NEW i \in 1 .. n, NEW x \in P[i - 1] PROVE step[i][x] \in P[i]
  <2> DEFINE y == Reapply(x, c, o, T[i], Height[b])
  <2>1. i - 1 \in 0 .. n /\ i \in 0 .. n /\ x \in Entries
    BY <1>1
  <2>2. Sound(x, c) /\ Seen(x, c) = After(i - 1)
    BY Zenon, <2>1
  <2>3. step[i][x] = y
    BY Zenon, <1>1, <2>1
  <2>4. Spends(i) <=> Spends(i - 1) \/ o \in T[i].ins
    BY SMTT(30), <1>1
  <2>5. Makes(i) <=> Makes(i - 1) \/ o \in T[i].outs
    BY <1>1
  <2>6. o \in T[i].ins => ~Spends(i - 1)
    BY <1>1, TxFacts
  <2>7. o \in T[i].outs => ~Spends(i - 1) /\ ~Makes(i - 1) /\ Height[b] # Spent
    <3>1. o \in T[i].outs => ~Spends(i - 1) /\ ~Makes(i - 1)
      BY <1>1, TxFacts
    <3>2. o \in T[i].outs => o \in Outs(b)
      BY Zenon, TxFacts
    <3> QED BY Zenon, <3>1, <3>2, UtxoStep
  <2>8. Sound(y, c) /\ Seen(y, c) = After(i)
    <3> HIDE DEF Spends, Makes, y, c, T
    <3>1. CASE o \in T[i].ins
      <4>1. y = SpendCoin(x, c)
        BY Zenon, <3>1 DEF y, Reapply
      <4> QED BY Zenon, <1>1, <2>2, <2>4, <3>1, <4>1, SpendSound
    <3>2. CASE o \notin T[i].ins /\ o \in T[i].outs
      <4>1. y = Overwrite(x, c, Height[b])
        BY Zenon, <3>2 DEF y, Reapply
      <4>2. After(i) = Height[b] /\ Height[b] # Spent
        BY Zenon, <2>4, <2>5, <2>7, <3>2
      <4> QED BY <1>1, <2>2, <4>1, <4>2, OverwriteSound
    <3>3. CASE o \notin T[i].ins /\ o \notin T[i].outs
      <4>1. y = x
        BY Zenon, <3>3 DEF y, Reapply
      <4>2. After(i) = After(i - 1)
        BY Zenon, <2>4, <2>5, <3>3
      <4> QED BY <2>2, <4>1, <4>2
    <3> QED BY Zenon, <3>1, <3>2, <3>3
  <2>9. y \in Entries
    BY Zenon, <1>1, <2>8, SoundTypes
  <2> HIDE DEF y, Spends, Makes
  <2> QED BY <2>1, <2>3, <2>8, <2>9
<1>5. P \in [0 .. n -> SUBSET Entries]
  BY Zenon
<1>6. Loop(step, e[o], n) \in P[n]
  <2> HIDE DEF P, step, n
  <2> QED BY Zenon, <1>1, <1>2, <1>3, <1>4, <1>5, LoopRule
<1>7. RollforwardBlock(e, below, b)[o] = Loop(step, e[o], n)
  BY Zenon DEF RollforwardBlock
<1>8. (Spends(n) <=> o \in Ins(b)) /\ (Makes(n) <=> o \in Outs(b))
  BY Zenon, TxFacts
<1>9. n \in 0 .. n
  BY <1>1
<1> HIDE DEF Spends, Makes, step
<1> QED
  BY Zenon, <1>6, <1>7, <1>8, <1>9 DEF Forward

(* Disconnecting a block spends its outputs and restores its inputs,       *)
(* whatever part of the block is there.                                    *)
LEMMA DisconnectSound ==
  ASSUME NEW b \in Blocks, NEW o \in Outpoints, NEW e, NEW below,
         below[o] \in Coin, Sound(e[o], below[o])
  PROVE  LET r == DisconnectBlock(e, below, b)[o]
         IN  /\ Sound(r, below[o])
             /\ Seen(r, below[o]) = Back(b, o, Seen(e[o], below[o]))
<1> DEFINE n == Len(Txs[b])
           T == [i \in 1 .. Len(Txs[b]) |-> Txs[b][Len(Txs[b]) + 1 - i]]
           c == below[o]
           h == MadeAt(b, o)
           step == [i \in DOMAIN Txs[b] |-> [x \in Entries |->
                      Undo(x, below[o], o, Txs[b][Len(Txs[b]) + 1 - i], MadeAt(b, o))]]
           Spends(i) == \E j \in 1 .. i : o \in T[j].ins
           Makes(i) == \E j \in 1 .. i : o \in T[j].outs
           After(i) == IF Makes(i) THEN Spent ELSE IF Spends(i) THEN h ELSE Seen(e[o], c)
           P == [i \in 0 .. n |-> {x \in Entries : Sound(x, c) /\ Seen(x, c) = After(i)}]
<1>1. n \in Nat /\ DOMAIN Txs[b] = 1 .. n /\ c \in Coin /\ c \in Heights
  BY Zenon, TxFacts DEF Coin
<1>2. \A i \in 1 .. n : n + 1 - i \in 1 .. n /\ n + 1 - (n + 1 - i) = i /\ T[i] = Txs[b][n + 1 - i]
  BY <1>1
<1>3. \A i, j \in 1 .. n : o \in T[i].ins /\ o \in T[j].outs => i < j
  <2> SUFFICES ASSUME NEW i \in 1 .. n, NEW j \in 1 .. n, o \in T[i].ins, o \in T[j].outs
               PROVE  i < j
    BY Zenon
  <2> HIDE DEF T
  <2>1. /\ n + 1 - i \in 1 .. n /\ o \in Txs[b][n + 1 - i].ins
        /\ n + 1 - j \in 1 .. n /\ o \in Txs[b][n + 1 - j].outs
    BY Zenon, <1>2
  <2>2. n + 1 - j < n + 1 - i
    BY Zenon, <2>1, TxFacts
  <2> QED BY <1>1, <2>2
<1>4. (Spends(n) <=> o \in Ins(b)) /\ (Makes(n) <=> o \in Outs(b))
  <2> HIDE DEF T
  <2>1. \A i \in 1 .. n : n + 1 - i \in 1 .. n /\ Txs[b][i] = T[n + 1 - i]
    BY Zenon, <1>2
  <2>2. Spends(n) <=> \E i \in 1 .. n : o \in Txs[b][i].ins
    BY Zenon, <1>2, <2>1
  <2>3. Makes(n) <=> \E i \in 1 .. n : o \in Txs[b][i].outs
    BY Zenon, <1>2, <2>1
  <2> QED BY Zenon, <2>2, <2>3, TxFacts
<1>5. Spends(n) => h \in Coin \ {Spent} /\ h \in Heights
  BY Zenon, <1>4, UtxoStep DEF Coin
<1>6. step \in [1 .. n -> [Entries -> Entries]]
  <2> SUFFICES ASSUME NEW i \in 1 .. n, NEW x \in Entries
               PROVE  Undo(x, c, o, T[i], h) \in Entries
    BY Zenon, <1>1, <1>2
  <2>1. o \in T[i].ins => h \in Heights
    BY Zenon, <1>5
  <2> HIDE DEF T, h
  <2> QED BY Zenon, <1>1, <2>1, OperationTypes, CoinTypes DEF Undo
<1>7. e[o] \in Entries /\ e[o] \in P[0]
  <2>1. ~Spends(0) /\ ~Makes(0) /\ 0 \in 0 .. n
    BY <1>1
  <2>2. e[o] \in Entries
    BY Zenon, SoundTypes
  <2> QED BY Zenon, <2>1, <2>2
<1>8. ASSUME NEW i \in 1 .. n, NEW x \in P[i - 1] PROVE step[i][x] \in P[i]
  <2> DEFINE y == Undo(x, c, o, T[i], h)
  <2>1. i - 1 \in 0 .. n /\ i \in 0 .. n /\ x \in Entries
    BY <1>1
  <2>2. Sound(x, c) /\ Seen(x, c) = After(i - 1)
    BY Zenon, <2>1
  <2>3. step[i][x] = y
    BY Zenon, <1>1, <1>2, <2>1
  <2> HIDE DEF T
  <2>4. Spends(i) <=> Spends(i - 1) \/ o \in T[i].ins
    BY <1>1
  <2>5. Makes(i) <=> Makes(i - 1) \/ o \in T[i].outs
    BY <1>1
  <2>6. o \in T[i].ins => ~Makes(i - 1)
    BY <1>1, <1>3
  <2>7. o \in T[i].ins => h \in Coin \ {Spent}
    BY Zenon, <1>5
  <2>8. Sound(y, c) /\ Seen(y, c) = After(i)
    <3> HIDE DEF Spends, Makes, y, c, h
    <3>1. CASE o \in T[i].outs
      <4>1. y = SpendCoin(x, c)
        BY Zenon, <3>1 DEF y, Undo
      <4> QED BY Zenon, <1>1, <2>2, <2>5, <3>1, <4>1, SpendSound
    <3>2. CASE o \notin T[i].outs /\ o \in T[i].ins
      <4>1. y = Overwrite(x, c, h)
        BY Zenon, <3>2 DEF y, Undo
      <4>2. After(i) = h
        BY Zenon, <2>4, <2>5, <2>6, <3>2
      <4> QED BY ZenonT(60), <1>1, <2>2, <2>7, <3>2, <4>1, <4>2, OverwriteSound
    <3>3. CASE o \notin T[i].ins /\ o \notin T[i].outs
      <4>1. y = x
        BY Zenon, <3>3 DEF y, Undo
      <4>2. After(i) = After(i - 1)
        BY Zenon, <2>4, <2>5, <3>3
      <4> QED BY <2>2, <4>1, <4>2
    <3> QED BY Zenon, <3>1, <3>2, <3>3
  <2>9. y \in Entries
    BY Zenon, <1>1, <2>8, SoundTypes
  <2> HIDE DEF y, Spends, Makes
  <2> QED BY SMTT(30), <2>1, <2>3, <2>8, <2>9
<1>9. P \in [0 .. n -> SUBSET Entries]
  BY Zenon
<1>10. Loop(step, e[o], n) \in P[n]
  <2> HIDE DEF P, step, n, T, h
  <2> QED BY Zenon, <1>1, <1>6, <1>7, <1>8, <1>9, LoopRule
<1>11. DisconnectBlock(e, below, b)[o] = Loop(step, e[o], n)
  BY Zenon DEF DisconnectBlock
<1>12. n \in 0 .. n
  BY <1>1
<1> HIDE DEF Spends, Makes, step
<1> QED
  BY Zenon, <1>4, <1>10, <1>11, <1>12 DEF Back

-----------------------------------------------------------------------------
(* Caches and replays.                                                     *)

(* A child that was flushed: the cache shows what the child showed.        *)
LEMMA MergedSound ==
  ASSUME NEW o \in Outpoints, NEW view, NEW looked, dbCoins[o] \in Coin,
         Sound(cache[o], dbCoins[o]), Sound(view[o], Seen(cache[o], dbCoins[o]))
  PROVE  /\ Sound(Merged(view, looked)[o], dbCoins[o])
         /\ Seen(Merged(view, looked)[o], dbCoins[o]) = Seen(view[o], Seen(cache[o], dbCoins[o]))
<1> DEFINE p == IF o \in looked THEN FetchCoin(cache[o], dbCoins[o]) ELSE cache[o]
<1>1. Sound(p, dbCoins[o]) /\ Seen(p, dbCoins[o]) = Seen(cache[o], dbCoins[o])
  BY Zenon, FetchSound
<1>2. Merged(view, looked)[o] = MergeEntry(view[o], p)
  BY Zenon DEF Merged
<1> HIDE DEF p
<1> QED
  BY <1>1, <1>2, MergeSound

(* The fork is on both chains.                                             *)
LEMMA CommonAncestor ==
  ASSUME NEW a \in Blocks, NEW b \in Blocks
  PROVE  LastCommonAncestor(a, b) \in Chain[a] \cap Chain[b]
<1> DEFINE C == Chain[a] \cap Chain[b]
           D == {Height[a] - Height[c] : c \in C}
<1>1. Genesis \in C
  BY Zenon, ChainIsLine
<1>2. Height[a] \in Nat /\ \A c \in C : Height[c] \in Nat /\ Height[a] - Height[c] \in Nat
  <2>1. Height[a] \in Nat
    BY Zenon, TreeAssumption
  <2> QED BY <2>1, ChainHeights
<1>3. D \in SUBSET Nat /\ D # {}
  BY Zenon, <1>1, <1>2
<1>4. PICK x \in D : \A y \in D : x <= y
  <2> HIDE DEF D
  <2> QED BY Zenon, <1>3, LeastExists
<1>5. PICK c \in C : x = Height[a] - Height[c]
  BY Zenon, <1>4
<1>6. \A d \in C : Height[d] <= Height[c]
  <2> TAKE d \in C
  <2>1. Height[a] - Height[d] \in D
    BY Zenon
  <2>2. Height[a] - Height[c] <= Height[a] - Height[d]
    BY Zenon, <1>4, <1>5, <2>1
  <2> QED BY <1>2, <2>2
<1> QED
  BY <1>5, <1>6, Zenon DEF LastCommonAncestor

-----------------------------------------------------------------------------
(* The inductive invariant.                                                *)

(* Where the node and the database are in the block tree: the index on     *)
(* disk has the blocks that the database names, and their ancestors.       *)
Places ==
  /\ indexed \subseteq known /\ known \subseteq Blocks
  /\ \A b \in known \ {Genesis} : Parent[b] \in known
  /\ \A b \in indexed \ {Genesis} : Parent[b] \in indexed
  /\ tip \in known \cup {None} /\ best \in known \cup {None} /\ dbBest \in indexed \cup {None}
  /\ dbHeads = <<>> \/ (dbHeads \in indexed \X (indexed \cup {None}) /\ dbBest = None)
  /\ pc = "index" => best \in known
  /\ pc \in {"coins", "replay"} => best \in indexed

(* Which operation is under way, and how far it has got.                   *)
Phases ==
  /\ pc \in {"idle", "index", "coins", "undo", "redo", "replay"}
  /\ running \in BOOLEAN /\ keep \in BOOLEAN /\ todo \subseteq Outpoints
  /\ ~running => pc = "idle" /\ tip = None /\ best = None /\ cache = Empty
  /\ pc \in {"idle", "index", "coins"} => best = tip
  /\ dbHeads # <<>> => \/ ~running \/ pc \in {"undo", "redo"}
                       \/ pc \in {"coins", "replay"} /\ best = dbHeads[1]
  /\ pc \in {"undo", "redo"} => dbHeads # <<>> /\ best = None /\ tip = None
  /\ pc = "undo" => at \in Blocks /\ at # Fork /\ Fork \in Chain[at] /\ Fork \in Chain[dbHeads[1]]
  /\ pc = "redo" => at \in Chain[dbHeads[1]]
  /\ pc \notin {"undo", "redo"} => at = None

(* The coins of the database are those of the best block or, during a      *)
(* transition, each of the old tip or of the new one.                      *)
Stored ==
  /\ dbCoins \in [Outpoints -> Coin]
  /\ dbHeads = <<>> => dbCoins = Utxo(dbBest)
  /\ dbHeads # <<>> =>
       \A o \in Outpoints : dbCoins[o] \in {Utxo(dbHeads[2])[o], Utxo(dbHeads[1])[o]}

(* The entries of the cache, and what is seen through it: the coins of the *)
(* tip or, during a replay, each of the block it has got to or of the new  *)
(* tip.                                                                    *)
Above ==
  /\ cache \in [Outpoints -> Entries]
  /\ pc \notin {"coins", "replay"} => \A o \in Outpoints : Sound(cache[o], dbCoins[o])
  /\ running /\ pc \in {"idle", "index"} =>
       \A o \in Outpoints : Seen(cache[o], dbCoins[o]) = Utxo(tip)[o]
  /\ pc \in {"undo", "redo"} =>
       \A o \in Outpoints : Seen(cache[o], dbCoins[o]) \in {Utxo(at)[o], Utxo(dbHeads[1])[o]}

(* During a flush: what is not still to be written is in the database.     *)
Flushing ==
  pc \in {"coins", "replay"} => \A o \in Outpoints :
    /\ \E b \in Coin : Sound(cache[o], b)
    /\ cache[o].is => cache[o].coin = Utxo(best)[o]
    /\ (o \in todo /\ cache[o].dirty) \/ dbCoins[o] = Utxo(best)[o]

FInv == Places /\ Phases /\ Stored /\ Above /\ Flushing

(* The mark of a transition is a pair.                                     *)
LEMMA Heads ==
  ASSUME Places
  PROVE  /\ Len(<<>>) = 0 /\ \A x, y : <<x, y>> # <<>>
         /\ dbHeads # <<>> => /\ dbHeads[1] \in indexed /\ dbHeads[1] \in Blocks
                              /\ dbHeads[2] \in indexed \cup {None} /\ dbBest = None
                              /\ OldTip = dbHeads[2]
         /\ dbHeads = <<>> => OldTip = dbBest
BY Zenon DEF Places, OldTip

(* The places stay in the block tree.                                      *)
LEMMA PlacesStep ==
  ASSUME Places, Phases, [Next]_vars
  PROVE  Places'
<1> USE DEF Places
<1>1. ASSUME NEW b \in Blocks, AcceptBlock(b) PROVE Places'
  BY Zenon, <1>1 DEF AcceptBlock, Idle, dbVars
<1>2. ASSUME NEW b \in Blocks, ConnectTip(b) PROVE Places'
  BY Zenon, <1>2 DEF ConnectTip, MaybeFlush, Idle, dbVars
<1>3. CASE DisconnectTip
  <2>1. Parent[tip] \in known
    BY Zenon, <1>3 DEF DisconnectTip
  <2> QED BY Zenon, <1>3, <2>1 DEF DisconnectTip, MaybeFlush, Idle, dbVars
<1>4. ASSUME NEW o \in Outpoints, AccessCoin(o) PROVE Places'
  BY Zenon, <1>4 DEF AccessCoin, Idle, dbVars
<1>5. ASSUME NEW o \in Outpoints, Uncache(o) PROVE Places'
  BY Zenon, <1>5 DEF Uncache, Idle, dbVars
<1>6. CASE FlushStateToDisk
  BY Zenon, <1>6 DEF FlushStateToDisk, Idle, Phases, dbVars
<1>7. CASE WriteIndex
  BY Zenon, <1>7 DEF WriteIndex, dbVars
<1>8. ASSUME NEW S \in SUBSET Outpoints, WritePartial(S) PROVE Places'
  <2>1. OldTip \in indexed \cup {None}
    BY Zenon, Heads
  <2> QED BY Zenon, <1>8, <2>1 DEF WritePartial
<1>9. CASE WriteLast
  BY Zenon, <1>9 DEF WriteLast
<1>10. CASE Crash
  BY Zenon, <1>10 DEF Crash, dbVars
<1>11. CASE Start
  BY Zenon, <1>11 DEF Start, Phases, dbVars
<1>12. CASE ReplayBlocks
  BY Zenon, <1>12 DEF ReplayBlocks, dbVars
<1>13. CASE ReplayBack
  BY Zenon, <1>13 DEF ReplayBack, dbVars
<1>14. ASSUME NEW b \in Blocks, ReplayForward(b) PROVE Places'
  BY Zenon, <1>14 DEF ReplayForward, dbVars
<1>15. CASE ReplayFlush
  <2>1. dbHeads # <<>>
    BY Zenon, <1>15 DEF ReplayFlush, Phases
  <2> QED BY Zenon, <1>15, <2>1, Heads DEF ReplayFlush, dbVars
<1>16. CASE UNCHANGED vars
  BY Zenon, <1>16 DEF vars, dbVars
<1> QED
  BY <1>1, <1>2, <1>3, <1>4, <1>5, <1>6, <1>7, <1>8, <1>9, <1>10, <1>11, <1>12, <1>13, <1>14,
     <1>15, <1>16, ZenonT(60) DEF Next

(* The steps of a replay: back to the parent, forward to the child that is *)
(* on the new chain, and at the end the new tip.                           *)
LEMMA ReplaySteps ==
  ASSUME Places, Phases
  PROVE  /\ pc = "undo" => /\ at # Genesis /\ Parent[at] \in Blocks /\ Before(at) = Parent[at]
                           /\ Height[at] > 0 /\ Fork \in Chain[Parent[at]]
         /\ \A b \in Blocks : ReplayForward(b) => Before(b) = at
         /\ ReplayFlush => at = dbHeads[1]
<1>1. pc = "undo" => /\ at # Genesis /\ Parent[at] \in Blocks /\ Before(at) = Parent[at]
                     /\ Height[at] > 0 /\ Fork \in Chain[Parent[at]]
  <2> SUFFICES ASSUME pc = "undo"
               PROVE  /\ at # Genesis /\ Parent[at] \in Blocks /\ Before(at) = Parent[at]
                      /\ Height[at] > 0 /\ Fork \in Chain[Parent[at]]
    BY Zenon
  <2>1. at \in Blocks /\ at # Fork /\ Fork \in Chain[at]
    BY Zenon DEF Phases
  <2>2. at # Genesis
    BY Zenon, <2>1, ChainGenesis
  <2>3. Parent[at] \in Blocks /\ Chain[at] = {at} \cup Chain[Parent[at]]
    BY Zenon, <2>1, <2>2, ChainStep
  <2>4. Height[at] = Height[Parent[at]] + 1 /\ Height[Parent[at]] \in Nat
    BY Zenon, <2>1, <2>2, <2>3, TreeAssumption
  <2>5. Height[at] > 0
    BY <2>4
  <2> QED BY Zenon, <2>1, <2>2, <2>3, <2>5 DEF Before
<1>2. ASSUME NEW b \in Blocks, ReplayForward(b) PROVE Before(b) = at
  <2>1. /\ dbHeads[1] \in Blocks /\ at \in Chain[dbHeads[1]] /\ b \in Chain[dbHeads[1]]
        /\ Height[b] = Height[at] + 1
    BY Zenon, <1>2, Heads DEF ReplayForward, Phases
  <2>2. at \in Blocks /\ Height[at] \in Nat
    BY Zenon, <2>1, ChainClosed, TreeAssumption
  <2>3. b # Genesis
    BY <2>1, <2>2, TreeAssumption
  <2>4. Parent[b] \in Chain[dbHeads[1]] /\ Height[b] = Height[Parent[b]] + 1 /\ Height[Parent[b]] \in Nat
    BY Zenon, <2>1, <2>3, ChainClosed, TreeAssumption
  <2>5. Height[Parent[b]] = Height[at]
    BY <2>1, <2>2, <2>4
  <2>6. Parent[b] = at
    BY Zenon, <2>1, <2>4, <2>5, ChainIsLine
  <2> QED BY Zenon, <2>3, <2>6 DEF Before
<1>3. ASSUME ReplayFlush PROVE at = dbHeads[1]
  <2>1. dbHeads[1] \in Blocks /\ at \in Chain[dbHeads[1]] /\ Height[at] = Height[dbHeads[1]]
    BY Zenon, <1>3, Heads DEF ReplayFlush, Phases
  <2>2. dbHeads[1] \in Chain[dbHeads[1]]
    BY Zenon, <2>1, ChainClosed
  <2> QED BY Zenon, <2>1, <2>2, ChainIsLine
<1> QED
  BY Zenon, <1>1, <1>2, <1>3

(* What a replay starts from.                                              *)
LEMMA ReplayStarts ==
  ASSUME Places, Phases, ReplayBlocks
  PROVE  /\ dbHeads # <<>> /\ dbHeads[1] \in Blocks
         /\ dbHeads[2] = None => Genesis \in Chain[dbHeads[1]]
         /\ dbHeads[2] # None => /\ dbHeads[2] \in Blocks
                                 /\ Fork \in Chain[dbHeads[2]] /\ Fork \in Chain[dbHeads[1]]
<1>1. dbHeads # <<>>
  BY Heads DEF ReplayBlocks
<1>2. dbHeads[1] \in Blocks /\ dbHeads[2] \in Blocks \cup {None}
  BY Zenon, <1>1, Heads DEF Places
<1>3. dbHeads[2] # None => Fork \in Chain[dbHeads[2]] \cap Chain[dbHeads[1]]
  BY Zenon, <1>2, CommonAncestor DEF Fork
<1> QED
  BY Zenon, <1>1, <1>2, <1>3, ChainIsLine

(* The phases follow each other.                                           *)
LEMMA PhasesStep ==
  ASSUME Places, Phases, [Next]_vars
  PROVE  Phases'
<1> USE DEF Phases
<1>0. dbHeads' = dbHeads => Fork' = Fork
  BY Zenon DEF Fork
<1>1. ASSUME NEW b \in Blocks, AcceptBlock(b) PROVE Phases'
  BY Zenon, <1>0, <1>1 DEF AcceptBlock, Idle, dbVars
<1>2. ASSUME NEW b \in Blocks, ConnectTip(b) PROVE Phases'
  BY Zenon, <1>0, <1>2 DEF ConnectTip, MaybeFlush, Idle, dbVars
<1>3. CASE DisconnectTip
  BY Zenon, <1>0, <1>3 DEF DisconnectTip, MaybeFlush, Idle, dbVars
<1>4. ASSUME NEW o \in Outpoints, AccessCoin(o) PROVE Phases'
  BY Zenon, <1>0, <1>4 DEF AccessCoin, Idle, dbVars
<1>5. ASSUME NEW o \in Outpoints, Uncache(o) PROVE Phases'
  BY Zenon, <1>0, <1>5 DEF Uncache, Idle, dbVars
<1>6. CASE FlushStateToDisk
  BY Zenon, <1>0, <1>6 DEF FlushStateToDisk, Idle, dbVars
<1>7. CASE WriteIndex
  BY Zenon, <1>0, <1>7 DEF WriteIndex, ToWrite, dbVars
<1>8. ASSUME NEW S \in SUBSET Outpoints, WritePartial(S) PROVE Phases'
  BY Zenon, <1>8 DEF WritePartial
<1>9. CASE WriteLast
  BY Zenon, <1>9 DEF WriteLast
<1>10. CASE Crash
  BY Zenon, <1>10 DEF Crash, dbVars
<1>11. CASE Start
  BY Zenon, <1>0, <1>11 DEF Start, dbVars
<1>12. CASE ReplayBlocks
  BY Zenon, <1>0, <1>12, ReplayStarts DEF ReplayBlocks, dbVars
<1>13. CASE ReplayBack
  BY Zenon, <1>0, <1>13, ReplaySteps DEF ReplayBack, dbVars
<1>14. ASSUME NEW b \in Blocks, ReplayForward(b) PROVE Phases'
  BY Zenon, <1>0, <1>14 DEF ReplayForward, dbVars
<1>15. CASE ReplayFlush
  BY Zenon, <1>0, <1>15 DEF ReplayFlush, ToWrite, dbVars
<1>16. CASE UNCHANGED vars
  BY Zenon, <1>0, <1>16 DEF vars, dbVars
<1> QED
  BY <1>1, <1>2, <1>3, <1>4, <1>5, <1>6, <1>7, <1>8, <1>9, <1>10, <1>11, <1>12, <1>13, <1>14,
     <1>15, <1>16, ZenonT(60) DEF Next

(* The coins that a batch writes are those of the new tip; after the last  *)
(* batch all are.                                                          *)
LEMMA BatchCoins ==
  ASSUME FInv, pc \in {"coins", "replay"}, NEW S, NEW o \in Outpoints
  PROVE  /\ Written(S)[o] = IF o \in S /\ cache[o].dirty THEN Utxo(best)[o] ELSE dbCoins[o]
         /\ Written(todo)[o] = Utxo(best)[o]
<1>1. /\ \E b \in Coin : Sound(cache[o], b)
      /\ cache[o].is => cache[o].coin = Utxo(best)[o]
      /\ (o \in todo /\ cache[o].dirty) \/ dbCoins[o] = Utxo(best)[o]
  BY Zenon DEF FInv, Flushing
<1>2. cache[o].dirty => cache[o].is
  BY ZenonT(60), <1>1, Fields DEF Sound
<1> QED
  BY Zenon, <1>1, <1>2 DEF Written

(* What the database holds after a step.                                   *)
LEMMA StoredStep ==
  ASSUME FInv, [Next]_vars
  PROVE  Stored'
<1> USE DEF FInv
<1>1. ASSUME dbVars' = dbVars PROVE Stored'
  BY Zenon, <1>1 DEF Stored, dbVars
<1>2. ASSUME NEW S \in SUBSET Outpoints, WritePartial(S) PROVE Stored'
  <2>1. /\ pc \in {"coins", "replay"} /\ dbCoins' = Written(S) /\ dbHeads' = <<best, OldTip>>
        /\ dbHeads' # <<>>
    BY Zenon, <1>2, Heads DEF WritePartial
  <2>2. best \in Blocks /\ Utxo(best) \in [Outpoints -> Coin]
    BY Zenon, <2>1, UtxoTypes DEF Places
  <2>3. ASSUME NEW o \in Outpoints PROVE dbCoins[o] \in {Utxo(OldTip)[o], Utxo(best)[o]}
    <3>1. CASE dbHeads = <<>>
      BY Zenon, <3>1, Heads DEF Stored
    <3>2. CASE dbHeads # <<>>
      <4>1. best = dbHeads[1] /\ OldTip = dbHeads[2]
        BY Zenon, <2>1, <3>2, Heads DEF Phases
      <4> QED BY Zenon, <3>2, <4>1 DEF Stored
    <3> QED BY Zenon, <3>1, <3>2
  <2>4. ASSUME NEW o \in Outpoints
        PROVE  dbCoins'[o] \in Coin /\ dbCoins'[o] \in {Utxo(OldTip)[o], Utxo(best)[o]}
    BY Zenon, <2>1, <2>2, <2>3, BatchCoins DEF Stored
  <2>5. dbCoins' \in [Outpoints -> Coin]
    <3>1. dbCoins' = [o \in Outpoints |-> dbCoins'[o]]
      BY Zenon, <2>1 DEF Written
    <3> QED BY Zenon, <2>4, <3>1
  <2>6. dbHeads'[1] = best /\ dbHeads'[2] = OldTip
    BY Zenon, <2>1
  <2> QED BY Zenon, <2>1, <2>4, <2>5, <2>6 DEF Stored
<1>3. CASE WriteLast
  <2>1. pc \in {"coins", "replay"} /\ dbCoins' = Written(todo) /\ dbHeads' = <<>> /\ dbBest' = best
    BY Zenon, <1>3 DEF WriteLast
  <2>2. Utxo(best) \in [Outpoints -> Coin]
    BY Zenon, <2>1, UtxoTypes DEF Places
  <2>3. dbCoins' = Utxo(best)
    <3>1. \A o \in Outpoints : Written(todo)[o] = Utxo(best)[o]
      BY Zenon, <2>1, BatchCoins
    <3>2. Written(todo) = [o \in Outpoints |-> Written(todo)[o]]
      BY Zenon DEF Written
    <3>3. Utxo(best) = [o \in Outpoints |-> Utxo(best)[o]]
      BY Zenon, <2>2
    <3> QED BY Zenon, <2>1, <3>1, <3>2, <3>3
  <2> QED BY Zenon, <2>1, <2>2, <2>3 DEF Stored
<1>4. dbVars' = dbVars \/ WriteLast \/ \E S \in SUBSET Outpoints : WritePartial(S)
  BY ZenonT(60) DEF Next, AcceptBlock, ConnectTip, DisconnectTip, AccessCoin, Uncache, FlushStateToDisk,
         WriteIndex, Crash, Start, ReplayBlocks, ReplayBack, ReplayForward, ReplayFlush, vars
<1> QED
  BY <1>1, <1>2, <1>3, <1>4, Zenon

(* The cache after a block was connected or disconnected at the tip.       *)
LEMMA TipCache ==
  ASSUME FInv, Idle, NEW o \in Outpoints
  PROVE  /\ dbCoins[o] \in Coin /\ Sound(cache[o], dbCoins[o])
         /\ Seen(cache[o], dbCoins[o]) = Utxo(tip)[o]
         /\ \A b \in Blocks : tip = Before(b) =>
              LET c == Merged(ConnectBlock(Empty, Coins(cache, dbCoins), b), Ins(b) \cup Outs(b))[o]
              IN  Sound(c, dbCoins[o]) /\ Seen(c, dbCoins[o]) = Utxo(b)[o]
         /\ tip \in Blocks =>
              LET c == Merged(DisconnectBlock(Empty, Coins(cache, dbCoins), tip), Ins(tip) \cup Outs(tip))[o]
              IN  Sound(c, dbCoins[o]) /\ Seen(c, dbCoins[o]) = Utxo(Before(tip))[o]
<1> DEFINE below == Coins(cache, dbCoins)
<1>1. /\ dbCoins[o] \in Coin /\ Sound(cache[o], dbCoins[o])
      /\ Seen(cache[o], dbCoins[o]) = Utxo(tip)[o]
  BY Zenon DEF FInv, Stored, Above, Idle
<1>2. below[o] = Seen(cache[o], dbCoins[o]) /\ below[o] \in Coin /\ below[o] = Utxo(tip)[o]
  BY Zenon, <1>1, SoundTypes DEF Coins
<1>3. Empty[o] = NoEntry /\ Sound(Empty[o], below[o]) /\ Seen(Empty[o], below[o]) = below[o]
  BY Zenon, Shapes DEF Empty
<1> HIDE DEF below
<1>4. ASSUME NEW b \in Blocks, tip = Before(b)
      PROVE  LET c == Merged(ConnectBlock(Empty, below, b), Ins(b) \cup Outs(b))[o]
             IN  Sound(c, dbCoins[o]) /\ Seen(c, dbCoins[o]) = Utxo(b)[o]
  <2> DEFINE view == ConnectBlock(Empty, below, b)
             c == Merged(view, Ins(b) \cup Outs(b))[o]
  <2>1. o \in Outs(b) => Seen(Empty[o], below[o]) = Spent
    BY Zenon, <1>2, <1>3, <1>4, UtxoStep
  <2>2. Sound(view[o], below[o]) /\ Seen(view[o], below[o]) = Forward(b, o, below[o])
    BY SMTT(30), <1>2, <1>3, <2>1, ConnectSound
  <2> HIDE DEF view
  <2>3. Seen(view[o], below[o]) = Utxo(b)[o]
    BY Zenon, <1>2, <1>4, <2>2, BlockUtxo
  <2>4. Sound(c, dbCoins[o]) /\ Seen(c, dbCoins[o]) = Seen(view[o], below[o])
    BY Zenon, <1>1, <1>2, <2>2, MergedSound
  <2> QED BY Zenon, <2>3, <2>4 DEF view
<1>5. ASSUME tip \in Blocks
      PROVE  LET c == Merged(DisconnectBlock(Empty, below, tip), Ins(tip) \cup Outs(tip))[o]
             IN  Sound(c, dbCoins[o]) /\ Seen(c, dbCoins[o]) = Utxo(Before(tip))[o]
  <2> DEFINE view == DisconnectBlock(Empty, below, tip)
             c == Merged(view, Ins(tip) \cup Outs(tip))[o]
  <2>1. Sound(view[o], below[o]) /\ Seen(view[o], below[o]) = Back(tip, o, below[o])
    BY SMTT(30), <1>2, <1>3, <1>5, DisconnectSound
  <2> HIDE DEF view
  <2>2. Seen(view[o], below[o]) = Utxo(Before(tip))[o]
    BY Zenon, <1>2, <1>5, <2>1, BlockUtxo
  <2>3. Sound(c, dbCoins[o]) /\ Seen(c, dbCoins[o]) = Seen(view[o], below[o])
    BY Zenon, <1>1, <1>2, <2>1, MergedSound
  <2> QED BY Zenon, <2>2, <2>3 DEF view
<1> QED
  BY Zenon, <1>1, <1>4, <1>5 DEF below

(* The cache and what is seen through it after a step.                     *)
LEMMA AboveStep ==
  ASSUME FInv, [Next]_vars
  PROVE  Above'
<1> USE DEF FInv
<1>0. ASSUME \A o \in Outpoints : cache'[o] \in Entries, cache' = [o \in Outpoints |-> cache'[o]]
      PROVE  cache' \in [Outpoints -> Entries]
  BY Zenon, <1>0
<1>1. ASSUME NEW b \in Blocks, AcceptBlock(b) PROVE Above'
  BY Zenon, <1>1 DEF AcceptBlock, Idle, dbVars, Above
<1>2. ASSUME NEW b \in Blocks, ConnectTip(b) PROVE Above'
  <2>1. /\ Idle /\ tip = Before(b) /\ tip' = b /\ running' = running /\ dbCoins' = dbCoins
        /\ pc' \in {"idle", "index"}
        /\ cache' = Merged(ConnectBlock(Empty, Coins(cache, dbCoins), b), Ins(b) \cup Outs(b))
    BY Zenon, <1>2 DEF ConnectTip, MaybeFlush, Before, dbVars
  <2>2. \A o \in Outpoints : /\ dbCoins[o] \in Coin /\ Sound(cache'[o], dbCoins[o])
                             /\ Seen(cache'[o], dbCoins[o]) = Utxo(b)[o]
    BY Zenon, <2>1, TipCache
  <2>3. \A o \in Outpoints : cache'[o] \in Entries
    BY Zenon, <2>2, SoundTypes
  <2>4. cache' = [o \in Outpoints |-> cache'[o]]
    BY Zenon, <2>1 DEF Merged
  <2> QED BY Zenon, <1>0, <2>1, <2>2, <2>3, <2>4 DEF Above
<1>3. CASE DisconnectTip
  <2>1. /\ Idle /\ tip \in Blocks /\ Before(tip) = Parent[tip] /\ tip' = Parent[tip]
        /\ running' = running /\ dbCoins' = dbCoins /\ pc' \in {"idle", "index"}
        /\ cache' = Merged(DisconnectBlock(Empty, Coins(cache, dbCoins), tip), Ins(tip) \cup Outs(tip))
    BY Zenon, <1>3 DEF DisconnectTip, MaybeFlush, Before, dbVars, Places
  <2>2. \A o \in Outpoints : /\ dbCoins[o] \in Coin /\ Sound(cache'[o], dbCoins[o])
                             /\ Seen(cache'[o], dbCoins[o]) = Utxo(Parent[tip])[o]
    BY Zenon, <2>1, TipCache
  <2>3. \A o \in Outpoints : cache'[o] \in Entries
    BY Zenon, <2>2, SoundTypes
  <2>4. cache' = [o \in Outpoints |-> cache'[o]]
    BY Zenon, <2>1 DEF Merged
  <2> QED BY Zenon, <1>0, <2>1, <2>2, <2>3, <2>4 DEF Above
<1>4. ASSUME NEW o \in Outpoints, AccessCoin(o) \/ Uncache(o) PROVE Above'
  <2>1. Idle /\ tip' = tip /\ running' = running /\ dbCoins' = dbCoins /\ pc' = pc
    BY Zenon, <1>4 DEF AccessCoin, Uncache, dbVars
  <2>2. \A q \in Outpoints : /\ dbCoins[q] \in Coin /\ Sound(cache[q], dbCoins[q])
                             /\ Seen(cache[q], dbCoins[q]) = Utxo(tip)[q]
    BY Zenon, <2>1, TipCache
  <2>3. PICK e : cache' = [cache EXCEPT ![o] = e] /\ (e = FetchCoin(cache[o], dbCoins[o])
                                                     \/ (e = NoEntry /\ cache[o].is /\ ~Flagged(cache[o])))
    BY Zenon, <1>4 DEF AccessCoin, Uncache
  <2>4. Sound(e, dbCoins[o]) /\ Seen(e, dbCoins[o]) = Seen(cache[o], dbCoins[o])
    <3>1. CASE e = FetchCoin(cache[o], dbCoins[o])
      BY Zenon, <2>2, <3>1, FetchSound
    <3>2. CASE e = NoEntry /\ cache[o].is /\ ~Flagged(cache[o])
      <4>1. cache[o] = Copy(dbCoins[o])
        BY <2>2, <3>2, Fields DEF Sound, Flagged
      <4> QED BY <3>2, <4>1, Shapes
    <3> QED BY Zenon, <2>3, <3>1, <3>2
  <2>5. cache \in [Outpoints -> Entries]
    BY Zenon DEF Above
  <2>6. \A q \in Outpoints : /\ Sound(cache'[q], dbCoins[q])
                             /\ Seen(cache'[q], dbCoins[q]) = Utxo(tip)[q]
    BY Zenon, <2>2, <2>3, <2>4, <2>5
  <2>7. cache' \in [Outpoints -> Entries]
    <3>1. e \in Entries
      BY Zenon, <2>2, <2>4, SoundTypes
    <3> QED BY Zenon, <2>3, <2>5, <3>1
  <2> QED BY Zenon, <2>1, <2>6, <2>7 DEF Above, Idle
<1>5. CASE FlushStateToDisk \/ WriteIndex
  BY Zenon, <1>5 DEF FlushStateToDisk, WriteIndex, Idle, dbVars, Above
<1>6. ASSUME NEW S \in SUBSET Outpoints, WritePartial(S) PROVE Above'
  BY Zenon, <1>6 DEF WritePartial, Above
<1>7. CASE WriteLast
  <2>1. /\ pc \in {"coins", "replay"} /\ dbCoins' = Written(todo) /\ cache' = AfterFlush
        /\ tip' = best /\ pc' = "idle"
    BY Zenon, <1>7 DEF WriteLast
  <2>2. ASSUME NEW o \in Outpoints
        PROVE  /\ Sound(cache'[o], dbCoins'[o]) /\ Seen(cache'[o], dbCoins'[o]) = Utxo(best)[o]
               /\ cache'[o] \in Entries
    <3>1. dbCoins'[o] = Utxo(best)[o] /\ Utxo(best)[o] \in Coin
      BY <2>1, BatchCoins, UtxoTypes DEF Places
    <3>2. (\E b \in Coin : Sound(cache[o], b)) /\ (cache[o].is => cache[o].coin = Utxo(best)[o])
      BY Zenon, <2>1 DEF Flushing
    <3>3. cache'[o] = NoEntry \/ (cache'[o] = Copy(Utxo(best)[o]) /\ Utxo(best)[o] # Spent)
      <4>1. CASE ~keep \/ (Flagged(cache[o]) /\ cache[o].coin = Spent)
        BY Zenon, <2>1, <4>1 DEF AfterFlush
      <4>2. CASE keep /\ Flagged(cache[o]) /\ cache[o].coin # Spent
        BY Zenon, <2>1, <3>2, <4>2 DEF AfterFlush, Flagged, Copy
      <4>3. CASE keep /\ ~Flagged(cache[o])
        <5>1. cache'[o] = cache[o]
          BY Zenon, <2>1, <4>3 DEF AfterFlush
        <5>2. cache[o] = NoEntry \/ \E c \in Coin \ {Spent} : cache[o] = Copy(c)
          BY <3>2, <4>3, Fields DEF Sound, Flagged
        <5> QED BY ZenonT(60), <3>2, <5>1, <5>2, Fields
      <4> QED BY Zenon, <4>1, <4>2, <4>3
    <3>4. Sound(cache'[o], dbCoins'[o]) /\ Seen(cache'[o], dbCoins'[o]) = Utxo(best)[o]
      BY ZenonT(60), <3>1, <3>3, Shapes
    <3> QED BY Zenon, <3>1, <3>4, SoundTypes
  <2>3. cache' = [o \in Outpoints |-> cache'[o]]
    BY Zenon, <2>1 DEF AfterFlush
  <2> QED BY Zenon, <1>0, <2>1, <2>2, <2>3 DEF Above
<1>8. CASE Crash
  <2>1. cache' = Empty /\ ~running' /\ pc' = "idle"
    BY Zenon, <1>8 DEF Crash
  <2>2. \A o \in Outpoints : cache'[o] = NoEntry /\ NoEntry \in Entries
    BY Zenon, <2>1, CoinTypes DEF Empty, NoEntry, Entries
  <2>3. cache' = [o \in Outpoints |-> cache'[o]]
    BY Zenon, <2>1 DEF Empty
  <2> QED BY Zenon, <1>0, <2>1, <2>2, <2>3, Shapes DEF Above
<1>9. CASE Start
  <2>1. /\ cache' = cache /\ cache = Empty /\ pc = "idle" /\ pc' = "idle" /\ dbCoins' = dbCoins
        /\ dbCoins = Utxo(dbBest) /\ tip' = dbBest
    BY Zenon, <1>9 DEF Start, dbVars, Phases, Stored
  <2>2. \A o \in Outpoints : Seen(cache[o], dbCoins[o]) = dbCoins[o]
    BY Zenon, <2>1, Shapes DEF Empty
  <2> QED BY Zenon, <2>1, <2>2 DEF Above
<1>10. CASE ReplayBlocks
  <2>1. /\ cache' = cache /\ cache = Empty /\ pc = "idle" /\ pc' \in {"undo", "redo"}
        /\ dbCoins' = dbCoins /\ dbHeads' = dbHeads /\ dbHeads # <<>>
        /\ at' = IF dbHeads[2] = None THEN Genesis ELSE dbHeads[2]
    BY Zenon, <1>10, ReplayStarts DEF ReplayBlocks, dbVars, Phases
  <2>2. ASSUME NEW o \in Outpoints
        PROVE  Seen(cache[o], dbCoins[o]) \in {Utxo(at')[o], Utxo(dbHeads[1])[o]}
    <3>1. Seen(cache[o], dbCoins[o]) = dbCoins[o]
      BY Zenon, <2>1, Shapes DEF Empty
    <3>2. dbCoins[o] \in {Utxo(dbHeads[2])[o], Utxo(dbHeads[1])[o]}
      BY Zenon, <2>1 DEF Stored
    <3>3. Utxo(at')[o] = Utxo(dbHeads[2])[o]
      BY Zenon, <2>1, UtxoTypes
    <3> QED BY Zenon, <3>1, <3>2, <3>3
  <2> QED BY Zenon, <2>1, <2>2 DEF Above
<1>11. CASE ReplayBack
  <2>1. /\ pc = "undo" /\ at' = Parent[at] /\ pc' \in {"undo", "redo"}
        /\ dbCoins' = dbCoins /\ dbHeads' = dbHeads /\ at \in Blocks /\ Before(at) = Parent[at]
        /\ cache' = DisconnectBlock(cache, dbCoins, at)
    BY Zenon, <1>11, ReplaySteps DEF ReplayBack, dbVars, Phases
  <2>2. ASSUME NEW o \in Outpoints
        PROVE  /\ Sound(cache'[o], dbCoins[o]) /\ cache'[o] \in Entries
               /\ Seen(cache'[o], dbCoins[o]) \in {Utxo(at')[o], Utxo(dbHeads[1])[o]}
    <3> DEFINE v == Seen(cache[o], dbCoins[o])
               r == Seen(cache'[o], dbCoins[o])
               w == Utxo(dbHeads[1])[o]
    <3>1. dbCoins[o] \in Coin /\ Sound(cache[o], dbCoins[o]) /\ v \in {Utxo(at)[o], w}
      BY Zenon, <2>1 DEF Above, Stored
    <3>2. Sound(cache'[o], dbCoins[o]) /\ r = Back(at, o, v)
      BY ZenonT(60), <2>1, <3>1, DisconnectSound
    <3>3. /\ Back(at, o, Utxo(at)[o]) = Utxo(at')[o]
          /\ Back(at, o, w) \in {Utxo(at')[o], w}
      BY Zenon, <2>1, BlockUtxo
    <3> HIDE DEF v, r, w
    <3>4. r \in {Utxo(at')[o], w}
      BY Zenon, <3>1, <3>2, <3>3
    <3> QED BY Zenon, <2>1, <3>1, <3>2, <3>4, SoundTypes DEF r, w
  <2>3. cache' = [o \in Outpoints |-> cache'[o]]
    BY Zenon, <2>1 DEF DisconnectBlock
  <2> QED BY Zenon, <1>0, <2>1, <2>2, <2>3 DEF Above
<1>12. ASSUME NEW b \in Blocks, ReplayForward(b) PROVE Above'
  <2>1. /\ pc = "redo" /\ at' = b /\ pc' = "redo" /\ Before(b) = at
        /\ dbCoins' = dbCoins /\ dbHeads' = dbHeads
        /\ cache' = RollforwardBlock(cache, dbCoins, b)
    BY Zenon, <1>12, ReplaySteps DEF ReplayForward, dbVars
  <2>2. ASSUME NEW o \in Outpoints
        PROVE  /\ Sound(cache'[o], dbCoins[o]) /\ cache'[o] \in Entries
               /\ Seen(cache'[o], dbCoins[o]) \in {Utxo(at')[o], Utxo(dbHeads[1])[o]}
    <3> DEFINE v == Seen(cache[o], dbCoins[o])
               r == Seen(cache'[o], dbCoins[o])
               w == Utxo(dbHeads[1])[o]
    <3>1. dbCoins[o] \in Coin /\ Sound(cache[o], dbCoins[o]) /\ v \in {Utxo(Before(b))[o], w}
      BY Zenon, <2>1 DEF Above, Stored
    <3>2. Sound(cache'[o], dbCoins[o]) /\ r = Forward(b, o, v)
      BY Zenon, <2>1, <3>1, RollforwardSound
    <3>3. /\ Forward(b, o, Utxo(Before(b))[o]) = Utxo(at')[o]
          /\ Forward(b, o, w) \in {Utxo(at')[o], w}
      BY Zenon, <2>1, BlockUtxo
    <3> HIDE DEF v, r, w
    <3>4. r \in {Utxo(at')[o], w}
      BY Zenon, <3>1, <3>2, <3>3
    <3> QED BY Zenon, <2>1, <3>1, <3>2, <3>4, SoundTypes DEF r, w
  <2>3. cache' = [o \in Outpoints |-> cache'[o]]
    BY Zenon, <2>1 DEF RollforwardBlock
  <2> QED BY Zenon, <1>0, <2>1, <2>2, <2>3 DEF Above
<1>13. CASE ReplayFlush
  BY Zenon, <1>13 DEF ReplayFlush, Above
<1>14. CASE UNCHANGED vars
  BY Zenon, <1>14 DEF vars, dbVars, Above
<1> QED
  BY <1>1, <1>2, <1>3, <1>4, <1>5, <1>6, <1>7, <1>8, <1>9, <1>10, <1>11, <1>12, <1>13, <1>14,
     ZenonT(60) DEF Next

(* A flush begins with all that must be written to reach the new tip.      *)
LEMMA FlushBegins ==
  ASSUME NEW o \in Outpoints, dbCoins[o] \in Coin, Sound(cache[o], dbCoins[o])
  PROVE  /\ \E b \in Coin : Sound(cache[o], b)
         /\ cache[o].is => cache[o].coin = Seen(cache[o], dbCoins[o])
         /\ (o \in ToWrite /\ cache[o].dirty) \/ dbCoins[o] = Seen(cache[o], dbCoins[o])
<1>1. cache[o].dirty => cache[o].is
  BY Zenon, Fields DEF Sound
<1>2. cache[o].dirty => o \in ToWrite
  BY Zenon, <1>1 DEF ToWrite, Flagged
<1>3. ~cache[o].dirty => dbCoins[o] = Seen(cache[o], dbCoins[o])
  BY Fields, Shapes DEF Sound
<1>4. cache[o].is => cache[o].coin = Seen(cache[o], dbCoins[o])
  BY Zenon DEF Seen
<1> QED
  BY Zenon, <1>2, <1>3, <1>4

(* A flush goes on towards the new tip.                                    *)
LEMMA FlushingStep ==
  ASSUME FInv, [Next]_vars
  PROVE  Flushing'
<1> USE DEF FInv
<1>1. CASE WriteIndex
  <2>1. pc = "index" /\ running /\ best = tip
    BY Zenon, <1>1 DEF WriteIndex, Phases
  <2>2. /\ best' = best /\ cache' = cache /\ dbCoins' = dbCoins /\ todo' = ToWrite
    BY Zenon, <1>1 DEF WriteIndex, dbVars
  <2>3. \A o \in Outpoints : /\ dbCoins[o] \in Coin /\ Sound(cache[o], dbCoins[o])
                             /\ Seen(cache[o], dbCoins[o]) = Utxo(best)[o]
    BY Zenon, <2>1 DEF Above, Stored
  <2> QED BY Zenon, <2>2, <2>3, FlushBegins DEF Flushing
<1>2. CASE ReplayFlush
  <2>1. pc = "redo" /\ at = dbHeads[1]
    BY Zenon, <1>2, ReplaySteps DEF ReplayFlush
  <2>2. /\ best' = dbHeads[1] /\ cache' = cache /\ dbCoins' = dbCoins /\ todo' = ToWrite
    BY Zenon, <1>2 DEF ReplayFlush, dbVars
  <2>3. \A o \in Outpoints : /\ dbCoins[o] \in Coin /\ Sound(cache[o], dbCoins[o])
                             /\ Seen(cache[o], dbCoins[o]) = Utxo(dbHeads[1])[o]
    BY Zenon, <2>1 DEF Above, Stored
  <2> QED BY Zenon, <2>2, <2>3, FlushBegins DEF Flushing
<1>3. ASSUME NEW S \in SUBSET Outpoints, WritePartial(S) PROVE Flushing'
  <2>1. /\ pc \in {"coins", "replay"} /\ pc' = pc /\ best' = best /\ cache' = cache
        /\ dbCoins' = Written(S) /\ todo' = todo \ S
    BY Zenon, <1>3 DEF WritePartial
  <2>2. ASSUME NEW o \in Outpoints
        PROVE  (o \in todo' /\ cache[o].dirty) \/ dbCoins'[o] = Utxo(best)[o]
    BY Zenon, <2>1, BatchCoins DEF Flushing
  <2> QED BY Zenon, <2>1, <2>2 DEF Flushing
<1>4. pc' \notin {"coins", "replay"} => Flushing'
  BY Zenon DEF Flushing
<1>5. UNCHANGED vars => Flushing'
  BY Zenon DEF vars, dbVars, Flushing
<1>6. \/ pc' \notin {"coins", "replay"} \/ UNCHANGED vars \/ WriteIndex \/ ReplayFlush
      \/ \E S \in SUBSET Outpoints : WritePartial(S)
  BY Zenon DEF Next, AcceptBlock, ConnectTip, DisconnectTip, AccessCoin, Uncache, FlushStateToDisk, WriteLast,
         Crash, Start, ReplayBlocks, ReplayBack, ReplayForward, Idle, MaybeFlush, Phases
<1> QED
  BY <1>1, <1>2, <1>3, <1>4, <1>5, <1>6, ZenonT(60)

(* The invariant holds in the initial state: an empty database.            *)
LEMMA FInvInit ==
  Init => FInv
<1> SUFFICES ASSUME Init PROVE FInv
  BY Zenon
<1> USE DEF Init
<1>1. Places /\ Phases /\ Flushing
  BY Zenon DEF Places, Phases, Flushing
<1>2. Stored
  <2>1. dbCoins = Utxo(None)
    BY Zenon DEF Utxo
  <2>2. dbCoins \in [Outpoints -> Coin]
    BY Zenon, CoinTypes
  <2> QED BY Zenon, <2>1, <2>2 DEF Stored
<1>3. Above
  <2>1. NoEntry \in Entries
    BY Zenon, CoinTypes DEF NoEntry, Entries
  <2> QED BY Zenon, <2>1, Shapes DEF Above, Empty
<1> QED
  BY Zenon, <1>1, <1>2, <1>3 DEF FInv

(* The invariant holds in every reachable state.                           *)
LEMMA FInvHolds ==
  Spec => []FInv
<1>1. FInv /\ [Next]_vars => FInv'
  BY Zenon, PlacesStep, PhasesStep, StoredStep, AboveStep, FlushingStep DEF FInv
<1> QED
  BY FInvInit, <1>1, PTL DEF Spec

-----------------------------------------------------------------------------
(* The variables of CoinsFlush keep their types, in every block tree.      *)
THEOREM CoinsTypes ==
  Spec => []TypeOK
<1>1. FInv => TypeOK
  <2> SUFFICES ASSUME FInv PROVE TypeOK
    BY Zenon
  <2>1. Coin \subseteq Heights
    BY Zenon DEF Coin
  <2>2. dbCoins \in [Outpoints -> Heights]
    BY Zenon, <2>1 DEF FInv, Stored
  <2>3. dbHeads \in {<<>>} \cup (Blocks \X (Blocks \cup {None}))
    BY Zenon DEF FInv, Places
  <2>4. at \in Blocks \cup {None}
    BY Zenon, Heads, ChainClosed DEF FInv, Phases
  <2> QED BY Zenon, <2>2, <2>3, <2>4 DEF TypeOK, FInv, Places, Phases, Above
<1> QED
  BY <1>1, FInvHolds, PTL

(* An interrupted flush can be replayed (ReplayBlocks): the index on disk  *)
(* has both its tips, because FlushStateToDisk writes the index first; and *)
(* a flush is not begun in the middle of another one's transition          *)
(* (CCoinsViewDB::BatchWrite).                                             *)
THEOREM FlushCanBeReplayed ==
  Spec => []ReplayIsPossible
<1>1. FInv => ReplayIsPossible
  BY Zenon, Heads DEF FInv, Phases, ReplayIsPossible
<1> QED
  BY <1>1, FInvHolds, PTL

(* Every entry of the cache is in a state that coins.h lists as valid, and *)
(* FRESH only over a coin that the database does not have.                 *)
THEOREM CacheEntriesAreValid ==
  Spec => []EntriesAreValid
<1>1. FInv => EntriesAreValid
  <2> SUFFICES ASSUME FInv, NEW o \in Outpoints, cache[o].is
               PROVE  /\ cache[o].coin = Spent => cache[o].dirty # cache[o].fresh
                      /\ cache[o].coin # Spent /\ cache[o].fresh => cache[o].dirty
                      /\ pc \notin {"coins", "replay"} /\ cache[o].fresh => dbCoins[o] = Spent
    BY Zenon DEF EntriesAreValid
  <2>1. PICK b : Sound(cache[o], b) /\ (pc \notin {"coins", "replay"} => b = dbCoins[o])
    BY Zenon DEF FInv, Above, Flushing
  <2> QED BY <2>1, Fields DEF Sound
<1> QED
  BY <1>1, FInvHolds, PTL

(* A database that is not marked as in transition holds exactly the        *)
(* unspent outputs of the chain of its best block, after every sequence of *)
(* reorganisations, flushes and crashes, those in a flush or in a replay   *)
(* included.                                                               *)
THEOREM DatabaseHoldsUtxo ==
  Spec => []DatabaseIsRight
<1>1. FInv => DatabaseIsRight
  BY Zenon DEF FInv, Stored, DatabaseIsRight
<1> QED
  BY <1>1, FInvHolds, PTL

(* Through the cache the node sees exactly the unspent outputs of its tip. *)
THEOREM CacheShowsUtxo ==
  Spec => []CacheIsRight
<1>1. FInv => CacheIsRight
  <2> SUFFICES ASSUME FInv, Idle, tip # None PROVE best = tip /\ Coins(cache, dbCoins) = Utxo(tip)
    BY Zenon DEF CacheIsRight
  <2>1. best = tip
    BY Zenon DEF FInv, Phases, Idle
  <2>2. \A o \in Outpoints : Seen(cache[o], dbCoins[o]) = Utxo(tip)[o]
    BY Zenon, TipCache
  <2>3. Utxo(tip) = [o \in Outpoints |-> Utxo(tip)[o]]
    BY Zenon DEF Utxo
  <2> QED BY Zenon, <2>1, <2>2, <2>3 DEF Coins
<1> QED
  BY <1>1, FInvHolds, PTL

(* The block at the tip can always be disconnected: its undo data fits, so *)
(* DisconnectTip does not fail (DisconnectBlock, DISCONNECT_UNCLEAN).      *)
THEOREM TipDisconnectsCleanly ==
  Spec => [](Idle /\ tip # None => DisconnectsCleanly(Coins(cache, dbCoins), tip))
<1>1. FInv => (Idle /\ tip # None => DisconnectsCleanly(Coins(cache, dbCoins), tip))
  <2> SUFFICES ASSUME FInv, Idle, tip # None PROVE DisconnectsCleanly(Coins(cache, dbCoins), tip)
    BY Zenon
  <2>1. tip \in Blocks
    BY Zenon DEF FInv, Places
  <2>2. \A o \in Outpoints : Coins(cache, dbCoins)[o] = Utxo(tip)[o]
    BY Zenon, TipCache DEF Coins
  <2>3. Outs(tip) \subseteq Outpoints /\ Ins(tip) \subseteq Outpoints
    BY Zenon, <2>1, TxFacts
  <2> QED BY Zenon, <2>1, <2>2, <2>3, UtxoStep DEF DisconnectsCleanly
<1> QED
  BY <1>1, FInvHolds, PTL
=============================================================================
