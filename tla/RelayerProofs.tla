--------------------------- MODULE RelayerProofs ---------------------------
(***************************************************************************)
(* Proofs about module SolanaCorridor, for either direction, any number of *)
(* attesters with fewer faulty validators than the threshold, any timeout, *)
(* any confirmation depth and any number of reorganisations and forks:     *)
(* nothing is burned before its time and nothing is paid twice.            *)
(*                                                                         *)
(* And about module SwapPool, the swap pool whose price another keeper of  *)
(* the relayer's crate tends, for any prices, decimals, fees and stakes:   *)
(* swaps do not drain it, a price step cannot be traded against, and every *)
(* step is toward the target.                                              *)
(***************************************************************************)
EXTENDS SolanaCorridor, SwapPool, Sums

\* The inductive invariant, part by part.

Block == [st : Side, gap : Nat]
View == [st : Side, age : 0 .. Timeout]

CorridorTypes ==
  /\ {to_solana, deliverable, dated, transfer} \subseteq BOOLEAN
  /\ blocks \in Seq(Block) /\ blocks # <<>> /\ sol \in View /\ final \in View
  /\ votes \in [Quorums -> SUBSET (Attester \cup Faulty)] /\ age \in 0 .. Timeout
  /\ cursor \in [Attester -> 0 .. Len(Rows)] /\ pc \in [Attester -> Seq(Row)]
  /\ seen \in [Attester -> Side \cup {"unread"}] /\ late \in [Attester -> BOOLEAN]

\* A later view of a chain continues an earlier one.
Onward(s, t) == s = t \/ s = "none" \/ (s = "sent" /\ t = "refunded")

HistoriesGrow ==
  /\ \A i, j \in DOMAIN blocks : i <= j => Onward(blocks[i].st, blocks[j].st)
  /\ Onward(final.st, sol.st) /\ final.age <= sol.age

\* A chain is the source of the transfer or its destination, not both.
Locked == {"sent", "refunded"}
OnSide(chain, st) == st # "none" => (IsSource(chain) <=> st \in Locked)

SidesHold ==
  /\ \A i \in DOMAIN blocks : OnSide("evm", blocks[i].st)
  /\ OnSide("solana", sol.st) /\ OnSide("solana", final.st)

\* A lock in a confirmed block is as old as the blocks since.
LockIsOld ==
  to_solana =>
    \A i \in 1 .. confirmed_block :
      blocks[i].st \in Locked =>
        Cap(block_timestamp(confirmed_block) - block_timestamp(i)) <= age

\* What a vote of a validator that runs this code is worth, and which votes stand
\* behind each settlement on any view.
HonestVote(kind) == ~ (votes[kind] \subseteq Faulty)
BurnIsDue == IF to_solana THEN age = Timeout ELSE dated /\ final.age = Timeout
Shown(st) == st \in {sol.st, final.st} \/ \E i \in DOMAIN blocks : blocks[i].st = st

EvidenceHolds ==
  /\ HonestVote("cancel") => BurnIsDue
  /\ HonestVote("refund") => Destination = "cancelled"
  /\ HonestVote("cancel") \/ transfer => Source # "none"
  /\ Shown("cancelled") => HonestVote("cancel")
  /\ Shown("refunded") => HonestVote("refund")
  /\ Shown("claimed") => transfer

\* A read that is still to be acted on is about the transfer, and still true
\* where it can hurt.
ReadsHold ==
  \A a \in Attester :
    /\ seen[a] # "unread" => pc[a] # <<>> /\ Head(pc[a]) = "real" /\ routable(a, "real")
    /\ seen[a] \in {"claimed", "cancelled"} => Destination = seen[a]
    /\ late[a] => Destination = "claimed" /\ seen[a] \in {"unread", "claimed"}

CorridorInv ==
  CorridorTypes /\ HistoriesGrow /\ SidesHold /\ LockIsOld /\ EvidenceHolds /\ ReadsHold

-----------------------------------------------------------------------------
(* The clock of a chain of blocks *)

TimeOf(b, h) == SumFunctionOnSet([n \in 1 .. Len(b) |-> b[n].gap], 1 .. h)

LEMMA BlockFields ==
  ASSUME NEW b \in Seq(Block)
  PROVE  Len(b) \in Nat /\ \A n \in 1 .. Len(b) : b[n].gap \in Nat /\ b[n].st \in Side
<1>1. Len(b) \in Nat /\ \A n \in 1 .. Len(b) : b[n] \in Block
  OBVIOUS
<1> QED BY <1>1 DEF Block

\* block_timestamp is this clock.
LEMMA TimesOfBlocks == \A h : block_timestamp(h) = TimeOf(blocks, h)
BY DEF block_timestamp, TimeOf

\* Each block adds its gap.
LEMMA TimeStep ==
  ASSUME NEW b \in Seq(Block), NEW h \in 0 .. Len(b)
  PROVE  /\ TimeOf(b, 0) = 0 /\ TimeOf(b, h) \in Int
         /\ h < Len(b) => TimeOf(b, h + 1) = TimeOf(b, h) + b[h + 1].gap
<1> DEFINE f == [n \in 1 .. Len(b) |-> b[n].gap]
<1>1. \A n \in 1 .. Len(b) : f[n] \in Int /\ f[n] = b[n].gap
  BY BlockFields
<1>2. Len(b) \in Nat /\ h \in Nat /\ IsFiniteSet(1 .. h)
  <2>1. Len(b) \in Nat /\ h \in Int /\ 1 \in Int
    OBVIOUS
  <2> QED BY <2>1, FS_Interval
<1>3. 1 .. 0 = {} /\ \A x \in 1 .. h : x \in 1 .. Len(b)
  OBVIOUS
<1>4. SumFunctionOnSet(f, 1 .. 0) = 0
  BY <1>3, SumOfNothing
<1>5. \A x \in 1 .. h : f[x] \in Int
  BY <1>1, <1>3
<1> HIDE DEF f
<1>6. SumFunctionOnSet(f, 1 .. h) \in Int
  BY <1>2, <1>5, SumType
<1>7. ASSUME h < Len(b)
      PROVE  SumFunctionOnSet(f, 1 .. (h + 1)) = SumFunctionOnSet(f, 1 .. h) + f[h + 1]
  <2> DEFINE I == 1 .. h
             x == h + 1
  <2>1. 1 .. (h + 1) = I \cup {x} /\ x \notin I
    BY <1>2
  <2>2. \A y \in I \cup {x} : f[y] \in Int
    BY <1>1, <1>2, <1>7
  <2>3. IsFiniteSet(I)
    BY <1>2
  <2> HIDE DEF I, x
  <2>4. SumFunctionOnSet(f, I \cup {x}) = SumFunctionOnSet(f, I) + f[x]
    BY <2>1, <2>2, <2>3, SumWith
  <2> QED BY <2>1, <2>4 DEF I, x
<1> QED BY <1>1, <1>4, <1>6, <1>7 DEF TimeOf, f

\* The time of a block depends on the blocks up to it.
LEMMA TimeAgrees ==
  ASSUME NEW b \in Seq(Block), NEW c \in Seq(Block), NEW h \in Nat, h <= Len(b), h <= Len(c),
         \A i \in 1 .. h : b[i] = c[i]
  PROVE  TimeOf(b, h) = TimeOf(c, h)
<1> DEFINE f == [n \in 1 .. Len(b) |-> b[n].gap]
           g == [n \in 1 .. Len(c) |-> c[n].gap]
<1>1. IsFiniteSet(1 .. h)
  BY FS_Interval
<1>2. \A n \in 1 .. h : f[n] = g[n]
  OBVIOUS
<1> HIDE DEF f, g
<1>3. SumFunctionOnSet(f, 1 .. h) = SumFunctionOnSet(g, 1 .. h)
  BY <1>1, <1>2, SumOfEquals
<1> QED BY <1>3 DEF TimeOf, f, g

\* Forgetting the oldest block shifts the clock by its gap.
LEMMA TimeForgets ==
  ASSUME NEW b \in Seq(Block), b # <<>>
  PROVE  \A h \in 0 .. Len(b) - 1 : TimeOf(Tail(b), h) = TimeOf(b, h + 1) - b[1].gap
<1> DEFINE c == Tail(b)
           N == {n \in Nat : n <= Len(b) - 1 => TimeOf(c, n) = TimeOf(b, n + 1) - b[1].gap}
<1>1. c \in Seq(Block) /\ Len(c) = Len(b) - 1 /\ \A i \in 1 .. Len(c) : c[i] = b[i + 1]
  OBVIOUS
<1>2. Len(b) \in Nat /\ Len(b) >= 1 /\ \A i \in 1 .. Len(b) : b[i].gap \in Int
  <2>1. Len(b) >= 1 /\ Len(b) \in Nat
    OBVIOUS
  <2> QED BY <2>1, BlockFields
<1> HIDE DEF c
<1>3. 0 \in N
  BY <1>1, <1>2, TimeStep
<1>4. ASSUME NEW n \in Nat, n \in N PROVE n + 1 \in N
  <2> SUFFICES ASSUME n + 1 <= Len(b) - 1
               PROVE  TimeOf(c, n + 1) = TimeOf(b, n + 2) - b[1].gap
    OBVIOUS
  <2>1. TimeOf(c, n) = TimeOf(b, n + 1) - b[1].gap
    BY <1>2, <1>4
  <2>2. TimeOf(c, n + 1) = TimeOf(c, n) + b[n + 2].gap
    <3>1. n \in 0 .. Len(c) /\ n < Len(c) /\ c[n + 1] = b[n + 2]
      BY <1>1, <1>2
    <3> QED BY <1>1, <3>1, TimeStep
  <2>3. n + 1 \in 0 .. Len(b) /\ n + 1 < Len(b) /\ (n + 1) + 1 = n + 2
    BY <1>2
  <2>4. TimeOf(b, n + 1) \in Int /\ TimeOf(b, n + 2) = TimeOf(b, n + 1) + b[n + 2].gap
    BY <2>3, TimeStep
  <2>5. b[1].gap \in Int /\ b[n + 2].gap \in Int
    BY <1>2, <2>3
  <2> QED BY <2>1, <2>2, <2>4, <2>5
<1> HIDE DEF N
<1>5. Nat \subseteq N
  BY <1>3, <1>4, CountingUp
<1> QED BY <1>2, <1>5 DEF N, c

-----------------------------------------------------------------------------
(* What the steps of the two chains do *)

\* A block is added, and the oldest one forgotten if k = 1; its time is then the new
\* origin.
Grown(k, c, x) ==
  /\ Len(blocks') = Len(blocks) + 1 - k
  /\ k = 1 => confirmed_block >= 1
  /\ \A i \in 1 .. Len(blocks') :
       /\ blocks'[i] = IF i + k <= Len(blocks) THEN blocks[i + k] ELSE x
       /\ i + k <= Len(blocks) => TimeOf(blocks', i) = TimeOf(blocks, i + k) - c
       /\ i > 1 => TimeOf(blocks', i) = TimeOf(blocks', i - 1) + blocks'[i].gap

LEMMA MineGrows ==
  ASSUME CorridorTypes, CorridorAssumption, NEW st \in Side, NEW gap \in Nat, mine(st, gap)
  PROVE  /\ blocks' \in Seq(Block) /\ blocks' # <<>>
         /\ \E k \in {0, 1}, c \in Int : Grown(k, c, [st |-> st, gap |-> gap])
<1> DEFINE x == [st |-> st, gap |-> gap]
           grown == Append(blocks, x)
<1>1. /\ blocks \in Seq(Block) /\ x \in Block /\ Len(blocks) \in Nat /\ Len(blocks) >= 1
      /\ Window \in Nat /\ block_confirmation \in Nat /\ Window > block_confirmation
  BY DEF CorridorTypes, Block, CorridorAssumption
<1>2. blocks' = IF Len(grown) > Window THEN Tail(grown) ELSE grown
  BY DEF mine
<1> HIDE DEF x
<1>3. /\ grown \in Seq(Block) /\ Len(grown) = Len(blocks) + 1 /\ grown # <<>>
      /\ \A i \in 1 .. Len(grown) : grown[i] = IF i <= Len(blocks) THEN blocks[i] ELSE x
  <2>1. grown \in Seq(Block) /\ Len(grown) = Len(blocks) + 1
    BY <1>1
  <2>2. \A i \in 1 .. Len(blocks) + 1 : grown[i] = IF i <= Len(blocks) THEN blocks[i] ELSE x
    BY <1>1
  <2> QED BY <1>1, <2>1, <2>2
<1> HIDE DEF grown
<1>4. \A i \in 1 .. Len(blocks) : TimeOf(grown, i) = TimeOf(blocks, i)
  <2> SUFFICES ASSUME NEW i \in 1 .. Len(blocks)
               PROVE  TimeOf(grown, i) = TimeOf(blocks, i)
    OBVIOUS
  <2>1. /\ i \in Nat /\ i <= Len(grown) /\ i <= Len(blocks)
        /\ \A j \in 1 .. i : grown[j] = blocks[j]
    BY <1>1, <1>3
  <2> QED BY <1>1, <1>3, <2>1, TimeAgrees
<1>5. ASSUME NEW b \in Seq(Block)
      PROVE  \A i \in 2 .. Len(b) : TimeOf(b, i) = TimeOf(b, i - 1) + b[i].gap
  <2> SUFFICES ASSUME NEW i \in 2 .. Len(b)
               PROVE  TimeOf(b, i) = TimeOf(b, i - 1) + b[i].gap
    OBVIOUS
  <2>1. i - 1 \in 0 .. Len(b) /\ i - 1 < Len(b) /\ (i - 1) + 1 = i
    OBVIOUS
  <2> QED BY <2>1, TimeStep
<1>6. CASE Len(grown) <= Window
  <2>1. blocks' = grown
    BY <1>1, <1>2, <1>3, <1>6
  <2>2. \A i \in 1 .. Len(blocks') :
          i + 0 <= Len(blocks) => TimeOf(blocks', i) = TimeOf(blocks, i + 0) - 0
    <3> SUFFICES ASSUME NEW i \in 1 .. Len(blocks), i \in 1 .. Len(blocks')
                 PROVE  TimeOf(blocks', i) = TimeOf(blocks, i + 0) - 0
      BY <1>1
    <3>1. TimeOf(blocks, i) \in Int /\ TimeOf(blocks', i) = TimeOf(blocks, i)
      BY <1>1, <1>4, <2>1, TimeStep
    <3> QED BY <3>1
  <2>3. \A i \in 1 .. Len(blocks') :
          i > 1 => TimeOf(blocks', i) = TimeOf(blocks', i - 1) + blocks'[i].gap
    <3>1. blocks' \in Seq(Block) /\ Len(blocks') \in Nat
      BY <1>1, <1>3, <2>1
    <3> QED BY <1>5, <3>1
  <2>4. /\ Len(blocks') = Len(blocks) + 1 - 0
        /\ \A i \in 1 .. Len(blocks') :
             blocks'[i] = IF i + 0 <= Len(blocks) THEN blocks[i + 0] ELSE x
    BY <1>1, <1>3, <2>1
  <2>5. Grown(0, 0, x)
    BY <2>2, <2>3, <2>4 DEF Grown
  <2> QED BY <1>3, <2>1, <2>5 DEF x
<1>7. CASE Len(grown) > Window
  <2>1. blocks' = Tail(grown)
    BY <1>2, <1>7
  <2>2. confirmed_block >= 1
    BY <1>1, <1>3, <1>7 DEF confirmed_block
  <2>3. /\ blocks' \in Seq(Block) /\ Len(blocks') = Len(blocks)
        /\ \A i \in 1 .. Len(blocks') : blocks'[i] = grown[i + 1]
    BY <1>1, <1>3, <2>1
  <2>4. \A i \in 1 .. Len(blocks') :
          blocks'[i] = IF i + 1 <= Len(blocks) THEN blocks[i + 1] ELSE x
    BY <1>1, <1>3, <2>3
  <2>5. grown[1].gap \in Int
    BY <1>3, BlockFields
  <2>6. \A i \in 1 .. Len(blocks') :
          i + 1 <= Len(blocks) => TimeOf(blocks', i) = TimeOf(blocks, i + 1) - grown[1].gap
    <3> SUFFICES ASSUME NEW i \in 1 .. Len(blocks'), i + 1 <= Len(blocks)
                 PROVE  TimeOf(blocks', i) = TimeOf(blocks, i + 1) - grown[1].gap
      OBVIOUS
    <3>1. i \in 0 .. Len(grown) - 1 /\ i + 1 \in 1 .. Len(blocks)
      BY <1>1, <1>3, <2>3
    <3> QED BY <1>3, <1>4, <2>1, <3>1, TimeForgets
  <2>7. \A i \in 1 .. Len(blocks') :
          i > 1 => TimeOf(blocks', i) = TimeOf(blocks', i - 1) + blocks'[i].gap
    BY <1>5, <2>3
  <2>8. blocks' # <<>> /\ Len(blocks') = Len(blocks) + 1 - 1
    BY <1>1, <2>3
  <2>9. Grown(1, grown[1].gap, x)
    BY <2>2, <2>4, <2>6, <2>7, <2>8 DEF Grown
  <2> QED BY <2>3, <2>5, <2>8, <2>9 DEF x
<1> QED BY <1>1, <1>3, <1>6, <1>7

\* What a gate may do next continues its history, on its side, with a quorum.
\* What a gate asks for before it settles a transfer.
Settled == {"cancelled", "refunded", "claimed"}
Backed(st) ==
  \/ st = "cancelled" /\ Quorum("cancel")
  \/ st = "refunded" /\ Quorum("refund")
  \/ st = "claimed" /\ transfer

LEMMA GateStepFacts ==
  ASSUME NEW chain, NEW st, OnSide(chain, st), NEW next \in GateSteps(chain, st)
  PROVE  /\ next \in Side /\ Onward(st, next) /\ OnSide(chain, next)
         /\ next \in Settled => Backed(next)
BY DEF GateSteps, OnSide, Onward, Locked, Side, Settled, Backed

LEMMA OnwardIsTransitive ==
  ASSUME NEW s, NEW t, NEW u, Onward(s, t), Onward(t, u)
  PROVE  Onward(s, u)
BY DEF Onward

\* What every step of the two chains keeps.
MovesOn ==
  /\ HistoriesGrow' /\ SidesHold' /\ LockIsOld'
  /\ Onward(Destination, Destination') /\ Onward(Source, Source')
  /\ Destination' = Destination \/ Source' = Source
  /\ age <= age' /\ final.age <= final.age'
  /\ \A s \in Settled : Shown(s)' => Shown(s) \/ Backed(s)
  /\ transfer => transfer'
  /\ transfer' => transfer \/ Source' # "none"

Chains == CorridorTypes /\ HistoriesGrow /\ SidesHold /\ LockIsOld

\* The EVM chain grows.
LEMMA MineMovesOn ==
  ASSUME Chains, CorridorAssumption, NEW st \in GateSteps("evm", Tip) \cup {Tip},
         NEW gap \in Gaps, mine(st, gap)
  PROVE  CorridorTypes' /\ MovesOn
<1> DEFINE x == [st |-> st, gap |-> gap]
           n == Len(blocks)
           cb == confirmed_block
           y == [i \in 1 .. n + 1 |-> IF i <= n THEN blocks[i] ELSE x]
<1>1. /\ blocks \in Seq(Block) /\ n \in Nat /\ n >= 1 /\ n = Len(blocks)
      /\ DOMAIN blocks = 1 .. n /\ cb = confirmed_block /\ cb = n - block_confirmation
      /\ block_confirmation \in Nat /\ Timeout \in Nat /\ age \in 0 .. Timeout
      /\ \A i \in 1 .. n : blocks[i].gap \in Nat /\ blocks[i].st \in Side
  BY BlockFields DEF Chains, CorridorTypes, CorridorAssumption, confirmed_block
<1>2. /\ UNCHANGED <<setup, solana, votes, attesters, forks>>
      /\ age' = IF to_solana /\ State(cb) \in Locked
                THEN Cap(age + Append(blocks, x)[cb + 1].gap) ELSE age
      /\ transfer' \in BOOLEAN
  BY DEF mine, Locked, Chains, CorridorTypes
<1>3. Tip = blocks[n].st
  BY <1>1 DEF Tip, State
<1>4. /\ gap \in Nat /\ st \in Side /\ Onward(blocks[n].st, st) /\ OnSide("evm", st)
      /\ st \in Settled => blocks[n].st = st \/ Backed(st)
  <2>1. OnSide("evm", blocks[n].st)
    BY <1>1 DEF Chains, SidesHold
  <2>2. gap \in Nat
    BY DEF CorridorAssumption
  <2> QED BY <1>1, <1>3, <2>1, <2>2, GateStepFacts DEF Onward
<1>5. blocks' \in Seq(Block) /\ blocks' # <<>>
  BY <1>4, MineGrows DEF Chains
<1>6. PICK k \in {0, 1}, c \in Int : Grown(k, c, x)
  BY <1>4, MineGrows DEF Chains
<1>7. /\ Len(blocks') = n + 1 - k /\ confirmed_block' = cb + 1 - k
      /\ k = 1 => cb >= 1
      /\ \A i \in 1 .. Len(blocks') : i + k \in 1 .. n + 1 /\ blocks'[i] = y[i + k]
  BY <1>1, <1>6 DEF Grown, confirmed_block
<1>8. /\ \A i \in 1 .. n + 1 : y[i].gap \in Nat /\ y[i].st \in Side
      /\ \A i \in 1 .. n : y[i] = blocks[i] /\ Append(blocks, x)[i] = y[i]
      /\ y[n + 1] = x /\ Append(blocks, x)[n + 1] = y[n + 1] /\ x.st = st /\ x.gap = gap
  <2>1. x.st = st /\ x.gap = gap
    OBVIOUS
  <2>2. \A i \in 1 .. n : y[i] = blocks[i]
    BY <1>1
  <2>3. y[n + 1] = x
    BY <1>1
  <2> HIDE DEF x, y
  <2>4. Append(blocks, x)[n + 1] = x /\ \A i \in 1 .. n : Append(blocks, x)[i] = blocks[i]
    BY <1>1
  <2>5. \A i \in 1 .. n + 1 : i \in 1 .. n \/ i = n + 1
    BY <1>1
  <2> QED BY <1>1, <1>4, <2>1, <2>2, <2>3, <2>4, <2>5
<1> HIDE DEF n, cb, x, y
<1>9. age' \in 0 .. Timeout /\ age <= age'
      /\ (to_solana /\ State(cb) \in Locked => age' = Cap(age + y[cb + 1].gap))
  <2>1. cb >= 1 => cb + 1 \in 1 .. n + 1 /\ Append(blocks, x)[cb + 1] = y[cb + 1]
    BY <1>1, <1>8
  <2>2. cb < 1 => State(cb) = "none"
    BY DEF State
  <2>3. CASE to_solana /\ State(cb) \in Locked
    <3>1. age' = Cap(age + y[cb + 1].gap) /\ y[cb + 1].gap \in Nat
      BY <1>1, <1>2, <1>8, <2>1, <2>2, <2>3 DEF Locked
    <3>2. \A gone \in Nat : Cap(age + gone) \in 0 .. Timeout /\ age <= Cap(age + gone)
      <4>1. Timeout \in Nat /\ age \in 0 .. Timeout
        BY <1>1
      <4> QED BY <4>1 DEF Cap
    <3> QED BY <3>1, <3>2
  <2>4. CASE ~ (to_solana /\ State(cb) \in Locked)
    <3>1. age' = age
      BY <1>2, <2>4
    <3> QED BY <1>1, <2>4, <3>1
  <2> QED BY <2>3, <2>4
<1>10. CorridorTypes'
  BY <1>2, <1>5, <1>9 DEF Chains, CorridorTypes, setup, solana, attesters
<1>11. \A i, j \in 1 .. n + 1 : i <= j => Onward(y[i].st, y[j].st)
  <2> SUFFICES ASSUME NEW i \in 1 .. n + 1, NEW j \in 1 .. n + 1, i <= j
               PROVE  Onward(y[i].st, y[j].st)
    OBVIOUS
  <2>1. CASE j <= n
    <3>1. i \in 1 .. n /\ j \in 1 .. n
      BY <1>1, <2>1
    <3> QED BY <1>1, <1>8, <3>1 DEF Chains, HistoriesGrow
  <2>2. CASE j = n + 1 /\ i <= n
    <3>1. Onward(blocks[i].st, blocks[n].st)
      BY <1>1, <2>2 DEF Chains, HistoriesGrow
    <3> QED BY <1>1, <1>4, <1>8, <2>2, <3>1, OnwardIsTransitive
  <2>3. CASE i = n + 1 /\ j = n + 1
    BY <2>3 DEF Onward
  <2> QED BY <1>1, <2>1, <2>2, <2>3
<1>sizes. n \in Nat /\ k \in {0, 1} /\ cb \in Int /\ cb <= n /\ Len(blocks') \in Int
  BY <1>1, <1>7
<1>shifted. \A i \in 1 .. Len(blocks') : i + k \in 1 .. n + 1 /\ blocks'[i] = y[i + k]
  BY <1>7
<1>12. HistoriesGrow'
  <2> SUFFICES ASSUME NEW i \in 1 .. Len(blocks'), NEW j \in 1 .. Len(blocks'), i <= j
               PROVE  Onward(blocks'[i].st, blocks'[j].st)
    BY <1>2, <1>5 DEF Chains, HistoriesGrow, solana
  <2>1. i + k \in 1 .. n + 1 /\ j + k \in 1 .. n + 1
    BY <1>shifted
  <2>order. i + k <= j + k
    BY <1>sizes
  <2>2. Onward(y[i + k].st, y[j + k].st)
    BY <1>11, <2>1, <2>order
  <2> QED BY <1>shifted, <2>2
<1>13. SidesHold'
  <2>1. \A i \in DOMAIN blocks' : OnSide("evm", blocks'[i].st)
    <3> SUFFICES ASSUME NEW i \in 1 .. Len(blocks') PROVE OnSide("evm", blocks'[i].st)
      BY <1>5
    <3>1. \A m \in 1 .. n + 1 : m \in 1 .. n \/ m = n + 1
      BY <1>1
    <3>2. \A m \in 1 .. n + 1 : OnSide("evm", y[m].st)
      BY <1>1, <1>4, <1>8, <3>1 DEF Chains, SidesHold
    <3> QED BY <1>shifted, <3>2
  <2> QED BY <1>2, <2>1 DEF Chains, SidesHold, OnSide, IsSource, setup, solana
<1>14. LockIsOld'
  <2> SUFFICES ASSUME to_solana, NEW i \in 1 .. confirmed_block', blocks'[i].st \in Locked
               PROVE  Cap(TimeOf(blocks', confirmed_block') - TimeOf(blocks', i)) <= age'
    BY <1>2 DEF LockIsOld, block_timestamp, TimeOf, setup
  <2>new. Len(blocks') = n + 1 - k /\ confirmed_block' = cb + 1 - k
    BY <1>7
  <2>1. i \in Nat /\ i <= Len(blocks') /\ i + k \in 1 .. n + 1 /\ i + k <= cb + 1
        /\ cb + 1 - k \in 1 .. Len(blocks')
    BY <1>sizes, <2>new
  <2>2. y[i + k].st \in Locked
    BY <1>shifted, <2>1
  <2>3. TimeOf(blocks', i) \in Int
    BY <1>5, <2>1, TimeStep
  <2>4. CASE i + k = cb + 1
    <3>1. confirmed_block' = i
      BY <1>sizes, <2>new, <2>1, <2>4
    <3>2. Cap(TimeOf(blocks', i) - TimeOf(blocks', i)) = 0
      BY <1>1, <2>3 DEF Cap
    <3> QED BY <1>9, <3>1, <3>2
  <2>5. CASE i + k <= cb
    <3>1. i + k \in 1 .. n /\ cb \in 1 .. n /\ blocks[i + k].st \in Locked
      <4>1. n \in Nat /\ cb \in Int /\ cb <= n /\ i + k \in 1 .. n + 1
        BY <1>sizes, <2>1
      <4>2. i + k \in 1 .. n /\ cb \in 1 .. n
        BY <2>5, <4>1
      <4> QED BY <1>8, <2>2, <4>2
    <3>2. State(cb) = blocks[cb].st /\ State(cb) \in Locked
      <4>1. Onward(blocks[i + k].st, blocks[cb].st)
        BY <1>1, <2>5, <3>1 DEF Chains, HistoriesGrow
      <4> QED BY <1>1, <3>1, <4>1 DEF State, Onward, Locked
    <3>3. Cap(TimeOf(blocks, cb) - TimeOf(blocks, i + k)) <= age
      <4>1. i + k \in 1 .. confirmed_block
        BY <1>1, <2>1, <2>5, <3>1
      <4>2. Cap(block_timestamp(confirmed_block) - block_timestamp(i + k)) <= age
        BY <3>1, <4>1 DEF Chains, LockIsOld
      <4> QED BY <1>1, <4>2, TimesOfBlocks
    <3>4. TimeOf(blocks, cb) \in Int /\ TimeOf(blocks, i + k) \in Int
      BY <1>1, <3>1, TimeStep
    <3>5. TimeOf(blocks', i) = TimeOf(blocks, i + k) - c
      BY <1>1, <1>6, <3>1 DEF Grown
    <3>6. cb - k \in 1 .. Len(blocks') /\ (cb - k) + k = cb /\ (cb + 1 - k) - 1 = cb - k
          /\ cb + 1 - k > 1
      <4>1. k = 0 \/ k = 1
        OBVIOUS
      <4> QED BY <1>sizes, <2>1, <2>5, <4>1
    <3>7. TimeOf(blocks', cb - k) = TimeOf(blocks, cb) - c
      <4>1. (cb - k) + k <= Len(blocks) /\ (cb - k) + k = cb
        BY <1>1, <3>1, <3>6
      <4> QED BY <1>6, <3>6, <4>1 DEF Grown
    <3>8. TimeOf(blocks', cb + 1 - k) = TimeOf(blocks', cb - k) + y[cb + 1].gap
      <4>1. TimeOf(blocks', cb + 1 - k) = TimeOf(blocks', cb - k) + blocks'[cb + 1 - k].gap
        BY <1>6, <2>1, <3>6 DEF Grown
      <4> DEFINE j == cb + 1 - k
      <4>int. cb \in Int /\ k \in Int /\ cb + 1 - k > 1
        BY <1>sizes, <3>6
      <4>2. j \in Nat /\ j + k = cb + 1
        BY <4>int
      <4>3. blocks'[j] = y[j + k]
        BY <1>sizes, <1>shifted, <2>1, <3>6
      <4>4. blocks'[j].gap = y[cb + 1].gap
        BY <4>2, <4>3
      <4> QED BY <4>1, <4>4
    <3>9. y[cb + 1].gap \in Nat /\ age' = Cap(age + y[cb + 1].gap)
      <4>1. cb + 1 \in 1 .. n + 1
        BY <1>1, <3>1
      <4> QED BY <1>8, <1>9, <3>2, <4>1
    <3> DEFINE d == TimeOf(blocks, cb) - TimeOf(blocks, i + k)
               g == y[cb + 1].gap
    <3>10. TimeOf(blocks', confirmed_block') - TimeOf(blocks', i) = d + g
      <4>1. /\ confirmed_block' = cb + 1 - k /\ c \in Int
            /\ TimeOf(blocks', cb + 1 - k) = (TimeOf(blocks, cb) - c) + g
        BY <1>7, <3>7, <3>8
      <4>2. PICK now \in Int, then \in Int, more \in Nat :
              now = TimeOf(blocks, cb) /\ then = TimeOf(blocks, i + k) /\ more = g
        BY <3>4, <3>9, Zenon
      <4>3. /\ TimeOf(blocks', confirmed_block') = (now - c) + more
            /\ TimeOf(blocks', i) = then - c /\ d + g = (now - then) + more
        BY <3>5, <4>1, <4>2
      <4>4. ((now - c) + more) - (then - c) = (now - then) + more
        BY <4>1
      <4> QED BY <4>3, <4>4, Zenon
    <3>11. d \in Int /\ g \in Nat /\ Cap(d) <= age /\ age' = Cap(age + g)
      BY <3>3, <3>4, <3>9
    <3> HIDE DEF d, g
    <3>12. Cap(d + g) <= age'
      <4>1. Timeout \in Nat /\ age \in Nat
        BY <1>1
      <4> QED BY <3>11, <4>1 DEF Cap
    <3> QED BY <3>10, <3>12
  <2>6. i + k = cb + 1 \/ i + k <= cb
    BY <1>sizes, <2>1
  <2> QED BY <2>4, <2>5, <2>6
<1>15. Onward(State(cb), State(confirmed_block)')
  <2>1. CASE cb < 1
    BY <1>1, <2>1 DEF State, Onward
  <2>2. CASE cb >= 1
    <3>1. cb \in 1 .. n /\ confirmed_block' \in 1 .. Len(blocks') /\ confirmed_block' + k = cb + 1
      BY <1>1, <1>7, <2>2
    <3>2. blocks'[confirmed_block'] = y[cb + 1] /\ y[cb] = blocks[cb]
      BY <1>7, <1>8, <3>1
    <3>3. cb + 1 \in 1 .. n + 1 /\ cb \in 1 .. n + 1 /\ cb <= cb + 1
      BY <1>1, <3>1
    <3>4. Onward(y[cb].st, y[cb + 1].st)
      BY <1>11, <3>3
    <3>5. State(cb) = y[cb].st
      BY <1>1, <3>1, <3>2 DEF State
    <3>6. State(confirmed_block)' = y[cb + 1].st
      BY <3>1, <3>2 DEF State
    <3> QED BY <3>4, <3>5, <3>6
  <2> QED BY <1>1, <2>1, <2>2
<1>confirmed. /\ Onward(Destination, Destination') /\ Onward(Source, Source')
              /\ Destination' = Destination \/ Source' = Source
  BY <1>1, <1>2, <1>15 DEF Destination, Source, Onward, setup, solana
<1>signed. /\ transfer => transfer'
           /\ transfer' => transfer \/ Source' # "none"
  <2>1. transfer' = (transfer \/ (to_solana /\ cb >= 0 /\ Append(blocks, x)[cb + 1].st = "sent"))
    BY <1>1 DEF mine, x
  <2>2. ASSUME to_solana, cb >= 0, Append(blocks, x)[cb + 1].st = "sent" PROVE Source' # "none"
    <3>1. cb + 1 \in 1 .. n + 1 /\ confirmed_block' + k = cb + 1
      BY <1>1, <1>7, <2>2
    <3>2. y[cb + 1].st = "sent"
      <4>1. cb + 1 \in 1 .. n \/ cb + 1 = n + 1
        BY <1>1, <3>1
      <4> QED BY <1>8, <2>2, <4>1
    <3>3. confirmed_block' \in 1 .. Len(blocks')
      BY <1>1, <1>7, <2>2
    <3>4. State(confirmed_block)' = "sent"
      BY <1>7, <3>1, <3>2, <3>3 DEF State
    <3> QED BY <1>2, <2>2, <3>4 DEF Source, setup
  <2> QED BY <2>1, <2>2 DEF Chains, CorridorTypes
<1>16. ASSUME NEW s \in Settled, Shown(s)'
       PROVE  Shown(s) \/ Backed(s)
  <2>1. CASE s \in {sol.st, final.st}
    BY <2>1 DEF Shown
  <2>2. CASE \E i \in DOMAIN blocks' : blocks'[i].st = s
    <3>1. PICK i \in 1 .. Len(blocks') : blocks'[i].st = s
      BY <1>5, <2>2
    <3>2. i + k \in 1 .. n + 1 /\ y[i + k].st = s
      BY <1>7, <3>1
    <3>3. PICK m \in 1 .. n + 1 : y[m].st = s
      BY <3>2
    <3>4. CASE m \in 1 .. n
      BY <1>1, <1>8, <3>3, <3>4 DEF Shown
    <3>5. CASE m = n + 1
      <4>1. st = s /\ n \in 1 .. n
        BY <1>1, <1>8, <3>3, <3>5
      <4> QED BY <1>1, <1>4, <4>1 DEF Shown
    <3> QED BY <1>1, <3>3, <3>4, <3>5
  <2> QED BY <1>2, <1>16, <2>1, <2>2 DEF Shown, solana
<1>18. final.age <= final.age'
  BY <1>2 DEF solana, Chains, CorridorTypes, View
<1> QED
  BY <1>9, <1>10, <1>12, <1>13, <1>14, <1>16, <1>18, <1>confirmed, <1>signed DEF MovesOn

\* The newest block of the EVM chain is replaced; the confirmed ones are not.
LEMMA ReorgMovesOn ==
  ASSUME Chains, CorridorAssumption, Reorg
  PROVE  CorridorTypes' /\ MovesOn
<1> DEFINE n == Len(blocks)
           m == n - 1
           cb == confirmed_block
<1>1. /\ blocks \in Seq(Block) /\ n \in Nat /\ n > 1 /\ n = Len(blocks) /\ m = n - 1
      /\ DOMAIN blocks = 1 .. n /\ cb = confirmed_block /\ cb = n - block_confirmation
      /\ block_confirmation \in Nat /\ block_confirmation > 0 /\ cb <= m
      /\ \A i \in 1 .. n : blocks[i] \in Block
  BY DEF Reorg, Chains, CorridorTypes, CorridorAssumption, confirmed_block
<1>2. PICK st \in {blocks[m].st} \cup GateSteps("evm", blocks[m].st), gap \in Gaps :
        blocks' = Append(Front(blocks), [st |-> st, gap |-> gap])
  BY DEF Reorg
<1>3. UNCHANGED <<setup, solana, transfer, votes, attesters, age>>
  BY DEF Reorg
<1> DEFINE x == [st |-> st, gap |-> gap]
<1>4. /\ gap \in Nat /\ st \in Side /\ Onward(blocks[m].st, st) /\ OnSide("evm", st)
      /\ st \in Settled => blocks[m].st = st \/ Backed(st)
  <2>1. m \in 1 .. n
    BY <1>1
  <2>2. OnSide("evm", blocks[m].st) /\ blocks[m].st \in Side
    BY <1>1, <2>1 DEF Chains, SidesHold, Block
  <2>3. gap \in Nat
    BY DEF CorridorAssumption
  <2> QED BY <1>2, <2>2, <2>3, GateStepFacts DEF Onward
<1>5. x \in Block /\ x.st = st
  BY <1>4 DEF Block
<1> HIDE DEF n, m, cb, x
<1>6. /\ blocks' \in Seq(Block) /\ blocks' # <<>> /\ Len(blocks') = n
      /\ \A i \in 1 .. m : blocks'[i] = blocks[i]
      /\ blocks'[n] = x
  <2>1. /\ Front(blocks) \in Seq(Block) /\ Len(Front(blocks)) = m
        /\ \A i \in 1 .. m : Front(blocks)[i] = blocks[i]
    BY <1>1 DEF Front
  <2>2. blocks' = Append(Front(blocks), x)
    BY <1>2 DEF x
  <2> HIDE DEF Front
  <2>3. m \in Nat /\ m + 1 = n
    BY <1>1
  <2>4. blocks' \in Seq(Block) /\ Len(blocks') = n
    BY <1>5, <2>1, <2>2, <2>3
  <2>5. /\ \A i \in 1 .. m : blocks'[i] = blocks[i]
        /\ blocks'[n] = x
    BY <2>1, <2>2, <2>3
  <2> QED BY <1>1, <2>4, <2>5
<1>7. CorridorTypes'
  BY <1>3, <1>6 DEF Chains, CorridorTypes, setup, solana, attesters
<1>8. confirmed_block' = cb /\ \A i \in 1 .. n : i \in 1 .. m \/ i = n
  BY <1>1, <1>6 DEF confirmed_block
<1>9. HistoriesGrow'
  <2> SUFFICES ASSUME NEW i \in 1 .. n, NEW j \in 1 .. n, i <= j
               PROVE  Onward(blocks'[i].st, blocks'[j].st)
    BY <1>3, <1>6 DEF Chains, HistoriesGrow, solana
  <2>1. CASE j \in 1 .. m
    <3>1. i \in 1 .. m
      BY <1>1, <2>1
    <3> QED BY <1>1, <1>6, <2>1, <3>1 DEF Chains, HistoriesGrow
  <2>2. CASE i \in 1 .. m /\ j = n
    <3>1. m \in 1 .. n /\ i <= m
      BY <1>1, <2>2
    <3>2. Onward(blocks[i].st, blocks[m].st)
      BY <1>1, <2>2, <3>1 DEF Chains, HistoriesGrow
    <3>3. blocks'[i] = blocks[i] /\ blocks'[j].st = st
      BY <1>5, <1>6, <2>2
    <3> QED BY <1>4, <3>2, <3>3, OnwardIsTransitive
  <2>3. CASE i = n /\ j = n
    BY <2>3 DEF Onward
  <2> QED BY <1>1, <1>8, <2>1, <2>2, <2>3
<1>10. SidesHold'
  <2>1. \A i \in 1 .. m : OnSide("evm", blocks'[i].st)
    <3>1. \A i \in 1 .. m : i \in DOMAIN blocks
      BY <1>1
    <3> QED BY <1>6, <3>1 DEF Chains, SidesHold
  <2>2. OnSide("evm", blocks'[n].st)
    BY <1>4, <1>5, <1>6
  <2>3. \A i \in DOMAIN blocks' : OnSide("evm", blocks'[i].st)
    BY <1>6, <1>8, <2>1, <2>2
  <2> QED BY <1>3, <2>3 DEF Chains, SidesHold, OnSide, IsSource, setup, solana
<1>11. LockIsOld'
  <2> SUFFICES ASSUME to_solana, NEW i \in 1 .. cb, blocks'[i].st \in Locked
               PROVE  Cap(TimeOf(blocks', cb) - TimeOf(blocks', i)) <= age
    BY <1>3, <1>8 DEF LockIsOld, block_timestamp, TimeOf, setup
  <2>1. i \in 1 .. m /\ cb \in 1 .. m
    BY <1>1
  <2>2. \A h \in 1 .. m : TimeOf(blocks', h) = TimeOf(blocks, h)
    <3> SUFFICES ASSUME NEW h \in 1 .. m PROVE TimeOf(blocks', h) = TimeOf(blocks, h)
      OBVIOUS
    <3>1. h \in Nat /\ h <= Len(blocks) /\ h <= Len(blocks')
          /\ \A j \in 1 .. h : blocks'[j] = blocks[j]
      BY <1>1, <1>6
    <3> QED BY <1>1, <1>6, <3>1, TimeAgrees
  <2>3. Cap(TimeOf(blocks, cb) - TimeOf(blocks, i)) <= age
    <3>1. i \in 1 .. confirmed_block /\ blocks[i].st \in Locked
      BY <1>1, <1>6, <2>1
    <3>2. Cap(block_timestamp(confirmed_block) - block_timestamp(i)) <= age
      BY <3>1 DEF Chains, LockIsOld
    <3> QED BY <1>1, <3>2, TimesOfBlocks
  <2> QED BY <2>1, <2>2, <2>3
<1>12. Destination' = Destination /\ Source' = Source
  <2>1. cb < 1 \/ cb \in 1 .. m
    BY <1>1
  <2>2. State(confirmed_block)' = State(confirmed_block)
    BY <1>1, <1>6, <1>8, <2>1 DEF State
  <2> QED BY <1>3, <2>2 DEF Destination, Source, setup, solana
<1>13. ASSUME NEW s \in Settled, Shown(s)'
       PROVE  Shown(s) \/ Backed(s)
  <2>1. CASE s \in {sol.st, final.st}
    BY <2>1 DEF Shown
  <2>2. CASE \E i \in DOMAIN blocks' : blocks'[i].st = s
    <3>1. PICK i \in 1 .. n : blocks'[i].st = s
      BY <1>6, <2>2
    <3>2. CASE i \in 1 .. m
      BY <1>1, <1>6, <3>1, <3>2 DEF Shown
    <3>3. CASE i = n
      <4>1. st = s /\ m \in 1 .. n
        BY <1>1, <1>5, <1>6, <3>1, <3>3
      <4> QED BY <1>1, <1>4, <4>1 DEF Shown
    <3> QED BY <1>8, <3>2, <3>3
  <2> QED BY <1>3, <1>13, <2>1, <2>2 DEF Shown, solana
<1>14. age <= age' /\ final.age <= final.age'
  BY <1>3 DEF solana, Chains, CorridorTypes, View
<1> QED
  BY <1>3, <1>7, <1>9, <1>10, <1>11, <1>12, <1>13, <1>14 DEF MovesOn, Onward

\* While the EVM chain stands still its lock is as old as before.
LEMMA EvmStands ==
  ASSUME Chains, UNCHANGED <<setup, blocks, age>>
  PROVE  /\ LockIsOld' /\ State(confirmed_block)' = State(confirmed_block)
         /\ \A i, j \in DOMAIN blocks' : i <= j => Onward(blocks'[i].st, blocks'[j].st)
         /\ \A i \in DOMAIN blocks' : OnSide("evm", blocks'[i].st)
<1>1. LockIsOld'
  BY DEF Chains, LockIsOld, Locked, Cap, block_timestamp, confirmed_block, setup
<1>2. State(confirmed_block)' = State(confirmed_block)
  BY DEF State, confirmed_block
<1> QED BY <1>1, <1>2 DEF Chains, HistoriesGrow, SidesHold, OnSide, IsSource, setup

\* The newest slot changes by an instruction or by the clock, the finalized one
\* follows it, and a fork goes back to the finalized one.
LEMMA SolanaMovesOn ==
  ASSUME Chains, CorridorAssumption,
         \/ \E st \in GateSteps("solana", sol.st) : land(st)
         \/ Clock \/ Finalize \/ Fork
  PROVE  CorridorTypes' /\ MovesOn
<1>1. UNCHANGED <<setup, blocks, votes, attesters, age>>
  BY DEF land, Clock, Finalize, Fork
<1>2. /\ sol \in View /\ final \in View /\ Timeout \in Nat /\ age \in 0 .. Timeout
      /\ OnSide("solana", sol.st) /\ OnSide("solana", final.st)
      /\ Onward(final.st, sol.st) /\ final.age <= sol.age
  BY DEF Chains, CorridorTypes, SidesHold, HistoriesGrow, CorridorAssumption
<1> DEFINE Later ==
             /\ Onward(final'.st, sol'.st) /\ final'.age <= sol'.age
             /\ OnSide("solana", sol'.st) /\ OnSide("solana", final'.st)
             /\ sol' \in View /\ final' \in View /\ transfer' \in BOOLEAN
             /\ Onward(final.st, final'.st) /\ final.age <= final'.age
             /\ \A s \in Settled : s \in {sol'.st, final'.st} => s \in {sol.st, final.st} \/ Backed(s)
             /\ transfer => transfer'
             /\ transfer' => transfer \/ (~ to_solana /\ final'.st # "none")
<1>3. ASSUME NEW st \in GateSteps("solana", sol.st), land(st) PROVE Later
  <2>1. /\ st \in Side /\ Onward(sol.st, st) /\ OnSide("solana", st)
        /\ st \in Settled => Backed(st)
    BY <1>2, GateStepFacts
  <2>2. /\ sol' \in View /\ sol'.st = st /\ sol'.age = sol.age
        /\ final' = final /\ transfer' = transfer
    BY <1>2, <1>3, <2>1 DEF land, View
  <2>3. /\ Onward(final'.st, sol'.st) /\ final'.age <= sol'.age
    BY <1>2, <2>1, <2>2, OnwardIsTransitive
  <2>4. /\ OnSide("solana", sol'.st) /\ OnSide("solana", final'.st)
        /\ sol' \in View /\ final' \in View /\ transfer' \in BOOLEAN
        /\ Onward(final.st, final'.st) /\ final.age <= final'.age
    BY <1>2, <2>1, <2>2 DEF Onward, View, Chains, CorridorTypes
  <2>5. \A s \in Settled : s \in {sol'.st, final'.st} => s \in {sol.st, final.st} \/ Backed(s)
    BY <2>1, <2>2
  <2> QED BY <2>2, <2>3, <2>4, <2>5
<1>4. ASSUME Clock PROVE Later
  <2>1. /\ sol' \in View /\ sol'.st = sol.st /\ sol'.age = sol.age + 1
        /\ final' = final /\ transfer' = transfer
    BY <1>2, <1>4 DEF Clock, View
  <2> QED BY <1>2, <2>1 DEF Onward, View, Chains, CorridorTypes
<1>5. ASSUME Finalize PROVE Later
  <2>1. /\ sol' = sol /\ final' = sol /\ transfer' \in BOOLEAN
        /\ transfer => transfer'
        /\ transfer' => transfer \/ (~ to_solana /\ final'.st # "none")
    BY <1>5 DEF Finalize, Chains, CorridorTypes
  <2> QED BY <1>2, <2>1 DEF Onward, View
<1>6. ASSUME Fork PROVE Later
  <2>1. sol' = final /\ final' = final /\ transfer' = transfer
    BY <1>6 DEF Fork
  <2> QED BY <1>2, <2>1 DEF Onward, View, Chains, CorridorTypes
<1>7. Later
  BY <1>3, <1>4, <1>5, <1>6
<1> HIDE DEF Later
<1>8. CorridorTypes'
  BY <1>1, <1>7 DEF Later, Chains, CorridorTypes, setup, attesters
<1>9. HistoriesGrow' /\ LockIsOld'
  BY <1>1, <1>7, EvmStands DEF Later, HistoriesGrow
<1>10. SidesHold'
  BY <1>1, <1>7, EvmStands DEF Later, SidesHold, OnSide, IsSource, setup
<1>11. /\ Onward(Destination, Destination') /\ Onward(Source, Source')
       /\ Destination' = Destination \/ Source' = Source
       /\ transfer' => transfer \/ Source' # "none"
  <2>1. State(confirmed_block)' = State(confirmed_block)
    BY <1>1, EvmStands
  <2> QED BY <1>1, <1>7, <2>1 DEF Later, Destination, Source, Onward, setup
<1>12. ASSUME NEW s \in Settled, Shown(s)'
       PROVE  Shown(s) \/ Backed(s)
  BY <1>1, <1>7, <1>12 DEF Later, Shown
<1>13. age <= age' /\ final.age <= final.age' /\ (transfer => transfer')
  BY <1>1, <1>2, <1>7 DEF Later
<1> QED
  BY <1>8, <1>9, <1>10, <1>11, <1>12, <1>13 DEF MovesOn

-----------------------------------------------------------------------------
(* Votes *)

\* A set of numbers that is not empty has a smallest member.
LEMMA SmallestNumber ==
  ASSUME NEW S \in SUBSET Nat, S # {}
  PROVE  \E m \in S : \A i \in S : m <= i
<1>1. PICK m \in S : \A i \in S : ~ (<<i, m>> \in OpToRel(<, Nat))
  BY NatLessThanWellFounded, WFMin
<1>2. \A i \in S : ~ (i < m)
  BY <1>1 DEF OpToRel
<1> QED BY <1>2

\* A quorum has a member that runs this code.
LEMMA QuorumHasHonest ==
  ASSUME CorridorTypes, CorridorAssumption, NEW kind \in Quorums, Quorum(kind)
  PROVE  HonestVote(kind)
<1> SUFFICES ASSUME votes[kind] \subseteq Faulty PROVE FALSE
  BY DEF HonestVote
<1>1. IsFiniteSet(Faulty) /\ threshold \in Nat /\ threshold > Cardinality(Faulty)
  BY DEF CorridorAssumption
<1>2. /\ Cardinality(votes[kind]) <= Cardinality(Faulty)
      /\ Cardinality(Faulty) \in Nat /\ Cardinality(votes[kind]) \in Nat
  BY <1>1, FS_Subset, FS_CardinalityType
<1> QED BY <1>1, <1>2 DEF Quorum

\* The votes that were cast stay worth what they were while the chains move.
LEMMA MovesKeepEvidence ==
  ASSUME CorridorInv, CorridorAssumption, CorridorTypes', MovesOn, UNCHANGED <<setup, votes>>
  PROVE  EvidenceHolds'
<1>1. \A kind \in Quorums : Quorum(kind) => HonestVote(kind)
  BY QuorumHasHonest DEF CorridorInv
<1>2. \A kind : HonestVote(kind)' = HonestVote(kind)
  BY DEF HonestVote
<1>3. HonestVote("cancel") => BurnIsDue'
  <2> SUFFICES ASSUME BurnIsDue PROVE BurnIsDue'
    BY DEF CorridorInv, EvidenceHolds
  <2>1. /\ age \in 0 .. Timeout /\ age' \in 0 .. Timeout /\ age <= age'
        /\ final.age <= final.age' /\ Timeout \in Nat
        /\ final.age \in 0 .. Timeout /\ final'.age \in 0 .. Timeout
    BY DEF CorridorInv, CorridorTypes, View, MovesOn, CorridorAssumption
  <2>2. CASE to_solana
    BY <2>1, <2>2 DEF BurnIsDue, setup
  <2>3. CASE ~ to_solana
    BY <2>1, <2>3 DEF BurnIsDue, setup
  <2> QED BY <2>2, <2>3
<1>4. HonestVote("refund") => Destination' = "cancelled"
  BY DEF CorridorInv, EvidenceHolds, MovesOn, Onward
<1>5. /\ Shown("cancelled")' => HonestVote("cancel")
      /\ Shown("refunded")' => HonestVote("refund")
      /\ Shown("claimed")' => transfer'
  BY <1>1 DEF CorridorInv, EvidenceHolds, MovesOn, Quorums, Settled, Backed
<1>6. HonestVote("cancel") \/ transfer' => Source' # "none"
  BY DEF CorridorInv, EvidenceHolds, MovesOn, Onward
<1> QED BY <1>2, <1>3, <1>4, <1>5, <1>6 DEF EvidenceHolds

\* So do the reads.
LEMMA MovesKeepReads ==
  ASSUME CorridorInv, MovesOn, UNCHANGED <<setup, attesters>>
  PROVE  ReadsHold'
<1> SUFFICES ASSUME NEW a \in Attester
             PROVE  /\ seen'[a] # "unread" =>
                         pc'[a] # <<>> /\ Head(pc'[a]) = "real" /\ routable(a, "real")'
                    /\ seen'[a] \in {"claimed", "cancelled"} => Destination' = seen'[a]
                    /\ late'[a] => Destination' = "claimed" /\ seen'[a] \in {"unread", "claimed"}
  BY DEF ReadsHold
<1>1. routable(a, "real")' = routable(a, "real")
  BY DEF routable, setup
<1>2. Destination \in {"claimed", "cancelled"} => Destination' = Destination
  BY DEF MovesOn, Onward
<1> QED BY <1>1, <1>2 DEF CorridorInv, ReadsHold, attesters

\* An attester that finds a lock old enough is right, whichever chain holds it.
LEMMA AgedOutIsDue ==
  ASSUME CorridorInv, CorridorAssumption, NEW a \in Attester, aged_out(a)
  PROVE  BurnIsDue
<1>1. Timeout \in Nat /\ age \in 0 .. Timeout /\ final.age \in 0 .. Timeout
  BY DEF CorridorAssumption, CorridorInv, CorridorTypes, View
<1>2. CASE ~ to_solana
  BY <1>1, <1>2 DEF aged_out, BurnIsDue
<1>3. CASE to_solana
  <2> DEFINE cb == confirmed_block
             old == {step \in 1 .. (cb - 1) :
                       step \in Steps /\ block_timestamp(cb - step) <= block_timestamp(cb) - Timeout}
  <2>1. was_sent_by_block(aged_block)
    BY <1>3 DEF aged_out
  <2>2. aged_block = IF old = {} THEN 0 ELSE cb - Min(old)
    BY DEF aged_block
  <2>3. old # {}
    BY <2>1, <2>2 DEF was_sent_by_block
  <2>4. cb \in Int /\ cb <= Len(blocks) /\ blocks \in Seq(Block)
    BY DEF confirmed_block, CorridorInv, CorridorTypes, CorridorAssumption
  <2>5. Min(old) \in old
    <3>1. old \subseteq Nat
      BY <2>4
    <3>2. PICK m \in old : \A i \in old : m <= i
      BY <2>3, <3>1, SmallestNumber
    <3> QED BY <3>2 DEF Min
  <2> DEFINE h == cb - Min(old)
  <2>6. /\ h \in 1 .. cb /\ cb \in 1 .. cb
        /\ block_timestamp(h) <= block_timestamp(cb) - Timeout
    BY <2>4, <2>5
  <2>7. blocks[h].st \in Locked
    BY <2>1, <2>2, <2>3, <2>6 DEF was_sent_by_block, State, Locked
  <2>8. Cap(block_timestamp(cb) - block_timestamp(h)) <= age
    BY <1>3, <2>6, <2>7 DEF CorridorInv, LockIsOld
  <2>9. block_timestamp(cb) \in Int /\ block_timestamp(h) \in Int
    <3>1. cb \in 0 .. Len(blocks) /\ h \in 0 .. Len(blocks)
      BY <2>4, <2>6
    <3> QED BY <2>4, <3>1, TimeStep, TimesOfBlocks
  <2> HIDE DEF h, cb
  <2>10. Cap(block_timestamp(cb) - block_timestamp(h)) = Timeout
    BY <1>1, <2>6, <2>9 DEF Cap
  <2>11. age = Timeout
    BY <1>1, <2>8, <2>10
  <2> QED BY <1>3, <2>11 DEF BurnIsDue
<1> QED BY <1>2, <1>3

-----------------------------------------------------------------------------
(* The attesters' steps *)

\* What the attesters look at stands still while one of them steps.
LEMMA WorldStands ==
  ASSUME CorridorInv, UNCHANGED <<setup, blocks, solana, age>>
  PROVE  /\ HistoriesGrow' /\ SidesHold' /\ LockIsOld'
         /\ Destination' = Destination /\ Source' = Source /\ BurnIsDue' = BurnIsDue
         /\ \A st : Shown(st)' = Shown(st)
         /\ \A a, row : routable(a, row)' = routable(a, row)
<1>1. LockIsOld' /\ State(confirmed_block)' = State(confirmed_block)
  BY EvmStands DEF CorridorInv, Chains
<1>2. HistoriesGrow'
  BY DEF CorridorInv, HistoriesGrow, solana
<1>3. SidesHold'
  BY DEF CorridorInv, SidesHold, OnSide, IsSource, setup, solana
<1>4. Destination' = Destination /\ Source' = Source
  BY <1>1 DEF Destination, Source, setup, solana
<1>5. BurnIsDue' = BurnIsDue
  BY DEF BurnIsDue, setup, solana
<1>6. \A st : Shown(st)' = Shown(st)
  BY DEF Shown, solana
<1>7. \A a, row : routable(a, row)' = routable(a, row)
  BY DEF routable, setup
<1> QED BY <1>1, <1>2, <1>3, <1>4, <1>5, <1>6, <1>7

\* Where no vote is cast the evidence is what it was.
LEMMA SilentStep ==
  ASSUME CorridorInv, UNCHANGED <<setup, blocks, solana, transfer, votes, age>>
  PROVE  EvidenceHolds'
BY WorldStands DEF CorridorInv, EvidenceHolds, HonestVote

\* The next walk of the queue.
LEMMA TickKeeps ==
  ASSUME CorridorInv, CorridorAssumption, NEW a \in Attester, tick(a)
  PROVE  CorridorTypes' /\ ReadsHold'
<1> DEFINE room == REFUND_PAGE * MAX_REFUND_PAGES
           left == Len(Rows) - cursor[a]
           short == left < room
           m == IF short THEN left ELSE room
           page == [i \in 1 .. m |-> Rows[cursor[a] + i]]
           next == IF short THEN 0 ELSE cursor[a] + room
<1>1. /\ pc[a] = <<>> /\ pc' = [pc EXCEPT ![a] = page] /\ cursor' = [cursor EXCEPT ![a] = next]
      /\ late' = [late EXCEPT ![a] = (Destination = "claimed")]
      /\ UNCHANGED <<setup, blocks, solana, transfer, votes, seen, age, forks>>
  BY DEF tick
<1>2. /\ room \in Nat /\ Rows \in Seq(Row) /\ Len(Rows) \in Nat
      /\ cursor[a] \in 0 .. Len(Rows)
  <2>1. REFUND_PAGE \in Nat /\ MAX_REFUND_PAGES \in Nat /\ Rows \in Seq(Row)
    BY DEF CorridorAssumption
  <2>2. room \in Nat /\ Len(Rows) \in Nat
    BY <2>1
  <2> QED BY <2>1, <2>2 DEF CorridorInv, CorridorTypes
<1> HIDE DEF room
<1>3. m \in Nat /\ m <= left /\ next \in 0 .. Len(Rows)
  BY <1>2
<1>4. page \in Seq(Row)
  <2>1. \A i \in 1 .. m : cursor[a] + i \in 1 .. Len(Rows)
    <3> HIDE DEF m
    <3> QED BY <1>2, <1>3
  <2>2. \A i \in 1 .. m : Rows[cursor[a] + i] \in Row
    BY <1>2, <2>1
  <2> QED BY <1>3, <2>2
<1> HIDE DEF page, next
<1>5. CorridorTypes'
  BY <1>1, <1>3, <1>4 DEF CorridorInv, CorridorTypes, setup, solana
<1>6. seen[a] = "unread"
  BY <1>1 DEF CorridorInv, ReadsHold
<1>7. Destination' = Destination /\ \A b, row : routable(b, row)' = routable(b, row)
  BY <1>1, WorldStands
<1>8. ReadsHold'
  <2> SUFFICES ASSUME NEW b \in Attester
               PROVE  /\ seen[b] # "unread" =>
                           pc'[b] # <<>> /\ Head(pc'[b]) = "real" /\ routable(b, "real")
                      /\ seen[b] \in {"claimed", "cancelled"} => Destination = seen[b]
                      /\ late'[b] => Destination = "claimed" /\ seen[b] \in {"unread", "claimed"}
    BY <1>1, <1>7 DEF ReadsHold
  <2>1. CASE b = a
    BY <1>1, <1>6, <2>1 DEF CorridorInv, CorridorTypes
  <2>2. CASE b # a
    BY <1>1, <2>2 DEF CorridorInv, CorridorTypes, ReadsHold
  <2> QED BY <2>1, <2>2
<1> QED BY <1>5, <1>8

\* A row that is not its own leaves the attester as it was.
LEMMA SkipKeeps ==
  ASSUME CorridorInv, NEW a \in Attester, skip(a)
  PROVE  CorridorTypes' /\ ReadsHold'
<1>1. /\ pc[a] # <<>> /\ ~ routable(a, Head(pc[a])) /\ pc' = [pc EXCEPT ![a] = Tail(@)]
      /\ UNCHANGED <<setup, blocks, solana, transfer, votes, cursor, seen, late, age, forks>>
  BY DEF skip
<1>2. pc[a] \in Seq(Row) /\ Tail(pc[a]) \in Seq(Row)
  BY <1>1 DEF CorridorInv, CorridorTypes
<1>3. CorridorTypes'
  BY <1>1, <1>2 DEF CorridorInv, CorridorTypes, setup, solana
<1>4. seen[a] = "unread"
  BY <1>1 DEF CorridorInv, ReadsHold
<1>5. Destination' = Destination /\ \A b, row : routable(b, row)' = routable(b, row)
  BY <1>1, WorldStands
<1>6. ReadsHold'
  <2> SUFFICES ASSUME NEW b \in Attester
               PROVE  /\ seen[b] # "unread" =>
                           pc'[b] # <<>> /\ Head(pc'[b]) = "real" /\ routable(b, "real")
                      /\ seen[b] \in {"claimed", "cancelled"} => Destination = seen[b]
                      /\ late[b] => Destination = "claimed" /\ seen[b] \in {"unread", "claimed"}
    BY <1>1, <1>5 DEF ReadsHold
  <2> QED BY <1>1, <1>4 DEF CorridorInv, CorridorTypes, ReadsHold
<1> QED BY <1>3, <1>6

\* Only the transfer's own row is routable, so what is read is the transfer's.
LEMMA ReadKeeps ==
  ASSUME CorridorInv, CorridorAssumption, NEW a \in Attester, read_destination(a)
  PROVE  CorridorTypes' /\ ReadsHold'
<1>1. /\ pc[a] # <<>> /\ routable(a, Head(pc[a]))
      /\ seen' = [seen EXCEPT ![a] = IF Head(pc[a]) = "real" THEN Destination ELSE "none"]
      /\ UNCHANGED <<setup, blocks, solana, transfer, votes, cursor, pc, late, age, forks>>
  BY DEF read_destination
<1>2. Head(pc[a]) = "real"
  <2>1. pc[a] \in Seq(Row) /\ Head(pc[a]) \in Row
    BY <1>1 DEF CorridorInv, CorridorTypes
  <2> QED BY <1>1, <2>1 DEF routable, bound_submission_id, Row
<1>3. Destination \in Side
  <2>1. final.st \in Side
    BY DEF CorridorInv, CorridorTypes, View
  <2>2. State(confirmed_block) \in Side
    <3>1. confirmed_block \in Int /\ confirmed_block <= Len(blocks) /\ blocks \in Seq(Block)
      BY DEF CorridorInv, CorridorTypes, CorridorAssumption, confirmed_block
    <3> QED BY <3>1, BlockFields DEF State, Side
  <2> QED BY <2>1, <2>2 DEF Destination
<1>4. CorridorTypes'
  BY <1>1, <1>2, <1>3 DEF CorridorInv, CorridorTypes, setup, solana
<1>5. Destination' = Destination /\ \A b, row : routable(b, row)' = routable(b, row)
  BY <1>1, WorldStands
<1>6. ReadsHold'
  <2> SUFFICES ASSUME NEW b \in Attester
               PROVE  /\ seen'[b] # "unread" =>
                           pc[b] # <<>> /\ Head(pc[b]) = "real" /\ routable(b, "real")
                      /\ seen'[b] \in {"claimed", "cancelled"} => Destination = seen'[b]
                      /\ late[b] => Destination = "claimed" /\ seen'[b] \in {"unread", "claimed"}
    BY <1>1, <1>5 DEF ReadsHold
  <2>1. CASE b = a
    BY <1>1, <1>2, <2>1 DEF CorridorInv, CorridorTypes, ReadsHold
  <2>2. CASE b # a
    BY <1>1, <2>2 DEF CorridorInv, CorridorTypes, ReadsHold
  <2> QED BY <2>1, <2>2
<1> QED BY <1>4, <1>6

\* A vote is cast for a burn that is due, or for a refund after the burn; none after
\* a delivery.
LEMMA DecisionIsRight ==
  ASSUME CorridorInv, CorridorAssumption, NEW a \in Attester
  PROVE  /\ decide(a, seen[a]) \in {"skip", "refund", "cancel"}
         /\ decide(a, seen[a]) = "cancel" => BurnIsDue /\ Source = "sent"
         /\ decide(a, seen[a]) = "refund" => Destination = "cancelled"
         /\ seen[a] = "claimed" => decide(a, seen[a]) = "skip"
<1>1. decide(a, seen[a]) \in {"skip", "refund", "cancel"}
  BY DEF decide
<1>2. decide(a, seen[a]) = "cancel" => aged_out(a) /\ Source = "sent"
  BY DEF decide
<1>3. decide(a, seen[a]) = "refund" => seen[a] = "cancelled"
  BY DEF decide
<1>4. seen[a] = "claimed" => decide(a, seen[a]) = "skip"
  BY DEF decide
<1> QED BY <1>1, <1>2, <1>3, <1>4, AgedOutIsDue DEF CorridorInv, ReadsHold

LEMMA AttestKeeps ==
  ASSUME CorridorInv, CorridorAssumption, NEW a \in Attester, attest(a)
  PROVE  CorridorTypes' /\ EvidenceHolds' /\ ReadsHold'
<1> DEFINE kind == decide(a, seen[a])
<1>1. /\ pc[a] # <<>> /\ seen[a] # "unread"
      /\ votes' = IF kind = "skip" THEN votes ELSE [votes EXCEPT ![kind] = @ \cup {a}]
      /\ pc' = [pc EXCEPT ![a] = Tail(@)] /\ seen' = [seen EXCEPT ![a] = "unread"]
      /\ UNCHANGED <<setup, blocks, solana, transfer, cursor, late, age, forks>>
  BY DEF attest
<1>2. /\ kind \in {"skip", "refund", "cancel"}
      /\ kind = "cancel" => BurnIsDue /\ Source = "sent"
      /\ kind = "refund" => Destination = "cancelled"
  BY DecisionIsRight
<1> HIDE DEF kind
<1>3. votes \in [Quorums -> SUBSET (Attester \cup Faulty)]
  BY DEF CorridorInv, CorridorTypes
<1>4. /\ votes' \in [Quorums -> SUBSET (Attester \cup Faulty)]
      /\ \A k \in Quorums : votes[k] \subseteq votes'[k] /\ (k # kind => votes'[k] = votes[k])
  BY <1>1, <1>2, <1>3 DEF Quorums
<1>5. CorridorTypes'
  <2>1. Tail(pc[a]) \in Seq(Row)
    BY <1>1 DEF CorridorInv, CorridorTypes
  <2> QED BY <1>1, <1>4, <2>1 DEF CorridorInv, CorridorTypes, setup, solana
<1>6. /\ Destination' = Destination /\ Source' = Source /\ BurnIsDue' = BurnIsDue
      /\ \A st : Shown(st)' = Shown(st)
      /\ \A b, row : routable(b, row)' = routable(b, row)
  BY <1>1, WorldStands
<1>7. \A k \in Quorums : /\ HonestVote(k) => HonestVote(k)'
                         /\ k # kind /\ HonestVote(k)' => HonestVote(k)
  BY <1>4 DEF HonestVote
<1>8. EvidenceHolds'
  <2>1. HonestVote("cancel")' => BurnIsDue
    BY <1>2, <1>7 DEF CorridorInv, EvidenceHolds, Quorums
  <2>2. HonestVote("refund")' => Destination = "cancelled"
    BY <1>2, <1>7 DEF CorridorInv, EvidenceHolds, Quorums
  <2>3. /\ Shown("cancelled") => HonestVote("cancel")'
        /\ Shown("refunded") => HonestVote("refund")'
        /\ Shown("claimed") => transfer
    BY <1>7 DEF CorridorInv, EvidenceHolds, Quorums
  <2>4. HonestVote("cancel")' \/ transfer => Source # "none"
    BY <1>2, <1>7 DEF CorridorInv, EvidenceHolds, Quorums
  <2> QED BY <1>1, <1>6, <2>1, <2>2, <2>3, <2>4 DEF EvidenceHolds
<1>9. ReadsHold'
  <2> SUFFICES ASSUME NEW b \in Attester
               PROVE  /\ seen'[b] # "unread" =>
                           pc'[b] # <<>> /\ Head(pc'[b]) = "real" /\ routable(b, "real")
                      /\ seen'[b] \in {"claimed", "cancelled"} => Destination = seen'[b]
                      /\ late[b] => Destination = "claimed" /\ seen'[b] \in {"unread", "claimed"}
    BY <1>1, <1>6 DEF ReadsHold
  <2>1. CASE b = a
    BY <1>1, <2>1 DEF CorridorInv, CorridorTypes, ReadsHold
  <2>2. CASE b # a
    BY <1>1, <2>2 DEF CorridorInv, CorridorTypes, ReadsHold
  <2> QED BY <2>1, <2>2
<1> QED BY <1>5, <1>8, <1>9

-----------------------------------------------------------------------------
(* The theorems *)

LEMMA InitCorridor == CorridorAssumption /\ Init => CorridorInv
<1> SUFFICES ASSUME CorridorAssumption, Init PROVE CorridorInv
  OBVIOUS
<1>1. votes \in [Quorums -> SUBSET Faulty]
  BY DEF Init
<1>2. /\ blocks = <<[st |-> "none", gap |-> 1]>> /\ Len(blocks) = 1
      /\ DOMAIN blocks = {1} /\ blocks[1].st = "none"
  BY DEF Init
<1>3. sol = [st |-> "none", age |-> 0] /\ final = sol
  BY DEF Init
<1>4. CorridorTypes
  <2>1. [st |-> "none", gap |-> 1] \in Block /\ sol \in View
    BY <1>3 DEF Block, View, Side, CorridorAssumption
  <2>2. blocks \in Seq(Block) /\ blocks # <<>>
    BY <1>2, <2>1
  <2>3. 0 \in 0 .. Len(Rows) /\ <<>> \in Seq(Row) /\ 0 \in 0 .. Timeout
    BY DEF CorridorAssumption
  <2>4. votes \in [Quorums -> SUBSET (Attester \cup Faulty)]
    BY <1>1
  <2> QED BY <1>3, <2>1, <2>2, <2>3, <2>4 DEF CorridorTypes, Init
<1>5. HistoriesGrow
  BY <1>2, <1>3 DEF HistoriesGrow, Onward, CorridorAssumption
<1>6. SidesHold
  BY <1>2, <1>3 DEF SidesHold, OnSide
<1>7. LockIsOld
  <2>1. \A i \in 1 .. confirmed_block : blocks[i].st = "none"
    BY <1>2 DEF confirmed_block, CorridorAssumption
  <2> QED BY <2>1 DEF LockIsOld, Locked
<1>8. EvidenceHolds
  <2>1. ~ Shown("cancelled") /\ ~ Shown("refunded") /\ ~ Shown("claimed") /\ ~ transfer
    BY <1>2, <1>3 DEF Shown, Init
  <2>2. ~ HonestVote("cancel") /\ ~ HonestVote("refund")
    BY <1>1 DEF HonestVote, Quorums
  <2> QED BY <2>1, <2>2 DEF EvidenceHolds
<1>9. ReadsHold
  BY DEF Init, ReadsHold
<1> QED BY <1>4, <1>5, <1>6, <1>7, <1>8, <1>9 DEF CorridorInv

\* A step of one of the chains.
LEMMA ChainsMove ==
  ASSUME CorridorInv, CorridorAssumption,
         \/ EvmIdle \/ EvmStep \/ Reorg
         \/ SolanaStep \/ Clock \/ Finalize \/ Fork \/ Submit
  PROVE  CorridorTypes' /\ MovesOn /\ UNCHANGED <<setup, votes, attesters>>
<1>1. Chains
  BY DEF CorridorInv, Chains
<1>2. CorridorTypes' /\ MovesOn /\ UNCHANGED <<setup, votes, attesters>>
  <2>1. CASE EvmIdle \/ EvmStep
    <3>1. PICK gap \in Gaps, st \in GateSteps("evm", Tip) \cup {Tip} : mine(st, gap)
      BY <2>1 DEF EvmIdle, EvmStep
    <3> QED BY <1>1, <3>1, MineMovesOn DEF mine
  <2>2. CASE Reorg
    BY <1>1, <2>2, ReorgMovesOn DEF Reorg
  <2>3. CASE SolanaStep \/ Submit
    <3>1. PICK st \in GateSteps("solana", sol.st) : land(st)
      BY <2>3 DEF SolanaStep, Submit, try_refund, try_cancel, try_claim
    <3> QED BY <1>1, <3>1, SolanaMovesOn DEF land
  <2>4. CASE Clock \/ Finalize \/ Fork
    BY <1>1, <2>4, SolanaMovesOn DEF Clock, Finalize, Fork
  <2> QED BY <2>1, <2>2, <2>3, <2>4
<1> QED BY <1>2

LEMMA MoveKeeps ==
  ASSUME CorridorInv, CorridorAssumption,
         \/ EvmIdle \/ EvmStep \/ Reorg
         \/ SolanaStep \/ Clock \/ Finalize \/ Fork \/ Submit
  PROVE  CorridorInv'
BY ChainsMove, MovesKeepEvidence, MovesKeepReads DEF CorridorInv, MovesOn

LEMMA NextCorridor == CorridorAssumption /\ CorridorInv /\ [Next]_vars => CorridorInv'
<1> SUFFICES ASSUME CorridorAssumption, CorridorInv, [Next]_vars PROVE CorridorInv'
  OBVIOUS
<1>1. CASE \/ EvmIdle \/ EvmStep \/ Reorg
           \/ SolanaStep \/ Clock \/ Finalize \/ Fork \/ Submit
  BY <1>1, MoveKeeps
<1>2. ASSUME NEW a \in Attester, tick(a) PROVE CorridorInv'
  <2>1. UNCHANGED <<setup, blocks, solana, transfer, votes, age>>
    BY <1>2 DEF tick
  <2> QED BY <1>2, <2>1, TickKeeps, WorldStands, SilentStep DEF CorridorInv
<1>3. ASSUME NEW a \in Attester, skip(a) PROVE CorridorInv'
  <2>1. UNCHANGED <<setup, blocks, solana, transfer, votes, age>>
    BY <1>3 DEF skip
  <2> QED BY <1>3, <2>1, SkipKeeps, WorldStands, SilentStep DEF CorridorInv
<1>4. ASSUME NEW a \in Attester, read_destination(a) PROVE CorridorInv'
  <2>1. UNCHANGED <<setup, blocks, solana, transfer, votes, age>>
    BY <1>4 DEF read_destination
  <2> QED BY <1>4, <2>1, ReadKeeps, WorldStands, SilentStep DEF CorridorInv
<1>5. ASSUME NEW a \in Attester, attest(a) PROVE CorridorInv'
  <2>1. UNCHANGED <<setup, blocks, solana, age>>
    BY <1>5 DEF attest
  <2> QED BY <1>5, <2>1, AttestKeeps, WorldStands DEF CorridorInv
<1>6. CASE UNCHANGED vars
  <2>1. UNCHANGED <<setup, blocks, solana, transfer, votes, age>>
    BY <1>6 DEF vars
  <2>2. CorridorTypes'
    BY <1>6 DEF CorridorInv, CorridorTypes, vars, setup, solana, attesters
  <2>3. ReadsHold'
    BY <1>6, <2>1, WorldStands DEF CorridorInv, ReadsHold, vars, attesters
  <2> QED BY <2>1, <2>2, <2>3, WorldStands, SilentStep DEF CorridorInv
<1> QED BY <1>1, <1>2, <1>3, <1>4, <1>5, <1>6 DEF Next

\* The corridor's invariant: types, histories, sides, ages, evidence and reads.
THEOREM CorridorInvariant == Spec => []CorridorInv
<1>1. Spec => []CorridorInv
  BY InitCorridor, NextCorridor, CorridorAssumption, PTL DEF Spec
<1> QED BY <1>1

\* The two halves of the refund protocol hold across the corridor: nothing is paid out on
\* both sides, whatever reorganises, and nothing is burned before its time (decide, aged_out).
THEOREM CorridorTheorem == Spec => []SettledOnlyIfDue
<1>1. CorridorInv => SettledOnlyIfDue
  <2> SUFFICES ASSUME CorridorInv PROVE NeverPaidTwice /\ NeverBurnedEarly
    BY DEF SettledOnlyIfDue
  <2>1. /\ blocks \in Seq(Block) /\ Len(blocks) \in Nat /\ Len(blocks) >= 1
        /\ confirmed_block \in Int /\ confirmed_block <= Len(blocks)
    BY CorridorAssumption DEF CorridorInv, CorridorTypes, CorridorAssumption, confirmed_block
  <2>2. /\ Tip = blocks[Len(blocks)].st /\ Len(blocks) \in DOMAIN blocks
        /\ \/ confirmed_block < 1 /\ State(confirmed_block) = "none"
           \/ /\ confirmed_block \in DOMAIN blocks
              /\ State(confirmed_block) = blocks[confirmed_block].st
              /\ Onward(blocks[confirmed_block].st, blocks[Len(blocks)].st)
    BY <2>1 DEF Tip, State, CorridorInv, HistoriesGrow
  <2>3. ASSUME NEW st \in {SourceTip, Source, DestinationTip, Destination}, st # "none"
        PROVE  Shown(st)
    BY <2>2, <2>3 DEF Shown, SourceTip, Source, DestinationTip, Destination, EvmTip
  <2>4. Destination = "cancelled" => DestinationTip = "cancelled"
    BY <2>2 DEF Destination, DestinationTip, EvmTip, Onward, CorridorInv, HistoriesGrow
  <2>5. NeverPaidTwice
    BY <2>3, <2>4 DEF NeverPaidTwice, CorridorInv, EvidenceHolds
  <2>6. NeverBurnedEarly
    BY <2>3 DEF NeverBurnedEarly, CorridorInv, EvidenceHolds, BurnIsDue
  <2> QED BY <2>5, <2>6
<1> QED BY <1>1, CorridorInvariant, PTL

\* What is final of the two sides, together.
FinalShape ==
  /\ Source \in {"none", "sent", "refunded"}
  /\ Destination \in {"none", "claimed", "cancelled"}
  /\ Source = "refunded" => Destination = "cancelled"
  /\ Destination # "none" => Source # "none"

LEMMA FinalShapeHolds == CorridorInv => FinalShape
<1> SUFFICES ASSUME CorridorInv PROVE FinalShape
  OBVIOUS
<1>1. /\ blocks \in Seq(Block) /\ DOMAIN blocks = 1 .. Len(blocks) /\ Len(blocks) \in Nat
      /\ confirmed_block \in Int /\ confirmed_block <= Len(blocks)
  BY CorridorAssumption DEF CorridorInv, CorridorTypes, CorridorAssumption, confirmed_block
<1> DEFINE st == State(confirmed_block)
<1>2. st = "none" \/ \E i \in DOMAIN blocks : st = blocks[i].st
  BY <1>1 DEF State
<1>3. st \in Side /\ OnSide("evm", st) /\ (st = "none" \/ Shown(st))
  <2>1. CASE st = "none"
    BY <2>1 DEF Side, OnSide
  <2>2. CASE st # "none"
    <3>1. PICK i \in DOMAIN blocks : st = blocks[i].st
      BY <1>2, <2>2
    <3>2. blocks[i] \in Block
      BY <1>1
    <3> HIDE DEF st
    <3> QED BY <3>1, <3>2 DEF Shown, CorridorInv, SidesHold, Block
  <2> QED BY <2>1, <2>2
<1>4. final.st \in Side /\ OnSide("solana", final.st) /\ Shown(final.st)
  BY DEF CorridorInv, CorridorTypes, SidesHold, Shown, View
<1>5. \/ to_solana /\ Source = st /\ Destination = final.st
      \/ ~ to_solana /\ Source = final.st /\ Destination = st
  BY DEF Source, Destination, CorridorInv, CorridorTypes
<1> HIDE DEF st
<1>6. Source \in {"none", "sent", "refunded"} /\ Destination \in {"none", "claimed", "cancelled"}
  <2>0. to_solana \in BOOLEAN
    BY DEF CorridorInv, CorridorTypes
  <2>1. CASE to_solana /\ Source = st /\ Destination = final.st
    BY <1>3, <1>4, <2>0, <2>1 DEF Side, OnSide, IsSource, Locked
  <2>2. CASE ~ to_solana /\ Source = final.st /\ Destination = st
    BY <1>3, <1>4, <2>0, <2>2 DEF Side, OnSide, IsSource, Locked
  <2> QED BY <1>5, <2>1, <2>2
<1>7. (Source = "none" \/ Shown(Source)) /\ (Destination = "none" \/ Shown(Destination))
  BY <1>3, <1>4, <1>5
<1> QED BY <1>6, <1>7 DEF FinalShape, CorridorInv, EvidenceHolds

\* It goes one step along the lifecycle, or stays.
LEMMA LifeGoesOn ==
  ASSUME FinalShape, FinalShape', Onward(Destination, Destination'), Onward(Source, Source'),
         Destination' = Destination \/ Source' = Source
  PROVE  Life' = Life \/ <<Life, Life'>> \in Abstract!Forward
<1> USE DEF FinalShape, Life, Onward, Abstract!Forward
<1>1. CASE Source' = Source
  BY <1>1
<1>2. CASE Destination' = Destination
  BY <1>2
<1> QED BY <1>1, <1>2

LEMMA StepsMoveOn ==
  ASSUME CorridorInv, CorridorAssumption, [Next]_vars
  PROVE  /\ Onward(Destination, Destination') /\ Onward(Source, Source')
         /\ Destination' = Destination \/ Source' = Source
<1>1. CASE \/ EvmIdle \/ EvmStep \/ Reorg
           \/ SolanaStep \/ Clock \/ Finalize \/ Fork \/ Submit
  BY <1>1, ChainsMove DEF MovesOn
<1>2. CASE UNCHANGED vars \/ \E a \in Attester : tick(a) \/ skip(a) \/ read_destination(a) \/ attest(a)
  <2>1. UNCHANGED <<setup, blocks, solana, age>>
    BY <1>2 DEF vars, tick, skip, read_destination, attest
  <2> QED BY <2>1, WorldStands DEF Onward
<1> QED BY <1>1, <1>2 DEF Next

\* Votes and submitters on both sides, with forks, reorganisations and stale reads between,
\* carry out the same lifecycle as the EVM gates do: module Transfer (Submit, decide).
THEOREM CorridorImplementsTransfer == Spec => ImplementsTransfer
<1>1. Init => Abstract!Init
  <2> SUFFICES ASSUME Init PROVE Life = "none"
    BY DEF Abstract!Init
  <2>1. Len(blocks) = 1 /\ blocks[1].st = "none" /\ final.st = "none"
    BY DEF Init
  <2>2. State(confirmed_block) = "none"
    BY <2>1, CorridorAssumption DEF State, confirmed_block, CorridorAssumption
  <2> QED BY <2>1, <2>2 DEF Life, Source
<1>2. CorridorInv /\ FinalShape /\ FinalShape' /\ [Next]_vars => [Abstract!Next]_([s \in {"it"} |-> Life])
  <2> SUFFICES ASSUME CorridorInv, FinalShape, FinalShape', [Next]_vars
               PROVE  [Abstract!Next]_([s \in {"it"} |-> Life])
    OBVIOUS
  <2>1. Life' = Life \/ <<Life, Life'>> \in Abstract!Forward
    BY CorridorAssumption, LifeGoesOn, StepsMoveOn
  <2>2. <<Life, Life'>> \in Abstract!Forward => Life' \in Abstract!Stage
    BY DEF Abstract!Forward, Abstract!Stage
  <2> QED BY <2>1, <2>2 DEF Abstract!Next
<1> QED
  BY <1>1, <1>2, FinalShapeHolds, CorridorInvariant, PTL DEF Spec, ImplementsTransfer, Abstract!Spec

\* An attester that took a row up after its delivery was final never votes on it, however
\* the store files the row and whatever else it walks past (tick, bound_submission_id).
THEOREM DeliveredTheorem == Spec => DeliveredEarnsNothing
<1>1. CorridorInv /\ [Next]_vars =>
        [\A a \in Attester : late[a] => \A k \in Quorums : a \in votes'[k] => a \in votes[k]]_vars
  <2> SUFFICES ASSUME CorridorInv, Next, NEW a \in Attester, late[a], NEW k \in Quorums,
                      a \in votes'[k]
               PROVE  a \in votes[k]
    OBVIOUS
  <2>1. CASE UNCHANGED votes
    BY <2>1
  <2>2. CASE \E b \in Attester : attest(b)
    <3>1. PICK b \in Attester : attest(b)
      BY <2>2
    <3>2. votes' = IF decide(b, seen[b]) = "skip" THEN votes
                   ELSE [votes EXCEPT ![decide(b, seen[b])] = @ \cup {b}]
      BY <3>1 DEF attest
    <3>3. CASE b = a
      <4>1. seen[a] = "claimed"
        BY <3>1, <3>3 DEF CorridorInv, ReadsHold, attest
      <4> QED BY <3>2, <3>3, <4>1, DecisionIsRight, CorridorAssumption
    <3>4. CASE b # a
      BY <3>2, <3>4 DEF CorridorInv, CorridorTypes
    <3> QED BY <3>3, <3>4
  <2> QED
    BY <2>1, <2>2 DEF Next, EvmIdle, EvmStep, mine, Reorg, SolanaStep, land, Clock, Finalize, Fork,
                      tick, skip, read_destination, Submit, try_refund, try_cancel, try_claim
<1> QED BY <1>1, CorridorInvariant, PTL DEF Spec, DeliveredEarnsNothing

-----------------------------------------------------------------------------
(* Products and quotients of integers                                        *)

Positive == Nat \ {0}

LEMMA Product == ASSUME NEW a \in Nat, NEW b \in Nat PROVE a * b \in Nat
OBVIOUS

LEMMA PositiveProduct == ASSUME NEW a \in Positive, NEW b \in Positive PROVE a * b \in Positive
BY DEF Positive

\* Both sides times the same.
LEMMA Times ==
  ASSUME NEW a \in Int, NEW b \in Int, NEW c \in Nat, a <= b
  PROVE  a * c <= b * c
<1>1. (b - a) * c \in Nat
  BY Product
<1>2. (b - a) * c = b * c - a * c
  OBVIOUS
<1>3. QED
  BY <1>1, <1>2

LEMMA Cancel ==
  ASSUME NEW a \in Int, NEW b \in Int, NEW c \in Positive, a * c <= b * c
  PROVE  a <= b
<1>1. CASE a > b
  <2>1. a - b \in Positive
    BY <1>1 DEF Positive
  <2>2. (a - b) * c \in Positive
    BY <2>1, PositiveProduct
  <2>3. (a - b) * c = a * c - b * c
    BY DEF Positive
  <2>4. a * c \in Int /\ b * c \in Int
    BY DEF Positive
  <2>5. QED
    BY <2>2, <2>3, <2>4 DEF Positive
<1>2. QED
  BY <1>1

LEMMA Floor ==
  ASSUME NEW x \in Int, NEW d \in Positive
  PROVE  /\ x \div d \in Int /\ (x \div d) * d <= x /\ x < (x \div d) * d + d
         /\ x >= 0 => x \div d >= 0
<1>1. x = d * (x \div d) + (x % d) /\ x % d \in 0 .. d - 1 /\ x \div d \in Int
  BY DEF Positive
<1>2. d * (x \div d) = (x \div d) * d
  BY <1>1 DEF Positive
<1>3. ASSUME x >= 0, x \div d < 0 PROVE FALSE
  <2>1. x \div d <= -1
    BY <1>1, <1>3
  <2>2. (x \div d) * d <= (-1) * d
    BY <1>1, <2>1, Times DEF Positive
  <2>3. QED
    BY <1>1, <1>2, <1>3, <2>2 DEF Positive
<1>4. QED
  BY <1>1, <1>2, <1>3 DEF Positive

\* What a swap pays out is worth no more than what it takes less the fee.
LEMMA PaysNoMore ==
  ASSUME NEW a \in Nat, NEW pin \in Positive, NEW uin \in Positive, NEW pout \in Positive, NEW uout \in Positive,
         NEW D \in Positive, NEW f \in 0 .. D,
         NEW u \in Int, NEW c \in Int, NEW g \in Int,
         u * uin <= a * pin, u >= 0, u * f <= c * D, g * pout <= (u - c) * uout
  PROVE  g * pout * uin * D <= a * pin * uout * (D - f)
<1>1. D - f \in Nat /\ D \in Nat /\ uin \in Nat /\ uout \in Nat /\ pin \in Nat /\ pout \in Nat
  BY DEF Positive
<1>2. (u - c) * D <= u * (D - f)
  <2>1. (u - c) * D = u * D - c * D /\ u * (D - f) = u * D - u * f
    BY <1>1
  <2>2. u * D \in Int /\ c * D \in Int /\ u * f \in Int
    BY <1>1
  <2>3. QED
    BY <2>1, <2>2
<1> DEFINE w == uin * D
<1> DEFINE v == uout * uin
<1> DEFINE r == uout * (D - f)
<1>3. w \in Nat /\ v \in Nat /\ r \in Nat
  BY <1>1, Product
<1>4. g * pout * w <= (u - c) * uout * w
  <2>1. g * pout \in Int /\ (u - c) * uout \in Int
    BY <1>1
  <2> HIDE DEF w
  <2>2. QED
    BY <1>3, <2>1, Times
<1>5. (u - c) * D * v <= u * (D - f) * v
  <2>1. (u - c) * D \in Int /\ u * (D - f) \in Int
    BY <1>1
  <2> HIDE DEF v
  <2>2. QED
    BY <1>2, <1>3, <2>1, Times
<1>6. u * uin * r <= a * pin * r
  <2>1. u * uin \in Int /\ a * pin \in Int
    BY <1>1
  <2> HIDE DEF r
  <2>2. QED
    BY <1>3, <2>1, Times
<1>7. /\ g * pout * w = g * pout * uin * D
      /\ (u - c) * uout * w = (u - c) * D * v
      /\ u * (D - f) * v = u * uin * r
      /\ a * pin * r = a * pin * uout * (D - f)
  BY <1>1
<1>8. /\ g * pout * w \in Int /\ (u - c) * uout * w \in Int /\ u * (D - f) * v \in Int /\ a * pin * r \in Int
  BY <1>1, <1>3
<1> HIDE DEF w, v, r
<1>9. QED
  BY <1>4, <1>5, <1>6, <1>7, <1>8

\* And so of two swaps, there and back.
LEMMA ThereAndBack ==
  ASSUME NEW s \in Nat, NEW g \in Nat, NEW h \in Nat,
         NEW pb \in Positive, NEW po \in Positive, NEW qb \in Positive, NEW qo \in Positive,
         NEW ub \in Positive, NEW uo \in Positive, NEW D \in Positive,
         NEW fe \in 0 .. D, NEW fl \in 0 .. D,
         g * po * ub * D <= s * pb * uo * (D - fe),
         h * qb * uo * D <= g * qo * ub * (D - fl)
  PROVE  h * (qb * po) * D * D <= s * (pb * qo) * (D - fe) * (D - fl)
<1>1. /\ D - fe \in Nat /\ D - fl \in Nat /\ D \in Nat /\ ub \in Nat /\ uo \in Nat
      /\ pb \in Nat /\ po \in Nat /\ qb \in Nat /\ qo \in Nat
  BY DEF Positive
<1> DEFINE w == po * ub * D
<1> DEFINE v == qo * ub * (D - fl)
<1> DEFINE k == uo * ub
<1>2. w \in Nat /\ v \in Nat /\ k \in Positive
  BY <1>1, Product, PositiveProduct
<1>3. h * qb * uo * D * w <= g * qo * ub * (D - fl) * w
  <2>1. h * qb * uo * D \in Int /\ g * qo * ub * (D - fl) \in Int
    BY <1>1
  <2> HIDE DEF w
  <2>2. QED
    BY <1>2, <2>1, Times
<1>4. g * po * ub * D * v <= s * pb * uo * (D - fe) * v
  <2>1. g * po * ub * D \in Int /\ s * pb * uo * (D - fe) \in Int
    BY <1>1
  <2> HIDE DEF v
  <2>2. QED
    BY <1>2, <2>1, Times
<1>5. /\ h * qb * uo * D * w = h * (qb * po) * D * D * k
      /\ g * qo * ub * (D - fl) * w = g * po * ub * D * v
      /\ s * pb * uo * (D - fe) * v = s * (pb * qo) * (D - fe) * (D - fl) * k
  BY <1>1
<1>6. h * (qb * po) * D * D \in Int /\ s * (pb * qo) * (D - fe) * (D - fl) \in Int
  BY <1>1
<1>7. g * po * ub * D * v \in Int
  BY <1>1, <1>2
<1>8. h * (qb * po) * D * D * k <= s * (pb * qo) * (D - fe) * (D - fl) * k
  <2>1. h * (qb * po) * D * D * k \in Int /\ s * (pb * qo) * (D - fe) * (D - fl) * k \in Int
    BY <1>1, <1>2 DEF Positive
  <2> HIDE DEF w, v, k
  <2>2. QED
    BY <1>3, <1>4, <1>5, <1>7, <2>1
<1> HIDE DEF w, v, k
<1>9. QED
  BY <1>2, <1>6, <1>8, Cancel

\* A step of the price that is no larger than a fee: the price went up by no more than the
\* share `fm` of it, or down by no more.
LEMMA NoGainUp ==
  ASSUME NEW s \in Nat, NEW h \in Nat, NEW A \in Positive, NEW C \in Positive, NEW D \in Positive,
         NEW fe \in 0 .. D, NEW fl \in 0 .. D, NEW fm \in {fe, fl},
         h * A * D * D <= s * C * (D - fe) * (D - fl),
         C * D <= A * (D + fm)
  PROVE  h <= s
<1>1. A \in Nat /\ C \in Nat /\ D \in Nat /\ D - fe \in Nat /\ D - fl \in Nat /\ fm \in Nat /\ D - fm \in Nat
  BY DEF Positive
<1> DEFINE r == s * (D - fe) * (D - fl)
<1> DEFINE k == A * D * D * D
<1>2. r \in Nat /\ k \in Positive
  BY <1>1, Product, PositiveProduct
<1>3. C * D * r <= A * (D + fm) * r
  <2>1. C * D \in Int /\ A * (D + fm) \in Int
    BY <1>1
  <2> HIDE DEF r
  <2>2. QED
    BY <1>2, <2>1, Times
<1>4. h * A * D * D * D <= s * C * (D - fe) * (D - fl) * D
  <2>1. h * A * D * D \in Int /\ s * C * (D - fe) * (D - fl) \in Int
    BY <1>1
  <2>2. QED
    BY <1>1, <2>1, Times
<1>5. PICK fo \in 0 .. D : (D - fe) * (D - fl) = (D - fm) * (D - fo)
  <2>1. CASE fm = fe
    BY <1>1, <2>1
  <2>2. CASE fm = fl
    BY <1>1, <2>2
  <2>3. QED
    BY <2>1, <2>2
<1>6. (D + fm) * (D - fm) <= D * D
  <2>1. (D + fm) * (D - fm) = D * D - fm * fm /\ fm * fm \in Nat /\ D * D \in Nat
    BY <1>1
  <2>2. QED
    BY <2>1
<1> DEFINE t == A * s * (D - fo)
<1> DEFINE q == A * s * D * D
<1>7. t \in Nat /\ q \in Nat /\ D - fo \in Nat
  BY <1>1, Product
<1>8. (D + fm) * (D - fm) * t <= D * D * t
  <2>1. (D + fm) * (D - fm) \in Int /\ D * D \in Int
    BY <1>1
  <2> HIDE DEF t
  <2>2. QED
    BY <1>6, <1>7, <2>1, Times
<1>9. (D - fo) * q <= D * q
  <2> HIDE DEF q
  <2> QED
    BY <1>1, <1>7, Times
<1>10. A * (D + fm) * r = (D + fm) * (D - fm) * t
  <2>1. A * (D + fm) * r = A * (D + fm) * s * ((D - fe) * (D - fl))
    BY <1>1
  <2>2. A * (D + fm) * s * ((D - fm) * (D - fo)) = (D + fm) * (D - fm) * t
    BY <1>1, <1>7
  <2>3. QED
    BY <2>1, <2>2, <1>5
<1>11. /\ h * A * D * D * D = h * k
       /\ s * C * (D - fe) * (D - fl) * D = C * D * r
       /\ D * D * t = (D - fo) * q
       /\ D * q = s * k
  BY <1>1, <1>7
<1>12. /\ h * k \in Int /\ s * k \in Int /\ C * D * r \in Int /\ A * (D + fm) * r \in Int
       /\ (D - fo) * q \in Int
  BY <1>1, <1>2, <1>7 DEF Positive
<1>13. h * k <= s * k
  <2> HIDE DEF k, r, t, q
  <2> QED
    BY <1>3, <1>4, <1>8, <1>9, <1>10, <1>11, <1>12
<1> HIDE DEF k, r, t, q
<1>14. QED
  BY <1>2, <1>13, Cancel

LEMMA NoGainDown ==
  ASSUME NEW s \in Nat, NEW h \in Nat, NEW A \in Positive, NEW C \in Positive, NEW D \in Positive,
         NEW fe \in 0 .. D, NEW fl \in 0 .. D, NEW fm \in {fe, fl},
         h * A * D * D <= s * C * (D - fe) * (D - fl),
         C * (D - fm) <= A * D
  PROVE  h <= s
<1>1. A \in Nat /\ C \in Nat /\ D \in Nat /\ D - fe \in Nat /\ D - fl \in Nat /\ fm \in Nat /\ D - fm \in Nat
  BY DEF Positive
<1>2. PICK fo \in 0 .. D : (D - fe) * (D - fl) = (D - fm) * (D - fo)
  <2>1. CASE fm = fe
    BY <1>1, <2>1
  <2>2. CASE fm = fl
    BY <1>1, <2>2
  <2>3. QED
    BY <2>1, <2>2
<1> DEFINE r == s * (D - fo)
<1> DEFINE q == s * A * D
<1> DEFINE k == A * D * D
<1>3. r \in Nat /\ q \in Nat /\ D - fo \in Nat /\ k \in Positive
  BY <1>1, Product, PositiveProduct
<1>4. C * (D - fm) * r <= A * D * r
  <2>1. C * (D - fm) \in Int /\ A * D \in Int
    BY <1>1
  <2> HIDE DEF r
  <2>2. QED
    BY <1>3, <2>1, Times
<1>5. (D - fo) * q <= D * q
  <2> HIDE DEF q
  <2> QED
    BY <1>1, <1>3, Times
<1>6. s * C * (D - fe) * (D - fl) = C * (D - fm) * r
  <2>1. s * C * (D - fe) * (D - fl) = s * C * ((D - fe) * (D - fl))
    BY <1>1
  <2>2. s * C * ((D - fm) * (D - fo)) = C * (D - fm) * r
    BY <1>1, <1>3
  <2>3. QED
    BY <2>1, <2>2, <1>2
<1>7. A * D * r = (D - fo) * q /\ D * q = s * k /\ h * A * D * D = h * k
  BY <1>1, <1>3
<1>8. C * (D - fm) * r \in Int /\ A * D * r \in Int /\ s * k \in Int /\ h * k \in Int /\ D * q \in Int
  BY <1>1, <1>3 DEF Positive
<1>9. h * k <= s * k
  <2> HIDE DEF k, r, q
  <2> QED
    BY <1>4, <1>5, <1>6, <1>7, <1>8
<1> HIDE DEF k, r, q
<1>10. QED
  BY <1>3, <1>9, Cancel

-----------------------------------------------------------------------------
(* The swap pool and its price keeper                                        *)

\* What the keeper plans is no further from the target than what it read, and no further
\* from what it read than the fee it read.
Plans ==
    {x \in [from : Nat, price : Nat, fee : Nat] :
       /\ Distance(x.price, target) <= Distance(x.from, target)
       /\ Distance(x.price, x.from) * BPS_DENOM <= x.from * x.fee}

PoolOK ==
    /\ vm \in {"evm", "solana"} /\ target \in Nat /\ price \in Positive
    /\ pool \in [fee : 0 .. MAX_FEE_BPS, dev : 1 .. BPS_DENOM, interval : Intervals, max_age : Ages,
                 paused : BOOLEAN, oracle : BOOLEAN]
    /\ reserve \in [Token -> Int]
    /\ draft \in Plans /\ txs \subseteq Plans
    /\ trader \in [base : Token, at : {"out", "in", "done"}, held : Nat, moves : Nat, refees : Nat,
                   slip : BOOLEAN]

PriceAt(t, p) == IF t = "hub" THEN PRICE_ONE ELSE p

\* What the trader holds is worth the stake at the price `p`, less the fee `f`.
Bought(p, f) ==
    trader.held * PriceAt(Other(trader.base), p) * Unit[trader.base] * BPS_DENOM
      <= Stakes[trader.base] * PriceAt(trader.base, p) * Unit[Other(trader.base)] * (BPS_DENOM - f)

\* Bought at the price `p` and the fee `f`; the fee was `m` when the price moved, if it did.
Trip(p, f, m) ==
    /\ Bought(p, f)
    /\ trader.moves = 0 => price = p
    /\ trader.moves = 1 /\ ~ (vm = "solana" /\ trader.slip) => Distance(price, p) * BPS_DENOM <= p * m
    /\ trader.refees = 0 => f = pool.fee /\ m = f
    /\ trader.refees = 1 => m \in {f, pool.fee}

TripInv ==
    /\ trader.at = "out" => trader.moves = 0 /\ trader.refees = 0
    /\ trader.at = "in" => \E p \in Positive, f, m \in 0 .. BPS_DENOM : Trip(p, f, m)
    /\ NoSandwich

PoolInv == PoolOK /\ TripInv

LEMMA PoolConstants ==
  /\ PRICE_ONE \in Positive /\ BPS_DENOM \in Positive /\ BPS_DENOM \in Nat /\ MAX_FEE_BPS \in 0 .. BPS_DENOM
  /\ \A t \in Token : Unit[t] \in Positive /\ Stakes[t] \in Nat /\ Other(t) \in Token /\ Other(t) # t
BY PoolAssumption DEF Positive, Token, Other

LEMMA Distances ==
  ASSUME NEW a \in Int, NEW b \in Int
  PROVE  /\ Distance(a, b) \in Nat /\ Distance(a, b) = Distance(b, a)
         /\ a - b <= Distance(a, b) /\ b - a <= Distance(a, b)
BY DEF Distance

LEMMA NothingIsPlanned ==
  ASSUME target \in Nat
  PROVE  Nothing \in Plans
<1>1. Nothing \in [from : Nat, price : Nat, fee : Nat] /\ Nothing.price = 0 /\ Nothing.from = 0 /\ Nothing.fee = 0
  BY DEF Nothing
<1>2. Distance(0, 0) * BPS_DENOM <= 0 * 0 /\ Distance(0, target) <= Distance(0, target)
  BY PoolConstants DEF Distance
<1>3. QED
  BY <1>1, <1>2 DEF Plans

LEMMA PlanIsOne ==
  ASSUME PoolOK, NEW quoted \in Nat, NEW fee \in Nat, plan(quoted, fee) # Nothing
  PROVE  plan(quoted, fee) \in Plans
<1> DEFINE least == step_cap_bps(fee)
<1> DEFINE cap == mul_div_floor(quoted, least, BPS_DENOM)
<1> DEFINE next == IF Distance(quoted, target) <= cap THEN target
                   ELSE IF target > quoted THEN quoted + cap ELSE quoted - cap
<1>1. least \in Nat /\ least <= fee
  <2>1. pool.dev \in Nat
    BY DEF PoolOK
  <2>2. QED
    BY <2>1 DEF step_cap_bps
<1>2. cap \in Nat /\ cap * BPS_DENOM <= quoted * least
  <2>1. quoted * least \in Nat
    BY <1>1, Product
  <2>2. cap = (quoted * least) \div BPS_DENOM
    BY DEF mul_div_floor
  <2> HIDE DEF cap, least
  <2>3. QED
    BY <2>1, <2>2, Floor, PoolConstants
<1>3. least * quoted <= fee * quoted
  <2> HIDE DEF least
  <2> QED
    BY <1>1, Times
<1>4. target \in Nat
  BY DEF PoolOK
<1>5. plan(quoted, fee) = [from |-> quoted, price |-> next, fee |-> fee]
  BY DEF plan
<1>6. /\ next \in Nat /\ Distance(next, target) <= Distance(quoted, target)
      /\ Distance(next, quoted) \in Nat /\ Distance(next, quoted) <= cap
  <2> HIDE DEF cap
  <2> QED
    BY <1>2, <1>4 DEF Distance
<1>7. Distance(next, quoted) * BPS_DENOM <= cap * BPS_DENOM
  <2> HIDE DEF next, cap
  <2> QED
    BY <1>2, <1>6, Times, PoolConstants
<1>8. Distance(next, quoted) * BPS_DENOM <= quoted * fee
  <2>1. /\ Distance(next, quoted) * BPS_DENOM \in Int /\ cap * BPS_DENOM \in Int
        /\ quoted * least \in Int /\ quoted * least = least * quoted /\ quoted * fee = fee * quoted
    <3> HIDE DEF next, cap, least
    <3> QED BY <1>1, <1>2, <1>6, PoolConstants
  <2>2. quoted * fee \in Int
    OBVIOUS
  <2> HIDE DEF next, cap, least
  <2>3. QED
    BY <1>2, <1>3, <1>7, <2>1, <2>2
<1> HIDE DEF next, cap, least
<1>9. QED
  BY <1>5, <1>6, <1>8 DEF Plans

\* What a swap pays is worth what it takes, less the fee, or less.
LEMMA SwapPays ==
  ASSUME PoolOK, NEW t \in Token, NEW amount \in Nat, NEW got \in Int, process_swap(t, Other(t), amount, got)
  PROVE  /\ got \in Positive
         /\ got * PriceOf(Other(t)) * Unit[t] * BPS_DENOM
              <= amount * PriceOf(t) * Unit[Other(t)] * (BPS_DENOM - pool.fee)
         /\ reserve' = [reserve EXCEPT ![t] = @ + amount, ![Other(t)] = @ - got]
<1> DEFINE o == Other(t)
<1> DEFINE u == mul_div_floor(amount, PriceOf(t), Unit[t])
<1> DEFINE c == mul_div_ceil(u, pool.fee, BPS_DENOM)
<1>1. /\ PriceOf(t) \in Positive /\ PriceOf(o) \in Positive /\ Unit[t] \in Positive /\ Unit[o] \in Positive
      /\ PriceOf(t) \in Nat /\ PriceOf(o) \in Nat /\ Unit[t] \in Nat /\ Unit[o] \in Nat
  BY PoolConstants DEF PoolOK, PriceOf, Positive
<1>2. pool.fee \in 0 .. BPS_DENOM /\ pool.fee \in Nat
  BY PoolConstants DEF PoolOK
<1>3. got = mul_div_floor(u - c, Unit[o], PriceOf(o)) /\ got > 0
  BY DEF process_swap, amount_out, payout
<1>4. u \in Int /\ u >= 0 /\ u * Unit[t] <= amount * PriceOf(t)
  <2>1. amount * PriceOf(t) \in Nat
    BY <1>1, Product
  <2>2. u = (amount * PriceOf(t)) \div Unit[t]
    BY DEF mul_div_floor
  <2> HIDE DEF u
  <2>3. QED
    BY <1>1, <2>1, <2>2, Floor
<1>5. c \in Int /\ u * pool.fee <= c * BPS_DENOM
  <2> DEFINE x == u * pool.fee + BPS_DENOM - 1
  <2>1. u * pool.fee \in Int /\ x \in Int
    <3> HIDE DEF u
    <3> QED BY <1>2, <1>4, PoolConstants
  <2>2. c = x \div BPS_DENOM
    BY DEF mul_div_ceil
  <2>3. x \div BPS_DENOM \in Int /\ x < (x \div BPS_DENOM) * BPS_DENOM + BPS_DENOM
    <3> HIDE DEF x
    <3> QED BY <2>1, Floor, PoolConstants
  <2> DEFINE uf == u * pool.fee
  <2>4. c * BPS_DENOM \in Int /\ uf \in Int /\ x = uf + BPS_DENOM - 1 /\ x < c * BPS_DENOM + BPS_DENOM
    <3>1. c \in Int
      BY <2>2, <2>3
    <3>2. c * BPS_DENOM \in Int
      <4> HIDE DEF c
      <4> QED BY <3>1, PoolConstants
    <3>3. QED
      BY <2>1, <2>2, <2>3, <3>2
  <2>5. uf <= c * BPS_DENOM
    <3> HIDE DEF x, c, uf, u
    <3> QED BY <2>4, PoolConstants
  <2>6. QED
    BY <2>2, <2>3, <2>5
<1>6. got * PriceOf(o) <= (u - c) * Unit[o]
  <2>1. (u - c) * Unit[o] \in Int
    <3> HIDE DEF u, c, o
    <3> QED BY <1>1, <1>4, <1>5
  <2>2. got = ((u - c) * Unit[o]) \div PriceOf(o)
    BY <1>3 DEF mul_div_floor
  <2> HIDE DEF u, c, o
  <2>3. QED
    BY <1>1, <2>1, <2>2, Floor
<1>7. got * PriceOf(o) * Unit[t] * BPS_DENOM <= amount * PriceOf(t) * Unit[o] * (BPS_DENOM - pool.fee)
  <2> HIDE DEF u, c, o
  <2> QED
    BY <1>1, <1>2, <1>4, <1>5, <1>6, PaysNoMore, PoolConstants
<1>8. reserve' = [reserve EXCEPT ![t] = @ + amount, ![o] = @ - got]
  BY DEF process_swap
<1>9. QED
  BY <1>3, <1>7, <1>8 DEF Positive

\* In the pool's own prices a swap leaves no less than there was.
LEMMA SwapKeepsValue ==
  ASSUME PoolOK, NEW t \in Token, NEW amount \in Nat, NEW got \in Int, process_swap(t, Other(t), amount, got),
         UNCHANGED price
  PROVE  Value' >= Value
<1> DEFINE o == Other(t)
<1>1. /\ got \in Nat /\ pool.fee \in 0 .. BPS_DENOM /\ BPS_DENOM - pool.fee \in Nat /\ BPS_DENOM - pool.fee <= BPS_DENOM
      /\ PriceOf(t) \in Nat /\ PriceOf(o) \in Nat /\ Unit[t] \in Nat /\ Unit[o] \in Nat
  BY SwapPays, PoolConstants DEF PoolOK, PriceOf, Positive
<1> DEFINE paid == got * PriceOf(o) * Unit[t]
<1> DEFINE taken == amount * PriceOf(t) * Unit[o]
<1>2. taken \in Nat /\ paid \in Nat
  <2> HIDE DEF o
  <2> QED BY <1>1, Product
<1>3. paid * BPS_DENOM <= taken * (BPS_DENOM - pool.fee)
  BY SwapPays
<1>4. (BPS_DENOM - pool.fee) * taken <= BPS_DENOM * taken
  <2> HIDE DEF taken
  <2> QED BY <1>1, <1>2, Times, PoolConstants
<1>5. paid <= taken
  <2> HIDE DEF taken, paid
  <2>1. /\ taken * (BPS_DENOM - pool.fee) = (BPS_DENOM - pool.fee) * taken /\ BPS_DENOM * taken = taken * BPS_DENOM
        /\ taken * (BPS_DENOM - pool.fee) \in Int /\ taken * BPS_DENOM \in Int /\ paid * BPS_DENOM \in Int
    BY <1>1, <1>2, PoolConstants
  <2>2. paid * BPS_DENOM <= taken * BPS_DENOM
    BY <1>3, <1>4, <2>1
  <2>3. QED
    <3>1. paid \in Int /\ taken \in Int /\ BPS_DENOM \in Positive
      BY <1>2, PoolConstants
    <3>2. QED
      BY <2>2, <3>1, Cancel
<1>6. /\ reserve'[t] = reserve[t] + amount /\ reserve'[o] = reserve[o] - got
      /\ reserve[t] \in Int /\ reserve[o] \in Int
  BY SwapPays, PoolConstants DEF PoolOK
<1>7. /\ (reserve[t] + amount) * PriceOf(t) * Unit[o] = reserve[t] * PriceOf(t) * Unit[o] + taken
      /\ (reserve[o] - got) * PriceOf(o) * Unit[t] = reserve[o] * PriceOf(o) * Unit[t] - paid
      /\ reserve[t] * PriceOf(t) * Unit[o] \in Int /\ reserve[o] * PriceOf(o) * Unit[t] \in Int
  <2> HIDE DEF o
  <2> QED BY <1>1, <1>6
<1>8. /\ Value = reserve[t] * PriceOf(t) * Unit[o] + reserve[o] * PriceOf(o) * Unit[t]
      /\ Value' = reserve'[t] * PriceOf(t) * Unit[o] + reserve'[o] * PriceOf(o) * Unit[t]
  <2>1. reserve[t] \in Int /\ reserve[o] \in Int /\ reserve'[t] \in Int /\ reserve'[o] \in Int
    BY <1>1, <1>6
  <2>2. CASE t = "hub"
    <3>1. o = "tok" /\ PriceOf(t) = PRICE_ONE /\ PriceOf(o) = price
      BY <2>2 DEF Other, PriceOf
    <3>2. QED
      BY <1>1, <2>1, <2>2, <3>1 DEF Value
  <2>3. CASE t = "tok"
    <3>1. o = "hub" /\ PriceOf(t) = price /\ PriceOf(o) = PRICE_ONE
      BY <2>3 DEF Other, PriceOf
    <3>2. /\ Value = reserve[o] * PriceOf(o) * Unit[t] + reserve[t] * PriceOf(t) * Unit[o]
          /\ Value' = reserve'[o] * PriceOf(o) * Unit[t] + reserve'[t] * PriceOf(t) * Unit[o]
      BY <2>3, <3>1 DEF Value
    <3>3. /\ reserve[o] * PriceOf(o) * Unit[t] \in Int /\ reserve[t] * PriceOf(t) * Unit[o] \in Int
          /\ reserve'[o] * PriceOf(o) * Unit[t] \in Int /\ reserve'[t] * PriceOf(t) * Unit[o] \in Int
      <4> HIDE DEF o
      <4> QED BY <1>1, <2>1
    <3> HIDE DEF o
    <3>4. QED
      BY <3>2, <3>3
  <2>4. QED
    BY <2>2, <2>3 DEF Token
<1> HIDE DEF o, paid, taken
<1>9. QED
  BY <1>2, <1>5, <1>6, <1>7, <1>8

\* The first half of the round trip.
LEMMA EnterKeepsFaith ==
  ASSUME PoolInv, Enter
  PROVE  PoolInv' /\ Value' >= Value
<1> DEFINE b == trader.base
<1> DEFINE o == Other(b)
<1>1. PICK got \in 1 .. reserve[o] :
        /\ process_swap(b, o, trader.held, got)
        /\ trader' = [trader EXCEPT !.at = "in", !.held = got, !.slip = FALSE]
  BY DEF Enter
<1>2. /\ trader.at = "out" /\ trader.held = Stakes[b]
      /\ UNCHANGED <<vm, target, price, pool, draft, txs>>
  BY DEF Enter, config, token, oracle
<1>3. b \in Token /\ o \in Token /\ trader.held \in Nat /\ got \in Int
  BY PoolConstants, <1>1 DEF PoolInv, PoolOK
<1>4. /\ got \in Positive
      /\ got * PriceOf(o) * Unit[b] * BPS_DENOM <= trader.held * PriceOf(b) * Unit[o] * (BPS_DENOM - pool.fee)
      /\ reserve' = [reserve EXCEPT ![b] = @ + trader.held, ![o] = @ - got]
  BY <1>1, <1>3, SwapPays DEF PoolInv
<1>5. Value' >= Value
  BY <1>1, <1>2, <1>3, SwapKeepsValue DEF PoolInv
<1>6. /\ trader'.base = b /\ trader'.at = "in" /\ trader'.held = got /\ trader'.moves = 0 /\ trader'.refees = 0
      /\ trader'.slip = FALSE
  BY <1>1, <1>2 DEF PoolInv, PoolOK, TripInv
<1>7. PoolOK'
  <2>1. trader' \in [base : Token, at : {"out", "in", "done"}, held : Nat, moves : Nat, refees : Nat, slip : BOOLEAN]
    BY <1>1, <1>4 DEF PoolInv, PoolOK, Positive
  <2>2. reserve' \in [Token -> Int]
    BY <1>3, <1>4 DEF PoolInv, PoolOK
  <2>3. Plans' = Plans
    BY <1>2 DEF Plans
  <2>4. QED
    BY <1>2, <2>1, <2>2, <2>3 DEF PoolInv, PoolOK
<1>8. Trip(price, pool.fee, pool.fee)'
  <2>1. PriceAt(o, price) = PriceOf(o) /\ PriceAt(b, price) = PriceOf(b)
    BY DEF PriceAt, PriceOf
  <2>2. Bought(price, pool.fee)'
    BY <1>2, <1>4, <1>6, <2>1 DEF Bought, PriceAt
  <2>3. QED
    BY <1>2, <1>6, <2>2 DEF Trip
<1>9. TripInv'
  <2>1. price' \in Positive /\ pool'.fee \in 0 .. BPS_DENOM
    BY <1>7, PoolConstants DEF PoolOK
  <2>2. NoSandwich'
    BY <1>6 DEF NoSandwich
  <2>3. QED
    BY <1>6, <1>8, <2>1, <2>2 DEF TripInv
<1>10. QED
  BY <1>5, <1>7, <1>9 DEF PoolInv

\* The second half, after at most one step of the price and at most one change of the fee.
LEMMA TripDoesNotPay ==
  ASSUME PoolOK, NEW p \in Positive, NEW f \in 0 .. BPS_DENOM, NEW m \in 0 .. BPS_DENOM, Trip(p, f, m),
         NEW got \in Int, process_swap(Other(trader.base), trader.base, trader.held, got),
         trader.moves <= 1, trader.refees <= 1, ~ (vm = "solana" /\ trader.slip)
  PROVE  got <= Stakes[trader.base]
<1> DEFINE b == trader.base
<1> DEFINE o == Other(b)
<1> DEFINE D == BPS_DENOM
<1> DEFINE A == PriceOf(b) * PriceAt(o, p)
<1> DEFINE C == PriceAt(b, p) * PriceOf(o)
<1>1. b \in Token /\ o \in Token /\ Other(o) = b /\ trader.held \in Nat /\ trader.moves \in Nat /\ trader.refees \in Nat
  BY PoolConstants DEF PoolOK, Token, Other
<1>2. /\ PriceOf(b) \in Positive /\ PriceOf(o) \in Positive /\ PriceAt(b, p) \in Positive /\ PriceAt(o, p) \in Positive
      /\ Unit[b] \in Positive /\ Unit[o] \in Positive /\ Stakes[b] \in Nat
      /\ pool.fee \in 0 .. D /\ D \in Positive
  BY <1>1, PoolConstants DEF PoolOK, PriceOf, PriceAt
<1>3. /\ got \in Positive /\ got \in Nat
      /\ got * PriceOf(b) * Unit[o] * D <= trader.held * PriceOf(o) * Unit[b] * (D - pool.fee)
  BY <1>1, SwapPays DEF Positive
<1>4. trader.held * PriceAt(o, p) * Unit[b] * D <= Stakes[b] * PriceAt(b, p) * Unit[o] * (D - f)
  BY DEF Trip, Bought
<1>5. got * A * D * D <= Stakes[b] * C * (D - f) * (D - pool.fee)
  <2> DEFINE s == Stakes[b]
  <2> DEFINE g == trader.held
  <2> DEFINE pb == PriceAt(b, p)
  <2> DEFINE po == PriceAt(o, p)
  <2> DEFINE qb == PriceOf(b)
  <2> DEFINE qo == PriceOf(o)
  <2> DEFINE ub == Unit[b]
  <2> DEFINE uo == Unit[o]
  <2> DEFINE fl == pool.fee
  <2>1. /\ s \in Nat /\ g \in Nat /\ got \in Nat
        /\ pb \in Positive /\ po \in Positive /\ qb \in Positive /\ qo \in Positive
        /\ ub \in Positive /\ uo \in Positive /\ D \in Positive /\ f \in 0 .. D /\ fl \in 0 .. D
    BY <1>1, <1>2, <1>3
  <2>2. g * po * ub * D <= s * pb * uo * (D - f) /\ got * qb * uo * D <= g * qo * ub * (D - fl)
    BY <1>3, <1>4
  <2>3. got * (qb * po) * D * D <= s * (pb * qo) * (D - f) * (D - fl)
    <3> HIDE DEF s, g, pb, po, qb, qo, ub, uo, fl, D
    <3> QED BY <2>1, <2>2, ThereAndBack
  <2>4. QED
    BY <2>3
<1>6. A \in Positive /\ C \in Positive
  <2> HIDE DEF b, o
  <2> QED BY <1>2, PositiveProduct
<1>7. PICK e \in {f, pool.fee} : /\ trader.moves = 0 => price = p
                                 /\ trader.moves = 1 => Distance(price, p) * D <= p * e
  <2>1. CASE trader.moves = 0
    BY <2>1 DEF Trip
  <2>2. CASE trader.moves = 1 /\ trader.refees = 0
    BY <2>2 DEF Trip
  <2>3. CASE trader.moves = 1 /\ trader.refees = 1
    BY <2>3 DEF Trip
  <2>4. QED
    BY <1>1, <2>1, <2>2, <2>3
<1>8. e \in 0 .. D /\ e \in Nat /\ D - e \in Nat /\ p \in Nat /\ price \in Nat /\ price \in Positive /\ D \in Nat
  BY <1>2 DEF PoolOK, Positive
<1>9. price * D <= p * (D + e) /\ p * (D - e) <= price * D
  <2> DEFINE dist == Distance(price, p)
  <2>1. dist * D <= p * e
    <3>1. CASE trader.moves = 0
      <4>1. dist = 0
        BY <1>7, <1>8, <3>1 DEF Distance
      <4>2. 0 * D = 0 /\ p * e \in Nat
        BY <1>8
      <4>3. QED
        BY <4>1, <4>2
    <3>2. CASE trader.moves = 1
      BY <1>7, <3>2
    <3>3. QED
      BY <1>1, <3>1, <3>2
  <2>2. dist \in Nat /\ price - p <= dist /\ p - price <= dist
    BY <1>8, Distances
  <2>3. (price - p) * D <= dist * D /\ (p - price) * D <= dist * D
    <3> HIDE DEF dist, D
    <3> QED BY <1>8, <2>2, Times
  <2>4. /\ (price - p) * D = price * D - p * D /\ (p - price) * D = p * D - price * D
        /\ p * (D + e) = p * D + p * e /\ p * (D - e) = p * D - p * e
        /\ price * D \in Int /\ p * D \in Int /\ p * e \in Int /\ dist * D \in Int
    <3> HIDE DEF dist, D
    <3> QED BY <1>8, <2>2
  <2> HIDE DEF dist, D
  <2>5. QED
    BY <2>1, <2>3, <2>4
<1>10. CASE b = "hub"
  <2>1. A = PRICE_ONE * p /\ C = PRICE_ONE * price
    BY <1>10 DEF PriceOf, PriceAt, Other
  <2>2. C * D <= A * (D + e)
    <3>1. (price * D) * PRICE_ONE <= (p * (D + e)) * PRICE_ONE
      <4>1. price * D \in Int /\ p * (D + e) \in Int /\ PRICE_ONE \in Nat
        BY <1>8, PoolConstants DEF Positive
      <4> HIDE DEF D
      <4>2. QED
        BY <1>9, <4>1, Times
    <3>2. (price * D) * PRICE_ONE = PRICE_ONE * price * D /\ (p * (D + e)) * PRICE_ONE = PRICE_ONE * p * (D + e)
      BY <1>8, PoolConstants DEF Positive
    <3> HIDE DEF D, A, C
    <3>3. QED
      BY <2>1, <3>1, <3>2
  <2> DEFINE s == Stakes[b]
  <2> DEFINE fl == pool.fee
  <2>3. /\ s \in Nat /\ got \in Nat /\ A \in Positive /\ C \in Positive /\ D \in Positive
        /\ f \in 0 .. D /\ fl \in 0 .. D /\ e \in {f, fl}
        /\ got * A * D * D <= s * C * (D - f) * (D - fl)
    BY <1>2, <1>3, <1>5, <1>6, <1>7
  <2>4. got <= s
    <3> HIDE DEF A, C, D, s, fl
    <3> QED BY <2>2, <2>3, NoGainUp
  <2>5. QED
    BY <2>4
<1>11. CASE b = "tok"
  <2>1. A = price * PRICE_ONE /\ C = p * PRICE_ONE
    BY <1>11 DEF PriceOf, PriceAt, Other
  <2>2. C * (D - e) <= A * D
    <3>1. (p * (D - e)) * PRICE_ONE <= (price * D) * PRICE_ONE
      <4>1. price * D \in Int /\ p * (D - e) \in Int /\ PRICE_ONE \in Nat
        BY <1>8, PoolConstants DEF Positive
      <4> HIDE DEF D
      <4>2. QED
        BY <1>9, <4>1, Times
    <3>2. (price * D) * PRICE_ONE = price * PRICE_ONE * D /\ (p * (D - e)) * PRICE_ONE = p * PRICE_ONE * (D - e)
      BY <1>8, PoolConstants DEF Positive
    <3> HIDE DEF D, A, C
    <3>3. QED
      BY <2>1, <3>1, <3>2
  <2> DEFINE s == Stakes[b]
  <2> DEFINE fl == pool.fee
  <2>3. /\ s \in Nat /\ got \in Nat /\ A \in Positive /\ C \in Positive /\ D \in Positive
        /\ f \in 0 .. D /\ fl \in 0 .. D /\ e \in {f, fl}
        /\ got * A * D * D <= s * C * (D - f) * (D - fl)
    BY <1>2, <1>3, <1>5, <1>6, <1>7
  <2>4. got <= s
    <3> HIDE DEF A, C, D, s, fl
    <3> QED BY <2>2, <2>3, NoGainDown
  <2>5. QED
    BY <2>4
<1>12. QED
  BY <1>1, <1>10, <1>11 DEF Token

LEMMA LeaveKeepsFaith ==
  ASSUME PoolInv, Leave
  PROVE  PoolInv' /\ Value' >= Value
<1> DEFINE b == trader.base
<1> DEFINE o == Other(b)
<1>1. PICK got \in 1 .. reserve[b] :
        /\ process_swap(o, b, trader.held, got)
        /\ trader' = [trader EXCEPT !.at = "done", !.held = got]
  BY DEF Leave
<1>2. /\ trader.at = "in" /\ UNCHANGED <<vm, target, price, pool, draft, txs>>
  BY DEF Leave, config, token, oracle
<1>3. b \in Token /\ o \in Token /\ Other(o) = b /\ trader.held \in Nat
      /\ got \in Int /\ got > 0 /\ got \in Nat
  BY PoolConstants, <1>1 DEF PoolInv, PoolOK, Token, Other
<1>4. reserve' = [reserve EXCEPT ![o] = @ + trader.held, ![b] = @ - got]
  BY <1>1 DEF process_swap
<1>5. Value' >= Value
  <2>1. process_swap(o, Other(o), trader.held, got)
    BY <1>1, <1>3
  <2> HIDE DEF o, b
  <2>2. QED
    BY <1>2, <1>3, <2>1, SwapKeepsValue DEF PoolInv
<1>6. /\ trader'.base = b /\ trader'.at = "done" /\ trader'.held = got
      /\ trader'.moves = trader.moves /\ trader'.refees = trader.refees /\ trader'.slip = trader.slip
  BY <1>1 DEF PoolInv, PoolOK
<1>7. PoolOK'
  <2>1. trader' \in [base : Token, at : {"out", "in", "done"}, held : Nat, moves : Nat, refees : Nat, slip : BOOLEAN]
    BY <1>1, <1>3 DEF PoolInv, PoolOK
  <2>2. reserve' \in [Token -> Int]
    BY <1>3, <1>4 DEF PoolInv, PoolOK
  <2>3. Plans' = Plans
    BY <1>2 DEF Plans
  <2>4. QED
    BY <1>2, <2>1, <2>2, <2>3 DEF PoolInv, PoolOK
<1>8. NoSandwich'
  <2>1. CASE trader.moves > 1 \/ trader.refees > 1 \/ (vm = "solana" /\ trader.slip)
    BY <1>2, <1>6, <2>1 DEF NoSandwich
  <2>2. CASE ~ (trader.moves > 1 \/ trader.refees > 1 \/ (vm = "solana" /\ trader.slip))
    <3>1. PICK p \in Positive, f \in 0 .. BPS_DENOM, m \in 0 .. BPS_DENOM : Trip(p, f, m)
      BY <1>2 DEF PoolInv, TripInv
    <3>2. trader.moves <= 1 /\ trader.refees <= 1
      BY <2>2 DEF PoolInv, PoolOK
    <3>3. got <= Stakes[b]
      BY <1>1, <1>3, <2>2, <3>1, <3>2, TripDoesNotPay DEF PoolInv
    <3>4. Stakes[b] \in Nat
      BY <1>3, PoolConstants
    <3>5. QED
      BY <1>3, <1>6, <3>3, <3>4 DEF NoSandwich
  <2>3. QED
    BY <2>1, <2>2
<1>9. QED
  BY <1>5, <1>6, <1>7, <1>8 DEF PoolInv, TripInv

\* An update that lands was planned from the price it replaces, and moves it by no more than
\* the fee's share: the EVM pool's own bound, or the keeper's under the same fee.
LEMMA UpdateIsSmall ==
  ASSUME PoolOK, NEW x \in Plans, may_set_price(x), vm = "evm" \/ x.fee = pool.fee
  PROVE  Distance(x.price, price) * BPS_DENOM <= price * pool.fee
<1>1. /\ price \in Nat /\ pool.fee \in Nat /\ pool.dev \in Nat /\ x.price \in Nat
      /\ BPS_DENOM \in Positive /\ BPS_DENOM \in Nat
  BY PoolConstants DEF PoolOK, Plans, Positive
<1>2. CASE vm = "evm"
  <2> DEFINE c == priceStepCapBps
  <2> DEFINE cap == mul_div_floor(price, c, BPS_DENOM)
  <2> DEFINE dist == Distance(x.price, price)
  <2>1. c \in Nat /\ c <= pool.fee
    BY <1>1, <1>2 DEF priceStepCapBps
  <2>2. dist \in Nat /\ dist <= cap
    <3>1. dist <= cap
      BY DEF may_set_price
    <3>2. dist \in Nat
      BY <1>1 DEF Distance
    <3>3. QED
      BY <3>1, <3>2
  <2>3. cap \in Int /\ cap * BPS_DENOM <= price * c
    <3>1. price * c \in Nat
      BY <1>1, <2>1, Product
    <3>2. cap = (price * c) \div BPS_DENOM
      BY DEF mul_div_floor
    <3> HIDE DEF cap, c
    <3>3. QED
      BY <1>1, <3>1, <3>2, Floor
  <2>4. dist * BPS_DENOM <= cap * BPS_DENOM
    <3> HIDE DEF dist, cap
    <3> QED BY <1>1, <2>2, <2>3, Times
  <2>5. c * price <= pool.fee * price
    <3> HIDE DEF c
    <3> QED BY <1>1, <2>1, Times
  <2>6. /\ dist * BPS_DENOM \in Int /\ cap * BPS_DENOM \in Int /\ price * c \in Int /\ price * pool.fee \in Int
        /\ price * c = c * price /\ price * pool.fee = pool.fee * price
    <3> HIDE DEF dist, cap, c
    <3> QED BY <1>1, <2>1, <2>2, <2>3
  <2> HIDE DEF dist, cap, c
  <2>7. dist * BPS_DENOM <= price * pool.fee
    BY <2>3, <2>4, <2>5, <2>6
  <2>8. QED
    BY <2>7 DEF dist
<1>3. CASE x.fee = pool.fee
  <2>1. x.from = price
    BY DEF may_set_price, expected
  <2>2. QED
    BY <1>3, <2>1 DEF Plans
<1>4. QED
  BY <1>2, <1>3

LEMMA SetPriceKeepsFaith ==
  ASSUME PoolInv, NEW x \in txs, process_set_price(x)
  PROVE  /\ PoolInv' /\ (price' = price => Value' = Value)
         /\ Distance(price', target) <= Distance(price, target)
<1>1. /\ UNCHANGED <<vm, target, pool, reserve>> /\ txs' \subseteq txs /\ draft' \in {draft, Nothing}
      /\ x \in Plans
  BY DEF process_set_price, config, PoolInv, PoolOK
<1>2. Plans' = Plans /\ Nothing \in Plans
  BY <1>1, NothingIsPlanned DEF Plans, PoolInv, PoolOK
<1>3. price' = price => Value' = Value
  BY <1>1 DEF Value
<1>4. CASE may_set_price(x)
  <2>1. /\ price' = x.price /\ x.from = price
        /\ trader' = [trader EXCEPT !.moves = IF trader.at = "in" /\ x.price /= price THEN @ + 1 ELSE @,
                                    !.slip = @ \/ x.fee /= pool.fee]
    BY <1>4 DEF process_set_price, may_set_price, expected
  <2>2. /\ trader'.base = trader.base /\ trader'.at = trader.at /\ trader'.held = trader.held
        /\ trader'.refees = trader.refees
        /\ trader'.moves = IF trader.at = "in" /\ x.price /= price THEN trader.moves + 1 ELSE trader.moves
        /\ trader'.slip = (trader.slip \/ x.fee /= pool.fee)
        /\ trader.moves \in Nat /\ trader.refees \in Nat
    BY <2>1 DEF PoolInv, PoolOK
  <2>3. price' \in Positive /\ price \in Positive
    BY <1>1, <1>4, <2>1 DEF may_set_price, Plans, Positive, PoolInv, PoolOK
  <2>4. PoolOK'
    <3>1. trader' \in [base : Token, at : {"out", "in", "done"}, held : Nat, moves : Nat, refees : Nat, slip : BOOLEAN]
      <4> DEFINE moves == IF trader.at = "in" /\ x.price /= price THEN trader.moves + 1 ELSE trader.moves
      <4> DEFINE slip == (trader.slip \/ x.fee /= pool.fee)
      <4>1. trader' = [trader EXCEPT !.moves = moves, !.slip = slip]
        BY <2>1
      <4>2. moves \in Nat /\ slip \in BOOLEAN
        BY <2>2
      <4> HIDE DEF moves, slip
      <4>3. QED
        BY <4>1, <4>2 DEF PoolInv, PoolOK
    <3>2. QED
      BY <1>1, <1>2, <2>3, <3>1 DEF PoolInv, PoolOK
  <2>5. Distance(price', target) <= Distance(price, target)
    BY <1>1, <2>1 DEF Plans
  <2>6. NoSandwich'
    BY <1>1, <2>2 DEF NoSandwich, PoolInv, TripInv
  <2>7. ASSUME trader.at = "in"
        PROVE  \E p \in Positive, f, m \in 0 .. BPS_DENOM : Trip(p, f, m)'
    <3>1. PICK p \in Positive, f \in 0 .. BPS_DENOM, m \in 0 .. BPS_DENOM : Trip(p, f, m)
      BY <2>7 DEF PoolInv, TripInv
    <3>2. Bought(p, f)'
      BY <2>2, <3>1 DEF Trip, Bought, PriceAt
    <3>3. CASE x.price = price
      <4>1. price' = price /\ trader'.moves = trader.moves
        BY <2>1, <2>2, <3>3
      <4>2. Trip(p, f, m)'
        BY <1>1, <2>2, <3>1, <3>2, <4>1 DEF Trip
      <4>3. QED
        BY <4>2
    <3>4. CASE x.price # price /\ trader.moves = 0
      <4>1. trader'.moves = 1 /\ p = price
        BY <2>2, <2>7, <3>1, <3>4 DEF Trip
      <4>2. pool.fee \in 0 .. BPS_DENOM
        BY PoolConstants DEF PoolInv, PoolOK
      <4>3. ~ (vm' = "solana" /\ trader'.slip) => Distance(price', p) * BPS_DENOM <= p * pool.fee
        <5> SUFFICES ASSUME ~ (vm' = "solana" /\ trader'.slip)
                     PROVE  Distance(price', p) * BPS_DENOM <= p * pool.fee
          OBVIOUS
        <5>1. vm = "evm" \/ x.fee = pool.fee
          BY <1>1, <2>2 DEF PoolInv, PoolOK
        <5>2. QED
          BY <1>1, <1>4, <2>1, <4>1, <5>1, UpdateIsSmall DEF PoolInv
      <4>4. trader.refees = 0 => f = pool.fee
        BY <3>1 DEF Trip
      <4>5. Trip(p, f, pool.fee)'
        BY <1>1, <2>2, <3>2, <4>1, <4>3, <4>4 DEF Trip
      <4>6. QED
        BY <1>1, <4>2, <4>5
    <3>5. CASE x.price # price /\ trader.moves # 0
      <4>1. trader'.moves # 0 /\ trader'.moves # 1
        BY <2>2, <2>7, <3>5
      <4>2. Trip(p, f, m)'
        BY <1>1, <2>2, <3>1, <3>2, <4>1 DEF Trip
      <4>3. QED
        BY <4>2
    <3>6. QED
      BY <3>3, <3>4, <3>5
  <2>8. TripInv'
    <3>1. trader'.at = "out" => trader'.moves = 0 /\ trader'.refees = 0
      BY <2>2 DEF PoolInv, TripInv
    <3>2. trader'.at = "in" => \E p \in Positive, f, m \in 0 .. BPS_DENOM : Trip(p, f, m)'
      BY <2>2, <2>7
    <3>3. QED
      BY <2>6, <3>1, <3>2 DEF TripInv
  <2>9. QED
    BY <1>3, <2>4, <2>5, <2>8 DEF PoolInv
<1>5. CASE ~ may_set_price(x)
  <2>1. UNCHANGED <<price, trader>>
    BY <1>5 DEF process_set_price, token
  <2>2. PoolOK'
    BY <1>1, <1>2, <2>1 DEF PoolInv, PoolOK
  <2>3. TripInv'
    BY <1>1, <2>1 DEF PoolInv, TripInv, Trip, Bought, NoSandwich, PriceAt
  <2>4. Distance(price', target) <= Distance(price, target)
    <3>1. Distance(price, target) \in Nat
      BY DEF PoolInv, PoolOK, Positive, Distance
    <3>2. QED
      BY <2>1, <3>1
  <2>5. QED
    BY <1>3, <2>2, <2>3, <2>4 DEF PoolInv
<1>6. QED
  BY <1>4, <1>5

LEMMA SetFeeKeepsFaith ==
  ASSUME PoolInv, NEW fee \in Fees, set_fee(fee), UNCHANGED <<vm, target, price, reserve, draft, txs>>
  PROVE  PoolInv'
<1>1. /\ pool' = [pool EXCEPT !.fee = fee] /\ fee \in Nat /\ fee <= MAX_FEE_BPS
      /\ trader' = [trader EXCEPT !.refees = IF trader.at = "in" THEN @ + 1 ELSE @]
  BY PoolAssumption DEF set_fee
<1>2. /\ trader'.base = trader.base /\ trader'.at = trader.at /\ trader'.held = trader.held
      /\ trader'.moves = trader.moves /\ trader'.slip = trader.slip
      /\ trader'.refees = IF trader.at = "in" THEN trader.refees + 1 ELSE trader.refees
      /\ trader.refees \in Nat /\ pool'.fee = fee
  BY <1>1 DEF PoolInv, PoolOK
<1>3. PoolOK'
  <2>1. trader' \in [base : Token, at : {"out", "in", "done"}, held : Nat, moves : Nat, refees : Nat, slip : BOOLEAN]
    BY <1>1 DEF PoolInv, PoolOK
  <2>2. pool' \in [fee : 0 .. MAX_FEE_BPS, dev : 1 .. BPS_DENOM, interval : Intervals, max_age : Ages,
                   paused : BOOLEAN, oracle : BOOLEAN]
    <3>1. fee \in 0 .. MAX_FEE_BPS
      BY <1>1, PoolConstants
    <3>2. QED
      BY <1>1, <3>1 DEF PoolInv, PoolOK
  <2>3. Plans' = Plans
    BY DEF Plans
  <2>4. QED
    BY <2>1, <2>2, <2>3 DEF PoolInv, PoolOK
<1>4. ASSUME trader.at = "in"
      PROVE  \E p \in Positive, f, m \in 0 .. BPS_DENOM : Trip(p, f, m)'
  <2>1. PICK p \in Positive, f \in 0 .. BPS_DENOM, m \in 0 .. BPS_DENOM : Trip(p, f, m)
    BY <1>4 DEF PoolInv, TripInv
  <2>2. Bought(p, f)'
    BY <1>2, <2>1 DEF Trip, Bought, PriceAt
  <2>3. trader'.refees # 0 /\ (trader'.refees = 1 => m = f)
    BY <1>2, <1>4, <2>1 DEF Trip
  <2>4. Trip(p, f, m)'
    BY <1>2, <2>1, <2>2, <2>3 DEF Trip
  <2>5. QED
    BY <2>4
<1>5. NoSandwich'
  <2>1. trader'.at = "done" => trader'.refees = trader.refees
    BY <1>2
  <2>2. QED
    BY <1>2, <2>1 DEF NoSandwich, PoolInv, TripInv
<1>6. TripInv'
  <2>1. trader'.at = "out" => trader'.moves = 0 /\ trader'.refees = 0
    BY <1>2 DEF PoolInv, TripInv
  <2>2. trader'.at = "in" => \E p \in Positive, f, m \in 0 .. BPS_DENOM : Trip(p, f, m)'
    BY <1>2, <1>4
  <2>3. QED
    BY <1>5, <2>1, <2>2 DEF TripInv
<1>7. QED
  BY <1>3, <1>6 DEF PoolInv

\* What leaves the trader, the price and the fee alone.
LEMMA PoolAtRest ==
  ASSUME PoolInv, UNCHANGED <<vm, target, price, trader>>, pool'.fee = pool.fee, PoolOK'
  PROVE  PoolInv'
BY DEF PoolInv, TripInv, Trip, Bought, NoSandwich, PriceAt

LEMMA PoolStarts == PoolInit => PoolInv
<1> SUFFICES ASSUME PoolInit PROVE PoolInv
  OBVIOUS
<1>1. target \in Nat /\ price \in Positive
  BY PoolAssumption DEF PoolInit, Extreme, Greatest, Positive
<1>2. pool \in [fee : 0 .. MAX_FEE_BPS, dev : 1 .. BPS_DENOM, interval : Intervals, max_age : Ages,
                paused : BOOLEAN, oracle : BOOLEAN]
  <2>1. {f \in Fees : f <= MAX_FEE_BPS} \subseteq 0 .. MAX_FEE_BPS
    <3>1. Fees \subseteq Nat /\ MAX_FEE_BPS \in Nat
      BY PoolAssumption
    <3>2. ASSUME NEW f \in Fees, f <= MAX_FEE_BPS PROVE f \in 0 .. MAX_FEE_BPS
      BY <3>1, <3>2
    <3>3. QED
      BY <3>2
  <2>2. Greatest(Deviations) \subseteq 1 .. BPS_DENOM /\ Greatest(Intervals) \subseteq Intervals /\ Greatest(Ages) \subseteq Ages
    BY PoolAssumption DEF Greatest
  <2>3. QED
    BY <2>1, <2>2 DEF PoolInit
<1>3. PICK b \in Token :
        trader = [base |-> b, at |-> "out", held |-> Stakes[b], moves |-> 0, refees |-> 0, slip |-> FALSE]
  BY DEF PoolInit
<1>4. Stakes[b] \in Nat
  BY PoolConstants
<1>5. Nothing \in Plans
  BY <1>1, NothingIsPlanned
<1>6. reserve \in [Token -> Int]
  BY PoolAssumption DEF PoolInit
<1>7. PoolOK
  BY <1>1, <1>2, <1>3, <1>4, <1>5, <1>6 DEF PoolInit, PoolOK
<1>8. TripInv
  BY <1>3 DEF TripInv, NoSandwich
<1>9. QED
  BY <1>7, <1>8 DEF PoolInv

\* Reserves that move, a keeper that plans and a clock that runs.
LEMMA OthersKeepFaith ==
  ASSUME PoolInv, UNCHANGED <<vm, target, price, trader>>, pool'.fee = pool.fee,
         pool' \in [fee : 0 .. MAX_FEE_BPS, dev : 1 .. BPS_DENOM, interval : Intervals, max_age : Ages,
                    paused : BOOLEAN, oracle : BOOLEAN],
         reserve' \in [Token -> Int], draft' \in Plans, txs' \subseteq Plans
  PROVE  PoolInv'
<1>1. Plans' = Plans
  BY DEF Plans
<1>2. PoolOK'
  BY <1>1 DEF PoolInv, PoolOK
<1>3. QED
  BY <1>2, PoolAtRest

\* A step keeps the invariant, takes no value by a swap, and moves the price toward the target.
PoolStep ==
    /\ price' = price /\ trader' /= trader => Value' >= Value
    /\ Distance(price', target) <= Distance(price, target)

LEMMA PoolInductive ==
  ASSUME PoolInv, [PoolNext]_poolVars
  PROVE  PoolInv' /\ PoolStep
<1> DEFINE Pools == [fee : 0 .. MAX_FEE_BPS, dev : 1 .. BPS_DENOM, interval : Intervals, max_age : Ages,
                     paused : BOOLEAN, oracle : BOOLEAN]
<1>1. /\ pool \in Pools /\ reserve \in [Token -> Int] /\ draft \in Plans /\ txs \subseteq Plans
      /\ Nothing \in Plans /\ PoolOK
  BY NothingIsPlanned DEF PoolInv, PoolOK
<1>2. UNCHANGED price => Distance(price', target) <= Distance(price, target)
  <2>1. Distance(price, target) \in Nat
    BY DEF PoolInv, PoolOK, Positive, Distance
  <2>2. QED
    BY <2>1
<1>3. ASSUME NEW t \in Token, NEW amount \in Int, NEW inward \in BOOLEAN, process_liquidity(t, amount, inward)
      PROVE  PoolInv' /\ PoolStep
  <2>1. UNCHANGED <<vm, target, pool, price, trader, draft, txs>>
    BY <1>3 DEF process_liquidity, config, token, oracle
  <2>2. reserve' \in [Token -> Int]
    BY <1>1, <1>3 DEF process_liquidity
  <2>3. QED
    BY <1>1, <1>2, <2>1, <2>2, OthersKeepFaith DEF PoolStep
<1>4. CASE process_set_role
  <2>1. UNCHANGED <<vm, target, price, reserve, draft, txs>>
    BY <1>4 DEF process_set_role, config, token, oracle
  <2>2. CASE \E f \in Fees : set_fee(f)
    <3>1. PoolInv'
      BY <2>1, <2>2, SetFeeKeepsFaith
    <3>2. Value' = Value
      BY <2>1 DEF Value
    <3>3. Value \in Int
      <4>1. reserve["hub"] \in Int /\ reserve["tok"] \in Int /\ price \in Nat /\ PRICE_ONE \in Nat
            /\ Unit["hub"] \in Nat /\ Unit["tok"] \in Nat
        BY <1>1, PoolConstants DEF Token, PoolOK, Positive
      <4>2. QED
        BY <4>1 DEF Value
    <3>4. QED
      BY <1>2, <2>1, <3>1, <3>2, <3>3 DEF PoolStep
  <2>3. CASE UNCHANGED trader /\ ~ (\E f \in Fees : set_fee(f))
    <3>1. pool' \in Pools /\ pool'.fee = pool.fee
      <4>1. \A d \in Deviations : d \in 1 .. BPS_DENOM
        BY PoolAssumption
      <4>2. \/ \E d \in Deviations : pool' = [pool EXCEPT !.dev = d]
            \/ \E s \in Ages : pool' = [pool EXCEPT !.max_age = s]
            \/ \E s \in Intervals : pool' = [pool EXCEPT !.interval = s]
            \/ \E b \in BOOLEAN : pool' = [pool EXCEPT !.oracle = b]
        BY <1>4, <2>3 DEF process_set_role
      <4>3. CASE \E d \in Deviations : pool' = [pool EXCEPT !.dev = d]
        BY <1>1, <4>1, <4>3
      <4>4. CASE \E s \in Ages : pool' = [pool EXCEPT !.max_age = s]
        BY <1>1, <4>4
      <4>5. CASE \E s \in Intervals : pool' = [pool EXCEPT !.interval = s]
        BY <1>1, <4>5
      <4>6. CASE \E b \in BOOLEAN : pool' = [pool EXCEPT !.oracle = b]
        BY <1>1, <4>6
      <4>7. QED
        BY <4>2, <4>3, <4>4, <4>5, <4>6
    <3>2. QED
      BY <1>1, <1>2, <2>1, <2>3, <3>1, OthersKeepFaith DEF PoolStep
  <2>4. QED
    BY <1>4, <2>2, <2>3 DEF process_set_role
<1>5. CASE process_set_paused
  <2>1. /\ UNCHANGED <<vm, target, price, reserve, trader, draft, txs>>
        /\ pool' = [pool EXCEPT !.paused = ~ pool.paused]
    BY <1>5 DEF process_set_paused, config, token, oracle
  <2>2. pool' \in Pools /\ pool'.fee = pool.fee
    <3>1. (~ pool.paused) \in BOOLEAN
      OBVIOUS
    <3> DEFINE other == ~ pool.paused
    <3>2. other \in BOOLEAN /\ pool' = [pool EXCEPT !.paused = other]
      BY <2>1
    <3> HIDE DEF other
    <3>3. QED
      BY <1>1, <3>2
  <2>3. QED
    BY <1>1, <1>2, <2>1, <2>2, OthersKeepFaith DEF PoolStep
<1>6. CASE Keeper
  <2>1. UNCHANGED <<vm, target, price, reserve, pool, trader>>
    BY <1>6 DEF Keeper, refresh_token, submit, InFlight, config, token
  <2>2. draft' \in Plans /\ txs' \subseteq Plans
    <3>1. CASE \E quoted \in Prices, fee \in Fees : refresh_token(quoted, fee)
      <4>1. PICK quoted \in Prices, fee \in Fees : refresh_token(quoted, fee)
        BY <3>1
      <4>2. quoted \in Nat /\ fee \in Nat /\ plan(quoted, fee) # Nothing /\ draft' = plan(quoted, fee) /\ txs' = txs
        BY <4>1, PoolAssumption DEF refresh_token
      <4>3. QED
        BY <1>1, <4>2, PlanIsOne
    <3>2. CASE submit
      BY <1>1, <3>2 DEF submit
    <3>3. CASE InFlight
      BY <1>1, <3>3 DEF InFlight
    <3>4. QED
      BY <1>6, <3>1, <3>2, <3>3 DEF Keeper
  <2>3. QED
    BY <1>1, <1>2, <2>1, <2>2, OthersKeepFaith DEF PoolStep
<1>7. CASE receipt_timeout \/ Restart \/ (\E x \in txs : Drop(x)) \/ Tick
  <2>1. UNCHANGED <<vm, target, price, reserve, pool, trader>>
    BY <1>7 DEF receipt_timeout, Restart, Drop, Tick, config, token
  <2>2. draft' \in {draft, Nothing} /\ txs' \subseteq txs
    BY <1>7 DEF receipt_timeout, Restart, Drop, Tick, oracle
  <2>3. draft' \in Plans /\ txs' \subseteq Plans
    BY <1>1, <2>2
  <2>4. QED
    BY <1>1, <1>2, <2>1, <2>3, OthersKeepFaith DEF PoolStep
<1>8. ASSUME NEW x \in txs, process_set_price(x)
      PROVE  PoolInv' /\ PoolStep
  <2>1. /\ PoolInv' /\ (price' = price => Value' = Value)
        /\ Distance(price', target) <= Distance(price, target)
    BY <1>8, SetPriceKeepsFaith
  <2>2. Value \in Int
    <3>1. reserve["hub"] \in Int /\ reserve["tok"] \in Int /\ price \in Nat /\ PRICE_ONE \in Nat
          /\ Unit["hub"] \in Nat /\ Unit["tok"] \in Nat
      BY <1>1, PoolConstants DEF Token, PoolOK, Positive
    <3>2. QED
      BY <3>1 DEF Value
  <2>3. QED
    BY <2>1, <2>2 DEF PoolStep
<1>9. CASE Enter
  <2>1. UNCHANGED price
    BY <1>9 DEF Enter, token
  <2>2. QED
    BY <1>2, <1>9, <2>1, EnterKeepsFaith DEF PoolStep
<1>10. CASE Leave
  <2>1. UNCHANGED price
    BY <1>10 DEF Leave, token
  <2>2. QED
    BY <1>2, <1>10, <2>1, LeaveKeepsFaith DEF PoolStep
<1>11. CASE UNCHANGED poolVars
  <2>1. UNCHANGED <<vm, target, price, reserve, pool, trader, draft, txs>>
    BY <1>11 DEF poolVars, config, token, oracle
  <2>2. QED
    BY <1>1, <1>2, <2>1, OthersKeepFaith DEF PoolStep
<1>12. CASE Admin
  <2>1. \A t \in Token : 1 \in Int /\ reserve[t] \in Int
    BY <1>1
  <2>2. CASE \E t \in Token : process_liquidity(t, 1, TRUE) \/ process_liquidity(t, reserve[t], FALSE)
    BY <1>3, <2>1, <2>2
  <2>3. QED
    BY <1>4, <1>5, <1>12, <2>2 DEF Admin
<1>13. QED
  BY <1>6, <1>7, <1>8, <1>9, <1>10, <1>11, <1>12 DEF PoolNext

LEMMA PoolKeepsFaith == PoolSpec => []PoolInv /\ [][PoolStep]_poolVars
<1>1. PoolInit => PoolInv
  BY PoolStarts
<1>2. PoolInv /\ [PoolNext]_poolVars => PoolInv' /\ PoolStep
  BY PoolInductive
<1>3. PoolInv /\ [PoolNext]_poolVars => PoolInv' /\ [PoolStep]_poolVars
  BY <1>2
<1>4. QED
  BY <1>1, <1>3, PTL DEF PoolSpec

\* A round trip around one price update does not pay, while the fee changes at most once under
\* it and, on Solana, the update lands under the fee it was planned with: for any prices,
\* decimals, stakes and fees, however wrong the endpoint and old the plan (SwapPool!NoSandwich).
THEOREM NoSandwichTheorem == PoolSpec => []NoSandwich
<1>1. PoolInv => NoSandwich
  BY DEF PoolInv, TripInv
<1>2. QED
  BY <1>1, PoolKeepsFaith, PTL

\* No swap leaves the pool with less than it had, in its own prices: every rounding, down to the
\* last unit of either token, is against the trader (SwapPool!SwapsLoseNothing).
THEOREM SwapsTheorem == PoolSpec => SwapsLoseNothing
<1>1. PoolStep => (price' = price /\ trader' /= trader => Value' >= Value)
  BY DEF PoolStep
<1>2. QED
  BY <1>1, PoolKeepsFaith, PTL DEF SwapsLoseNothing

\* No update takes the price further from the target, however many are in flight and however
\* wrong what they were planned from (SwapPool!StepsTowardTarget, the safety half of PriceFollows).
THEOREM StepsTheorem == PoolSpec => StepsTowardTarget
<1>1. PoolStep => Distance(price', target) <= Distance(price, target)
  BY DEF PoolStep
<1>2. QED
  BY <1>1, PoolKeepsFaith, PTL DEF StepsTowardTarget
=============================================================================
