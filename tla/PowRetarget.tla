---------------------------- MODULE PowRetarget -----------------------------
(***************************************************************************)
(* The difficulty of a chain: what a new block must have (pow.cpp), what a *)
(* header received in headers synchronisation may have, and the times and  *)
(* bits of a block template that is updated while it is mined              *)
(* (node/miner.cpp).                                                       *)
(*                                                                         *)
(* One chain grows by blocks that are mined here or received.  The hash of *)
(* a block is left out: a block can be mined when its bits stand for a     *)
(* target.  Bits are opaque; Compact and Target are GetCompact and         *)
(* SetCompact, and arithmetic is that of arith_uint256, modulo Width.      *)
(***************************************************************************)
EXTENDS Integers, Sequences, FiniteSets, FiniteSetsExt

CONSTANTS
  Compact(_), Target(_),
  Width,           \* 2^256
  Nets,            \* consensus parameters, one record for each network
  TargetTimespan,  \* nPowTargetTimespan
  TargetSpacing,   \* nPowTargetSpacing
  MedianTimeSpan, MaxTimewarp, MaxFutureBlockTime,
  MaxHeight,       \* bound on the length of the chain
  MaxClock,        \* bound on the clock
  ClockSteps,      \* how far the clock may move at once
  None

DifficultyAdjustmentInterval == TargetTimespan \div TargetSpacing

Shortest == TargetTimespan \div 4
Longest == TargetTimespan * 4

(* What compact form does to a target.                                     *)
Rounded(t) == Target(Compact(t))

ASSUME PowAssumption ==
  /\ Width \in Nat \ {0} /\ TargetTimespan \in Nat \ {0} /\ TargetSpacing \in Nat \ {0}
  /\ DifficultyAdjustmentInterval \in Nat \ {0, 1}
  /\ MedianTimeSpan \in Nat \ {0} /\ MaxTimewarp \in Nat /\ MaxFutureBlockTime \in Nat
  /\ MaxHeight \in Nat /\ MaxClock \in Nat /\ ClockSteps \subseteq Nat \ {0}
  /\ \A n \in Nets :
       /\ n.powLimit \in Nat \ {0} /\ n.softLaunchHeight \in Nat
       /\ {n.noRetargeting, n.allowMinDifficulty, n.enforceBIP94} \subseteq BOOLEAN
       /\ Target(n.genesisBits) \in Nat
       /\ n.softLaunchHeight > 0 => n.genesisBits = Compact(n.powLimit)
       /\ n.enforceBIP94 => n.allowMinDifficulty
       /\ \A t \in 0 .. n.powLimit : Rounded(t) \in 0 .. t /\ Rounded(Rounded(t)) = Rounded(t)
       /\ \A s, t \in 0 .. n.powLimit : s <= t => Rounded(s) <= Rounded(t)
       /\ \A t \in 1 .. n.powLimit : Rounded(t) # 0
       /\ n.noRetargeting \/ n.powLimit * Longest < Width

VARIABLES
  net,       \* the network
  chain,     \* the block of height h is chain[h + 1]: its bits and time
  clock,
  template   \* a block template on top of the chain

vars == <<net, chain, clock, template>>

-----------------------------------------------------------------------------
(* pow.cpp.  c is the chain that ends in pindexLast, n the network.        *)
Last(c) == c[Len(c)]
PowLimitBits(n) == Compact(n.powLimit)

(* bnNew *= a; bnNew /= nPowTargetTimespan; and the limit.                 *)
Scaled(n, bits, a) ==
  LET t == ((Target(bits) * a) % Width) \div TargetTimespan
  IN IF t > n.powLimit THEN n.powLimit ELSE t

(* Mutant: the timespan is not limited from below.                         *)
Clamped_NoLower(a) == IF a > Longest THEN Longest ELSE a

Clamped(a) == IF a < Shortest THEN Shortest ELSE IF a > Longest THEN Longest ELSE a

FirstOfPeriod(c) == c[Len(c) - (DifficultyAdjustmentInterval - 1)]

(* Mutant: the timespan is not limited from above.                         *)
CalculateNextWorkRequired_NoUpper(c, n) ==
  LET a == Last(c).time - FirstOfPeriod(c).time
  IN Compact(Scaled(n, (IF n.enforceBIP94 THEN FirstOfPeriod(c) ELSE Last(c)).bits,
                    IF a < Shortest THEN Shortest ELSE a))

(* Mutant: the last block of the period counts on every network.           *)
CalculateNextWorkRequired_LastBits(c, n) ==
  Compact(Scaled(n, Last(c).bits, Clamped(Last(c).time - FirstOfPeriod(c).time)))

CalculateNextWorkRequired(c, n) ==
  Compact(Scaled(n, (IF n.enforceBIP94 THEN FirstOfPeriod(c) ELSE Last(c)).bits,
                 Clamped(Last(c).time - FirstOfPeriod(c).time)))

(* The last block that is not there by the minimum-difficulty rule, or the *)
(* first of the period.                                                    *)
LastReal(c, n) ==
  c[1 + Max({h \in 0 .. Len(c) - 1 : \/ h % DifficultyAdjustmentInterval = 0
                                     \/ c[h + 1].bits # PowLimitBits(n)})]

GetNextWorkRequired(c, time, n) ==
  IF Len(c) <= n.softLaunchHeight \/ n.noRetargeting THEN PowLimitBits(n)
  ELSE IF Len(c) % DifficultyAdjustmentInterval = 0 THEN CalculateNextWorkRequired(c, n)
  ELSE IF ~n.allowMinDifficulty THEN Last(c).bits
  ELSE IF time > Last(c).time + TargetSpacing * 2 THEN PowLimitBits(n)
  ELSE LastReal(c, n).bits

PermittedDifficultyTransition(n, height, old, new) ==
  \/ n.allowMinDifficulty
  \/ /\ height % DifficultyAdjustmentInterval = 0
     /\ Rounded(Scaled(n, old, Longest)) >= Target(new)
     /\ Rounded(Scaled(n, old, Shortest)) <= Target(new)
  \/ height % DifficultyAdjustmentInterval # 0 /\ old = new

(* DeriveTarget: the bits stand for a target.  Its tests of the sign and   *)
(* of overflow are left out: GetCompact leaves the sign clear and the      *)
(* target within a word (CompactFits in CompactBitsProofs), and the bits   *)
(* of a genesis block are constants that do neither.                       *)
CanBeMined(n, bits) == Target(bits) # 0 /\ Target(bits) <= n.powLimit

-----------------------------------------------------------------------------
(* validation.cpp and node/miner.cpp.                                      *)
MedianTimePast(c) ==
  LET k == IF Len(c) < MedianTimeSpan THEN Len(c) ELSE MedianTimeSpan
      I == (Len(c) - k + 1) .. Len(c)
  IN Max({t \in {c[i].time : i \in I} : Cardinality({i \in I : c[i].time < t}) <= k \div 2})

StartsPeriod(c) == Len(c) % DifficultyAdjustmentInterval = 0

(* The bits and the time of a header.  The test of its version is left     *)
(* out: it reads neither, and a template has a version that passes.        *)
ContextualCheckBlockHeader(b, c, n) ==
  /\ b.bits = GetNextWorkRequired(c, b.time, n)
  /\ b.time > MedianTimePast(c)
  /\ n.enforceBIP94 /\ StartsPeriod(c) => b.time >= Last(c).time - MaxTimewarp
  /\ b.time <= clock + MaxFutureBlockTime

(* Mutant: the rule on timewarps is not accounted for.                     *)
GetMinimumTime_MedianOnly(c) == MedianTimePast(c) + 1

GetMinimumTime(c) ==
  LET least == MedianTimePast(c) + 1
      warp == Last(c).time - MaxTimewarp
  IN IF StartsPeriod(c) /\ warp > least THEN warp ELSE least

NewTime(c) == IF GetMinimumTime(c) > clock THEN GetMinimumTime(c) ELSE clock

-----------------------------------------------------------------------------
(* The clock goes forward: a system clock that is set back is left out.    *)
Tick ==
  /\ \E d \in ClockSteps : clock + d <= MaxClock /\ clock' = clock + d
  /\ UNCHANGED <<net, chain, template>>

AddBlock(b) ==
  /\ Len(chain) <= MaxHeight
  /\ CanBeMined(net, b.bits) /\ ContextualCheckBlockHeader(b, chain, net)
  /\ chain' = Append(chain, b) /\ template' = None
  /\ UNCHANGED <<net, clock>>

(* A block of another miner: the earliest time, the latest, or now.        *)
ReceiveBlock ==
  \E t \in {MedianTimePast(chain) + 1, clock, clock + MaxFutureBlockTime} :
    AddBlock([time |-> t, bits |-> GetNextWorkRequired(chain, t, net)])

(* The header that CreateNewBlock fills in.                                *)
NewHeader(c) == LET t == NewTime(c) IN [time |-> t, bits |-> GetNextWorkRequired(c, t, net)]

(* CreateNewBlock, and TestBlockValidity at its end.                       *)
CreateNewBlock ==
  /\ template = None /\ ContextualCheckBlockHeader(NewHeader(chain), chain, net)
  /\ template' = NewHeader(chain)
  /\ UNCHANGED <<net, chain, clock>>

(* Mutant: the time moves on and the bits do not.                          *)
UpdateTime_BitsKept ==
  /\ template # None /\ NewTime(chain) > template.time
  /\ template' = [template EXCEPT !.time = NewTime(chain)]
  /\ UNCHANGED <<net, chain, clock>>

(* UpdateTime on the template, by getblocktemplate.                        *)
UpdateTime ==
  /\ template # None /\ NewTime(chain) > template.time
  /\ LET t == NewTime(chain)
     IN template' = [time |-> t, bits |-> IF net.allowMinDifficulty
                                          THEN GetNextWorkRequired(chain, t, net)
                                          ELSE template.bits]
  /\ UNCHANGED <<net, chain, clock>>

SubmitBlock == template # None /\ AddBlock(template)

Init ==
  /\ net \in Nets
  /\ chain = <<[time |-> 0, bits |-> net.genesisBits]>>
  /\ clock = 0 /\ template = None

Next == Tick \/ ReceiveBlock \/ CreateNewBlock \/ UpdateTime \/ SubmitBlock

Spec == Init /\ [][Next]_vars

-----------------------------------------------------------------------------
Bits(n) == {Compact(t) : t \in 0 .. n.powLimit} \cup {n.genesisBits}
Blocks(n) == [time : Nat, bits : Bits(n)]

(* The variables keep their types, and every block on the chain was mined  *)
(* or is the first.                                                        *)
TypeOK ==
  /\ net \in Nets /\ clock \in Nat
  /\ chain \in Seq(Blocks(net)) /\ chain # <<>> /\ chain[1].bits = net.genesisBits
  /\ \A i \in 1 .. Len(chain) : chain[i].time <= clock + MaxFutureBlockTime
  /\ \A i \in 2 .. Len(chain) : Target(chain[i].bits) \in 1 .. net.powLimit
  /\ template # None => template \in Blocks(net) /\ template.time >= GetMinimumTime(chain)

(* What validation demands of a header, headers synchronisation permits,   *)
(* at every height, the soft launch and its end included                   *)
(* (ValidateAndProcessSingleHeader; asserted for one period by             *)
(* test/fuzz/pow.cpp:123).                                                 *)
DemandedIsPermitted ==
  net.noRetargeting \/
  \A h \in 1 .. Len(chain) - 1 :
    PermittedDifficultyTransition(net, h, chain[h].bits, chain[h + 1].bits)

(* A template that is kept while time goes by stays a valid header: its    *)
(* bits are those its time calls for ("Updating time can change work       *)
(* required on testnet", node/miner.cpp:61).                               *)
TemplateStaysValid ==
  template # None => ContextualCheckBlockHeader(template, chain, net)

(* CreateNewBlock never makes a header that its own validity test refuses, *)
(* unless the chain is ahead of the clock: the time it takes is late       *)
(* enough for the median rule and the timewarp rule together.              *)
TemplateCanBeMade ==
  GetMinimumTime(chain) <= clock + MaxFutureBlockTime =>
    ContextualCheckBlockHeader(NewHeader(chain), chain, net)

(* Blocks of minimum difficulty do not wear the difficulty down: on a      *)
(* network with BIP94 the difficulty of a period is within a factor of     *)
(* four of that of the period before ("This way the real difficulty is     *)
(* always preserved in the first block", pow.cpp:81).  A genesis block     *)
(* above the limit is left out: from one the product may overflow.         *)
RealDifficultyKept ==
  net.enforceBIP94 /\ ~net.noRetargeting =>
    \A h \in 1 .. Len(chain) - 1 :
      LET old == chain[h + 1 - DifficultyAdjustmentInterval].bits
      IN /\ h % DifficultyAdjustmentInterval = 0 /\ h > net.softLaunchHeight
         /\ Target(old) <= net.powLimit
         => Target(chain[h + 1].bits) \in
              Rounded(Scaled(net, old, Shortest)) .. Rounded(Scaled(net, old, Longest))

(* The block that CalculateNextWorkRequired starts from is within the      *)
(* limit, and its target is not so small (less than four on the networks   *)
(* of the code) that the shortest timespan scales it to nothing.           *)
CanBeRetargeted(c, n) ==
  LET t == Target((IF n.enforceBIP94 THEN FirstOfPeriod(c) ELSE Last(c)).bits)
  IN t <= n.powLimit /\ t * Shortest >= TargetTimespan

(* What GetNextWorkRequired demands of the next block, DeriveTarget does   *)
(* not refuse, whatever the times on the chain and of that block: the bits *)
(* stand for a target that is not zero and within the limit (pow.cpp:180). *)
(* There are two exceptions.  The bits of the genesis block are inherited  *)
(* as they are, and a retarget that starts above the limit may overflow,   *)
(* or from next to nothing reach zero.                                     *)
RequiredCanBeMined ==
  \A t \in 0 .. MaxClock + MaxFutureBlockTime :
    LET bits == GetNextWorkRequired(chain, t, net)
    IN \/ CanBeMined(net, bits)
       \/ bits = net.genesisBits
       \/ StartsPeriod(chain) /\ ~CanBeRetargeted(chain, net)

(* A template can be mined: its bits stand for a target.  Block 1 inherits *)
(* the bits of the genesis block, of which test/pow_tests.cpp:170 says     *)
(* "genesis nBits is positive, doesn't overflow and is lower than          *)
(* powLimit".                                                              *)
TemplateCanBeMined == template # None => CanBeMined(net, template.bits)
=============================================================================
