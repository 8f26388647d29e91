------------------------- MODULE ChassisLinkProofs --------------------------
(* Theorems about the chassis and the MotorDriver board over a bus that    *)
(* can fail, for every set of goals and shell modes, every watchdog limit, *)
(* queue length and number of commands, outages and resets: the types of   *)
(* the link, that a stop which succeeded holds, that what the chassis lets *)
(* go of comes to a stop, and that a drive command takes effect.           *)
EXTENDS ChassisLink, TLAPS, SequenceTheorems

-----------------------------------------------------------------------------
(* The inductive invariant, in three parts.                                *)

Allowed(r) == IF r[1] = "mode" THEN Modes ELSE IF r[1] = "dir" THEN Dirs ELSE {0, 1}
Values == Modes \cup Dirs \cup {0, 1}

\* The transactions that may travel: partial register files.
Writes ==
    {w \in UNION {[D -> Values] : D \in SUBSET Registers} :
        \A r \in DOMAIN w : w[r] \in Allowed(r)}

Steps == [kind : {"checked", "refresh", "read"}, w : Writes, m : {0, 1, 2}]
Names == {"none", "drive", "COAST", "SPEED", "POSITION", "untrack", "stop", "service"}
Jobs == [name : Names, m : {0, 1, 2}, goal : Goals \cup {NoGoal}, blame : BOOLEAN]

(* Types.  The job and its transactions begin and end together, and only   *)
(* the service coasts a motor it then lets go of.                          *)
BoardTypes ==
    /\ regs \in [Registers -> Values] /\ \A r \in Registers : regs[r] \in Allowed(r)
    /\ queue \in Seq(Writes) /\ Len(queue) <= QueueLength
    /\ age \in 0..(Limit + 1)
    /\ warm \in [Motors -> BOOLEAN] /\ up \in BOOLEAN

ChassisTypes ==
    /\ lease \in BOOLEAN /\ mask \in SUBSET Motors /\ want \in Goals \cup {NoGoal}
    /\ streak \in 0..Threshold
    /\ served \in BOOLEAN /\ fault \in BOOLEAN /\ handled \in BOOLEAN
    /\ armed \in BOOLEAN /\ serving \in BOOLEAN /\ unserved \in BOOLEAN
    /\ calm \in BOOLEAN /\ idle \in Nat /\ posed \in BOOLEAN
    /\ ~(lease /\ mask # {})

WorkTypes ==
    /\ job \in Jobs /\ todo \in Seq(Steps)
    /\ sent \in BOOLEAN /\ retried \in BOOLEAN /\ lost \in BOOLEAN
    /\ job.name = "none" <=> todo = <<>>
    /\ job.name = "none" => job = Idle
    /\ job.name = "drive" => job.goal \in Goals
    /\ job.name \in {"COAST", "SPEED", "POSITION", "untrack"} => job.m \in Motors

Types == BoardTypes /\ ChassisTypes /\ WorkTypes

(* The last transaction in flight that writes the mode of motor m, or else *)
(* the register, says COAST.                                               *)
SetsMode(w, m) == <<"mode", m>> \in DOMAIN w
Coasting(m) ==
    \/ /\ regs[<<"mode", m>>] = "COAST"
       /\ \A i \in 1..Len(queue) : ~SetsMode(queue[i], m)
    \/ \E i \in 1..Len(queue) :
          /\ SetsMode(queue[i], m) /\ queue[i][<<"mode", m>>] = "COAST"
          /\ \A j \in (i + 1)..Len(queue) : ~SetsMode(queue[j], m)

\* A transaction that sets no mode other than COAST.
Harmless(w) == \A m \in Motors : SetsMode(w, m) => w[<<"mode", m>>] = "COAST"

(* A stop keeps what it has reached: while nothing asked for motion since  *)
(* one succeeded, no transaction that could start a wheel exists anywhere; *)
(* and while one is under way, each wheel it has dealt with coasts.        *)
LastWrite == <<Checked(CoastWrite(2))>>
Stopping ==
    /\ calm => /\ job.name \notin {"drive", "SPEED", "POSITION"}
               /\ \A m \in Motors : Coasting(m)
    /\ job.name \in {"COAST", "untrack", "stop", "service"} =>
           \A i \in 1..Len(todo) : Harmless(todo[i].w)
    /\ job.name = "stop" =>
           \/ todo = StopWrites /\ (sent => Coasting(1))
           \/ todo = LastWrite /\ (sent => Coasting(2)) /\ (~lost => Coasting(1))

(* While the chassis claims nothing the board's clock is at least as late  *)
(* as the chassis's, and a service in progress still has its claim.        *)
Releasing ==
    /\ idle > 0 =>
           /\ queue = <<>> /\ ~lease /\ mask = {} /\ job.name \in {"none", "stop"}
           /\ Active(regs) => age >= idle
    /\ \A i \in 1..Len(todo) : todo[i].m # 0 => job.name = "service"
    /\ job.name = "service" =>
           \/ Holds /\ \A i \in 1..Len(todo) : todo[i].m = 0
           \/ /\ \A i \in 1..Len(todo) : todo[i].m \in mask
              /\ \A i, j \in 1..Len(todo) : todo[i].m = todo[j].m => i = j

LinkInv == Types /\ Stopping /\ Releasing
-----------------------------------------------------------------------------
(* Lemmas about transactions.                                              *)

(* What Put builds from legal pairs is legal, and only what it is given.   *)
LEMMA PutLegal ==
    ASSUME NEW S, \A p \in S : p[1] \in Registers /\ p[2] \in Allowed(p[1])
    PROVE  /\ Put(S) \in Writes
           /\ DOMAIN Put(S) = {p[1] : p \in S}
           /\ \A r \in DOMAIN Put(S) : \E p \in S : r = p[1] /\ Put(S)[r] = p[2]
<1> DEFINE D == {p[1] : p \in S}
<1>1. Put(S) = [r \in D |-> (CHOOSE p \in S : p[1] = r)[2]]
  BY DEF Put
<1>2. ASSUME NEW r \in D
      PROVE  \E p \in S : r = p[1] /\ (CHOOSE q \in S : q[1] = r)[2] = p[2]
  <2>1. \E p \in S : p[1] = r
    OBVIOUS
  <2> QED BY <2>1
<1>3. \A r \in D : Put(S)[r] \in Allowed(r)
  BY <1>1, <1>2
<1>4. D \in SUBSET Registers /\ \A r \in D : Allowed(r) \subseteq Values
  BY DEF Allowed, Values, Registers
<1>5. Put(S) \in [D -> Values] /\ DOMAIN Put(S) = D
  BY <1>1, <1>3, <1>4
<1>6. Put(S) \in Writes
  BY <1>3, <1>4, <1>5 DEF Writes
<1> HIDE DEF D
<1>7. \A r \in D : \E p \in S : r = p[1] /\ Put(S)[r] = p[2]
  BY <1>1, <1>2
<1> QED BY <1>5, <1>6, <1>7 DEF D

(* A pair whose register no other pair names is what Put writes there.     *)
LEMMA PutValue ==
    ASSUME NEW S, NEW p \in S, \A q \in S : q[1] = p[1] => q[2] = p[2]
    PROVE  p[1] \in DOMAIN Put(S) /\ Put(S)[p[1]] = p[2]
<1>1. \E q \in S : q[1] = p[1]
  OBVIOUS
<1> DEFINE q == CHOOSE x \in S : x[1] = p[1]
<1>2. q \in S /\ q[1] = p[1]
  BY <1>1
<1> QED BY <1>2 DEF Put

(* Every transaction the chassis composes is legal.                        *)
LEMMA CoastWriteIs ==
    ASSUME NEW m \in Motors
    PROVE  /\ CoastWrite(m) \in Writes /\ Harmless(CoastWrite(m))
           /\ SetsMode(CoastWrite(m), m) /\ CoastWrite(m)[<<"mode", m>>] = "COAST"
<1> DEFINE S == {<< <<"mode", m>>, "COAST" >>, << <<"duty", m>>, 0 >>}
<1>1. \A p \in S : p[1] \in Registers /\ p[2] \in Allowed(p[1])
  BY DEF Registers, Allowed, Modes
<1>2. Put(S) \in Writes /\ \A r \in DOMAIN Put(S) : \E p \in S : r = p[1] /\ Put(S)[r] = p[2]
  BY <1>1, PutLegal
<1>3. Harmless(Put(S))
  BY <1>2 DEF Harmless, SetsMode
<1> DEFINE p == << <<"mode", m>>, "COAST" >>
<1>4. p \in S /\ \A q \in S : q[1] = p[1] => q[2] = p[2]
  OBVIOUS
<1>5. p[1] \in DOMAIN Put(S) /\ Put(S)[p[1]] = p[2]
  BY <1>4, PutValue
<1> QED BY <1>2, <1>3, <1>5 DEF CoastWrite, SetsMode

LEMMA ModeWriteIs ==
    ASSUME NEW m \in Motors, NEW mode \in Modes, NEW d \in Dirs
    PROVE  ModeWrite(m, mode, d) \in Writes
<1> DEFINE S == {<< <<"mode", m>>, mode >>, << <<"duty", m>>, 0 >>, << <<"dir", m>>, d >>}
<1>1. \A p \in S : p[1] \in Registers /\ p[2] \in Allowed(p[1])
  BY DEF Registers, Allowed
<1> QED BY <1>1, PutLegal DEF ModeWrite

LEMMA RpmWriteIs ==
    ASSUME NEW m \in Motors, NEW v \in {-1, 0, 1}
    PROVE  RpmWrite(m, v) \in Writes
<1> DEFINE S == {<< <<"rpm", m>>, Abs(v) >>}
<1>1. \A p \in S : p[1] \in Registers /\ p[2] \in Allowed(p[1])
  BY DEF Registers, Allowed, Abs
<1> QED BY <1>1, PutLegal DEF RpmWrite

LEMMA PairWriteIs ==
    ASSUME NEW g \in Goals \cup {NoGoal}
    PROVE  PairWrite(g) \in Writes /\ Harmless(PairWrite(g))
<1> DEFINE S == {<< <<"rpm", m>>, Abs(g[m]) >> : m \in Motors}
<1>1. \A m \in Motors : g[m] \in {-1, 0, 1}
  BY LinkConstants DEF NoGoal
<1>2. \A p \in S : p[1] \in Registers /\ p[2] \in Allowed(p[1]) /\ p[1][1] = "rpm"
  BY <1>1 DEF Registers, Allowed, Abs
<1>3. Put(S) \in Writes /\ \A r \in DOMAIN Put(S) : \E p \in S : r = p[1]
  BY <1>2, PutLegal
<1> QED BY <1>2, <1>3 DEF Harmless, SetsMode, PairWrite

LEMMA TargetWriteIs ==
    ASSUME NEW m \in Motors
    PROVE  TargetWrite(m) \in Writes /\ Harmless(TargetWrite(m))
<1> DEFINE S == {<< <<"target", m>>, 0 >>}
<1>1. \A p \in S : p[1] \in Registers /\ p[2] \in Allowed(p[1]) /\ p[1][1] = "target"
  BY DEF Registers, Allowed
<1> HIDE DEF S
<1>2. Put(S) \in Writes /\ \A r \in DOMAIN Put(S) : \E p \in S : r = p[1]
  BY <1>1, PutLegal
<1> QED BY <1>1, <1>2 DEF Harmless, SetsMode, TargetWrite, S

LEMMA ReadIs == Read \in Steps /\ Harmless(Read.w) /\ Read.m = 0
<1>1. [r \in {} |-> 0] \in [{} -> Values] /\ {} \in SUBSET Registers
  BY DEF Values
<1> QED BY <1>1 DEF Read, Steps, Writes, Harmless, SetsMode

(* What arrives of a transaction is legal, and harmless if the whole is.   *)
LEMMA PartIs ==
    ASSUME NEW w \in Writes, NEW p \in PartsOf(w)
    PROVE  p \in Writes /\ (Harmless(w) => Harmless(p))
<1>1. PICK k \in {Rank(q) : q \in DOMAIN w} :
          p = [r \in {q \in DOMAIN w : Rank(q) <= k} |-> w[r]]
  BY DEF PartsOf
<1> DEFINE D == {q \in DOMAIN w : Rank(q) <= k}
<1>2. /\ DOMAIN w \in SUBSET Registers /\ w \in [DOMAIN w -> Values]
      /\ \A r \in DOMAIN w : w[r] \in Allowed(r)
  BY DEF Writes
<1>3. p \in [D -> Values] /\ D \in SUBSET Registers /\ DOMAIN p = D
  BY <1>1, <1>2
<1>4. \A r \in D : r \in DOMAIN w /\ p[r] = w[r]
  BY <1>1
<1> QED BY <1>2, <1>3, <1>4 DEF Writes, Harmless, SetsMode

(* The board takes any legal transaction to a legal register file.         *)
LEMMA AppliedIs ==
    ASSUME BoardTypes, NEW w \in Writes
    PROVE  /\ Applied(regs, w) \in [Registers -> Values]
           /\ \A r \in Registers : Applied(regs, w)[r] \in Allowed(r)
           /\ \A m \in Motors : Applied(regs, w)[<<"mode", m>>]
                   = IF SetsMode(w, m) THEN w[<<"mode", m>>] ELSE regs[<<"mode", m>>]
<1>1. \A r \in DOMAIN w : w[r] \in Allowed(r)
  BY DEF Writes
<1>2. \A r \in Registers : Applied(regs, w)[r] \in Allowed(r)
  BY <1>1 DEF Applied, Clears, BoardTypes, Allowed
<1>3. \A r \in Registers : Allowed(r) \subseteq Values
  BY DEF Allowed, Values
<1>4. Applied(regs, w) \in [Registers -> Values]
  BY <1>2, <1>3 DEF Applied
<1>5. \A m \in Motors : <<"mode", m>> \in Registers /\ ~Clears(w, <<"mode", m>>)
  BY DEF Registers, Clears
<1> QED BY <1>2, <1>4, <1>5 DEF Applied, SetsMode
-----------------------------------------------------------------------------
(* Lemmas about the board: a wheel that is going to coast still does after *)
(* whatever the queue, the registers or the bus may do next.               *)

LEMMA CoastingAppend ==
    ASSUME queue \in Seq(Writes), NEW w \in Writes, NEW m \in Motors,
           SetsMode(w, m) => w[<<"mode", m>>] = "COAST",
           Coasting(m) \/ SetsMode(w, m),
           queue' = Append(queue, w), regs' = regs
    PROVE  Coasting(m)'
<1>1. /\ Len(queue) \in Nat /\ Len(queue') = Len(queue) + 1
      /\ \A i \in 1..Len(queue) : queue'[i] = queue[i]
      /\ queue'[Len(queue) + 1] = w
  OBVIOUS
<1>2. CASE SetsMode(w, m)
  <2>1. \A j \in (Len(queue) + 1 + 1)..Len(queue') : FALSE
    BY <1>1
  <2>2. Len(queue) + 1 \in 1..Len(queue')
    BY <1>1
  <2> QED BY <1>1, <1>2, <2>1, <2>2 DEF Coasting
<1>3. CASE ~SetsMode(w, m)
  <2>1. \A j \in 1..Len(queue') : j \in 1..Len(queue) \/ queue'[j] = w
    BY <1>1
  <2>2. CASE regs[<<"mode", m>>] = "COAST" /\ \A i \in 1..Len(queue) : ~SetsMode(queue[i], m)
    BY <1>1, <1>3, <2>1, <2>2 DEF Coasting
  <2>3. ASSUME NEW i \in 1..Len(queue), SetsMode(queue[i], m), queue[i][<<"mode", m>>] = "COAST",
               \A j \in (i + 1)..Len(queue) : ~SetsMode(queue[j], m)
        PROVE  Coasting(m)'
    <3>1. \A j \in (i + 1)..Len(queue') : ~SetsMode(queue'[j], m)
      BY <1>1, <1>3, <2>1, <2>3
    <3>2. i \in 1..Len(queue') /\ queue'[i] = queue[i]
      BY <1>1
    <3> QED BY <2>3, <3>1, <3>2 DEF Coasting
  <2> QED BY <1>3, <2>2, <2>3 DEF Coasting
<1> QED BY <1>2, <1>3

LEMMA CoastingApply ==
    ASSUME BoardTypes, Apply, NEW m \in Motors, Coasting(m)
    PROVE  Coasting(m)'
<1>1. /\ Len(queue) \in Nat \ {0} /\ Len(queue') = Len(queue) - 1
      /\ \A i \in 1..Len(queue') : queue'[i] = queue[i + 1]
      /\ Head(queue) = queue[1] /\ queue[1] \in Writes
  BY DEF BoardTypes, Apply
<1>2. regs'[<<"mode", m>>] = IF SetsMode(queue[1], m) THEN queue[1][<<"mode", m>>]
                             ELSE regs[<<"mode", m>>]
  BY <1>1, AppliedIs DEF Apply
<1>3. CASE regs[<<"mode", m>>] = "COAST" /\ \A i \in 1..Len(queue) : ~SetsMode(queue[i], m)
  BY <1>1, <1>2, <1>3 DEF Coasting
<1>4. ASSUME NEW i \in 1..Len(queue), SetsMode(queue[i], m), queue[i][<<"mode", m>>] = "COAST",
             \A j \in (i + 1)..Len(queue) : ~SetsMode(queue[j], m)
      PROVE  Coasting(m)'
  <2>1. CASE i = 1
    <3>1. \A j \in 1..Len(queue') : ~SetsMode(queue'[j], m)
      BY <1>1, <1>4, <2>1
    <3> QED BY <1>2, <1>4, <2>1, <3>1 DEF Coasting
  <2>2. CASE i > 1
    <3>1. i - 1 \in 1..Len(queue') /\ queue'[i - 1] = queue[i]
      BY <1>1, <2>2
    <3>2. ASSUME NEW j \in ((i - 1) + 1)..Len(queue') PROVE ~SetsMode(queue'[j], m)
      <4>1. j \in 1..Len(queue') /\ j + 1 \in (i + 1)..Len(queue)
        BY <1>1, <2>2
      <4> QED BY <1>1, <1>4, <4>1
    <3> QED BY <1>4, <3>1, <3>2 DEF Coasting
  <2> QED BY <2>1, <2>2
<1> QED BY <1>3, <1>4 DEF Coasting

\* What keeps the queue and the modes, or clears the modes.
LEMMA CoastingKept ==
    ASSUME NEW m \in Motors, Coasting(m), queue' = queue,
           \/ regs'[<<"mode", m>>] = regs[<<"mode", m>>]
           \/ regs'[<<"mode", m>>] = "COAST"
    PROVE  Coasting(m)'
BY DEF Coasting

LEMMA CoastingDropped ==
    ASSUME NEW m \in Motors, queue' = <<>>, regs'[<<"mode", m>>] = "COAST"
    PROVE  Coasting(m)'
BY DEF Coasting

(* Coasting is what StopHolds asks of the registers once the board has     *)
(* caught up.                                                              *)
LEMMA CoastingFinal ==
    ASSUME BoardTypes, NEW m \in Motors, Coasting(m)
    PROVE  Final[<<"mode", m>>] = "COAST"
<1> DEFINE r == <<"mode", m>>
<1>1. r \in Registers /\ \A w : ~Clears(w, r)
  BY DEF Registers, Clears
<1>2. /\ Len(queue) \in Nat /\ \A i \in 1..Len(queue) : queue[i] \in Writes
      /\ Touching(r) = {i \in 1..Len(queue) : SetsMode(queue[i], m)}
  BY <1>1 DEF BoardTypes, Touching, SetsMode
<1>3. Final[r] = IF Touching(r) = {} THEN regs[r] ELSE Applied(regs, queue[Max(Touching(r))])[r]
  BY <1>1 DEF Final
<1>4. CASE regs[r] = "COAST" /\ \A i \in 1..Len(queue) : ~SetsMode(queue[i], m)
  BY <1>2, <1>3, <1>4
<1>5. ASSUME NEW i \in 1..Len(queue), SetsMode(queue[i], m), queue[i][r] = "COAST",
             \A j \in (i + 1)..Len(queue) : ~SetsMode(queue[j], m)
      PROVE  Final[r] = "COAST"
  <2>1. i \in Touching(r) /\ \A j \in Touching(r) : i >= j
    BY <1>2, <1>5
  <2>2. \A j \in Touching(r) : (\A k \in Touching(r) : j >= k) => j = i
    BY <1>2, <2>1
  <2>3. Max(Touching(r)) = i
    BY <2>1, <2>2 DEF Max
  <2>4. Applied(regs, queue[i])[r] = "COAST"
    BY <1>2, <1>5, AppliedIs
  <2> QED BY <1>3, <2>1, <2>3, <2>4
<1> QED BY <1>4, <1>5 DEF Coasting
-----------------------------------------------------------------------------
(* Lemmas about jobs: what each begins with, and how a transaction ends.   *)

LEMMA ChecksAre ==
    /\ \A w \in Writes : Checked(w) \in Steps /\ Checked(w).w = w /\ Checked(w).m = 0
    /\ \A w \in Writes : Refresh(w) \in Steps /\ Refresh(w).w = w /\ Refresh(w).m = 0
    /\ \A m \in Motors : /\ Finished(m) \in Steps
                         /\ Finished(m).w = CoastWrite(m) /\ Finished(m).m = m
<1>1. \A m \in Motors : CoastWrite(m) \in Writes
  BY CoastWriteIs
<1> QED BY <1>1 DEF Checked, Refresh, Finished, Steps, Motors

LEMMA StopWritesIs ==
    /\ StopWrites \in Seq(Steps) /\ Len(StopWrites) = 2 /\ Tail(StopWrites) = LastWrite
    /\ LastWrite \in Seq(Steps) /\ Len(LastWrite) = 1
    /\ Head(StopWrites) = Checked(CoastWrite(1)) /\ Head(LastWrite) = Checked(CoastWrite(2))
    /\ \A i \in 1..2 : Harmless(StopWrites[i].w) /\ StopWrites[i].m = 0
<1>1. \A m \in Motors : /\ Checked(CoastWrite(m)) \in Steps /\ Checked(CoastWrite(m)).m = 0
                        /\ Harmless(Checked(CoastWrite(m)).w)
  BY ChecksAre, CoastWriteIs
<1>2. 1 \in Motors /\ 2 \in Motors
  BY DEF Motors
<1> HIDE DEF Motors
<1> QED BY <1>1, <1>2 DEF StopWrites, LastWrite

LEMMA DriveWritesIs ==
    ASSUME NEW g \in Goals
    PROVE  /\ DriveWrites(g) \in Seq(Steps) /\ DriveWrites(g) # <<>>
           /\ \A i \in 1..Len(DriveWrites(g)) : DriveWrites(g)[i].m = 0
<1>1. g \in [Motors -> {-1, 0, 1}]
  BY LinkConstants
<1>2. /\ PairWrite(g) \in Writes
      /\ SpeedWrite(1, g[1]) \in Writes /\ SpeedWrite(2, g[2]) \in Writes
  BY <1>1, PairWriteIs, ModeWriteIs DEF SpeedWrite, DirOf, Modes, Dirs, Motors
<1> DEFINE a == Checked(PairWrite(g))
           b == Checked(SpeedWrite(2, g[2]))
           c == Checked(SpeedWrite(1, g[1]))
<1>3. a \in Steps /\ b \in Steps /\ c \in Steps /\ a.m = 0 /\ b.m = 0 /\ c.m = 0
  BY <1>2, ChecksAre
<1>4. DriveWrites(g) = <<a>> \/ DriveWrites(g) = <<a, b, c>>
  BY DEF DriveWrites
<1> HIDE DEF a, b, c
<1>5. CASE DriveWrites(g) = <<a>>
  BY <1>3, <1>5
<1>6. CASE DriveWrites(g) = <<a, b, c>>
  BY <1>3, <1>6
<1> QED BY <1>4, <1>5, <1>6

LEMMA ShellWritesIs ==
    ASSUME NEW m \in Motors, NEW mode \in Modes, NEW v \in {-1, 1}
    PROVE  /\ ShellWrites(m, mode, v) \in Seq(Steps) /\ ShellWrites(m, mode, v) # <<>>
           /\ \A i \in 1..Len(ShellWrites(m, mode, v)) :
                  /\ ShellWrites(m, mode, v)[i].m = 0
                  /\ mode = "COAST" => Harmless(ShellWrites(m, mode, v)[i].w)
<1> DEFINE a == Checked(CoastWrite(m))
           b == Checked(RpmWrite(m, v))
           c == Checked(SpeedWrite(m, v))
           d == Checked(TargetWrite(m))
           e == Checked(PositionWrite(m))
<1>1. /\ CoastWrite(m) \in Writes /\ RpmWrite(m, v) \in Writes /\ TargetWrite(m) \in Writes
      /\ SpeedWrite(m, v) \in Writes /\ PositionWrite(m) \in Writes
  BY CoastWriteIs, RpmWriteIs, TargetWriteIs, ModeWriteIs
     DEF SpeedWrite, PositionWrite, DirOf, Modes, Dirs
<1>2. /\ a \in Steps /\ b \in Steps /\ c \in Steps /\ d \in Steps /\ e \in Steps
      /\ a.m = 0 /\ b.m = 0 /\ c.m = 0 /\ d.m = 0 /\ e.m = 0 /\ Harmless(a.w)
  BY <1>1, ChecksAre, CoastWriteIs
<1>3. \/ mode = "COAST" /\ ShellWrites(m, mode, v) = <<a>>
      \/ mode = "SPEED" /\ ShellWrites(m, mode, v) = <<b, c>>
      \/ mode = "POSITION" /\ ShellWrites(m, mode, v) = <<d, e, Read>>
  BY DEF ShellWrites, Modes
<1> DEFINE ws == ShellWrites(m, mode, v)
<1> HIDE DEF a, b, c, d, e, ws
<1>4. /\ ws \in Seq(Steps) /\ ws # <<>>
      /\ \A i \in 1..Len(ws) : ws[i].m = 0 /\ (mode = "COAST" => Harmless(ws[i].w))
  <2>1. CASE mode = "COAST" /\ ws = <<a>>
    BY <1>2, <2>1
  <2>2. CASE mode = "SPEED" /\ ws = <<b, c>>
    BY <1>2, <2>2
  <2>3. CASE mode = "POSITION" /\ ws = <<d, e, Read>>
    BY <1>2, <2>3, ReadIs
  <2> QED BY <1>3, <2>1, <2>2, <2>3 DEF ws
<1> QED BY <1>4 DEF ws

LEMMA ServiceWritesIs ==
    ASSUME ChassisTypes
    PROVE  /\ ServiceWrites \in Seq(Steps) /\ ServiceWrites # <<>>
           /\ \A i \in 1..Len(ServiceWrites) :
                  ServiceWrites[i].m = 0 /\ Harmless(ServiceWrites[i].w)
<1> DEFINE a == RefreshTarget(1)
           b == RefreshTarget(2)
           c == Refresh(PairWrite(want))
<1>1. /\ a \in Steps /\ b \in Steps /\ c \in Steps /\ a.m = 0 /\ b.m = 0 /\ c.m = 0
      /\ Harmless(a.w) /\ Harmless(b.w) /\ Harmless(c.w)
  BY ChecksAre, TargetWriteIs, PairWriteIs DEF RefreshTarget, Motors, ChassisTypes
<1>2. mask = {} \/ mask = {1} \/ mask = {2} \/ mask = {1, 2}
  BY DEF ChassisTypes, Motors
<1>3. \/ mask = {}
      \/ ForEach(RefreshTarget, mask) = <<a>> \/ ForEach(RefreshTarget, mask) = <<b>>
      \/ ForEach(RefreshTarget, mask) = <<a, b>>
  BY <1>2 DEF ForEach
<1>4. CASE mask = {}
  <2>1. ServiceWrites = <<c>>
    BY <1>4 DEF ServiceWrites
  <2> HIDE DEF c
  <2> QED BY <1>1, <2>1
<1>5. CASE mask # {}
  <2> DEFINE s == ForEach(RefreshTarget, mask)
  <2>1. ServiceWrites = Append(s, Read)
    BY <1>5 DEF ServiceWrites
  <2> HIDE DEF a, b, s
  <2>2. s \in Seq(Steps) /\ \A i \in 1..Len(s) : s[i].m = 0 /\ Harmless(s[i].w)
    <3>1. CASE s = <<a>>
      BY <1>1, <3>1
    <3>2. CASE s = <<b>>
      BY <1>1, <3>2
    <3>3. CASE s = <<a, b>>
      BY <1>1, <3>3
    <3> QED BY <1>3, <1>5, <3>1, <3>2, <3>3 DEF s
  <2> QED BY <2>1, <2>2, ReadIs
<1> QED BY <1>4, <1>5

LEMMA FinishedWritesIs ==
    ASSUME NEW done \in SUBSET Motors, done # {}
    PROVE  LET ws == ForEach(Finished, done)
           IN  /\ ws \in Seq(Steps) /\ ws # <<>>
               /\ \A i \in 1..Len(ws) : Harmless(ws[i].w) /\ ws[i].m \in done
               /\ \A i, j \in 1..Len(ws) : ws[i].m = ws[j].m => i = j
<1> DEFINE a == Finished(1)
           b == Finished(2)
<1>1. /\ a \in Steps /\ b \in Steps /\ a.m = 1 /\ b.m = 2 /\ Harmless(a.w) /\ Harmless(b.w)
  BY ChecksAre, CoastWriteIs DEF Motors
<1>2. done = {1} \/ done = {2} \/ done = {1, 2}
  BY DEF Motors
<1>3. \/ done = {1} /\ ForEach(Finished, done) = <<a>>
      \/ done = {2} /\ ForEach(Finished, done) = <<b>>
      \/ done = {1, 2} /\ ForEach(Finished, done) = <<a, b>>
  BY <1>2 DEF ForEach
<1> DEFINE ws == ForEach(Finished, done)
<1> HIDE DEF a, b, ws
<1>4. /\ ws \in Seq(Steps) /\ ws # <<>>
      /\ \A i \in 1..Len(ws) : Harmless(ws[i].w) /\ ws[i].m \in done
      /\ \A i, j \in 1..Len(ws) : ws[i].m = ws[j].m => i = j
  <2>1. CASE done = {1} /\ ws = <<a>>
    BY <1>1, <2>1
  <2>2. CASE done = {2} /\ ws = <<b>>
    BY <1>1, <2>2
  <2>3. CASE done = {1, 2} /\ ws = <<a, b>>
    BY <1>1, <2>3
  <2> QED BY <1>3, <2>1, <2>2, <2>3 DEF ws
<1> QED BY <1>4 DEF ws
-----------------------------------------------------------------------------
(* Types: one lemma per kind of step.                                      *)

LEMMA IdleTypes == EndJob => WorkTypes'
<1>1. Idle \in Jobs /\ Idle.name = "none" /\ <<>> \in Seq(Steps)
  BY DEF Idle, Jobs, Names
<1> QED BY <1>1 DEF EndJob, WorkTypes

LEMMA StartTypes ==
    ASSUME NEW name \in Names \ {"none"}, NEW m \in {0, 1, 2}, NEW g \in Goals \cup {NoGoal},
           NEW blame \in BOOLEAN, NEW txs \in Seq(Steps), txs # <<>>,
           name = "drive" => g \in Goals,
           name \in {"COAST", "SPEED", "POSITION", "untrack"} => m \in Motors,
           Start(name, m, g, blame, txs)
    PROVE  WorkTypes'
BY DEF Start, WorkTypes, Jobs

LEMMA ClaimsCleared ==
    ASSUME ClearClaims
    PROVE  lease' = FALSE /\ mask' = {} /\ want' \in Goals \cup {NoGoal}
BY DEF ClearClaims

\* The job in progress and the transaction it is at.
LEMMA AtWork ==
    ASSUME WorkTypes, job # Idle
    PROVE  /\ job.name \in Names \ {"none"} /\ todo # <<>> /\ Len(todo) \in Nat \ {0}
           /\ Current = todo[1] /\ Current \in Steps /\ Current.w \in Writes
           /\ Tail(todo) \in Seq(Steps) /\ Len(Tail(todo)) = Len(todo) - 1
           /\ \A i \in 1..Len(Tail(todo)) : Tail(todo)[i] = todo[i + 1]
           /\ Len(todo) # 1 => Tail(todo) # <<>>
<1>1. job.name \in Names \ {"none"} /\ todo # <<>> /\ todo \in Seq(Steps)
  BY DEF WorkTypes, Jobs
<1>2. /\ Len(todo) \in Nat \ {0} /\ Current = todo[1] /\ Current \in Steps
      /\ Tail(todo) \in Seq(Steps) /\ Len(Tail(todo)) = Len(todo) - 1
      /\ \A i \in 1..Len(Tail(todo)) : Tail(todo)[i] = todo[i + 1]
  BY <1>1 DEF Current
<1>3. Current.w \in Writes
  BY <1>2 DEF Steps
<1>4. ASSUME Tail(todo) = <<>> PROVE Len(todo) = 1
  <2> DEFINE t == Tail(todo)
  <2>1. t = <<>> /\ Len(t) = Len(todo) - 1
    BY <1>2, <1>4
  <2> HIDE DEF t
  <2>2. Len(t) = 0
    BY <2>1
  <2>3. Len(todo) \in Nat
    BY <1>2
  <2> QED BY ONLY <2>1, <2>2, <2>3
<1> QED BY <1>1, <1>2, <1>3, <1>4

LEMMA CompleteTypes ==
    ASSUME ChassisTypes, WorkTypes, job # Idle, Complete,
           UNCHANGED <<streak, served, handled, armed, serving, posed, unserved>>, idle' \in Nat
    PROVE  ChassisTypes' /\ WorkTypes'
<1>1. job.name \in Names \ {"none"} /\ job.m \in {0, 1, 2} /\ job.blame \in BOOLEAN
  BY AtWork DEF WorkTypes, Jobs
<1>2. EndJob
  BY <1>1 DEF Complete, Names
<1>3. /\ lease' \in BOOLEAN /\ mask' \in SUBSET Motors /\ want' \in Goals \cup {NoGoal}
      /\ ~(lease' /\ mask' # {})
  <2>1. CASE job.name = "drive"
    BY <2>1 DEF Complete, ClaimSpeed, WorkTypes, ChassisTypes
  <2>2. CASE job.name = "service"
    BY <2>2 DEF Complete, ChassisTypes
  <2>3. CASE job.name = "POSITION"
    BY <2>3 DEF Complete, WorkTypes, ChassisTypes
  <2>4. CASE job.name \in {"COAST", "SPEED", "untrack"}
    BY <2>4 DEF Complete, Release, ChassisTypes
  <2>5. CASE job.name = "stop"
    BY <2>5 DEF Complete, claims, ChassisTypes
  <2> QED BY <1>1, <2>1, <2>2, <2>3, <2>4, <2>5 DEF Names
<1>4. fault' \in BOOLEAN /\ calm' \in BOOLEAN
  BY <1>1 DEF Complete, Names, ChassisTypes
<1> QED BY <1>2, <1>3, <1>4, IdleTypes DEF ChassisTypes

LEMMA AdvanceTypes ==
    ASSUME ChassisTypes, WorkTypes, job # Idle, Advance,
           UNCHANGED <<streak, served, handled, armed, serving, posed, unserved>>, idle' \in Nat
    PROVE  ChassisTypes' /\ WorkTypes'
<1>1. CASE Len(todo) = 1
  BY <1>1, CompleteTypes DEF Advance
<1>2. CASE Len(todo) # 1
  <2>1. todo' = Tail(todo) /\ todo' \in Seq(Steps) /\ todo' # <<>> /\ job' = job
    BY <1>2, AtWork DEF Advance
  <2>2. /\ sent' = FALSE /\ retried' = FALSE /\ lost' = lost
        /\ mask' \subseteq mask /\ lease' = lease /\ want' = want
        /\ UNCHANGED <<fault, calm>>
    BY <1>2 DEF Advance
  <2>3. WorkTypes'
    BY <2>1, <2>2, AtWork DEF WorkTypes
  <2> QED BY <2>2, <2>3 DEF ChassisTypes
<1> QED BY <1>1, <1>2

LEMMA SafetyStopTypes ==
    ASSUME NEW blame \in BOOLEAN, SafetyStop(blame)
    PROVE  WorkTypes' /\ lease' = FALSE /\ mask' = {} /\ want' \in Goals \cup {NoGoal}
<1>1. Start("stop", 0, NoGoal, blame, StopWrites) /\ StopWrites # <<>>
  BY StopWritesIs DEF SafetyStop
<1>2. lease' = FALSE /\ mask' = {} /\ want' \in Goals \cup {NoGoal}
  BY ClaimsCleared DEF SafetyStop
<1>3. "stop" \in Names \ {"none"} /\ StopWrites \in Seq(Steps)
  BY StopWritesIs DEF Names
<1>4. WorkTypes'
  BY <1>1, <1>3, StartTypes
<1> QED BY <1>2, <1>4

\* The ways a transaction that fails can leave its job.
LEMMA AbandonCases ==
    ASSUME WorkTypes, job # Idle, Abandon
    PROVE  \/ /\ job.name \in {"drive", "service"}
              /\ SafetyStop(TRUE) /\ UNCHANGED <<fault, calm>>
           \/ /\ job.name = "POSITION" /\ Current.kind = "read" /\ job.m \in Motors
              /\ Start("untrack", job.m, NoGoal, FALSE, <<Checked(CoastWrite(job.m))>>)
              /\ UNCHANGED <<claims, fault, calm>>
           \/ /\ job.name \in {"COAST", "SPEED", "POSITION"}
              /\ EndJob /\ UNCHANGED <<claims, fault, calm>>
           \/ job.name = "untrack" /\ Complete
           \/ /\ job.name = "stop" /\ ~retried
              /\ retried' = TRUE /\ sent' = FALSE
              /\ UNCHANGED <<claims, fault, job, todo, lost, calm>>
           \/ /\ job.name = "stop" /\ retried /\ Len(todo) = 2
              /\ todo' = Tail(todo) /\ sent' = FALSE /\ retried' = FALSE /\ lost' = TRUE
              /\ UNCHANGED <<claims, fault, job, calm>>
           \/ /\ job.name = "stop" /\ retried /\ Len(todo) = 1
              /\ fault' = (fault \/ job.blame)
              /\ EndJob /\ UNCHANGED <<claims, calm>>
           \/ job.name = "stop" /\ Len(todo) \notin {1, 2}
<1>1. job.name \in Names \ {"none"}
  BY AtWork
<1>2. CASE job.name \in {"drive", "service"}
  BY <1>2 DEF Abandon
<1>3. CASE job.name = "POSITION"
  BY <1>3 DEF Abandon, WorkTypes
<1>4. CASE job.name \in {"COAST", "SPEED"}
  BY <1>4 DEF Abandon
<1>5. CASE job.name = "untrack"
  BY <1>5 DEF Abandon
<1>6. CASE job.name = "stop"
  BY <1>6 DEF Abandon
<1> QED BY <1>1, <1>2, <1>3, <1>4, <1>5, <1>6 DEF Names

LEMMA AbandonTypes ==
    ASSUME ChassisTypes, WorkTypes, Stopping, job # Idle, Abandon,
           UNCHANGED <<streak, served, handled, armed, serving, posed, unserved>>, idle' \in Nat
    PROVE  ChassisTypes' /\ WorkTypes'
<1>1. ASSUME job.name = "stop" PROVE Len(todo) \in {1, 2}
  BY <1>1, StopWritesIs DEF Stopping
<1>2. CASE SafetyStop(TRUE) /\ UNCHANGED <<fault, calm>>
  BY <1>2, SafetyStopTypes DEF ChassisTypes
<1>3. CASE /\ Start("untrack", job.m, NoGoal, FALSE, <<Checked(CoastWrite(job.m))>>)
           /\ job.m \in Motors /\ UNCHANGED <<claims, fault, calm>>
  <2> DEFINE w == Checked(CoastWrite(job.m))
  <2>1. w \in Steps
    BY <1>3, ChecksAre, CoastWriteIs
  <2> HIDE DEF w
  <2>2. <<w>> \in Seq(Steps) /\ <<w>> # <<>>
    BY <2>1
  <2>3. job.m \in {0, 1, 2} /\ NoGoal \in Goals \cup {NoGoal} /\ FALSE \in BOOLEAN
    BY <1>3 DEF Motors
  <2>4. Start("untrack", job.m, NoGoal, FALSE, <<w>>)
    BY <1>3 DEF w
  <2>5. "untrack" \in Names \ {"none"}
    BY DEF Names
  <2>6. WorkTypes'
    BY ONLY <1>3, <2>2, <2>3, <2>4, <2>5, StartTypes
  <2> QED BY <1>3, <2>6 DEF ChassisTypes, claims
<1>4. CASE EndJob /\ UNCHANGED <<claims, fault, calm>>
  BY <1>4, IdleTypes DEF ChassisTypes, claims
<1>5. CASE Complete
  BY <1>5, CompleteTypes
<1>6. CASE /\ job.name = "stop" /\ retried' = TRUE /\ sent' = FALSE
           /\ UNCHANGED <<claims, fault, job, todo, lost, calm>>
  BY <1>6 DEF ChassisTypes, claims, WorkTypes
<1>7. CASE /\ job.name = "stop" /\ Len(todo) = 2
           /\ todo' = Tail(todo) /\ sent' = FALSE /\ retried' = FALSE /\ lost' = TRUE
           /\ UNCHANGED <<claims, fault, job, calm>>
  <2>1. todo' \in Seq(Steps) /\ todo' # <<>> /\ todo # <<>>
    BY <1>7, AtWork
  <2> QED BY <1>7, <2>1 DEF ChassisTypes, claims, WorkTypes
<1>8. CASE /\ fault' = (fault \/ job.blame)
           /\ EndJob /\ UNCHANGED <<claims, calm>>
  <2>1. fault' \in BOOLEAN
    BY <1>8
  <2> QED BY <1>8, <2>1, IdleTypes DEF ChassisTypes, claims
<1> QED BY <1>1, <1>2, <1>3, <1>4, <1>5, <1>6, <1>7, <1>8, AbandonCases

LEMMA TransferTypes ==
    ASSUME Types, Stopping, Transfers
    PROVE  Types'
<1>1. Works
  BY DEF Transfers, Send, SendFails, VerifyMatches, VerifyDiffers, ReadPosition, ReadFails
<1>2. /\ job # Idle /\ idle' \in Nat /\ UNCHANGED <<streak, served, handled, armed, serving, posed, unserved>>
      /\ UNCHANGED <<regs, age, warm, up>>
  BY <1>1 DEF Works, bounds, Types, ChassisTypes
<1>3. Current \in Steps /\ Current.w \in Writes
  BY <1>2, AtWork DEF Types
<1>4. BoardTypes'
  <2>1. ASSUME NEW w \in Writes, Len(queue) < QueueLength, queue' = Append(queue, w)
        PROVE  queue' \in Seq(Writes) /\ Len(queue') <= QueueLength
    BY <2>1, LinkConstants DEF Types, BoardTypes
  <2>2. queue' \in Seq(Writes) /\ Len(queue') <= QueueLength
    <3>1. CASE Send
      BY <1>3, <2>1, <3>1 DEF Send
    <3>2. CASE SendFails
      BY <1>3, <2>1, <3>2, PartIs DEF SendFails, Types, BoardTypes
    <3>3. CASE queue' = queue
      BY <3>3 DEF Types, BoardTypes
    <3> QED BY <3>1, <3>2, <3>3
            DEF Transfers, VerifyMatches, VerifyDiffers, ReadPosition, ReadFails
  <2> QED BY <1>2, <2>2 DEF Types, BoardTypes
<1>5. CASE Advance
  BY <1>2, <1>4, <1>5, AdvanceTypes DEF Types
<1>6. CASE Abandon
  BY <1>2, <1>4, <1>6, AbandonTypes DEF Types
<1>7. CASE Send /\ ~Advance
  <2>1. UNCHANGED <<lease, mask, want, fault, job, todo, retried, lost, calm>> /\ sent' = TRUE
    BY <1>7 DEF Send, claims
  <2>2. ChassisTypes'
    BY <1>2, <2>1 DEF Types, ChassisTypes
  <2> QED BY <1>4, <2>1, <2>2 DEF Types, WorkTypes
<1>8. CASE ReadPosition /\ ~Advance
  <2>1. PICK done \in (SUBSET {m \in mask : regs[<<"mode", m>>] = "POSITION"}) \ {{}} :
            todo' = ForEach(Finished, done)
    BY <1>8 DEF ReadPosition
  <2>2. done \subseteq mask /\ done # {}
    BY <2>1
  <2>3. mask \in SUBSET Motors
    BY DEF Types, ChassisTypes
  <2>4. done \in SUBSET Motors /\ done # {}
    BY ONLY <2>2, <2>3
  <2>5. todo' \in Seq(Steps) /\ todo' # <<>> /\ todo # <<>>
    BY <1>2, <2>1, <2>4, FinishedWritesIs, AtWork DEF Types
  <2> QED BY <1>2, <1>4, <1>8, <2>5
          DEF ReadPosition, Types, ChassisTypes, WorkTypes, claims
<1> QED BY <1>5, <1>6, <1>7, <1>8
        DEF Transfers, Send, SendFails, VerifyMatches, VerifyDiffers, ReadPosition, ReadFails

LEMMA CommandTypes ==
    ASSUME Types, Commands \/ Tasks
    PROVE  Types'
<1>1. BoardTypes'
  BY DEF Commands, Tasks, Drive, ShellMotor, StopCommand, Arm, Disarm, Service, Feedback,
         HandleFault, RunArmed, Begins, board, Types, BoardTypes
<1>2. CASE \E g \in Goals : Drive(g)
  <2>1. PICK g \in Goals : Drive(g)
    BY <1>2
  <2>2. WorkTypes'
    BY <2>1, DriveWritesIs, StartTypes DEF Drive, Names
  <2> QED BY <1>1, <2>1, <2>2 DEF Drive, chassis, claims, Types, ChassisTypes
<1>3. CASE \E m \in Motors, mode \in ShellModes, v \in {-1, 1} : ShellMotor(m, mode, v)
  <2>1. PICK m \in Motors, mode \in ShellModes, v \in {-1, 1} : ShellMotor(m, mode, v)
    BY <1>3
  <2>2. mode \in Modes /\ mode \in Names \ {"none", "drive"}
    BY LinkConstants DEF Modes, Names
  <2>3. m \in {0, 1, 2} /\ Start(mode, m, NoGoal, FALSE, ShellWrites(m, mode, v))
    BY <2>1 DEF Motors, ShellMotor
  <2>4. WorkTypes'
    BY <2>2, <2>3, ShellWritesIs, StartTypes
  <2>5. calm' \in BOOLEAN /\ posed' \in BOOLEAN /\ idle' = 0 /\ UNCHANGED <<chassis, unserved>>
    BY <2>1 DEF ShellMotor
  <2>6. ChassisTypes'
    BY <2>5 DEF chassis, claims, Types, ChassisTypes
  <2> QED BY <1>1, <2>4, <2>6 DEF Types
<1>4. CASE StopCommand
  BY <1>1, <1>4, SafetyStopTypes DEF StopCommand, history, Types, ChassisTypes
<1>8. CASE Arm
  <2>1. SafetyStop(FALSE) /\ armed' = TRUE /\ serving' \in {FALSE, serving}
        /\ UNCHANGED <<streak, served, fault, handled, history>>
    BY <1>8 DEF Arm
  <2> QED BY <1>1, <2>1, SafetyStopTypes DEF history, Types, ChassisTypes
<1>9. CASE Disarm \/ RunArmed
  <2>1. /\ armed' \in BOOLEAN /\ serving' \in BOOLEAN /\ served' \in BOOLEAN
        /\ unserved' \in BOOLEAN
    BY <1>9 DEF Disarm, RunArmed, Types, ChassisTypes, history
  <2>2. UNCHANGED <<claims, streak, fault, handled, work, calm, idle, posed>>
    BY <1>9 DEF Disarm, RunArmed, history
  <2> QED BY <1>1, <2>1, <2>2 DEF claims, work, Types, ChassisTypes, WorkTypes
<1>5. CASE Service
  <2>1. WorkTypes'
    <3>1. CASE Holds
      <4>1. Start("service", 0, NoGoal, FALSE, ServiceWrites)
        BY <1>5, <3>1 DEF Service
      <4>2. ServiceWrites \in Seq(Steps) /\ ServiceWrites # <<>>
        BY ServiceWritesIs DEF Types
      <4>3. /\ "service" \in Names \ {"none"} /\ NoGoal \in Goals \cup {NoGoal}
            /\ FALSE \in BOOLEAN /\ 0 \in {0, 1, 2}
        BY DEF Names
      <4> QED BY <4>1, <4>2, <4>3, StartTypes
    <3>2. CASE ~Holds
      BY <1>5, <3>2 DEF Service, work, Types, WorkTypes
    <3> QED BY <3>1, <3>2
  <2> QED BY <1>1, <1>5, <2>1 DEF Service, claims, history, Types, ChassisTypes
<1>6. CASE Feedback
  <2>1. streak' \in 0..Threshold /\ fault' \in BOOLEAN
    BY <1>6, LinkConstants DEF Feedback, Types, ChassisTypes
  <2> QED BY <1>1, <1>6, <2>1 DEF Feedback, claims, history, work, Types, ChassisTypes, WorkTypes
<1>7. CASE HandleFault
  BY <1>1, <1>7, SafetyStopTypes DEF HandleFault, history, Types, ChassisTypes
<1> QED BY <1>2, <1>3, <1>4, <1>5, <1>6, <1>7, <1>8, <1>9 DEF Commands, Tasks

\* The registers after the watchdog, a recovery or a reset.
LEMMA CoastedIs ==
    ASSUME BoardTypes, NEW f \in {Coasted, AtRest}
    PROVE  /\ f \in [Registers -> Values] /\ \A r \in Registers : f[r] \in Allowed(r)
           /\ \A m \in Motors : f[<<"mode", m>>] = "COAST"
<1>1. \A r \in Registers : f[r] \in Allowed(r)
  BY DEF Coasted, AtRest, Allowed, Modes, Dirs, BoardTypes
<1>2. \A r \in Registers : Allowed(r) \subseteq Values
  BY DEF Allowed, Values
<1>3. f \in [Registers -> Values]
  BY <1>1, <1>2 DEF Coasted, AtRest
<1> QED BY <1>1, <1>3 DEF Coasted, AtRest, Registers

\* A control period rewrites the duty, the direction and the speed only.
LEMMA LoopIs ==
    ASSUME BoardTypes, NEW n \in Motors, Loop(n)
    PROVE  /\ BoardTypes'
           /\ \A m \in Motors : regs'[<<"mode", m>>] = regs[<<"mode", m>>]
<1>1. PICK d \in {0, 1}, x \in Dirs, v \in {0, 1} :
          regs' = [regs EXCEPT ![<<"duty", n>>] = d, ![<<"dir", n>>] = x, ![<<"rpm", n>>] = v]
  BY DEF Loop
<1>2. \A r \in Registers : regs'[r] \in Allowed(r)
  BY <1>1 DEF BoardTypes, Allowed, Registers
<1>3. \A r \in Registers : Allowed(r) \subseteq Values
  BY DEF Allowed, Values
<1>4. regs' \in [Registers -> Values]
  BY <1>1, <1>2, <1>3 DEF BoardTypes
<1>5. \A m \in Motors : regs'[<<"mode", m>>] = regs[<<"mode", m>>]
  BY <1>1 DEF BoardTypes, Registers
<1> QED BY <1>2, <1>4, <1>5 DEF Loop, BoardTypes

LEMMA BoardStepTypes ==
    ASSUME Types, BoardSteps \/ BusFails \/ BusHeals \/ Tick
    PROVE  Types'
<1>1. CASE Apply
  <2>1. Head(queue) \in Writes /\ queue' \in Seq(Writes) /\ Len(queue') <= QueueLength
    BY <1>1, LinkConstants DEF Apply, Types, BoardTypes
  <2>2. BoardTypes'
    BY <1>1, <2>1, AppliedIs, LinkConstants DEF Apply, Types, BoardTypes
  <2> QED BY <1>1, <2>2 DEF Apply, chassis, claims, work, history, Types, ChassisTypes, WorkTypes
<1>2. CASE \E m \in Looping : Loop(m)
  <2>1. PICK m \in Motors : Loop(m)
    BY <1>2, LinkConstants
  <2>2. BoardTypes'
    BY <2>1, LoopIs DEF Types
  <2>3. UNCHANGED <<chassis, work, history>>
    BY <2>1 DEF Loop
  <2> QED BY <2>2, <2>3 DEF chassis, claims, work, history, Types, ChassisTypes, WorkTypes
<1>3. CASE Expire
  <2>1. BoardTypes'
    BY <1>3, CoastedIs, LinkConstants DEF Expire, Types, BoardTypes
  <2> QED BY <1>3, <2>1 DEF Expire, chassis, claims, work, history, Types, ChassisTypes, WorkTypes
<1>4. CASE BoardTrips
  <2>1. BoardTypes'
    BY <1>4, CoastedIs, LinkConstants DEF BoardTrips, Types, BoardTypes
  <2> QED BY <1>4, <2>1
          DEF BoardTrips, chassis, claims, work, history, Types, ChassisTypes, WorkTypes
<1>5. CASE BusFails \/ BusHeals
  <2>1. UNCHANGED <<board, chassis, work, history>> /\ up' \in BOOLEAN
    BY <1>5 DEF BusFails, BusHeals
  <2> QED BY <2>1 DEF board, chassis, claims, work, history, Types, BoardTypes, ChassisTypes, WorkTypes
<1>6. CASE Tick
  <2>1. age' \in 0..(Limit + 1) /\ idle' \in Nat /\ warm' \in [Motors -> BOOLEAN]
    BY <1>6, LinkConstants DEF Tick, Types, BoardTypes, ChassisTypes
  <2>2. /\ served' = FALSE
        /\ UNCHANGED <<regs, queue, up, claims, streak, fault, handled, armed, serving, work,
                       calm, posed>>
    BY <1>6 DEF Tick
  <2>3. BoardTypes'
    BY <2>1, <2>2 DEF Types, BoardTypes
  <2>6. unserved' \in BOOLEAN
    BY <1>6 DEF Tick, Types, ChassisTypes
  <2>4. ChassisTypes'
    BY <2>1, <2>2, <2>6 DEF claims, Types, ChassisTypes
  <2>5. WorkTypes'
    BY <2>2 DEF work, Types, WorkTypes
  <2> QED BY <2>3, <2>4, <2>5 DEF Types
<1> QED BY <1>1, <1>2, <1>3, <1>4, <1>5, <1>6 DEF BoardSteps
-----------------------------------------------------------------------------
(* A stop keeps what it has reached: one lemma per kind of step.           *)

LEMMA StoppingKept ==
    ASSUME Stopping, UNCHANGED work, calm' = calm,
           \A m \in Motors : Coasting(m) => Coasting(m)'
    PROVE  Stopping'
<1>1. 1 \in Motors /\ 2 \in Motors
  BY DEF Motors
<1> QED BY <1>1 DEF Stopping, work

LEMMA StoppingEnds ==
    ASSUME EndJob, calm' => \A m \in Motors : Coasting(m)'
    PROVE  Stopping'
BY DEF EndJob, Idle, Stopping

LEMMA StoppingBegins ==
    ASSUME NEW blame, SafetyStop(blame),
           calm' => \A m \in Motors : Coasting(m)'
    PROVE  Stopping'
BY StopWritesIs DEF SafetyStop, Start, Stopping

LEMMA StoppingBoard ==
    ASSUME Types, Stopping, BoardSteps \/ BusFails \/ BusHeals \/ Tick
    PROVE  Stopping'
<1>1. UNCHANGED work /\ calm' = calm
  BY DEF BoardSteps, Apply, Loop, Expire, BoardTrips, BusFails, BusHeals, Tick, history
<1>2. ASSUME NEW m \in Motors, Coasting(m) PROVE Coasting(m)'
  <2>1. CASE Apply
    BY <1>2, <2>1, CoastingApply DEF Types
  <2>2. CASE \E n \in Looping : Loop(n)
    <3>1. PICK n \in Motors : Loop(n)
      BY <2>2, LinkConstants
    <3>2. queue' = queue /\ regs'[<<"mode", m>>] = regs[<<"mode", m>>]
      BY <3>1, LoopIs DEF Loop, Types
    <3> QED BY <1>2, <3>2, CoastingKept
  <2>3. CASE Expire
    <3>1. queue' = queue /\ regs'[<<"mode", m>>] = "COAST"
      BY <2>3, CoastedIs DEF Expire, Types
    <3> QED BY <1>2, <3>1, CoastingKept
  <2>4. CASE BoardTrips
    <3>1. queue' = <<>> /\ regs'[<<"mode", m>>] = "COAST"
      BY <2>4, CoastedIs DEF BoardTrips, Types
    <3> QED BY <3>1, CoastingDropped
  <2>5. CASE BusFails \/ BusHeals \/ Tick
    <3>1. queue' = queue /\ regs' = regs
      BY <2>5 DEF BusFails, BusHeals, Tick, board
    <3> QED BY <1>2, <3>1, CoastingKept
  <2> QED BY <2>1, <2>2, <2>3, <2>4, <2>5 DEF BoardSteps
<1> QED BY <1>1, <1>2, StoppingKept

LEMMA StoppingCommand ==
    ASSUME Types, Stopping, Commands \/ Tasks
    PROVE  Stopping'
<1>1. queue' = queue /\ regs' = regs
  BY DEF Commands, Tasks, Drive, ShellMotor, StopCommand, Arm, Disarm, Service, Feedback,
         HandleFault, RunArmed, Begins, board
<1>2. \A m \in Motors : Coasting(m) => Coasting(m)'
  BY <1>1, CoastingKept
<1>3. CASE \E g \in Goals : Drive(g)
  <2>1. calm' = FALSE /\ job'.name = "drive"
    BY <1>3 DEF Drive, Start
  <2> QED BY <2>1 DEF Stopping
<1>4. CASE \E m \in Motors, mode \in ShellModes, v \in {-1, 1} : ShellMotor(m, mode, v)
  <2>1. PICK m \in Motors, mode \in ShellModes, v \in {-1, 1} : ShellMotor(m, mode, v)
    BY <1>4
  <2>2. job'.name = mode /\ todo' = ShellWrites(m, mode, v)
    BY <2>1 DEF ShellMotor, Start
  <2>3. mode \in Modes
    BY LinkConstants
  <2>4. calm' => calm /\ mode = "COAST"
    BY <2>1 DEF ShellMotor
  <2>5. mode = "COAST" => \A i \in 1..Len(todo') : Harmless(todo'[i].w)
    BY <2>2, <2>3, ShellWritesIs
  <2> QED BY <1>2, <2>2, <2>3, <2>4, <2>5 DEF Stopping, Modes, Harmless, SetsMode
<1>5. CASE StopCommand \/ Arm
  <2>1. SafetyStop(FALSE) /\ calm' = calm
    BY <1>5 DEF StopCommand, Arm, history
  <2> QED BY <1>2, <2>1, StoppingBegins DEF Stopping
<1>9. CASE Disarm \/ RunArmed
  BY <1>2, <1>9, StoppingKept DEF Disarm, RunArmed, history
<1>6. CASE Service
  <2>1. calm' = calm
    BY <1>6 DEF Service, history
  <2>2. CASE Holds
    <3>1. job'.name = "service" /\ todo' = ServiceWrites
      BY <1>6, <2>2 DEF Service, Start
    <3>2. \A i \in 1..Len(todo') : Harmless(todo'[i].w)
      BY <3>1, ServiceWritesIs DEF Types
    <3> QED BY <1>2, <2>1, <3>1, <3>2 DEF Stopping, Harmless, SetsMode
  <2>3. CASE ~Holds
    BY <1>2, <1>6, <2>1, <2>3, StoppingKept DEF Service
  <2> QED BY <2>2, <2>3
<1>7. CASE Feedback
  BY <1>2, <1>7, StoppingKept DEF Feedback, history
<1>8. CASE HandleFault
  BY <1>2, <1>8, StoppingBegins DEF HandleFault, history, Stopping
<1> QED BY <1>3, <1>4, <1>5, <1>6, <1>7, <1>8, <1>9 DEF Commands, Tasks

(* What a transaction in progress can do to the mode of a wheel.           *)
LEMMA CoastingTransfer ==
    ASSUME Types, Transfers, NEW m \in Motors, Harmless(Current.w),
           Coasting(m) \/ (Send /\ SetsMode(Current.w, m))
    PROVE  Coasting(m)'
<1>1. regs' = regs /\ job # Idle
  BY DEF Transfers, Send, SendFails, VerifyMatches, VerifyDiffers, ReadPosition, ReadFails, Works
<1>2. Current.w \in Writes /\ queue \in Seq(Writes)
  BY <1>1, AtWork DEF Types, BoardTypes
<1>3. CASE Send
  <2>1. queue' = Append(queue, Current.w)
    BY <1>3 DEF Send
  <2> QED BY <1>1, <1>2, <2>1, CoastingAppend DEF Harmless
<1>4. CASE SendFails /\ queue' # queue /\ Coasting(m)
  <2>1. PICK p \in PartsOf(Current.w) : queue' = Append(queue, p)
    BY <1>4 DEF SendFails
  <2>2. p \in Writes /\ Harmless(p)
    BY <1>2, PartIs
  <2> QED BY <1>1, <1>2, <1>4, <2>1, <2>2, CoastingAppend DEF Harmless
<1>5. CASE queue' = queue /\ Coasting(m)
  BY <1>1, <1>5, CoastingKept
<1> QED BY <1>3, <1>4, <1>5
        DEF Transfers, SendFails, VerifyMatches, VerifyDiffers, ReadPosition, ReadFails

\* Where a stop is: at its first wheel or at its second.
LEMMA AtStop ==
    ASSUME WorkTypes, Stopping, job.name = "stop"
    PROVE  /\ Harmless(Current.w) /\ Current.kind = "checked"
           /\ \/ /\ todo = StopWrites /\ Len(todo) = 2 /\ Tail(todo) = LastWrite
                 /\ Current.w = CoastWrite(1) /\ (sent => Coasting(1))
              \/ /\ todo = LastWrite /\ Len(todo) = 1
                 /\ Current.w = CoastWrite(2) /\ (sent => Coasting(2)) /\ (~lost => Coasting(1))
<1>1. CASE todo = StopWrites /\ (sent => Coasting(1))
  BY <1>1, StopWritesIs, CoastWriteIs DEF Current, Checked, Motors
<1>2. CASE todo = LastWrite /\ (sent => Coasting(2)) /\ (~lost => Coasting(1))
  BY <1>2, StopWritesIs, CoastWriteIs DEF Current, Checked, Motors
<1> QED BY <1>1, <1>2 DEF Stopping

LEMMA StoppingCompletes ==
    ASSUME Types, Stopping, Transfers, Complete,
           job.name = "stop" => VerifyMatches /\ Len(todo) = 1
    PROVE  Stopping'
<1>1. job # Idle
  BY DEF Transfers, Send, SendFails, VerifyMatches, VerifyDiffers, ReadPosition, ReadFails, Works
<1>2. /\ job.name \in Names \ {"none"} /\ EndJob
      /\ calm' = calm \/ (job.name = "stop" /\ calm' = (calm \/ ~lost))
  <2>1. job.name \in Names \ {"none"}
    BY <1>1, AtWork DEF Types
  <2> QED BY <2>1 DEF Complete, Names, StopFailed
<1>3. CASE calm' /\ calm
  <2>1. \A m \in Motors : Coasting(m) /\ Harmless(Current.w)
    BY <1>1, <1>2, <1>3, AtWork DEF Types, Stopping, Names
  <2> QED BY <1>2, <2>1, CoastingTransfer, StoppingEnds
<1>4. CASE calm' /\ ~calm
  <2>1. job.name = "stop" /\ ~lost
    BY <1>2, <1>4
  <2>2. Len(todo) = 1 /\ sent
    BY <2>1 DEF VerifyMatches
  <2>3. Harmless(Current.w) /\ Coasting(1) /\ Coasting(2)
    BY <2>1, <2>2, AtStop DEF Types
  <2>4. \A m \in Motors : Coasting(m)'
    BY <2>3, CoastingTransfer DEF Motors
  <2> QED BY <1>2, <2>4, StoppingEnds
<1>5. CASE ~calm'
  BY <1>2, <1>5, StoppingEnds
<1> QED BY <1>3, <1>4, <1>5

LEMMA StoppingAdvances ==
    ASSUME Types, Stopping, Transfers, Advance, job.name = "stop" => VerifyMatches
    PROVE  Stopping'
<1>1. job # Idle
  BY DEF Transfers, Send, SendFails, VerifyMatches, VerifyDiffers, ReadPosition, ReadFails, Works
<1>2. CASE Len(todo) = 1
  BY <1>2, StoppingCompletes DEF Advance
<1>3. CASE Len(todo) # 1
  <2>1. todo' = Tail(todo) /\ sent' = FALSE /\ UNCHANGED <<job, lost, calm>>
    BY <1>3 DEF Advance
  <2>2. /\ Len(todo') = Len(todo) - 1 /\ Len(todo) \in Nat
        /\ \A i \in 1..Len(todo') : todo'[i] = todo[i + 1]
    BY <1>1, <2>1, AtWork DEF Types
  <2>3. ASSUME job'.name \in {"COAST", "untrack", "stop", "service"}, NEW i \in 1..Len(todo')
        PROVE  Harmless(todo'[i].w)
    BY <2>1, <2>2, <2>3 DEF Stopping
  <2>4. ASSUME calm' PROVE  \A m \in Motors : Coasting(m)'
    <3>1. \A m \in Motors : Coasting(m) /\ Harmless(Current.w)
      BY <1>1, <2>1, <2>4, AtWork DEF Types, Stopping, Names
    <3> QED BY <3>1, CoastingTransfer
  <2>5. ASSUME job'.name = "stop"
        PROVE  todo' = LastWrite /\ (~lost' => Coasting(1)')
    <3>1. Harmless(Current.w) /\ sent /\ todo' = LastWrite /\ (sent => Coasting(1))
      BY <1>3, <2>1, <2>5, AtStop DEF Types, VerifyMatches
    <3> QED BY <3>1, CoastingTransfer DEF Motors
  <2> QED BY <2>1, <2>3, <2>4, <2>5 DEF Stopping, Harmless, SetsMode
<1> QED BY <1>2, <1>3

LEMMA StoppingAbandons ==
    ASSUME Types, Stopping, Transfers, Abandon
    PROVE  Stopping'
<1>1. job # Idle /\ job.name \in Names \ {"none"}
  <2>1. job # Idle
    BY DEF Transfers, Send, SendFails, VerifyMatches, VerifyDiffers, ReadPosition, ReadFails, Works
  <2> QED BY <2>1, AtWork DEF Types
<1>2. ASSUME calm PROVE \A m \in Motors : Coasting(m)'
  <2>1. \A m \in Motors : Coasting(m) /\ Harmless(Current.w)
    BY <1>1, <1>2, AtWork DEF Types, Stopping, Names
  <2> QED BY <2>1, CoastingTransfer
<1>3. CASE SafetyStop(TRUE) /\ UNCHANGED <<fault, calm>>
  BY <1>2, <1>3, StoppingBegins
<1>4. CASE /\ Start("untrack", job.m, NoGoal, FALSE, <<Checked(CoastWrite(job.m))>>)
           /\ job.m \in Motors /\ UNCHANGED <<claims, fault, calm>>
  <2> DEFINE w == Checked(CoastWrite(job.m))
  <2>1. job'.name = "untrack" /\ todo' = <<w>> /\ calm' = calm
    BY <1>4 DEF Start
  <2>2. Harmless(w.w)
    BY <1>4, CoastWriteIs, ChecksAre
  <2> HIDE DEF w
  <2>3. \A i \in 1..Len(todo') : Harmless(todo'[i].w)
    BY <2>1, <2>2
  <2> QED BY <1>2, <2>1, <2>3 DEF Stopping, Harmless, SetsMode
<1>5. CASE EndJob /\ UNCHANGED calm
  BY <1>2, <1>5, StoppingEnds
<1>6. CASE job.name = "untrack" /\ Complete
  BY <1>6, StoppingCompletes
<1>7. CASE /\ job.name = "stop" /\ sent' = FALSE
           /\ UNCHANGED <<claims, fault, job, todo, lost, calm>>
  <2>1. Harmless(Current.w) /\ \A m \in Motors : Coasting(m) => Coasting(m)'
    BY <1>7, AtStop, CoastingTransfer DEF Types
  <2>2. 1 \in Motors
    BY DEF Motors
  <2>3. \A i \in 1..Len(todo') : Harmless(todo'[i].w)
    BY <1>7 DEF Stopping
  <2> QED BY <1>7, <2>1, <2>2, <2>3 DEF Stopping, Harmless, SetsMode
<1>8. CASE /\ job.name = "stop" /\ Len(todo) = 2
           /\ todo' = Tail(todo) /\ sent' = FALSE /\ lost' = TRUE
           /\ UNCHANGED <<claims, fault, job, calm>>
  <2>1. todo' = LastWrite
    BY <1>8, AtStop DEF Types
  <2>2. \A i \in 1..Len(todo') : Harmless(todo'[i].w)
    BY <2>1, ChecksAre, CoastWriteIs DEF LastWrite, Motors
  <2> QED BY <1>2, <1>8, <2>1, <2>2 DEF Stopping, Harmless, SetsMode
<1>9. job.name = "stop" => Len(todo) \in {1, 2}
  BY AtStop DEF Types
<1> QED BY <1>1, <1>3, <1>4, <1>5, <1>6, <1>7, <1>8, <1>9, AbandonCases DEF Types

LEMMA StoppingTransfer ==
    ASSUME Types, Stopping, Transfers
    PROVE  Stopping'
<1>1. job # Idle /\ job.name \in Names \ {"none"}
  <2>1. job # Idle
    BY DEF Transfers, Send, SendFails, VerifyMatches, VerifyDiffers, ReadPosition, ReadFails, Works
  <2> QED BY <2>1, AtWork DEF Types
<1>2. job.name = "stop" => Current.kind = "checked"
  BY AtStop DEF Types
<1>3. ASSUME calm, Harmless(Current.w) PROVE \A m \in Motors : Coasting(m)'
  BY <1>3, CoastingTransfer DEF Stopping
<1>4. CASE Send
  <2>1. CASE Current.kind = "refresh"
    BY <1>2, <1>4, <2>1, StoppingAdvances DEF Send
  <2>2. CASE Current.kind # "refresh"
    <3>1. sent' = TRUE /\ UNCHANGED <<job, todo, lost, calm>>
      BY <1>4, <2>2 DEF Send
    <3>2. calm => Harmless(Current.w)
      BY <1>1, AtWork DEF Types, Stopping, Names
    <3>3. ASSUME job.name = "stop"
          PROVE  \/ todo = StopWrites /\ Coasting(1)'
                 \/ todo = LastWrite /\ Coasting(2)' /\ (~lost => Coasting(1)')
      <4>1. Harmless(Current.w)
        BY <3>3, AtStop DEF Types
      <4>2. CASE todo = StopWrites /\ Current.w = CoastWrite(1)
        BY <1>4, <4>1, <4>2, CoastWriteIs, CoastingTransfer DEF Motors
      <4>3. CASE todo = LastWrite /\ Current.w = CoastWrite(2) /\ (~lost => Coasting(1))
        BY <1>4, <4>1, <4>3, CoastWriteIs, CoastingTransfer DEF Motors
      <4> QED BY <3>3, <4>2, <4>3, AtStop DEF Types
    <3>4. job.name \in {"COAST", "untrack", "stop", "service"} =>
              \A i \in 1..Len(todo') : Harmless(todo'[i].w)
      BY <3>1 DEF Stopping
    <3>5. calm' => /\ job'.name \notin {"drive", "SPEED", "POSITION"}
                   /\ \A m \in Motors : Coasting(m)'
      BY <1>3, <3>1, <3>2 DEF Stopping
    <3> QED BY <3>1, <3>3, <3>4, <3>5 DEF Stopping, Harmless, SetsMode
  <2> QED BY <2>1, <2>2
<1>5. CASE SendFails \/ VerifyDiffers \/ ReadFails
  BY <1>5, StoppingAbandons DEF SendFails, VerifyDiffers, ReadFails
<1>6. CASE VerifyMatches
  BY <1>6, StoppingAdvances DEF VerifyMatches
<1>7. CASE ReadPosition /\ Advance
  BY <1>2, <1>7, StoppingAdvances DEF ReadPosition
<1>8. CASE ReadPosition /\ ~Advance
  <2>1. PICK done \in (SUBSET {m \in mask : regs[<<"mode", m>>] = "POSITION"}) \ {{}} :
            /\ job.name = "service" /\ todo' = ForEach(Finished, done)
            /\ UNCHANGED <<job, calm>>
    BY <1>8 DEF ReadPosition
  <2>2. done \subseteq mask /\ done # {}
    BY <2>1
  <2>3. mask \in SUBSET Motors
    BY DEF Types, ChassisTypes
  <2>4. done \in SUBSET Motors /\ done # {}
    BY ONLY <2>2, <2>3
  <2>5. \A i \in 1..Len(todo') : Harmless(todo'[i].w)
    BY <2>1, <2>4, FinishedWritesIs
  <2>6. calm => Harmless(Current.w)
    BY <1>1, <2>1, AtWork DEF Types, Stopping
  <2> QED BY <1>3, <2>1, <2>5, <2>6 DEF Stopping, Harmless, SetsMode
<1> QED BY <1>4, <1>5, <1>6, <1>7, <1>8 DEF Transfers
-----------------------------------------------------------------------------
(* What the chassis lets go of: one lemma per kind of step.                *)

LEMMA ReleasingEnds ==
    ASSUME EndJob, idle' = 0
    PROVE  Releasing'
BY DEF EndJob, Idle, Releasing

LEMMA ReleasingBoard ==
    ASSUME Types, Releasing, BoardSteps \/ BusFails \/ BusHeals
    PROVE  Releasing'
<1>1. UNCHANGED <<work, claims, idle>>
  BY DEF BoardSteps, Apply, Loop, Expire, BoardTrips, BusFails, BusHeals, history, chassis
<1>2. ASSUME idle > 0 PROVE queue' = <<>> /\ (Active(regs') => Active(regs) /\ age' = age)
  <2>1. CASE Apply
    BY <1>2, <2>1 DEF Apply, Releasing
  <2>2. CASE \E m \in Looping : Loop(m)
    <3>1. PICK n \in Motors : Loop(n)
      BY <2>2, LinkConstants
    <3>2. \A m \in Motors : regs'[<<"mode", m>>] = regs[<<"mode", m>>]
      BY <3>1, LoopIs DEF Types
    <3>3. queue' = queue /\ age' = age
      BY <3>1 DEF Loop
    <3> QED BY <1>2, <3>2, <3>3 DEF Active, Releasing
  <2>3. CASE Expire
    BY <1>2, <2>3, CoastedIs DEF Expire, Active, Releasing, Types
  <2>4. CASE BoardTrips
    BY <2>4, CoastedIs DEF BoardTrips, Active, Types
  <2>5. CASE BusFails \/ BusHeals
    BY <1>2, <2>5 DEF BusFails, BusHeals, board, Releasing
  <2> QED BY <2>1, <2>2, <2>3, <2>4, <2>5 DEF BoardSteps
<1>3. idle > 0 => /\ queue' = <<>> /\ ~lease /\ mask = {} /\ job.name \in {"none", "stop"}
                  /\ Active(regs') => age' >= idle
  BY <1>2 DEF Releasing
<1> QED BY <1>1, <1>3 DEF work, claims, Releasing, Holds

(* One more period without a claim makes both clocks one later.            *)
LEMMA ReleasingTick ==
    ASSUME Types, Releasing, Tick
    PROVE  Releasing'
<1>1. /\ UNCHANGED <<work, claims>> /\ queue = <<>> /\ queue' = queue /\ regs' = regs
      /\ age' = IF Active(regs) THEN age + 1 ELSE 0
      /\ idle' = IF job.name \notin {"none", "service"} \/ lease \/ mask # {} THEN 0
                 ELSE IF idle <= Limit + 1 THEN idle + 1 ELSE idle
  BY DEF Tick
<1>2. job.name = "service" => Holds
  <2>1. ASSUME job.name = "service" PROVE 1 \in 1..Len(todo)
    BY <2>1 DEF Types, WorkTypes
  <2> QED BY <2>1 DEF Releasing, Holds
<1>3. age \in Nat /\ idle \in Nat /\ Limit \in Nat
  BY LinkConstants DEF Types, BoardTypes, ChassisTypes
<1>4. ASSUME idle' > 0
      PROVE  /\ ~lease /\ mask = {} /\ job.name = "none"
             /\ Active(regs) => age' >= idle'
  <2>1. ~lease /\ mask = {} /\ job.name = "none" /\ idle' <= idle + 1
    BY <1>1, <1>2, <1>3, <1>4 DEF Holds
  <2>2. CASE Active(regs)
    <3>1. age' = age + 1 /\ (idle > 0 => age >= idle)
      BY <1>1, <2>2 DEF Releasing
    <3> QED BY <1>1, <1>3, <2>1, <3>1
  <2> QED BY <2>1, <2>2
<1> QED BY <1>1, <1>4 DEF work, claims, Releasing, Holds

LEMMA ReleasingCommand ==
    ASSUME Types, Releasing, Commands \/ Tasks
    PROVE  Releasing'
<1>1. queue' = queue /\ regs' = regs /\ age' = age /\ job = Idle
  BY DEF Commands, Tasks, Drive, ShellMotor, StopCommand, Arm, Disarm, Service, Feedback,
         HandleFault, RunArmed, Begins, board
<1>2. CASE \E g \in Goals : Drive(g)
  <2>1. PICK g \in Goals : Drive(g)
    BY <1>2
  <2>2. idle' = 0 /\ job'.name = "drive" /\ todo' = DriveWrites(g)
    BY <2>1 DEF Drive, Start
  <2> QED BY <2>2, DriveWritesIs DEF Releasing
<1>3. CASE \E m \in Motors, mode \in ShellModes, v \in {-1, 1} : ShellMotor(m, mode, v)
  <2>1. PICK m \in Motors, mode \in ShellModes, v \in {-1, 1} : ShellMotor(m, mode, v)
    BY <1>3
  <2>2. idle' = 0 /\ job'.name = mode /\ todo' = ShellWrites(m, mode, v) /\ mode \in Modes
    BY <2>1, LinkConstants DEF ShellMotor, Start
  <2>3. \A i \in 1..Len(todo') : todo'[i].m = 0
    BY <2>2, ShellWritesIs
  <2> QED BY <2>2, <2>3 DEF Releasing, Modes
<1>7. CASE Disarm \/ RunArmed
  <2>1. UNCHANGED <<work, claims, idle>>
    BY <1>7 DEF Disarm, RunArmed, history
  <2> QED BY <1>1, <2>1 DEF work, claims, Releasing, Holds
<1>4. CASE StopCommand \/ Arm \/ HandleFault
  <2>1. /\ job'.name = "stop" /\ todo' = StopWrites /\ lease' = FALSE /\ mask' = {} /\ idle' = idle
    <3>1. SafetyStop(FALSE) /\ idle' = idle
      BY <1>4 DEF StopCommand, Arm, HandleFault, history
    <3> QED BY <3>1 DEF SafetyStop, Start, ClearClaims
  <2> QED BY <1>1, <2>1, StopWritesIs DEF Releasing
<1>5. CASE Service
  <2>1. lease' = lease /\ mask' = mask /\ idle' = idle
    BY <1>5 DEF Service, claims, history
  <2>2. CASE Holds
    <3>1. job'.name = "service" /\ todo' = ServiceWrites
      BY <1>5, <2>2 DEF Service, Start
    <3>2. \A i \in 1..Len(todo') : todo'[i].m = 0
      BY <3>1, ServiceWritesIs DEF Types
    <3>3. ~(idle > 0)
      BY <2>2 DEF Releasing, Holds
    <3> QED BY <2>1, <2>2, <3>1, <3>2, <3>3 DEF Releasing, Holds
  <2>3. CASE ~Holds
    <3>1. UNCHANGED work
      BY <1>5, <2>3 DEF Service
    <3> QED BY <1>1, <2>1, <3>1 DEF work, Releasing, Holds
  <2> QED BY <2>2, <2>3
<1>6. CASE Feedback
  <2>1. UNCHANGED <<work, claims, idle>>
    BY <1>6 DEF Feedback, history
  <2> QED BY <1>1, <2>1 DEF work, claims, Releasing, Holds
<1> QED BY <1>2, <1>3, <1>4, <1>5, <1>6, <1>7 DEF Commands, Tasks

(* A service lets go of one motor at a time, each of them once.            *)
LEMMA ReleasingAdvances ==
    ASSUME Types, Releasing, job # Idle, Advance, idle' = 0
    PROVE  Releasing'
<1>1. job.name \in Names \ {"none"}
  BY AtWork DEF Types
<1>2. CASE Len(todo) = 1
  <2>1. EndJob
    BY <1>1, <1>2 DEF Advance, Complete, Names
  <2> QED BY <2>1, ReleasingEnds
<1>3. CASE Len(todo) # 1
  <2>1. todo' = Tail(todo) /\ mask' = mask \ {Current.m} /\ lease' = lease /\ job' = job
    BY <1>3 DEF Advance
  <2>2. /\ Len(todo) \in Nat \ {0, 1} /\ Len(todo') = Len(todo) - 1 /\ Current = todo[1]
        /\ \A i \in 1..Len(todo') : i + 1 \in 1..Len(todo) /\ todo'[i] = todo[i + 1]
    BY <1>3, <2>1, AtWork DEF Types
  <2>3. \A i \in 1..Len(todo') : todo'[i].m # 0 => job'.name = "service"
    BY <2>1, <2>2 DEF Releasing
  <2>4. CASE job.name = "service" /\ Holds /\ \A i \in 1..Len(todo) : todo[i].m = 0
    <3>1. mask' = mask
      BY <2>1, <2>2, <2>4 DEF Types, ChassisTypes, Motors
    <3>2. \A i \in 1..Len(todo') : todo'[i].m = 0
      BY <2>2, <2>4
    <3> QED BY <2>1, <2>3, <2>4, <3>1, <3>2 DEF Releasing, Holds
  <2>5. CASE /\ job.name = "service"
             /\ \A i \in 1..Len(todo) : todo[i].m \in mask
             /\ \A i, j \in 1..Len(todo) : todo[i].m = todo[j].m => i = j
    <3>1. \A i \in 1..Len(todo') : i + 1 \in 1..Len(todo) /\ i + 1 # 1 /\ 1 \in 1..Len(todo)
      BY <2>2
    <3>2. \A i \in 1..Len(todo') : todo'[i].m \in mask /\ todo'[i].m # Current.m
      BY <2>2, <2>5, <3>1
    <3>3. \A i, j \in 1..Len(todo') : todo'[i].m = todo'[j].m => i = j
      BY <2>2, <2>5, <3>1
    <3> QED BY <2>1, <2>3, <3>2, <3>3, idle' = 0 DEF Releasing
  <2>6. CASE job.name # "service"
    BY <2>1, <2>3, <2>6 DEF Releasing
  <2> QED BY <2>4, <2>5, <2>6 DEF Releasing
<1> QED BY <1>2, <1>3

LEMMA ReleasingAbandons ==
    ASSUME Types, Stopping, Releasing, job # Idle, Abandon, idle' = 0
    PROVE  Releasing'
<1>1. CASE SafetyStop(TRUE)
  <2>1. job'.name = "stop" /\ todo' = StopWrites
    BY <1>1 DEF SafetyStop, Start
  <2> QED BY <2>1, StopWritesIs DEF Releasing
<1>2. CASE /\ Start("untrack", job.m, NoGoal, FALSE, <<Checked(CoastWrite(job.m))>>)
           /\ job.m \in Motors
  <2> DEFINE w == Checked(CoastWrite(job.m))
  <2>1. job'.name = "untrack" /\ todo' = <<w>>
    BY <1>2 DEF Start
  <2>2. w.m = 0
    BY DEF Checked
  <2> HIDE DEF w
  <2>3. \A i \in 1..Len(todo') : todo'[i].m = 0
    BY <2>1, <2>2
  <2> QED BY <2>1, <2>3 DEF Releasing
<1>3. CASE EndJob
  BY <1>3, ReleasingEnds
<1>4. CASE job.name = "untrack" /\ Complete
  BY <1>4, ReleasingEnds DEF Complete
<1>5. CASE job.name = "stop" /\ UNCHANGED <<claims, fault, job, todo, lost, calm>>
  BY <1>5 DEF Releasing
<1>6. CASE /\ job.name = "stop" /\ todo' = Tail(todo)
           /\ UNCHANGED <<claims, fault, job, calm>>
  <2>1. \A i \in 1..Len(todo') : i + 1 \in 1..Len(todo) /\ todo'[i] = todo[i + 1]
    BY <1>6, AtWork DEF Types
  <2> QED BY <1>6, <2>1 DEF Releasing
<1>7. job.name = "stop" => Len(todo) \in {1, 2}
  BY AtStop DEF Types
<1> QED BY <1>1, <1>2, <1>3, <1>4, <1>5, <1>6, <1>7, AbandonCases DEF Types

LEMMA ReleasingTransfer ==
    ASSUME Types, Stopping, Releasing, Transfers
    PROVE  Releasing'
<1>1. job # Idle /\ idle' = IF job.name = "service" THEN idle ELSE 0
  BY DEF Transfers, Send, SendFails, VerifyMatches, VerifyDiffers, ReadPosition, ReadFails, Works
<1>2. idle' = 0
  <2>1. job.name = "service" => ~(idle > 0)
    BY DEF Releasing
  <2> QED BY <1>1, <2>1 DEF Types, ChassisTypes
<1>3. CASE Advance
  BY <1>1, <1>2, <1>3, ReleasingAdvances
<1>4. CASE Abandon
  BY <1>1, <1>2, <1>4, ReleasingAbandons
<1>5. CASE Send /\ ~Advance
  <2>1. UNCHANGED <<claims, job, todo>>
    BY <1>5 DEF Send
  <2> QED BY <1>2, <2>1 DEF claims, Releasing, Holds
<1>6. CASE ReadPosition /\ ~Advance
  <2>1. PICK done \in (SUBSET {m \in mask : regs[<<"mode", m>>] = "POSITION"}) \ {{}} :
            /\ job.name = "service" /\ todo' = ForEach(Finished, done)
            /\ UNCHANGED <<claims, job>>
    BY <1>6 DEF ReadPosition
  <2>2. done \subseteq mask /\ done # {}
    BY <2>1
  <2>3. mask \in SUBSET Motors
    BY DEF Types, ChassisTypes
  <2>4. done \in SUBSET Motors /\ done # {}
    BY ONLY <2>2, <2>3
  <2>5. /\ \A i \in 1..Len(todo') : todo'[i].m \in mask
        /\ \A i, j \in 1..Len(todo') : todo'[i].m = todo'[j].m => i = j
    BY <2>1, <2>2, <2>4, FinishedWritesIs
  <2> QED BY <1>2, <2>1, <2>5 DEF claims, Releasing
<1> QED BY <1>3, <1>4, <1>5, <1>6
        DEF Transfers, Send, SendFails, VerifyMatches, VerifyDiffers, ReadPosition, ReadFails
-----------------------------------------------------------------------------
LEMMA LinkInvInit == Init => LinkInv
<1> SUFFICES ASSUME Init PROVE LinkInv
  OBVIOUS
<1>1. BoardTypes
  <2>1. AtRest \in [Registers -> Values] /\ \A r \in Registers : AtRest[r] \in Allowed(r)
    BY DEF AtRest, Values, Allowed, Modes, Dirs
  <2> QED BY <2>1, LinkConstants DEF Init, BoardTypes
<1>2. ChassisTypes
  <2>1. /\ lease = FALSE /\ mask = {} /\ want = NoGoal /\ streak = 0 /\ served = FALSE
        /\ fault = FALSE /\ handled = FALSE /\ calm = TRUE /\ idle = 0 /\ posed = FALSE
        /\ armed = TRUE /\ serving = FALSE /\ unserved = FALSE
    BY DEF Init
  <2>2. 0 \in 0..Threshold
    BY LinkConstants
  <2> QED BY <2>1, <2>2 DEF ChassisTypes
<1>3. WorkTypes
  <2>1. Idle \in Jobs /\ Idle.name = "none" /\ <<>> \in Seq(Steps)
    BY DEF Idle, Jobs, Names
  <2> QED BY <2>1 DEF Init, WorkTypes
<1>4. Stopping
  BY DEF Init, Stopping, Idle, Coasting, AtRest, Registers
<1>5. Releasing
  BY DEF Init, Releasing, Idle
<1> QED BY <1>1, <1>2, <1>3, <1>4, <1>5 DEF LinkInv, Types

LEMMA LinkInvStep == LinkInv /\ [Next]_vars => LinkInv'
<1> SUFFICES ASSUME LinkInv, [Next]_vars PROVE LinkInv'
  OBVIOUS
<1>1. CASE BoardSteps \/ BusFails \/ BusHeals
  BY <1>1, BoardStepTypes, StoppingBoard, ReleasingBoard DEF LinkInv
<1>2. CASE Tick
  BY <1>2, BoardStepTypes, StoppingBoard, ReleasingTick DEF LinkInv
<1>3. CASE Commands \/ Tasks
  BY <1>3, CommandTypes, StoppingCommand, ReleasingCommand DEF LinkInv
<1>4. CASE Transfers
  BY <1>4, TransferTypes, StoppingTransfer, ReleasingTransfer DEF LinkInv
<1>5. CASE UNCHANGED vars
  <2>1. UNCHANGED <<regs, queue, age, warm, up, lease, mask, want, streak, served, fault,
                    handled, armed, serving, job, todo, sent, retried, lost, calm, idle,
                    posed, unserved>>
    BY <1>5 DEF vars, board, chassis, claims, work, history
  <2>2. Types'
    BY <2>1 DEF LinkInv, Types, BoardTypes, ChassisTypes, WorkTypes
  <2>3. \A m \in Motors : Coasting(m) => Coasting(m)'
    BY <2>1, CoastingKept
  <2>4. Stopping'
    BY <2>1, <2>3, StoppingKept DEF LinkInv, work
  <2>5. Releasing'
    BY <2>1 DEF LinkInv, Releasing, Holds
  <2> QED BY <2>2, <2>4, <2>5 DEF LinkInv
<1> QED BY <1>1, <1>2, <1>3, <1>4, <1>5 DEF Next

THEOREM LinkInvariant == Spec => []LinkInv
BY LinkInvInit, LinkInvStep, PTL DEF Spec

(* The types of the link, and that the chassis never holds a claim on the  *)
(* speed of the wheels and one on a position at once (chassis.cpp          *)
(* Chassis_SetWheelRpm, Chassis_TrackMotorPosition, Chassis_ReleaseMotor-  *)
(* Command; RegisterMap of the board).                                     *)
THEOREM LinkTypes == Spec => []TypeOK
<1>1. LinkInv => TypeOK
  <2> SUFFICES ASSUME LinkInv PROVE TypeOK
    OBVIOUS
  <2>1. job = Idle <=> todo = <<>>
    BY DEF LinkInv, Types, WorkTypes, Idle
  <2> QED BY <2>1 DEF LinkInv, Types, BoardTypes, ChassisTypes, WorkTypes, TypeOK, Allowed
<1> QED BY <1>1, LinkInvariant, PTL

(* A stop that reported success holds, whatever was in flight before, was  *)
(* refreshed, delivered in part or refused on the way, until a command     *)
(* asks for motion (motor_driver_client.h Stop, chassis.cpp).              *)
THEOREM StopsHold == Spec => []StopHolds
<1>1. LinkInv => StopHolds
  BY CoastingFinal DEF LinkInv, Types, Stopping, StopHolds
<1> QED BY <1>1, LinkInvariant, PTL

(* When the chassis has claimed nothing for longer than the watchdog limit *)
(* no wheel is under control, however the claim was lost (the watchdog of  *)
(* the board's main loop, the leases of chassis.cpp).                      *)
THEOREM ReleasedStops == Spec => []ReleasedMeansStopped
<1>1. LinkInv => ReleasedMeansStopped
  <2> SUFFICES ASSUME LinkInv, idle > Limit + 1 PROVE AllCoast
    BY DEF ReleasedMeansStopped
  <2>1. age \in 0..(Limit + 1) /\ idle \in Nat /\ Limit \in Nat
    BY LinkConstants DEF LinkInv, Types, BoardTypes, ChassisTypes
  <2>2. ~Active(regs)
    BY <2>1 DEF LinkInv, Releasing
  <2> QED BY <2>2 DEF Active, AllCoast
<1> QED BY <1>1, LinkInvariant, PTL
-----------------------------------------------------------------------------
(* The link while nothing has disturbed bus or board and no position       *)
(* command has been given.                                                 *)
\* What a transaction sets, and what it sets it to.
Sets(w, r) == Clears(w, r) \/ r \in DOMAIN w
Effect(w, r) == IF Clears(w, r) THEN 0 ELSE w[r]

PlainWrites ==
    {CoastWrite(m) : m \in Motors} \cup {RpmWrite(m, v) : m \in Motors, v \in {-1, 1}}
    \cup {SpeedWrite(m, v) : m \in Motors, v \in {-1, 0, 1}}
    \cup {PairWrite(g) : g \in Goals \cup {NoGoal}}

\* Once the board has applied the first n entries, register r is v; if none of
\* them sets it, then because it is v now and the watchdog does not run out.
Leaves(n, r, v) ==
    \/ \E i \in 1..n : /\ Sets(queue[i], r) /\ Effect(queue[i], r) = v
                       /\ \A j \in (i + 1)..n : ~Sets(queue[j], r)
    \/ regs[r] = v /\ age <= Limit /\ \A j \in 1..n : ~Sets(queue[j], r)

\* And motor m has direction d, which its loop keeps as the speed is not 0.
KeepsHeading(w, m) ==
    ~Sets(w, <<"dir", m>>) /\ (Sets(w, <<"rpm", m>>) => Effect(w, <<"rpm", m>>) = 1)
Heading(n, m, d) ==
    \/ \E i \in 1..n : /\ Sets(queue[i], <<"dir", m>>) /\ Effect(queue[i], <<"dir", m>>) = d
                       /\ Leaves(i, <<"rpm", m>>, 1)
                       /\ \A j \in (i + 1)..n : KeepsHeading(queue[j], m)
    \/ /\ regs[<<"dir", m>>] = d /\ regs[<<"rpm", m>>] = 1 /\ age <= Limit
       /\ \A j \in 1..n : KeepsHeading(queue[j], m)

\* Motor m is about to run, and runs as commanded by v.
Runs(n, m) == Leaves(n, <<"mode", m>>, "SPEED")
Paced(n, m, v) == Leaves(n, <<"rpm", m>>, Abs(v))
AsCommanded(m, v) ==
    /\ Runs(Len(queue), m) /\ Paced(Len(queue), m, v)
    /\ v # 0 => Heading(Len(queue), m, DirOf(v))

\* Entry k restarts the loop of motor m: it ends a hold or turns the wheel round.
Restarts(k, m) ==
    /\ Runs(k - 1, m) /\ Runs(k, m) /\ Paced(k, m, 1)
    /\ \/ Paced(k - 1, m, 0)
       \/ /\ Paced(k - 1, m, 1)
          /\ \E d, e \in Dirs : d # e /\ Heading(k - 1, m, d) /\ Heading(k, m, e)
Cools(m) == ~warm[m] \/ \E k \in 1..Len(queue) : Restarts(k, m)

\* A shell command has set the speed of motor m, and then its mode: either all
\* is as the lease has it, or the loop is restarted and rewrites nothing.
Raised(m) ==
    /\ Runs(Len(queue), m) /\ Paced(Len(queue), m, 1)
    /\ IF want[m] = 0 THEN Cools(m) ELSE Heading(Len(queue), m, DirOf(want[m]))
Settling(m, v) ==
    IF queue = <<>> THEN ~warm[m] /\ Matches(regs, SpeedWrite(m, v))
    ELSE queue[Len(queue)] = SpeedWrite(m, v) /\ Cools(m)

SpeedPhase(m, v) ==
    /\ \/ /\ todo = <<Checked(RpmWrite(m, v)), Checked(SpeedWrite(m, v))>>
          /\ lease => IF sent THEN Raised(m) ELSE AsCommanded(m, want[m])
       \/ /\ todo = <<Checked(SpeedWrite(m, v))>>
          /\ lease => IF sent THEN AsCommanded(m, want[m]) \/ Settling(m, v) ELSE Raised(m)
    /\ lease => \A k \in Motors \ {m} : AsCommanded(k, want[k])

DrivePhase(g) ==
    \/ /\ todo = <<Checked(PairWrite(g))>> /\ lease
       /\ \A m \in Motors : want[m] * g[m] > 0 /\ AsCommanded(m, want[m])
    \/ /\ todo = <<Checked(PairWrite(g)), Checked(SpeedWrite(2, g[2])),
                   Checked(SpeedWrite(1, g[1]))>>
       /\ sent => \A m \in Motors : Paced(Len(queue), m, g[m])
    \/ /\ todo = <<Checked(SpeedWrite(2, g[2])), Checked(SpeedWrite(1, g[1]))>>
       /\ \A m \in Motors : Paced(Len(queue), m, g[m])
       /\ sent => AsCommanded(2, g[2])
    \/ /\ todo = <<Checked(SpeedWrite(1, g[1]))>>
       /\ Paced(Len(queue), 1, g[1]) /\ AsCommanded(2, g[2])
       /\ sent => AsCommanded(1, g[1])

JobPhase ==
    \/ job = Idle /\ ~sent /\ (lease => \A m \in Motors : AsCommanded(m, want[m]))
    \/ /\ job.name = "service" /\ lease /\ ~sent
       /\ todo = <<Refresh(PairWrite(want))>>
       /\ \A m \in Motors : AsCommanded(m, want[m])
    \/ job.name = "stop" /\ ~lease
    \/ /\ job.name = "COAST" /\ todo = <<Checked(CoastWrite(job.m))>>
       /\ sent => Coasting(job.m)
    \/ job.name = "SPEED" /\ \E v \in {-1, 1} : SpeedPhase(job.m, v)
    \/ job.name = "drive" /\ DrivePhase(job.goal)

\* The board is fed: the lease is renewed in every period it is held, and
\* what is written in a period is not old in it.
Fed ==
    /\ sent /\ queue = <<>> => age = 0
    /\ lease /\ served /\ queue = <<>> /\ job.name # "service" => age = 0

QuietBoard ==
    /\ up /\ mask = {}
    /\ \A m \in Motors : /\ regs[<<"mode", m>>] \in {"COAST", "SPEED"}
                         /\ regs[<<"mode", m>>] = "COAST" => regs[<<"duty", m>>] = 0
    /\ \A i \in 1..Len(queue) : queue[i] \in PlainWrites

\* The chassis is about to send nothing else.
QuietWork ==
    /\ job.name \notin {"POSITION", "untrack"} /\ (job = Idle => ~sent)
    /\ \A i \in 1..Len(todo) : todo[i].w \in PlainWrites /\ todo[i].kind # "read"

\* A lease that was not renewed in time says nothing of the wheels, until the
\* chassis has let it go.
Undisturbed ==
    /\ outages \in Nat /\ trips \in Nat
    /\ Healthy /\ ~posed => QuietBoard /\ QuietWork /\ (~unserved => Fed /\ JobPhase)
-----------------------------------------------------------------------------
(* What the transactions set.                                              *)

LEMMA AppliedTo ==
    ASSUME NEW f, NEW w, NEW r \in Registers
    PROVE  Applied(f, w)[r] = IF Sets(w, r) THEN Effect(w, r) ELSE f[r]
BY DEF Applied, Sets, Effect

LEMMA CoastSets ==
    ASSUME NEW m \in Motors, NEW k \in Motors
    PROVE  /\ Sets(CoastWrite(m), <<"mode", k>>) <=> k = m
           /\ Sets(CoastWrite(m), <<"duty", k>>) <=> k = m
           /\ Sets(CoastWrite(m), <<"rpm", k>>) <=> k = m
           /\ ~Sets(CoastWrite(m), <<"dir", k>>)
           /\ Effect(CoastWrite(m), <<"mode", m>>) = "COAST"
           /\ Effect(CoastWrite(m), <<"duty", m>>) = 0
           /\ Effect(CoastWrite(m), <<"rpm", m>>) = 0
<1> DEFINE a == << <<"mode", m>>, "COAST" >>
           b == << <<"duty", m>>, 0 >>
           w == CoastWrite(m)
<1>1. DOMAIN w = {<<"mode", m>>, <<"duty", m>>} /\ w = Put({a, b})
  BY DEF CoastWrite, Put
<1>2. w[<<"mode", m>>] = "COAST" /\ w[<<"duty", m>>] = 0
  <2>1. \A p, q \in {a, b} : q[1] = p[1] => q[2] = p[2]
    OBVIOUS
  <2>2. Put({a, b})[a[1]] = a[2] /\ Put({a, b})[b[1]] = b[2]
    BY <2>1, PutValue
  <2> QED BY <1>1, <2>2
<1> HIDE DEF w
<1>4. Stops(w, k) <=> k = m
  BY <1>1, <1>2 DEF Stops
<1>5. Stops(w, m)
  BY <1>1, <1>2 DEF Stops
<1> QED BY <1>1, <1>2, <1>4, <1>5 DEF Sets, Effect, Clears, w

LEMMA SpeedSets ==
    ASSUME NEW m \in Motors, NEW k \in Motors, NEW v
    PROVE  /\ Sets(SpeedWrite(m, v), <<"mode", k>>) <=> k = m
           /\ Sets(SpeedWrite(m, v), <<"duty", k>>) <=> k = m
           /\ Sets(SpeedWrite(m, v), <<"dir", k>>) <=> k = m
           /\ ~Sets(SpeedWrite(m, v), <<"rpm", k>>)
           /\ Effect(SpeedWrite(m, v), <<"mode", m>>) = "SPEED"
           /\ Effect(SpeedWrite(m, v), <<"duty", m>>) = 0
           /\ Effect(SpeedWrite(m, v), <<"dir", m>>) = DirOf(v)
<1> DEFINE d == DirOf(v)
           a == << <<"mode", m>>, "SPEED" >>
           b == << <<"duty", m>>, 0 >>
           c == << <<"dir", m>>, d >>
           w == SpeedWrite(m, v)
<1> HIDE DEF d
<1>1. DOMAIN w = {<<"mode", m>>, <<"duty", m>>, <<"dir", m>>} /\ w = Put({a, b, c})
  BY DEF SpeedWrite, ModeWrite, Put, d
<1>2. w[<<"mode", m>>] = "SPEED" /\ w[<<"duty", m>>] = 0 /\ w[<<"dir", m>>] = d
  <2>1. \A p, q \in {a, b, c} : q[1] = p[1] => q[2] = p[2]
    OBVIOUS
  <2>2. /\ Put({a, b, c})[a[1]] = a[2] /\ Put({a, b, c})[b[1]] = b[2]
        /\ Put({a, b, c})[c[1]] = c[2]
    BY <2>1, PutValue
  <2> QED BY <1>1, <2>2
<1> HIDE DEF w
<1>4. \A n \in Motors : ~Stops(w, n)
  BY <1>1, <1>2 DEF Stops
<1>5. \A r : ~Clears(w, r) \/ r[2] \notin Motors
  BY <1>4 DEF Clears
<1>6. \A x \in {"mode", "duty", "dir", "rpm"} : ~Clears(w, <<x, k>>) /\ ~Clears(w, <<x, m>>)
  BY <1>4 DEF Clears
<1> QED BY <1>1, <1>2, <1>6 DEF Sets, Effect, w, d

LEMMA RpmSets ==
    ASSUME NEW m \in Motors, NEW k \in Motors, NEW v
    PROVE  /\ ~Sets(RpmWrite(m, v), <<"mode", k>>) /\ ~Sets(RpmWrite(m, v), <<"duty", k>>)
           /\ ~Sets(RpmWrite(m, v), <<"dir", k>>)
           /\ Sets(RpmWrite(m, v), <<"rpm", k>>) <=> k = m
           /\ Effect(RpmWrite(m, v), <<"rpm", m>>) = Abs(v)
<1> DEFINE n == Abs(v)
           a == << <<"rpm", m>>, n >>
           w == RpmWrite(m, v)
<1> HIDE DEF n
<1>1. DOMAIN w = {<<"rpm", m>>} /\ w = Put({a})
  BY DEF RpmWrite, Put, n
<1>2. w[<<"rpm", m>>] = n
  <2>1. Put({a})[a[1]] = a[2]
    BY PutValue
  <2> QED BY <1>1, <2>1
<1> HIDE DEF w
<1>3. \A x \in {"mode", "duty", "dir", "rpm"} : ~Clears(w, <<x, k>>) /\ ~Clears(w, <<x, m>>)
  BY <1>1 DEF Clears, Stops
<1> QED BY <1>1, <1>2, <1>3 DEF Sets, Effect, w, n

LEMMA PairSets ==
    ASSUME NEW k \in Motors, NEW g
    PROVE  /\ ~Sets(PairWrite(g), <<"mode", k>>) /\ ~Sets(PairWrite(g), <<"duty", k>>)
           /\ ~Sets(PairWrite(g), <<"dir", k>>)
           /\ Sets(PairWrite(g), <<"rpm", k>>)
           /\ Effect(PairWrite(g), <<"rpm", k>>) = Abs(g[k])
<1> DEFINE S == {<< <<"rpm", m>>, Abs(g[m]) >> : m \in Motors}
           a == << <<"rpm", k>>, Abs(g[k]) >>
           w == PairWrite(g)
<1>1. w = Put(S) /\ \A r \in DOMAIN Put(S) : \E p \in S : r = p[1]
  BY DEF PairWrite, Put
<1>2. <<"rpm", k>> \in DOMAIN w /\ w[<<"rpm", k>>] = Abs(g[k])
  <2>1. a \in S /\ \A q \in S : q[1] = a[1] => q[2] = a[2]
    OBVIOUS
  <2>2. a[1] \in DOMAIN Put(S) /\ Put(S)[a[1]] = a[2]
    <3> HIDE DEF S, a
    <3> QED BY <2>1, PutValue
  <2> QED BY <1>1, <2>2
<1>3. \A r \in DOMAIN w : r[1] = "rpm"
  BY <1>1
<1> HIDE DEF w
<1>4. \A x \in {"mode", "duty", "dir", "rpm"} : ~Clears(w, <<x, k>>)
  BY <1>3 DEF Clears, Stops
<1>5. \A x \in {"mode", "duty", "dir"} : <<x, k>> \notin DOMAIN w
  BY <1>3
<1> QED BY <1>2, <1>4, <1>5 DEF Sets, Effect, w

\* What a read back of each has to find.
LEMMA CoastMatches ==
    ASSUME NEW m \in Motors, NEW f, f[<<"mode", m>>] = "COAST", f[<<"duty", m>>] = 0
    PROVE  Matches(f, CoastWrite(m))
<1> DEFINE a == << <<"mode", m>>, "COAST" >>
           b == << <<"duty", m>>, 0 >>
           S == {a, b}
<1>1. /\ a[1] = <<"mode", m>> /\ a[2] = "COAST" /\ b[1] = <<"duty", m>> /\ b[2] = 0
      /\ a[1] # b[1]
  OBVIOUS
<1>2. CoastWrite(m) = Put(S)
  BY DEF CoastWrite
<1> HIDE DEF a, b
<1>3. \A p, q \in S : q[1] = p[1] => q[2] = p[2]
  BY <1>1
<1>4. \A p \in S : Put(S)[p[1]] = p[2]
  BY <1>3, PutValue
<1>5. \A r \in DOMAIN Put(S) : r = a[1] \/ r = b[1]
  BY DEF Put
<1> QED BY <1>1, <1>2, <1>4, <1>5 DEF Matches

LEMMA RpmMatches ==
    ASSUME NEW m \in Motors, NEW v \in {-1, 1}, NEW f, f[<<"rpm", m>>] = 1
    PROVE  Matches(f, RpmWrite(m, v))
<1> DEFINE a == << <<"rpm", m>>, Abs(v) >>
           S == {a}
<1>1. a[1] = <<"rpm", m>> /\ a[2] = 1
  BY DEF Abs
<1> HIDE DEF a
<1>2. a[1] \in DOMAIN Put(S) /\ Put(S)[a[1]] = a[2]
  BY PutValue
<1>3. \A r \in DOMAIN Put(S) : r = a[1]
  BY DEF Put
<1>4. RpmWrite(m, v) = Put(S)
  BY DEF RpmWrite, a
<1> QED BY <1>1, <1>2, <1>3, <1>4 DEF Matches

LEMMA SpeedMatches ==
    ASSUME NEW m \in Motors, NEW v, NEW f
    PROVE  Matches(f, SpeedWrite(m, v))
               <=> /\ f[<<"mode", m>>] = "SPEED" /\ f[<<"duty", m>>] = 0
                   /\ f[<<"dir", m>>] = DirOf(v)
<1> DEFINE d == DirOf(v)
           a == << <<"mode", m>>, "SPEED" >>
           b == << <<"duty", m>>, 0 >>
           c == << <<"dir", m>>, d >>
           S == {a, b, c}
<1>1. /\ \A p \in S : p[1] \in Registers /\ p[2] \in Allowed(p[1])
      /\ \A p, q \in S : q[1] = p[1] => q[2] = p[2]
  BY DEF Registers, Allowed, Modes, Dirs, DirOf
<1>2. a \in S /\ b \in S /\ c \in S /\ \A p \in S : p \in {a, b, c}
  OBVIOUS
<1>3. /\ a[1] = <<"mode", m>> /\ b[1] = <<"duty", m>> /\ c[1] = <<"dir", m>>
      /\ a[2] = "SPEED" /\ b[2] = 0 /\ c[2] = d
  OBVIOUS
<1>4. SpeedWrite(m, v) = Put(S)
  BY DEF SpeedWrite, ModeWrite
<1> HIDE DEF S, a, b, c, d
<1>5. \A p \in S : p[1] \in DOMAIN Put(S) /\ Put(S)[p[1]] = p[2]
  BY <1>1, PutValue
<1>6. \A r \in DOMAIN Put(S) : \E p \in S : r = p[1]
  BY DEF Put
<1>7. Matches(f, Put(S)) <=> \A p \in S : f[p[1]] = p[2]
  BY <1>5, <1>6 DEF Matches
<1> QED BY <1>2, <1>3, <1>4, <1>7 DEF d

\* A duty comes with a mode, and is 0.
LEMMA PlainSets ==
    ASSUME NEW w \in PlainWrites, NEW k \in Motors
    PROVE  /\ Sets(w, <<"duty", k>>) <=> Sets(w, <<"mode", k>>)
           /\ Sets(w, <<"mode", k>>) => /\ Effect(w, <<"mode", k>>) \in {"COAST", "SPEED"}
                                        /\ Effect(w, <<"duty", k>>) = 0
<1>1. CASE \E m \in Motors : w = CoastWrite(m)
  <2> PICK m \in Motors : w = CoastWrite(m)
    BY <1>1
  <2> QED BY CoastSets
<1>2. CASE \E m \in Motors, v \in {-1, 0, 1} : w = SpeedWrite(m, v)
  <2> PICK m \in Motors, v \in {-1, 0, 1} : w = SpeedWrite(m, v)
    BY <1>2
  <2>1. CASE k = m
    BY <2>1, SpeedSets
  <2>2. CASE k # m
    BY <2>2, SpeedSets
  <2> QED BY <2>1, <2>2
<1>3. CASE \E m \in Motors, v \in {-1, 1} : w = RpmWrite(m, v)
  <2> PICK m \in Motors, v \in {-1, 1} : w = RpmWrite(m, v)
    BY <1>3
  <2> QED BY RpmSets
<1>4. CASE \E g \in Goals \cup {NoGoal} : w = PairWrite(g)
  <2> PICK g \in Goals \cup {NoGoal} : w = PairWrite(g)
    BY <1>4
  <2> QED BY PairSets
<1> QED BY <1>1, <1>2, <1>3, <1>4 DEF PlainWrites
-----------------------------------------------------------------------------
(* What the queue leaves: how it goes on as the queue grows, is applied,   *)
(* and as the board does what it does by itself.                           *)

LEMMA QueueApplied ==
    ASSUME BoardTypes, Apply
    PROVE  /\ Len(queue) \in Nat \ {0} /\ Len(queue') = Len(queue) - 1
           /\ \A i \in 1..Len(queue') : queue'[i] = queue[i + 1]
           /\ \A r \in Registers :
                  regs'[r] = IF Sets(queue[1], r) THEN Effect(queue[1], r) ELSE regs[r]
           /\ age' = 0 /\ age' <= Limit
<1>1. /\ Len(queue) \in Nat \ {0} /\ Len(queue') = Len(queue) - 1
      /\ \A i \in 1..Len(queue') : queue'[i] = queue[i + 1]
      /\ Head(queue) = queue[1]
  BY DEF BoardTypes, Apply
<1>2. regs' = Applied(regs, queue[1]) /\ age' = 0 /\ age' <= Limit
  BY <1>1, LinkConstants DEF Apply
<1> QED BY <1>1, <1>2, AppliedTo

LEMMA LeavesApplied ==
    ASSUME BoardTypes, Apply, NEW r \in Registers, NEW v,
           NEW n \in 1..Len(queue), Leaves(n, r, v)
    PROVE  Leaves(n - 1, r, v)'
<1>1. /\ Len(queue) \in Nat \ {0} /\ Len(queue') = Len(queue) - 1 /\ age' <= Limit
      /\ \A i \in 1..Len(queue') : queue'[i] = queue[i + 1]
      /\ regs'[r] = IF Sets(queue[1], r) THEN Effect(queue[1], r) ELSE regs[r]
  BY QueueApplied
<1>2. ASSUME NEW i \in 1..n, Sets(queue[i], r), Effect(queue[i], r) = v,
             \A j \in (i + 1)..n : ~Sets(queue[j], r)
      PROVE  Leaves(n - 1, r, v)'
  <2>1. ASSUME NEW j \in i..(n - 1), j >= 1 PROVE ~Sets(queue'[j], r)
    <3>1. j \in 1..Len(queue') /\ j + 1 \in (i + 1)..n
      BY <1>1, <2>1
    <3> QED BY <1>1, <1>2, <3>1
  <2>2. CASE i = 1
    BY <1>1, <1>2, <2>1, <2>2 DEF Leaves
  <2>3. CASE i > 1
    <3>1. i - 1 \in 1..(n - 1) /\ i - 1 \in 1..Len(queue') /\ queue'[i - 1] = queue[i]
      BY <1>1, <2>3
    <3>2. \A j \in ((i - 1) + 1)..(n - 1) : ~Sets(queue'[j], r)
      BY <2>1, <2>3
    <3> QED BY <1>2, <3>1, <3>2 DEF Leaves
  <2> QED BY <2>2, <2>3
<1>3. CASE regs[r] = v /\ \A j \in 1..n : ~Sets(queue[j], r)
  <2>1. ASSUME NEW j \in 1..(n - 1) PROVE ~Sets(queue'[j], r)
    <3>1. j \in 1..Len(queue') /\ j + 1 \in 1..n
      BY <1>1
    <3> QED BY <1>1, <1>3, <3>1
  <2>2. regs'[r] = v
    BY <1>1, <1>3
  <2> QED BY <1>1, <2>1, <2>2 DEF Leaves
<1> QED BY <1>2, <1>3 DEF Leaves

LEMMA HeadingApplied ==
    ASSUME BoardTypes, Apply, NEW m \in Motors, NEW d,
           NEW n \in 1..Len(queue), Heading(n, m, d)
    PROVE  Heading(n - 1, m, d)'
<1> DEFINE r == <<"dir", m>>
           s == <<"rpm", m>>
<1>1. /\ Len(queue) \in Nat \ {0} /\ Len(queue') = Len(queue) - 1 /\ age' <= Limit
      /\ \A i \in 1..Len(queue') : queue'[i] = queue[i + 1]
      /\ regs'[r] = IF Sets(queue[1], r) THEN Effect(queue[1], r) ELSE regs[r]
      /\ regs'[s] = IF Sets(queue[1], s) THEN Effect(queue[1], s) ELSE regs[s]
  <2>1. r \in Registers /\ s \in Registers
    BY DEF Registers
  <2> HIDE DEF r, s
  <2> QED BY <2>1, QueueApplied
<1>2. ASSUME NEW i \in 1..n, Sets(queue[i], r), Effect(queue[i], r) = d, Leaves(i, s, 1),
             \A j \in (i + 1)..n : KeepsHeading(queue[j], m)
      PROVE  Heading(n - 1, m, d)'
  <2>1. ASSUME NEW j \in i..(n - 1), j >= 1 PROVE KeepsHeading(queue'[j], m)
    <3>1. j \in 1..Len(queue') /\ j + 1 \in (i + 1)..n
      BY <1>1, <2>1
    <3> QED BY <1>1, <1>2, <3>1
  <2>2. Leaves(i - 1, s, 1)'
    <3>1. i \in 1..Len(queue) /\ s \in Registers
      BY <1>1 DEF Registers
    <3> HIDE DEF s
    <3> QED BY <1>2, <3>1, LeavesApplied
  <2>3. CASE i = 1
    <3>1. regs'[s] = 1
      BY <2>2, <2>3 DEF Leaves
    <3>2. \A j \in 1..(n - 1) : KeepsHeading(queue'[j], m)
      BY <2>1, <2>3
    <3> QED BY <1>1, <1>2, <2>3, <3>1, <3>2 DEF Heading
  <2>4. CASE i > 1
    <3>1. i - 1 \in 1..(n - 1) /\ i - 1 \in 1..Len(queue') /\ queue'[i - 1] = queue[i]
      BY <1>1, <2>4
    <3>2. \A j \in ((i - 1) + 1)..(n - 1) : KeepsHeading(queue'[j], m)
      BY <2>1, <2>4
    <3> QED BY <1>2, <2>2, <3>1, <3>2 DEF Heading
  <2> QED BY <2>3, <2>4
<1>3. CASE regs[r] = d /\ regs[s] = 1 /\ \A j \in 1..n : KeepsHeading(queue[j], m)
  <2>1. ASSUME NEW j \in 1..(n - 1) PROVE KeepsHeading(queue'[j], m)
    <3>1. j \in 1..Len(queue') /\ j + 1 \in 1..n
      BY <1>1
    <3> QED BY <1>1, <1>3, <3>1
  <2>2. KeepsHeading(queue[1], m)
    BY <1>3
  <2>3. regs'[r] = d /\ regs'[s] = 1
    BY <1>1, <1>3, <2>2 DEF KeepsHeading
  <2> QED BY <1>1, <2>1, <2>3 DEF Heading
<1> QED BY <1>2, <1>3 DEF Heading

\* The board writes no register whose value the chassis relies on.
LEMMA LeavesKept ==
    ASSUME NEW n, NEW r, NEW v, Leaves(n, r, v), queue' = queue,
           age <= Limit => regs'[r] = regs[r] /\ age' <= Limit
    PROVE  Leaves(n, r, v)'
BY DEF Leaves

LEMMA HeadingKept ==
    ASSUME NEW n, NEW m, NEW d, Heading(n, m, d), queue' = queue,
           age <= Limit => /\ regs'[<<"rpm", m>>] = regs[<<"rpm", m>>] /\ age' <= Limit
                           /\ regs[<<"rpm", m>>] = 1 => regs'[<<"dir", m>>] = regs[<<"dir", m>>]
    PROVE  Heading(n, m, d)'
<1>1. \A i : Leaves(i, <<"rpm", m>>, 1) => Leaves(i, <<"rpm", m>>, 1)'
  BY LeavesKept
<1> QED BY <1>1 DEF Heading

\* A transaction joins the queue.
Joins(w) == /\ queue \in Seq(Writes) /\ w \in Writes /\ queue' = Append(queue, w)
            /\ regs' = regs /\ age' = age

LEMMA QueueJoined ==
    ASSUME NEW w, Joins(w)
    PROVE  /\ Len(queue) \in Nat /\ Len(queue') = Len(queue) + 1
           /\ \A i \in 1..Len(queue) : queue'[i] = queue[i]
           /\ queue'[Len(queue) + 1] = w
BY DEF Joins

LEMMA LeavesLonger ==
    ASSUME NEW w, Joins(w), NEW n \in 0..Len(queue), NEW r, NEW v, Leaves(n, r, v)
    PROVE  Leaves(n, r, v)'
<1>1. \A i \in 1..n : queue'[i] = queue[i]
  BY QueueJoined
<1>2. \A i \in 1..n : \A j \in (i + 1)..n : queue'[j] = queue[j]
  BY <1>1
<1> QED BY <1>1, <1>2 DEF Leaves, Joins

LEMMA LeavesNext ==
    ASSUME NEW w, Joins(w), NEW n, n = Len(queue), NEW r, NEW v,
           \/ Sets(w, r) /\ Effect(w, r) = v
           \/ ~Sets(w, r) /\ Leaves(n, r, v)
    PROVE  Leaves(n + 1, r, v)'
<1>1. n \in Nat /\ queue'[n + 1] = w /\ \A i \in 1..n : queue'[i] = queue[i]
  BY QueueJoined
<1>2. CASE Sets(w, r) /\ Effect(w, r) = v
  <2>1. n + 1 \in 1..(n + 1) /\ \A j \in ((n + 1) + 1)..(n + 1) : FALSE
    BY <1>1
  <2> QED BY <1>1, <1>2, <2>1 DEF Leaves
<1>3. CASE ~Sets(w, r) /\ Leaves(n, r, v)
  <2>1. \A j \in 1..(n + 1) : j \in 1..n \/ queue'[j] = w
    BY <1>1
  <2>2. ASSUME NEW i \in 1..n, Sets(queue[i], r), Effect(queue[i], r) = v,
               \A j \in (i + 1)..n : ~Sets(queue[j], r)
        PROVE  Leaves(n + 1, r, v)'
    <3>1. \A j \in (i + 1)..(n + 1) : ~Sets(queue'[j], r)
      BY <1>1, <1>3, <2>1, <2>2
    <3> QED BY <1>1, <2>2, <3>1 DEF Leaves
  <2>3. CASE regs[r] = v /\ age <= Limit /\ \A j \in 1..n : ~Sets(queue[j], r)
    BY <1>1, <1>3, <2>1, <2>3 DEF Leaves, Joins
  <2> QED BY <1>3, <2>2, <2>3 DEF Leaves
<1> QED BY <1>2, <1>3

LEMMA HeadingLonger ==
    ASSUME NEW w, Joins(w), NEW n \in 0..Len(queue), NEW m, NEW d, Heading(n, m, d)
    PROVE  Heading(n, m, d)'
<1>1. \A i \in 1..n : queue'[i] = queue[i]
  BY QueueJoined
<1>2. \A i \in 1..n : \A j \in (i + 1)..n : queue'[j] = queue[j]
  BY <1>1
<1>3. \A i \in 1..n : Leaves(i, <<"rpm", m>>, 1) => Leaves(i, <<"rpm", m>>, 1)'
  <2>1. \A i \in 1..n : i \in 0..Len(queue)
    BY QueueJoined
  <2> QED BY <2>1, LeavesLonger
<1> QED BY <1>1, <1>2, <1>3 DEF Heading, Joins

LEMMA HeadingNext ==
    ASSUME NEW w, Joins(w), NEW n, n = Len(queue), NEW m, NEW d,
           \/ /\ Sets(w, <<"dir", m>>) /\ Effect(w, <<"dir", m>>) = d
              /\ ~Sets(w, <<"rpm", m>>) /\ Leaves(n, <<"rpm", m>>, 1)
           \/ KeepsHeading(w, m) /\ Heading(n, m, d)
    PROVE  Heading(n + 1, m, d)'
<1>1. n \in Nat /\ queue'[n + 1] = w /\ \A i \in 1..n : queue'[i] = queue[i]
  BY QueueJoined
<1>2. CASE /\ Sets(w, <<"dir", m>>) /\ Effect(w, <<"dir", m>>) = d
           /\ ~Sets(w, <<"rpm", m>>) /\ Leaves(n, <<"rpm", m>>, 1)
  <2>1. n + 1 \in 1..(n + 1) /\ \A j \in ((n + 1) + 1)..(n + 1) : FALSE
    BY <1>1
  <2>2. Leaves(n + 1, <<"rpm", m>>, 1)'
    BY <1>2, LeavesNext
  <2> QED BY <1>1, <1>2, <2>1, <2>2 DEF Heading
<1>3. CASE KeepsHeading(w, m) /\ Heading(n, m, d)
  <2>1. \A j \in 1..(n + 1) : j \in 1..n \/ queue'[j] = w
    BY <1>1
  <2>2. ASSUME NEW i \in 1..n, Sets(queue[i], <<"dir", m>>), Effect(queue[i], <<"dir", m>>) = d,
               Leaves(i, <<"rpm", m>>, 1), \A j \in (i + 1)..n : KeepsHeading(queue[j], m)
        PROVE  Heading(n + 1, m, d)'
    <3>1. \A j \in (i + 1)..(n + 1) : KeepsHeading(queue'[j], m)
      BY <1>1, <1>3, <2>1, <2>2
    <3>2. Leaves(i, <<"rpm", m>>, 1)'
      BY <1>1, <2>2, LeavesLonger
    <3> QED BY <1>1, <2>2, <3>1, <3>2 DEF Heading
  <2>3. CASE /\ regs[<<"dir", m>>] = d /\ regs[<<"rpm", m>>] = 1 /\ age <= Limit
             /\ \A j \in 1..n : KeepsHeading(queue[j], m)
    BY <1>1, <1>3, <2>1, <2>3 DEF Heading, Joins
  <2> QED BY <1>3, <2>2, <2>3 DEF Heading
<1> QED BY <1>2, <1>3
-----------------------------------------------------------------------------
(* What a phase of a job relies on, and that the board keeps it.           *)

LEMMA RestartsKept ==
    ASSUME NEW k, NEW m,
           \A n : Runs(n, m) => Runs(n, m)',
           \A n : \A v \in {0, 1} : Paced(n, m, v) => Paced(n, m, v)',
           \A n : \A d \in Dirs : Heading(n, m, d) => Heading(n, m, d)',
           Restarts(k, m)
    PROVE  Restarts(k, m)'
<1>1. Runs(k - 1, m)' /\ Runs(k, m)' /\ Paced(k, m, 1)'
  BY DEF Restarts
<1>2. CASE Paced(k - 1, m, 0)
  <2>1. Paced(k - 1, m, 0)'
    BY <1>2
  <2> QED BY <1>1, <2>1 DEF Restarts
<1>3. ASSUME Paced(k - 1, m, 1),
             NEW d \in Dirs, NEW e \in Dirs, d # e, Heading(k - 1, m, d), Heading(k, m, e)
      PROVE  Restarts(k, m)'
  <2>1. Paced(k - 1, m, 1)' /\ Heading(k - 1, m, d)' /\ Heading(k, m, e)'
    BY <1>3
  <2> QED BY <1>1, <1>3, <2>1 DEF Restarts
<1> QED BY <1>2, <1>3 DEF Restarts

\* The first entry of the queue restarts the loop as the board applies it.
LEMMA RestartsNow ==
    ASSUME BoardTypes, Apply, NEW m \in Motors, Restarts(1, m)
    PROVE  ~warm'[m]
<1>1. 1 \in 1..Len(queue)
  BY QueueApplied
<1>2. \A r \in Registers : \A v : Leaves(1, r, v) => Leaves(0, r, v)'
  BY <1>1, LeavesApplied
<1>3. \A d : Heading(1, m, d) => Heading(0, m, d)'
  BY <1>1, HeadingApplied
<1>4. <<"mode", m>> \in Registers /\ <<"rpm", m>> \in Registers
  BY DEF Registers
<1>5. /\ \A r, v : Leaves(0, r, v) => regs[r] = v
      /\ \A r, v : Leaves(0, r, v)' => regs'[r] = v
      /\ \A d : Heading(0, m, d) => regs[<<"dir", m>>] = d
      /\ \A d : Heading(0, m, d)' => regs'[<<"dir", m>>] = d
  BY DEF Leaves, Heading
<1>6. Runs(0, m) /\ Runs(1, m) /\ Paced(1, m, 1)
  BY DEF Restarts
<1>7. Abs(0) = 0 /\ Abs(1) = 1
  BY DEF Abs
<1>8. /\ regs[<<"mode", m>>] = "SPEED" /\ regs'[<<"mode", m>>] = "SPEED"
      /\ regs'[<<"rpm", m>>] = 1
  BY <1>2, <1>4, <1>5, <1>6, <1>7 DEF Runs, Paced
<1>9. \/ regs[<<"rpm", m>>] = 0
      \/ regs[<<"rpm", m>>] = 1 /\ regs[<<"dir", m>>] # regs'[<<"dir", m>>]
  <2>1. CASE Paced(0, m, 0)
    BY <1>5, <1>7, <2>1 DEF Paced
  <2>2. ASSUME Paced(0, m, 1),
               NEW d \in Dirs, NEW e \in Dirs, d # e, Heading(0, m, d), Heading(1, m, e)
        PROVE  regs[<<"rpm", m>>] = 1 /\ regs[<<"dir", m>>] # regs'[<<"dir", m>>]
    BY <1>3, <1>5, <1>7, <2>2 DEF Paced
  <2> QED BY <2>1, <2>2 DEF Restarts
<1>10. Key(regs, m) # Key(regs', m)
  BY <1>8, <1>9 DEF Key
<1> QED BY <1>10 DEF Apply

\* What a job relies on, of the board.
Relies ==
    /\ \A m \in Motors, v \in {-1, 0, 1} :
           /\ Paced(Len(queue), m, v) => Paced(Len(queue), m, v)'
           /\ AsCommanded(m, v) => AsCommanded(m, v)'
    /\ want' = want /\ \A m \in Motors : Raised(m) => Raised(m)'
    /\ sent => \A m \in Motors, v \in {-1, 1} : Settling(m, v) => Settling(m, v)'
    /\ \A m \in Motors : Coasting(m) => Coasting(m)'

LEMMA ReliesApplied ==
    ASSUME BoardTypes, want' = want, Apply
    PROVE  Relies
<1> PICK n : n = Len(queue)
  OBVIOUS
<1>1. /\ n \in Nat \ {0} /\ Len(queue') = n - 1 /\ n \in 1..n
      /\ \A i \in 1..Len(queue') : queue'[i] = queue[i + 1]
      /\ \A r \in Registers :
             regs'[r] = IF Sets(queue[1], r) THEN Effect(queue[1], r) ELSE regs[r]
  BY QueueApplied
<1>2. ASSUME NEW m \in Motors, NEW k \in 1..n
      PROVE  /\ Runs(k, m) => Runs(k - 1, m)'
             /\ \A v : Paced(k, m, v) => Paced(k - 1, m, v)'
             /\ \A d : Heading(k, m, d) => Heading(k - 1, m, d)'
  <2>1. <<"mode", m>> \in Registers /\ <<"rpm", m>> \in Registers
    BY DEF Registers
  <2>2. \A r \in Registers : \A v : Leaves(k, r, v) => Leaves(k - 1, r, v)'
    BY LeavesApplied
  <2> QED BY <2>1, <2>2, HeadingApplied DEF Runs, Paced
<1>3. ASSUME NEW m \in Motors, Cools(m) PROVE Cools(m)'
  <2>1. CASE ~warm[m]
    BY <2>1 DEF Apply, Cools
  <2>2. CASE Restarts(1, m)
    BY <2>2, RestartsNow DEF Cools
  <2>3. ASSUME NEW k \in 1..n, k # 1, Restarts(k, m) PROVE Cools(m)'
    <3>1. k \in 1..n /\ k - 1 \in 1..n /\ k - 1 \in 1..Len(queue')
      BY <1>1, <2>3
    <3>2. Runs(k - 1 - 1, m)' /\ Runs(k - 1, m)' /\ Paced(k - 1, m, 1)'
      BY <1>2, <2>3, <3>1 DEF Restarts
    <3>3. CASE Paced(k - 1, m, 0)
      <4>1. Paced(k - 1 - 1, m, 0)'
        BY <1>2, <3>1, <3>3
      <4>2. Restarts(k - 1, m)'
        BY <3>2, <4>1 DEF Restarts
      <4> QED BY <3>1, <4>2 DEF Cools
    <3>4. ASSUME Paced(k - 1, m, 1), NEW d \in Dirs, NEW e \in Dirs, d # e,
                 Heading(k - 1, m, d), Heading(k, m, e)
          PROVE  Cools(m)'
      <4>1. Paced(k - 1 - 1, m, 1)' /\ Heading(k - 1 - 1, m, d)' /\ Heading(k - 1, m, e)'
        BY <1>2, <3>1, <3>4
      <4>2. Restarts(k - 1, m)'
        BY <3>2, <3>4, <4>1 DEF Restarts
      <4> QED BY <3>1, <4>2 DEF Cools
    <3> QED BY <2>3, <3>3, <3>4 DEF Restarts
  <2> QED BY <1>3, <2>1, <2>2, <2>3 DEF Cools
<1>4. ASSUME NEW m \in Motors, NEW v \in {-1, 0, 1}, Paced(Len(queue), m, v)
      PROVE  Paced(Len(queue), m, v)'
  BY <1>1, <1>2, <1>4
<1>5. ASSUME NEW m \in Motors, NEW v \in {-1, 0, 1}, AsCommanded(m, v)
      PROVE  AsCommanded(m, v)'
  <2>1. Runs(n, m) /\ Paced(n, m, v) /\ (v # 0 => Heading(n, m, DirOf(v)))
    BY <1>5 DEF AsCommanded
  <2>2. Runs(n - 1, m)' /\ Paced(n - 1, m, v)' /\ (v # 0 => Heading(n - 1, m, DirOf(v))')
    BY <1>1, <1>2, <2>1
  <2> QED BY <1>1, <2>2 DEF AsCommanded
<1>6. ASSUME NEW m \in Motors, Raised(m)
      PROVE  Raised(m)'
  <2>1. /\ Runs(n, m) /\ Paced(n, m, 1)
        /\ IF want[m] = 0 THEN Cools(m) ELSE Heading(n, m, DirOf(want[m]))
    BY <1>6 DEF Raised
  <2>2. /\ Runs(n - 1, m)' /\ Paced(n - 1, m, 1)'
        /\ IF want[m] = 0 THEN Cools(m)' ELSE Heading(n - 1, m, DirOf(want[m]))'
    BY <1>1, <1>2, <1>3, <2>1
  <2> QED BY <1>1, <2>2, want' = want DEF Raised
<1>7. ASSUME NEW m \in Motors, NEW v \in {-1, 1}, Settling(m, v)
      PROVE  Settling(m, v)'
  <2>1. queue # <<>> /\ queue[n] = SpeedWrite(m, v) /\ Cools(m)'
    BY <1>3, <1>7 DEF Apply, Settling
  <2>2. CASE n = 1
    <3>1. queue' = <<>> /\ ~warm'[m]
      <4>1. queue' = <<>>
        BY <1>1, <2>2 DEF Apply, BoardTypes
      <4> QED BY <2>1, <4>1 DEF Cools
    <3>2. <<"mode", m>> \in Registers /\ <<"duty", m>> \in Registers /\ <<"dir", m>> \in Registers
      BY DEF Registers
    <3>3. Matches(regs', SpeedWrite(m, v))
      <4>1. /\ regs'[<<"mode", m>>] = "SPEED" /\ regs'[<<"duty", m>>] = 0
            /\ regs'[<<"dir", m>>] = DirOf(v)
        <5>1. queue[1] = SpeedWrite(m, v)
          BY <2>1, <2>2
        <5> DEFINE w == SpeedWrite(m, v)
        <5>3. /\ Sets(w, <<"mode", m>>) /\ Sets(w, <<"duty", m>>) /\ Sets(w, <<"dir", m>>)
              /\ Effect(w, <<"mode", m>>) = "SPEED" /\ Effect(w, <<"duty", m>>) = 0
              /\ Effect(w, <<"dir", m>>) = DirOf(v)
          BY SpeedSets
        <5> HIDE DEF w
        <5>2. /\ Sets(queue[1], <<"mode", m>>) /\ Sets(queue[1], <<"duty", m>>)
              /\ Sets(queue[1], <<"dir", m>>)
              /\ Effect(queue[1], <<"mode", m>>) = "SPEED"
              /\ Effect(queue[1], <<"duty", m>>) = 0
              /\ Effect(queue[1], <<"dir", m>>) = DirOf(v)
          BY <5>1, <5>3 DEF w
        <5> QED BY <1>1, <3>2, <5>2
      <4> QED BY <4>1, SpeedMatches
    <3> QED BY <3>1, <3>3 DEF Settling
  <2>3. CASE n # 1
    <3>1. n - 1 \in 1..Len(queue') /\ queue'[n - 1] = queue[n] /\ queue' # <<>>
      BY <1>1, <2>3
    <3> QED BY <1>1, <2>1, <3>1 DEF Settling
  <2> QED BY <2>2, <2>3
<1>8. \A m \in Motors : Coasting(m) => Coasting(m)'
  BY CoastingApply
<1> QED BY <1>4, <1>5, <1>6, <1>7, <1>8, want' = want DEF Relies

\* The board keeps what is in flight, and of motor m what it is commanded.
Keeps(m) ==
    /\ queue' = queue
    /\ age <= Limit =>
           /\ age' <= Limit
           /\ regs'[<<"mode", m>>] = regs[<<"mode", m>>]
           /\ regs'[<<"rpm", m>>] = regs[<<"rpm", m>>]
           /\ regs[<<"rpm", m>>] = 1 => regs'[<<"dir", m>>] = regs[<<"dir", m>>]

LEMMA PhrasesKept ==
    ASSUME NEW m, Keeps(m), NEW n
    PROVE  /\ Runs(n, m) => Runs(n, m)'
           /\ \A v : Paced(n, m, v) => Paced(n, m, v)'
           /\ \A d : Heading(n, m, d) => Heading(n, m, d)'
<1>1. Runs(n, m) => Runs(n, m)'
  BY LeavesKept DEF Keeps, Runs
<1>2. ASSUME NEW v, Paced(n, m, v) PROVE Paced(n, m, v)'
  BY <1>2, LeavesKept DEF Keeps, Paced
<1>3. ASSUME NEW d, Heading(n, m, d) PROVE Heading(n, m, d)'
  BY <1>3, HeadingKept DEF Keeps
<1> QED BY <1>1, <1>2, <1>3

LEMMA CommandedKept ==
    ASSUME NEW m, Keeps(m), NEW v, AsCommanded(m, v)
    PROVE  AsCommanded(m, v)'
<1> PICK n : n = Len(queue)
  OBVIOUS
<1>1. Runs(n, m) /\ Paced(n, m, v) /\ (v # 0 => Heading(n, m, DirOf(v)))
  BY DEF AsCommanded
<1>2. Len(queue') = n
  BY DEF Keeps
<1>3. Runs(n, m)' /\ Paced(n, m, v)' /\ (v # 0 => Heading(n, m, DirOf(v))')
  BY <1>1, PhrasesKept
<1> QED BY <1>2, <1>3 DEF AsCommanded

LEMMA CoolsKept ==
    ASSUME NEW m, Keeps(m), warm' = warm, Cools(m)
    PROVE  Cools(m)'
<1>1. /\ \A n : Runs(n, m) => Runs(n, m)'
      /\ \A n : \A v \in {0, 1} : Paced(n, m, v) => Paced(n, m, v)'
      /\ \A n : \A d \in Dirs : Heading(n, m, d) => Heading(n, m, d)'
  BY PhrasesKept
<1>2. \A k : Restarts(k, m) => Restarts(k, m)'
  BY <1>1, RestartsKept
<1> QED BY <1>2 DEF Cools, Keeps

LEMMA RaisedKept ==
    ASSUME NEW m \in Motors, Keeps(m), want' = want, warm' = warm, Raised(m)
    PROVE  Raised(m)'
<1> PICK n : n = Len(queue)
  OBVIOUS
<1>1. /\ Runs(n, m) /\ Paced(n, m, 1)
      /\ IF want[m] = 0 THEN Cools(m) ELSE Heading(n, m, DirOf(want[m]))
  BY DEF Raised
<1>2. Len(queue') = n
  BY DEF Keeps
<1>3. /\ Runs(n, m)' /\ Paced(n, m, 1)'
      /\ want[m] # 0 => Heading(n, m, DirOf(want[m]))'
  BY <1>1, PhrasesKept
<1>4. want[m] = 0 => Cools(m)'
  BY <1>1, CoolsKept
<1> QED BY <1>2, <1>3, <1>4 DEF Raised

\* A motor that settles has been written to in this period, and its loop is
\* left alone.
LEMMA ReliesKept ==
    ASSUME want' = want, warm' = warm, \A m \in Motors : Keeps(m),
           \A m \in Motors : Coasting(m) => Coasting(m)',
           \A m \in Motors, v \in {-1, 1} :
               sent /\ queue = <<>> /\ ~warm[m] /\ Matches(regs, SpeedWrite(m, v))
                   => Matches(regs', SpeedWrite(m, v))
    PROVE  Relies
<1> PICK n : n = Len(queue)
  OBVIOUS
<1>1. queue' = queue
  BY DEF Keeps, Motors
<1>2. ASSUME NEW m \in Motors, NEW v \in {-1, 0, 1}, Paced(Len(queue), m, v)
      PROVE  Paced(Len(queue), m, v)'
  <2>1. Paced(n, m, v)
    BY <1>2
  <2>2. Len(queue') = n
    BY <1>1
  <2>3. Paced(n, m, v)'
    BY <2>1, PhrasesKept
  <2> QED BY <2>2, <2>3
<1>3. ASSUME NEW m \in Motors, NEW v \in {-1, 0, 1}, AsCommanded(m, v)
      PROVE  AsCommanded(m, v)'
  BY <1>3, CommandedKept
<1>4. ASSUME NEW m \in Motors, Raised(m)
      PROVE  Raised(m)'
  BY <1>4, RaisedKept
<1>5. ASSUME sent, NEW m \in Motors, NEW v \in {-1, 1}, Settling(m, v)
      PROVE  Settling(m, v)'
  BY <1>1, <1>5, CoolsKept DEF Settling
<1> QED BY <1>2, <1>3, <1>4, <1>5 DEF Relies
\* While the job and the claims stay as they are, so does the phase.
LEMMA PhaseKept ==
    ASSUME Types, JobPhase, Relies, UNCHANGED <<lease, job, todo, sent>>
    PROVE  JobPhase'
<1>1. /\ \A m \in Motors, v \in {-1, 0, 1} :
             /\ Paced(Len(queue), m, v) => Paced(Len(queue), m, v)'
             /\ AsCommanded(m, v) => AsCommanded(m, v)'
      /\ want' = want /\ \A m \in Motors : Raised(m) => Raised(m)'
      /\ sent => \A m \in Motors, v \in {-1, 1} : Settling(m, v) => Settling(m, v)'
      /\ \A m \in Motors : Coasting(m) => Coasting(m)'
  BY DEF Relies
<1>2. /\ want \in [Motors -> {-1, 0, 1}]
      /\ job.name = "drive" => job.goal \in [Motors -> {-1, 0, 1}]
      /\ job.name \in {"COAST", "SPEED"} => job.m \in Motors
  BY LinkConstants DEF Types, ChassisTypes, WorkTypes, NoGoal
<1>3. \A m \in Motors : AsCommanded(m, want[m]) => AsCommanded(m, want[m])'
  BY <1>1, <1>2
<1>4. CASE job = Idle /\ ~sent /\ (lease => \A m \in Motors : AsCommanded(m, want[m]))
  BY <1>3, <1>4 DEF JobPhase
<1>5. CASE /\ job.name = "service" /\ lease /\ ~sent
           /\ todo = <<Refresh(PairWrite(want))>>
           /\ \A m \in Motors : AsCommanded(m, want[m])
  BY <1>1, <1>3, <1>5 DEF JobPhase
<1>6. CASE job.name = "stop" /\ ~lease
  BY <1>6 DEF JobPhase
<1>7. CASE /\ job.name = "COAST" /\ todo = <<Checked(CoastWrite(job.m))>>
           /\ sent => Coasting(job.m)
  BY <1>1, <1>2, <1>7 DEF JobPhase
<1>8. ASSUME NEW v \in {-1, 1}, job.name = "SPEED", SpeedPhase(job.m, v)
      PROVE  JobPhase'
  <2> DEFINE m == job.m
  <2>1. m \in Motors /\ v \in {-1, 1} /\ v \in {-1, 0, 1} /\ m' = m
    BY <1>2, <1>8
  <2>2. lease => \A k \in Motors \ {m} : AsCommanded(k, want[k])'
    BY <1>3, <1>8 DEF SpeedPhase
  <2>3. CASE /\ todo = <<Checked(RpmWrite(m, v)), Checked(SpeedWrite(m, v))>>
             /\ lease => IF sent THEN Raised(m) ELSE AsCommanded(m, want[m])
    <3>1. lease => IF sent THEN Raised(m)' ELSE AsCommanded(m, want[m])'
      BY <1>1, <1>3, <2>1, <2>3
    <3>2. SpeedPhase(m, v)'
      BY <2>1, <2>2, <2>3, <3>1 DEF SpeedPhase
    <3> QED BY <1>8, <2>1, <3>2 DEF JobPhase
  <2>4. CASE /\ todo = <<Checked(SpeedWrite(m, v))>>
             /\ lease => IF sent THEN AsCommanded(m, want[m]) \/ Settling(m, v) ELSE Raised(m)
    <3>1. lease => IF sent THEN AsCommanded(m, want[m])' \/ Settling(m, v)' ELSE Raised(m)'
      BY <1>1, <1>3, <2>1, <2>4
    <3>2. SpeedPhase(m, v)'
      BY <2>1, <2>2, <2>4, <3>1 DEF SpeedPhase
    <3> QED BY <1>8, <2>1, <3>2 DEF JobPhase
  <2> QED BY <1>8, <2>3, <2>4 DEF SpeedPhase
<1>9. CASE job.name = "drive" /\ DrivePhase(job.goal)
  <2> DEFINE g == job.goal
  <2>1. /\ g \in [Motors -> {-1, 0, 1}] /\ g' = g /\ 1 \in Motors /\ 2 \in Motors
        /\ g[1] \in {-1, 0, 1} /\ g[2] \in {-1, 0, 1}
    BY <1>2, <1>9 DEF Motors
  <2>2. \A m \in Motors : Paced(Len(queue), m, g[m]) => Paced(Len(queue), m, g[m])'
    BY <1>1, <2>1
  <2>3. \A m \in Motors : AsCommanded(m, g[m]) => AsCommanded(m, g[m])'
    BY <1>1, <2>1
  <2>4. DrivePhase(g)'
    <3> HIDE DEF g
    <3>1. DrivePhase(g)
      BY <1>9 DEF g
    <3>2. UNCHANGED <<lease, want, todo, sent, g>>
      BY <1>1, <2>1
    <3>3. CASE /\ todo = <<Checked(PairWrite(g))>> /\ lease
               /\ \A m \in Motors : want[m] * g[m] > 0 /\ AsCommanded(m, want[m])
      BY <1>3, <3>2, <3>3 DEF DrivePhase
    <3>4. CASE /\ todo = <<Checked(PairWrite(g)), Checked(SpeedWrite(2, g[2])),
                           Checked(SpeedWrite(1, g[1]))>>
               /\ sent => \A m \in Motors : Paced(Len(queue), m, g[m])
      BY <2>2, <3>2, <3>4 DEF DrivePhase
    <3>5. CASE /\ todo = <<Checked(SpeedWrite(2, g[2])), Checked(SpeedWrite(1, g[1]))>>
               /\ \A m \in Motors : Paced(Len(queue), m, g[m])
               /\ sent => AsCommanded(2, g[2])
      BY <2>1, <2>2, <2>3, <3>2, <3>5 DEF DrivePhase
    <3>6. CASE /\ todo = <<Checked(SpeedWrite(1, g[1]))>>
               /\ Paced(Len(queue), 1, g[1]) /\ AsCommanded(2, g[2])
               /\ sent => AsCommanded(1, g[1])
      BY <2>1, <2>2, <2>3, <3>2, <3>6 DEF DrivePhase
    <3> QED BY <3>1, <3>3, <3>4, <3>5, <3>6 DEF DrivePhase
  <2> QED BY <1>9, <2>1, <2>4 DEF JobPhase
<1> QED BY <1>4, <1>5, <1>6, <1>7, <1>8, <1>9 DEF JobPhase

(* What keeps the board quiet, whatever has become of the lease.           *)

LEMMA QuietStep ==
    ASSUME Types, QuietBoard, QuietWork,
           Apply \/ (\E m \in Looping : Loop(m)) \/ Expire \/ BusHeals \/ Tick \/ UNCHANGED vars
    PROVE  QuietBoard' /\ QuietWork'
<1>1. /\ UNCHANGED <<mask, job, todo, sent>> /\ up' = TRUE /\ BoardTypes
  BY DEF Apply, Loop, Expire, BusHeals, Tick, chassis, claims, work, vars, Types, QuietBoard
<1>2. QuietWork'
  BY <1>1 DEF QuietWork
<1>3. CASE Apply
  <2>1. /\ 1 \in 1..Len(queue) /\ Len(queue') = Len(queue) - 1 /\ Len(queue) \in Nat
        /\ \A i \in 1..Len(queue') : i + 1 \in 1..Len(queue) /\ queue'[i] = queue[i + 1]
        /\ \A r \in Registers :
               regs'[r] = IF Sets(queue[1], r) THEN Effect(queue[1], r) ELSE regs[r]
    BY <1>1, <1>3, QueueApplied
  <2>2. queue[1] \in PlainWrites /\ \A i \in 1..Len(queue') : queue'[i] \in PlainWrites
    BY <2>1 DEF QuietBoard
  <2>3. ASSUME NEW m \in Motors
        PROVE  /\ regs'[<<"mode", m>>] \in {"COAST", "SPEED"}
               /\ regs'[<<"mode", m>>] = "COAST" => regs'[<<"duty", m>>] = 0
    <3>1. <<"mode", m>> \in Registers /\ <<"duty", m>> \in Registers
      BY DEF Registers
    <3>2. /\ regs'[<<"mode", m>>] = IF Sets(queue[1], <<"mode", m>>)
                 THEN Effect(queue[1], <<"mode", m>>) ELSE regs[<<"mode", m>>]
          /\ regs'[<<"duty", m>>] = IF Sets(queue[1], <<"duty", m>>)
                 THEN Effect(queue[1], <<"duty", m>>) ELSE regs[<<"duty", m>>]
      BY <2>1, <3>1
    <3> QED BY <2>2, <3>2, PlainSets DEF QuietBoard
  <2> QED BY <1>1, <1>2, <2>2, <2>3 DEF QuietBoard
<1>4. CASE \E m \in Looping : Loop(m)
  <2>1. PICK n \in Motors : Loop(n)
    BY <1>4, LinkConstants
  <2>2. queue' = queue /\ \A m \in Motors : regs'[<<"mode", m>>] = regs[<<"mode", m>>]
    BY <1>1, <2>1, LoopIs DEF Loop
  <2>3. PICK d \in {0, 1}, x \in Dirs, r \in {0, 1} :
            regs' = [regs EXCEPT ![<<"duty", n>>] = d, ![<<"dir", n>>] = x, ![<<"rpm", n>>] = r]
    BY <2>1 DEF Loop
  <2>4. regs[<<"mode", n>>] # "COAST"
    BY <2>1 DEF Loop
  <2>5. ASSUME NEW m \in Motors, m # n PROVE regs'[<<"duty", m>>] = regs[<<"duty", m>>]
    <3>1. <<"duty", m>> \in DOMAIN regs
      BY <1>1 DEF BoardTypes, Registers
    <3> QED BY <2>3, <2>5, <3>1
  <2> QED BY <1>1, <1>2, <2>2, <2>4, <2>5 DEF QuietBoard
<1>5. CASE Expire
  <2>1. queue' = queue /\ \A m \in Motors : regs'[<<"mode", m>>] = "COAST" /\ regs'[<<"duty", m>>] = 0
    BY <1>5 DEF Expire, Coasted, Registers
  <2> QED BY <1>1, <1>2, <2>1 DEF QuietBoard
<1>6. CASE BusHeals \/ Tick \/ UNCHANGED vars
  <2>1. UNCHANGED <<regs, queue>>
    BY <1>6 DEF BusHeals, Tick, board, vars
  <2> QED BY <1>1, <1>2, <2>1 DEF QuietBoard
<1> QED BY <1>3, <1>4, <1>5, <1>6

LEMMA PlainSteps ==
    /\ \A m \in Motors : CoastWrite(m) \in PlainWrites
    /\ \A m \in Motors, v \in {-1, 1} : RpmWrite(m, v) \in PlainWrites
    /\ \A m \in Motors, v \in {-1, 0, 1} : SpeedWrite(m, v) \in PlainWrites
    /\ \A g \in Goals \cup {NoGoal} : PairWrite(g) \in PlainWrites
    /\ \A w : Checked(w).w = w /\ Checked(w).kind # "read"
    /\ \A w : Refresh(w).w = w /\ Refresh(w).kind # "read"
BY DEF PlainWrites, Checked, Refresh

LEMMA QuietStop ==
    ASSUME NEW blame, SafetyStop(blame)
    PROVE  QuietWork'
<1>1. job'.name = "stop" /\ job' # Idle /\ todo' = StopWrites
  BY DEF SafetyStop, Start, Idle
<1>2. \A i \in 1..Len(StopWrites) :
          StopWrites[i].w \in PlainWrites /\ StopWrites[i].kind # "read"
  <2> DEFINE a == Checked(CoastWrite(1))
             b == Checked(CoastWrite(2))
  <2>1. a.w \in PlainWrites /\ a.kind # "read" /\ b.w \in PlainWrites /\ b.kind # "read"
    BY PlainSteps DEF Motors
  <2> HIDE DEF a, b
  <2>2. StopWrites = <<a, b>>
    BY DEF StopWrites, a, b
  <2> QED BY <2>1, <2>2
<1> QED BY <1>1, <1>2 DEF QuietWork

LEMMA QuietCommand ==
    ASSUME ~posed', Types, QuietBoard, QuietWork, Commands \/ Tasks
    PROVE  QuietBoard' /\ QuietWork'
<1>1. job = Idle /\ UNCHANGED <<regs, queue, up>>
  BY DEF Commands, Tasks, Drive, ShellMotor, StopCommand, Arm, Disarm, Service, Feedback,
         HandleFault, RunArmed, Begins, board
<1>2. mask' = {} => QuietBoard'
  BY <1>1 DEF QuietBoard
<1>3. mask = {}
  BY DEF QuietBoard
<1>4. ASSUME NEW g \in Goals, Drive(g) PROVE mask' = {} /\ QuietWork'
  <2>1. mask' = {} /\ job'.name = "drive" /\ job' # Idle /\ todo' = DriveWrites(g)
    BY <1>3, <1>4 DEF Drive, Start, chassis, claims, Idle
  <2>2. g[1] \in {-1, 0, 1} /\ g[2] \in {-1, 0, 1} /\ 1 \in Motors /\ 2 \in Motors
    BY LinkConstants DEF Motors
  <2> DEFINE a == Checked(PairWrite(g))
             b == Checked(SpeedWrite(2, g[2]))
             c == Checked(SpeedWrite(1, g[1]))
  <2>3. /\ a.w \in PlainWrites /\ a.kind # "read" /\ b.w \in PlainWrites /\ b.kind # "read"
        /\ c.w \in PlainWrites /\ c.kind # "read"
    BY <2>2, PlainSteps
  <2>4. DriveWrites(g) = <<a>> \/ DriveWrites(g) = <<a, b, c>>
    BY DEF DriveWrites
  <2> HIDE DEF a, b, c
  <2>5. \A i \in 1..Len(todo') : todo'[i].w \in PlainWrites /\ todo'[i].kind # "read"
    BY <2>1, <2>3, <2>4
  <2> QED BY <2>1, <2>5 DEF QuietWork
<1>5. ASSUME NEW m \in Motors, NEW mode \in ShellModes, NEW v \in {-1, 1}, ShellMotor(m, mode, v)
      PROVE  mask' = {} /\ QuietWork'
  <2>1. mask' = {} /\ job'.name = mode /\ todo' = ShellWrites(m, mode, v)
    BY <1>3, <1>5 DEF ShellMotor, Start, chassis, claims
  <2>2. mode \in {"COAST", "SPEED"}
    <3>1. mode # "POSITION"
      BY <1>5 DEF ShellMotor
    <3> QED BY <3>1, LinkConstants DEF Modes
  <2> DEFINE a == Checked(CoastWrite(m))
             b == Checked(RpmWrite(m, v))
             c == Checked(SpeedWrite(m, v))
  <2>3. /\ a.w \in PlainWrites /\ a.kind # "read" /\ b.w \in PlainWrites /\ b.kind # "read"
        /\ c.w \in PlainWrites /\ c.kind # "read"
    <3>1. v \in {-1, 0, 1}
      OBVIOUS
    <3> QED BY <3>1, PlainSteps
  <2>4. ShellWrites(m, mode, v) = <<a>> \/ ShellWrites(m, mode, v) = <<b, c>>
    BY <2>2 DEF ShellWrites
  <2> HIDE DEF a, b, c
  <2>5. \A i \in 1..Len(todo') : todo'[i].w \in PlainWrites /\ todo'[i].kind # "read"
    BY <2>1, <2>3, <2>4
  <2>6. job'.name \notin {"none", "POSITION", "untrack"}
    BY <2>1, <2>2
  <2> QED BY <2>1, <2>5, <2>6 DEF QuietWork, Idle
<1>6. ASSUME StopCommand \/ Arm \/ HandleFault PROVE mask' = {} /\ QuietWork'
  <2>1. SafetyStop(FALSE)
    BY <1>6 DEF StopCommand, Arm, HandleFault
  <2> QED BY <2>1, QuietStop DEF SafetyStop, ClearClaims
<1>7. ASSUME Disarm \/ RunArmed \/ Feedback PROVE mask' = {} /\ QuietWork'
  <2>1. UNCHANGED <<mask, job, todo, sent>>
    BY <1>7 DEF Disarm, RunArmed, Feedback, claims, work
  <2> QED BY <1>3, <2>1 DEF QuietWork
<1>8. ASSUME Service PROVE mask' = {} /\ QuietWork'
  <2>1. mask' = {}
    BY <1>3, <1>8 DEF Service, claims
  <2>2. CASE ~Holds
    BY <1>8, <2>1, <2>2 DEF Service, work, QuietWork
  <2>3. CASE Holds
    <3> DEFINE a == Refresh(PairWrite(want))
    <3>1. a.w \in PlainWrites /\ a.kind # "read"
      BY PlainSteps DEF Types, ChassisTypes
    <3>2. job'.name = "service" /\ todo' = <<a>>
      BY <1>3, <1>8, <2>3 DEF Service, Start, ServiceWrites
    <3> HIDE DEF a
    <3>3. \A i \in 1..Len(todo') : todo'[i].w \in PlainWrites /\ todo'[i].kind # "read"
      BY <3>1, <3>2
    <3> QED BY <2>1, <3>2, <3>3 DEF QuietWork, Idle
  <2> QED BY <2>2, <2>3
<1> QED BY <1>2, <1>4, <1>5, <1>6, <1>7, <1>8 DEF Commands, Tasks

LEMMA QuietTransfer ==
    ASSUME Types, Stopping, QuietBoard, QuietWork, Transfers
    PROVE  QuietBoard' /\ QuietWork'
<1>1. job # Idle /\ UNCHANGED <<regs, up>> /\ up /\ mask = {}
  BY DEF Transfers, Send, SendFails, VerifyMatches, VerifyDiffers, ReadPosition, ReadFails,
         Works, QuietBoard
<1>2. Current.w \in PlainWrites /\ Current.kind # "read"
  <2>1. 1 \in 1..Len(todo) /\ Current = todo[1]
    BY <1>1, AtWork DEF Types
  <2> QED BY <2>1 DEF QuietWork
<1>3. job.name \in {"service", "stop", "COAST", "SPEED", "drive"}
  BY <1>1, AtWork DEF Types, Names, QuietWork
<1>4. ASSUME EndJob PROVE QuietWork'
  BY <1>4 DEF EndJob, QuietWork, Idle
<1>5. ASSUME todo' = Tail(todo), job' = job PROVE QuietWork'
  <2>1. \A i \in 1..Len(todo') : i + 1 \in 1..Len(todo) /\ todo'[i] = todo[i + 1]
    BY <1>1, <1>5, AtWork DEF Types
  <2> QED BY <1>1, <1>5, <2>1 DEF QuietWork
<1>6. ASSUME todo' = todo, job' = job PROVE QuietWork'
  BY <1>1, <1>6 DEF QuietWork
<1>7. ASSUME Advance PROVE mask' = {} /\ QuietWork'
  <2>1. CASE Len(todo) = 1
    <3>1. Complete
      BY <1>7, <2>1 DEF Advance
    <3> QED BY <1>1, <1>3, <1>4, <3>1 DEF Complete, ClaimSpeed, Release, claims
  <2>2. CASE Len(todo) # 1
    BY <1>1, <1>5, <1>7, <2>2 DEF Advance
  <2> QED BY <2>1, <2>2
<1>8. ASSUME Abandon PROVE mask' = {} /\ QuietWork'
  <2>1. CASE SafetyStop(TRUE)
    BY <2>1, QuietStop DEF SafetyStop, ClearClaims
  <2>2. CASE EndJob /\ UNCHANGED claims
    BY <1>1, <1>4, <2>2 DEF claims
  <2>3. CASE UNCHANGED <<claims, job, todo>>
    BY <1>1, <1>6, <2>3 DEF claims
  <2>4. CASE todo' = Tail(todo) /\ UNCHANGED <<claims, job>>
    BY <1>1, <1>5, <2>4 DEF claims
  <2>5. job.name = "stop" => Len(todo) \in {1, 2}
    BY AtStop DEF Types
  <2> QED BY <1>1, <1>3, <1>8, <2>1, <2>2, <2>3, <2>4, <2>5, AbandonCases DEF Types
<1>9. ASSUME UNCHANGED <<claims, job, todo>> PROVE mask' = {} /\ QuietWork'
  BY <1>1, <1>6, <1>9 DEF claims
<1>10. mask' = {} /\ QuietWork'
  BY <1>1, <1>2, <1>7, <1>8, <1>9
     DEF Transfers, Send, SendFails, VerifyMatches, VerifyDiffers, ReadPosition, ReadFails
<1>11. \A i \in 1..Len(queue') : queue'[i] \in PlainWrites
  <2>1. CASE queue' = queue
    BY <2>1 DEF QuietBoard
  <2>2. CASE Send
    <3>1. queue \in Seq(Writes) /\ queue' = Append(queue, Current.w) /\ Current.w \in Writes
      BY <1>1, <2>2, AtWork DEF Send, Types, BoardTypes
    <3>2. \A i \in 1..Len(queue') : queue'[i] = Current.w \/ (i \in 1..Len(queue) /\ queue'[i] = queue[i])
      BY <3>1
    <3> QED BY <1>2, <3>2 DEF QuietBoard
  <2> QED BY <1>1, <2>1, <2>2
          DEF Transfers, SendFails, VerifyMatches, VerifyDiffers, ReadPosition, ReadFails
<1> QED BY <1>1, <1>10, <1>11 DEF QuietBoard

LEMMA UndisturbedBoard ==
    ASSUME Types, QuietBoard, Fed, JobPhase, Apply \/ (\E m \in Looping : Loop(m)) \/ Expire
    PROVE  Fed' /\ JobPhase'
<1>1. /\ UNCHANGED <<lease, mask, want, served, job, todo, sent, up>>
      /\ BoardTypes
  BY DEF Apply, Loop, Expire, chassis, claims, work, Types
<1>2. CASE Apply
  <2>1. Relies /\ age' = 0
    BY <1>1, <1>2, ReliesApplied, QueueApplied
  <2>2. Fed'
    BY <2>1 DEF Fed
  <2> QED BY <1>1, <2>1, <2>2, PhaseKept
<1>3. CASE \E m \in Looping : Loop(m)
  <2>1. PICK n \in Motors : Loop(n)
    BY <1>3, LinkConstants
  <2>2. queue' = queue /\ age' = age /\ warm' = warm /\ warm[n]
    BY <2>1 DEF Loop
  <2>3. PICK d \in {0, 1}, x \in Dirs, r \in {0, 1} :
            /\ regs' = [regs EXCEPT ![<<"duty", n>>] = d, ![<<"dir", n>>] = x,
                                    ![<<"rpm", n>>] = r]
            /\ regs[<<"mode", n>>] = "SPEED" => r = regs[<<"rpm", n>>]
            /\ regs[<<"mode", n>>] = "SPEED" /\ r > 0 => x = regs[<<"dir", n>>]
    BY <2>1 DEF Loop
  <2>4. regs[<<"mode", n>>] = "SPEED"
    BY <2>1 DEF Loop, QuietBoard
  <2>5. \A a \in {"mode", "duty", "dir", "rpm"}, m \in Motors : <<a, m>> \in DOMAIN regs
    BY <1>1 DEF BoardTypes, Registers
  <2>6. ASSUME NEW m \in Motors
        PROVE  /\ regs'[<<"mode", m>>] = regs[<<"mode", m>>]
               /\ regs'[<<"rpm", m>>] = regs[<<"rpm", m>>]
               /\ regs[<<"rpm", m>>] = 1 => regs'[<<"dir", m>>] = regs[<<"dir", m>>]
               /\ m # n => /\ regs'[<<"dir", m>>] = regs[<<"dir", m>>]
                           /\ regs'[<<"duty", m>>] = regs[<<"duty", m>>]
    BY <2>3, <2>4, <2>5
  <2>7. \A m \in Motors : Keeps(m) /\ (Coasting(m) => Coasting(m)')
    BY <2>2, <2>6, CoastingKept DEF Keeps
  <2>8. ASSUME NEW m \in Motors, NEW v \in {-1, 1}, ~warm[m], Matches(regs, SpeedWrite(m, v))
        PROVE  Matches(regs', SpeedWrite(m, v))
    <3>1. /\ regs'[<<"mode", m>>] = "SPEED" /\ regs'[<<"duty", m>>] = 0
          /\ regs'[<<"dir", m>>] = DirOf(v)
      <4>1. m # n
        BY <2>2, <2>8
      <4>2. /\ regs[<<"mode", m>>] = "SPEED" /\ regs[<<"duty", m>>] = 0
            /\ regs[<<"dir", m>>] = DirOf(v)
        BY <2>8, SpeedMatches
      <4> QED BY <2>6, <4>1, <4>2
    <3> QED BY <3>1, SpeedMatches
  <2>9. Relies
    BY <1>1, <2>2, <2>7, <2>8, ReliesKept
  <2>10. Fed'
    BY <1>1, <2>2 DEF Fed
  <2> QED BY <1>1, <2>9, <2>10, PhaseKept
<1>4. CASE Expire
  <2>1. /\ queue' = queue /\ age' = 0 /\ warm' = warm /\ age > Limit /\ regs' = Coasted
        /\ age \in Nat /\ Limit \in Nat \ {0}
    BY <1>1, <1>4, LinkConstants DEF Expire, BoardTypes
  <2>2. ASSUME NEW m \in Motors
        PROVE  regs'[<<"mode", m>>] = "COAST" /\ regs'[<<"duty", m>>] = 0
    BY <2>1 DEF Coasted, Registers
  <2>3. \A m \in Motors : Keeps(m)
    BY <2>1 DEF Keeps
  <2>4. \A m \in Motors : Coasting(m) => Coasting(m)'
    BY <2>1, <2>2, CoastingKept
  <2>5. ~(sent /\ queue = <<>>)
    BY <2>1 DEF Fed
  <2>6. Relies
    BY <1>1, <2>1, <2>3, <2>4, <2>5, ReliesKept
  <2>7. Fed'
    BY <1>1, <2>1 DEF Fed
  <2> QED BY <1>1, <2>6, <2>7, PhaseKept
<1> QED BY <1>2, <1>3, <1>4

\* While the service task is enabled it renews the lease in every period.
LEMMA UndisturbedTick ==
    ASSUME Types, QuietBoard, QuietWork, ~unserved => Fed /\ JobPhase, Tick, ~unserved'
    PROVE  Fed' /\ JobPhase'
<1>1. /\ UNCHANGED <<regs, queue, lease, mask, want, job, todo, sent, up>>
      /\ queue = <<>> /\ served' = FALSE /\ job = Idle /\ (served \/ ~serving) /\ ~sent
      /\ age' = IF Active(regs) THEN age + 1 ELSE 0
  BY DEF Tick, claims, work, QuietBoard, QuietWork
<1>2. lease => ~unserved /\ serving
  BY DEF Tick, Holds
<1>3. lease => Fed /\ \A m \in Motors : AsCommanded(m, want[m])
  BY <1>1, <1>2 DEF JobPhase, Idle
<1>4. Fed'
  BY <1>1 DEF Fed
<1>5. ASSUME lease, NEW m \in Motors PROVE AsCommanded(m, want[m])'
  <2>1. age = 0 /\ served
    BY <1>1, <1>2, <1>3, <1>5 DEF Fed, Idle
  <2>2. age' <= Limit
    BY <1>1, <2>1, LinkConstants
  <2>3. Keeps(m)
    BY <1>1, <2>2 DEF Keeps
  <2>4. AsCommanded(m, want[m])'
    <3> DEFINE v == want[m]
    <3>1. AsCommanded(m, v) /\ v' = v
      BY <1>1, <1>3, <1>5
    <3> HIDE DEF v
    <3>2. AsCommanded(m, v)'
      BY <2>3, <3>1, CommandedKept
    <3> QED BY <3>1, <3>2 DEF v
  <2> QED BY <2>4
<1>6. JobPhase'
  BY <1>1, <1>5 DEF JobPhase
<1> QED BY <1>4, <1>6
-----------------------------------------------------------------------------
(* What each transaction that joins the queue leaves true and makes true.  *)

LEMMA CommandedJoins ==
    ASSUME NEW w, Joins(w), NEW m \in Motors, NEW v \in {-1, 0, 1},
           \/ Sets(w, <<"mode", m>>) /\ Effect(w, <<"mode", m>>) = "SPEED"
           \/ ~Sets(w, <<"mode", m>>) /\ Runs(Len(queue), m),
           \/ Sets(w, <<"rpm", m>>) /\ Effect(w, <<"rpm", m>>) = Abs(v)
           \/ ~Sets(w, <<"rpm", m>>) /\ Paced(Len(queue), m, v),
           v # 0 => \/ /\ Sets(w, <<"dir", m>>) /\ Effect(w, <<"dir", m>>) = DirOf(v)
                       /\ ~Sets(w, <<"rpm", m>>) /\ Paced(Len(queue), m, v)
                    \/ KeepsHeading(w, m) /\ Heading(Len(queue), m, DirOf(v))
    PROVE  AsCommanded(m, v)'
<1> PICK n : n = Len(queue)
  OBVIOUS
<1>1. Len(queue') = n + 1
  BY QueueJoined
<1>2. v # 0 => Abs(v) = 1
  BY DEF Abs
<1>3. Leaves(n + 1, <<"mode", m>>, "SPEED")'
  BY LeavesNext DEF Runs
<1>4. Leaves(n + 1, <<"rpm", m>>, Abs(v))'
  BY LeavesNext DEF Paced
<1>5. ASSUME v # 0 PROVE Heading(n + 1, m, DirOf(v))'
  BY <1>2, <1>5, HeadingNext DEF Paced
<1> QED BY <1>1, <1>3, <1>4, <1>5 DEF AsCommanded, Runs, Paced

\* One that sets nothing of a motor leaves it as commanded.
LEMMA CommandedElsewhere ==
    ASSUME NEW w, Joins(w), NEW m \in Motors, NEW v \in {-1, 0, 1}, AsCommanded(m, v),
           ~Sets(w, <<"mode", m>>), ~Sets(w, <<"dir", m>>), ~Sets(w, <<"rpm", m>>)
    PROVE  AsCommanded(m, v)'
BY CommandedJoins DEF AsCommanded, KeepsHeading

\* One that repeats the speed of a motor as well.
LEMMA CommandedAgain ==
    ASSUME NEW g, Joins(PairWrite(g)), NEW m \in Motors, NEW v \in {-1, 0, 1},
           AsCommanded(m, v), Abs(g[m]) = Abs(v)
    PROVE  AsCommanded(m, v)'
<1> DEFINE w == PairWrite(g)
<1>1. /\ ~Sets(w, <<"mode", m>>) /\ ~Sets(w, <<"dir", m>>) /\ Sets(w, <<"rpm", m>>)
      /\ Effect(w, <<"rpm", m>>) = Abs(v)
  BY PairSets
<1>2. v # 0 => Abs(v) = 1
  BY DEF Abs
<1>3. Joins(w)
  OBVIOUS
<1> HIDE DEF w
<1>4. v # 0 => KeepsHeading(w, m)
  BY <1>1, <1>2 DEF KeepsHeading
<1> QED BY <1>1, <1>3, <1>4, CommandedJoins DEF AsCommanded

\* A speed mode takes effect on a motor that has its speed already.
LEMMA CommandedBySpeed ==
    ASSUME NEW m \in Motors, NEW v \in {-1, 0, 1}, Joins(SpeedWrite(m, v)),
           Paced(Len(queue), m, v)
    PROVE  AsCommanded(m, v)'
<1> DEFINE w == SpeedWrite(m, v)
<1>1. /\ Sets(w, <<"mode", m>>) /\ Effect(w, <<"mode", m>>) = "SPEED"
      /\ Sets(w, <<"dir", m>>) /\ Effect(w, <<"dir", m>>) = DirOf(v)
      /\ ~Sets(w, <<"rpm", m>>)
  BY SpeedSets
<1>2. Joins(w)
  OBVIOUS
<1> HIDE DEF w
<1> QED BY <1>1, <1>2, CommandedJoins

LEMMA PacedJoins ==
    ASSUME NEW w, Joins(w), NEW m \in Motors, NEW v,
           \/ Sets(w, <<"rpm", m>>) /\ Effect(w, <<"rpm", m>>) = Abs(v)
           \/ ~Sets(w, <<"rpm", m>>) /\ Paced(Len(queue), m, v)
    PROVE  Paced(Len(queue), m, v)'
<1> PICK n : n = Len(queue)
  OBVIOUS
<1>1. Len(queue') = n + 1
  BY QueueJoined
<1>2. Leaves(n + 1, <<"rpm", m>>, Abs(v))'
  BY LeavesNext DEF Paced
<1> QED BY <1>1, <1>2 DEF Paced

LEMMA CoolsJoins ==
    ASSUME NEW w, Joins(w), warm' = warm, NEW m \in Motors, Cools(m)
    PROVE  Cools(m)'
<1> PICK n : n = Len(queue)
  OBVIOUS
<1>1. n \in Nat /\ Len(queue') = n + 1
  BY QueueJoined
<1>2. CASE ~warm[m]
  BY <1>2 DEF Cools
<1>3. ASSUME NEW k \in 1..n, Restarts(k, m) PROVE Cools(m)'
  <2>1. k \in 0..n /\ k - 1 \in 0..n /\ k \in 1..Len(queue')
    BY <1>1
  <2>2. ASSUME NEW i \in 0..n
        PROVE  /\ Runs(i, m) => Runs(i, m)'
               /\ \A v : Paced(i, m, v) => Paced(i, m, v)'
               /\ \A d : Heading(i, m, d) => Heading(i, m, d)'
    BY LeavesLonger, HeadingLonger DEF Runs, Paced
  <2>3. Runs(k - 1, m)' /\ Runs(k, m)' /\ Paced(k, m, 1)'
    BY <1>3, <2>1, <2>2 DEF Restarts
  <2>4. CASE Paced(k - 1, m, 0)
    <3>1. Paced(k - 1, m, 0)'
      BY <2>1, <2>2, <2>4
    <3>2. Restarts(k, m)'
      BY <2>3, <3>1 DEF Restarts
    <3> QED BY <2>1, <3>2 DEF Cools
  <2>5. ASSUME Paced(k - 1, m, 1), NEW d \in Dirs, NEW e \in Dirs, d # e,
               Heading(k - 1, m, d), Heading(k, m, e)
        PROVE  Cools(m)'
    <3>1. Paced(k - 1, m, 1)' /\ Heading(k - 1, m, d)' /\ Heading(k, m, e)'
      BY <2>1, <2>2, <2>5
    <3>2. Restarts(k, m)'
      BY <2>3, <2>5, <3>1 DEF Restarts
    <3> QED BY <2>1, <3>2 DEF Cools
  <2> QED BY <1>3, <2>4, <2>5 DEF Restarts
<1> QED BY <1>2, <1>3 DEF Cools

(* A shell command sets the speed of a motor that is as the lease has it.  *)
LEMMA RaisedByRpm ==
    ASSUME NEW m \in Motors, NEW v \in {-1, 1}, Joins(RpmWrite(m, v)), want' = want,
           want[m] \in {-1, 0, 1}, AsCommanded(m, want[m])
    PROVE  Raised(m)'
<1> PICK n : n = Len(queue)
  OBVIOUS
<1> DEFINE w == RpmWrite(m, v)
<1>1. /\ ~Sets(w, <<"mode", m>>) /\ ~Sets(w, <<"dir", m>>) /\ Sets(w, <<"rpm", m>>)
      /\ Effect(w, <<"rpm", m>>) = 1
  <2>1. Abs(v) = 1
    BY DEF Abs
  <2> QED BY <2>1, RpmSets
<1>2. Joins(w)
  OBVIOUS
<1> HIDE DEF w
<1>3. n \in Nat /\ Len(queue') = n + 1
  BY <1>2, QueueJoined
<1>4. Runs(n, m) /\ Paced(n, m, want[m]) /\ (want[m] # 0 => Heading(n, m, DirOf(want[m])))
  BY DEF AsCommanded
<1>5. Abs(0) = 0 /\ Abs(1) = 1 /\ (want[m] # 0 => Abs(want[m]) = 1)
  BY DEF Abs
<1>6. Leaves(n + 1, <<"mode", m>>, "SPEED")' /\ Leaves(n, <<"mode", m>>, "SPEED")'
  <2>1. n \in 0..Len(queue)
    BY <1>3
  <2> QED BY <1>1, <1>2, <1>4, <2>1, LeavesNext, LeavesLonger DEF Runs
<1>7. Leaves(n + 1, <<"rpm", m>>, 1)'
  BY <1>1, <1>2, LeavesNext
<1>8. ASSUME want[m] = 0 PROVE Cools(m)'
  <2>1. Leaves(n, <<"rpm", m>>, 0)'
    <3>1. n \in 0..Len(queue) /\ Leaves(n, <<"rpm", m>>, 0)
      BY <1>3, <1>4, <1>5, <1>8 DEF Paced
    <3> QED BY <1>2, <3>1, LeavesLonger
  <2>2. n + 1 - 1 = n /\ n + 1 \in 1..Len(queue')
    BY <1>3
  <2>3. Restarts(n + 1, m)'
    BY <1>5, <1>6, <1>7, <2>1, <2>2 DEF Restarts, Runs, Paced
  <2> QED BY <2>2, <2>3 DEF Cools
<1>9. ASSUME want[m] # 0 PROVE Heading(n + 1, m, DirOf(want[m]))'
  <2> DEFINE d == DirOf(want[m])
  <2>1. KeepsHeading(w, m) /\ Heading(n, m, d) /\ d' = d
    BY <1>1, <1>4, <1>9, want' = want DEF KeepsHeading
  <2> HIDE DEF d
  <2>2. Heading(n + 1, m, d)'
    BY <1>2, <2>1, HeadingNext
  <2> QED BY <2>1, <2>2 DEF d
<1> QED BY <1>3, <1>5, <1>6, <1>7, <1>8, <1>9, want' = want DEF Raised, Runs, Paced

(* And then its mode: that changes nothing, or restarts the loop.          *)
LEMMA SettlesBySpeed ==
    ASSUME NEW m \in Motors, NEW v \in {-1, 1}, Joins(SpeedWrite(m, v)),
           want' = want, warm' = warm, want[m] \in {-1, 0, 1}, Raised(m)
    PROVE  AsCommanded(m, want[m])' \/ Settling(m, v)'
<1> PICK n : n = Len(queue)
  OBVIOUS
<1> DEFINE w == SpeedWrite(m, v)
<1>1. /\ Sets(w, <<"mode", m>>) /\ Effect(w, <<"mode", m>>) = "SPEED"
      /\ Sets(w, <<"dir", m>>) /\ Effect(w, <<"dir", m>>) = DirOf(v)
      /\ ~Sets(w, <<"rpm", m>>)
  BY SpeedSets
<1>2. Joins(w)
  OBVIOUS
<1> HIDE DEF w
<1>3. n \in Nat /\ n \in 0..n /\ Len(queue') = n + 1 /\ queue'[n + 1] = w /\ queue' # <<>>
  <2>1. n \in Nat /\ Len(queue') = n + 1 /\ queue'[n + 1] = w
    BY <1>2, QueueJoined
  <2>2. queue' # <<>>
    BY <1>2 DEF Joins
  <2> QED BY <2>1, <2>2
<1>4. /\ Runs(n, m) /\ Paced(n, m, 1)
      /\ IF want[m] = 0 THEN Cools(m) ELSE Heading(n, m, DirOf(want[m]))
  BY DEF Raised
<1>5. Abs(1) = 1 /\ (want[m] # 0 => Abs(want[m]) = 1)
  BY DEF Abs
<1>6. ASSUME Cools(m)' PROVE Settling(m, v)'
  BY <1>3, <1>6 DEF Settling, w
<1>7. CASE want[m] = 0
  BY <1>2, <1>4, <1>6, <1>7, CoolsJoins
<1>8. CASE want[m] # 0 /\ DirOf(want[m]) = DirOf(v)
  <2> DEFINE u == want[m]
  <2>1. u \in {-1, 0, 1} /\ u' = u /\ Paced(n, m, u)
    BY <1>4, <1>5, <1>8 DEF Paced
  <2>2. DirOf(u) = DirOf(v)
    BY <1>8
  <2> HIDE DEF u
  <2>3. AsCommanded(m, u)'
    BY <1>1, <1>2, <2>1, <2>2, CommandedJoins
  <2> QED BY <2>1, <2>3 DEF u
<1>9. CASE want[m] # 0 /\ DirOf(want[m]) # DirOf(v)
  <2> DEFINE e == DirOf(v)
  <2>1. PICK d \in Dirs : e \in Dirs /\ d # e /\ Heading(n, m, d)
    BY <1>4, <1>9 DEF DirOf, Dirs
  <2> HIDE DEF e
  <2>2. Leaves(n, <<"rpm", m>>, 1) /\ Leaves(n, <<"mode", m>>, "SPEED")
    BY <1>4, <1>5 DEF Paced, Runs
  <2>3. Heading(n + 1, m, e)'
    BY <1>1, <1>2, <2>2, HeadingNext DEF e
  <2>4. Heading(n, m, d)'
    BY <1>2, <1>3, <2>1, HeadingLonger
  <2>5. Leaves(n, <<"rpm", m>>, 1)' /\ Leaves(n, <<"mode", m>>, "SPEED")'
    BY <1>2, <1>3, <2>2, LeavesLonger
  <2>6. Leaves(n + 1, <<"rpm", m>>, 1)' /\ Leaves(n + 1, <<"mode", m>>, "SPEED")'
    BY <1>1, <1>2, <2>2, LeavesNext
  <2>7. n + 1 - 1 = n /\ n + 1 \in 1..Len(queue')
    BY <1>3
  <2>8. Restarts(n + 1, m)'
    BY <1>5, <2>1, <2>3, <2>4, <2>5, <2>6, <2>7 DEF Restarts, Runs, Paced
  <2> QED BY <1>6, <2>7, <2>8 DEF Cools
<1> QED BY <1>7, <1>8, <1>9
-----------------------------------------------------------------------------
(* Commands and tasks.                                                     *)

LEMMA UndisturbedCommand ==
    ASSUME ~posed', ~unserved', Types, QuietBoard, Fed, JobPhase, Commands \/ Tasks
    PROVE  Fed' /\ JobPhase'
<1>1. job = Idle /\ UNCHANGED <<regs, queue, age, warm, up>>
  BY DEF Commands, Tasks, Drive, ShellMotor, StopCommand, Arm, Disarm, Service, Feedback,
         HandleFault, RunArmed, Begins, board
<1>2. ~sent /\ (lease => \A m \in Motors : AsCommanded(m, want[m])) /\ job.name = "none"
  BY <1>1 DEF JobPhase, Idle
<1>3. \A m \in Motors : Keeps(m)
  BY <1>1 DEF Keeps
<1>4. want' = want => \A m \in Motors : AsCommanded(m, want[m]) => AsCommanded(m, want[m])'
  <2> SUFFICES ASSUME want' = want, NEW m \in Motors, AsCommanded(m, want[m])
               PROVE  AsCommanded(m, want[m])'
    OBVIOUS
  <2> DEFINE v == want[m]
  <2>1. AsCommanded(m, v) /\ v' = v
    OBVIOUS
  <2> HIDE DEF v
  <2>2. AsCommanded(m, v)'
    BY <1>3, <2>1, CommandedKept
  <2> QED BY <2>1, <2>2 DEF v
<1>5. mask = {}
  BY DEF QuietBoard
<1>7. CASE \E g \in Goals : Drive(g)
  <2>1. PICK g \in Goals : Drive(g)
    BY <1>7
  <2>2. /\ UNCHANGED <<lease, want, served>>
        /\ job'.name = "drive" /\ job'.goal = g /\ todo' = DriveWrites(g) /\ sent' = FALSE
    BY <2>1 DEF Drive, Start, chassis, claims
  <2>4. Fed'
    BY <1>1, <1>2, <2>2 DEF Fed
  <2>5. DrivePhase(g)'
    <3>1. CASE RefreshOnly(g)
      BY <1>2, <1>4, <2>2, <3>1 DEF RefreshOnly, DriveWrites, DrivePhase
    <3>2. CASE ~RefreshOnly(g)
      BY <2>2, <3>2 DEF DriveWrites, DrivePhase
    <3> QED BY <3>1, <3>2
  <2> QED BY <2>2, <2>4, <2>5 DEF JobPhase
<1>8. CASE \E m \in Motors, mode \in ShellModes, v \in {-1, 1} : ShellMotor(m, mode, v)
  <2>1. PICK m \in Motors, mode \in ShellModes, v \in {-1, 1} : ShellMotor(m, mode, v)
    BY <1>8
  <2>2. /\ UNCHANGED <<lease, want, served>>
        /\ job'.name = mode /\ job'.m = m /\ todo' = ShellWrites(m, mode, v) /\ sent' = FALSE
    BY <2>1 DEF ShellMotor, Start, chassis, claims
  <2>3. mode \in {"COAST", "SPEED"}
    <3>1. mode # "POSITION"
      BY <2>1 DEF ShellMotor
    <3> QED BY <3>1, LinkConstants DEF Modes
  <2>5. Fed'
    BY <1>1, <1>2, <2>2 DEF Fed
  <2>6. CASE mode = "COAST"
    <3>1. job'.name = "COAST" /\ todo' = <<Checked(CoastWrite(m))>>
      BY <2>2, <2>6 DEF ShellWrites
    <3>2. todo' = <<Checked(CoastWrite(job'.m))>>
      BY <2>2, <3>1
    <3> QED BY <2>2, <2>5, <3>1, <3>2 DEF JobPhase
  <2>7. CASE mode = "SPEED"
    <3>1. todo' = <<Checked(RpmWrite(m, v)), Checked(SpeedWrite(m, v))>>
      BY <2>2, <2>7 DEF ShellWrites
    <3>2. lease' => \A k \in Motors : AsCommanded(k, want[k])'
      BY <1>2, <1>4, <2>2
    <3>3. SpeedPhase(m, v)'
      BY <2>2, <3>1, <3>2 DEF SpeedPhase
    <3>4. SpeedPhase(job.m, v)'
      BY <2>2, <3>3
    <3>5. job'.name = "SPEED" /\ \E u \in {-1, 1} : SpeedPhase(job.m, u)'
      BY <2>2, <2>7, <3>4
    <3> QED BY <2>5, <3>5 DEF JobPhase
  <2> QED BY <2>3, <2>6, <2>7
<1>9. CASE StopCommand \/ Arm \/ HandleFault
  <2>1. job'.name = "stop" /\ lease' = FALSE /\ sent' = FALSE
    <3>1. SafetyStop(FALSE)
      BY <1>9 DEF StopCommand, Arm, HandleFault
    <3> QED BY <3>1 DEF SafetyStop, Start, ClearClaims
  <2> QED BY <2>1 DEF Fed, JobPhase
<1>12. CASE Disarm \/ RunArmed
  <2>1. UNCHANGED <<lease, want, job, todo, sent>>
    BY <1>12 DEF Disarm, RunArmed, claims, work
  <2>3. lease /\ served' => served
    <3>1. CASE RunArmed
      BY <3>1 DEF RunArmed
    <3>2. CASE Disarm
      BY <3>2 DEF Disarm, Holds
    <3> QED BY <1>12, <3>1, <3>2
  <2>2. Fed'
    BY <1>1, <1>2, <2>1, <2>3 DEF Fed
  <2> QED BY <1>1, <1>2, <1>4, <2>1, <2>2 DEF JobPhase
<1>10. CASE Service
  <2>1. UNCHANGED <<lease, want>>
    BY <1>10 DEF Service, claims
  <2>3. CASE Holds
    <3>1. lease
      BY <1>5, <2>3 DEF Holds
    <3>2. /\ job'.name = "service" /\ sent' = FALSE /\ todo' = <<Refresh(PairWrite(want))>>
      BY <1>5, <1>10, <2>3 DEF Service, Start, ServiceWrites
    <3> QED BY <1>2, <1>4, <2>1, <3>1, <3>2 DEF Fed, JobPhase
  <2>4. CASE ~Holds
    <3>1. ~lease /\ UNCHANGED <<job, todo, sent>>
      BY <1>10, <2>4 DEF Service, Holds, work
    <3> QED BY <1>1, <1>2, <2>1, <3>1 DEF Fed, JobPhase
  <2> QED BY <2>3, <2>4
<1>11. CASE Feedback
  <2>1. UNCHANGED <<lease, want, served, job, todo, sent>>
    BY <1>11 DEF Feedback, claims, work
  <2>3. Fed'
    BY <1>1, <2>1 DEF Fed
  <2> QED BY <1>1, <1>2, <1>4, <2>1, <2>3 DEF JobPhase
<1> QED BY <1>7, <1>8, <1>9, <1>10, <1>11, <1>12 DEF Commands, Tasks
-----------------------------------------------------------------------------
(* Transactions.                                                           *)

LEMMA OneLeft ==
    ASSUME NEW w, todo = <<Checked(w)>>
    PROVE  Len(todo) = 1 /\ Current.w = w /\ Current.kind = "checked"
BY DEF Current, Checked

LEMMA MoreLeft ==
    ASSUME NEW w, NEW x, todo = <<Checked(w), x>> \/ \E y : todo = <<Checked(w), x, y>>
    PROVE  /\ Len(todo) # 1 /\ Current.w = w /\ Current.kind = "checked"
           /\ todo = <<Checked(w), x>> => Tail(todo) = <<x>>
           /\ \A y : todo = <<Checked(w), x, y>> => Tail(todo) = <<x, y>>
<1> DEFINE a == Checked(w)
<1>1. a.w = w /\ a.kind = "checked"
  BY DEF Checked
<1> HIDE DEF a
<1>2. CASE todo = <<a, x>>
  BY <1>1, <1>2 DEF Current
<1>3. ASSUME NEW y, todo = <<a, x, y>>
      PROVE  /\ Len(todo) # 1 /\ Current = a /\ Tail(todo) = <<x, y>>
             /\ todo # <<a, x>> /\ \A z : todo = <<a, x, z>> => z = y
  BY <1>3 DEF Current
<1> QED BY <1>1, <1>2, <1>3 DEF a

\* What is at its turn in each phase.
LEMMA PhaseWrites ==
    ASSUME Types, Stopping, JobPhase, job # Idle
    PROVE  /\ job.name \in {"service", "stop", "COAST", "SPEED", "drive"}
           /\ Current.w \in PlainWrites
           /\ IF job.name = "service"
              THEN Current.kind = "refresh" /\ Current.w = PairWrite(want) /\ Len(todo) = 1
              ELSE Current.kind = "checked"
<1>1. CASE job.name = "service" /\ todo = <<Refresh(PairWrite(want))>>
  <2>1. Current = Refresh(PairWrite(want)) /\ Len(todo) = 1
    BY <1>1 DEF Current
  <2>2. Current.kind = "refresh" /\ Current.w = PairWrite(want)
    BY <2>1 DEF Refresh
  <2>3. want \in Goals \cup {NoGoal}
    BY DEF Types, ChassisTypes
  <2> QED BY <1>1, <2>1, <2>2, <2>3 DEF PlainWrites
<1>2. CASE job.name = "stop"
  BY <1>2, AtStop DEF Types, PlainWrites, Motors
<1>3. CASE job.name = "COAST" /\ todo = <<Checked(CoastWrite(job.m))>>
  BY <1>3, OneLeft DEF Types, WorkTypes, PlainWrites
<1>4. ASSUME NEW v \in {-1, 1}, job.name = "SPEED", SpeedPhase(job.m, v)
      PROVE  Current.kind = "checked" /\ Current.w \in PlainWrites
  <2>1. job.m \in Motors
    BY <1>4 DEF Types, WorkTypes
  <2>2. RpmWrite(job.m, v) \in PlainWrites /\ SpeedWrite(job.m, v) \in PlainWrites
    <3>1. v \in {-1, 0, 1}
      OBVIOUS
    <3> QED BY <2>1, <3>1 DEF PlainWrites
  <2>3. CASE todo = <<Checked(RpmWrite(job.m, v)), Checked(SpeedWrite(job.m, v))>>
    BY <2>2, <2>3, MoreLeft
  <2>4. CASE todo = <<Checked(SpeedWrite(job.m, v))>>
    BY <2>2, <2>4, OneLeft
  <2> QED BY <1>4, <2>3, <2>4 DEF SpeedPhase
<1>5. CASE job.name = "drive" /\ DrivePhase(job.goal)
  <2> DEFINE g == job.goal
  <2>1. g \in Goals /\ g[1] \in {-1, 0, 1} /\ g[2] \in {-1, 0, 1}
    BY <1>5, LinkConstants DEF Types, WorkTypes, Motors
  <2> HIDE DEF g
  <2>2. /\ PairWrite(g) \in PlainWrites /\ SpeedWrite(1, g[1]) \in PlainWrites
        /\ SpeedWrite(2, g[2]) \in PlainWrites
    BY <2>1 DEF PlainWrites, Motors
  <2>3. DrivePhase(g)
    BY <1>5 DEF g
  <2>4. CASE todo = <<Checked(PairWrite(g))>>
    BY <1>5, <2>2, <2>4, OneLeft
  <2>5. CASE todo = <<Checked(PairWrite(g)), Checked(SpeedWrite(2, g[2])),
                      Checked(SpeedWrite(1, g[1]))>>
    BY <1>5, <2>2, <2>5, MoreLeft
  <2>6. CASE todo = <<Checked(SpeedWrite(2, g[2])), Checked(SpeedWrite(1, g[1]))>>
    BY <1>5, <2>2, <2>6, MoreLeft
  <2>7. CASE todo = <<Checked(SpeedWrite(1, g[1]))>>
    BY <1>5, <2>2, <2>7, OneLeft
  <2> QED BY <2>3, <2>4, <2>5, <2>6, <2>7 DEF DrivePhase
<1> QED BY <1>1, <1>2, <1>3, <1>4, <1>5 DEF JobPhase

\* How the current transaction can go on: it is sent, or it has been sent and
\* is seen to match or not.
LEMMA TransferIs ==
    ASSUME Types, Stopping, QuietBoard, JobPhase, Transfers
    PROVE  /\ job # Idle /\ UNCHANGED <<regs, age, warm, up, served>>
           /\ \/ /\ Send /\ ~sent /\ Joins(Current.w) /\ queue' # <<>>
                 /\ IF job.name = "service" THEN Advance
                    ELSE sent' = TRUE /\ UNCHANGED <<lease, mask, want, fault, job, todo>>
              \/ VerifyMatches /\ sent /\ Matches(regs, Current.w) /\ queue' = queue /\ Advance
              \/ /\ VerifyDiffers /\ sent /\ ~Matches(regs, Current.w) /\ Abandon
                 /\ queue = <<>> /\ queue' = queue
<1>1. /\ job # Idle /\ UNCHANGED <<regs, age, warm, up, served>> /\ up
  BY DEF Transfers, Send, SendFails, VerifyMatches, VerifyDiffers, ReadPosition, ReadFails,
         Works, QuietBoard
<1>2. Current.kind # "read"
  BY <1>1, PhaseWrites
<1>3. CASE Send
  <2>1. Current.w \in Writes /\ queue \in Seq(Writes) /\ queue' = Append(queue, Current.w)
    BY <1>1, <1>3, AtWork DEF Send, Types, BoardTypes
  <2>2. queue' # <<>>
    BY <2>1
  <2> QED BY <1>1, <1>3, <2>1, <2>2, PhaseWrites DEF Send, Joins, claims
<1>4. CASE VerifyMatches
  BY <1>1, <1>4 DEF VerifyMatches
<1>5. CASE VerifyDiffers
  BY <1>1, <1>5 DEF VerifyDiffers
<1> QED BY <1>1, <1>2, <1>3, <1>4, <1>5 DEF Transfers, SendFails, ReadPosition, ReadFails

\* What a transaction can do to the claims and to the fault.
LEMMA ClaimsAfter ==
    ASSUME Types, Stopping, QuietBoard, JobPhase, Transfers
    PROVE  /\ mask' = {} /\ (fault => fault')
           /\ job.name # "drive" => (lease' => lease) /\ job'.name # "drive"
           /\ ~Send => sent' = FALSE
<1>1. mask = {} /\ job.name \in {"service", "stop", "COAST", "SPEED", "drive"}
  BY TransferIs, PhaseWrites DEF QuietBoard
<1>2. CASE Advance /\ Len(todo) = 1
  <2>1. Complete /\ EndJob
    <3>1. Complete
      BY <1>2 DEF Advance
    <3> QED BY <1>1, <3>1 DEF Complete
  <2>2. job'.name = "none" /\ sent' = FALSE
    BY <2>1 DEF EndJob, Idle
  <2>3. mask' = {} /\ (fault => fault') /\ (job.name # "drive" => (lease' => lease))
    BY <1>1, <2>1 DEF Complete, ClaimSpeed, Release, claims
  <2> QED BY <2>2, <2>3
<1>3. CASE Advance /\ Len(todo) # 1
  BY <1>1, <1>3 DEF Advance
<1>4. CASE Abandon
  <2>1. CASE SafetyStop(TRUE) /\ UNCHANGED <<fault, calm>>
    BY <2>1 DEF SafetyStop, Start, ClearClaims
  <2>2. CASE EndJob /\ UNCHANGED claims /\ (fault => fault')
    BY <1>1, <2>2 DEF EndJob, Idle, claims
  <2>3. CASE job.name = "stop" /\ sent' = FALSE /\ UNCHANGED <<claims, fault, job>>
    BY <1>1, <2>3 DEF claims
  <2>4. job # Idle /\ WorkTypes
    BY TransferIs DEF Types
  <2>5. job.name = "stop" => Len(todo) \in {1, 2}
    BY AtStop DEF Types
  <2> QED BY <1>1, <1>4, <2>1, <2>2, <2>3, <2>4, <2>5, AbandonCases
<1>5. CASE Send /\ sent' = TRUE /\ UNCHANGED <<lease, mask, want, fault, job, todo>>
  BY <1>1, <1>5
<1> QED BY <1>2, <1>3, <1>4, <1>5, TransferIs

LEMMA FedTransfer ==
    ASSUME Types, Stopping, QuietBoard, Fed, JobPhase, Transfers
    PROVE  Fed'
<1>1. UNCHANGED <<age, served>> /\ job # Idle
  BY TransferIs
<1>2. CASE queue' # <<>>
  BY <1>2 DEF Fed
<1>3. CASE sent /\ queue' = queue /\ ~Send
  BY <1>1, <1>3, ClaimsAfter DEF Fed
<1> QED BY <1>2, <1>3, TransferIs DEF VerifyMatches, VerifyDiffers, Send

\* A service leaves both wheels as commanded.
LEMMA ServicePhase ==
    ASSUME Types, Stopping, QuietBoard, JobPhase, Transfers, job.name = "service"
    PROVE  JobPhase'
<1>1. lease /\ ~sent /\ \A m \in Motors : AsCommanded(m, want[m])
  BY DEF JobPhase, Idle
<1>2. Advance /\ Joins(Current.w)
  BY <1>1, TransferIs
<1>3. Current.w = PairWrite(want) /\ Len(todo) = 1
  BY TransferIs, PhaseWrites
<1>4. EndJob /\ want' = want
  BY <1>2, <1>3 DEF Advance, Complete
<1>5. want \in [Motors -> {-1, 0, 1}]
  BY LinkConstants DEF Types, ChassisTypes, NoGoal
<1>6. ASSUME NEW m \in Motors PROVE AsCommanded(m, want[m])'
  <2> DEFINE v == want[m]
  <2>1. v \in {-1, 0, 1} /\ Abs(want[m]) = Abs(v) /\ AsCommanded(m, v) /\ v' = v
    BY <1>1, <1>4, <1>5
  <2> HIDE DEF v
  <2>2. AsCommanded(m, v)'
    BY <1>2, <1>3, <2>1, CommandedAgain
  <2> QED BY <2>1, <2>2 DEF v
<1> QED BY <1>4, <1>6 DEF EndJob, JobPhase

LEMMA StopPhase ==
    ASSUME Types, Stopping, QuietBoard, JobPhase, Transfers, job.name = "stop"
    PROVE  JobPhase'
<1>1. ~lease
  BY DEF JobPhase, Idle
<1>2. ~lease'
  BY <1>1, ClaimsAfter
<1>3. job' = job \/ EndJob
  <2>1. CASE Advance
    BY <2>1 DEF Advance, Complete
  <2>2. CASE Abandon
    <3>1. Len(todo) \in {1, 2}
      BY AtStop DEF Types
    <3> QED BY <2>2, <3>1, TransferIs, AbandonCases DEF Types
  <2> QED BY <2>1, <2>2, TransferIs
<1> QED BY <1>2, <1>3 DEF EndJob, JobPhase

\* On a quiet board a wheel that is told to coast is seen to.
LEMMA CoastPhase ==
    ASSUME Types, Stopping, QuietBoard, JobPhase, Transfers, job.name = "COAST"
    PROVE  JobPhase'
<1> DEFINE m == job.m
<1>1. m \in Motors /\ todo = <<Checked(CoastWrite(m))>> /\ (sent => Coasting(m))
  BY DEF JobPhase, Idle, Types, WorkTypes
<1>2. Len(todo) = 1 /\ Current.w = CoastWrite(m)
  BY <1>1, OneLeft
<1>3. CASE Send
  <2>1. sent' = TRUE /\ UNCHANGED <<job, todo>> /\ Joins(Current.w)
    BY <1>3, TransferIs DEF VerifyMatches, VerifyDiffers, Send
  <2>2. Coasting(m)'
    <3>1. regs' = regs /\ queue \in Seq(Writes) /\ queue' = Append(queue, CoastWrite(m))
      BY <1>2, <2>1, TransferIs DEF Joins
    <3> DEFINE n == m
    <3>2. n \in Motors /\ n' = n
      BY <1>1, <2>1
    <3> HIDE DEF n, m
    <3>3. queue' = Append(queue, CoastWrite(n))
      BY <3>1 DEF n
    <3>4. Coasting(n)'
      BY <3>1, <3>2, <3>3, CoastWriteIs, CoastingAppend
    <3> QED BY <3>2, <3>4 DEF n, m
  <2> QED BY <1>1, <2>1, <2>2 DEF JobPhase
<1>4. CASE Advance
  BY <1>2, <1>4 DEF Advance, Complete, Release, EndJob, JobPhase
<1>5. CASE VerifyDiffers
  <2>1. sent /\ queue = <<>> /\ ~Matches(regs, CoastWrite(m))
    BY <1>2, <1>5 DEF VerifyDiffers
  <2>2. regs[<<"mode", m>>] = "COAST" /\ regs[<<"duty", m>>] = 0
    BY <1>1, <2>1 DEF Coasting, QuietBoard
  <2> QED BY <1>1, <2>1, <2>2, CoastMatches
<1> QED BY <1>3, <1>4, <1>5, TransferIs

LEMMA SpeedPhaseKept ==
    ASSUME Types, Stopping, QuietBoard, JobPhase, Transfers, job.name = "SPEED"
    PROVE  JobPhase'
<1> DEFINE m == job.m
<1>1. /\ m \in Motors /\ want \in [Motors -> {-1, 0, 1}]
      /\ UNCHANGED <<regs, age, warm>>
  BY TransferIs, LinkConstants DEF Types, ChassisTypes, WorkTypes, NoGoal
<1>2. PICK v \in {-1, 1} : SpeedPhase(m, v)
  BY DEF JobPhase, Idle
<1>3. v \in {-1, 0, 1}
  BY <1>2
<1>4. CASE Send
  <2>1. /\ ~sent /\ sent' = TRUE /\ UNCHANGED <<lease, want, job, todo>> /\ Joins(Current.w)
    BY <1>4, TransferIs DEF VerifyMatches, VerifyDiffers, Send
  <2>2. ASSUME lease, NEW k \in Motors \ {m}, AsCommanded(k, want[k]),
               ~Sets(Current.w, <<"mode", k>>), ~Sets(Current.w, <<"dir", k>>),
               ~Sets(Current.w, <<"rpm", k>>)
        PROVE  AsCommanded(k, want[k])'
    <3> DEFINE u == want[k]
               w == Current.w
    <3>1. u \in {-1, 0, 1} /\ u' = u /\ AsCommanded(k, u) /\ k \in Motors
      BY <1>1, <2>1, <2>2
    <3>2. ~Sets(w, <<"mode", k>>) /\ ~Sets(w, <<"dir", k>>) /\ ~Sets(w, <<"rpm", k>>)
      BY <2>2
    <3>3. Joins(w)
      BY <2>1
    <3> HIDE DEF u, w
    <3>4. AsCommanded(k, u)'
      BY <3>1, <3>2, <3>3, CommandedElsewhere
    <3> QED BY <3>1, <3>4 DEF u
  <2>3. CASE /\ todo = <<Checked(RpmWrite(m, v)), Checked(SpeedWrite(m, v))>>
             /\ lease => AsCommanded(m, want[m])
    <3>1. Current.w = RpmWrite(m, v)
      BY <2>3, MoreLeft
    <3>2. ASSUME NEW k \in Motors \ {m}
          PROVE  /\ ~Sets(Current.w, <<"mode", k>>) /\ ~Sets(Current.w, <<"dir", k>>)
                 /\ ~Sets(Current.w, <<"rpm", k>>)
      <4> PICK n \in Motors : n = m
        BY <1>1
      <4>1. Current.w = RpmWrite(n, v) /\ k # n /\ k \in Motors
        BY <3>1
      <4>2. /\ ~Sets(RpmWrite(n, v), <<"mode", k>>) /\ ~Sets(RpmWrite(n, v), <<"dir", k>>)
            /\ ~Sets(RpmWrite(n, v), <<"rpm", k>>)
        BY <4>1, RpmSets
      <4> QED BY <4>1, <4>2
    <3>3. lease => \A k \in Motors \ {m} : AsCommanded(k, want[k])'
      BY <1>2, <2>2, <3>2 DEF SpeedPhase
    <3>4. lease => Raised(m)'
      <4> DEFINE n == m
      <4>1. n \in Motors /\ n' = n /\ Joins(RpmWrite(n, v)) /\ want' = want
            /\ want[n] \in {-1, 0, 1} /\ (lease => AsCommanded(n, want[n]))
        BY <1>1, <2>1, <2>3, <3>1
      <4> HIDE DEF n
      <4>2. lease => Raised(n)'
        BY <4>1, RaisedByRpm
      <4> QED BY <4>1, <4>2 DEF n
    <3>5. SpeedPhase(m, v)'
      BY <2>1, <2>3, <3>3, <3>4 DEF SpeedPhase
    <3> QED BY <2>1, <3>5 DEF JobPhase
  <2>4. CASE /\ todo = <<Checked(SpeedWrite(m, v))>>
             /\ lease => Raised(m)
    <3>1. Current.w = SpeedWrite(m, v)
      BY <2>4, OneLeft
    <3>2. ASSUME NEW k \in Motors \ {m}
          PROVE  /\ ~Sets(Current.w, <<"mode", k>>) /\ ~Sets(Current.w, <<"dir", k>>)
                 /\ ~Sets(Current.w, <<"rpm", k>>)
      <4> PICK n \in Motors : n = m
        BY <1>1
      <4>1. Current.w = SpeedWrite(n, v) /\ k # n /\ k \in Motors
        BY <3>1
      <4>2. /\ ~Sets(SpeedWrite(n, v), <<"mode", k>>) /\ ~Sets(SpeedWrite(n, v), <<"dir", k>>)
            /\ ~Sets(SpeedWrite(n, v), <<"rpm", k>>)
        BY <4>1, SpeedSets
      <4> QED BY <4>1, <4>2
    <3>3. lease => \A k \in Motors \ {m} : AsCommanded(k, want[k])'
      BY <1>2, <2>2, <3>2 DEF SpeedPhase
    <3>4. lease => AsCommanded(m, want[m])' \/ Settling(m, v)'
      <4> DEFINE n == m
      <4>1. n \in Motors /\ n' = n /\ Joins(SpeedWrite(n, v)) /\ want' = want /\ warm' = warm
            /\ want[n] \in {-1, 0, 1} /\ (lease => Raised(n))
        BY <1>1, <2>1, <2>4, <3>1
      <4> HIDE DEF n
      <4>2. lease => AsCommanded(n, want[n])' \/ Settling(n, v)'
        BY <4>1, SettlesBySpeed
      <4> QED BY <4>1, <4>2 DEF n
    <3>5. SpeedPhase(m, v)'
      BY <2>1, <2>4, <3>3, <3>4 DEF SpeedPhase
    <3> QED BY <2>1, <3>5 DEF JobPhase
  <2> QED BY <1>2, <2>1, <2>3, <2>4 DEF SpeedPhase
<1>5. ASSUME queue' = queue, want' = want, NEW k \in Motors
      PROVE  /\ AsCommanded(k, want[k]) => AsCommanded(k, want[k])'
             /\ Raised(k) => Raised(k)'
  <2>1. Keeps(k)
    BY <1>1, <1>5 DEF Keeps
  <2>2. AsCommanded(k, want[k]) => AsCommanded(k, want[k])'
    <3> DEFINE u == want[k]
    <3>1. u' = u
      BY <1>5
    <3> HIDE DEF u
    <3>2. AsCommanded(k, u) => AsCommanded(k, u)'
      BY <2>1, <3>1, CommandedKept
    <3> QED BY <3>2 DEF u
  <2>3. Raised(k) => Raised(k)'
    BY <1>1, <1>5, <2>1, RaisedKept
  <2> QED BY <2>2, <2>3
<1>6. CASE VerifyMatches
  <2>1. sent /\ Advance /\ queue' = queue
    BY <1>6, TransferIs DEF VerifyMatches, VerifyDiffers, Send
  <2>2. CASE /\ todo = <<Checked(RpmWrite(m, v)), Checked(SpeedWrite(m, v))>>
             /\ lease => Raised(m)
    <3>1. Len(todo) # 1 /\ Tail(todo) = <<Checked(SpeedWrite(m, v))>>
      BY <2>2, MoreLeft
    <3>2. todo' = <<Checked(SpeedWrite(m, v))>> /\ sent' = FALSE /\ UNCHANGED <<lease, want, job>>
      BY <2>1, <3>1 DEF Advance
    <3>3. lease => \A k \in Motors \ {m} : AsCommanded(k, want[k])'
      BY <1>2, <1>5, <2>1, <3>2 DEF SpeedPhase
    <3>4. lease => Raised(m)'
      <4> DEFINE n == m
      <4>1. n' = n /\ n \in Motors /\ (lease => Raised(n))
        BY <1>1, <2>2, <3>2
      <4> HIDE DEF n
      <4>2. lease => Raised(n)'
        BY <1>5, <2>1, <3>2, <4>1
      <4> QED BY <4>2 DEF n
    <3>5. SpeedPhase(m, v)'
      BY <3>2, <3>3, <3>4 DEF SpeedPhase
    <3> QED BY <3>2, <3>5 DEF JobPhase
  <2>3. CASE todo = <<Checked(SpeedWrite(m, v))>>
    <3>1. Len(todo) = 1
      BY <2>3, OneLeft
    <3> QED BY <2>1, <3>1 DEF Advance, Complete, Release, EndJob, JobPhase
  <2> QED BY <1>2, <2>1, <2>2, <2>3 DEF SpeedPhase
<1>7. CASE VerifyDiffers
  <2>1. /\ sent /\ queue = <<>> /\ ~Matches(regs, Current.w) /\ EndJob
        /\ UNCHANGED <<lease, want, queue>>
    BY <1>7, TransferIs DEF VerifyDiffers, VerifyMatches, Send, Abandon, claims
  <2>2. ASSUME lease PROVE \A k \in Motors : AsCommanded(k, want[k])
    <3>1. CASE todo = <<Checked(RpmWrite(m, v)), Checked(SpeedWrite(m, v))>> /\ Raised(m)
      <4>1. Current.w = RpmWrite(m, v)
        BY <3>1, MoreLeft
      <4>2. Leaves(0, <<"rpm", m>>, 1)
        <5>1. Abs(1) = 1 /\ Len(queue) = 0
          BY <2>1 DEF Abs
        <5> QED BY <3>1, <5>1 DEF Raised, Paced
      <4>3. regs[<<"rpm", m>>] = 1
        BY <4>2 DEF Leaves
      <4>4. Matches(regs, RpmWrite(m, v))
        BY <1>1, <4>3, RpmMatches
      <4> QED BY <2>1, <4>1, <4>4
    <3>2. CASE todo = <<Checked(SpeedWrite(m, v))>> /\ AsCommanded(m, want[m])
      BY <1>2, <2>2, <3>2 DEF SpeedPhase
    <3>3. CASE todo = <<Checked(SpeedWrite(m, v))>> /\ Settling(m, v)
      <4>1. Current.w = SpeedWrite(m, v)
        BY <3>3, OneLeft
      <4> QED BY <2>1, <3>3, <4>1 DEF Settling
    <3> QED BY <1>2, <2>1, <2>2, <3>1, <3>2, <3>3 DEF SpeedPhase
  <2>3. lease' => \A k \in Motors : AsCommanded(k, want[k])'
    BY <1>5, <2>1, <2>2
  <2> QED BY <2>1, <2>3 DEF EndJob, JobPhase
<1> QED BY <1>4, <1>6, <1>7, TransferIs

LEMMA DrivePhaseKept ==
    ASSUME Types, Stopping, QuietBoard, JobPhase, Transfers, job.name = "drive"
    PROVE  JobPhase'
<1> DEFINE g == job.goal
<1>1. /\ g \in [Motors -> {-1, 0, 1}] /\ want \in [Motors -> {-1, 0, 1}]
      /\ g[1] \in {-1, 0, 1} /\ g[2] \in {-1, 0, 1} /\ 1 \in Motors /\ 2 \in Motors
      /\ UNCHANGED <<regs, age, warm>>
  BY TransferIs, LinkConstants DEF Types, ChassisTypes, WorkTypes, NoGoal, Motors
<1>2. DrivePhase(g)
  BY DEF JobPhase, Idle
<1> DEFINE h == job.goal
<1>3. h = g
  OBVIOUS
<1>4. CASE Send
  <2>1. /\ ~sent /\ sent' = TRUE /\ UNCHANGED <<lease, want, job, todo>> /\ Joins(Current.w)
        /\ g' = g
    BY <1>4, TransferIs DEF VerifyMatches, VerifyDiffers, Send
  <2> HIDE DEF g
  <2>2. CASE /\ todo = <<Checked(PairWrite(g))>> /\ lease
             /\ \A m \in Motors : want[m] * g[m] > 0 /\ AsCommanded(m, want[m])
    <3>1. Joins(PairWrite(g))
      BY <2>1, <2>2, OneLeft
    <3>2. ASSUME NEW m \in Motors PROVE AsCommanded(m, want[m])'
      <4> DEFINE u == want[m]
      <4>1. u \in {-1, 0, 1} /\ g[m] \in {-1, 0, 1} /\ u * g[m] > 0 /\ AsCommanded(m, u) /\ u' = u
        BY <1>1, <2>1, <2>2
      <4>2. Abs(g[m]) = Abs(u)
        BY <4>1 DEF Abs
      <4> HIDE DEF u
      <4>3. AsCommanded(m, u)'
        BY <3>1, <4>1, <4>2, CommandedAgain
      <4> QED BY <4>1, <4>3 DEF u
    <3>3. DrivePhase(g)'
      BY <2>1, <2>2, <3>2 DEF DrivePhase
    <3> QED BY <2>1, <3>3 DEF JobPhase, g
  <2>3. CASE todo = <<Checked(PairWrite(g)), Checked(SpeedWrite(2, g[2])),
                      Checked(SpeedWrite(1, g[1]))>>
    <3>1. Joins(PairWrite(g))
      BY <2>1, <2>3, MoreLeft
    <3>2. ASSUME NEW m \in Motors PROVE Paced(Len(queue), m, g[m])'
      <4> DEFINE u == g[m]
      <4>1. Sets(PairWrite(g), <<"rpm", m>>) /\ Effect(PairWrite(g), <<"rpm", m>>) = Abs(u)
            /\ u' = u
        BY <2>1, PairSets
      <4> HIDE DEF u
      <4>2. Paced(Len(queue), m, u)'
        BY <3>1, <4>1, PacedJoins
      <4> QED BY <4>1, <4>2 DEF u
    <3>3. DrivePhase(g)'
      BY <2>1, <2>3, <3>2 DEF DrivePhase
    <3> QED BY <2>1, <3>3 DEF JobPhase, g
  <2>4. CASE /\ todo = <<Checked(SpeedWrite(2, g[2])), Checked(SpeedWrite(1, g[1]))>>
             /\ \A m \in Motors : Paced(Len(queue), m, g[m])
    <3> DEFINE u == g[2]
               w == SpeedWrite(2, u)
    <3>1. u' = u /\ u \in {-1, 0, 1} /\ Paced(Len(queue), 2, u) /\ Joins(w)
      BY <1>1, <2>1, <2>4, MoreLeft
    <3>2. AsCommanded(2, u)'
      <4> HIDE DEF u
      <4> QED BY <1>1, <3>1, CommandedBySpeed
    <3>3. ASSUME NEW m \in Motors PROVE Paced(Len(queue), m, g[m])'
      <4> DEFINE x == g[m]
      <4>1. x' = x /\ Paced(Len(queue), m, x) /\ ~Sets(w, <<"rpm", m>>)
        BY <1>1, <2>1, <2>4, SpeedSets
      <4> HIDE DEF x, u, w
      <4>2. Paced(Len(queue), m, x)'
        BY <3>1, <4>1, PacedJoins
      <4> QED BY <4>1, <4>2 DEF x
    <3>4. DrivePhase(g)'
      BY <2>1, <2>4, <3>1, <3>2, <3>3 DEF DrivePhase
    <3> QED BY <2>1, <3>4 DEF JobPhase, g
  <2>5. CASE /\ todo = <<Checked(SpeedWrite(1, g[1]))>>
             /\ Paced(Len(queue), 1, g[1]) /\ AsCommanded(2, g[2])
    <3> DEFINE u == g[1]
               x == g[2]
               w == SpeedWrite(1, u)
    <3>1. u' = u /\ u \in {-1, 0, 1} /\ Paced(Len(queue), 1, u) /\ Joins(w)
          /\ x' = x /\ x \in {-1, 0, 1} /\ AsCommanded(2, x)
      BY <1>1, <2>1, <2>5, OneLeft
    <3>2. AsCommanded(1, u)'
      <4> HIDE DEF u
      <4> QED BY <1>1, <3>1, CommandedBySpeed
    <3>3. /\ ~Sets(w, <<"mode", 2>>) /\ ~Sets(w, <<"dir", 2>>)
          /\ ~Sets(w, <<"rpm", 2>>) /\ ~Sets(w, <<"rpm", 1>>)
      <4> HIDE DEF u
      <4>1. ~Sets(w, <<"rpm", 1>>)
        BY <1>1, SpeedSets
      <4>2. 2 # 1 => ~Sets(w, <<"mode", 2>>) /\ ~Sets(w, <<"dir", 2>>) /\ ~Sets(w, <<"rpm", 2>>)
        BY <1>1, SpeedSets
      <4> QED BY <4>1, <4>2
    <3>4. AsCommanded(2, x)'
      <4> HIDE DEF x, w
      <4> QED BY <1>1, <3>1, <3>3, CommandedElsewhere
    <3>5. Paced(Len(queue), 1, u)'
      <4> HIDE DEF u, w
      <4> QED BY <1>1, <3>1, <3>3, PacedJoins
    <3>6. DrivePhase(g)'
      BY <2>1, <2>5, <3>1, <3>2, <3>4, <3>5 DEF DrivePhase
    <3> QED BY <2>1, <3>6 DEF JobPhase, g
  <2> QED BY <1>2, <2>2, <2>3, <2>4, <2>5 DEF DrivePhase
<1>5. ASSUME queue' = queue, NEW m \in Motors
      PROVE  Keeps(m) /\ \A v : Paced(Len(queue), m, v) => Paced(Len(queue), m, v)'
  <2>1. Keeps(m)
    BY <1>1, <1>5 DEF Keeps
  <2>2. ASSUME NEW v, Paced(Len(queue), m, v)
        PROVE  Paced(Len(queue), m, v)'
    BY <1>1, <1>5, <2>2 DEF Paced, Leaves
  <2> QED BY <2>1, <2>2
<1>6. CASE VerifyMatches
  <2>1. sent /\ Advance /\ queue' = queue
    BY <1>6, TransferIs DEF VerifyMatches, VerifyDiffers, Send
  <2>2. CASE /\ todo = <<Checked(PairWrite(g))>>
             /\ \A m \in Motors : want[m] * g[m] > 0 /\ AsCommanded(m, want[m])
    <3>1. Len(todo) = 1
      BY <2>2, OneLeft
    <3>2. EndJob /\ want' = g
      BY <2>1, <3>1 DEF Advance, Complete, ClaimSpeed
    <3>3. ASSUME NEW m \in Motors PROVE AsCommanded(m, want[m])'
      <4> DEFINE u == want[m]
                 x == g[m]
      <4>1. u \in {-1, 0, 1} /\ x \in {-1, 0, 1} /\ u * x > 0 /\ AsCommanded(m, u) /\ u' = x
        BY <1>1, <2>2, <3>2
      <4> HIDE DEF u, x, g
      <4>2. Abs(u) = Abs(x) /\ DirOf(u) = DirOf(x) /\ u # 0 /\ x # 0
        BY <4>1 DEF Abs, DirOf
      <4>3. AsCommanded(m, x)
        BY <4>1, <4>2 DEF AsCommanded, Paced
      <4>4. AsCommanded(m, u)'
        BY <1>5, <2>1, <4>1, <4>3, CommandedKept
      <4> QED BY <4>4 DEF u
    <3> QED BY <3>2, <3>3 DEF EndJob, JobPhase
  <2>3. CASE /\ todo = <<Checked(PairWrite(g)), Checked(SpeedWrite(2, g[2])),
                         Checked(SpeedWrite(1, g[1]))>>
             /\ \A m \in Motors : Paced(Len(queue), m, g[m])
    <3>1. Len(todo) # 1 /\ Tail(todo) = <<Checked(SpeedWrite(2, g[2])), Checked(SpeedWrite(1, g[1]))>>
      BY <2>3, MoreLeft
    <3>2. todo' = Tail(todo) /\ sent' = FALSE /\ job' = job /\ g' = g
      BY <2>1, <3>1 DEF Advance
    <3>3. ASSUME NEW m \in Motors PROVE Paced(Len(queue), m, g[m])'
      <4> DEFINE u == g[m]
      <4>1. u' = u /\ Paced(Len(queue), m, u)
        BY <2>3, <3>2
      <4> HIDE DEF u
      <4>2. Paced(Len(queue), m, u)'
        BY <1>5, <2>1, <4>1
      <4> QED BY <4>2 DEF u
    <3> HIDE DEF g
    <3>4. DrivePhase(g)'
      BY <3>1, <3>2, <3>3 DEF DrivePhase
    <3> QED BY <3>2, <3>4 DEF JobPhase, g
  <2>4. CASE /\ todo = <<Checked(SpeedWrite(2, g[2])), Checked(SpeedWrite(1, g[1]))>>
             /\ \A m \in Motors : Paced(Len(queue), m, g[m])
             /\ AsCommanded(2, g[2])
    <3>1. Len(todo) # 1 /\ Tail(todo) = <<Checked(SpeedWrite(1, g[1]))>>
      BY <2>4, MoreLeft
    <3>2. todo' = Tail(todo) /\ sent' = FALSE /\ job' = job /\ g' = g
      BY <2>1, <3>1 DEF Advance
    <3>3. Paced(Len(queue), 1, g[1])' /\ AsCommanded(2, g[2])'
      <4> DEFINE u == g[1]
                 x == g[2]
      <4>1. u' = u /\ x' = x /\ Paced(Len(queue), 1, u) /\ AsCommanded(2, x)
        BY <1>1, <2>4, <3>2
      <4> HIDE DEF u, x, g
      <4>2. Paced(Len(queue), 1, u)' /\ AsCommanded(2, x)'
        BY <1>1, <1>5, <2>1, <4>1, CommandedKept
      <4> QED BY <4>2 DEF u, x
    <3> HIDE DEF g
    <3>4. DrivePhase(g)'
      BY <3>1, <3>2, <3>3 DEF DrivePhase
    <3> QED BY <3>2, <3>4 DEF JobPhase, g
  <2>5. CASE todo = <<Checked(SpeedWrite(1, g[1]))>> /\ AsCommanded(2, g[2]) /\ AsCommanded(1, g[1])
    <3>1. Len(todo) = 1
      BY <2>5, OneLeft
    <3>2. EndJob /\ want' = g
      BY <2>1, <3>1 DEF Advance, Complete, ClaimSpeed
    <3>3. ASSUME NEW m \in Motors PROVE AsCommanded(m, want[m])'
      <4> DEFINE u == want[m]
                 x == g[m]
      <4>1. AsCommanded(m, x) /\ u' = x
        BY <2>5, <3>2 DEF Motors
      <4> HIDE DEF u, x, g
      <4>2. AsCommanded(m, u)'
        BY <1>5, <2>1, <4>1, CommandedKept
      <4> QED BY <4>2 DEF u
    <3> QED BY <3>2, <3>3 DEF EndJob, JobPhase
  <2> HIDE DEF g
  <2> QED BY <1>2, <2>1, <2>2, <2>3, <2>4, <2>5 DEF DrivePhase
<1>7. CASE VerifyDiffers
  <2>1. Abandon
    BY <1>7 DEF VerifyDiffers
  <2>2. lease' = FALSE /\ job'.name = "stop"
    BY <2>1 DEF Abandon, SafetyStop, Start, ClearClaims
  <2> QED BY <2>2 DEF JobPhase
<1> QED BY <1>4, <1>6, <1>7, TransferIs

LEMMA UndisturbedTransfer ==
    ASSUME Types, Stopping, QuietBoard, Fed, JobPhase, Transfers
    PROVE  Fed' /\ JobPhase'
<1>1. job.name \in {"service", "stop", "COAST", "SPEED", "drive"}
  BY TransferIs, PhaseWrites
<1> QED BY <1>1, FedTransfer, ServicePhase, StopPhase, CoastPhase, SpeedPhaseKept,
           DrivePhaseKept
-----------------------------------------------------------------------------
LEMMA UndisturbedInit == Init => Undisturbed
<1> SUFFICES ASSUME Init PROVE Undisturbed
  OBVIOUS
<1>1. QuietBoard
  BY DEF Init, QuietBoard, AtRest, Registers, Motors
<1>2. Fed
  BY DEF Init, Fed
<1>3. JobPhase
  BY DEF Init, JobPhase
<1>4. QuietWork
  BY DEF Init, QuietWork, Idle
<1> QED BY <1>1, <1>2, <1>3, <1>4 DEF Init, Undisturbed

LEMMA UndisturbedStep ==
    ASSUME LinkInv, Undisturbed, [Next]_vars
    PROVE  Undisturbed'
<1>1. outages' \in Nat /\ trips' \in Nat
  <2>1. UNCHANGED outages \/ outages' = outages + 1
    BY DEF Next, BoardSteps, Apply, Loop, Expire, BoardTrips, Commands, Drive, ShellMotor,
           StopCommand, Arm, Disarm, Tasks, Service, Feedback, HandleFault, RunArmed, Begins, Transfers, Send,
           SendFails, VerifyMatches, VerifyDiffers, ReadPosition, ReadFails, Works, BusFails,
           BusHeals, Tick, bounds, vars
  <2>2. UNCHANGED trips \/ trips' = trips + 1
    BY DEF Next, BoardSteps, Apply, Loop, Expire, BoardTrips, Commands, Drive, ShellMotor,
           StopCommand, Arm, Disarm, Tasks, Service, Feedback, HandleFault, RunArmed, Begins, Transfers, Send,
           SendFails, VerifyMatches, VerifyDiffers, ReadPosition, ReadFails, Works, BusFails,
           BusHeals, Tick, bounds, vars
  <2> QED BY <2>1, <2>2 DEF Undisturbed
<1>2. Healthy' => Healthy /\ ~BusFails /\ ~BoardTrips
  <2>1. BusFails => outages' = outages + 1
    BY DEF BusFails
  <2>2. BoardTrips => trips' = trips + 1 /\ outages' = outages
    BY DEF BoardTrips
  <2>3. ~BusFails => outages' = outages
    BY DEF Next, BoardSteps, Apply, Loop, Expire, BoardTrips, Commands, Drive, ShellMotor,
           StopCommand, Arm, Disarm, Tasks, Service, Feedback, HandleFault, RunArmed, Begins, Transfers, Send,
           SendFails, VerifyMatches, VerifyDiffers, ReadPosition, ReadFails, Works,
           BusHeals, Tick, bounds, vars
  <2>4. ~BoardTrips => trips' = trips
    BY DEF Next, BoardSteps, Apply, Loop, Expire, Commands, Drive, ShellMotor,
           StopCommand, Arm, Disarm, Tasks, Service, Feedback, HandleFault, RunArmed, Begins, Transfers, Send,
           SendFails, VerifyMatches, VerifyDiffers, ReadPosition, ReadFails, Works, BusFails,
           BusHeals, Tick, bounds, vars
  <2>5. outages \in Nat /\ trips \in Nat
    BY DEF Undisturbed
  <2> QED BY <2>1, <2>2, <2>3, <2>4, <2>5 DEF Healthy
<1>4. posed => posed'
  <2>1. ASSUME NEW m, NEW mode, NEW v, ShellMotor(m, mode, v)
        PROVE  posed => posed'
    BY <2>1 DEF ShellMotor
  <2>2. CASE ~\E m \in Motors, mode \in ShellModes, v \in {-1, 1} : ShellMotor(m, mode, v)
    BY <2>2 DEF Next, BoardSteps, Apply, Loop, Expire, BoardTrips, Commands, Drive,
           StopCommand, Arm, Disarm, Tasks, Service, Feedback, HandleFault, RunArmed, Transfers, Send,
           SendFails, VerifyMatches, VerifyDiffers, ReadPosition, ReadFails, Works, BusFails,
           BusHeals, Tick, history, vars
  <2> QED BY <2>1, <2>2
<1>5. ~Tick /\ unserved => unserved'
  <2>1. ASSUME NEW m, NEW mode, NEW v, ShellMotor(m, mode, v)
        PROVE  unserved => unserved'
    BY <2>1 DEF ShellMotor
  <2>2. CASE ~\E m \in Motors, mode \in ShellModes, v \in {-1, 1} : ShellMotor(m, mode, v)
    BY <2>2 DEF Next, BoardSteps, Apply, Loop, Expire, BoardTrips, Commands, Drive,
           StopCommand, Arm, Disarm, Tasks, Service, Feedback, HandleFault, RunArmed, Transfers,
           Send, SendFails, VerifyMatches, VerifyDiffers, ReadPosition, ReadFails, Works,
           BusFails, BusHeals, history, vars
  <2> QED BY <2>1, <2>2
<1>6. ASSUME Healthy', ~posed' PROVE QuietBoard' /\ QuietWork'
  <2>1. Types /\ Stopping /\ QuietBoard /\ QuietWork
    BY <1>2, <1>4, <1>6 DEF LinkInv, Undisturbed
  <2>2. CASE Transfers
    BY <2>1, <2>2, QuietTransfer
  <2>3. CASE Commands \/ Tasks
    BY <1>6, <2>1, <2>3, QuietCommand
  <2>4. CASE Apply \/ (\E m \in Looping : Loop(m)) \/ Expire \/ BusHeals \/ Tick \/ UNCHANGED vars
    BY <2>1, <2>4, QuietStep
  <2> QED BY <1>2, <1>6, <2>2, <2>3, <2>4 DEF Next, BoardSteps
<1>3. ASSUME Healthy', ~posed', ~unserved' PROVE Fed' /\ JobPhase'
  <2>1. Types /\ Stopping /\ QuietBoard /\ QuietWork /\ (~unserved => Fed /\ JobPhase)
    BY <1>2, <1>3, <1>4 DEF LinkInv, Undisturbed
  <2>2. CASE Tick
    BY <1>3, <2>1, <2>2, UndisturbedTick
  <2>3. ASSUME ~Tick PROVE Fed /\ JobPhase
    BY <1>3, <1>5, <2>1, <2>3
  <2>4. CASE (Apply \/ (\E m \in Looping : Loop(m)) \/ Expire) /\ ~Tick
    BY <2>1, <2>3, <2>4, UndisturbedBoard
  <2>5. CASE (Commands \/ Tasks) /\ ~Tick
    BY <1>3, <2>1, <2>3, <2>5, UndisturbedCommand
  <2>6. CASE Transfers /\ ~Tick
    BY <2>1, <2>3, <2>6, UndisturbedTransfer
  <2>7. CASE (UNCHANGED vars \/ BusHeals) /\ ~Tick
    <3>1. UNCHANGED <<regs, queue, age, warm, lease, want, served, job, todo, sent>>
      BY <2>7 DEF BusHeals, vars, board, chassis, claims, work
    <3>2. Fed'
      BY <2>3, <2>7, <3>1 DEF Fed
    <3>3. \A m \in Motors : Keeps(m) /\ (Coasting(m) => Coasting(m)')
      BY <3>1, CoastingKept DEF Keeps
    <3>4. Relies
      BY <3>1, <3>3, ReliesKept
    <3> QED BY <2>1, <2>3, <2>7, <3>1, <3>2, <3>4, PhaseKept
  <2> QED BY <1>2, <1>3, <2>2, <2>4, <2>5, <2>6, <2>7 DEF Next, BoardSteps
<1> QED BY <1>1, <1>3, <1>6 DEF Undisturbed

(* What the queue leaves is what CommandTakesEffect asks of the registers  *)
(* once the board has caught up.                                           *)
LEMMA LeavesFinal ==
    ASSUME BoardTypes, NEW r \in Registers, NEW v, Leaves(Len(queue), r, v)
    PROVE  Final[r] = v
<1> DEFINE n == Len(queue)
<1>1. n \in Nat /\ Touching(r) = {i \in 1..n : Sets(queue[i], r)}
  BY DEF BoardTypes, Touching, Sets
<1>2. Final[r] = IF Touching(r) = {} THEN regs[r] ELSE Applied(regs, queue[Max(Touching(r))])[r]
  BY DEF Final
<1>3. CASE regs[r] = v /\ \A j \in 1..n : ~Sets(queue[j], r)
  BY <1>1, <1>2, <1>3
<1>4. ASSUME NEW i \in 1..n, Sets(queue[i], r), Effect(queue[i], r) = v,
             \A j \in (i + 1)..n : ~Sets(queue[j], r)
      PROVE  Final[r] = v
  <2>1. i \in Touching(r) /\ \A j \in Touching(r) : i >= j
    BY <1>1, <1>4
  <2>2. \A j \in Touching(r) : (\A k \in Touching(r) : j >= k) => j = i
    BY <1>1, <2>1
  <2>3. Max(Touching(r)) = i
    BY <2>1, <2>2 DEF Max
  <2>4. Applied(regs, queue[i])[r] = v
    BY <1>4, AppliedTo
  <2> QED BY <1>2, <2>1, <2>3, <2>4
<1> QED BY <1>3, <1>4 DEF Leaves

LEMMA HeadingFinal ==
    ASSUME BoardTypes, NEW m \in Motors, NEW d, Heading(Len(queue), m, d)
    PROVE  Final[<<"dir", m>>] = d
<1> DEFINE r == <<"dir", m>>
<1>1. r \in Registers
  BY DEF Registers
<1>2. Leaves(Len(queue), r, d)
  BY DEF Heading, Leaves, KeepsHeading
<1> QED BY <1>1, <1>2, LeavesFinal

(* While the chassis holds a speed lease that its service task renews,     *)
(* nothing has disturbed bus or board and no position command has been     *)
(* given, both wheels run in the direction and at the speed commanded      *)
(* (app_main.cpp SetChassisTaskEnabled, chassis.cpp Chassis_SetWheelRpm,  *)
(* motor_driver_client.h RefreshSpeedSigned, the register map and the      *)
(* loops of the board).                                                    *)
THEOREM CommandsTakeEffect == Spec => []CommandTakesEffect
<1>1. LinkInv /\ Undisturbed /\ [Next]_vars => Undisturbed'
  BY UndisturbedStep
<1>2. LinkInv /\ Undisturbed => CommandTakesEffect
  <2> SUFFICES ASSUME LinkInv, Undisturbed, Healthy, ~posed, ~unserved, lease, job = Idle,
                      NEW m \in Motors
               PROVE  /\ Final[<<"mode", m>>] = "SPEED"
                      /\ want[m] # 0 => Final[<<"dir", m>>] = DirOf(want[m])
                      /\ Final[<<"rpm", m>>] = Abs(want[m])
    BY DEF CommandTakesEffect
  <2>1. BoardTypes /\ AsCommanded(m, want[m])
    BY DEF LinkInv, Types, Undisturbed, JobPhase, Idle
  <2>2. <<"mode", m>> \in Registers /\ <<"rpm", m>> \in Registers
    BY DEF Registers
  <2> QED BY <2>1, <2>2, LeavesFinal, HeadingFinal DEF AsCommanded, Runs, Paced
<1> QED BY <1>1, <1>2, UndisturbedInit, LinkInvariant, PTL DEF Spec
=============================================================================
