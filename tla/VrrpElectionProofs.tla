-------------------------- MODULE VrrpElectionProofs -------------------------
(* What VrrpElection promises of the timers of a backup, for every number of  *)
(* routers, every configuration and every bound.                              *)
(*                                                                            *)
(* The argument is about one backup at a time: what is left of its timer and  *)
(* the age of what it heard last make up the time the timer was set to.  The  *)
(* operators below take the configuration as an argument, so that they mean   *)
(* the same before and after a step.                                          *)
EXTENDS VrrpElection, TLAPS

(* The provers a leaf is tried with, in this order, unless it names one. *)
USE SMT, Zenon, Z3T(60)

IntsOf(c) == {c.advert_int[r] : r \in c.routers}
LongestInt(c) == CHOOSE i \in IntsOf(c) : \A j \in IntsOf(c) : j <= i
LongestDown(c) == down_timer_adverts * LongestInt(c) + ((Range - 1) * LongestInt(c)) \div Range
LongestGap(c) == LongestDown(c) + MaxDelay + 1

(* The skew time and the master down time of router r as x *)
Skew(c, r, x) ==
    ((Range - (IF c.priority[r] = Owner THEN Owner ELSE x.effective_priority))
        * x.master_adver_int) \div Range
Down(c, r, x) == down_timer_adverts * x.master_adver_int + Skew(c, r, x)

Vrrp(c) ==
    [state : {"BACK", "MAST", "FAULT", "OFF"}, sands : Int, ms_down_timer : Nat,
     effective_priority : 1 .. Owner, master_adver_int : IntsOf(c), master_saddr : Nat,
     preempt_time : Int, rogue_counter : Int, rogue_timer : Int, rogue_adver_int : Int]
Advert(c) == [prio : 0 .. Owner, int : IntsOf(c), due : 0 .. MaxDelay]
Memory == [prio : {None} \cup 0 .. Owner, age : Nat, held : {None} \cup Nat]

(* The timer of x runs, or ran, for t since what h remembers. *)
Runs(c, x, h, t) == x.sands + h.age >= t \/ h.age >= LongestGap(c)

(* Router r is a backup as x, and h is what it heard last: its timer was set  *)
(* for what it heard, and it is a full master down time unless a master of    *)
(* lower priority was refused.                                                *)
Silence(c, r, x, h) ==
    /\ Runs(c, x, h, x.ms_down_timer)
    /\ \/ h.prio = 0
       \/ h.prio = None /\ c.priority[r] = Owner
       \/ r \notin c.nopreempt /\ h.prio \in 1 .. x.effective_priority - 1
       \/ Runs(c, x, h, Down(c, r, x))

(* It refuses a master of lower priority after the preempt delay only. *)
Counting(c, r, x, h) ==
    x.preempt_time # None =>
       /\ x.preempt_time >= 0 /\ h.held # None
       /\ x.preempt_time + h.held >= c.preempt_delay[r]
Delay(c, r, x, h) ==
    c.preempt_delay[r] > 0 =>
       /\ Counting(c, r, x, h)
       /\ h.prio \in 1 .. x.effective_priority - 1 =>
             Runs(c, x, h, Down(c, r, x)) \/ h.held >= c.preempt_delay[r]

Backup(c, r, x, h) == x.state = "BACK" => Silence(c, r, x, h) /\ Delay(c, r, x, h)

(* It was told that the master stops. *)
Told(c, r, x, h) ==
    x.state = "BACK" /\ h.prio = 0 => x.sands >= 0 /\ x.sands + h.age <= Skew(c, r, x)

(* There was no master for g. *)
Alone(c, x, g) ==
    /\ g <= LongestDown(c) + MaxDelay
    /\ x.state # "BACK" => g = 0
    /\ x.state = "BACK" =>
          /\ x.ms_down_timer <= LongestDown(c) /\ x.sands <= x.ms_down_timer
          /\ x.sands + g <= x.ms_down_timer + MaxDelay

Left(c) == [lost : Nat, stops : Nat, starts : Nat, prios : 0 .. c.prios]
PairsOf(c) == {p \in c.routers \X c.routers : p[1] # p[2]}

Types(c, f, ch, l, g, h) ==
    /\ c \in Setups
    /\ f \in [c.routers -> Vrrp(c)]
    /\ ch \in [PairsOf(c) -> Seq(Advert(c))]
    /\ l \in Left(c)
    /\ g \in [c.routers -> Nat]
    /\ h \in [c.routers -> Memory]

(* The adverts on their way are from before the gap. *)
Gaps(c, f, ch, g) ==
    /\ \A r \in c.routers : Alone(c, f[r], g[r])
    /\ \A r \in c.routers : f[r].state = "MAST" => \A q \in c.routers : g[q] = 0
    /\ \A p \in PairsOf(c) : \A i \in 1 .. Len(ch[p]) : ch[p][i].due + g[p[2]] <= MaxDelay

ElectionInv ==
    /\ Types(conf, rt, chan, left, gap, last)
    /\ \A r \in conf.routers : Backup(conf, r, rt[r], last[r])
    /\ left.prios = conf.prios => \A r \in conf.routers : Told(conf, r, rt[r], last[r])
    /\ Gaps(conf, rt, chan, gap)
------------------------------------------------------------------------------
(* Arithmetic, and the operators of the model as those above.                 *)

LEMMA ProductOrder ==
    ASSUME NEW a \in Nat, NEW b \in Nat, NEW x \in Nat, NEW y \in Nat, a <= x, b <= y
    PROVE  a * b <= x * y /\ a * b \in Nat /\ x * y \in Nat
<1>1. a * b <= x * b
  OBVIOUS
<1>2. x * b <= x * y
  OBVIOUS
<1>3. a * b \in Nat /\ x * b \in Nat /\ x * y \in Nat
  OBVIOUS
<1> QED BY <1>1, <1>2, <1>3

LEMMA QuotientOrder ==
    ASSUME NEW a \in Nat, NEW b \in Nat, NEW n \in Nat, n > 0, a <= b
    PROVE  a \div n <= b \div n /\ a \div n \in Nat /\ b \div n \in Nat
<1>1. a \div n \in Nat /\ b \div n \in Nat
  OBVIOUS
<1>2. a \div n <= b \div n
  OBVIOUS
<1> QED BY <1>1, <1>2

(* There is a longest advert interval. *)
LEMMA Intervals ==
    ASSUME NEW c \in Setups
    PROVE  /\ IntsOf(c) \subseteq Nat \ {0}
           /\ \A r \in c.routers : c.advert_int[r] \in IntsOf(c)
           /\ LongestInt(c) \in Nat
           /\ \A i \in IntsOf(c) : i <= LongestInt(c)
<1>1. Setup(c)
  BY ElectionAssumption
<1>2. /\ IntsOf(c) \subseteq Nat \ {0}
      /\ \A r \in c.routers : c.advert_int[r] \in IntsOf(c)
  BY <1>1 DEF Setup, IntsOf
<1>3. PICK r \in c.routers : \A q \in c.routers : c.advert_int[q] <= c.advert_int[r]
  BY <1>1 DEF Setup
<1>4. c.advert_int[r] \in IntsOf(c) /\ \A j \in IntsOf(c) : j <= c.advert_int[r]
  BY <1>3 DEF IntsOf
<1>5. LongestInt(c) \in IntsOf(c) /\ \A j \in IntsOf(c) : j <= LongestInt(c)
  BY <1>4, Zenon DEF LongestInt
<1> QED BY <1>2, <1>5

(* The master down time of a router is at most the longest one. *)
LEMMA DownTimes ==
    ASSUME NEW c \in Setups, NEW r \in c.routers, NEW x \in Vrrp(c)
    PROVE  /\ Skew(c, r, x) \in Nat /\ Down(c, r, x) \in Nat
           /\ LongestDown(c) \in Nat /\ LongestGap(c) \in Nat
           /\ LongestDown(c) < LongestGap(c)
           /\ Skew(c, r, x) <= LongestDown(c) /\ Down(c, r, x) <= LongestDown(c)
<1> DEFINE i == x.master_adver_int
           l == LongestInt(c)
           d == down_timer_adverts
           p == IF c.priority[r] = Owner THEN Owner ELSE x.effective_priority
           a == (Range - p) * i
           b == (Range - 1) * l
<1>1. Setup(c) /\ d \in Nat /\ Range \in Nat /\ Range > 0 /\ MaxDelay \in Nat
  BY ElectionAssumption
<1>2. i \in Nat /\ l \in Nat /\ i <= l
  BY Intervals DEF Vrrp
<1>3. Range - p \in Nat /\ Range - 1 \in Nat /\ Range - p <= Range - 1
  BY <1>1 DEF Vrrp, Owner
<1>4. a <= b /\ a \in Nat /\ b \in Nat
  <2> HIDE DEF i, l, p
  <2> QED BY <1>2, <1>3, ProductOrder
<1>5. a \div Range <= b \div Range /\ a \div Range \in Nat /\ b \div Range \in Nat
  <2> HIDE DEF a, b
  <2> QED BY <1>1, <1>4, QuotientOrder
<1>6. d * i <= d * l /\ d * i \in Nat /\ d * l \in Nat
  <2> HIDE DEF i, l, d
  <2> QED BY <1>1, <1>2, ProductOrder
<1>7. /\ Skew(c, r, x) = a \div Range
      /\ Down(c, r, x) = d * i + a \div Range
      /\ LongestDown(c) = d * l + b \div Range
      /\ LongestGap(c) = LongestDown(c) + MaxDelay + 1
  BY DEF Skew, Down, LongestDown, LongestGap
<1> HIDE DEF i, l, d, p, a, b
<1>8. PICK u \in Nat, v \in Nat, s \in Nat, t \in Nat :
         u = d * i /\ v = d * l /\ s = a \div Range /\ t = b \div Range
  BY <1>5, <1>6, Zenon
<1>9. u <= v /\ s <= t
  BY <1>5, <1>6, <1>8, Zenon
<1>10. /\ Skew(c, r, x) = s /\ Down(c, r, x) = u + s /\ LongestDown(c) = v + t
       /\ LongestGap(c) = LongestDown(c) + MaxDelay + 1
  BY <1>7, <1>8, Zenon
<1> HIDE DEF Skew, Down, LongestDown, LongestGap
<1> QED BY <1>1, <1>9, <1>10

LEMMA Translation ==
    /\ \A r, x : TimerSkew(r, x) = Skew(conf, r, x) /\ MsDownTimer(r, x) = Down(conf, r, x)
    /\ MaxDown = LongestDown(conf) /\ MaxGap = LongestGap(conf)
    /\ Pairs = PairsOf(conf)
  BY DEF TimerSkew, Skew, MsDownTimer, Down, MaxDown, LongestDown, MaxGap, LongestGap,
         MaxInt, LongestInt, Ints, IntsOf, AdverInt, BasePrio, Routers, Pairs, PairsOf

LEMMA SkewSame ==
    ASSUME NEW c, NEW r, NEW x, NEW y,
           y.effective_priority = x.effective_priority, y.master_adver_int = x.master_adver_int
    PROVE  Skew(c, r, y) = Skew(c, r, x) /\ Down(c, r, y) = Down(c, r, x)
  BY DEF Skew, Down
------------------------------------------------------------------------------
(* What the operations on an instance return.                                 *)

(* y is x but for its timers. *)
Like(x, y) ==
    /\ y.state = x.state /\ y.preempt_time = x.preempt_time
    /\ y.effective_priority = x.effective_priority
    /\ y.master_adver_int = x.master_adver_int

(* A backup whose timer is set to t *)
Set(y, t) == y.state = "BACK" /\ y.ms_down_timer = t /\ y.sands = t

LEMMA InitSandsLemma ==
    ASSUME conf \in Setups, NEW r \in conf.routers, NEW x \in Vrrp(conf)
    PROVE  /\ InitSands(r, x) \in Vrrp(conf) /\ Like(x, InitSands(r, x))
           /\ x.state = "BACK" => Set(InitSands(r, x), x.ms_down_timer)
<1>1. conf.advert_int[r] \in Int
  BY Intervals
<1>2. PICK t \in Int : /\ t = CASE x.state = "MAST" -> conf.advert_int[r]
                                [] x.state = "BACK" -> x.ms_down_timer
                                [] OTHER -> None
                       /\ x.state = "BACK" => t = x.ms_down_timer
  BY <1>1 DEF Vrrp, None
<1>3. InitSands(r, x) = [x EXCEPT !.sands = t]
  BY <1>2, Zenon DEF InitSands, AdverInt
<1>4. [x EXCEPT !.sands = t] \in Vrrp(conf)
  BY DEF Vrrp
<1>5. Like(x, [x EXCEPT !.sands = t])
  BY DEF Like, Vrrp
<1>6. x.state = "BACK" => Set([x EXCEPT !.sands = t], x.ms_down_timer)
  BY <1>2 DEF Set, Vrrp
<1> QED BY <1>3, <1>4, <1>5, <1>6, Zenon

LEMMA LeaveMasterLemma ==
    ASSUME conf \in Setups, NEW r \in conf.routers, NEW x \in Vrrp(conf),
           NEW want \in {"BACK", "FAULT"}
    PROVE  LET y == LeaveMaster(r, x, want)
           IN  /\ y \in Vrrp(conf) /\ y.state = want
               /\ want = "BACK" => Set(y, Down(conf, r, y)) /\ y.preempt_time = None
               /\ y.effective_priority = x.effective_priority
<1>1. PICK ms \in Nat : ms = Down(conf, r, x)
  BY DownTimes
<1>2. PICK pt \in Int : /\ pt = IF want = "BACK" THEN None ELSE x.preempt_time
                        /\ want = "BACK" => pt = None
  BY DEF Vrrp, None
<1>3. PICK rc \in Int : rc = IF x.rogue_timer # None THEN x.rogue_counter ELSE 0
  BY DEF Vrrp
<1>4. PICK no \in Int : no = None
  BY DEF None
<1> DEFINE z == [x EXCEPT !.state = want, !.preempt_time = pt, !.ms_down_timer = ms,
                          !.rogue_timer = no, !.rogue_counter = rc]
           y == InitSands(r, z)
<1>5. LeaveMaster(r, x, want) = y
  BY <1>1, <1>2, <1>3, <1>4, Translation, Zenon DEF LeaveMaster
<1>6. /\ z \in Vrrp(conf) /\ z.state = want /\ z.preempt_time = pt /\ z.ms_down_timer = ms
      /\ z.effective_priority = x.effective_priority
      /\ z.master_adver_int = x.master_adver_int
  BY Zenon DEF Vrrp
<1> HIDE DEF z
<1>7. /\ y \in Vrrp(conf) /\ Like(z, y)
      /\ z.state = "BACK" => Set(y, z.ms_down_timer)
  BY <1>6, InitSandsLemma
<1> HIDE DEF y
<1>8. Down(conf, r, y) = Down(conf, r, x)
  BY <1>6, <1>7, SkewSame DEF Like
<1> QED BY <1>1, <1>2, <1>4, <1>5, <1>6, <1>7, <1>8, Zenon DEF Like

LEMMA LeaveFaultLemma ==
    ASSUME conf \in Setups, NEW r \in conf.routers, NEW x \in Vrrp(conf),
           NEW want \in {"BACK", "FAULT"}
    PROVE  LET y == LeaveFault(r, x, want)
           IN  /\ y \in Vrrp(conf) /\ y.state = want
               /\ want = "BACK" => Set(y, Down(conf, r, y)) /\ y.preempt_time = None
<1>1. PICK ai \in IntsOf(conf) : ai = conf.advert_int[r]
  BY Intervals
<1>2. PICK pt \in Int : /\ pt = IF want = "BACK" THEN None ELSE x.preempt_time
                        /\ want = "BACK" => pt = None
  BY DEF Vrrp, None
<1> DEFINE w == [x EXCEPT !.state = want, !.preempt_time = pt, !.master_adver_int = ai]
<1>3. w \in Vrrp(conf) /\ w.state = want /\ w.preempt_time = pt
  BY Zenon DEF Vrrp
<1>4. LeaveFault(r, x, want) = InitSands(r, [w EXCEPT !.ms_down_timer = Down(conf, r, w)])
  BY <1>1, <1>2, Translation, Zenon DEF LeaveFault, AdverInt
<1> HIDE DEF w
<1>5. PICK ms \in Nat : ms = Down(conf, r, w)
  BY <1>3, DownTimes
<1> DEFINE z == [w EXCEPT !.ms_down_timer = ms]
           y == InitSands(r, z)
<1>6. z \in Vrrp(conf) /\ Like(w, z) /\ z.ms_down_timer = ms
  BY <1>3 DEF Vrrp, Like
<1>7. LeaveFault(r, x, want) = y
  BY <1>4, <1>5, Zenon
<1> HIDE DEF z
<1>8. /\ y \in Vrrp(conf) /\ Like(z, y)
      /\ z.state = "BACK" => Set(y, z.ms_down_timer)
  BY <1>6, InitSandsLemma
<1> HIDE DEF y
<1>9. Down(conf, r, y) = ms
  BY <1>5, <1>6, <1>8, SkewSame DEF Like
<1> QED BY <1>2, <1>3, <1>6, <1>7, <1>8, <1>9, Zenon DEF Like

LEMMA BecomeMasterLemma ==
    ASSUME conf \in Setups, NEW r \in conf.routers, NEW x \in Vrrp(conf)
    PROVE  /\ InitSands(r, BecomeMaster(r, x)) \in Vrrp(conf)
           /\ InitSands(r, BecomeMaster(r, x)).state = "MAST"
<1>1. PICK ef \in 1 .. Owner : ef = IF BasePrio[r] = Owner THEN Owner ELSE x.effective_priority
  BY ElectionAssumption DEF Vrrp, Owner
<1>2. PICK ai \in IntsOf(conf) : ai = IF LogDetail THEN AdverInt[r] ELSE x.master_adver_int
  BY Intervals DEF Vrrp, AdverInt
<1> DEFINE z == [x EXCEPT !.state = "MAST", !.effective_priority = ef, !.master_adver_int = ai]
<1>3. BecomeMaster(r, x) = z
  BY <1>1, <1>2, Zenon DEF BecomeMaster
<1>4. z \in Vrrp(conf) /\ z.state = "MAST"
  BY Zenon DEF Vrrp
<1> HIDE DEF z
<1> QED BY <1>3, <1>4, InitSandsLemma DEF Like

LEMMA StartStateLemma ==
    ASSUME conf \in Setups, NEW r \in conf.routers
    PROVE  LET y == StartState(r)
           IN  /\ y \in Vrrp(conf) /\ y.preempt_time = None
               /\ Set(y, y.ms_down_timer) /\ y.ms_down_timer <= LongestDown(conf)
               /\ conf.priority[r] = Owner \/ y.ms_down_timer = Down(conf, r, y)
<1>1. PICK ef \in 1 .. Owner, ai \in IntsOf(conf) : ef = BasePrio[r] /\ ai = AdverInt[r]
  BY ElectionAssumption, Intervals DEF Setup, BasePrio, AdverInt
<1>2. PICK no \in Int : no = None
  BY DEF None
<1> DEFINE x == [state |-> "BACK", sands |-> no, ms_down_timer |-> 1,
                 effective_priority |-> ef, master_adver_int |-> ai,
                 master_saddr |-> NoRouter, preempt_time |-> no, rogue_counter |-> 0,
                 rogue_timer |-> no, rogue_adver_int |-> 0]
<1>3. x \in Vrrp(conf) /\ x.state = "BACK" /\ x.preempt_time = no /\ x.ms_down_timer = 1
  BY DEF Vrrp, NoRouter
<1>4. StartState(r) = InitSands(r, IF conf.priority[r] = Owner THEN x
                                   ELSE [x EXCEPT !.ms_down_timer = Down(conf, r, x)])
  BY <1>1, <1>2, Translation, Zenon DEF StartState, BasePrio
<1> HIDE DEF x
<1>5. /\ Down(conf, r, x) \in Nat /\ Down(conf, r, x) <= LongestDown(conf)
      /\ LongestDown(conf) \in Nat
  BY <1>3, DownTimes
<1>6. CASE conf.priority[r] = Owner
  <2>1. StartState(r) = InitSands(r, x)
    BY <1>4, <1>6
  <2>2. 1 <= LongestDown(conf)
    <3>1. /\ down_timer_adverts \in Nat /\ 1 <= down_timer_adverts /\ Range \in Nat /\ Range > 0
      BY ElectionAssumption
    <3>2. LongestInt(conf) \in Nat /\ 1 <= LongestInt(conf)
      BY <1>1, Intervals
    <3>3. 1 * 1 <= down_timer_adverts * LongestInt(conf)
          /\ down_timer_adverts * LongestInt(conf) \in Nat
      BY <3>1, <3>2, ProductOrder
    <3>4. ((Range - 1) * LongestInt(conf)) \in Nat
      BY <3>1, <3>2, ProductOrder, Range - 1 \in Nat
    <3>5. ((Range - 1) * LongestInt(conf)) \div Range \in Nat
      BY <3>1, <3>4, QuotientOrder
    <3>6. PICK u \in Nat, v \in Nat : /\ u = down_timer_adverts * LongestInt(conf)
                                      /\ v = ((Range - 1) * LongestInt(conf)) \div Range
      BY <3>3, <3>5, Zenon
    <3>7. 1 * 1 <= u /\ LongestDown(conf) = u + v
      BY <3>3, <3>6, Zenon DEF LongestDown
    <3> QED BY <3>7
  <2> DEFINE y == InitSands(r, x)
  <2>3. y \in Vrrp(conf) /\ Like(x, y) /\ Set(y, x.ms_down_timer)
    BY <1>3, InitSandsLemma
  <2> HIDE DEF y
  <2>4. y.ms_down_timer = 1 /\ y.preempt_time = None /\ Set(y, y.ms_down_timer)
    BY <1>2, <1>3, <2>3 DEF Like, Set
  <2> QED BY <1>6, <2>1, <2>2, <2>3, <2>4 DEF y
<1>7. CASE conf.priority[r] # Owner
  <2>1. PICK ms \in Nat : ms = Down(conf, r, x)
    BY <1>5
  <2> DEFINE z == [x EXCEPT !.ms_down_timer = ms]
             y == InitSands(r, z)
  <2>2. StartState(r) = y
    BY <1>4, <1>7, <2>1
  <2>3. z \in Vrrp(conf) /\ Like(x, z) /\ z.ms_down_timer = ms
    BY <1>3 DEF Vrrp, Like
  <2> HIDE DEF z
  <2>4. y \in Vrrp(conf) /\ Like(z, y) /\ (z.state = "BACK" => Set(y, z.ms_down_timer))
    BY <2>3, InitSandsLemma
  <2> HIDE DEF y
  <2>5. Down(conf, r, y) = ms
    BY <2>1, <2>3, <2>4, SkewSame DEF Like
  <2> QED BY <1>2, <1>3, <1>5, <2>1, <2>2, <2>3, <2>4, <2>5, Zenon DEF Set, Like
<1> QED BY <1>6, <1>7

LEMMA OffStateLemma ==
    ASSUME conf \in Setups, NEW r \in conf.routers
    PROVE  OffState(r) \in Vrrp(conf) /\ OffState(r).state = "OFF"
<1>1. PICK x \in Vrrp(conf) : x = StartState(r)
  BY StartStateLemma
<1>2. PICK no \in Int : no = None
  BY DEF None
<1>3. [x EXCEPT !.state = "OFF", !.sands = no] \in Vrrp(conf)
      /\ [x EXCEPT !.state = "OFF", !.sands = no].state = "OFF"
  BY Zenon DEF Vrrp
<1> QED BY <1>1, <1>2, <1>3, Zenon DEF OffState
------------------------------------------------------------------------------
(* What a backup is after an advert.                                          *)

LEMMA HeardLemma ==
    ASSUME conf \in Setups, NEW r \in conf.routers, NEW x \in Vrrp(conf),
           NEW prio \in 0 .. Owner, last[r] \in Memory
    PROVE  LET h == Heard(r, x, prio)
           IN  /\ h \in Memory /\ h.prio = prio /\ h.age = 0
               /\ prio = 0 => h.held = last[r].held
               /\ prio # 0 /\ conf.preempt_delay[r] # 0 /\ ~(prio >= x.effective_priority)
                     => h.held = IF last[r].held = None THEN 0 ELSE last[r].held
<1>1. PICK k \in {None} \cup Nat :
         /\ k = IF prio = 0 THEN last[r].held
                ELSE IF preempt_delay[r] = 0 \/ prio >= x.effective_priority THEN None
                ELSE IF last[r].held = None THEN 0 ELSE last[r].held
         /\ prio = 0 => k = last[r].held
         /\ prio # 0 /\ conf.preempt_delay[r] # 0 /\ ~(prio >= x.effective_priority)
               => k = IF last[r].held = None THEN 0 ELSE last[r].held
  <2>1. last[r].held \in {None} \cup Nat
    BY DEF Memory
  <2> QED BY <2>1, 0 \in Nat, Zenon DEF preempt_delay
<1>2. Heard(r, x, prio) = [prio |-> prio, age |-> 0, held |-> k]
  BY <1>1, Zenon DEF Heard
<1> DEFINE h == [prio |-> prio, age |-> 0, held |-> k]
<1>3. h \in Memory /\ h.prio = prio /\ h.age = 0 /\ h.held = k
  BY DEF Memory
<1> HIDE DEF h
<1> QED BY <1>1, <1>2, <1>3, Zenon DEF h

(* A backup whose timer is set to a full master down time *)
LEMMA FullTimer ==
    ASSUME NEW c \in Setups, NEW r \in c.routers, NEW y \in Vrrp(c), NEW h \in Memory,
           Set(y, Down(c, r, y)), c.preempt_delay[r] > 0 => Counting(c, r, y, h)
    PROVE  Backup(c, r, y, h)
<1>1. Down(c, r, y) \in Nat /\ h.age \in Nat
  BY DownTimes DEF Memory
<1> HIDE DEF Down
<1> QED BY <1>1 DEF Backup, Silence, Delay, Runs, Set

(* A backup whose timer is not shortened *)
LEMMA LongerTimer ==
    ASSUME NEW c \in Setups, NEW r \in c.routers, NEW x \in Vrrp(c), NEW y \in Vrrp(c),
           NEW h \in Memory, x.state = "BACK", Like(x, y), Set(y, y.ms_down_timer),
           y.sands >= x.sands, Backup(c, r, x, h)
    PROVE  Backup(c, r, y, h)
<1>1. PICK d \in Nat : d = Down(c, r, y) /\ d = Down(c, r, x)
  BY DownTimes, SkewSame DEF Like
<1>2. /\ h.age \in Nat /\ x.sands \in Int /\ y.sands \in Int
      /\ LongestGap(c) \in Nat
  BY DownTimes DEF Memory, Vrrp
<1>3. Runs(c, x, h, d) => Runs(c, y, h, d)
  BY <1>2 DEF Runs
<1>4. Runs(c, y, h, y.ms_down_timer)
  BY <1>2 DEF Runs, Set
<1> QED BY <1>1, <1>3, <1>4 DEF Backup, Silence, Delay, Counting, Like

LEMMA TimeLeftLemma ==
    ASSUME NEW c \in Setups, NEW x \in Vrrp(c)
    PROVE  /\ TimeLeft(x) \in Nat /\ TimeLeft(x) >= x.sands
           /\ x.sands >= 0 => TimeLeft(x) = x.sands
           /\ TimeLeft(x) = 0 \/ TimeLeft(x) = x.sands
  BY DEF TimeLeft, Vrrp

LEMMA RestoredLemma ==
    ASSUME conf \in Setups, NEW r \in conf.routers, NEW x \in Vrrp(conf), NEW q, NEW m
    PROVE  LET y == Restored(r, x, q, m)
           IN  /\ y \in Vrrp(conf) /\ y.state = x.state /\ y.preempt_time = x.preempt_time
               /\ y.sands = x.sands
<1>1. PICK o \in 1 .. Owner : o = Owner
  BY ElectionAssumption DEF Owner
<1>2. [x EXCEPT !.effective_priority = o] \in Vrrp(conf)
  BY DEF Vrrp
<1> DEFINE z == [x EXCEPT !.effective_priority = o]
<1>3. z.state = x.state /\ z.preempt_time = x.preempt_time /\ z.sands = x.sands
  BY DEF Vrrp
<1>4. Restored(r, x, q, m) \in {x, z}
  BY <1>1, Zenon DEF Restored
<1> QED BY Zenon, <1>2, <1>3, <1>4

(* An advert that vrrp_check_packet() rejects *)
LEMMA RejectedAdvert ==
    ASSUME conf \in Setups, NEW r \in conf.routers, NEW q, NEW m,
           NEW x \in Vrrp(conf), x.state = "BACK", x.sands <= LongestDown(conf),
           NEW h \in Memory, Backup(conf, r, x, h), ~CheckPacket(q, r)
    PROVE  LET z == StateBackup(r, x, q, m)
           IN  /\ z \in Vrrp(conf) /\ Set(z, z.ms_down_timer)
               /\ z.ms_down_timer <= LongestDown(conf)
               /\ Backup(conf, r, z, h)
               /\ Told(conf, r, x, h) => Told(conf, r, z, h)
<1>1. PICK t \in Nat : t = TimeLeft(x)
  BY TimeLeftLemma
<1>2. /\ t >= x.sands /\ t <= LongestDown(conf)
      /\ x.sands >= 0 => t = x.sands
  BY <1>1, TimeLeftLemma, DownTimes DEF Vrrp
<1> DEFINE w == [x EXCEPT !.ms_down_timer = t]
           z == InitSands(r, w)
<1>3. StateBackup(r, x, q, m) = z
  BY <1>1, Zenon DEF StateBackup
<1>4. w \in Vrrp(conf) /\ Like(x, w) /\ w.ms_down_timer = t
  BY DEF Vrrp, Like
<1> HIDE DEF w
<1>5. z \in Vrrp(conf) /\ Like(w, z) /\ (w.state = "BACK" => Set(z, w.ms_down_timer))
  BY <1>4, InitSandsLemma
<1> HIDE DEF z
<1>6. z \in Vrrp(conf) /\ Like(x, z) /\ Set(z, t)
  BY <1>4, <1>5 DEF Like
<1>7. Set(z, z.ms_down_timer) /\ z.ms_down_timer = t /\ z.sands = t
  BY <1>6 DEF Set
<1>8. Backup(conf, r, z, h)
  BY <1>2, <1>6, <1>7, LongerTimer
<1>9. Told(conf, r, x, h) => Told(conf, r, z, h)
  <2>1. Skew(conf, r, z) = Skew(conf, r, x)
    BY <1>6, SkewSame DEF Like
  <2> QED BY <1>2, <1>6, <1>7, <2>1 DEF Told, Like
<1> QED BY <1>2, <1>3, <1>6, <1>7, <1>8, <1>9

(* Priority 0: the skew time is left. *)
LEMMA StoppingAdvert ==
    ASSUME conf \in Setups, NEW r \in conf.routers,
           NEW y \in Vrrp(conf), y.state = "BACK", last[r] \in Memory,
           conf.preempt_delay[r] > 0 => Counting(conf, r, y, last[r])
    PROVE  LET z == InitSands(r, Stopping(r, y))
               h == Heard(r, y, 0)
           IN  /\ z \in Vrrp(conf) /\ Set(z, z.ms_down_timer)
               /\ z.ms_down_timer <= LongestDown(conf)
               /\ h \in Memory /\ Backup(conf, r, z, h) /\ Told(conf, r, z, h)
<1>1. PICK t \in Nat : t = Skew(conf, r, y) /\ t <= LongestDown(conf)
  BY DownTimes
<1> DEFINE w == [y EXCEPT !.ms_down_timer = t]
           z == InitSands(r, w)
           h == Heard(r, y, 0)
<1>2. Stopping(r, y) = w
  BY <1>1, Translation, Zenon DEF Stopping
<1>3. w \in Vrrp(conf) /\ Like(y, w) /\ w.ms_down_timer = t
  BY DEF Vrrp, Like
<1> HIDE DEF w
<1>4. z \in Vrrp(conf) /\ Like(w, z) /\ (w.state = "BACK" => Set(z, w.ms_down_timer))
  BY <1>3, InitSandsLemma
<1>5. 0 \in 0 .. Owner
  BY ElectionAssumption DEF Owner
<1>6. h \in Memory /\ h.prio = 0 /\ h.age = 0 /\ h.held = last[r].held
  BY <1>5, HeardLemma
<1> HIDE DEF z, h
<1>7. z \in Vrrp(conf) /\ Like(y, z) /\ Set(z, t) /\ Set(z, z.ms_down_timer)
  BY <1>3, <1>4 DEF Like, Set
<1>8. Skew(conf, r, z) = t
  BY <1>1, <1>7, SkewSame DEF Like
<1>9. Told(conf, r, z, h)
  BY <1>6, <1>7, <1>8 DEF Told, Set
<1>10. Backup(conf, r, z, h)
  <2>1. Runs(conf, z, h, z.ms_down_timer)
    BY <1>6, <1>7 DEF Runs, Set
  <2>2. conf.preempt_delay[r] > 0 => Counting(conf, r, z, h)
    BY <1>6, <1>7 DEF Counting, Like
  <2> QED BY <1>6, <2>1, <2>2 DEF Backup, Silence, Delay
<1> QED BY <1>1, <1>2, <1>6, <1>7, <1>9, <1>10 DEF z, h, Set

(* An advert of the master *)
LEMMA AcceptedAdvert ==
    ASSUME conf \in Setups, NEW r \in conf.routers, NEW q \in conf.routers,
           NEW y \in Vrrp(conf), y.state = "BACK", last[r] \in Memory,
           conf.preempt_delay[r] > 0 => Counting(conf, r, y, last[r]),
           NEW m \in Advert(conf), m.prio # 0
    PROVE  LET z == InitSands(r, Accepted(r, y, q, m))
               h == Heard(r, y, m.prio)
           IN  /\ z \in Vrrp(conf) /\ Set(z, z.ms_down_timer)
               /\ z.ms_down_timer <= LongestDown(conf)
               /\ h \in Memory /\ Backup(conf, r, z, h) /\ Told(conf, r, z, h)
<1>1. PICK ai \in IntsOf(conf), p \in 0 .. Owner : ai = m.int /\ p = m.prio
  BY DEF Advert
<1>2. conf.preempt_delay[r] \in Nat /\ q \in Nat
  BY ElectionAssumption DEF Setup
<1>3. PICK pt \in Int :
         /\ pt = PreemptTime(r, y, p)
         /\ pt = IF conf.preempt_delay[r] = 0 THEN y.preempt_time
                 ELSE IF p >= y.effective_priority THEN None
                 ELSE IF y.preempt_time = None THEN conf.preempt_delay[r]
                 ELSE y.preempt_time
  <2>1. y.preempt_time \in Int /\ None \in Int /\ conf.preempt_delay[r] \in Int
    BY <1>2 DEF Vrrp, None
  <2> QED BY <2>1, Zenon DEF PreemptTime, preempt_delay
<1> DEFINE v == [y EXCEPT !.master_adver_int = ai]
<1>4. v \in Vrrp(conf) /\ v.state = "BACK"
  BY DEF Vrrp
<1>5. PICK t \in Nat : t = Down(conf, r, v) /\ t <= LongestDown(conf)
  BY <1>4, DownTimes
<1> DEFINE w == [v EXCEPT !.ms_down_timer = t, !.master_saddr = q, !.preempt_time = pt]
           z == InitSands(r, w)
           h == Heard(r, y, p)
<1>6. Accepted(r, y, q, m) = w
  BY <1>1, <1>3, <1>5, Translation, Zenon DEF Accepted
<1> HIDE DEF v
<1>7. /\ w \in Vrrp(conf) /\ w.state = "BACK" /\ w.ms_down_timer = t /\ w.preempt_time = pt
      /\ w.effective_priority = v.effective_priority
      /\ w.master_adver_int = v.master_adver_int
  BY Zenon, <1>2, <1>4 DEF Vrrp
<1> HIDE DEF w
<1>8. z \in Vrrp(conf) /\ Like(w, z) /\ Set(z, w.ms_down_timer)
  BY <1>7, InitSandsLemma
<1>9. /\ h \in Memory /\ h.prio = p
      /\ conf.preempt_delay[r] # 0 /\ ~(p >= y.effective_priority)
            => h.held = IF last[r].held = None THEN 0 ELSE last[r].held
  BY <1>1, HeardLemma
<1> HIDE DEF z, h
<1>10. Set(z, t) /\ z.preempt_time = pt
  BY <1>7, <1>8 DEF Like
<1>11. Down(conf, r, z) = t
  BY <1>5, <1>7, <1>8, SkewSame DEF Like
<1>12. conf.preempt_delay[r] > 0 => Counting(conf, r, z, h)
  <2>1. PICK e \in Nat : e = y.effective_priority
    BY ElectionAssumption DEF Vrrp, Owner
  <2>2. PICK k \in {None} \cup Nat : k = last[r].held
    BY DEF Memory
  <2>3. PICK d \in Nat : d = conf.preempt_delay[r]
    BY <1>2
  <2>4. PICK s \in Int : s = y.preempt_time
    BY DEF Vrrp
  <2>5. SUFFICES ASSUME d > 0, pt # None
                 PROVE  pt >= 0 /\ h.held # None /\ pt + h.held >= d
    BY <1>10, <2>3 DEF Counting
  <2>6. ~(p >= e) /\ pt = (IF s = None THEN d ELSE s)
    BY <1>3, <2>1, <2>3, <2>4, <2>5
  <2>7. s # None => s >= 0 /\ k # None /\ s + k >= d
    BY <2>2, <2>3, <2>4, <2>5 DEF Counting
  <2>8. h.held = IF k = None THEN 0 ELSE k
    BY <1>9, <2>1, <2>2, <2>3, <2>5, <2>6
  <2> QED BY <2>5, <2>6, <2>7, <2>8 DEF None
<1>13. Backup(conf, r, z, h)
  BY <1>8, <1>9, <1>10, <1>11, <1>12, FullTimer
<1>14. Told(conf, r, z, h)
  BY <1>1, <1>9 DEF Told
<1>15. Set(z, z.ms_down_timer) /\ z.ms_down_timer <= LongestDown(conf)
  BY <1>5, <1>10 DEF Set
<1> QED BY <1>1, <1>6, <1>8, <1>9, <1>13, <1>14, <1>15 DEF z, h

(* An advert that the backup does not accept *)
LEMMA RefusedAdvert ==
    ASSUME conf \in Setups, NEW r \in conf.routers, NEW q \in conf.routers,
           NEW y \in Vrrp(conf), y.state = "BACK", y.sands <= LongestDown(conf),
           last[r] \in Memory,
           conf.preempt_delay[r] > 0 => Counting(conf, r, y, last[r]),
           NEW m \in Advert(conf), m.prio # 0, ~Accepts(r, y, m.prio)
    PROVE  LET z == InitSands(r, [y EXCEPT !.ms_down_timer = TimeLeft(y), !.master_saddr = q])
               h == Heard(r, y, m.prio)
           IN  /\ z \in Vrrp(conf) /\ Set(z, z.ms_down_timer)
               /\ z.ms_down_timer <= LongestDown(conf)
               /\ h \in Memory /\ Backup(conf, r, z, h) /\ Told(conf, r, z, h)
<1>1. PICK p \in 0 .. Owner : p = m.prio
  BY DEF Advert
<1>2. conf.preempt_delay[r] \in Nat /\ q \in Nat
  BY ElectionAssumption DEF Setup
<1>3. PICK t \in Nat : t = TimeLeft(y) /\ t <= LongestDown(conf)
  BY TimeLeftLemma, DownTimes DEF Vrrp
<1> DEFINE w == [y EXCEPT !.ms_down_timer = t, !.master_saddr = q]
           z == InitSands(r, w)
           h == Heard(r, y, p)
<1>4. w \in Vrrp(conf) /\ Like(y, w) /\ w.ms_down_timer = t
  BY Zenon, <1>2 DEF Vrrp, Like
<1>5. w = [y EXCEPT !.ms_down_timer = TimeLeft(y), !.master_saddr = q]
  BY <1>3, Zenon
<1> HIDE DEF w
<1>6. z \in Vrrp(conf) /\ Like(w, z) /\ (w.state = "BACK" => Set(z, w.ms_down_timer))
  BY <1>4, InitSandsLemma
<1>7. /\ h \in Memory /\ h.prio = p /\ h.age = 0
      /\ conf.preempt_delay[r] # 0 /\ ~(p >= y.effective_priority)
            => h.held = IF last[r].held = None THEN 0 ELSE last[r].held
  BY <1>1, HeardLemma
<1> HIDE DEF z, h
<1>8. Like(y, z) /\ Set(z, t) /\ Set(z, z.ms_down_timer) /\ z.ms_down_timer <= LongestDown(conf)
  BY <1>3, <1>4, <1>6 DEF Like, Set
<1>9. /\ r \notin conf.nopreempt
      /\ ~(p >= y.effective_priority)
      /\ conf.preempt_delay[r] > 0 => y.preempt_time # None /\ ~(y.preempt_time > 0)
  BY <1>1, Zenon DEF Accepts, NoPreempt, preempt_delay
<1>10. h.prio \in 1 .. z.effective_priority - 1
  BY <1>1, <1>7, <1>8, <1>9, ElectionAssumption DEF Like, Vrrp, Owner
<1>11. Silence(conf, r, z, h)
  <2>1. Runs(conf, z, h, z.ms_down_timer)
    BY <1>7, <1>8 DEF Runs, Set
  <2> QED BY <1>9, <1>10, <2>1 DEF Silence
<1>12. Delay(conf, r, z, h)
  <2>1. SUFFICES ASSUME conf.preempt_delay[r] > 0
                 PROVE  Counting(conf, r, z, h) /\ h.held >= conf.preempt_delay[r]
    BY Zenon DEF Delay
  <2>2. y.preempt_time = 0 /\ last[r].held # None /\ last[r].held >= conf.preempt_delay[r]
    BY <1>2, <1>9, <2>1 DEF Counting, Vrrp, Memory, None
  <2>3. h.held = last[r].held
    BY <1>2, <1>7, <1>9, <2>1, <2>2
  <2>4. z.preempt_time = 0
    BY <1>8, <2>2 DEF Like
  <2>5. last[r].held \in Nat
    BY <2>2 DEF Memory
  <2> QED BY <2>2, <2>3, <2>4, <2>5, <1>2 DEF Counting
<1>13. Backup(conf, r, z, h)
  BY <1>11, <1>12 DEF Backup
<1>14. Told(conf, r, z, h)
  BY <1>1, <1>7 DEF Told
<1> QED BY <1>1, <1>5, <1>6, <1>7, <1>8, <1>13, <1>14 DEF z, h

LEMMA StateBackupLemma ==
    ASSUME conf \in Setups, NEW r \in conf.routers, NEW q \in conf.routers,
           NEW x \in Vrrp(conf), x.state = "BACK", x.sands <= LongestDown(conf),
           last[r] \in Memory, Backup(conf, r, x, last[r]), NEW m \in Advert(conf)
    PROVE  LET z == StateBackup(r, x, q, m)
               h == IF CheckPacket(q, r) THEN Heard(r, Restored(r, x, q, m), m.prio)
                    ELSE last[r]
           IN  /\ z \in Vrrp(conf) /\ Set(z, z.ms_down_timer)
               /\ z.ms_down_timer <= LongestDown(conf)
               /\ h \in Memory /\ Backup(conf, r, z, h)
               /\ Told(conf, r, x, last[r]) => Told(conf, r, z, h)
<1>1. CASE ~CheckPacket(q, r)
  BY <1>1, RejectedAdvert, Zenon
<1>2. CASE CheckPacket(q, r)
  <2>1. PICK y \in Vrrp(conf) :
           y = Restored(r, x, q, m) /\ y.state = "BACK" /\ y.preempt_time = x.preempt_time
             /\ y.sands = x.sands
    BY RestoredLemma
  <2>2. y.sands <= LongestDown(conf) /\ TimeLeft(y) = TimeLeft(x)
    BY <2>1 DEF TimeLeft
  <2>3. conf.preempt_delay[r] > 0 => Counting(conf, r, y, last[r])
    BY <2>1 DEF Backup, Delay, Counting
  <2>4. CASE m.prio = 0
    <3>1. StateBackup(r, x, q, m) = InitSands(r, Stopping(r, y))
      BY <1>2, <2>1, <2>4, Zenon DEF StateBackup
    <3> QED BY <1>2, <2>1, <2>3, <2>4, <3>1, StoppingAdvert, Zenon
  <2>5. CASE m.prio # 0 /\ Accepts(r, y, m.prio)
    <3>1. StateBackup(r, x, q, m) = InitSands(r, Accepted(r, y, q, m))
      BY <1>2, <2>1, <2>5, Zenon DEF StateBackup
    <3> QED BY <1>2, <2>1, <2>3, <2>5, <3>1, AcceptedAdvert, Zenon
  <2>6. CASE m.prio # 0 /\ ~Accepts(r, y, m.prio)
    <3> DEFINE z == InitSands(r, [y EXCEPT !.ms_down_timer = TimeLeft(y), !.master_saddr = q])
               h == Heard(r, y, m.prio)
    <3>1. StateBackup(r, x, q, m) = z
      BY <1>2, <2>1, <2>2, <2>6, Zenon DEF StateBackup
    <3>2. /\ z \in Vrrp(conf) /\ Set(z, z.ms_down_timer)
          /\ z.ms_down_timer <= LongestDown(conf)
          /\ h \in Memory /\ Backup(conf, r, z, h) /\ Told(conf, r, z, h)
      BY Zenon, <2>1, <2>2, <2>3, <2>6, RefusedAdvert
    <3> HIDE DEF z
    <3> QED BY <1>2, <2>1, <3>1, <3>2, Zenon
  <2> QED BY <2>4, <2>5, <2>6, Zenon
<1> QED BY <1>1, <1>2, Zenon

LEMMA OwnerConflictLemma ==
    ASSUME conf \in Setups, NEW r, NEW x \in Vrrp(conf), NEW q, NEW m \in Advert(conf)
    PROVE  LET y == OwnerConflict(r, x, q, m)
           IN  y \in Vrrp(conf) /\ y.state = x.state
<1>1. PICK no \in Int, o \in 1 .. Owner : no = None /\ o = Owner - 1
  BY ElectionAssumption DEF None, Owner
<1>2. PICK ct \in Int, ai \in Int :
         ct = (IF x.rogue_counter = 0 THEN 2 ELSE x.rogue_counter) /\ ai = m.int
  BY Intervals DEF Vrrp, Advert
<1> DEFINE u == [x EXCEPT !.rogue_timer = no, !.effective_priority = o]
           v == [x EXCEPT !.rogue_counter = ct, !.rogue_adver_int = ai]
<1>3. OwnerConflict(r, x, q, m) \in {x, u, v}
  BY <1>1, <1>2, Zenon DEF OwnerConflict
<1>4. /\ u \in Vrrp(conf) /\ u.state = x.state
      /\ v \in Vrrp(conf) /\ v.state = x.state
  BY Zenon DEF Vrrp
<1> QED BY Zenon, <1>3, <1>4

(* A master that reads an advert stays one or becomes backup with a full timer. *)
LEMMA StateMasterRxLemma ==
    ASSUME conf \in Setups, NEW r \in conf.routers, NEW q \in conf.routers,
           NEW x \in Vrrp(conf), x.state = "MAST", NEW m \in Advert(conf)
    PROVE  LET z == StateMasterRx(r, x, q, m)
           IN  /\ z \in Vrrp(conf) /\ z.state \in {"MAST", "BACK"}
               /\ z.state = "BACK" =>
                     /\ CheckPacket(q, r) /\ m.prio # 0
                     /\ Set(z, Down(conf, r, z)) /\ z.preempt_time = None
<1>1. PICK y \in Vrrp(conf) :
         /\ y.state = "MAST"
         /\ y = IF CheckPacket(q, r) /\ m.prio # 0 THEN OwnerConflict(r, x, q, m) ELSE x
  BY OwnerConflictLemma
<1>2. CASE CheckPacket(q, r) /\ Higher(r, y, q, m)
  <2>1. m.prio # 0
    BY <1>2, ElectionAssumption DEF Higher, Vrrp, Advert, Owner
  <2>2. PICK ai \in IntsOf(conf), s \in Nat : ai = m.int /\ s = q
    BY ElectionAssumption DEF Advert, Setup
  <2>3. PICK u \in Vrrp(conf) : u = [y EXCEPT !.master_adver_int = ai, !.master_saddr = s]
    BY Zenon DEF Vrrp
  <2>4. StateMasterRx(r, x, q, m) = LeaveMaster(r, u, "BACK")
    BY <1>1, <1>2, <2>2, <2>3, Zenon DEF StateMasterRx
  <2> DEFINE z == LeaveMaster(r, u, "BACK")
  <2>5. /\ z \in Vrrp(conf) /\ z.state = "BACK"
        /\ Set(z, Down(conf, r, z)) /\ z.preempt_time = None
    BY LeaveMasterLemma
  <2> HIDE DEF z
  <2> QED BY <1>2, <2>1, <2>4, <2>5 DEF z
<1>3. CASE ~(CheckPacket(q, r) /\ Higher(r, y, q, m))
  <2>1. StateMasterRx(r, x, q, m) \in {InitSands(r, y), y}
    BY <1>1, <1>3, Zenon DEF StateMasterRx
  <2>2. InitSands(r, y) \in Vrrp(conf) /\ InitSands(r, y).state = "MAST"
    BY Zenon, <1>1, InitSandsLemma DEF Like
  <2>3. PICK z \in Vrrp(conf) : z = StateMasterRx(r, x, q, m) /\ z.state = "MAST"
    BY <1>1, <2>1, <2>2
  <2> QED BY <2>3
<1> QED BY <1>2, <1>3, Zenon

LEMMA ShortSequences ==
    ASSUME NEW S, NEW a \in S
    PROVE  <<>> \in Seq(S) /\ <<a>> \in Seq(S) /\ <<a, a>> \in Seq(S)
  OBVIOUS

(* Priority 0, which says that a master resigns, is a priority. *)
LEMMA PriorityZero == 0 \in 0 .. Owner
  BY ElectionAssumption DEF Owner

LEMMA MasterRepliesLemma ==
    ASSUME conf \in Setups, NEW r \in conf.routers, NEW q,
           NEW x \in Vrrp(conf), NEW m \in Advert(conf)
    PROVE  MasterReplies(r, x, q, m) \in Seq(0 .. Owner)
<1>1. PICK y \in Vrrp(conf) : y = OwnerConflict(r, x, q, m)
  BY OwnerConflictLemma
<1>2. PICK a \in 0 .. Owner, b \in 0 .. Owner :
         a = x.effective_priority /\ b = y.effective_priority
  BY ElectionAssumption DEF Vrrp, Owner
<1>3. MasterReplies(r, x, q, m) \in {<<>>, <<a>>, <<b>>}
  BY <1>1, <1>2, Zenon DEF MasterReplies
<1> QED BY Zenon, <1>3, ShortSequences
------------------------------------------------------------------------------
(* The network.                                                               *)

LEMMA SequenceElement ==
    ASSUME NEW S, NEW s \in Seq(S), NEW i \in 1 .. Len(s)
    PROVE  s[i] \in S
  OBVIOUS

LEMMA FunctionSequence ==
    ASSUME NEW S, NEW n \in Nat, NEW f, f = [i \in 1 .. n |-> f[i]],
           \A i \in 1 .. n : f[i] \in S
    PROVE  f \in Seq(S) /\ Len(f) = n
  OBVIOUS

LEMMA SentLemma ==
    ASSUME conf \in Setups, NEW r \in conf.routers,
           NEW ch \in [PairsOf(conf) -> Seq(Advert(conf))], NEW ps \in Seq(0 .. Owner)
    PROVE  /\ Sent(ch, r, ps) \in [PairsOf(conf) -> Seq(Advert(conf))]
           /\ \A p \in PairsOf(conf) : \A i \in 1 .. Len(Sent(ch, r, ps)[p]) :
                 \/ i \in 1 .. Len(ch[p]) /\ Sent(ch, r, ps)[p][i] = ch[p][i]
                 \/ ps # <<>> /\ Sent(ch, r, ps)[p][i].due = MaxDelay
<1>1. PICK a \in IntsOf(conf), d \in 0 .. MaxDelay : a = AdverInt[r] /\ d = MaxDelay
  BY Intervals, ElectionAssumption DEF AdverInt
<1> DEFINE new == [i \in DOMAIN ps |-> [prio |-> ps[i], int |-> a, due |-> d]]
           out == [p \in PairsOf(conf) |-> IF p[1] # r THEN ch[p] ELSE ch[p] \o new]
<1>2. Sent(ch, r, ps) = out
  BY <1>1, Translation, Zenon DEF Sent
<1>3. /\ new \in Seq(Advert(conf)) /\ Len(new) = Len(ps)
      /\ \A i \in 1 .. Len(new) : new[i].due = d /\ ps # <<>>
  <2>1. Len(ps) \in Nat /\ DOMAIN ps = 1 .. Len(ps)
    OBVIOUS
  <2>2. DOMAIN new = 1 .. Len(ps)
    BY <2>1
  <2>3. \A i \in 1 .. Len(ps) : new[i] \in Advert(conf) /\ new[i].due = d
    <3> SUFFICES ASSUME NEW i \in 1 .. Len(ps)
                 PROVE  new[i] \in Advert(conf) /\ new[i].due = d
      BY Zenon
    <3>1. PICK p \in 0 .. Owner : p = ps[i]
      BY SequenceElement, Zenon
    <3>2. new[i] = [prio |-> p, int |-> a, due |-> d]
      BY <2>1, <3>1, Zenon
    <3>3. [prio |-> p, int |-> a, due |-> d] \in Advert(conf)
      BY DEF Advert
    <3> QED BY <3>2, <3>3
  <2>4. new = [i \in 1 .. Len(ps) |-> new[i]]
    BY <2>1, Zenon
  <2> HIDE DEF new
  <2>5. new \in Seq(Advert(conf)) /\ Len(new) = Len(ps)
    BY <2>1, <2>2, <2>3, <2>4, FunctionSequence
  <2>6. ps = <<>> => Len(ps) = 0
    OBVIOUS
  <2> QED BY <2>1, <2>3, <2>5, <2>6
<1> HIDE DEF new
<1>4. out \in [PairsOf(conf) -> Seq(Advert(conf))]
  BY <1>3
<1>5. ASSUME NEW p \in PairsOf(conf), NEW i \in 1 .. Len(out[p])
      PROVE  \/ i \in 1 .. Len(ch[p]) /\ out[p][i] = ch[p][i]
             \/ ps # <<>> /\ out[p][i].due = MaxDelay
  <2>1. CASE p[1] # r
    BY <2>1, <1>5
  <2>2. CASE p[1] = r
    <3>1. PICK s \in Seq(Advert(conf)) : s = ch[p]
      BY Zenon
    <3>2. out[p] = s \o new
      BY <2>2, <3>1, Zenon
    <3>3. i \in 1 .. Len(s) + Len(new)
      BY <1>3, <1>5, <3>2
    <3>4. CASE i <= Len(s)
      BY <1>3, <3>1, <3>2, <3>3, <3>4
    <3>5. CASE i > Len(s)
      <4>1. i - Len(s) \in 1 .. Len(new) /\ (s \o new)[i] = new[i - Len(s)]
        BY <1>3, <3>3, <3>5
      <4> QED BY <1>1, <1>3, <3>2, <4>1
    <3> QED BY <3>3, <3>4, <3>5
  <2> QED BY <2>1, <2>2
<1> HIDE DEF out
<1> QED BY <1>2, <1>4, <1>5, Zenon

------------------------------------------------------------------------------
(* The invariant.                                                             *)

(* A shorter gap disturbs nothing. *)
LEMMA ShorterGap ==
    ASSUME NEW c \in Setups, NEW x \in Vrrp(c), NEW g \in Nat, Alone(c, x, g),
           NEW r \in c.routers
    PROVE  Alone(c, x, 0)
<1>1. LongestDown(c) \in Nat /\ MaxDelay \in Nat
  BY DownTimes, ElectionAssumption
<1> QED BY <1>1 DEF Alone, Vrrp

(* A timer that is set while an advert can still arrive *)
LEMMA SetInTime ==
    ASSUME NEW c \in Setups, NEW r \in c.routers, NEW x \in Vrrp(c), NEW g \in Nat,
           Set(x, x.ms_down_timer), x.ms_down_timer <= LongestDown(c), g <= MaxDelay
    PROVE  Alone(c, x, g)
<1>1. LongestDown(c) \in Nat /\ MaxDelay \in Nat
  BY DownTimes, ElectionAssumption
<1> QED BY <1>1 DEF Alone, Vrrp, Set

(* One router goes to state x, after it heard h, and sends. *)
LEMMA StepKeepsInv ==
    ASSUME ElectionInv, conf' = conf,
           NEW r \in conf.routers, NEW x \in Vrrp(conf),
           NEW ch \in [PairsOf(conf) -> Seq(Advert(conf))],
           NEW ps \in Seq(0 .. Owner), NEW h \in Memory, Step(r, x, ch, ps, h),
           left' \in Left(conf),
           left'.prios = conf.prios => left.prios = conf.prios /\ Told(conf, r, x, h),
           Backup(conf, r, x, h), x.state = "BACK" => Alone(conf, x, gap[r]),
           \A p \in PairsOf(conf) : \A i \in 1 .. Len(ch[p]) :
              ch[p][i].due + gap[p[2]] <= MaxDelay,
           ps # <<>> => rt[r].state = "MAST" \/ x.state = "MAST"
    PROVE  ElectionInv'
<1>1. /\ conf \in Setups /\ rt \in [conf.routers -> Vrrp(conf)]
      /\ gap \in [conf.routers -> Nat] /\ last \in [conf.routers -> Memory]
  BY DEF ElectionInv, Types
<1>2. /\ rt' = [rt EXCEPT ![r] = x] /\ last' = [last EXCEPT ![r] = h]
      /\ chan' = Sent(ch, r, ps)
  BY DEF Step
<1>3. /\ rt' \in [conf.routers -> Vrrp(conf)] /\ rt'[r] = x
      /\ \A q \in conf.routers : q # r => rt'[q] = rt[q]
  BY <1>1, <1>2
<1>4. /\ last' \in [conf.routers -> Memory] /\ last'[r] = h
      /\ \A q \in conf.routers : q # r => last'[q] = last[q]
  BY <1>1, <1>2
<1>5. /\ gap' \in [conf.routers -> Nat]
      /\ \A q \in conf.routers : gap'[q] = 0 \/ gap'[q] = gap[q]
      /\ \A q \in conf.routers : rt'[q].state # "BACK" => gap'[q] = 0
      /\ \A s \in conf.routers : rt'[s].state = "MAST" => \A q \in conf.routers : gap'[q] = 0
  <2> DEFINE none == MastersOf(rt') = {}
  <2>1. gap' = [q \in conf.routers |-> IF none /\ rt'[q].state = "BACK" THEN gap[q] ELSE 0]
    BY Zenon DEF Step, Routers
  <2>2. \A s \in conf.routers : rt'[s].state = "MAST" => ~none
    BY Zenon DEF MastersOf, Routers
  <2> HIDE DEF none
  <2>3. PICK b \in BOOLEAN : b = none
    BY Zenon DEF none
  <2>4. gap' = [q \in conf.routers |-> IF b /\ rt'[q].state = "BACK" THEN gap[q] ELSE 0]
    BY <2>1, <2>3, Zenon
  <2>5. \A s \in conf.routers : rt'[s].state = "MAST" => ~b
    BY <2>2, <2>3, Zenon
  <2> QED BY <1>1, <2>4, <2>5
<1>6. Types(conf, rt, chan, left, gap, last)'
  <2>1. chan' \in [PairsOf(conf) -> Seq(Advert(conf))]
    BY ZenonT(40), <1>1, <1>2, SentLemma
  <2> QED BY <1>1, <1>3, <1>4, <1>5, <2>1, Zenon DEF Types
<1>7. \A q \in conf.routers : Backup(conf, q, rt'[q], last'[q])
  BY <1>3, <1>4 DEF ElectionInv
<1>8. left'.prios = conf.prios => \A q \in conf.routers : Told(conf, q, rt'[q], last'[q])
  BY <1>3, <1>4 DEF ElectionInv
<1>9. \A q \in conf.routers : Alone(conf, rt'[q], gap'[q])
  <2> SUFFICES ASSUME NEW q \in conf.routers
               PROVE  Alone(conf, rt'[q], gap'[q])
    OBVIOUS
  <2>1. CASE rt'[q].state # "BACK"
    <3>1. LongestDown(conf) \in Nat /\ MaxDelay \in Nat
      BY <1>1, DownTimes, ElectionAssumption
    <3> QED BY <1>5, <2>1, <3>1 DEF Alone
  <2>2. CASE rt'[q].state = "BACK"
    <3>1. Alone(conf, rt'[q], gap[q])
      BY <1>3, <2>2 DEF ElectionInv, Gaps
    <3>2. gap[q] \in Nat /\ rt'[q] \in Vrrp(conf)
      BY <1>1, <1>3
    <3>3. Alone(conf, rt'[q], 0)
      BY <1>1, <3>1, <3>2, ShorterGap, Zenon
    <3> QED BY <1>5, <3>1, <3>3
  <2> QED BY <2>1, <2>2
<1>10. \A p \in PairsOf(conf) : \A i \in 1 .. Len(chan'[p]) :
          chan'[p][i].due + gap'[p[2]] <= MaxDelay
  <2> SUFFICES ASSUME NEW p \in PairsOf(conf), NEW i \in 1 .. Len(chan'[p])
               PROVE  chan'[p][i].due + gap'[p[2]] <= MaxDelay
    OBVIOUS
  <2>1. MaxDelay \in Nat /\ p[2] \in conf.routers
    BY ElectionAssumption DEF PairsOf
  <2>2. /\ gap[p[2]] \in Nat /\ gap'[p[2]] \in Nat
        /\ gap'[p[2]] = 0 \/ gap'[p[2]] = gap[p[2]]
    BY <1>1, <1>5, <2>1
  <2>3. \/ i \in 1 .. Len(ch[p]) /\ chan'[p][i] = ch[p][i]
        \/ ps # <<>> /\ chan'[p][i].due = MaxDelay
    <3>1. i \in 1 .. Len(Sent(ch, r, ps)[p])
      BY <1>2, Zenon
    <3>2. \/ i \in 1 .. Len(ch[p]) /\ Sent(ch, r, ps)[p][i] = ch[p][i]
          \/ ps # <<>> /\ Sent(ch, r, ps)[p][i].due = MaxDelay
      <4>1. \A pp \in PairsOf(conf) : \A j \in 1 .. Len(Sent(ch, r, ps)[pp]) :
               \/ j \in 1 .. Len(ch[pp]) /\ Sent(ch, r, ps)[pp][j] = ch[pp][j]
               \/ ps # <<>> /\ Sent(ch, r, ps)[pp][j].due = MaxDelay
        BY <1>1, SentLemma, Zenon
      <4> QED BY <3>1, <4>1, Zenon
    <3> QED BY <1>2, <3>2, Zenon
  <2>4. CASE i \in 1 .. Len(ch[p]) /\ chan'[p][i] = ch[p][i]
    <3>1. ch[p][i].due + gap[p[2]] <= MaxDelay
      BY <2>4
    <3>2. ch[p][i].due \in 0 .. MaxDelay
      <4>1. ch[p] \in Seq(Advert(conf))
        OBVIOUS
      <4>2. ch[p][i] \in Advert(conf)
        BY <2>4, <4>1, SequenceElement
      <4> QED BY <4>2 DEF Advert
    <3> QED BY <2>1, <2>2, <2>4, <3>1, <3>2
  <2>5. CASE ps # <<>> /\ chan'[p][i].due = MaxDelay
    <3>1. gap'[p[2]] = 0
      <4>1. CASE x.state = "MAST"
        BY <1>3, <1>5, <2>1, <4>1
      <4>2. CASE rt[r].state = "MAST"
        <5>1. gap[p[2]] = 0
          BY <2>1, <4>2 DEF ElectionInv, Gaps
        <5> QED BY <2>2, <5>1
      <4> QED BY <2>5, <4>1, <4>2
    <3> QED BY <2>1, <2>5, <3>1
  <2> QED BY <2>3, <2>4, <2>5
<1> QED BY <1>5, <1>6, <1>7, <1>8, <1>9, <1>10, Zenon DEF ElectionInv, Gaps

LEMMA NotBackup ==
    ASSUME NEW c, NEW r, NEW x, NEW h, x.state # "BACK"
    PROVE  Backup(c, r, x, h) /\ Told(c, r, x, h)
  BY DEF Backup, Told

LEMMA NothingLemma ==
    Nothing \in Memory /\ Nothing.prio = None /\ Nothing.age = 0
  BY DEF Nothing, Memory

(* The bounds of a behaviour *)
LEMMA UseLemma ==
    ASSUME NEW c \in Setups, left \in Left(c),
           NEW what \in {"lost", "stops", "starts"}, Use(what)
    PROVE  left' \in Left(c) /\ left'.prios = left.prios
<1>1. left' = [left EXCEPT ![what] = left[what] - 1] /\ left[what] > 0
  BY DEF Use
<1>2. left[what] \in Nat
  BY DEF Left
<1>3. PICK k \in Nat : k = left[what] - 1
  BY <1>1, <1>2
<1>4. left' = [left EXCEPT ![what] = k]
  BY <1>1, <1>3
<1> QED BY <1>4 DEF Left

LEMMA UsePrios ==
    ASSUME NEW c \in Setups, left \in Left(c), Use("prios")
    PROVE  left' \in Left(c) /\ left'.prios # c.prios
<1>1. left' = [left EXCEPT !.prios = left.prios - 1] /\ left.prios > 0
  BY Zenon DEF Use
<1>2. c.prios \in Nat
  BY ElectionAssumption DEF Setup
<1>3. left.prios \in 0 .. c.prios
  BY DEF Left
<1>4. PICK k \in 0 .. c.prios : k = left.prios - 1 /\ k # c.prios
  BY <1>1, <1>2, <1>3
<1>5. left' = [left EXCEPT !.prios = k]
  BY <1>1, <1>4
<1> QED BY <1>4, <1>5 DEF Left

(* No backup becomes master in a step. *)
Calm == \A q \in conf.routers : rt[q].state = "BACK" => rt'[q].state # "MAST"

LEMMA StepCalm ==
    ASSUME ElectionInv, NEW r \in conf.routers, NEW x, NEW ch, NEW ps, NEW h,
           Step(r, x, ch, ps, h), rt[r].state = "BACK" => x.state # "MAST"
    PROVE  Calm
<1>1. rt \in [conf.routers -> Vrrp(conf)] /\ rt' = [rt EXCEPT ![r] = x]
  BY DEF ElectionInv, Types, Step
<1> QED BY <1>1 DEF Calm

(* A step of a router that does not read an advert *)
LEMMA OwnStep ==
    ASSUME ElectionInv, conf' = conf, NEW r \in conf.routers, NEW x \in Vrrp(conf),
           NEW ps \in Seq(0 .. Owner), NEW h \in Memory, Step(r, x, chan, ps, h),
           left' \in Left(conf),
           left'.prios = conf.prios => left.prios = conf.prios /\ Told(conf, r, x, h),
           Backup(conf, r, x, h), x.state = "BACK" => Alone(conf, x, gap[r]),
           ps # <<>> => rt[r].state = "MAST" \/ x.state = "MAST"
    PROVE  ElectionInv'
<1>1. PICK ch \in [PairsOf(conf) -> Seq(Advert(conf))] : ch = chan
  BY DEF ElectionInv, Types
<1>2. Step(r, x, ch, ps, h)
  BY <1>1
<1>3. \A p \in PairsOf(conf) : \A i \in 1 .. Len(ch[p]) :
         ch[p][i].due + gap[p[2]] <= MaxDelay
  BY <1>1 DEF ElectionInv, Gaps
<1> QED BY <1>2, <1>3, StepKeepsInv, Zenon

(* ... that is not backup afterwards *)
LEMMA AwayStep ==
    ASSUME ElectionInv, conf' = conf, NEW r \in conf.routers, NEW x \in Vrrp(conf),
           NEW ps \in Seq(0 .. Owner), NEW h \in Memory, Step(r, x, chan, ps, h),
           left' \in Left(conf), left'.prios = left.prios, x.state # "BACK",
           ps # <<>> => rt[r].state = "MAST" \/ x.state = "MAST"
    PROVE  ElectionInv'
  BY NotBackup, OwnStep, Zenon

(* ... that was not backup before and has a new timer *)
LEMMA BackStep ==
    ASSUME ElectionInv, conf' = conf, NEW r \in conf.routers, NEW x \in Vrrp(conf),
           NEW h \in Memory, h.prio # 0, NEW ps \in Seq(0 .. Owner), ps = <<>>,
           Step(r, x, chan, ps, h), left' \in Left(conf), left'.prios = left.prios,
           rt[r].state # "BACK", Backup(conf, r, x, h),
           Set(x, x.ms_down_timer), x.ms_down_timer <= LongestDown(conf)
    PROVE  ElectionInv'
<1>1. conf \in Setups /\ MaxDelay \in Nat
  BY ElectionAssumption DEF ElectionInv, Types
<1>2. gap[r] = 0
  BY DEF ElectionInv, Gaps, Alone
<1>3. Alone(conf, x, gap[r])
  BY <1>1, <1>2, SetInTime
<1>4. Told(conf, r, x, h)
  BY DEF Told
<1> QED BY <1>3, <1>4, OwnStep, Zenon

------------------------------------------------------------------------------
(* The actions.                                                               *)

LEMMA InvFacts ==
    ASSUME ElectionInv, NEW r \in conf.routers
    PROVE  /\ conf \in Setups /\ rt[r] \in Vrrp(conf) /\ last[r] \in Memory
           /\ gap[r] \in Nat /\ left \in Left(conf)
           /\ Backup(conf, r, rt[r], last[r]) /\ Alone(conf, rt[r], gap[r])
           /\ left.prios = conf.prios => Told(conf, r, rt[r], last[r])
  BY DEF ElectionInv, Types, Gaps

LEMMA BackupTimeoutStep ==
    ASSUME ElectionInv, conf' = conf, NEW r \in conf.routers, BackupTimeout(r)
    PROVE  ElectionInv'
<1>1. conf \in Setups /\ rt[r] \in Vrrp(conf) /\ left \in Left(conf)
  BY InvFacts
<1>2. PICK x \in Vrrp(conf) : x = InitSands(r, BecomeMaster(r, rt[r])) /\ x.state = "MAST"
  BY <1>1, BecomeMasterLemma
<1>3. PICK e \in 0 .. Owner : e = rt[r].effective_priority
  BY <1>1, ElectionAssumption DEF Vrrp, Owner
<1>4. PICK ps \in Seq(0 .. Owner) : ps = <<e>>
  BY Zenon, ShortSequences
<1>5. PICK h \in Memory : h = Nothing
  BY NothingLemma
<1>6. Step(r, x, chan, ps, h)
  BY <1>2, <1>3, <1>4, <1>5, Zenon DEF BackupTimeout
<1>7. left' = left
  BY DEF BackupTimeout
<1> QED BY <1>1, <1>2, <1>6, <1>7, AwayStep

LEMMA FaultStep ==
    ASSUME ElectionInv, conf' = conf, NEW r \in conf.routers, Fault(r)
    PROVE  ElectionInv' /\ Calm
<1>1. conf \in Setups /\ rt[r] \in Vrrp(conf) /\ left \in Left(conf)
  BY InvFacts
<1>2. left' \in Left(conf) /\ left'.prios = left.prios
  BY <1>1, UseLemma DEF Fault
<1>3. PICK h \in Memory : h = Nothing
  BY NothingLemma
<1>4. PICK x \in Vrrp(conf), ps \in Seq(0 .. Owner) :
         /\ x.state = "FAULT" /\ Step(r, x, chan, ps, h)
         /\ ps # <<>> => rt[r].state = "MAST"
  <2>1. CASE rt[r].state = "MAST"
    <3>1. PICK sent \in {<<>>, <<0, 0>>} :
             Step(r, LeaveMaster(r, rt[r], "FAULT"), chan, sent, Nothing)
      <4>1. rt[r].state # "BACK"
        BY <2>1
      <4> QED BY <4>1, Zenon DEF Fault
    <3>2. sent \in Seq(0 .. Owner)
      BY Zenon, ShortSequences, PriorityZero
    <3>3. PICK x \in Vrrp(conf) : x = LeaveMaster(r, rt[r], "FAULT") /\ x.state = "FAULT"
      BY <1>1, LeaveMasterLemma
    <3> QED BY <1>3, <2>1, <3>1, <3>2, <3>3, Zenon
  <2>2. CASE rt[r].state = "BACK"
    <3>1. PICK ps \in Seq(0 .. Owner) : ps = <<>>
      BY Zenon, ShortSequences, PriorityZero
    <3>2. PICK x \in Vrrp(conf) : x = LeaveFault(r, rt[r], "FAULT") /\ x.state = "FAULT"
      BY <1>1, LeaveFaultLemma
    <3>3. rt[r].state # "MAST"
      BY <2>2
    <3>4. Step(r, x, chan, ps, h)
      BY <1>3, <3>1, <3>2, <3>3, Zenon DEF Fault
    <3> QED BY <3>1, <3>2, <3>4, Zenon
  <2> QED BY <2>1, <2>2, Zenon DEF Fault
<1>5. x.state # "BACK" /\ x.state # "MAST"
  BY <1>4
<1> QED BY <1>2, <1>4, <1>5, AwayStep, StepCalm, Zenon

LEMMA FaultEndStep ==
    ASSUME ElectionInv, conf' = conf, NEW r \in conf.routers, FaultEnd(r)
    PROVE  ElectionInv' /\ Calm
<1>1. conf \in Setups /\ rt[r] \in Vrrp(conf) /\ left \in Left(conf)
  BY InvFacts
<1>2. left' \in Left(conf) /\ left'.prios = left.prios
  BY <1>1, UseLemma DEF FaultEnd
<1>3. PICK h \in Memory : h = Nothing /\ h.prio # 0
  BY NothingLemma DEF None
<1>4. PICK ps \in Seq(0 .. Owner) : ps = <<>>
  BY Zenon, ShortSequences, PriorityZero
<1>5. PICK x \in Vrrp(conf) : /\ x = LeaveFault(r, rt[r], "BACK") /\ x.state = "BACK"
                              /\ Set(x, Down(conf, r, x)) /\ x.preempt_time = None
  BY <1>1, LeaveFaultLemma
<1>6. Step(r, x, chan, ps, h)
  BY <1>3, <1>4, <1>5, Zenon DEF FaultEnd
<1>7. Backup(conf, r, x, h)
  BY <1>1, <1>5, FullTimer DEF Counting
<1>8. Set(x, x.ms_down_timer) /\ x.ms_down_timer <= LongestDown(conf)
  BY <1>1, <1>5, DownTimes DEF Set
<1>9. rt[r].state # "BACK"
  BY DEF FaultEnd
<1>10. x.state # "MAST"
  BY <1>5
<1>11. ElectionInv'
  BY <1>2, <1>3, <1>4, <1>6, <1>7, <1>8, <1>9, BackStep, Zenon
<1>12. Calm
  BY <1>6, <1>10, StepCalm, Zenon
<1> QED BY <1>11, <1>12

(* A router stops, with or without a last advert. *)
LEMMA StopStep ==
    ASSUME ElectionInv, conf' = conf, NEW r \in conf.routers, Shutdown(r) \/ Crash(r)
    PROVE  ElectionInv' /\ Calm
<1>1. conf \in Setups /\ rt[r] \in Vrrp(conf) /\ left \in Left(conf)
  BY InvFacts
<1>2. left' \in Left(conf) /\ left'.prios = left.prios
  BY <1>1, UseLemma DEF Shutdown, Crash
<1>3. PICK h \in Memory : h = Nothing
  BY NothingLemma
<1>4. PICK x \in Vrrp(conf) : x = OffState(r) /\ x.state = "OFF"
  BY <1>1, OffStateLemma
<1>5. <<>> \in Seq(0 .. Owner) /\ <<0>> \in Seq(0 .. Owner)
  BY Zenon, ShortSequences, PriorityZero
<1>6. PICK ps \in Seq(0 .. Owner) :
         Step(r, x, chan, ps, h) /\ (ps # <<>> => rt[r].state = "MAST")
  <2>1. CASE Crash(r)
    BY <1>3, <1>4, <1>5, <2>1, Zenon DEF Crash
  <2>2. CASE Shutdown(r)
    <3>1. PICK ps \in Seq(0 .. Owner) :
             ps = (IF rt[r].state = "MAST" THEN <<0>> ELSE <<>>)
               /\ (ps # <<>> => rt[r].state = "MAST")
      BY <1>5, Zenon
    <3> QED BY <1>3, <1>4, <2>2, <3>1, Zenon DEF Shutdown
  <2> QED BY <2>1, <2>2
<1>7. x.state # "BACK" /\ x.state # "MAST"
  BY <1>4
<1> QED BY <1>2, <1>6, <1>7, AwayStep, StepCalm, Zenon

LEMMA StartBackup ==
    ASSUME NEW c \in Setups, NEW r \in c.routers, NEW x \in Vrrp(c), NEW h \in Memory,
           h.prio = None, h.age = 0, x.preempt_time = None, Set(x, x.ms_down_timer),
           c.priority[r] = Owner \/ x.ms_down_timer = Down(c, r, x)
    PROVE  Backup(c, r, x, h)
<1>1. h.prio \notin 1 .. x.effective_priority - 1
  BY DEF None
<1>2. Runs(c, x, h, x.ms_down_timer)
  BY DEF Runs, Set, Vrrp
<1>3. Counting(c, r, x, h)
  BY DEF Counting
<1> QED BY <1>1, <1>2, <1>3, Zenon DEF Backup, Silence, Delay

LEMMA StartStep ==
    ASSUME ElectionInv, conf' = conf, NEW r \in conf.routers, Start(r)
    PROVE  ElectionInv' /\ Calm
<1>1. conf \in Setups /\ rt[r] \in Vrrp(conf) /\ left \in Left(conf)
  BY InvFacts
<1>2. left' \in Left(conf) /\ left'.prios = left.prios
  BY <1>1, UseLemma DEF Start
<1>3. PICK h \in Memory : h = Nothing /\ h.prio = None /\ h.age = 0 /\ h.prio # 0
  BY NothingLemma DEF None
<1>4. PICK ps \in Seq(0 .. Owner) : ps = <<>>
  BY Zenon, ShortSequences, PriorityZero
<1>5. PICK x \in Vrrp(conf) :
         /\ x = StartState(r) /\ x.preempt_time = None
         /\ Set(x, x.ms_down_timer) /\ x.ms_down_timer <= LongestDown(conf)
         /\ conf.priority[r] = Owner \/ x.ms_down_timer = Down(conf, r, x)
  BY <1>1, StartStateLemma
<1>6. Step(r, x, chan, ps, h)
  BY <1>3, <1>4, <1>5, Zenon DEF Start
<1>7. Backup(conf, r, x, h)
  BY <1>1, <1>3, <1>5, StartBackup
<1>8. rt[r].state # "BACK" /\ x.state # "MAST"
  BY <1>5 DEF Start, Set
<1>9. ElectionInv'
  BY <1>2, <1>3, <1>4, <1>5, <1>6, <1>7, <1>8, BackStep, Zenon
<1>10. Calm
  BY <1>6, <1>8, StepCalm, Zenon
<1> QED BY <1>9, <1>10

(* What does not touch the timer of a backup *)
LEMMA SameTimer ==
    ASSUME NEW c \in Setups, NEW r \in c.routers, NEW x \in Vrrp(c), NEW y \in Vrrp(c),
           NEW h \in Memory, NEW g \in Nat,
           Like(x, y), y.sands = x.sands, y.ms_down_timer = x.ms_down_timer
    PROVE  /\ Backup(c, r, x, h) => Backup(c, r, y, h)
           /\ Told(c, r, x, h) => Told(c, r, y, h)
           /\ Alone(c, x, g) => Alone(c, y, g)
<1>1. Down(c, r, y) = Down(c, r, x) /\ Skew(c, r, y) = Skew(c, r, x)
  BY SkewSame DEF Like
<1>2. Backup(c, r, x, h) => Backup(c, r, y, h)
  BY <1>1, Zenon DEF Backup, Silence, Delay, Counting, Runs, Like
<1>3. Told(c, r, x, h) => Told(c, r, y, h)
  BY <1>1, Zenon DEF Told, Like
<1>4. Alone(c, x, g) => Alone(c, y, g)
  BY Zenon DEF Alone, Like
<1> QED BY <1>2, <1>3, <1>4

LEMMA RogueTimerStep ==
    ASSUME ElectionInv, conf' = conf, NEW r \in conf.routers, RogueTimer(r)
    PROVE  ElectionInv' /\ Calm
<1>1. /\ conf \in Setups /\ rt[r] \in Vrrp(conf) /\ left \in Left(conf) /\ gap[r] \in Nat
      /\ Backup(conf, r, rt[r], last[r]) /\ Alone(conf, rt[r], gap[r])
      /\ left.prios = conf.prios => Told(conf, r, rt[r], last[r])
  BY InvFacts
<1>2. PICK v \in Vrrp(conf), no \in Int : v = rt[r] /\ no = None
  BY <1>1 DEF None
<1>3. PICK x \in Vrrp(conf) :
         /\ x = [v EXCEPT !.rogue_timer = no]
         /\ Like(v, x) /\ x.sands = v.sands /\ x.ms_down_timer = v.ms_down_timer
  <2> DEFINE w == [v EXCEPT !.rogue_timer = no]
  <2>1. w \in Vrrp(conf)
    BY DEF Vrrp
  <2>2. Like(v, w) /\ w.sands = v.sands /\ w.ms_down_timer = v.ms_down_timer
    BY DEF Vrrp, Like
  <2> QED BY <2>1, <2>2, Zenon
<1>4. PICK h \in Memory : h = last[r]
  BY InvFacts
<1>5. PICK ps \in Seq(0 .. Owner) : ps = <<>>
  BY Zenon, ShortSequences, PriorityZero
<1>6. Step(r, x, chan, ps, h) /\ left' = left
  BY <1>2, <1>3, <1>4, <1>5, Zenon DEF RogueTimer
<1>7. /\ Backup(conf, r, x, h) /\ Alone(conf, x, gap[r])
      /\ left.prios = conf.prios => Told(conf, r, x, h)
  BY <1>1, <1>2, <1>3, <1>4, SameTimer, Zenon
<1>8. rt[r].state = "BACK" => x.state # "MAST"
  BY <1>2, <1>3 DEF Like
<1>9. ElectionInv'
  BY <1>1, <1>5, <1>6, <1>7, OwnStep, Zenon
<1> QED BY <1>6, <1>8, <1>9, StepCalm, Zenon

LEMMA MasterTxStep ==
    ASSUME ElectionInv, conf' = conf, NEW r \in conf.routers, MasterTx(r)
    PROVE  ElectionInv' /\ Calm
<1>1. conf \in Setups /\ rt[r] \in Vrrp(conf) /\ left \in Left(conf)
  BY InvFacts
<1>2. PICK v \in Vrrp(conf) : v = rt[r] /\ v.state = "MAST"
  BY <1>1 DEF MasterTx
<1>3. PICK longer \in Int :
         longer = IF v.rogue_adver_int > AdverInt[r] THEN v.rogue_adver_int ELSE AdverInt[r]
  BY <1>1, Intervals DEF Vrrp, AdverInt
<1>4. PICK ct \in Int : ct = IF v.rogue_counter > 0 THEN v.rogue_counter - 1 ELSE 0
  BY DEF Vrrp
<1>5. PICK t \in Int : t = IF v.rogue_counter = 1 THEN (longer * 12) \div 10 ELSE v.rogue_timer
  BY DEF Vrrp
<1> DEFINE w == [v EXCEPT !.rogue_counter = ct, !.rogue_timer = t]
<1>6. PICK u \in Vrrp(conf) : u = (IF BasePrio[r] = Owner THEN w ELSE v) /\ u.state = "MAST"
  <2>1. w \in Vrrp(conf) /\ w.state = "MAST"
    BY Zenon, <1>2 DEF Vrrp
  <2> HIDE DEF w
  <2> QED BY <1>2, <2>1
<1>7. PICK x \in Vrrp(conf) : x = InitSands(r, u) /\ x.state = "MAST"
  <2>1. InitSands(r, u) \in Vrrp(conf) /\ InitSands(r, u).state = "MAST"
    BY Zenon, <1>1, <1>6, InitSandsLemma DEF Like
  <2> QED BY <2>1, Zenon
<1>8. PICK h \in Memory : h = last[r]
  BY InvFacts
<1>9. PICK e \in 0 .. Owner : e = v.effective_priority
  BY ElectionAssumption DEF Vrrp, Owner
<1>10. PICK ps \in Seq(0 .. Owner) : ps = <<e>>
  BY Zenon, ShortSequences
<1>11. Step(r, x, chan, ps, h) /\ left' = left
  BY <1>2, <1>3, <1>4, <1>5, <1>6, <1>7, <1>8, <1>9, <1>10, Zenon DEF MasterTx
<1>12. x.state # "BACK" /\ rt[r].state # "BACK"
  BY <1>2, <1>7
<1>13. ElectionInv'
  BY <1>1, <1>7, <1>11, <1>12, AwayStep, Zenon
<1> QED BY <1>11, <1>12, <1>13, StepCalm, Zenon

(* The time left changes by what the master down time changes. *)
LEMMA NewPriority ==
    ASSUME NEW c \in Setups, NEW r \in c.routers, NEW x \in Vrrp(c), NEW y \in Vrrp(c),
           NEW h \in Memory, NEW g \in Nat, x.state = "BACK", y.state = "BACK",
           y.preempt_time = x.preempt_time, y.ms_down_timer = Down(c, r, y),
           y.sands = x.sands + y.ms_down_timer - x.ms_down_timer,
           Backup(c, r, x, h), Alone(c, x, g)
    PROVE  Backup(c, r, y, h) /\ Alone(c, y, g)
<1>1. /\ x.sands \in Int /\ y.sands \in Int /\ x.ms_down_timer \in Nat
      /\ y.ms_down_timer \in Nat /\ h.age \in Nat /\ MaxDelay \in Nat
      /\ LongestDown(c) \in Nat /\ LongestGap(c) \in Nat
      /\ y.ms_down_timer <= LongestDown(c)
  BY DownTimes, ElectionAssumption DEF Vrrp, Memory
<1>2. Runs(c, x, h, x.ms_down_timer)
  BY DEF Backup, Silence
<1>3. Runs(c, y, h, y.ms_down_timer)
  BY <1>1, <1>2 DEF Runs
<1>4. c.preempt_delay[r] > 0 => Counting(c, r, y, h)
  BY DEF Backup, Delay, Counting
<1>5. Backup(c, r, y, h)
  BY <1>3, <1>4, Zenon DEF Backup, Silence, Delay
<1>6. Alone(c, y, g)
  BY <1>1 DEF Alone
<1> QED BY <1>5, <1>6

LEMMA SetEffectivePriorityStep ==
    ASSUME ElectionInv, conf' = conf, NEW r \in conf.routers, NEW prio \in conf.tracked,
           SetEffectivePriority(r, prio)
    PROVE  ElectionInv' /\ Calm
<1>1. /\ conf \in Setups /\ rt[r] \in Vrrp(conf) /\ left \in Left(conf) /\ gap[r] \in Nat
      /\ Backup(conf, r, rt[r], last[r]) /\ Alone(conf, rt[r], gap[r])
  BY InvFacts
<1>2. left' \in Left(conf) /\ left'.prios # conf.prios
  BY <1>1, UsePrios DEF SetEffectivePriority
<1>3. PICK v \in Vrrp(conf), h \in Memory, g \in Nat : v = rt[r] /\ h = last[r] /\ g = gap[r]
  BY InvFacts
<1>4. PICK e \in 1 .. Owner : e = prio
  BY <1>1, ElectionAssumption DEF Setup, Owner
<1>5. PICK y \in Vrrp(conf) :
         /\ y = [v EXCEPT !.effective_priority = e]
         /\ y.state = v.state /\ y.preempt_time = v.preempt_time /\ y.sands = v.sands
  <2> DEFINE w == [v EXCEPT !.effective_priority = e]
  <2>1. w \in Vrrp(conf)
    BY DEF Vrrp
  <2>2. w.state = v.state /\ w.preempt_time = v.preempt_time /\ w.sands = v.sands
    BY DEF Vrrp
  <2> QED BY <2>1, <2>2, Zenon
<1>6. PICK ms \in Nat : ms = Down(conf, r, y)
  BY <1>1, DownTimes
<1>7. PICK z \in Vrrp(conf) :
         /\ z = [y EXCEPT !.ms_down_timer = ms] /\ z.ms_down_timer = ms
         /\ Like(y, z)
  <2> DEFINE w == [y EXCEPT !.ms_down_timer = ms]
  <2>1. w \in Vrrp(conf)
    BY DEF Vrrp
  <2>2. w.ms_down_timer = ms /\ Like(y, w)
    BY DEF Vrrp, Like
  <2> QED BY <2>1, <2>2, Zenon
<1>8. PICK n \in Int : n = NewSands(v, z) /\ n = v.sands + z.ms_down_timer - v.ms_down_timer
  BY DEF NewSands, Vrrp
<1>9. PICK u \in Vrrp(conf) :
         /\ u = [z EXCEPT !.sands = n] /\ u.sands = n /\ u.ms_down_timer = ms
         /\ Like(z, u)
  <2> DEFINE w == [z EXCEPT !.sands = n]
  <2>1. w \in Vrrp(conf)
    BY DEF Vrrp
  <2>2. w.sands = n /\ w.ms_down_timer = ms /\ Like(z, w)
    BY <1>7 DEF Vrrp, Like
  <2> QED BY <2>1, <2>2, Zenon
<1>10. PICK x \in Vrrp(conf) : x = IF v.state # "BACK" THEN z ELSE u
  BY Zenon
<1>11. PICK ps \in Seq(0 .. Owner) : ps = <<>>
  BY Zenon, ShortSequences, PriorityZero
<1>12. Step(r, x, chan, ps, h)
  BY <1>3, <1>4, <1>5, <1>6, <1>7, <1>8, <1>9, <1>10, <1>11, Translation, Zenon
     DEF SetEffectivePriority
<1>13. x.state = v.state
  BY <1>5, <1>7, <1>9, <1>10 DEF Like
<1>14. Backup(conf, r, x, h) /\ (x.state = "BACK" => Alone(conf, x, g))
  <2>1. CASE v.state # "BACK"
    BY <1>13, <2>1, NotBackup
  <2>2. CASE v.state = "BACK"
    <3>1. x = u
      BY <1>10, <2>2
    <3>2. Down(conf, r, u) = ms
      <4>1. /\ u.effective_priority = y.effective_priority
            /\ u.master_adver_int = y.master_adver_int
        BY <1>7, <1>9, Zenon DEF Like
      <4> QED BY <1>6, <4>1, SkewSame, Zenon
    <3>3. /\ u.state = "BACK" /\ u.preempt_time = v.preempt_time
          /\ u.sands = v.sands + u.ms_down_timer - v.ms_down_timer
      BY <1>5, <1>7, <1>8, <1>9, <2>2 DEF Like
    <3>4. u.ms_down_timer = Down(conf, r, u)
      BY <1>9, <3>2
    <3>5. Backup(conf, r, v, h) /\ Alone(conf, v, g)
      BY <1>1, <1>3
    <3> QED BY <1>1, <2>2, <3>1, <3>3, <3>4, <3>5, NewPriority, Zenon
  <2> QED BY <2>1, <2>2
<1>15. rt[r].state = "BACK" => x.state # "MAST"
  BY <1>3, <1>13
<1>16. ElectionInv'
  BY <1>2, <1>3, <1>11, <1>12, <1>14, OwnStep, Zenon
<1> QED BY <1>12, <1>15, <1>16, StepCalm, Zenon

LEMMA TailElements ==
    ASSUME NEW S, NEW s \in Seq(S), s # <<>>
    PROVE  /\ Head(s) \in S /\ Head(s) = s[1] /\ 1 \in 1 .. Len(s) /\ Tail(s) \in Seq(S)
           /\ \A i \in 1 .. Len(Tail(s)) : Tail(s)[i] = s[i + 1] /\ i + 1 \in 1 .. Len(s)
  OBVIOUS

(* An advert is taken from the network. *)
LEMMA OneLess ==
    ASSUME ElectionInv, NEW p \in PairsOf(conf), chan[p] # <<>>
    PROVE  LET ch == [chan EXCEPT ![p] = Tail(@)]
           IN  /\ ch \in [PairsOf(conf) -> Seq(Advert(conf))]
               /\ \A s \in PairsOf(conf) : \A i \in 1 .. Len(ch[s]) :
                     ch[s][i].due + gap[s[2]] <= MaxDelay
               /\ Head(chan[p]) \in Advert(conf)
               /\ gap[p[2]] <= MaxDelay
<1> DEFINE ch == [chan EXCEPT ![p] = Tail(@)]
<1>1. /\ chan \in [PairsOf(conf) -> Seq(Advert(conf))] /\ gap \in [conf.routers -> Nat]
      /\ \A s \in PairsOf(conf) : \A i \in 1 .. Len(chan[s]) :
            chan[s][i].due + gap[s[2]] <= MaxDelay
  BY DEF ElectionInv, Types, Gaps
<1>2. PICK t \in Seq(Advert(conf)) : t = chan[p]
  BY <1>1
<1>3. /\ Head(t) \in Advert(conf) /\ Head(t) = t[1] /\ 1 \in 1 .. Len(t)
      /\ Tail(t) \in Seq(Advert(conf))
      /\ \A i \in 1 .. Len(Tail(t)) : Tail(t)[i] = t[i + 1] /\ i + 1 \in 1 .. Len(t)
  BY <1>2, TailElements
<1>4. /\ ch \in [PairsOf(conf) -> Seq(Advert(conf))] /\ ch[p] = Tail(t)
      /\ \A s \in PairsOf(conf) : s # p => ch[s] = chan[s]
  BY <1>1, <1>2, <1>3
<1> HIDE DEF ch
<1>5. ASSUME NEW s \in PairsOf(conf), NEW i \in 1 .. Len(ch[s])
      PROVE  ch[s][i].due + gap[s[2]] <= MaxDelay
  <2>1. CASE s # p
    BY <1>1, <1>4, <1>5, <2>1
  <2>2. CASE s = p
    <3>1. i \in 1 .. Len(Tail(t))
      BY Zenon, <1>4, <1>5, <2>2
    <3>2. ch[s][i] = chan[s][i + 1] /\ i + 1 \in 1 .. Len(chan[s])
      BY Zenon, <1>2, <1>3, <1>4, <2>2, <3>1
    <3> QED BY <1>1, <3>2
  <2> QED BY <2>1, <2>2
<1>6. gap[p[2]] <= MaxDelay
  <2>1. t[1].due + gap[p[2]] <= MaxDelay
    BY <1>1, <1>2, <1>3
  <2>2. t[1].due \in 0 .. MaxDelay
    BY <1>3 DEF Advert
  <2>3. gap[p[2]] \in Nat /\ MaxDelay \in Nat
    BY <1>1, ElectionAssumption DEF PairsOf
  <2> QED BY <2>1, <2>2, <2>3
<1> QED BY <1>2, <1>3, <1>4, <1>5, <1>6, Zenon DEF ch

LEMMA ReceiveStep ==
    ASSUME ElectionInv, conf' = conf, NEW p \in PairsOf(conf), Receive(p)
    PROVE  ElectionInv' /\ Calm
<1>1. PICK q \in conf.routers, r \in conf.routers : q = p[1] /\ r = p[2]
  BY DEF PairsOf
<1>2. /\ conf \in Setups /\ rt[r] \in Vrrp(conf) /\ left \in Left(conf) /\ last[r] \in Memory
      /\ Backup(conf, r, rt[r], last[r]) /\ Alone(conf, rt[r], gap[r])
      /\ gap[r] \in Nat
      /\ left.prios = conf.prios => Told(conf, r, rt[r], last[r])
  BY InvFacts
<1>3. chan[p] # <<>> /\ left' = left
  BY DEF Receive
<1>4. PICK ch \in [PairsOf(conf) -> Seq(Advert(conf))], m \in Advert(conf) :
         /\ ch = [chan EXCEPT ![p] = Tail(@)] /\ m = Head(chan[p])
         /\ \A s \in PairsOf(conf) : \A i \in 1 .. Len(ch[s]) :
               ch[s][i].due + gap[s[2]] <= MaxDelay
  <2> DEFINE c == [chan EXCEPT ![p] = Tail(@)]
  <2>1. /\ c \in [PairsOf(conf) -> Seq(Advert(conf))] /\ Head(chan[p]) \in Advert(conf)
        /\ \A s \in PairsOf(conf) : \A i \in 1 .. Len(c[s]) :
              c[s][i].due + gap[s[2]] <= MaxDelay
    BY Zenon, <1>3, OneLess
  <2> HIDE DEF c
  <2>2. c = [chan EXCEPT ![p] = Tail(@)]
    BY DEF c
  <2> QED BY <2>1, <2>2, Zenon
<1>5. gap[r] <= MaxDelay
  BY <1>1, <1>3, OneLess
<1>6. PICK x \in Vrrp(conf) : x = rt[r]
  BY <1>2
<1>7. PICK none \in Seq(0 .. Owner) : none = <<>>
  BY Zenon, ShortSequences, PriorityZero
<1>8. /\ x.state \in {"BACK", "MAST", "FAULT", "OFF"}
  BY DEF Vrrp
<1>9. CASE x.state = "BACK"
  <2> DEFINE h == IF CheckPacket(q, r) THEN Heard(r, Restored(r, x, q, m), m.prio) ELSE last[r]
             z == StateBackup(r, x, q, m)
  <2>1. Step(r, z, ch, none, h)
    <3>1. x.state # "MAST" /\ x.state \notin {"FAULT", "OFF"}
      BY <1>9
    <3> QED BY <1>1, <1>4, <1>6, <1>7, <1>9, <3>1, Zenon DEF Receive
  <2>2. x.sands <= LongestDown(conf)
    <3>1. LongestDown(conf) \in Nat
      BY <1>2, DownTimes
    <3> QED BY <1>2, <1>6, <1>9, <3>1 DEF Alone, Vrrp
  <2>3. /\ z \in Vrrp(conf) /\ Set(z, z.ms_down_timer)
        /\ z.ms_down_timer <= LongestDown(conf)
        /\ h \in Memory /\ Backup(conf, r, z, h)
        /\ Told(conf, r, x, last[r]) => Told(conf, r, z, h)
    BY <1>2, <1>6, <1>9, <2>2, StateBackupLemma, Zenon
  <2> HIDE DEF z, h
  <2>4. PICK y \in Vrrp(conf), k \in Memory : y = z /\ k = h
    BY <2>3
  <2>5. Alone(conf, y, gap[r])
    BY ZenonT(40), <1>2, <1>5, <2>3, <2>4, SetInTime
  <2>6. Step(r, y, ch, none, k) /\ Backup(conf, r, y, k) /\ y.state = "BACK"
    BY <2>1, <2>3, <2>4 DEF Set
  <2>7. left.prios = conf.prios => Told(conf, r, y, k)
    BY <1>2, <1>6, <2>3, <2>4
  <2>8. ElectionInv'
    BY <1>2, <1>3, <1>4, <1>7, <2>5, <2>6, <2>7, StepKeepsInv, Zenon
  <2>9. y.state # "MAST"
    BY <2>6
  <2> QED BY <2>6, <2>8, <2>9, StepCalm, Zenon
<1>10. CASE x.state = "MAST" /\ r \notin Rogues
  <2> DEFINE z == StateMasterRx(r, x, q, m)
             h == IF z.state = "BACK"
                  THEN IF CheckPacket(q, r) THEN Heard(r, x, m.prio) ELSE last[r] ELSE last[r]
  <2>1. Step(r, z, ch, MasterReplies(r, x, q, m), h)
    <3>1. x.state # "BACK" /\ x.state \notin {"FAULT", "OFF"}
      BY <1>10
    <3> QED BY <1>1, <1>4, <1>6, <1>10, <3>1, Zenon DEF Receive
  <2>2. PICK ps \in Seq(0 .. Owner) : ps = MasterReplies(r, x, q, m)
    BY <1>2, MasterRepliesLemma
  <2>3. /\ z \in Vrrp(conf) /\ z.state \in {"MAST", "BACK"}
        /\ z.state = "BACK" => /\ CheckPacket(q, r) /\ m.prio # 0
                               /\ Set(z, Down(conf, r, z)) /\ z.preempt_time = None
    BY Zenon, <1>2, <1>10, StateMasterRxLemma
  <2>4. m.prio \in 0 .. Owner
    BY DEF Advert
  <2>5. /\ Heard(r, x, m.prio) \in Memory /\ Heard(r, x, m.prio).prio = m.prio
    BY Zenon, <1>2, <2>4, HeardLemma
  <2> HIDE DEF z
  <2>6. h \in Memory /\ (z.state = "BACK" => h.prio # 0)
    BY <1>2, <2>3, <2>5, Zenon
  <2> HIDE DEF h
  <2>7. PICK y \in Vrrp(conf), k \in Memory : y = z /\ k = h
    BY Zenon, <2>3, <2>6
  <2>8. Step(r, y, ch, ps, k)
    BY <2>1, <2>2, <2>7
  <2>9. /\ Backup(conf, r, y, k) /\ Told(conf, r, y, k)
        /\ y.state = "BACK" => Alone(conf, y, gap[r])
    <3>1. CASE y.state # "BACK"
      BY <3>1, NotBackup
    <3>2. CASE y.state = "BACK"
      <4>1. Set(y, Down(conf, r, y)) /\ y.preempt_time = None /\ k.prio # 0
        BY <2>3, <2>6, <2>7, <3>2
      <4>2. Backup(conf, r, y, k)
        BY <1>2, <4>1, FullTimer DEF Counting
      <4>3. Told(conf, r, y, k)
        BY <4>1 DEF Told
      <4>4. Set(y, y.ms_down_timer) /\ y.ms_down_timer <= LongestDown(conf)
        BY <1>2, <4>1, DownTimes DEF Set
      <4>5. Alone(conf, y, gap[r])
        BY Zenon, <1>2, <1>5, <4>4, SetInTime
      <4> QED BY <4>2, <4>3, <4>5
    <3> QED BY <3>1, <3>2
  <2>10. rt[r].state = "MAST" /\ rt[r].state # "BACK"
    BY <1>6, <1>10
  <2>11. ElectionInv'
    BY <1>2, <1>3, <1>4, <2>8, <2>9, <2>10, StepKeepsInv, Zenon
  <2> QED BY <2>8, <2>10, <2>11, StepCalm, Zenon
<1>11. CASE x.state \in {"FAULT", "OFF"} \/ (r \in Rogues /\ x.state = "MAST")
  <2>1. PICK h \in Memory : h = last[r]
    BY <1>2
  <2>2. x.state # "BACK" /\ rt[r].state # "BACK"
    BY <1>6, <1>11
  <2>3. Step(r, x, ch, none, h)
    <3>1. ~(x.state = "MAST" /\ r \notin Rogues)
      BY <1>6, <1>11
    <3> QED BY <1>1, <1>4, <1>6, <1>7, <2>1, <2>2, <3>1, Zenon DEF Receive
  <2>4. Backup(conf, r, x, h) /\ Told(conf, r, x, h)
    BY <2>2, NotBackup
  <2>5. ElectionInv'
    BY <1>2, <1>3, <1>4, <1>7, <2>2, <2>3, <2>4, StepKeepsInv, Zenon
  <2> QED BY <2>2, <2>3, <2>5, StepCalm, Zenon
<1> QED BY <1>8, <1>9, <1>10, <1>11

LEMMA LoseStep ==
    ASSUME ElectionInv, conf' = conf, NEW p \in PairsOf(conf), Lose(p)
    PROVE  ElectionInv' /\ Calm
<1>1. /\ chan[p] # <<>> /\ chan' = [chan EXCEPT ![p] = Tail(@)] /\ Use("lost")
      /\ rt' = rt /\ gap' = gap /\ last' = last
  BY DEF Lose
<1>2. conf \in Setups /\ left \in Left(conf)
  BY DEF ElectionInv, Types
<1>3. left' \in Left(conf) /\ left'.prios = left.prios
  BY <1>1, <1>2, UseLemma
<1>4. /\ chan' \in [PairsOf(conf) -> Seq(Advert(conf))]
      /\ \A s \in PairsOf(conf) : \A i \in 1 .. Len(chan'[s]) :
            chan'[s][i].due + gap[s[2]] <= MaxDelay
  BY Zenon, <1>1, OneLess
<1>5. ElectionInv'
  BY <1>1, <1>3, <1>4, Zenon DEF ElectionInv, Types, Gaps
<1>6. Calm
  BY <1>1 DEF Calm
<1> QED BY <1>5, <1>6

(* A tick for one router *)
Ticked(x) == [x EXCEPT !.sands = Less(@), !.preempt_time = Less(@), !.rogue_timer = Less(@)]
Older(c, r, x, h) ==
    IF x.state # "BACK" THEN h
    ELSE [h EXCEPT !.age = Count(@, LongestGap(c)),
                   !.held = IF @ = None THEN @ ELSE Count(@, c.preempt_delay[r])]

LEMMA TickedType ==
    ASSUME NEW c, NEW x \in Vrrp(c)
    PROVE  /\ Ticked(x) \in Vrrp(c) /\ Ticked(x).state = x.state
           /\ Ticked(x).ms_down_timer = x.ms_down_timer
           /\ Ticked(x).effective_priority = x.effective_priority
           /\ Ticked(x).master_adver_int = x.master_adver_int
           /\ Ticked(x).sands = Less(x.sands)
           /\ Ticked(x).preempt_time = Less(x.preempt_time)
<1>1. PICK a \in Int, b \in Int, d \in Int :
         a = Less(x.sands) /\ b = Less(x.preempt_time) /\ d = Less(x.rogue_timer)
  <2>1. Less(x.sands) \in Int /\ Less(x.preempt_time) \in Int /\ Less(x.rogue_timer) \in Int
    BY DEF Less, Vrrp
  <2> QED BY <2>1, Zenon
<1> DEFINE y == [x EXCEPT !.sands = a, !.preempt_time = b, !.rogue_timer = d]
<1>2. Ticked(x) = y
  BY <1>1, Zenon DEF Ticked
<1>3. y \in Vrrp(c)
  BY Zenon DEF Vrrp
<1>4. /\ y.state = x.state /\ y.ms_down_timer = x.ms_down_timer
      /\ y.effective_priority = x.effective_priority
      /\ y.master_adver_int = x.master_adver_int
      /\ y.sands = a /\ y.preempt_time = b
  BY DEF Vrrp
<1> HIDE DEF y
<1> QED BY <1>1, <1>2, <1>3, <1>4, Zenon

LEMMA OlderType ==
    ASSUME NEW c \in Setups, NEW r \in c.routers, NEW x \in Vrrp(c), NEW h \in Memory
    PROVE  /\ Older(c, r, x, h) \in Memory
           /\ x.state = "BACK" =>
                 LET k == Older(c, r, x, h)
                 IN  /\ k.prio = h.prio /\ k.age = Count(h.age, LongestGap(c))
                     /\ k.held = IF h.held = None THEN None
                                 ELSE Count(h.held, c.preempt_delay[r])
<1>1. LongestGap(c) \in Nat /\ c.preempt_delay[r] \in Nat
  BY DownTimes, ElectionAssumption DEF Setup
<1>2. PICK a \in Nat : a = Count(h.age, LongestGap(c))
  BY <1>1 DEF Count, Memory
<1>3. PICK d \in {None} \cup Nat :
         /\ d = IF h.held = None THEN h.held ELSE Count(h.held, c.preempt_delay[r])
         /\ d = IF h.held = None THEN None ELSE Count(h.held, c.preempt_delay[r])
  <2>1. h.held \in {None} \cup Nat
    BY DEF Memory
  <2>2. h.held # None => Count(h.held, c.preempt_delay[r]) \in Nat
    BY <1>1, <2>1 DEF Count
  <2> QED BY <2>1, <2>2, Zenon
<1> DEFINE k == [h EXCEPT !.age = a, !.held = d]
<1>4. k \in Memory
  BY Zenon DEF Memory
<1>5. k.prio = h.prio /\ k.age = a /\ k.held = d
  BY DEF Memory
<1>6. x.state = "BACK" => Older(c, r, x, h) = k
  BY <1>2, <1>3, Zenon DEF Older
<1>7. x.state # "BACK" => Older(c, r, x, h) = h
  BY Zenon DEF Older
<1> HIDE DEF k
<1> QED BY <1>2, <1>3, <1>4, <1>5, <1>6, <1>7, Zenon

LEMMA TickedRouter ==
    ASSUME NEW c \in Setups, NEW r \in c.routers, NEW x \in Vrrp(c), NEW h \in Memory,
           x.state = "BACK" => x.sands > 0
    PROVE  /\ Backup(c, r, x, h) => Backup(c, r, Ticked(x), Older(c, r, x, h))
           /\ Told(c, r, x, h) => Told(c, r, Ticked(x), Older(c, r, x, h))
<1>1. PICK y \in Vrrp(c) :
         /\ y = Ticked(x) /\ y.state = x.state
         /\ y.ms_down_timer = x.ms_down_timer
         /\ y.effective_priority = x.effective_priority
         /\ y.master_adver_int = x.master_adver_int
         /\ y.sands = Less(x.sands) /\ y.preempt_time = Less(x.preempt_time)
  BY TickedType, Zenon
<1>2. CASE x.state # "BACK"
  BY <1>1, <1>2, NotBackup
<1>3. CASE x.state = "BACK"
  <2>1. PICK k \in Memory :
           /\ k = Older(c, r, x, h)
           /\ k.prio = h.prio /\ k.age = Count(h.age, LongestGap(c))
           /\ k.held = IF h.held = None THEN None ELSE Count(h.held, c.preempt_delay[r])
    BY <1>3, OlderType, Zenon
  <2>2. PICK d \in Nat : d = Down(c, r, y) /\ d = Down(c, r, x)
    BY <1>1, DownTimes, SkewSame
  <2>3. PICK w \in Nat : w = Skew(c, r, y) /\ w = Skew(c, r, x)
    BY <1>1, DownTimes, SkewSame
  <2>4. /\ h.age \in Nat /\ LongestGap(c) \in Nat /\ x.sands \in Int
        /\ x.ms_down_timer \in Nat
    BY DownTimes DEF Memory, Vrrp
  <2>5. \A t \in Nat : Runs(c, x, h, t) => Runs(c, y, k, t)
    BY <1>1, <1>3, <2>1, <2>4 DEF Runs, Less, Count
  <2>6. ASSUME c.preempt_delay[r] > 0, Counting(c, r, x, h)
        PROVE  Counting(c, r, y, k)
    <3>1. /\ x.preempt_time \in Int /\ h.held \in {None} \cup Nat
          /\ c.preempt_delay[r] \in Nat
      BY ElectionAssumption DEF Vrrp, Memory, Setup
    <3>2. CASE x.preempt_time = None
      BY <1>1, <3>2 DEF Counting, Less, None
    <3>3. CASE x.preempt_time # None
      BY <1>1, <2>1, <2>6, <3>1, <3>3 DEF Counting, Less, Count, None
    <3> QED BY <3>2, <3>3
  <2>7. ASSUME c.preempt_delay[r] > 0, h.held >= c.preempt_delay[r]
        PROVE  k.held >= c.preempt_delay[r]
    <3>1. h.held \in {None} \cup Nat /\ c.preempt_delay[r] \in Nat
      BY ElectionAssumption DEF Memory, Setup
    <3> QED BY <2>1, <2>7, <3>1 DEF Count, None
  <2>8. Backup(c, r, x, h) => Backup(c, r, y, k)
    BY <1>1, <1>3, <2>1, <2>2, <2>4, <2>5, <2>6, <2>7, Zenon DEF Backup, Silence, Delay
  <2>9. Told(c, r, x, h) => Told(c, r, y, k)
    BY <1>1, <1>3, <2>1, <2>3, <2>4 DEF Told, Less, Count
  <2> QED BY <1>1, <2>1, <2>8, <2>9
<1> QED BY <1>2, <1>3

(* A tick for the adverts on their way *)
LEMMA TickedChannels ==
    ASSUME ElectionInv, Tick,
           chan' = [p \in PairsOf(conf) |->
                       [i \in DOMAIN chan[p] |-> [chan[p][i] EXCEPT !.due = @ - 1]]],
           gap' \in [conf.routers -> Nat],
           \A r \in conf.routers : gap'[r] = 0 \/ gap'[r] \in {gap[r], gap[r] + 1}
    PROVE  /\ chan' \in [PairsOf(conf) -> Seq(Advert(conf))]
           /\ \A p \in PairsOf(conf) : \A i \in 1 .. Len(chan'[p]) :
                 chan'[p][i].due + gap'[p[2]] <= MaxDelay
<1>1. /\ chan \in [PairsOf(conf) -> Seq(Advert(conf))] /\ gap \in [conf.routers -> Nat]
      /\ \A p \in PairsOf(conf) : \A i \in 1 .. Len(chan[p]) :
            chan[p][i].due + gap[p[2]] <= MaxDelay
      /\ MaxDelay \in Nat
  BY ElectionAssumption DEF ElectionInv, Types, Gaps
<1>2. ASSUME NEW p \in PairsOf(conf)
      PROVE  /\ chan'[p] \in Seq(Advert(conf)) /\ Len(chan'[p]) = Len(chan[p])
             /\ \A i \in 1 .. Len(chan[p]) : chan'[p][i].due + gap'[p[2]] <= MaxDelay
  <2>1. PICK s \in Seq(Advert(conf)) : s = chan[p]
    BY <1>1
  <2>2. Len(s) \in Nat /\ DOMAIN s = 1 .. Len(s)
    OBVIOUS
  <2>3. \A i \in 1 .. Len(s) : s[i].due > 0
    BY Zenon, <2>1, <2>2, Translation DEF Tick
  <2> DEFINE t == chan'[p]
  <2>4. t = [i \in 1 .. Len(s) |-> [s[i] EXCEPT !.due = @ - 1]]
    BY <2>1, <2>2, Zenon
  <2>5. ASSUME NEW i \in 1 .. Len(s)
        PROVE  t[i] \in Advert(conf) /\ t[i].due = s[i].due - 1 /\ s[i].due \in 0 .. MaxDelay
    <3>1. PICK a \in Advert(conf) : a = s[i]
      BY SequenceElement
    <3>a. a.due \in 0 .. MaxDelay /\ a.due > 0
      BY <2>3, <3>1 DEF Advert
    <3>b. a.due - 1 \in 0 .. MaxDelay
      BY <1>1, <3>a
    <3>2. PICK d \in 0 .. MaxDelay : d = a.due - 1 /\ a.due \in 0 .. MaxDelay
      BY <3>a, <3>b, Zenon
    <3>3. t[i] = [a EXCEPT !.due = d]
      BY <2>4, <3>1, <3>2, Zenon
    <3>4. [a EXCEPT !.due = d] \in Advert(conf) /\ [a EXCEPT !.due = d].due = d
      BY Zenon DEF Advert
    <3> QED BY Zenon, <3>1, <3>2, <3>3, <3>4
  <2>6. t = [i \in 1 .. Len(s) |-> t[i]]
    BY <2>4, Zenon
  <2> HIDE DEF t
  <2>7. t \in Seq(Advert(conf)) /\ Len(t) = Len(s)
    BY <2>2, <2>5, <2>6, FunctionSequence
  <2>8. ASSUME NEW i \in 1 .. Len(s)
        PROVE  t[i].due + gap'[p[2]] <= MaxDelay
    <3>1. PICK r \in conf.routers : r = p[2]
      BY DEF PairsOf
    <3>2. s[i].due + gap[r] <= MaxDelay
      BY <1>1, <2>1, <2>8, <3>1, Zenon
    <3>a. /\ gap[r] \in Nat /\ gap'[r] \in Nat
          /\ gap'[r] = 0 \/ gap'[r] = gap[r] \/ gap'[r] = gap[r] + 1
      BY <1>1, Zenon
    <3>3. gap[r] \in Nat /\ gap'[r] \in Nat /\ gap'[r] <= gap[r] + 1
      BY <3>a
    <3>4. t[i].due + gap'[r] <= MaxDelay
      BY <1>1, <2>5, <3>2, <3>3
    <3> QED BY <3>1, <3>4
  <2> QED BY Zenon, <2>1, <2>7, <2>8 DEF t
<1>3. chan' \in [PairsOf(conf) -> Seq(Advert(conf))]
  BY <1>2, Zenon
<1>4. ASSUME NEW p \in PairsOf(conf), NEW i \in 1 .. Len(chan'[p])
      PROVE  chan'[p][i].due + gap'[p[2]] <= MaxDelay
  BY Zenon, <1>2, <1>4
<1> QED BY Zenon, <1>3, <1>4

LEMMA TickStep ==
    ASSUME ElectionInv, conf' = conf, Tick
    PROVE  ElectionInv' /\ Calm
<1>1. /\ conf \in Setups /\ rt \in [conf.routers -> Vrrp(conf)]
      /\ gap \in [conf.routers -> Nat] /\ last \in [conf.routers -> Memory]
      /\ chan \in [PairsOf(conf) -> Seq(Advert(conf))] /\ left \in Left(conf)
      /\ MaxDelay \in Nat
  BY Zenon, ElectionAssumption DEF ElectionInv, Types
<1>2. \A r \in conf.routers : rt[r].state \in {"BACK", "MAST"} => rt[r].sands > 0
  BY Zenon DEF Tick, Routers
<1>3. rt' = [r \in conf.routers |-> Ticked(rt[r])]
  BY Zenon DEF Tick, Routers, Ticked
<1>4. last' = [r \in conf.routers |-> Older(conf, r, rt[r], last[r])]
  BY Translation, Zenon DEF Tick, Routers, Older, preempt_delay
<1>5. chan' = [p \in PairsOf(conf) |->
                  [i \in DOMAIN chan[p] |-> [chan[p][i] EXCEPT !.due = @ - 1]]]
  BY Translation, Zenon DEF Tick
<1>6. /\ rt' \in [conf.routers -> Vrrp(conf)]
      /\ \A r \in conf.routers : rt'[r] = Ticked(rt[r]) /\ rt'[r].state = rt[r].state
  BY <1>1, <1>3, TickedType, Zenon
<1>7. /\ last' \in [conf.routers -> Memory]
      /\ \A r \in conf.routers : last'[r] = Older(conf, r, rt[r], last[r])
  BY <1>1, <1>4, OlderType, Zenon
<1>8. left' = left
  BY Zenon DEF Tick
<1>9. \A r \in conf.routers : Backup(conf, r, rt'[r], last'[r])
  <2> SUFFICES ASSUME NEW r \in conf.routers
               PROVE  Backup(conf, r, rt'[r], last'[r])
    OBVIOUS
  <2>1. Backup(conf, r, Ticked(rt[r]), Older(conf, r, rt[r], last[r]))
    BY ZenonT(40), <1>1, <1>2, TickedRouter DEF ElectionInv
  <2> QED BY <1>6, <1>7, <2>1
<1>10. left.prios = conf.prios => \A r \in conf.routers : Told(conf, r, rt'[r], last'[r])
  <2> SUFFICES ASSUME left.prios = conf.prios, NEW r \in conf.routers
               PROVE  Told(conf, r, rt'[r], last'[r])
    OBVIOUS
  <2>1. Told(conf, r, Ticked(rt[r]), Older(conf, r, rt[r], last[r]))
    BY Zenon, <1>1, <1>2, TickedRouter DEF ElectionInv
  <2> QED BY <1>6, <1>7, <2>1
<1>11. /\ gap' \in [conf.routers -> Nat]
       /\ \A r \in conf.routers :
             /\ gap'[r] = 0 \/ (rt[r].state = "BACK" /\ gap'[r] \in {gap[r], gap[r] + 1})
             /\ \A q \in conf.routers : rt[q].state = "MAST" => gap'[r] = 0
  <2> DEFINE none == MastersOf(rt) = {}
  <2>1. gap' = [r \in conf.routers |-> IF none /\ rt[r].state = "BACK"
                                       THEN Count(gap[r], LongestGap(conf)) ELSE 0]
    BY Translation, Zenon DEF Tick, Routers
  <2>2. \A q \in conf.routers : rt[q].state = "MAST" => ~none
    BY Zenon DEF MastersOf, Routers
  <2> HIDE DEF none
  <2>3. \A r \in conf.routers : Count(gap[r], LongestGap(conf)) \in {gap[r], gap[r] + 1}
    BY DEF Count
  <2>4. \A r \in conf.routers : gap[r] \in Nat /\ gap[r] + 1 \in Nat
    BY <1>1
  <2>5. \A r \in conf.routers : Count(gap[r], LongestGap(conf)) \in Nat
    BY <2>3, <2>4
  <2>6. \A r \in conf.routers :
           \/ none /\ rt[r].state = "BACK" /\ gap'[r] = Count(gap[r], LongestGap(conf))
           \/ gap'[r] = 0
    BY <2>1, Zenon
  <2>7. \A r \in conf.routers : ~none => gap'[r] = 0
    BY <2>1, Zenon
  <2>8. gap' \in [conf.routers -> Nat]
    <3>1. 0 \in Nat
      OBVIOUS
    <3> QED BY <2>1, <2>5, <3>1, Zenon
  <2>9. \A r \in conf.routers :
           gap'[r] = 0 \/ (rt[r].state = "BACK" /\ gap'[r] \in {gap[r], gap[r] + 1})
    BY <2>3, <2>6, Zenon
  <2>10. \A r, q \in conf.routers : rt[q].state = "MAST" => gap'[r] = 0
    BY <2>2, <2>7, Zenon
  <2> QED BY <2>8, <2>9, <2>10, Zenon
<1>12. \A r \in conf.routers : Alone(conf, rt'[r], gap'[r])
  <2> SUFFICES ASSUME NEW r \in conf.routers
               PROVE  Alone(conf, rt'[r], gap'[r])
    OBVIOUS
  <2>1. PICK x \in Vrrp(conf), g \in Nat, n \in Nat : x = rt[r] /\ g = gap[r] /\ n = gap'[r]
    BY <1>1, <1>11
  <2>2. PICK y \in Vrrp(conf) :
           /\ y = rt'[r] /\ y.state = x.state
           /\ y.ms_down_timer = x.ms_down_timer /\ y.sands = Less(x.sands)
    BY <1>6, <2>1, TickedType
  <2>3. Alone(conf, x, g) /\ (x.state = "BACK" => x.sands > 0)
    BY <1>2, <2>1 DEF ElectionInv, Gaps
  <2>4. n = 0 \/ (x.state = "BACK" /\ n \in {g, g + 1})
    BY <1>11, <2>1
  <2>5. LongestDown(conf) \in Nat /\ x.sands \in Int /\ x.ms_down_timer \in Nat
    BY Zenon, <1>1, DownTimes DEF Vrrp
  <2>6. Alone(conf, y, n)
    <3>1. MaxDelay \in Nat
      BY ElectionAssumption
    <3>2. /\ x.state # "BACK" => g = 0
          /\ x.state = "BACK" => /\ x.ms_down_timer <= LongestDown(conf) /\ x.sands <= x.ms_down_timer
                                 /\ x.sands + g <= x.ms_down_timer + MaxDelay
      BY <2>3 DEF Alone
    <3>3. x.state = "BACK" => y.sands = x.sands - 1 /\ x.sands >= 1
      BY <2>2, <2>3, <2>5 DEF Less
    <3>4. CASE x.state = "BACK"
      <4>1. /\ n <= g + 1 /\ y.sands + n <= x.ms_down_timer + MaxDelay
            /\ y.sands <= x.ms_down_timer /\ n <= LongestDown(conf) + MaxDelay
        BY <2>1, <2>4, <2>5, <3>1, <3>2, <3>3, <3>4
      <4> QED BY <2>2, <3>2, <3>4, <4>1 DEF Alone
    <3>5. CASE x.state # "BACK"
      <4>1. n = 0 /\ n <= LongestDown(conf) + MaxDelay
        BY <2>4, <2>5, <3>1, <3>5
      <4> QED BY <2>2, <3>5, <4>1 DEF Alone
    <3> QED BY <3>4, <3>5
  <2> QED BY <2>1, <2>2, <2>6
<1>13. /\ chan' \in [PairsOf(conf) -> Seq(Advert(conf))]
       /\ \A p \in PairsOf(conf) : \A i \in 1 .. Len(chan'[p]) :
             chan'[p][i].due + gap'[p[2]] <= MaxDelay
  BY Zenon, <1>1, <1>5, <1>11, TickedChannels
<1>14. \A r \in conf.routers : rt'[r].state = "MAST" => \A q \in conf.routers : gap'[q] = 0
  BY <1>6, <1>11, Zenon
<1>15. ElectionInv'
  BY <1>1, <1>6, <1>7, <1>8, <1>9, <1>10, <1>11, <1>12, <1>13, <1>14, Zenon
     DEF ElectionInv, Types, Gaps
<1>16. Calm
  BY <1>6 DEF Calm
<1> QED BY <1>15, <1>16

------------------------------------------------------------------------------
(* The theorems.                                                              *)

LEMMA InitElection == Init => ElectionInv
<1> SUFFICES ASSUME Init
             PROVE  ElectionInv
  OBVIOUS
<1>1. conf \in Setups /\ Setup(conf)
  BY ElectionAssumption DEF Init
<1>2. /\ chan = [p \in PairsOf(conf) |-> <<>>] /\ gap = [r \in conf.routers |-> 0]
      /\ last = [r \in conf.routers |-> Nothing] /\ DOMAIN rt = conf.routers
      /\ \A r \in conf.routers : rt[r] \in {StartState(r), OffState(r)}
      /\ rt = [r \in conf.routers |-> rt[r]]
  BY Translation DEF Init, Routers
<1>3. \A r \in conf.routers : last[r] = Nothing /\ gap[r] = 0
  BY <1>2
<1>4. ASSUME NEW r \in conf.routers
      PROVE  /\ rt[r] \in Vrrp(conf) /\ Backup(conf, r, rt[r], last[r])
             /\ Told(conf, r, rt[r], last[r]) /\ Alone(conf, rt[r], gap[r])
             /\ rt[r].state # "MAST"
  <2>1. PICK h \in Memory : h = last[r] /\ h.prio = None /\ h.age = 0 /\ h.prio # 0
    BY <1>3, NothingLemma DEF None
  <2>2. LongestDown(conf) \in Nat /\ MaxDelay \in Nat /\ gap[r] = 0
    <3>1. OffState(r) \in Vrrp(conf)
      BY <1>1, OffStateLemma
    <3> QED BY <1>1, <1>3, <3>1, DownTimes, ElectionAssumption
  <2>3. CASE rt[r] = StartState(r)
    <3>1. PICK x \in Vrrp(conf) :
             /\ x = rt[r] /\ x.preempt_time = None
             /\ Set(x, x.ms_down_timer) /\ x.ms_down_timer <= LongestDown(conf)
             /\ conf.priority[r] = Owner \/ x.ms_down_timer = Down(conf, r, x)
      BY <1>1, <2>3, StartStateLemma
    <3>2. Backup(conf, r, x, h)
      BY <1>1, <2>1, <3>1, StartBackup
    <3>3. Told(conf, r, x, h)
      BY <2>1 DEF Told
    <3>4. Alone(conf, x, gap[r])
      BY <1>1, <2>2, <3>1, SetInTime
    <3>5. x.state # "MAST"
      BY <3>1 DEF Set
    <3> QED BY <2>1, <3>1, <3>2, <3>3, <3>4, <3>5
  <2>4. CASE rt[r] = OffState(r)
    <3>1. PICK x \in Vrrp(conf) : x = rt[r] /\ x.state = "OFF"
      BY <1>1, <2>4, OffStateLemma
    <3>2. Backup(conf, r, x, h) /\ Told(conf, r, x, h)
      BY <3>1, NotBackup
    <3>3. Alone(conf, x, gap[r])
      BY <2>2, <3>1 DEF Alone
    <3> QED BY <2>1, <3>1, <3>2, <3>3
  <2> QED BY ZenonT(40), <1>2, <2>3, <2>4
<1>5. left \in Left(conf)
  <2>1. left = [lost |-> conf.lost, stops |-> conf.stops, starts |-> conf.starts,
                prios |-> conf.prios]
    BY DEF Init
  <2>2. /\ conf.lost \in Nat /\ conf.stops \in Nat /\ conf.starts \in Nat
        /\ conf.prios \in 0 .. conf.prios
    BY <1>1 DEF Setup
  <2> QED BY <2>1, <2>2 DEF Left
<1>6. chan \in [PairsOf(conf) -> Seq(Advert(conf))] /\ \A p \in PairsOf(conf) : Len(chan[p]) = 0
  <2>1. <<>> \in Seq(Advert(conf)) /\ Len(<<>>) = 0
    OBVIOUS
  <2> QED BY <1>2, <2>1, Zenon
<1>7. gap \in [conf.routers -> Nat] /\ last \in [conf.routers -> Memory]
  BY <1>2, NothingLemma
<1>8. rt \in [conf.routers -> Vrrp(conf)]
  BY <1>2, <1>4, Zenon
<1>9. \A p \in PairsOf(conf) : \A i \in 1 .. Len(chan[p]) :
         chan[p][i].due + gap[p[2]] <= MaxDelay
  BY <1>6
<1> QED BY <1>1, <1>3, <1>4, <1>5, <1>6, <1>7, <1>8, <1>9, Zenon
        DEF ElectionInv, Types, Gaps

(* Every step keeps the invariant, and only a timeout makes a backup master. *)
LEMMA NextElection ==
    ASSUME ElectionInv, Next
    PROVE  /\ ElectionInv'
           /\ Calm \/ \E r \in conf.routers : BackupTimeout(r)
<1>1. conf' = conf
  BY DEF Next
<1>2. CASE \E r \in conf.routers :
              \/ BackupTimeout(r) \/ MasterTx(r) \/ RogueTimer(r)
              \/ Fault(r) \/ FaultEnd(r) \/ Shutdown(r) \/ Crash(r) \/ Start(r)
              \/ \E prio \in conf.tracked : SetEffectivePriority(r, prio)
  <2> PICK r \in conf.routers :
              \/ BackupTimeout(r) \/ MasterTx(r) \/ RogueTimer(r)
              \/ Fault(r) \/ FaultEnd(r) \/ Shutdown(r) \/ Crash(r) \/ Start(r)
              \/ \E prio \in conf.tracked : SetEffectivePriority(r, prio)
    BY <1>2
  <2>1. CASE BackupTimeout(r)
    BY <1>1, <2>1, BackupTimeoutStep, Zenon
  <2>2. CASE MasterTx(r)
    BY <1>1, <2>2, MasterTxStep, Zenon
  <2>3. CASE RogueTimer(r)
    BY <1>1, <2>3, RogueTimerStep, Zenon
  <2>4. CASE Fault(r)
    BY <1>1, <2>4, FaultStep, Zenon
  <2>5. CASE FaultEnd(r)
    BY <1>1, <2>5, FaultEndStep, Zenon
  <2>6. CASE Shutdown(r) \/ Crash(r)
    BY <1>1, <2>6, StopStep, Zenon
  <2>7. CASE Start(r)
    BY <1>1, <2>7, StartStep, Zenon
  <2>8. CASE \E prio \in conf.tracked : SetEffectivePriority(r, prio)
    BY <1>1, <2>8, SetEffectivePriorityStep, Zenon
  <2> QED BY ZenonT(60), <2>1, <2>2, <2>3, <2>4, <2>5, <2>6, <2>7, <2>8, Zenon
<1>3. CASE \E p \in PairsOf(conf) : Receive(p) \/ Lose(p)
  BY <1>1, <1>3, ReceiveStep, LoseStep, Zenon
<1>4. CASE Tick
  BY <1>1, <1>4, TickStep, Zenon
<1> QED BY <1>2, <1>3, <1>4, Translation, Zenon DEF Next, Routers, TrackedPrios

LEMMA StutterElection ==
    ASSUME ElectionInv, UNCHANGED vars
    PROVE  ElectionInv' /\ Calm
<1>1. /\ conf' = conf /\ rt' = rt /\ chan' = chan /\ left' = left /\ gap' = gap
      /\ last' = last
  BY DEF vars
<1>2. ElectionInv'
  BY <1>1, Zenon DEF ElectionInv
<1>3. Calm
  BY <1>1 DEF Calm
<1> QED BY <1>2, <1>3

(* The invariant of the election: what is left of the timer of a backup and   *)
(* the age of what it heard last make up the time vrrp_state_backup() set.    *)
THEOREM ElectionInvHolds == Spec => []ElectionInv
<1>1. ElectionInv /\ [Next]_vars => ElectionInv'
  BY NextElection, StutterElection
<1> QED BY InitElection, <1>1, PTL DEF Spec

(* A backup that was told that the master stops is master, or has heard of    *)
(* another one, after its skew time (vrrp_state_backup(), priority 0).        *)
THEOREM HandoverWithinSkew == Spec => []FastHandover
<1>1. ElectionInv => FastHandover
  <2> SUFFICES ASSUME ElectionInv, left.prios = conf.prios, NEW r \in conf.routers,
                      rt[r].state = "BACK", last[r].prio = 0
               PROVE  last[r].age <= TimerSkew(r, rt[r])
    BY DEF FastHandover, Routers
  <2>1. /\ conf \in Setups /\ rt[r] \in Vrrp(conf) /\ last[r] \in Memory
        /\ Told(conf, r, rt[r], last[r])
    BY InvFacts
  <2>2. PICK s \in Nat : s = Skew(conf, r, rt[r])
    BY <2>1, DownTimes
  <2>3. rt[r].sands >= 0 /\ rt[r].sands + last[r].age <= s
    BY <2>1, <2>2 DEF Told
  <2>4. last[r].age <= s
    BY <2>1, <2>3 DEF Vrrp, Memory
  <2> QED BY <2>2, <2>4, Translation
<1> QED BY ElectionInvHolds, <1>1, PTL

(* While there is no master, no router stays backup for longer than the       *)
(* longest master down time and the delay of the last advert: whatever is     *)
(* heard, refused or changed meanwhile, vrrp_state_backup() and               *)
(* vrrp_set_effective_priority() do not put the takeover off any further.     *)
THEOREM NoLongGap == Spec => []GapBounded
<1>1. ElectionInv => GapBounded
  BY Zenon, Translation DEF ElectionInv, Gaps, Alone, GapBounded, Routers
<1> QED BY ElectionInvHolds, <1>1, PTL

(* A backup that is needed takes over in time, whether it was told that the   *)
(* master stops or hears nothing any more (vrrp_state_backup()).              *)
THEOREM TakeoverInTime == Spec => []TakesOverInTime
BY HandoverWithinSkew, NoLongGap, PTL DEF TakesOverInTime

(* A backup that becomes master *)
LEMMA TakeoverFacts ==
    ASSUME ElectionInv, [Next]_vars, NEW r \in conf.routers,
           rt[r].state = "BACK", rt'[r].state = "MAST"
    PROVE  /\ conf \in Setups /\ rt[r] \in Vrrp(conf) /\ last[r] \in Memory
           /\ rt[r].sands <= 0
           /\ Silence(conf, r, rt[r], last[r]) /\ Delay(conf, r, rt[r], last[r])
           /\ Runs(conf, rt[r], last[r], Down(conf, r, rt[r]))
                 => last[r].age >= Down(conf, r, rt[r])
<1>1. /\ conf \in Setups /\ rt[r] \in Vrrp(conf) /\ last[r] \in Memory
      /\ Backup(conf, r, rt[r], last[r])
  BY InvFacts
<1>2. ~Calm
  BY DEF Calm
<1>3. PICK q \in conf.routers : BackupTimeout(q)
  BY <1>2, NextElection, StutterElection, Zenon
<1>4. rt[r].sands <= 0
  <2>1. rt \in [conf.routers -> Vrrp(conf)]
    BY Zenon DEF ElectionInv, Types
  <2>2. rt' = [rt EXCEPT ![q] = InitSands(q, BecomeMaster(q, rt[q]))]
    BY <1>3, Zenon DEF BackupTimeout, Step
  <2>3. CASE q = r
    BY <1>3, <2>3 DEF BackupTimeout
  <2>4. CASE q # r
    <3>1. rt'[r] = rt[r]
      BY <2>1, <2>2, <2>4, Zenon
    <3> QED BY <3>1
  <2> QED BY <2>3, <2>4
<1>5. PICK d \in Nat, l \in Nat : d = Down(conf, r, rt[r]) /\ l = LongestGap(conf) /\ d < l
  <2>1. /\ Down(conf, r, rt[r]) \in Nat /\ LongestGap(conf) \in Nat
        /\ LongestDown(conf) \in Nat
        /\ LongestDown(conf) < LongestGap(conf) /\ Down(conf, r, rt[r]) <= LongestDown(conf)
    BY <1>1, DownTimes
  <2>2. Down(conf, r, rt[r]) < LongestGap(conf)
    BY <2>1
  <2> QED BY <2>1, <2>2, Zenon
<1>6. Runs(conf, rt[r], last[r], d) => last[r].age >= d
  BY <1>1, <1>4, <1>5 DEF Runs, Vrrp, Memory
<1> QED BY <1>1, <1>4, <1>5, <1>6 DEF Backup

(* A backup becomes master only after a whole master down time without an     *)
(* advert of at least its priority, or when the master said that it stops, or *)
(* as an address owner that just started; with nopreempt also adverts of a    *)
(* lower priority keep it backup (vrrp_state_backup()).                       *)
THEOREM SilenceBeforeTakeover == Spec => TakesOverAfterSilence
<1>1. ElectionInv /\ [Next]_vars => [\A r \in Routers : TakesOver(r)]_vars
  <2> SUFFICES ASSUME ElectionInv, [Next]_vars, NEW r \in conf.routers,
                      rt[r].state = "BACK", rt'[r].state = "MAST"
               PROVE  \/ last[r].age >= MsDownTimer(r, rt[r])
                      \/ last[r].prio = 0
                      \/ last[r].prio = None /\ BasePrio[r] = Owner
                      \/ r \notin NoPreempt /\ last[r].prio \in 1 .. rt[r].effective_priority - 1
    BY DEF TakesOver, Routers
  <2> QED BY TakeoverFacts, Translation, Zenon DEF Silence, BasePrio, NoPreempt
<1> QED BY ElectionInvHolds, <1>1, PTL DEF Spec, TakesOverAfterSilence

(* A router with a preempt_delay takes over from a master of lower priority   *)
(* that goes on sending adverts only when these have been coming for as long  *)
(* as the delay (vrrp_state_backup(), preempt_time).                          *)
THEOREM DelayBeforePreempting == Spec => PreemptsAfterDelay
<1>1. ElectionInv /\ [Next]_vars => [\A r \in Routers : WaitsToPreempt(r)]_vars
  <2> SUFFICES ASSUME ElectionInv, [Next]_vars, NEW r \in conf.routers,
                      rt[r].state = "BACK", rt'[r].state = "MAST",
                      conf.preempt_delay[r] > 0,
                      last[r].prio \in 1 .. rt[r].effective_priority - 1,
                      last[r].age < MsDownTimer(r, rt[r])
               PROVE  last[r].held >= conf.preempt_delay[r]
    BY DEF WaitsToPreempt, Routers, preempt_delay
  <2>1. /\ conf \in Setups /\ rt[r] \in Vrrp(conf) /\ last[r] \in Memory
        /\ Delay(conf, r, rt[r], last[r])
        /\ Runs(conf, rt[r], last[r], Down(conf, r, rt[r]))
              => last[r].age >= Down(conf, r, rt[r])
    BY TakeoverFacts, Zenon
  <2>2. PICK d \in Nat : d = Down(conf, r, rt[r])
    BY <2>1, DownTimes
  <2>3. last[r].age < d /\ last[r].age \in Nat
    BY <2>1, <2>2, Translation DEF Memory
  <2>4. ~(last[r].age >= d)
    BY <2>3
  <2> QED BY <2>1, <2>2, <2>4, Zenon DEF Delay
<1> QED BY ElectionInvHolds, <1>1, PTL DEF Spec, PreemptsAfterDelay

==============================================================================
