--------------------------- MODULE FrontPanelProofs ---------------------------
(***************************************************************************)
(* Proofs about the front panel, for every pad, craft sequence and length  *)
(* of its timeouts.  The keys: EmitKeys is a pass over all keys, so what   *)
(* it keeps is proved by induction over the keys already looked at, as the *)
(* least number of keys after which it fails.  The hook switch: every      *)
(* transition accepted is paid for by a move of the user, or by a handset  *)
(* found off hook at the start.                                            *)
(***************************************************************************)
EXTENDS FrontPanel, BoundedInduction

-------------------------------------------------------------------------------
(* Arithmetic of the timeouts.  *)

LEMMA MaxOfTwo ==
    ASSUME NEW a \in Int, NEW b \in Int
    PROVE  Max({a, b}) = IF a >= b THEN a ELSE b
<1> DEFINE m == IF a >= b THEN a ELSE b
<1>1. m \in {a, b} /\ \A y \in {a, b} : m >= y
  OBVIOUS
<1>2. \A x \in {a, b} : (\A y \in {a, b} : x >= y) => x = m
  OBVIOUS
<1> QED
  BY <1>1, <1>2 DEF Max

LEMMA AtMostDividend ==
    ASSUME NEW x \in Nat, NEW d \in Nat \ {0}
    PROVE  x \div d \in 0 .. x
<1>1. x \div d \in Int /\ x % d \in 0 .. d - 1 /\ x = d * (x \div d) + (x % d)
  BY SMT
<1> QED
  BY <1>1

LEMMA CraftAgeType == CraftAge \in Nat
<1>1. Max({CraftIdle, CraftDone}) \in Nat
  BY TimeAssumption, MaxOfTwo
<1> QED
  BY <1>1 DEF CraftAge

LEMMA HoldAgeType == HoldAge \in Nat
<1>1. MaxPresses + 1 \in Nat /\ ReleaseAfter \in Nat
  BY BoundAssumption, TimeAssumption
<1>2. \A a, b \in Nat : a * b \in Nat
  BY SMT
<1> QED
  BY <1>1, <1>2, CraftAgeType DEF HoldAge

LEMMA OlderType ==
    ASSUME NEW limit \in Nat, NEW age \in 0 .. limit
    PROVE  Older(age, limit) \in 0 .. limit
  BY DEF Older

-------------------------------------------------------------------------------
(* A pass over the keys.  *)

LEMMA OrderFacts ==
    /\ Len(Order) \in Nat
    /\ \A i \in 1 .. Len(Order) : Order[i] \in Key
    /\ \A i, j \in 1 .. Len(Order) : Order[i] = Order[j] => i = j
    /\ \A k \in Key : \E i \in 1 .. Len(Order) : k = Order[i]
<1>1. Order \in Seq(Key) /\ IsInjective(Order)
  BY OrderAssumption
<1>2. Len(Order) \in Nat /\ DOMAIN Order = 1 .. Len(Order)
  BY <1>1
<1> QED
  BY <1>1, <1>2 DEF IsInjective, Key, ToSet

LEMMA KeysFinite == IsFiniteSet(Key)
<1>1. Order \in Surjection(1 .. Len(Order), Key)
  BY OrderAssumption, OrderFacts DEF Surjection
<1>2. IsFiniteSet(1 .. Len(Order))
  BY OrderFacts, FS_Interval
<1> QED
  BY <1>1, <1>2, FS_Surjection

\* The recursion of EmitKeys has a solution: one for n - 1 keys extends to n.
LEMMA PassExists ==
    ASSUME NEW start, NEW now, NEW old
    PROVE  \E g : g = [i \in 0 .. Len(Order) |->
                         IF i = 0 THEN start ELSE EmitKey(g[i - 1], Order[i], now, old)]
<1> DEFINE Pass(g, n) == g = [i \in 0 .. n |->
                                IF i = 0 THEN start ELSE EmitKey(g[i - 1], Order[i], now, old)]
           Passes == {n \in Nat : \E g : Pass(g, n)}
<1>1. 0 \in Passes
  <2>1. Pass([i \in 0 .. 0 |-> start], 0)
    OBVIOUS
  <2> QED
    BY <2>1
<1>2. \A n \in 1 .. Len(Order) : n - 1 \in Passes => n \in Passes
  <2> SUFFICES ASSUME NEW n \in 1 .. Len(Order), n - 1 \in Passes PROVE \E g : Pass(g, n)
    OBVIOUS
  <2>1. PICK f : Pass(f, n - 1)
    OBVIOUS
  <2> DEFINE g == [i \in 0 .. n |-> IF i = n THEN EmitKey(f[n - 1], Order[n], now, old) ELSE f[i]]
  <2>2. n \in Nat /\ n # 0 /\ n - 1 \in 0 .. n - 1 /\ 0 .. n = (0 .. n - 1) \cup {n}
    BY OrderFacts
  <2>3. \A i \in 0 .. n - 1 : g[i] = f[i]
    BY <2>2
  <2>4. \A i \in 0 .. n : g[i] = IF i = 0 THEN start ELSE EmitKey(g[i - 1], Order[i], now, old)
    <3> SUFFICES ASSUME NEW i \in 0 .. n
                 PROVE  g[i] = IF i = 0 THEN start ELSE EmitKey(g[i - 1], Order[i], now, old)
      OBVIOUS
    <3>1. CASE i = n
      <4>1. g[i] = EmitKey(f[n - 1], Order[n], now, old)
        BY <3>1
      <4>2. g[n - 1] = f[n - 1]
        BY <2>2, <2>3
      <4> QED
        BY <3>1, <4>1, <4>2, <2>2
    <3>2. CASE i # n
      <4>1. i \in 0 .. n - 1 /\ (i # 0 => i - 1 \in 0 .. n - 1)
        BY <3>2, <2>2
      <4>2. f[i] = IF i = 0 THEN start ELSE EmitKey(f[i - 1], Order[i], now, old)
        BY <4>1, <2>1
      <4> QED
        BY <4>1, <4>2, <2>3
    <3> QED
      BY <3>1, <3>2
  <2>5. Pass(g, n)
    BY <2>4
  <2> QED
    BY <2>5
<1> HIDE DEF Passes
<1>3. Len(Order) \in Nat
  BY OrderFacts
<1>4. \A n \in 0 .. Len(Order) : n \in Passes
  BY <1>1, <1>2, <1>3, UpTo
<1>5. Len(Order) \in Passes
  BY <1>3, <1>4
<1> QED
  BY <1>5 DEF Passes

LEMMA EmitKeysPass ==
    ASSUME NEW start, NEW now, NEW old
    PROVE  \E g : /\ g[0] = start
                  /\ \A i \in 1 .. Len(Order) : g[i] = EmitKey(g[i - 1], Order[i], now, old)
                  /\ EmitKeys(start, now, old) = g[Len(Order)]
<1> DEFINE Pass(g) == g = [i \in 0 .. Len(Order) |->
                             IF i = 0 THEN start ELSE EmitKey(g[i - 1], Order[i], now, old)]
           g == CHOOSE h : Pass(h)
<1>1. Pass(g)
  BY PassExists
<1>2. EmitKeys(start, now, old) = g[Len(Order)]
  BY DEF EmitKeys
<1> HIDE DEF g
<1>3. g[0] = start /\ \A i \in 1 .. Len(Order) : g[i] = EmitKey(g[i - 1], Order[i], now, old)
  BY <1>1, OrderFacts
<1> QED
  BY <1>2, <1>3

-------------------------------------------------------------------------------
(* What one key and what the whole pass do to the owed releases.  *)

CraftRange == [progress : 0 .. Complete, age : 0 .. CraftAge]

Report == [pending : Nat, releaseIn : 0 .. Never, told : Int, craft : CraftRange]

\* The deadline is armed while a release is owed.
Armed(s) == s.pending > 0 <=> s.releaseIn # Never

LEMMA CompleteType == Complete \in Nat \ {0}
  BY CraftAssumption DEF Complete

LEMMA NeverType == ReleaseAfter \in 0 .. Never /\ Never \in 0 .. Never /\ ReleaseAfter # Never
  BY TimeAssumption DEF Never

LEMMA NoCraftType == NoCraft \in CraftRange
  BY CompleteType, CraftAgeType DEF NoCraft, CraftRange

LEMMA NoteCraftKeyType ==
    ASSUME NEW c \in CraftRange, NEW k
    PROVE  NoteCraftKey(c, k) \in CraftRange
<1>1. c.progress \in 0 .. Complete /\ (c.progress # Complete => c.progress + 1 \in 0 .. Complete)
  BY CompleteType DEF CraftRange
<1>2. 1 \in 0 .. Complete /\ 0 \in 0 .. CraftAge
  BY CompleteType, CraftAgeType
<1>3. \A n \in 0 .. Complete : [progress |-> n, age |-> 0] \in CraftRange
  BY <1>2 DEF CraftRange
<1> QED
  BY <1>1, <1>2, <1>3, NoCraftType DEF NoteCraftKey

LEMMA RefreshCraftType ==
    ASSUME NEW c \in CraftRange, NEW visible
    PROVE  RefreshCraft(c, visible) \in CraftRange
<1>1. Older(c.age, CraftAge) \in 0 .. CraftAge
  BY OlderType, CraftAgeType DEF CraftRange
<1>2. [c EXCEPT !.age = Older(c.age, CraftAge)] \in CraftRange
  BY <1>1 DEF CraftRange
<1> QED
  BY <1>2, NoCraftType DEF RefreshCraft

\* A key newly down.
LEMMA EmitPress ==
    ASSUME NEW s \in Report, NEW k, NEW now, NEW old, k \in now \ old
    PROVE  /\ EmitKey(s, k, now, old) \in Report
           /\ EmitKey(s, k, now, old).pending = s.pending + 1
           /\ EmitKey(s, k, now, old).told = s.told + 1
           /\ Armed(s) => Armed(EmitKey(s, k, now, old))
<1> DEFINE wait == IF s.pending = 0 THEN ReleaseAfter ELSE s.releaseIn
           note == NoteCraftKey(s.craft, k)
           e == [pending |-> s.pending + 1, releaseIn |-> wait, told |-> s.told + 1, craft |-> note]
<1>1. /\ s.pending \in Nat /\ s.releaseIn \in 0 .. Never /\ s.told \in Int /\ s.craft \in CraftRange
      /\ s = [pending |-> s.pending, releaseIn |-> s.releaseIn, told |-> s.told, craft |-> s.craft]
  BY DEF Report
<1>2. EmitKey(s, k, now, old) = e
  BY <1>1 DEF EmitKey
<1>3. wait \in 0 .. Never /\ note \in CraftRange
  BY <1>1, NeverType, NoteCraftKeyType
<1>4. Armed(s) => wait # Never
  BY <1>1, NeverType DEF Armed
<1> HIDE DEF wait, note
<1>5. e \in Report
  BY <1>1, <1>3 DEF Report
<1>6. Armed(s) => Armed(e)
  BY <1>1, <1>4 DEF Armed
<1> QED
  BY <1>2, <1>5, <1>6

\* A key let go while a release is owed.
LEMMA EmitRelease ==
    ASSUME NEW s \in Report, NEW k, NEW now, NEW old, k \in old \ now, s.pending > 0
    PROVE  /\ EmitKey(s, k, now, old) \in Report
           /\ EmitKey(s, k, now, old).pending = s.pending - 1
           /\ EmitKey(s, k, now, old).told = s.told - 1
           /\ Armed(s) => Armed(EmitKey(s, k, now, old))
<1> DEFINE wait == IF s.pending = 1 THEN Never ELSE s.releaseIn
           e == [pending |-> s.pending - 1, releaseIn |-> wait, told |-> s.told - 1, craft |-> s.craft]
<1>1. /\ s.pending \in Nat /\ s.releaseIn \in 0 .. Never /\ s.told \in Int /\ s.craft \in CraftRange
      /\ s = [pending |-> s.pending, releaseIn |-> s.releaseIn, told |-> s.told, craft |-> s.craft]
  BY DEF Report
<1>2. EmitKey(s, k, now, old) = e
  BY <1>1 DEF EmitKey
<1>3. wait \in 0 .. Never /\ s.pending - 1 \in Nat /\ s.told - 1 \in Int
  BY <1>1, NeverType
<1>4. Armed(s) => (wait # Never <=> s.pending - 1 > 0)
  BY <1>1 DEF Armed
<1> HIDE DEF wait
<1>5. e \in Report
  BY <1>1, <1>3 DEF Report
<1>6. Armed(s) => Armed(e)
  BY <1>1, <1>4 DEF Armed
<1> QED
  BY <1>2, <1>5, <1>6

LEMMA EmitNothing ==
    ASSUME NEW s, NEW k, NEW now, NEW old, k \notin now \ old, k \notin old \ now \/ ~(s.pending > 0)
    PROVE  EmitKey(s, k, now, old) = s
  BY DEF EmitKey

\* The pass over all keys owes no more than one release for each key down, keeps the
\* deadline in step with the debt, tells the CP what it adds to the debt, and leaves
\* everything alone when nothing is owed and no key is new.
LEMMA EmitKeysOwe ==
    ASSUME NEW start \in Report, NEW now, NEW old,
           down \in SUBSET Key, last \in SUBSET Key,
           now \ old = down \ last, old \ now = last \ down,
           start.pending <= Cardinality(last), Armed(start)
    PROVE  LET end == EmitKeys(start, now, old)
           IN  /\ end \in Report
               /\ end.pending <= Cardinality(down)
               /\ Armed(end)
               /\ end.told - end.pending = start.told - start.pending
               /\ down \subseteq last /\ start.pending = 0 => end.pending = 0 /\ end.told = start.told
<1>1. PICK g : /\ g[0] = start
               /\ \A i \in 1 .. Len(Order) : g[i] = EmitKey(g[i - 1], Order[i], now, old)
               /\ EmitKeys(start, now, old) = g[Len(Order)]
  BY EmitKeysPass
<1> DEFINE Done(i) == {Order[j] : j \in 1 .. i}
           Held(i) == {k \in Key : IF k \in Done(i) THEN k \in down ELSE k \in last}
           Good(i) == /\ g[i] \in Report
                      /\ g[i].pending <= Cardinality(Held(i))
                      /\ Armed(g[i])
                      /\ g[i].told - g[i].pending = start.told - start.pending
                      /\ down \subseteq last /\ start.pending = 0
                           => g[i].pending = 0 /\ g[i].told = start.told
           Goods == {i \in 0 .. Len(Order) : Good(i)}
<1>2. Len(Order) \in Nat
  BY OrderFacts
<1>3. 0 \in Goods
  <2>1. Held(0) = last
    OBVIOUS
  <2>2. Good(0)
    BY <1>1, <2>1
  <2> HIDE DEF Good
  <2> QED
    BY <1>2, <2>2
<1>4. \A i \in 1 .. Len(Order) : i - 1 \in Goods => i \in Goods
  <2> SUFFICES ASSUME NEW i \in 1 .. Len(Order), Good(i - 1) PROVE Good(i)
    <3> HIDE DEF Good
    <3>1. \A i \in 1 .. Len(Order) : i \in 0 .. Len(Order)
      BY <1>2
    <3> QED
      BY <3>1
  <2> DEFINE k == Order[i]
             s == g[i - 1]
             Before == Held(i - 1)
             After == Held(i)
  <2>1. k \in Key /\ k \notin Done(i - 1) /\ Done(i) = Done(i - 1) \cup {k}
    <3>1. k \in Key /\ \A j \in 1 .. i - 1 : Order[j] # k
      BY OrderFacts
    <3>2. 1 .. i = (1 .. i - 1) \cup {i}
      BY <1>2
    <3> QED
      BY <3>1, <3>2
  <2>2. /\ k \in Before <=> k \in last
        /\ After = IF k \in down THEN Before \cup {k} ELSE Before \ {k}
    BY <2>1
  <2>3. IsFiniteSet(Before)
    <3>1. Before \in SUBSET Key
      OBVIOUS
    <3> QED
      BY <3>1, KeysFinite, FS_Subset
  <2>4. g[i] = EmitKey(s, k, now, old)
    BY <1>1
  <2> HIDE DEF Done
  <2>5. /\ s \in Report /\ s.pending <= Cardinality(Before) /\ Armed(s)
        /\ s.told - s.pending = start.told - start.pending
        /\ down \subseteq last /\ start.pending = 0 => s.pending = 0 /\ s.told = start.told
    OBVIOUS
  <2>6. s.pending \in Nat /\ s.told \in Int /\ start.pending \in Nat /\ start.told \in Int
        /\ Cardinality(Before) \in Nat
    BY <2>3, <2>5, FS_CardinalityType DEF Report
  <2>10. \A card, owes, tells : /\ card \in Nat /\ owes \in Nat /\ tells \in Int
                               /\ owes <= card /\ tells - owes = start.told - start.pending
                               => /\ owes + 1 <= card + 1 /\ owes - 1 <= card - 1
                                  /\ (tells + 1) - (owes + 1) = start.told - start.pending
                                  /\ (tells - 1) - (owes - 1) = start.told - start.pending
    BY <2>6
  <2> SUFFICES /\ g[i] \in Report
               /\ g[i].pending <= Cardinality(After)
               /\ Armed(g[i])
               /\ g[i].told - g[i].pending = start.told - start.pending
               /\ down \subseteq last /\ start.pending = 0
                    => g[i].pending = 0 /\ g[i].told = start.told
    OBVIOUS
  <2> HIDE DEF k, s, Before, After, Held
  <2>7. CASE k \in down \ last
    <3>1. Cardinality(After) = Cardinality(Before) + 1
      BY <2>2, <2>3, <2>7, FS_AddElement
    <3>2. /\ g[i] \in Report /\ g[i].pending = s.pending + 1 /\ g[i].told = s.told + 1
          /\ Armed(g[i])
      BY <2>4, <2>5, <2>7, EmitPress
    <3>3. ~(down \subseteq last)
      BY <2>7
    <3>4. g[i].pending <= Cardinality(After) /\ g[i].told - g[i].pending = start.told - start.pending
      <4>1. /\ s.pending + 1 <= Cardinality(Before) + 1
            /\ (s.told + 1) - (s.pending + 1) = start.told - start.pending
        BY <2>5, <2>6, <2>10
      <4> QED
        BY <3>1, <3>2, <4>1
    <3> QED
      BY <3>2, <3>3, <3>4
  <2>8. CASE k \in last \ down
    <3>1. Cardinality(After) = Cardinality(Before) - 1
      BY <2>2, <2>3, <2>8, FS_RemoveElement
    <3>2. Cardinality(After) \in Nat
      BY <2>3, <2>2, <2>8, FS_RemoveElement, FS_CardinalityType
    <3>3. CASE s.pending > 0
      <4>1. /\ g[i] \in Report /\ g[i].pending = s.pending - 1 /\ g[i].told = s.told - 1
            /\ Armed(g[i])
        BY <2>4, <2>5, <2>8, <3>3, EmitRelease
      <4>2. g[i].pending <= Cardinality(After) /\ g[i].told - g[i].pending = start.told - start.pending
        <5>1. /\ s.pending - 1 <= Cardinality(Before) - 1
              /\ (s.told - 1) - (s.pending - 1) = start.told - start.pending
          BY <2>5, <2>6, <2>10
        <5> QED
          BY <3>1, <4>1, <5>1
      <4>3. ~(down \subseteq last /\ start.pending = 0)
        BY <2>5, <3>3
      <4> QED
        BY <4>1, <4>2, <4>3
    <3>4. CASE ~(s.pending > 0)
      <4>1. g[i] = s
        BY <2>4, <2>8, <3>4, EmitNothing
      <4> QED
        BY <2>5, <2>6, <3>2, <3>4, <4>1
    <3> QED
      BY <3>3, <3>4
  <2>9. CASE k \notin down \ last /\ k \notin last \ down
    <3>1. After = Before
      BY <2>2, <2>9
    <3>2. g[i] = s
      BY <2>4, <2>9, EmitNothing
    <3> QED
      BY <2>5, <3>1, <3>2
  <2> QED
    BY <2>7, <2>8, <2>9
<1>5. Good(Len(Order))
  <2> HIDE DEF Good
  <2>1. \A i \in 0 .. Len(Order) : i \in Goods
    <3> HIDE DEF Goods
    <3> QED
      BY <1>2, <1>3, <1>4, UpTo
  <2> QED
    BY <1>2, <2>1
<1>6. Held(Len(Order)) = down
  BY OrderFacts
<1> QED
  BY <1>1, <1>5, <1>6

-------------------------------------------------------------------------------
(* Autorepeat.  *)

HoldRange == [key : Key \cup {NoKey}, age : 0 .. HoldAge, sent : 0 .. HoldAge + 1]

LEMMA NoHoldType == NoHold \in HoldRange
  BY HoldAgeType DEF NoHold, HoldRange

LEMMA AgedHoldType ==
    ASSUME NEW h \in HoldRange
    PROVE  [h EXCEPT !.age = Older(@, HoldAge)] \in HoldRange
<1>1. Older(h.age, HoldAge) \in 0 .. HoldAge
  BY OlderType, HoldAgeType DEF HoldRange
<1> QED
  BY <1>1 DEF HoldRange

\* Repeat forgets the hold, starts one for a key that is down, or goes on with the one it
\* has, and then sends more only past RepeatAfter.
LEMMA RepeatCases ==
    ASSUME NEW h \in HoldRange, NEW now \in SUBSET Key
    PROVE  LET r == Repeat(h, now)
           IN  /\ r \in HoldRange
               /\ \/ r = NoHold
                  \/ r.key \in now /\ r.age = 0 /\ r.sent = 0
                  \/ /\ r.key \in now /\ r.key = h.key /\ r.age = h.age
                     /\ r.sent = h.sent \/ h.age >= RepeatAfter
<1> DEFINE single == IF Cardinality(now) = 1 THEN CHOOSE k \in now : TRUE ELSE NoKey
           sent == Max({h.sent, 1 + (h.age - RepeatAfter) \div RepeatEvery})
<1>1. single = NoKey \/ single \in now
  BY FS_EmptySet
<1>2. h.age \in 0 .. HoldAge /\ h.sent \in 0 .. HoldAge + 1
  BY DEF HoldRange
<1>3. \/ Repeat(h, now) = NoHold
      \/ Repeat(h, now) = [key |-> single, age |-> 0, sent |-> 0] /\ single # NoKey
      \/ Repeat(h, now) = [h EXCEPT !.sent = sent] /\ h.age >= RepeatAfter /\ single = h.key /\ single # NoKey
      \/ Repeat(h, now) = h /\ single = h.key /\ single # NoKey
  BY DEF Repeat
<1> HIDE DEF single
<1>4. CASE Repeat(h, now) = NoHold
  BY <1>4, NoHoldType
<1>5. CASE Repeat(h, now) = [key |-> single, age |-> 0, sent |-> 0] /\ single # NoKey
  <2>1. single \in Key
    BY <1>1, <1>5
  <2> QED
    BY <1>1, <1>5, <2>1, HoldAgeType DEF HoldRange
<1>6. CASE Repeat(h, now) = [h EXCEPT !.sent = sent] /\ h.age >= RepeatAfter /\ single = h.key /\ single # NoKey
  <2>1. h.age - RepeatAfter \in Nat /\ h.age - RepeatAfter <= HoldAge
    BY <1>2, <1>6, TimeAssumption, HoldAgeType
  <2>2. (h.age - RepeatAfter) \div RepeatEvery \in 0 .. h.age - RepeatAfter
    BY <2>1, AtMostDividend, TimeAssumption
  <2>3. 1 + (h.age - RepeatAfter) \div RepeatEvery \in 0 .. HoldAge + 1
    BY <2>1, <2>2, HoldAgeType
  <2>4. sent \in 0 .. HoldAge + 1
    <3> DEFINE n == 1 + (h.age - RepeatAfter) \div RepeatEvery
    <3> HIDE DEF n
    <3>1. n \in Int /\ h.sent \in Int
      BY <1>2, <2>3, HoldAgeType DEF n
    <3>2. Max({h.sent, n}) \in {h.sent, n}
      BY <3>1, MaxOfTwo
    <3> QED
      BY <1>2, <2>3, <3>2 DEF n
  <2> HIDE DEF sent
  <2>5. [h EXCEPT !.sent = sent] \in HoldRange
    BY <2>4 DEF HoldRange
  <2> QED
    BY <1>1, <1>6, <2>5 DEF HoldRange
<1>7. CASE Repeat(h, now) = h /\ single = h.key /\ single # NoKey
  BY <1>1, <1>7
<1> QED
  BY <1>3, <1>4, <1>5, <1>6, <1>7

-------------------------------------------------------------------------------
(* The keys: their ranges, and what makes the properties of the runs       *)
(* inductive.  With one key at a time the CP has been told of exactly the  *)
(* presses whose release is owed; as long as no craft window has been      *)
(* open, the hold is no older than its key has been down.                  *)

AtMostOne(S) == \A a, b \in S : a = b

KeysInv ==
    /\ TypeOK
    /\ PendingHeld
    /\ suppress \subseteq last /\ paid \subseteq last
    /\ ~past.rolled => /\ AtMostOne(down) /\ AtMostOne(last)
                       /\ told = pending
                       /\ paid # {} => pending = 0
    /\ ~past.craft => /\ craft.progress = 0
                      /\ hold.key # NoKey => /\ hold.key \in last
                                             /\ \/ heldFor[hold.key] >= RepeatAfter
                                                \/ hold.age <= heldFor[hold.key]

LEMMA KeysInitInv == Init => KeysInv
<1> SUFFICES ASSUME Init PROVE KeysInv
  OBVIOUS
<1>1. Cardinality(Key) \in Nat
  BY KeysFinite, FS_CardinalityType
<1>2. NoHold \in HoldRange /\ NoCraft \in CraftRange
  BY NoHoldType, NoCraftType
<1>3. [k \in Key |-> 0] \in [Key -> 0 .. RepeatAfter]
  BY TimeAssumption
<1>4. TypeOK
  <2>1. [rolled |-> FALSE, craft |-> FALSE] \in [rolled : BOOLEAN, craft : BOOLEAN]
    OBVIOUS
  <2> QED
    BY <1>1, <1>2, <1>3, <2>1, NeverType, BoundAssumption DEF Init, TypeOK, HoldRange, CraftRange
<1>5. PendingHeld
  BY FS_EmptySet DEF Init, PendingHeld
<1> QED
  BY <1>4, <1>5 DEF Init, KeysInv, AtMostOne, NoCraft, NoHold

\* What a poll does, with the state of its local variables as witnesses.
LEMMA PollFacts ==
    ASSUME KeysInv, NEW visible, HostPoll(visible)
    PROVE  \E synth \in BOOLEAN, end \in Report, held \in HoldRange, now \in SUBSET down :
              /\ synth => pending > 0
              /\ end.pending <= Cardinality(down) /\ Armed(end)
              /\ end.told - end.pending = IF synth THEN told - 1 ELSE told - pending
              /\ down \subseteq last /\ (synth \/ pending = 0)
                   => end.pending = 0 /\ end.told = IF synth THEN told - 1 ELSE told
              /\ held = NoHold \/ held = [hold EXCEPT !.age = Older(@, HoldAge)]
              /\ pending' = end.pending /\ releaseIn' = end.releaseIn
              /\ told' = end.told /\ craft' = end.craft
              /\ suppress' \subseteq down
              /\ hold' = IF end.craft.progress > 0 THEN held ELSE Repeat(held, now)
              /\ paid' = (paid \cap down) \cup (IF synth THEN down \cap last ELSE {})
              /\ past' = [past EXCEPT !.craft = @ \/ end.craft.progress > 0]
<1> DEFINE window == RefreshCraft(craft, visible)
           wait   == IF releaseIn \in {0, Never} THEN releaseIn ELSE releaseIn - 1
           kept   == suppress \cap down
           now    == down \ kept
           old    == last \ kept
           synth  == window.progress = 0 /\ pending > 0 /\ wait = 0
           start  == [pending   |-> IF synth THEN 0 ELSE pending,
                      releaseIn |-> IF synth THEN Never ELSE wait,
                      told      |-> IF synth THEN told - 1 ELSE told,
                      craft     |-> window]
           end    == EmitKeys(start, now, old)
           held   == IF synth \/ hold = NoHold THEN NoHold
                     ELSE [hold EXCEPT !.age = Older(@, HoldAge)]
<1>1. /\ down \in SUBSET Key /\ last \in SUBSET Key /\ pending \in Nat /\ releaseIn \in 0 .. Never
      /\ told \in Int /\ craft \in CraftRange /\ hold \in HoldRange
      /\ suppress \subseteq last
  BY DEF KeysInv, TypeOK, CraftRange, HoldRange
<1>2. window \in CraftRange
  BY <1>1, RefreshCraftType
<1>3. wait \in 0 .. Never /\ (wait = Never <=> releaseIn = Never)
  BY <1>1, NeverType
<1>4. synth \in BOOLEAN
  OBVIOUS
<1>5. Cardinality(last) \in Nat
  BY <1>1, KeysFinite, FS_Subset, FS_CardinalityType
<1>6. pending <= Cardinality(last) /\ (pending > 0 <=> releaseIn # Never)
  BY DEF KeysInv, PendingHeld
<1>7. now \ old = down \ last /\ old \ now = last \ down /\ now \in SUBSET down
  BY <1>1
<1>8. /\ pending' = end.pending /\ releaseIn' = end.releaseIn
      /\ told' = end.told /\ craft' = end.craft
      /\ suppress' = kept \cup (IF synth THEN down ELSE {})
      /\ hold' = IF end.craft.progress > 0 THEN held ELSE Repeat(held, now)
      /\ paid' = (paid \cap down) \cup (IF synth THEN down \cap last ELSE {})
      /\ past' = [past EXCEPT !.craft = @ \/ end.craft.progress > 0]
  BY DEF HostPoll
<1>9. suppress' \subseteq down
  BY <1>8
<1> HIDE DEF now, old
<1>10. held \in HoldRange /\ (held = NoHold \/ held = [hold EXCEPT !.age = Older(@, HoldAge)])
  BY <1>1, NoHoldType, AgedHoldType
<1>11. synth => pending > 0
  OBVIOUS
<1> HIDE DEF window, wait, synth, held
<1>12. start \in Report
  BY <1>1, <1>2, <1>3, <1>4, NeverType DEF Report
<1>13. start.pending <= Cardinality(last) /\ Armed(start)
  BY <1>1, <1>3, <1>5, <1>6, NeverType DEF Armed
<1>14. /\ end \in Report
       /\ end.pending <= Cardinality(down)
       /\ Armed(end)
       /\ end.told - end.pending = start.told - start.pending
       /\ down \subseteq last /\ start.pending = 0 => end.pending = 0 /\ end.told = start.told
  <2> HIDE DEF start
  <2> QED
    BY <1>1, <1>7, <1>12, <1>13, EmitKeysOwe
<1>15. /\ start.told - start.pending = IF synth THEN told - 1 ELSE told - pending
       /\ start.told = IF synth THEN told - 1 ELSE told
       /\ synth \/ pending = 0 => start.pending = 0
  BY <1>1, <1>4
<1> HIDE DEF start, end
<1>16. /\ end.told - end.pending = IF synth THEN told - 1 ELSE told - pending
       /\ down \subseteq last /\ (synth \/ pending = 0)
            => end.pending = 0 /\ end.told = IF synth THEN told - 1 ELSE told
  BY <1>14, <1>15
<1> QED
  BY <1>4, <1>7, <1>8, <1>9, <1>10, <1>11, <1>14, <1>16, Zenon

LEMMA PollInv == ASSUME KeysInv, NEW visible, HostPoll(visible) PROVE KeysInv'
<1>1. PICK synth \in BOOLEAN, end \in Report, held \in HoldRange, now \in SUBSET down :
              /\ synth => pending > 0
              /\ end.pending <= Cardinality(down) /\ Armed(end)
              /\ end.told - end.pending = IF synth THEN told - 1 ELSE told - pending
              /\ down \subseteq last /\ (synth \/ pending = 0)
                   => end.pending = 0 /\ end.told = IF synth THEN told - 1 ELSE told
              /\ held = NoHold \/ held = [hold EXCEPT !.age = Older(@, HoldAge)]
              /\ pending' = end.pending /\ releaseIn' = end.releaseIn
              /\ told' = end.told /\ craft' = end.craft
              /\ suppress' \subseteq down
              /\ hold' = IF end.craft.progress > 0 THEN held ELSE Repeat(held, now)
              /\ paid' = (paid \cap down) \cup (IF synth THEN down \cap last ELSE {})
              /\ past' = [past EXCEPT !.craft = @ \/ end.craft.progress > 0]
  BY PollFacts
<1>2. /\ down \in SUBSET Key /\ last \in SUBSET Key /\ paid \in SUBSET Key
      /\ pending \in Nat /\ told \in Int /\ hold \in HoldRange
      /\ heldFor \in [Key -> 0 .. RepeatAfter] /\ past \in [rolled : BOOLEAN, craft : BOOLEAN]
  BY DEF KeysInv, TypeOK, HoldRange
<1>3. end.pending \in Nat /\ end.told \in Int /\ end.releaseIn \in 0 .. Never /\ end.craft \in CraftRange
  BY DEF Report
<1>4. /\ last' = down /\ down' = down /\ presses' = presses
      /\ heldFor' = [k \in Key |-> IF k \in down \cap last THEN Older(heldFor[k], RepeatAfter) ELSE 0]
  BY DEF HostPoll
<1>5. Cardinality(down) \in Nat /\ Cardinality(down) <= Cardinality(Key) /\ Cardinality(Key) \in Nat
  BY <1>2, KeysFinite, FS_Subset, FS_CardinalityType
<1>6. Repeat(held, now) \in HoldRange
  BY <1>2, RepeatCases
<1>7. hold' \in HoldRange
  BY <1>1, <1>6
<1>8. heldFor' \in [Key -> 0 .. RepeatAfter]
  <2>1. \A k \in Key : heldFor[k] \in 0 .. RepeatAfter /\ 0 \in 0 .. RepeatAfter
    BY <1>2, TimeAssumption
  <2>2. \A k \in Key : Older(heldFor[k], RepeatAfter) \in 0 .. RepeatAfter
    BY <2>1, OlderType, TimeAssumption
  <2> QED
    BY <1>4, <2>1, <2>2
<1>9. past' \in [rolled : BOOLEAN, craft : BOOLEAN] /\ past'.rolled = past.rolled
      /\ past'.craft = (past.craft \/ end.craft.progress > 0)
  BY <1>1, <1>2
<1>10. TypeOK'
  <2>1. suppress' \in SUBSET Key /\ paid' \in SUBSET Key /\ down' \in SUBSET Key /\ last' \in SUBSET Key
    BY <1>1, <1>2, <1>4
  <2>2. pending' \in 0 .. Cardinality(Key)
    BY <1>1, <1>3, <1>5
  <2>3. presses' \in 0 .. MaxPresses
    BY <1>4 DEF KeysInv, TypeOK
  <2> QED
    BY <1>1, <1>3, <1>7, <1>8, <1>9, <2>1, <2>2, <2>3 DEF TypeOK, HoldRange, CraftRange
<1>11. PendingHeld'
  BY <1>1, <1>4 DEF PendingHeld, Armed
<1>12. suppress' \subseteq last' /\ paid' \subseteq last'
  BY <1>1, <1>4
<1>13. ASSUME ~past'.rolled
       PROVE  /\ AtMostOne(down') /\ AtMostOne(last')
              /\ told' = pending'
              /\ paid' # {} => pending' = 0
  <2>1. /\ ~past.rolled /\ AtMostOne(down) /\ AtMostOne(last) /\ told = pending
        /\ paid # {} => pending = 0
        /\ paid \subseteq last
    BY <1>9, <1>13 DEF KeysInv
  <2>2. pending \in {0, 1}
    <3>1. Cardinality(last) \in {0, 1}
      <4>1. last = {} \/ \E k : last = {k}
        BY <2>1 DEF AtMostOne
      <4> QED
        BY <4>1, FS_EmptySet, FS_Singleton
    <3> QED
      BY <1>2, <3>1 DEF KeysInv, PendingHeld
  <2>3. end.told = end.pending
    <3>1. end.told - end.pending = 0
      BY <1>1, <2>1, <2>2, <1>2
    <3> QED
      BY <1>3, <3>1
  <2>4. ASSUME paid' # {} PROVE pending' = 0
    <3>1. PICK k \in paid' : TRUE
      BY <2>4
    <3>2. k \in down /\ k \in last
      BY <1>1, <2>1
    <3>3. down \subseteq last
      BY <2>1, <3>2 DEF AtMostOne
    <3>4. synth \/ pending = 0
      BY <1>1, <2>1, <3>1
    <3> QED
      BY <1>1, <3>3, <3>4
  <2> QED
    BY <1>1, <1>4, <2>1, <2>3, <2>4 DEF AtMostOne
<1>14. ASSUME ~past'.craft
       PROVE  /\ craft'.progress = 0
              /\ hold'.key # NoKey => /\ hold'.key \in last'
                                      /\ \/ heldFor'[hold'.key] >= RepeatAfter
                                         \/ hold'.age <= heldFor'[hold'.key]
  <2>1. ~past.craft /\ ~(end.craft.progress > 0)
    BY <1>9, <1>14
  <2>2. end.craft.progress = 0
    BY <1>3, <2>1, CompleteType DEF CraftRange
  <2>3. hold' = Repeat(held, now)
    BY <1>1, <2>1
  <2>4. hold.key # NoKey => /\ hold.key \in last
                            /\ \/ heldFor[hold.key] >= RepeatAfter
                               \/ hold.age <= heldFor[hold.key]
    BY <2>1 DEF KeysInv
  <2>5. ASSUME hold'.key # NoKey
        PROVE  /\ hold'.key \in down
               /\ \/ heldFor'[hold'.key] >= RepeatAfter
                  \/ hold'.age <= heldFor'[hold'.key]
    <3>1. \/ hold' = NoHold
          \/ hold'.key \in now /\ hold'.age = 0
          \/ hold'.key \in now /\ hold'.key = held.key /\ hold'.age = held.age
      BY <1>2, <2>3, RepeatCases
    <3>2. CASE hold' = NoHold
      BY <2>5, <3>2 DEF NoHold
    <3>3. CASE hold'.key \in now /\ hold'.age = 0
      <4>1. hold'.key \in Key /\ heldFor'[hold'.key] \in Nat
        BY <1>2, <1>8, <3>3, TimeAssumption
      <4> QED
        BY <3>3, <4>1
    <3>4. CASE hold'.key \in now /\ hold'.key = held.key /\ hold'.age = held.age
      <4>1. held # NoHold
        BY <2>5, <3>4 DEF NoHold
      <4>2. held.key = hold.key /\ held.age = Older(hold.age, HoldAge)
        BY <1>1, <1>2, <4>1 DEF HoldRange
      <4> DEFINE k == hold.key
      <4>3. k \in Key /\ k \in down \cap last
        BY <1>2, <2>4, <2>5, <3>4, <4>2
      <4>4. heldFor'[k] = Older(heldFor[k], RepeatAfter)
        BY <1>4, <4>3
      <4>5. heldFor[k] \in 0 .. RepeatAfter /\ hold.age \in 0 .. HoldAge
        BY <1>2, <4>3 DEF HoldRange
      <4>6. heldFor[k] >= RepeatAfter \/ hold.age <= heldFor[k]
        BY <2>4, <2>5, <3>4, <4>2
      <4> HIDE DEF k
      <4>7. heldFor'[k] >= RepeatAfter \/ Older(hold.age, HoldAge) <= heldFor'[k]
        BY <4>4, <4>5, <4>6, TimeAssumption, HoldAgeType DEF Older
      <4> QED
        BY <3>4, <4>2, <4>7 DEF k
    <3> QED
      BY <3>1, <3>2, <3>3, <3>4
  <2> QED
    BY <1>1, <1>4, <2>2, <2>5
<1> QED
  BY <1>10, <1>11, <1>12, <1>13, <1>14 DEF KeysInv

LEMMA PressInv == ASSUME KeysInv, NEW k \in Key, Press(k) PROVE KeysInv'
<1>1. /\ last' = last /\ pending' = pending /\ releaseIn' = releaseIn /\ suppress' = suppress
      /\ hold' = hold /\ craft' = craft /\ told' = told /\ heldFor' = heldFor /\ paid' = paid
      /\ down' = down \cup {k} /\ presses' = presses - 1 /\ presses > 0
      /\ past' = [past EXCEPT !.rolled = @ \/ down # {}]
  BY DEF Press
<1>2. past \in [rolled : BOOLEAN, craft : BOOLEAN]
  BY DEF KeysInv, TypeOK
<1>3. past' \in [rolled : BOOLEAN, craft : BOOLEAN] /\ past'.craft = past.craft
      /\ past'.rolled = (past.rolled \/ down # {})
  BY <1>1, <1>2
<1>4. TypeOK'
  <2>1. down' \in SUBSET Key /\ presses' \in 0 .. MaxPresses
    BY <1>1, BoundAssumption DEF KeysInv, TypeOK
  <2> QED
    BY <1>1, <1>3, <2>1 DEF KeysInv, TypeOK
<1>5. ~past'.rolled => ~past.rolled /\ AtMostOne(down')
  BY <1>1, <1>3 DEF AtMostOne
<1> QED
  BY <1>1, <1>3, <1>4, <1>5 DEF KeysInv, PendingHeld, AtMostOne

LEMMA LetGoInv == ASSUME KeysInv, NEW k \in Key, LetGo(k) PROVE KeysInv'
<1>1. /\ last' = last /\ pending' = pending /\ releaseIn' = releaseIn /\ suppress' = suppress
      /\ hold' = hold /\ craft' = craft /\ told' = told /\ heldFor' = heldFor /\ paid' = paid
      /\ down' = down \ {k} /\ presses' = presses /\ past' = past
  BY DEF LetGo
<1> QED
  BY <1>1 DEF KeysInv, TypeOK, PendingHeld, AtMostOne

LEMMA KeysStepInv == KeysInv /\ [Next]_vars => KeysInv'
<1> SUFFICES ASSUME KeysInv, [Next]_vars PROVE KeysInv'
  OBVIOUS
<1>1. CASE UNCHANGED vars
  BY <1>1 DEF vars, KeysInv, TypeOK, PendingHeld, AtMostOne
<1> QED
  BY <1>1, PressInv, LetGoInv, PollInv DEF Next

\* A key paid for is the only one, so letting it go meets no debt.
LEMMA ReleaseOnceStep ==
    ASSUME KeysInv, [Next]_vars, last' # last, ~past.rolled,
           NEW k \in paid, last \ last' = {k}, last' \subseteq last
    PROVE  told' = told
<1>1. PICK visible \in BOOLEAN : HostPoll(visible)
  BY DEF Next, vars, Press, LetGo
<1>2. /\ AtMostOne(last) /\ told = pending /\ pending = 0 /\ last' = down
  BY <1>1 DEF KeysInv, HostPoll
<1>3. PICK synth \in BOOLEAN, end \in Report :
         /\ synth => pending > 0
         /\ down \subseteq last /\ (synth \/ pending = 0)
              => end.pending = 0 /\ end.told = IF synth THEN told - 1 ELSE told
         /\ told' = end.told
  BY <1>1, PollFacts
<1> QED
  BY <1>2, <1>3

\* More repeats are sent only for the key of the hold, which has then been down as long.
LEMMA RepeatsNeedHoldStep ==
    ASSUME KeysInv, [Next]_vars, hold'.sent > hold.sent, ~past.craft
    PROVE  heldFor'[hold'.key] >= RepeatAfter
<1>1. hold \in HoldRange /\ hold.sent \in Nat
  BY HoldAgeType DEF KeysInv, TypeOK, HoldRange
<1>2. PICK visible \in BOOLEAN : HostPoll(visible)
  BY <1>1 DEF Next, vars, Press, LetGo
<1>3. PICK end \in Report, held \in HoldRange, now \in SUBSET down :
         /\ held = NoHold \/ held = [hold EXCEPT !.age = Older(@, HoldAge)]
         /\ hold' = IF end.craft.progress > 0 THEN held ELSE Repeat(held, now)
  BY <1>2, PollFacts
<1>4. now \in SUBSET Key /\ heldFor \in [Key -> 0 .. RepeatAfter] /\ NoHold.sent = 0
  BY DEF KeysInv, TypeOK, NoHold
<1>5. held = NoHold \/ (held.key = hold.key /\ held.sent = hold.sent /\ held.age = Older(hold.age, HoldAge))
  BY <1>1, <1>3 DEF HoldRange
<1>6. held.sent <= hold.sent
  BY <1>1, <1>4, <1>5
<1>7. hold' # held
  <2>1. held.sent \in Nat
    BY HoldAgeType DEF HoldRange
  <2> QED
    BY <1>1, <1>6, <2>1
<1>8. hold' = Repeat(held, now)
  BY <1>3, <1>7
<1>9. /\ hold'.key \in now /\ hold'.key = held.key
      /\ hold'.sent = held.sent \/ held.age >= RepeatAfter
  <2>1. hold' # NoHold /\ hold'.sent # 0
    BY <1>1, <1>4
  <2> QED
    BY <1>3, <1>4, <1>8, <2>1, RepeatCases
<1>10. hold'.key \in Key /\ hold'.key # NoKey
  BY <1>4, <1>9, OrderAssumption
<1>11. held # NoHold /\ hold'.key = hold.key
  BY <1>5, <1>9, <1>10 DEF NoHold
<1>12. Older(hold.age, HoldAge) >= RepeatAfter
  BY <1>1, <1>5, <1>6, <1>9, <1>11
<1> DEFINE k == hold.key
<1>13. /\ k \in last /\ k \in down /\ k \in Key
       /\ heldFor[k] >= RepeatAfter \/ hold.age <= heldFor[k]
  BY <1>3, <1>9, <1>10, <1>11 DEF KeysInv
<1>14. heldFor'[k] = Older(heldFor[k], RepeatAfter)
  BY <1>2, <1>13 DEF HostPoll
<1>15. heldFor[k] \in 0 .. RepeatAfter /\ hold.age \in 0 .. HoldAge
  BY <1>1, <1>4, <1>13 DEF HoldRange
<1> HIDE DEF k
<1>16. heldFor'[k] >= RepeatAfter
  BY <1>12, <1>13, <1>14, <1>15, TimeAssumption, HoldAgeType DEF Older
<1> QED
  BY <1>11, <1>16 DEF k

-------------------------------------------------------------------------------
(* The hook switch.  *)

Differ(a, b) == IF a = b THEN 0 ELSE 1

\* Transitions counted, and those still on their way from the switch through the sampler.
Transitions == rapid + Differ(seen.offhook, sample.stable) + Differ(sample.stable, offhook)

HookInv == /\ Transitions <= MaxMoves - moves + 1
           /\ AbuseEarned

USE HookTimeAssumption, AbuseAssumption, UserAssumption

LEMMA SampledType ==
    ASSUME HookTypeOK, NEW step \in {0, 1}
    PROVE  Sampled(step) \in [raw : BOOLEAN, age : 0 .. Debounce, stable : BOOLEAN]
  BY DEF HookTypeOK, Sampled, Aged

\* The sampler either keeps its state or takes that of the switch.
LEMMA SampledStable ==
    ASSUME NEW step
    PROVE  Sampled(step).stable \in {sample.stable, offhook}
  BY DEF Sampled

LEMMA PromotedType ==
    ASSUME HookTypeOK
    PROVE  /\ Promoted \in [onhook : BOOLEAN, stable : BOOLEAN, wait : 0 .. Stabilise + 1]
           /\ Promoted.onhook = tel.onhook
<1> DEFINE w == IF tel.wait = 0 THEN 0 ELSE tel.wait - 1
<1>1. tel \in [onhook : BOOLEAN, stable : BOOLEAN, wait : 0 .. Stabilise + 1]
  BY DEF HookTypeOK
<1>2. w \in 0 .. Stabilise
  BY <1>1
<1>3. Promoted = [[tel EXCEPT !.wait = w] EXCEPT !.stable = IF w = 0 THEN tel.onhook ELSE tel.stable]
  BY <1>1 DEF Promoted
<1> HIDE DEF w
<1>4. [tel EXCEPT !.wait = w] \in [onhook : BOOLEAN, stable : BOOLEAN, wait : 0 .. Stabilise + 1]
  BY <1>1, <1>2
<1> QED
  BY <1>1, <1>3, <1>4

LEMMA SetTelHookType ==
    ASSUME NEW t \in [onhook : BOOLEAN, stable : BOOLEAN, wait : 0 .. Stabilise + 1], NEW onhook \in BOOLEAN,
           NEW wait \in 0 .. Stabilise + 1
    PROVE  SetTelHook(t, onhook, wait) \in [onhook : BOOLEAN, stable : BOOLEAN, wait : 0 .. Stabilise + 1]
<1> DEFINE T == [onhook : BOOLEAN, stable : BOOLEAN, wait : 0 .. Stabilise + 1]
           u == [t EXCEPT !.onhook = onhook]
<1>1. u \in T
  OBVIOUS
<1>2. [u EXCEPT !.wait = wait] \in T
  BY <1>1
<1>3. SetTelHook(t, onhook, wait) \in {t, [u EXCEPT !.wait = wait]}
  BY DEF SetTelHook
<1> QED
  BY <1>2, <1>3

\* The CP's relay command: the telephony side takes the commanded state.
LEMMA RelayType ==
    ASSUME HookTypeOK, NEW onhook \in BOOLEAN, HookRelay(onhook)
    PROVE  HookTypeOK'
<1>1. Stabilise + 1 \in 0 .. Stabilise + 1
  OBVIOUS
<1>2. tel' \in [onhook : BOOLEAN, stable : BOOLEAN, wait : 0 .. Stabilise + 1]
  BY <1>1, SetTelHookType DEF HookRelay, HookTypeOK
<1>3. hookTold' \in [onhook : BOOLEAN, known : BOOLEAN, line : BOOLEAN, abused : BOOLEAN]
  BY DEF HookRelay, HookTypeOK
<1> QED
  BY <1>2, <1>3 DEF HookRelay, HookTypeOK

LEMMA HookInitType == HookInit => HookTypeOK
  BY DEF HookInit, HookTypeOK, LongAgo

LEMMA HookPollType == HookTypeOK /\ HookPoll => HookTypeOK'
<1> SUFFICES ASSUME HookTypeOK, HookPoll PROVE HookTypeOK'
  OBVIOUS
<1>1. Now \in [raw : BOOLEAN, age : 0 .. Debounce, stable : BOOLEAN]
  BY SampledType DEF Now
<1>2. sample' \in [raw : BOOLEAN, age : 0 .. Debounce, stable : BOOLEAN]
  BY <1>1 DEF HookPoll
<1>3. seen' \in [offhook : BOOLEAN, line : BOOLEAN]
  BY <1>1 DEF HookPoll, HookTypeOK
<1>4. Elapsed \in 0 .. LongAgo /\ still' \in 0 .. Dwell
  BY DEF HookPoll, HookTypeOK, Elapsed, Aged, LongAgo
<1>5. since' \in 0 .. LongAgo
  BY <1>4 DEF HookPoll, LongAgo
<1>6. RapidCount \in Nat
  BY DEF RapidCount, HookTypeOK
<1>7. rapid' \in 0 .. AbuseLimit - 1
  BY <1>6 DEF HookPoll, HookTypeOK, Abuse
<1>8. Promoted \in [onhook : BOOLEAN, stable : BOOLEAN, wait : 0 .. Stabilise + 1]
  BY PromotedType
<1>9. SetTelHook(Promoted, ~Now.stable, Stabilise) \in [onhook : BOOLEAN, stable : BOOLEAN, wait : 0 .. Stabilise + 1]
  <2>1. (~Now.stable) \in {TRUE, FALSE}
    <3>1. CASE Now.stable
      BY <3>1
    <3>2. CASE ~Now.stable
      BY <3>2
    <3> QED
      BY <3>1, <3>2
  <2>2. Stabilise \in 0 .. Stabilise + 1
    OBVIOUS
  <2> QED
    BY <2>1, <2>2, <1>8, SetTelHookType
<1>10. tel' \in [onhook : BOOLEAN, stable : BOOLEAN, wait : 0 .. Stabilise + 1]
  BY <1>8, <1>9 DEF HookPoll
<1>11. ToldLine \in [line : BOOLEAN, abused : BOOLEAN]
  BY DEF ToldLine, HookTypeOK
<1>12. hookTold' \in [onhook : BOOLEAN, known : BOOLEAN, line : BOOLEAN, abused : BOOLEAN]
  BY <1>11 DEF HookPoll, HookTypeOK
<1> QED
  BY <1>2, <1>3, <1>4, <1>5, <1>7, <1>10, <1>12 DEF HookPoll, HookTypeOK

LEMMA HookStepType == HookTypeOK /\ [HookNext]_hookVars => HookTypeOK'
<1> SUFFICES ASSUME HookTypeOK, [HookNext]_hookVars PROVE HookTypeOK'
  OBVIOUS
<1>1. CASE MoveHook
  BY <1>1 DEF MoveHook, HookTypeOK
<1>2. CASE MoveLine
  BY <1>2 DEF MoveLine, HookTypeOK
<1>3. CASE KeyQuery
  BY <1>3, SampledType DEF KeyQuery, HookTypeOK
<1>4. CASE HookPoll
  BY <1>4, HookPollType
<1>5. CASE \E onhook \in BOOLEAN : HookRelay(onhook)
  BY <1>5, RelayType
<1>6. CASE UNCHANGED hookVars
  BY <1>6 DEF hookVars, HookTypeOK
<1> QED
  BY <1>1, <1>2, <1>3, <1>4, <1>5, <1>6 DEF HookNext

\* Every age, counter and deadline of the hook switch stays in its range.
THEOREM HookTypeCorrect == HookSpec => []HookTypeOK
  BY HookInitType, HookStepType, PTL DEF HookSpec

-------------------------------------------------------------------------------

\* What set_tel_hook_state leaves: the new state, believed unless the stabilisation has begun.
LEMMA SetTelHookTakes ==
    ASSUME NEW t \in [onhook : BOOLEAN, stable : BOOLEAN, wait : 0 .. Stabilise + 1],
           NEW onhook \in BOOLEAN, NEW wait \in 1 .. Stabilise + 1
    PROVE  /\ SetTelHook(t, onhook, wait).onhook = onhook
           /\ SetTelHook(t, onhook, wait).wait = 0 => SetTelHook(t, onhook, wait).stable = onhook
<1>1. CASE t.onhook = onhook /\ t.stable = onhook
  BY <1>1 DEF SetTelHook
<1>2. CASE ~(t.onhook = onhook /\ t.stable = onhook)
  <2>1. SetTelHook(t, onhook, wait) = [t EXCEPT !.onhook = onhook, !.wait = wait]
    BY <1>2 DEF SetTelHook
  <2> QED
    BY <2>1
<1> QED
  BY <1>1, <1>2

LEMMA TelAgreesPoll == HookTypeOK /\ TelAgrees /\ HookPoll => TelAgrees'
<1> SUFFICES ASSUME HookTypeOK, TelAgrees, HookPoll PROVE TelAgrees'
  OBVIOUS
<1>1. /\ Promoted \in [onhook : BOOLEAN, stable : BOOLEAN, wait : 0 .. Stabilise + 1]
      /\ Promoted.onhook = tel.onhook
  BY PromotedType
<1>2. Now.stable \in BOOLEAN /\ hookTold.known \in BOOLEAN
  BY SampledType DEF Now, HookTypeOK
<1>3. CASE Accepted
  <2>1. /\ SetTelHook(Promoted, ~Now.stable, Stabilise).onhook = ~Now.stable
        /\ SetTelHook(Promoted, ~Now.stable, Stabilise).wait = 0
             => SetTelHook(Promoted, ~Now.stable, Stabilise).stable = ~Now.stable
    <3>1. (~Now.stable) \in BOOLEAN /\ Stabilise \in 1 .. Stabilise + 1
      BY <1>2
    <3> QED
      BY <3>1, <1>1, SetTelHookTakes
  <2>2. tel' = SetTelHook(Promoted, ~Now.stable, Stabilise) /\ hookTold'.known = ~Now.stable
    BY <1>3 DEF HookPoll
  <2> QED
    BY <2>1, <2>2 DEF TelAgrees
<1>4. CASE ~Accepted
  <2>1. tel' = Promoted /\ hookTold'.known = hookTold.known
    BY <1>4 DEF HookPoll
  <2>2. Promoted.wait = 0 => Promoted.stable = tel.onhook
    BY DEF Promoted, HookTypeOK
  <2> QED
    BY <1>1, <2>1, <2>2 DEF TelAgrees
<1> QED
  BY <1>3, <1>4

LEMMA TelAgreesStep == HookTypeOK /\ TelAgrees /\ [HookNext]_hookVars => TelAgrees'
<1> SUFFICES ASSUME HookTypeOK, TelAgrees, [HookNext]_hookVars PROVE TelAgrees'
  OBVIOUS
<1>1. CASE HookPoll
  BY <1>1, TelAgreesPoll
<1>2. ASSUME NEW onhook \in BOOLEAN, HookRelay(onhook) PROVE TelAgrees'
  <2>1. Stabilise + 1 \in 1 .. Stabilise + 1
    OBVIOUS
  <2>2. tel' = SetTelHook(tel, onhook, Stabilise + 1) /\ hookTold'.known = onhook
    BY <1>2 DEF HookRelay, HookTypeOK
  <2> QED
    BY <2>1, <2>2, SetTelHookTakes DEF TelAgrees, HookTypeOK
<1>3. CASE MoveHook \/ MoveLine \/ KeyQuery \/ UNCHANGED hookVars
  BY <1>3 DEF hookVars, MoveHook, MoveLine, KeyQuery, TelAgrees
<1> QED
  BY <1>1, <1>2, <1>3 DEF HookNext

\* The telephony side holds the hook state the CP knows, from the last transition reported to
\* it or its own last relay command, and believes it once the stabilisation is over, whatever
\* bounces and is dropped.
THEOREM HookAgrees == HookSpec => []TelAgrees
<1>1. HookInit => TelAgrees
  BY DEF HookInit, TelAgrees
<1> QED
  BY <1>1, HookInitType, HookStepType, TelAgreesStep, PTL DEF HookSpec

LEMMA AbuseInit == HookInit => HookInv
  BY DEF HookInit, HookInv, Transitions, Differ, AbuseEarned

\* A sample moves a transition on and makes none.
LEMMA SampleCarries ==
    ASSUME HookTypeOK, NEW step \in {0, 1}
    PROVE  Differ(seen.offhook, Sampled(step).stable) + Differ(Sampled(step).stable, offhook)
             <= Differ(seen.offhook, sample.stable) + Differ(sample.stable, offhook)
  BY SampledStable DEF Differ, HookTypeOK

LEMMA AbusePoll == HookTypeOK /\ HookInv /\ HookPoll => HookInv'
<1> SUFFICES ASSUME HookTypeOK, HookInv, HookPoll PROVE HookInv'
  OBVIOUS
<1> DEFINE before == Differ(seen.offhook, sample.stable) + Differ(sample.stable, offhook)
           ahead == Differ(Now.stable, offhook)
           step == Differ(seen.offhook, Now.stable)
<1>1. step + ahead <= before
  BY SampleCarries DEF Now
<1>2. /\ rapid \in Nat /\ moves \in 0 .. MaxMoves /\ ahead \in {0, 1} /\ step \in {0, 1}
      /\ before \in {0, 1, 2} /\ rapid + before <= MaxMoves - moves + 1
  BY DEF HookTypeOK, HookInv, Transitions, Differ
<1>3. Accepted => step = 1
  BY DEF Accepted, Differ
<1>4. RapidCount \in Nat /\ RapidCount <= rapid + 1
  BY <1>2 DEF RapidCount
<1>5. rapid' \in Nat /\ rapid' <= rapid + step
  BY <1>2, <1>3, <1>4 DEF HookPoll
<1>6. Transitions' = rapid' + ahead
  BY <1>2, <1>5 DEF HookPoll, Transitions, Differ
<1>7. Transitions' <= MaxMoves' - moves' + 1
  BY <1>1, <1>2, <1>5, <1>6 DEF HookPoll
<1>8. Abuse => MaxMoves - moves + 1 >= AbuseLimit
  BY <1>1, <1>2, <1>3, <1>4 DEF Abuse
<1>9. AbuseEarned'
  BY <1>8 DEF HookPoll, ToldLine, HookInv, AbuseEarned
<1> QED
  BY <1>7, <1>9 DEF HookInv

LEMMA AbuseStep == HookTypeOK /\ HookInv /\ [HookNext]_hookVars => HookInv'
<1> SUFFICES ASSUME HookTypeOK, HookInv, [HookNext]_hookVars PROVE HookInv'
  OBVIOUS
<1>1. CASE MoveHook
  BY <1>1 DEF MoveHook, HookTypeOK, HookInv, Transitions, Differ, AbuseEarned
<1>2. CASE MoveLine
  BY <1>2 DEF MoveLine, HookTypeOK, HookInv, Transitions, Differ, AbuseEarned
<1>3. CASE KeyQuery
  <2>1. Transitions' <= Transitions
    BY <1>3, SampleCarries DEF KeyQuery, Transitions, HookTypeOK, Differ
  <2>2. Transitions \in Nat /\ Transitions' \in Nat /\ moves' = moves /\ moves \in Nat /\ hookTold' = hookTold
    BY <1>3 DEF KeyQuery, Transitions, HookTypeOK, Differ
  <2> QED
    BY <2>1, <2>2 DEF HookInv, AbuseEarned
<1>4. CASE HookPoll
  BY <1>4, AbusePoll
<1>5. ASSUME NEW onhook \in BOOLEAN, HookRelay(onhook) PROVE HookInv'
  <2>1. hookTold'.abused = hookTold.abused
    BY <1>5 DEF HookRelay, HookTypeOK
  <2> QED
    BY <1>5, <2>1 DEF HookRelay, HookInv, Transitions, AbuseEarned
<1>6. CASE UNCHANGED hookVars
  BY <1>6 DEF hookVars, HookInv, Transitions, AbuseEarned
<1> QED
  BY <1>1, <1>2, <1>3, <1>4, <1>5, <1>6 DEF HookNext

\* A line interruption is invented only for a user who hooked AbuseLimit times, the handset
\* found off hook at the start counted, for every debounce, guard and window.
THEOREM HookAbuseEarned == HookSpec => []AbuseEarned
<1>1. HookInv => AbuseEarned
  BY DEF HookInv
<1> QED
  BY <1>1, HookInitType, HookStepType, AbuseInit, AbuseStep, PTL DEF HookSpec

-------------------------------------------------------------------------------
(* The panel: each half takes its own steps and leaves the other alone.  *)

LEMMA PanelSteps == [PanelNext]_panelVars => [Next]_vars /\ [HookNext]_hookVars
  BY DEF PanelNext, panelVars

LEMMA PanelInits == PanelInit => Init /\ HookInit
  BY DEF PanelInit

LEMMA PanelKeysInv == PanelSpec => []KeysInv
  BY PanelInits, PanelSteps, KeysInitInv, KeysStepInv, PTL DEF PanelSpec

\* Debts, deadlines, ages and histories of both halves keep their ranges, for every pad, craft
\* sequence and choice of timeouts: above all, no more releases are owed than there are keys.
THEOREM PanelTypeCorrect == PanelSpec => []PanelTypeOK
<1>1. PanelSpec => []HookTypeOK
  BY PanelInits, PanelSteps, HookInitType, HookStepType, PTL DEF PanelSpec
<1>2. KeysInv /\ HookTypeOK => PanelTypeOK
  BY DEF KeysInv, PanelTypeOK
<1> QED
  BY <1>1, <1>2, PanelKeysInv, PTL

\* A release is owed only for keys that are down, and the deadline that would synthesise it is
\* armed exactly while one is owed.
THEOREM PanelPendingHeld == PanelSpec => []PendingHeld
<1>1. KeysInv => PendingHeld
  BY DEF KeysInv
<1> QED
  BY <1>1, PanelKeysInv, PTL

\* With every key up, the CP has been told of as many releases as presses, if the user has
\* pressed one key at a time, whatever the craft window postponed and the deadline paid.
THEOREM PanelReleasesMatch == PanelSpec => []ReleasesMatch
<1>1. KeysInv => ReleasesMatch
  <2> SUFFICES ASSUME KeysInv, last = {}, ~past.rolled PROVE told = 0
    BY DEF ReleasesMatch
  <2>1. told = pending /\ pending <= Cardinality(last) /\ pending \in 0 .. Cardinality(Key)
    BY DEF KeysInv, PendingHeld, TypeOK
  <2> QED
    BY <2>1, FS_EmptySet
<1> QED
  BY <1>1, PanelKeysInv, PTL

\* A key whose release was synthesised is let go in silence, with one key at a time.
THEOREM PanelReleaseOnce == PanelSpec => ReleaseOnce
<1>1. KeysInv /\ [PanelNext]_panelVars
        => [last' # last /\ ~past.rolled =>
              \A k \in paid : last \ last' = {k} /\ last' \subseteq last => told' = told]_vars
  BY PanelSteps, ReleaseOnceStep
<1> QED
  BY <1>1, PanelKeysInv, PTL DEF PanelSpec, ReleaseOnce

\* A repeat is sent only for a key that has been down for RepeatAfter polls, as long as no
\* craft window has been open.
THEOREM PanelRepeatsNeedHold == PanelSpec => RepeatsNeedHold
<1>1. KeysInv /\ [PanelNext]_panelVars
        => [hold'.sent > hold.sent /\ ~past.craft => heldFor'[hold'.key] >= RepeatAfter]_vars
  BY PanelSteps, RepeatsNeedHoldStep
<1> QED
  BY <1>1, PanelKeysInv, PTL DEF PanelSpec, RepeatsNeedHold

\* What is proved of the hook switch alone holds of the panel's other half.
THEOREM PanelHookCorrect == PanelSpec => [](TelAgrees /\ AbuseEarned)
<1>1. HookInit => HookTypeOK /\ TelAgrees /\ HookInv
  BY HookInitType, AbuseInit DEF HookInit, TelAgrees
<1>2. HookTypeOK /\ TelAgrees /\ HookInv /\ [HookNext]_hookVars => (HookTypeOK /\ TelAgrees /\ HookInv)'
  BY HookStepType, TelAgreesStep, AbuseStep
<1>3. HookTypeOK /\ TelAgrees /\ HookInv => TelAgrees /\ AbuseEarned
  BY DEF HookInv
<1> QED
  BY <1>1, <1>2, <1>3, PanelInits, PanelSteps, PTL DEF PanelSpec
===============================================================================
