-------------------------- MODULE TopicMappingProofs --------------------------
(***************************************************************************)
(* The topic mapping, for every set of topics, prefix and limit.  The      *)
(* reference definition is a recursive function: that it has a value for   *)
(* every topic, that names grow with every level and that the levels can   *)
(* be read back are inductions over the natural numbers, for which the     *)
(* least element of a set of counterexamples stands.                       *)
(***************************************************************************)
EXTENDS TopicMappingProperties, SequenceTheorems, WellFoundedInduction, TLAPS

\* Induction over the natural numbers, for sets.
LEMMA Induction ==
    ASSUME NEW S, 0 \in S, \A n \in Nat : n \in S => n + 1 \in S
    PROVE  Nat \subseteq S
<1> DEFINE T == {n \in Nat : n \notin S}
<1> SUFFICES ASSUME T # {} PROVE FALSE
    OBVIOUS
<1>1. IsWellFoundedOn(OpToRel(<, Nat), Nat)
    BY NatLessThanWellFounded, Zenon
<1>2. PICK x \in T : \A y \in T : ~(<<y, x>> \in OpToRel(<, Nat))
    <2>1. T \subseteq Nat
        OBVIOUS
    <2> HIDE DEF T
    <2> QED
        BY <1>1, <2>1, WFMin, Zenon
<1>3. x # 0
    OBVIOUS
<1>4. x - 1 \in Nat /\ x - 1 < x /\ (x - 1) + 1 = x
    BY <1>3
<1>5. <<x - 1, x>> \in OpToRel(<, Nat)
    BY <1>4, Zenon DEF OpToRel
<1>6. x - 1 \in S
    BY <1>2, <1>4, <1>5, Zenon
<1> QED
    BY <1>4, <1>6

\* What the recursion computes: its value for no level, and for one more level.
IsNameOf(name, topic, k) ==
    /\ name \in [0..k -> Names]
    /\ \A n \in 0..k :
          name[n] = IF n = 0 THEN KafkaPrefix ELSE name[n - 1] \o <<Dot>> \o topic[n]

\* One more level makes a name.
LEMMA LongerName ==
    ASSUME NEW name \in Names, NEW level \in Names
    PROVE  /\ name \o <<Dot>> \o level \in Names
           /\ Len(name \o <<Dot>> \o level) = Len(name) + 1 + Len(level)
<1>2. <<Dot>> \in Names /\ Len(<<Dot>>) = 1
    BY DotAssumption DEF Names
<1>3. name \o <<Dot>> \in Names /\ Len(name \o <<Dot>>) = Len(name) + 1
    BY <1>2, ConcatProperties DEF Names
<1> QED
    BY <1>3, ConcatProperties DEF Names

\* The recursion has a solution for every topic.
LEMMA NameExists ==
    ASSUME NEW topic \in Seq(Names)
    PROVE  \E name : IsNameOf(name, topic, Len(topic))
<1> DEFINE S == {k \in Nat : k <= Len(topic) => \E name : IsNameOf(name, topic, k)}
<1>1. 0 \in S
    <2> DEFINE name == [n \in 0..0 |-> KafkaPrefix]
    <2>1. IsNameOf(name, topic, 0)
        BY PrefixAssumption DEF IsNameOf
    <2> QED
        BY <2>1
<1>2. ASSUME NEW k \in Nat, k \in S PROVE k + 1 \in S
    <2> SUFFICES ASSUME k + 1 <= Len(topic) PROVE \E name : IsNameOf(name, topic, k + 1)
        OBVIOUS
    <2>1. PICK name : IsNameOf(name, topic, k)
        BY <1>2, LenProperties
    <2>2. topic[k + 1] \in Names
        BY ElementOfSeq, LenProperties
    <2>3. name[k] \in Names
        BY <2>1 DEF IsNameOf
    <2> DEFINE more == name[k] \o <<Dot>> \o topic[k + 1]
               longer == [n \in 0..(k + 1) |-> IF n = k + 1 THEN more ELSE name[n]]
    <2>4. more \in Names
        BY <2>2, <2>3, LongerName
    <2>5. longer \in [0..(k + 1) -> Names]
        <3> HIDE DEF more
        <3> QED
            BY <2>1, <2>4 DEF IsNameOf
    <2>6. ASSUME NEW n \in 0..(k + 1)
          PROVE  longer[n] = IF n = 0 THEN KafkaPrefix
                                      ELSE longer[n - 1] \o <<Dot>> \o topic[n]
        <3>1. CASE n = k + 1
            <4>1. longer[n] = more
                BY <3>1
            <4>2. longer[n - 1] = name[k]
                <5>1. k \in 0..(k + 1) /\ k # k + 1 /\ n - 1 = k
                    BY <3>1
                <5> HIDE DEF more
                <5> QED
                    BY <5>1
            <4> QED
                BY <3>1, <4>1, <4>2
        <3>2. CASE n # k + 1
            <4>1. n \in 0..k
                BY <3>2
            <4>2. longer[n] = name[n] /\ (n # 0 => longer[n - 1] = name[n - 1])
                <5> HIDE DEF more
                <5> QED
                    BY <4>1
            <4> QED
                BY <2>1, <4>1, <4>2 DEF IsNameOf
        <3> QED
            BY <3>1, <3>2
    <2> QED
        <3> HIDE DEF longer
        <3> QED
            BY <2>5, <2>6 DEF IsNameOf
<1>3. Len(topic) \in S
    <2> HIDE DEF S
    <2> QED
        BY <1>1, <1>2, Induction, LenProperties
<1> QED
    BY <1>3, LenProperties

\* NameOf is that solution.
LEMMA NameOfUnfolds ==
    ASSUME NEW topic \in Seq(Names)
    PROVE  IsNameOf(NameOf(topic), topic, Len(topic))
<1> DEFINE Body(name) == [n \in 0..Len(topic) |->
                IF n = 0 THEN KafkaPrefix ELSE name[n - 1] \o <<Dot>> \o topic[n]]
<1>1. PICK name : IsNameOf(name, topic, Len(topic))
    BY NameExists
<1>2. name = Body(name)
    BY <1>1 DEF IsNameOf
<1>3. NameOf(topic) = CHOOSE f : f = Body(f)
    BY DEF NameOf
<1>4. NameOf(topic) = Body(NameOf(topic))
    <2> HIDE DEF Body
    <2> QED
        BY <1>2, <1>3
<1> QED
    BY <1>4

LEMMA NameOfType ==
    ASSUME NEW topic \in Seq(Names), NEW n \in 0..Len(topic)
    PROVE  NameOf(topic)[n] \in Names /\ Len(NameOf(topic)[n]) \in Nat
    BY NameOfUnfolds, LenProperties DEF IsNameOf, Names

\* How far the scan has come: the name of the levels taken, which are all the levels
\* before start unless there are too many.
ScanInv ==
    /\ mqttTopic \in MQTTTopics
    /\ start \in 1..Len(mqttTopic)
    /\ phase = "scan" =>
           /\ levelCount = IF start - 1 < MaxTopicLevels THEN start - 1 ELSE MaxTopicLevels
           /\ builder = NameOf(mqttTopic)[levelCount]

\* The invariant of the whole pass.
IInv == ScanInv /\ TakesFirstLevels /\ CutToFit

\* The topic has levels, and the names of all its beginnings.
LEMMA TopicFacts ==
    ASSUME NEW topic \in MQTTTopics
    PROVE  /\ topic \in Seq(Names)
           /\ Len(topic) \in Nat \ {0}
           /\ LevelsOf(topic) \in 0..Len(topic)
           /\ FullName(topic) \in Names
           /\ Len(FullName(topic)) \in Nat
<1>1. topic \in Seq(Names) /\ Len(topic) \in Nat \ {0}
    BY TopicsAssumption, LenProperties
<1>2. LevelsOf(topic) \in 0..Len(topic)
    BY <1>1, MaxTopicLevelsAssumption DEF LevelsOf
<1> QED
    BY <1>1, <1>2, NameOfType DEF FullName

LEMMA InitInv == Init => IInv
<1> SUFFICES ASSUME Init PROVE IInv
    OBVIOUS
<1> USE DEF Init
<1>1. mqttTopic \in Seq(Names) /\ Len(mqttTopic) \in Nat \ {0}
    BY TopicFacts
<1>2. NameOf(mqttTopic)[0] = KafkaPrefix
    BY <1>1, NameOfUnfolds DEF IsNameOf
<1>3. ScanInv
    BY <1>1, <1>2, MaxTopicLevelsAssumption DEF ScanInv
<1> QED
    BY <1>3 DEF IInv, TakesFirstLevels, CutToFit

\* One more level in the builder is the name of one more level.
LEMMA LevelTaken ==
    ASSUME NEW topic \in MQTTTopics, NEW n \in 1..Len(topic)
    PROVE  NameOf(topic)[n] = NameOf(topic)[n - 1] \o <<Dot>> \o topic[n]
<1>1. n \in 0..Len(topic) /\ n # 0
    OBVIOUS
<1> QED
    BY <1>1, TopicFacts, NameOfUnfolds DEF IsNameOf

LEMMA SeparatorInv == ASSUME IInv, Separator PROVE IInv'
<1> USE DEF Separator
<1>1. mqttTopic \in MQTTTopics /\ Len(mqttTopic) \in Nat /\ start \in 1..Len(mqttTopic)
    BY TopicFacts DEF IInv, ScanInv
<1>2. start' \in 1..Len(mqttTopic)'
    BY <1>1
<1>3. CASE LevelsLeft
    <2>1. levelCount = start - 1 /\ start - 1 < MaxTopicLevels
        BY <1>1, <1>3, MaxTopicLevelsAssumption DEF IInv, ScanInv, LevelsLeft
    <2>2. builder' = NameOf(mqttTopic)[start]
        BY <1>1, <1>3, <2>1, LevelTaken DEF IInv, ScanInv, WithLevel
    <2>3. levelCount' = start /\ (start < MaxTopicLevels \/ start = MaxTopicLevels)
        BY <1>1, <1>3, <2>1, MaxTopicLevelsAssumption
    <2>4. ScanInv'
        BY <1>1, <1>2, <2>2, <2>3, MaxTopicLevelsAssumption DEF ScanInv, IInv
    <2> QED
        BY <2>4 DEF IInv, TakesFirstLevels, CutToFit
<1>4. CASE ~LevelsLeft
    <2>1. levelCount = MaxTopicLevels /\ ~(start - 1 < MaxTopicLevels)
        BY <1>1, <1>4, MaxTopicLevelsAssumption DEF IInv, ScanInv, LevelsLeft
    <2>2. ScanInv'
        BY <1>1, <1>2, <1>4, <2>1, MaxTopicLevelsAssumption DEF ScanInv, IInv
    <2> QED
        BY <2>2 DEF IInv, TakesFirstLevels, CutToFit
<1> QED
    BY <1>3, <1>4

LEMMA LastLevelInv == ASSUME IInv, LastLevel PROVE IInv'
<1> USE DEF LastLevel
<1>1. mqttTopic \in MQTTTopics /\ Len(mqttTopic) \in Nat \ {0} /\ start = Len(mqttTopic)
    BY TopicFacts DEF IInv, ScanInv
<1>2. builder' = FullName(mqttTopic)
    <2>1. CASE LevelsLeft
        <3>1. levelCount = start - 1 /\ start - 1 < MaxTopicLevels
            BY <1>1, <2>1, MaxTopicLevelsAssumption DEF IInv, ScanInv, LevelsLeft
        <3>2. LevelsOf(mqttTopic) = start
            BY <1>1, <3>1, MaxTopicLevelsAssumption DEF LevelsOf
        <3>3. builder' = NameOf(mqttTopic)[start]
            BY <1>1, <2>1, <3>1, LevelTaken DEF IInv, ScanInv, WithLevel
        <3> QED
            BY <3>2, <3>3 DEF FullName
    <2>2. CASE ~LevelsLeft
        <3>1. levelCount = MaxTopicLevels /\ ~(start - 1 < MaxTopicLevels)
            BY <1>1, <2>2, MaxTopicLevelsAssumption DEF IInv, ScanInv, LevelsLeft
        <3>2. LevelsOf(mqttTopic) = MaxTopicLevels
            BY <1>1, <3>1, MaxTopicLevelsAssumption DEF LevelsOf
        <3> QED
            BY <2>2, <3>1, <3>2 DEF FullName, IInv, ScanInv
    <2> QED
        BY <2>1, <2>2
<1>3. ScanInv'
    BY <1>1 DEF IInv, ScanInv
<1> QED
    BY <1>2, <1>3 DEF IInv, TakesFirstLevels, CutToFit

\* The cut yields a prefix of what it cuts, one or two characters shorter than too long.
LEMMA CutIsPrefix ==
    ASSUME NEW name \in Names, Len(name) > MaxLength
    PROVE  LET cut == WithoutDot(SubSeq(name, 1, MaxLength))
           IN /\ Len(cut) \in {MaxLength - 1, MaxLength}
              /\ IsPrefix(cut, name)
<1> DEFINE first == SubSeq(name, 1, MaxLength)
           cut   == WithoutDot(first)
<1> USE MaxLengthAssumption
<1>1. /\ Len(name) \in Nat
      /\ \A i \in 1..MaxLength : name[i] \in Characters
    BY LenProperties, ElementOfSeq DEF Names
<1>2. /\ first \in Names
      /\ Len(first) = MaxLength
      /\ \A i \in 1..MaxLength : first[i] = name[i]
    BY <1>1, SubSeqProperties DEF Names
<1> DEFINE n == IF cut = first THEN MaxLength ELSE MaxLength - 1
<1>3. cut = SubSeq(first, 1, MaxLength - 1) \/ cut = first
    BY <1>2, Zenon DEF WithoutDot
<1>4. /\ cut \in Names
      /\ Len(cut) = n
      /\ \A i \in 1..n : cut[i] = name[i]
    <2> HIDE DEF first, cut
    <2>1. CASE cut = first
        BY <1>2, <2>1
    <2>2. CASE cut # first /\ cut = SubSeq(first, 1, MaxLength - 1)
        <3>1. \A i \in 1..MaxLength - 1 : first[i] \in Characters
            BY <1>1, <1>2
        <3>2. /\ cut \in Names
              /\ Len(cut) = MaxLength - 1
              /\ \A i \in 1..MaxLength - 1 : cut[i] = first[i]
            BY <2>2, <3>1, SubSeqProperties DEF Names
        <3> QED
            BY <1>2, <2>2, <3>2
    <2> QED
        BY <1>3, <2>1, <2>2
<1>5. IsPrefix(cut, name)
    <2> HIDE DEF first, cut, n
    <2>1. n \in Nat /\ n <= Len(name) /\ n <= MaxLength
        BY <1>1 DEF n
    <2>2. \A i \in 1..n : cut[i] \in Characters /\ name[i] \in Characters
        BY <1>1, <1>4, <2>1
    <2>3. SubSeq(cut, 1, n) \in Names /\ Len(SubSeq(cut, 1, n)) = n
          /\ \A i \in 1..n : SubSeq(cut, 1, n)[i] = cut[i]
        BY <2>1, <2>2, SubSeqProperties DEF Names
    <2>4. SubSeq(name, 1, n) \in Names /\ Len(SubSeq(name, 1, n)) = n
          /\ \A i \in 1..n : SubSeq(name, 1, n)[i] = name[i]
        BY <2>1, <2>2, SubSeqProperties DEF Names
    <2>5. SubSeq(cut, 1, n) = SubSeq(name, 1, n)
        BY <1>4, <2>3, <2>4, SeqEqual DEF Names
    <2> QED
        BY <1>4, <2>1, <2>5 DEF IsPrefix
<1> QED
    BY <1>4, <1>5

LEMMA CutInv == ASSUME IInv, Cut PROVE IInv'
<1> USE DEF Cut
<1> DEFINE name == FullName(mqttTopic)
<1>1. mqttTopic \in MQTTTopics /\ name \in Names /\ Len(name) \in Nat /\ builder = name
    BY TopicFacts DEF IInv, ScanInv, TakesFirstLevels
<1>2. ScanInv' /\ TakesFirstLevels'
    BY DEF IInv, ScanInv, TakesFirstLevels
<1>3. /\ Len(builder') <= MaxLength
      /\ IsPrefix(builder', name)
      /\ Len(name) <= MaxLength => builder' = name
      /\ Len(name) > MaxLength => Len(builder') >= MaxLength - 1
    <2> HIDE DEF name
    <2>1. CASE Len(name) > MaxLength
        BY <1>1, <2>1, CutIsPrefix, MaxLengthAssumption
    <2>2. CASE ~(Len(name) > MaxLength)
        BY <1>1, <2>2, MaxLengthAssumption DEF IsPrefix
    <2> QED
        BY <2>1, <2>2
<1>4. name' = name
    OBVIOUS
<1>5. CutToFit'
    BY <1>3, <1>4 DEF CutToFit
<1> QED
    BY <1>2, <1>5 DEF IInv

\* The scan and the cut keep the invariant.
THEOREM InvariantHolds == Spec => []IInv
<1>1. Init => IInv
    BY InitInv
<1>2. IInv /\ [Next]_vars => IInv'
    <2> SUFFICES ASSUME IInv, [Next]_vars PROVE IInv'
        OBVIOUS
    <2>1. CASE UNCHANGED vars
        BY <2>1 DEF vars, IInv, ScanInv, TakesFirstLevels, CutToFit
    <2>2. CASE Done
        BY <2>2 DEF Done, vars, IInv, ScanInv, TakesFirstLevels, CutToFit
    <2> QED
        BY <2>1, <2>2, SeparatorInv, LastLevelInv, CutInv DEF Next
<1> QED
    BY <1>1, <1>2, PTL DEF Spec

\* For every topic, prefix and limit, the scan takes the first levels of the topic, as
\* many as max_topic_levels allows, empty ones included.
THEOREM FirstLevelsTaken == Spec => []TakesFirstLevels
<1>1. IInv => TakesFirstLevels
    BY DEF IInv
<1> QED
    BY <1>1, InvariantHolds, PTL

\* For every length limit, the result fits, and differs from the name before the cut
\* only in what was cut.
THEOREM ResultFits == Spec => []CutToFit
<1>1. IInv => CutToFit
    BY DEF IInv
<1> QED
    BY <1>1, InvariantHolds, PTL

\* The last dot tells where the last level starts, if the level has no dot itself.
LEMMA LastDot ==
    ASSUME NEW a \in Names, NEW b \in Names, NEW l \in Names, NEW m \in Names,
           NoDot(l), NoDot(m), a \o <<Dot>> \o l = b \o <<Dot>> \o m
    PROVE  a = b /\ l = m
<1> DEFINE name == a \o <<Dot>> \o l
<1>1. /\ Len(a) \in Nat /\ Len(l) \in Nat /\ Len(b) \in Nat /\ Len(m) \in Nat
      /\ Len(name) = Len(a) + 1 + Len(l)
      /\ Len(name) = Len(b) + 1 + Len(m)
    BY LongerName, LenProperties DEF Names
<1>2. ASSUME NEW x \in Names, NEW y \in Names, name = x \o <<Dot>> \o y
      PROVE  /\ \A i \in 1..Len(x) : name[i] = x[i]
             /\ name[Len(x) + 1] = Dot
             /\ \A i \in 1..Len(y) : name[Len(x) + 1 + i] = y[i]
    <2> HIDE DEF name
    <2>1. Len(x) \in Nat /\ Len(y) \in Nat
        BY LenProperties DEF Names
    <2>2. /\ <<Dot>> \in Names /\ Len(<<Dot>>) = 1 /\ <<Dot>>[1] = Dot
        BY DotAssumption DEF Names
    <2> DEFINE xd == x \o <<Dot>>
    <2>3. /\ xd \in Names
          /\ Len(xd) = Len(x) + 1
          /\ \A i \in 1..Len(x) + 1 : xd[i] = IF i <= Len(x) THEN x[i] ELSE <<Dot>>[i - Len(x)]
        BY <2>2, ConcatProperties DEF Names
    <2>4. xd[Len(x) + 1] = Dot /\ \A i \in 1..Len(x) : xd[i] = x[i]
        <3> HIDE DEF xd
        <3>1. Len(x) + 1 \in 1..Len(x) + 1 /\ ~(Len(x) + 1 <= Len(x)) /\ Len(x) + 1 - Len(x) = 1
            BY <2>1
        <3>2. xd[Len(x) + 1] = <<Dot>>[1]
            BY <2>3, <3>1
        <3>3. \A i \in 1..Len(x) : i \in 1..Len(x) + 1 /\ i <= Len(x)
            BY <2>1
        <3> QED
            BY <2>2, <2>3, <3>2, <3>3
    <2> HIDE DEF xd
    <2>5. name = xd \o y
        BY <1>2 DEF xd
    <2>6. \A i \in 1..Len(xd) + Len(y) :
              name[i] = IF i <= Len(xd) THEN xd[i] ELSE y[i - Len(xd)]
        BY <2>3, <2>5, ConcatProperties DEF Names
    <2>7. \A i \in 1..Len(x) + 1 : name[i] = xd[i]
        BY <2>1, <2>3, <2>6
    <2>8. \A i \in 1..Len(y) : name[Len(x) + 1 + i] = y[i]
        <3> TAKE i \in 1..Len(y)
        <3>1. /\ Len(x) + 1 + i \in 1..Len(xd) + Len(y)
              /\ ~(Len(x) + 1 + i <= Len(xd))
              /\ Len(x) + 1 + i - Len(xd) = i
            BY <2>1, <2>3
        <3> QED
            BY <2>6, <3>1
    <2>9. name[Len(x) + 1] = Dot
        BY <2>1, <2>4, <2>7
    <2>10. \A i \in 1..Len(x) : name[i] = x[i]
        BY <2>1, <2>4, <2>7
    <2> QED
        BY <2>8, <2>9, <2>10
<1>3. /\ name = a \o <<Dot>> \o l
      /\ name = b \o <<Dot>> \o m
    OBVIOUS
<1> HIDE DEF name
<1>4. /\ \A i \in 1..Len(a) : name[i] = a[i]
      /\ name[Len(a) + 1] = Dot
      /\ \A i \in 1..Len(l) : name[Len(a) + 1 + i] = l[i]
    BY <1>2, <1>3
<1>5. /\ \A i \in 1..Len(b) : name[i] = b[i]
      /\ name[Len(b) + 1] = Dot
      /\ \A i \in 1..Len(m) : name[Len(b) + 1 + i] = m[i]
    BY <1>2, <1>3
<1>6. ASSUME Len(l) < Len(m) PROVE FALSE
    <2>1. Len(a) - Len(b) \in 1..Len(m) /\ Len(b) + 1 + (Len(a) - Len(b)) = Len(a) + 1
        BY <1>1, <1>6
    <2>2. m[Len(a) - Len(b)] = Dot
        BY <1>4, <1>5, <2>1
    <2> QED
        BY <2>1, <2>2 DEF NoDot
<1>7. ASSUME Len(m) < Len(l) PROVE FALSE
    <2>1. Len(b) - Len(a) \in 1..Len(l) /\ Len(a) + 1 + (Len(b) - Len(a)) = Len(b) + 1
        BY <1>1, <1>7
    <2>2. l[Len(b) - Len(a)] = Dot
        BY <1>4, <1>5, <2>1
    <2> QED
        BY <2>1, <2>2 DEF NoDot
<1>8. Len(a) = Len(b) /\ Len(l) = Len(m)
    BY <1>1, <1>6, <1>7
<1>9. \A i \in 1..Len(a) : a[i] = b[i]
    BY <1>4, <1>5, <1>8
<1>10. \A i \in 1..Len(l) : l[i] = m[i]
    BY <1>4, <1>5, <1>8
<1> QED
    BY <1>8, <1>9, <1>10, SeqEqual DEF Names

\* A level makes the name longer.
LEMMA NamesGrow ==
    ASSUME NEW topic \in MQTTTopics
    PROVE  \A n \in 1..Len(topic) : Len(NameOf(topic)[n]) > Len(KafkaPrefix)
<1> DEFINE S == {k \in Nat : k + 1 <= Len(topic) =>
                                Len(NameOf(topic)[k + 1]) > Len(KafkaPrefix)}
<1>1. topic \in Seq(Names) /\ Len(topic) \in Nat
    BY TopicFacts
<1>2. ASSUME NEW k \in Nat, k + 1 <= Len(topic)
      PROVE  /\ Len(NameOf(topic)[k + 1]) > Len(NameOf(topic)[k])
             /\ Len(NameOf(topic)[k + 1]) \in Nat /\ Len(NameOf(topic)[k]) \in Nat
    <2>1. k + 1 \in 1..Len(topic) /\ (k + 1) - 1 = k /\ k \in 0..Len(topic)
        BY <1>1, <1>2
    <2>2. topic[k + 1] \in Names /\ NameOf(topic)[k] \in Names
        BY <1>1, <2>1, ElementOfSeq, NameOfType
    <2>3. NameOf(topic)[k + 1] = NameOf(topic)[k] \o <<Dot>> \o topic[k + 1]
        BY <2>1, LevelTaken
    <2>4. Len(topic[k + 1]) \in Nat /\ Len(NameOf(topic)[k]) \in Nat
        BY <2>2, LenProperties DEF Names
    <2>5. Len(NameOf(topic)[k + 1]) = Len(NameOf(topic)[k]) + 1 + Len(topic[k + 1])
        BY <2>2, <2>3, LongerName
    <2> DEFINE before == Len(NameOf(topic)[k])
               after  == Len(NameOf(topic)[k + 1])
               level  == Len(topic[k + 1])
    <2>6. before \in Nat /\ level \in Nat /\ after = before + 1 + level
        BY <2>4, <2>5
    <2>7. after > before /\ after \in Nat /\ before \in Nat
        <3> HIDE DEF before, after, level
        <3> QED
            BY <2>6
    <2> QED
        BY <2>7
<1>3. NameOf(topic)[0] = KafkaPrefix /\ Len(KafkaPrefix) \in Nat
    BY <1>1, NameOfUnfolds, PrefixAssumption, LenProperties DEF IsNameOf, Names
<1>4. 0 \in S
    BY <1>2, <1>3
<1>5. ASSUME NEW k \in Nat, k \in S PROVE k + 1 \in S
    <2> SUFFICES ASSUME k + 1 + 1 <= Len(topic)
                 PROVE  Len(NameOf(topic)[k + 1 + 1]) > Len(KafkaPrefix)
        OBVIOUS
    <2>1. k + 1 \in Nat /\ k + 1 <= Len(topic)
        BY <1>1
    <2>2. Len(NameOf(topic)[k + 1]) > Len(KafkaPrefix)
        BY <1>5, <2>1
    <2>3. /\ Len(NameOf(topic)[k + 1 + 1]) > Len(NameOf(topic)[k + 1])
          /\ Len(NameOf(topic)[k + 1 + 1]) \in Nat /\ Len(NameOf(topic)[k + 1]) \in Nat
        BY <1>2, <2>1
    <2> QED
        BY <1>3, <2>2, <2>3
<1>6. Nat \subseteq S
    <2> HIDE DEF S
    <2> QED
        BY <1>4, <1>5, Induction
<1> QED
    <2> TAKE n \in 1..Len(topic)
    <2>1. n - 1 \in S /\ (n - 1) + 1 = n
        <3> HIDE DEF S
        <3> QED
            BY <1>1, <1>6
    <2> QED
        BY <1>1, <2>1

\* The levels of a name without dots can be read off the name.
LEMMA LevelsReadBack ==
    ASSUME NEW s \in MQTTTopics, NEW t \in MQTTTopics, Plain(s), Plain(t)
    PROVE  \A k \in 0..Len(s) : \A n \in 0..Len(t) :
               NameOf(s)[k] = NameOf(t)[n] => k = n /\ \A i \in 1..k : s[i] = t[i]
<1> DEFINE Same(k, n) == k = n /\ \A i \in 1..k : s[i] = t[i]
           S == {k \in Nat : k <= Len(s) =>
                    \A n \in 0..Len(t) : NameOf(s)[k] = NameOf(t)[n] => Same(k, n)}
<1>1. /\ s \in Seq(Names) /\ Len(s) \in Nat
      /\ t \in Seq(Names) /\ Len(t) \in Nat
    BY TopicFacts
<1>2. /\ NameOf(s)[0] = KafkaPrefix /\ NameOf(t)[0] = KafkaPrefix
      /\ Len(KafkaPrefix) \in Nat
    BY <1>1, NameOfUnfolds, PrefixAssumption, LenProperties DEF IsNameOf, Names
<1>3. 0 \in S
    <2> SUFFICES ASSUME NEW n \in 0..Len(t), NameOf(s)[0] = NameOf(t)[n] PROVE Same(0, n)
        OBVIOUS
    <2>1. ASSUME n \in 1..Len(t) PROVE FALSE
        <3>1. Len(NameOf(t)[n]) > Len(KafkaPrefix)
            BY <2>1, NamesGrow
        <3>2. NameOf(t)[n] = KafkaPrefix
            BY <1>2
        <3> QED
            BY <1>2, <3>1, <3>2
    <2>2. n = 0
        BY <1>1, <2>1
    <2> QED
        BY <2>2
<1>4. ASSUME NEW k \in Nat, k \in S PROVE k + 1 \in S
    <2> SUFFICES ASSUME k + 1 <= Len(s), NEW n \in 0..Len(t),
                        NameOf(s)[k + 1] = NameOf(t)[n]
                 PROVE  Same(k + 1, n)
        OBVIOUS
    <2>1. k + 1 \in 1..Len(s) /\ (k + 1) - 1 = k /\ k \in 0..Len(s) /\ k <= Len(s)
        BY <1>1
    <2>2. n # 0
        BY <1>2, <2>1, NamesGrow
    <2>3. n \in 1..Len(t) /\ n - 1 \in 0..Len(t)
        BY <1>1, <2>2
    <2>4. NameOf(s)[k + 1] = NameOf(s)[k] \o <<Dot>> \o s[k + 1]
        BY <2>1, LevelTaken
    <2>5. NameOf(t)[n] = NameOf(t)[n - 1] \o <<Dot>> \o t[n]
        BY <2>3, LevelTaken
    <2>6. /\ s[k + 1] \in Names /\ NoDot(s[k + 1]) /\ NameOf(s)[k] \in Names
          /\ t[n] \in Names /\ NoDot(t[n]) /\ NameOf(t)[n - 1] \in Names
        BY <1>1, <2>1, <2>3, ElementOfSeq, NameOfType DEF Plain
    <2>7. NameOf(s)[k] = NameOf(t)[n - 1] /\ s[k + 1] = t[n]
        <3> DEFINE a == NameOf(s)[k]
                   b == NameOf(t)[n - 1]
                   l == s[k + 1]
                   m == t[n]
        <3>1. a \o <<Dot>> \o l = b \o <<Dot>> \o m
            BY <2>4, <2>5, Zenon
        <3>2. /\ a \in Names /\ b \in Names /\ l \in Names /\ m \in Names
              /\ NoDot(l) /\ NoDot(m)
            BY <2>6
        <3>3. a = b /\ l = m
            <4> HIDE DEF a, b, l, m
            <4> QED
                BY <3>1, <3>2, LastDot
        <3> QED
            BY <3>3
    <2>8. Same(k, n - 1)
        BY <1>4, <2>1, <2>3, <2>7
    <2>9. k + 1 = n /\ s[k + 1] = t[k + 1]
        BY <2>3, <2>7, <2>8
    <2> QED
        BY <2>8, <2>9
<1>5. Nat \subseteq S
    <2> HIDE DEF S
    <2> QED
        BY <1>3, <1>4, Induction
<1> QED
    <2> SUFFICES ASSUME NEW k \in 0..Len(s), NEW n \in 0..Len(t),
                        NameOf(s)[k] = NameOf(t)[n]
                 PROVE  Same(k, n)
        OBVIOUS
    <2>1. k \in S /\ k <= Len(s)
        <3> HIDE DEF S
        <3> QED
            BY <1>1, <1>5
    <2> HIDE DEF Same
    <2> QED
        BY <2>1

\* For every set of topics and every limit, topics without dots share a name only if
\* they agree in the levels that count.
THEOREM SharedByFirstLevels == Spec => []SharedOnlyByFirstLevels
<1>1. IInv => SharedOnlyByFirstLevels
    <2> SUFFICES ASSUME IInv, phase = "cut", Plain(mqttTopic),
                        NEW topic \in MQTTTopics, Plain(topic), FullName(topic) = builder
                 PROVE  SameFirstLevels(topic, mqttTopic)
        BY DEF SharedOnlyByFirstLevels
    <2>1. mqttTopic \in MQTTTopics /\ FullName(topic) = FullName(mqttTopic)
        BY DEF IInv, ScanInv, TakesFirstLevels
    <2>2. LevelsOf(topic) \in 0..Len(topic) /\ LevelsOf(mqttTopic) \in 0..Len(mqttTopic)
        BY <2>1, TopicFacts
    <2> QED
        BY <2>1, <2>2, LevelsReadBack DEF FullName, SameFirstLevels
<1> QED
    BY <1>1, InvariantHolds, PTL
=============================================================================
