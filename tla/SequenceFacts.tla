---------------------------- MODULE SequenceFacts ----------------------------
(***************************************************************************)
(* What the operations of a channel or of a batch do to the set of its     *)
(* elements.                                                               *)
(***************************************************************************)
EXTENDS Naturals, Sequences, SequencesExt, TLAPS

\* The elements of a sequence over a set are in it.
LEMMA ToSetType ==
    ASSUME NEW S, NEW s \in Seq(S)
    PROVE  ToSet(s) \subseteq S
  BY DEF ToSet

\* The empty sequence is a sequence over any set.
LEMMA EmptySequence == \A S : <<>> \in Seq(S) /\ Len(<<>>) = 0
  OBVIOUS

\* The elements of a concatenation.
LEMMA ToSetConcat ==
    ASSUME NEW S, NEW s \in Seq(S), NEW t \in Seq(S)
    PROVE  ToSet(s \o t) = ToSet(s) \cup ToSet(t)
  <1>1. \A i \in DOMAIN s : i \in DOMAIN (s \o t) /\ (s \o t)[i] = s[i]
    OBVIOUS
  <1>2. \A i \in DOMAIN t : Len(s) + i \in DOMAIN (s \o t) /\ (s \o t)[Len(s) + i] = t[i]
    OBVIOUS
  <1>3. \A i \in DOMAIN (s \o t) : \/ i \in DOMAIN s /\ (s \o t)[i] = s[i]
                                   \/ \E j \in DOMAIN t : (s \o t)[i] = t[j]
    <2> SUFFICES ASSUME NEW i \in DOMAIN (s \o t), i \notin DOMAIN s
                 PROVE  \E j \in DOMAIN t : (s \o t)[i] = t[j]
      OBVIOUS
    <2>1. i - Len(s) \in DOMAIN t /\ (s \o t)[i] = t[i - Len(s)]
      OBVIOUS
    <2> QED  BY <2>1
  <1>4. ToSet(s \o t) \subseteq ToSet(s) \cup ToSet(t)
    BY <1>3 DEF ToSet
  <1>5. ToSet(s) \subseteq ToSet(s \o t)
    BY <1>1 DEF ToSet
  <1>6. ToSet(t) \subseteq ToSet(s \o t)
    BY <1>2 DEF ToSet
  <1> QED  BY <1>4, <1>5, <1>6

\* The elements of three sequences, one after the other.
LEMMA ToSetConcat3 ==
    ASSUME NEW S, NEW s \in Seq(S), NEW t \in Seq(S), NEW u \in Seq(S)
    PROVE  ToSet(s \o t \o u) = ToSet(s) \cup ToSet(t) \cup ToSet(u)
  <1>1. s \o t \in Seq(S)
    OBVIOUS
  <1>2. ToSet((s \o t) \o u) = ToSet(s \o t) \cup ToSet(u)
    BY <1>1, ToSetConcat, Zenon
  <1> QED  BY <1>2, ToSetConcat

\* An element appended is the only one added.
LEMMA ToSetAppend ==
    ASSUME NEW S, NEW s \in Seq(S), NEW e \in S
    PROVE  ToSet(Append(s, e)) = ToSet(s) \cup {e}
  <1>1. DOMAIN Append(s, e) = DOMAIN s \cup {Len(s) + 1}
    OBVIOUS
  <1>2. \A i \in DOMAIN s : Append(s, e)[i] = s[i]
    OBVIOUS
  <1>3. Append(s, e)[Len(s) + 1] = e
    OBVIOUS
  <1> QED  BY <1>1, <1>2, <1>3 DEF ToSet

\* Taking the head leaves the other elements.
LEMMA ToSetHead ==
    ASSUME NEW S, NEW s \in Seq(S), s # <<>>
    PROVE  /\ Head(s) \in S /\ Tail(s) \in Seq(S)
           /\ ToSet(s) = {Head(s)} \cup ToSet(Tail(s))
  <1>1. Head(s) \in S /\ Tail(s) \in Seq(S) /\ Len(s) \in Nat /\ Len(s) >= 1
        /\ DOMAIN s = 1..Len(s) /\ DOMAIN Tail(s) = 1..(Len(s) - 1) /\ Head(s) = s[1]
    OBVIOUS
  <1>2. \A i \in DOMAIN Tail(s) : i + 1 \in DOMAIN s /\ Tail(s)[i] = s[i + 1]
    OBVIOUS
  <1>3. \A i \in DOMAIN s : \/ i = 1
                            \/ i - 1 \in DOMAIN Tail(s) /\ Tail(s)[i - 1] = s[i]
    OBVIOUS
  <1>4. ToSet(Tail(s)) \subseteq ToSet(s)
    BY <1>2 DEF ToSet
  <1>5. Head(s) \in ToSet(s)
    BY <1>1 DEF ToSet
  <1>6. ToSet(s) \subseteq {Head(s)} \cup ToSet(Tail(s))
    BY <1>1, <1>3 DEF ToSet
  <1> QED  BY <1>1, <1>4, <1>5, <1>6

\* A new element keeps the elements distinct.
LEMMA AppendDistinct ==
    ASSUME NEW S, NEW s \in Seq(S), NEW e \in S, IsInjective(s), e \notin ToSet(s)
    PROVE  IsInjective(Append(s, e))
  <1>1. DOMAIN Append(s, e) = DOMAIN s \cup {Len(s) + 1}
    OBVIOUS
  <1>2. \A i \in DOMAIN s : Append(s, e)[i] = s[i] /\ s[i] # e
    BY DEF ToSet
  <1>3. Append(s, e)[Len(s) + 1] = e
    OBVIOUS
  <1> QED  BY <1>1, <1>2, <1>3 DEF IsInjective

\* When the elements are distinct, the head is not among the others.
LEMMA TailDistinct ==
    ASSUME NEW S, NEW s \in Seq(S), s # <<>>, IsInjective(s)
    PROVE  IsInjective(Tail(s)) /\ Head(s) \notin ToSet(Tail(s))
  <1>1. /\ DOMAIN s = 1..Len(s) /\ DOMAIN Tail(s) = 1..(Len(s) - 1)
        /\ Len(s) \in Nat /\ Len(s) >= 1 /\ Head(s) = s[1]
    OBVIOUS
  <1>2. \A i \in DOMAIN Tail(s) : Tail(s)[i] = s[i + 1] /\ i + 1 \in DOMAIN s
    OBVIOUS
  <1>3. IsInjective(Tail(s))
    <2>1. \A i, j \in DOMAIN Tail(s) : s[i + 1] = s[j + 1] => i + 1 = j + 1
      BY <1>2 DEF IsInjective
    <2> QED  BY <1>1, <1>2, <2>1 DEF IsInjective
  <1>4. \A i \in DOMAIN Tail(s) : s[i + 1] # s[1]
    <2>1. \A i \in DOMAIN Tail(s) : s[i + 1] = s[1] => i + 1 = 1
      BY <1>1, <1>2 DEF IsInjective
    <2> QED  BY <1>1, <2>1
  <1> QED  BY <1>1, <1>2, <1>3, <1>4 DEF ToSet
=============================================================================
