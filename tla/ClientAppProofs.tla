-------------------------- MODULE ClientAppProofs --------------------------
(***************************************************************************)
(* For any number of servers, snapshots and probes and any limits.         *)
(***************************************************************************)
EXTENDS ClientApp, SequenceTheorems, FiniteSetTheorems, TLAPS

(***************************************************************************)
(* The probe.                                                              *)
(***************************************************************************)
Tags == {"200", "503", "end", "begin", "x", "close"}

Text == Seq([part : Tags, of : Nat])

\* The first k parts of a reply, received on connection c.
Cut(r, k, c) == [i \in 1..k |-> [part |-> r[i], of |-> c]]

\* What a live connection has received is the beginning of its own reply.
ProbeOK ==
    /\ left \in Nat /\ psocket \in {"none", "connecting", "open"}
    /\ psocket # "none" =>
         /\ reply.parts \in Replies
         /\ reply = [parts |-> reply.parts, received |-> reply.received]
         /\ reply.received \in 0..Len(reply.parts)
         /\ input = Cut(reply.parts, reply.received, left)

ProbeInv == ProbeOK /\ ProbeValueIsLastReply

LEMMA ReplyType ==
    ASSUME NEW r \in Replies
    PROVE  /\ r \in Seq(Tags) /\ Len(r) \in Nat /\ Len(r) >= 4
           /\ r[1] \in {"200", "503"} /\ r[2] = "end" /\ r[3] = "begin" /\ r[Len(r)] = "close"
           /\ \A i \in 4..Len(r) - 1 : r[i] = "x"
           /\ \A i \in 1..Len(r) : r[i] \in Tags
<1>1. IsReply(r)
  BY ProbeAssumption
<1>2. r \in Seq(Tags)
  BY <1>1 DEF IsReply, Tags
<1>3. Len(r) \in Nat /\ \A i \in 1..Len(r) : r[i] \in Tags
  BY <1>2
<1> QED BY <1>1, <1>2, <1>3 DEF IsReply

LEMMA CutType ==
    ASSUME NEW r \in Replies, NEW k \in 0..Len(r), NEW c \in Nat
    PROVE  /\ Cut(r, k, c) \in Text /\ Len(Cut(r, k, c)) = k /\ k \in Nat
           /\ DOMAIN Cut(r, k, c) = 1..k
           /\ \A i \in 1..k : Cut(r, k, c)[i] = [part |-> r[i], of |-> c]
<1>1. k \in Nat /\ \A i \in 1..k : r[i] \in Tags
  BY ReplyType
<1>2. \A i \in 1..k : [part |-> r[i], of |-> c] \in [part : Tags, of : Nat]
  BY <1>1
<1> QED BY <1>1, <1>2 DEF Cut, Text

\* What follows the first two elements of a sequence of length k.
LEMMA Rest ==
    ASSUME NEW S, NEW p \in Seq(S), NEW k \in Nat, Len(p) = k, k >= 2
    PROVE  /\ Len(SubSeq(p, 3, k)) = k - 2
           /\ \A i \in 1..k - 2 : SubSeq(p, 3, k)[i] = p[i + 2]
<1>1. CASE k > 2
  BY <1>1
<1>2. CASE k = 2
  BY <1>2
<1> QED BY <1>1, <1>2

\* A reply that was cut short is never an object.
LEMMA AcceptedWhole ==
    ASSUME NEW r \in Replies, NEW k \in 0..Len(r), NEW c \in Nat
    PROVE  /\ Accepted(Cut(r, k, c)) <=> (k = Len(r) /\ r[1] = "200")
           /\ k = Len(r) =>
                {Cut(r, k, c)[i].of : i \in {1} \cup (Split(Cut(r, k, c)) + 1)..Len(Cut(r, k, c))} = {c}
<1> DEFINE t == Cut(r, k, c)
           body == SubSeq(Parts(t), Split(t) + 1, Len(t))
<1>1. /\ t \in Text /\ Len(t) = k /\ k \in Nat /\ DOMAIN t = 1..k
      /\ \A i \in 1..k : t[i].part = r[i] /\ t[i].of = c
  <2>1. \A i \in 1..k : t[i] = [part |-> r[i], of |-> c]
    BY CutType
  <2>2. t \in Text /\ Len(t) = k /\ k \in Nat /\ DOMAIN t = 1..k
    BY CutType
  <2> HIDE DEF t
  <2> QED BY <2>1, <2>2
<1>2. /\ Len(r) \in Nat /\ Len(r) >= 4
      /\ r[1] \in {"200", "503"} /\ r[2] = "end" /\ r[3] = "begin" /\ r[Len(r)] = "close"
      /\ \A i \in 4..Len(r) - 1 : r[i] = "x"
      /\ \A i \in 1..Len(r) : r[i] \in Tags
  BY ReplyType
<1>3. k <= Len(r)
  OBVIOUS
<1> HIDE DEF t
<1>4. CASE k < 2
  <2>1. {i \in DOMAIN t : t[i].part = "end"} = {}
    BY <1>1, <1>2, <1>4
  <2>2. Split(t) = 0
    BY <2>1 DEF Split
  <2> QED BY <1>2, <1>4, <2>2 DEF Accepted, t
<1>5. CASE k >= 2
  <2>1. Split(t) = 2
    <3> DEFINE empty == {i \in DOMAIN t : t[i].part = "end"}
    <3>1. 2 \in empty /\ 1 \notin empty /\ empty \subseteq 1..k
      BY <1>1, <1>2, <1>5
    <3>2. \A j \in empty : 2 <= j
      BY <1>1, <3>1
    <3>3. \A i \in empty : (\A j \in empty : i <= j) => i = 2
      BY <1>1, <3>1, <3>2
    <3>4. (CHOOSE i \in empty : \A j \in empty : i <= j) = 2
      BY <3>1, <3>2, <3>3
    <3> QED BY <3>1, <3>4 DEF Split
  <2>2. /\ Parts(t) \in Seq(Tags) /\ Len(Parts(t)) = k
        /\ \A i \in 1..k : Parts(t)[i] = r[i]
    BY <1>1, <1>2, <1>3 DEF Parts
  <2>3. /\ Len(body) = k - 2
        /\ \A i \in 1..k - 2 : body[i] = r[i + 2]
    <3> DEFINE p == Parts(t)
    <3>1. body = SubSeq(p, 3, k)
      BY <1>1, <2>1
    <3> HIDE DEF p, body
    <3>2. p \in Seq(Tags) /\ Len(p) = k
      BY <2>2 DEF p
    <3>3. /\ Len(body) = k - 2
          /\ \A i \in 1..k - 2 : body[i] = p[i + 2]
      BY <1>1, <1>5, <3>1, <3>2, Rest
    <3>4. \A i \in 1..k - 2 : p[i + 2] = r[i + 2]
      BY <1>1, <2>2 DEF p
    <3> QED BY <3>3, <3>4
  <2> HIDE DEF body
  <2>4. IsObject(body) <=> k = Len(r)
    <3>1. CASE k = Len(r)
      <4>1. Len(body) >= 2 /\ body[1] = "begin" /\ body[Len(body)] = "close"
        BY <1>1, <1>2, <2>3, <3>1
      <4>2. \A i \in 2..Len(body) - 1 : body[i] = "x"
        BY <1>1, <1>2, <2>3, <3>1
      <4> QED BY <3>1, <4>1, <4>2 DEF IsObject
    <3>2. CASE k # Len(r)
      <4>1. Len(body) >= 2 => body[Len(body)] = "x"
        BY <1>1, <1>2, <1>3, <2>3, <3>2
      <4> QED BY <3>2, <4>1 DEF IsObject
    <3> QED BY <3>1, <3>2
  <2>5. Accepted(t) <=> (k = Len(r) /\ r[1] = "200")
    BY <1>1, <1>5, <2>1, <2>4 DEF Accepted, body
  <2>6. {t[i].of : i \in {1} \cup (Split(t) + 1)..Len(t)} = {c}
    <3>1. \A i \in {1} \cup (Split(t) + 1)..Len(t) : t[i].of = c
      BY <1>1, <1>5, <2>1
    <3> QED BY <3>1
  <2> QED BY <2>5, <2>6 DEF t
<1>6. k < 2 \/ k >= 2
  BY <1>1
<1> QED BY <1>4, <1>5, <1>6, Zenon

\* The parts that arrive continue what was received.
LEMMA CutGrows ==
    ASSUME NEW r \in Replies, NEW k \in 0..Len(r), NEW n \in 0..Len(r) - k, NEW c \in Nat
    PROVE  Cut(r, k, c) \o [i \in 1..n |-> [part |-> r[k + i], of |-> c]] = Cut(r, k + n, c)
<1> DEFINE a == Cut(r, k, c)
           b == [i \in 1..n |-> [part |-> r[k + i], of |-> c]]
           t == Cut(r, k + n, c)
<1>1. k \in Nat /\ n \in Nat /\ Len(r) \in Nat /\ k + n \in 0..Len(r)
  BY ReplyType
<1>2. a \in Text /\ Len(a) = k /\ \A i \in 1..k : a[i] = [part |-> r[i], of |-> c]
  BY CutType
<1>3. /\ t \in Text /\ Len(t) = k + n
      /\ \A i \in 1..k + n : t[i] = [part |-> r[i], of |-> c]
  BY <1>1, CutType
<1>4. \A i \in 1..n : [part |-> r[k + i], of |-> c] \in [part : Tags, of : Nat]
  BY <1>1, ReplyType
<1>5. b \in Text /\ Len(b) = n /\ \A i \in 1..n : b[i] = [part |-> r[k + i], of |-> c]
  BY <1>1, <1>4 DEF Text
<1> HIDE DEF a, b, t
<1>6. /\ a \o b \in Text /\ Len(a \o b) = k + n
      /\ \A i \in 1..k + n : (a \o b)[i] = IF i <= k THEN a[i] ELSE b[i - k]
  <2>1. /\ a \o b \in Text /\ Len(a \o b) = Len(a) + Len(b)
        /\ \A i \in 1..Len(a) + Len(b) :
              (a \o b)[i] = IF i <= Len(a) THEN a[i] ELSE b[i - Len(a)]
    BY <1>2, <1>5, ConcatProperties, Zenon DEF Text
  <2> QED BY <1>2, <1>5, <2>1
<1>7. ASSUME NEW i \in 1..k + n PROVE (a \o b)[i] = t[i]
  <2>1. CASE i <= k
    BY <1>1, <1>2, <1>3, <1>6, <2>1
  <2>2. CASE ~(i <= k)
    <3>1. i - k \in 1..n /\ k + (i - k) = i
      BY <1>1, <2>2
    <3> QED BY <1>3, <1>5, <1>6, <2>2, <3>1
  <2> QED BY <2>1, <2>2
<1>8. a \o b = t
  BY <1>3, <1>6, <1>7, SeqEqual DEF Text
<1> QED BY <1>8 DEF a, b, t

LEMMA ProbeInitOK == ProbeInit => ProbeInv
BY ProbeAssumption DEF ProbeInit, ProbeInv, ProbeOK, ProbeValueIsLastReply

\* An attempt that fails changes no value.
LEMMA FinishFails == ASSUME NEW text, Finish(FALSE, text) PROVE value' = value /\ psocket' = "none"
BY DEF Finish

LEMMA ProbeTickOK == ASSUME ProbeInv, ProbeTick PROVE ProbeInv'
<1> USE DEF ProbeInv, ProbeValueIsLastReply
<1>1. CASE ProbeExpires
  BY <1>1, FinishFails DEF ProbeExpires, ProbeOK
<1>2. CASE ProbeWaits
  BY <1>2 DEF ProbeWaits, pvars, ProbeOK
<1>3. ASSUME NEW result \in {"none", "connecting", "open"}, ProbeConnects(result)
      PROVE  ProbeInv'
  <2>1. left' \in Nat /\ answered' = answered
    BY <1>3 DEF ProbeConnects, ProbeOK
  <2>2. CASE result = "none"
    BY <1>3, <2>1, <2>2, FinishFails DEF ProbeConnects, ProbeOK
  <2>3. CASE result # "none"
    <3>1. PICK r \in Replies : reply' = [parts |-> r, received |-> 0]
      BY <1>3, <2>3 DEF ProbeConnects
    <3>2. psocket' = result /\ value' = value /\ input' = <<>>
      BY <1>3, <2>3 DEF ProbeConnects, NewInput
    <3>3. Cut(r, 0, left') = <<>>
      BY DEF Cut
    <3>4. 0 \in 0..Len(r)
      BY ReplyType
    <3> QED BY <2>1, <3>1, <3>2, <3>3, <3>4 DEF ProbeOK
  <2> QED BY <2>2, <2>3
<1> QED BY <1>1, <1>2, <1>3 DEF ProbeTick

LEMMA ProbeHandleOK == ASSUME ProbeInv, ProbeHandle PROVE ProbeInv'
<1> USE DEF ProbeInv, ProbeValueIsLastReply
<1>1. CASE ProbeIdle
  BY <1>1 DEF ProbeIdle, pvars, ProbeOK
<1>2. CASE ProbeFails
  BY <1>2, FinishFails DEF ProbeFails, ProbeOK
<1>3. ASSUME NEW n \in 0..RequestSize, ProbeSends(n) PROVE ProbeInv'
  BY <1>3 DEF ProbeSends, ProbeOK
<1>4. ASSUME NEW n, NEW ended \in BOOLEAN, ProbeReceives(n, ended) PROVE ProbeInv'
  <2> DEFINE r == reply.parts
             k == reply.received
             text == Cut(r, k + n, left)
  <2>1. /\ psocket = "open" /\ left' = left /\ left \in Nat
        /\ r \in Replies /\ k \in 0..Len(r) /\ n \in 0..Len(r) - k
        /\ reply = [parts |-> r, received |-> k] /\ input = Cut(r, k, left)
    BY <1>4 DEF ProbeReceives, ProbeOK
  <2>2. k + n \in 0..Len(r) /\ Len(r) \in Nat
    BY <2>1, ReplyType
  <2>3. input \o [i \in 1..n |-> [part |-> r[k + i], of |-> left]] = text
    BY <2>1, CutGrows
  <2>4. Len(text) = k + n
    BY <2>1, <2>2, CutType
  <2>5. /\ input' = text
        /\ reply' = [reply EXCEPT !.received = @ + n]
        /\ IF ended \/ k + n > InputLimit
             THEN Finish(k + n <= InputLimit, text)
             ELSE UNCHANGED <<psocket, value, pretry>>
        /\ answered' = IF ended /\ k + n = Len(r) /\ r[1] = "200" /\ Len(r) <= InputLimit
                       THEN {left} ELSE answered
    BY <1>4, <2>3, <2>4 DEF ProbeReceives
  <2>6. reply' = [parts |-> r, received |-> k + n]
    BY <2>1, <2>5
  <2>7. ProbeOK'
    <3>1. psocket' \in {"none", psocket}
      BY <2>5 DEF Finish
    <3> QED BY <2>1, <2>2, <2>5, <2>6, <3>1 DEF ProbeOK
  <2>8. /\ Accepted(text) <=> (k + n = Len(r) /\ r[1] = "200")
        /\ k + n = Len(r) => {text[i].of : i \in {1} \cup (Split(text) + 1)..Len(text)} = {left}
    BY <2>1, <2>2, AcceptedWhole
  <2>9. k + n \in Nat /\ InputLimit \in Nat
    BY <2>2, ProbeAssumption
  <2> HIDE DEF r, k, text
  <2>10. value' = IF ended /\ k + n <= InputLimit /\ Accepted(text) THEN {left} ELSE value
    <3>1. CASE ended \/ k + n > InputLimit
      BY <2>5, <2>8, <2>9, <3>1 DEF Finish
    <3>2. CASE ~(ended \/ k + n > InputLimit)
      BY <2>5, <3>2
    <3> QED BY <3>1, <3>2
  <2>11. value' = answered'
    BY <2>5, <2>8, <2>10
  <2> QED BY <2>7, <2>11
<1> QED BY <1>1, <1>2, <1>3, <1>4 DEF ProbeHandle

LEMMA ProbeTimeOK == ASSUME ProbeInv, ProbeTime PROVE ProbeInv'
BY DEF ProbeTime, ProbeInv, ProbeOK, ProbeValueIsLastReply

----------------------------------------------------------------------------
(***************************************************************************)
(* The generations between snapshots taken one after the other.            *)
(***************************************************************************)
Between(s) ==
    {g \in (1..Len(s) - 1) \X (1..MaxSequence) :
        /\ s[g[1]].instance = s[g[1] + 1].instance
        /\ s[g[1]].sequence < g[2] /\ g[2] < s[g[1] + 1].sequence}

\* What a snapshot f adds to them.
Added(s, f) == {Len(s)} \X (s[Len(s)].sequence + 1..f.sequence - 1)

LEMMA LimitTypes == {HistorySize, StaleAfter, MaxSequence} \subseteq Nat \ {0} /\ None \notin Frames
BY ClientAppAssumption

LEMMA FrameType ==
    ASSUME NEW f \in Frames
    PROVE  f.instance \in Instances /\ f.sequence \in 1..MaxSequence /\ f.sequence \in Nat
BY LimitTypes DEF Frames

\* The elements of a sequence and of one that is one longer.
LEMMA Appended ==
    ASSUME NEW S, NEW s \in Seq(S), NEW f \in S
    PROVE  /\ Append(s, f) \in Seq(S) /\ Len(s) \in Nat /\ Len(Append(s, f)) = Len(s) + 1
           /\ Append(s, f)[Len(s) + 1] = f /\ Append(s, f) # <<>>
           /\ \A i \in 1..Len(s) : Append(s, f)[i] = s[i] /\ s[i] \in S
OBVIOUS

LEMMA BetweenFinite ==
    ASSUME NEW s \in Seq(Frames) PROVE IsFiniteSet(Between(s)) /\ Cardinality(Between(s)) \in Nat
<1> DEFINE A == 1..Len(s) - 1
           B == 1..MaxSequence
<1>1. Len(s) - 1 \in Int /\ MaxSequence \in Int /\ 1 \in Int
  BY LimitTypes
<1>2. IsFiniteSet(A) /\ IsFiniteSet(B)
  BY <1>1, FS_Interval
<1> HIDE DEF A, B
<1>3. IsFiniteSet(A \X B)
  BY <1>2, FS_Product
<1>4. Between(s) \in SUBSET (A \X B)
  BY DEF Between, A, B
<1> QED BY <1>3, <1>4, FS_Subset, FS_CardinalityType

LEMMA BetweenGrows ==
    ASSUME NEW s \in Seq(Frames), NEW f \in Frames
    PROVE  /\ s # <<>> /\ s[Len(s)].instance = f.instance =>
                Between(Append(s, f)) = Between(s) \cup Added(s, f)
           /\ s = <<>> \/ s[Len(s)].instance # f.instance => Between(Append(s, f)) = Between(s)
<1> DEFINE a == Append(s, f)
           n == Len(s)
<1>1. /\ n \in Nat /\ Len(a) = n + 1 /\ a[n + 1] = f
      /\ \A i \in 1..n : a[i] = s[i] /\ s[i] \in Frames
  BY Appended
<1>2. f.sequence \in 1..MaxSequence /\ MaxSequence \in Nat
  BY FrameType, LimitTypes
<1>3. \A i \in 1..n : s[i].sequence \in 1..MaxSequence
  BY <1>1, FrameType
<1> HIDE DEF a
<1>4. ASSUME NEW i \in 1..n - 1, NEW q \in 1..MaxSequence
      PROVE  <<i, q>> \in Between(a) <=> <<i, q>> \in Between(s)
  <2>1. i \in 1..n /\ i + 1 \in 1..n /\ i \in 1..Len(a) - 1
    BY <1>1
  <2>2. a[i] = s[i] /\ a[i + 1] = s[i + 1]
    BY <1>1, <2>1
  <2> QED BY <2>1, <2>2 DEF Between
<1>5. ASSUME NEW g, g \in Between(a) \/ g \in Between(s)
      PROVE  \E i \in 1..n, q \in 1..MaxSequence : g = <<i, q>> /\ (g \in Between(s) => i \in 1..n - 1)
  <2>1. CASE g \in Between(s)
    <3>1. g \in (1..n - 1) \X (1..MaxSequence)
      BY <2>1 DEF Between
    <3>2. PICK i \in 1..n - 1, q \in 1..MaxSequence : g = <<i, q>>
      BY <3>1
    <3>3. i \in 1..n
      BY <1>1
    <3> QED BY <3>2, <3>3
  <2>2. CASE g \in Between(a) /\ g \notin Between(s)
    <3>1. g \in (1..n) \X (1..MaxSequence)
      BY <1>1, <2>2 DEF Between
    <3> QED BY <2>2, <3>1
  <2> QED BY <1>5, <2>1, <2>2
<1>6. ASSUME NEW q \in 1..MaxSequence, n # 0
      PROVE  <<n, q>> \in Between(a) <=>
                s[n].instance = f.instance /\ s[n].sequence < q /\ q < f.sequence
  <2>1. n \in 1..n /\ n \in 1..Len(a) - 1 /\ a[n] = s[n] /\ a[n + 1] = f
    BY <1>1, <1>6
  <2> QED BY <2>1 DEF Between
<1>7. \A q : <<n, q>> \notin Between(s)
  BY <1>1 DEF Between
<1>8. ASSUME s # <<>>, s[n].instance = f.instance
      PROVE  Between(a) = Between(s) \cup Added(s, f)
  <2>1. n # 0 /\ n \in 1..n
    BY <1>1, <1>8
  <2>2. ASSUME NEW g \in Between(a) PROVE g \in Between(s) \cup Added(s, f)
    <3>1. PICK i \in 1..n, q \in 1..MaxSequence : g = <<i, q>>
      BY <1>5, <2>2
    <3>2. CASE i = n
      <4>1. q \in s[n].sequence + 1..f.sequence - 1
        BY <1>2, <1>3, <1>6, <2>1, <2>2, <3>1, <3>2
      <4> QED BY <3>1, <3>2, <4>1 DEF Added
    <3>3. CASE i # n
      BY <1>1, <1>4, <2>2, <3>1, <3>3
    <3> QED BY <3>2, <3>3
  <2>3. ASSUME NEW g \in Between(s) PROVE g \in Between(a)
    BY <1>4, <1>5, <2>3
  <2>4. ASSUME NEW g \in Added(s, f) PROVE g \in Between(a)
    <3>1. PICK q \in s[n].sequence + 1..f.sequence - 1 : g = <<n, q>>
      BY <2>4 DEF Added
    <3>2. q \in 1..MaxSequence /\ s[n].sequence < q /\ q < f.sequence
      BY <1>2, <1>3, <2>1, <3>1
    <3> QED BY <1>6, <1>8, <2>1, <3>1, <3>2
  <2> QED BY <2>2, <2>3, <2>4
<1>9. ASSUME s = <<>> \/ s[n].instance # f.instance
      PROVE  Between(a) = Between(s)
  <2>1. ASSUME NEW g \in Between(a) PROVE g \in Between(s)
    <3>1. PICK i \in 1..n, q \in 1..MaxSequence : g = <<i, q>>
      BY <1>5, <2>1
    <3>2. n # 0 /\ s # <<>>
      BY <1>1, <3>1
    <3>3. i # n
      BY <1>6, <1>9, <2>1, <3>1, <3>2
    <3> QED BY <1>1, <1>4, <2>1, <3>1, <3>3
  <2>2. ASSUME NEW g \in Between(s) PROVE g \in Between(a)
    BY <1>4, <1>5, <2>2
  <2> QED BY <2>1, <2>2
<1> QED BY <1>8, <1>9 DEF a

\* A newer snapshot of the instance adds the numbers between the two.
LEMMA AddedCount ==
    ASSUME NEW s \in Seq(Frames), NEW f \in Frames, s # <<>>, s[Len(s)].sequence < f.sequence
    PROVE  /\ IsFiniteSet(Added(s, f)) /\ Between(s) \cap Added(s, f) = {}
           /\ Cardinality(Added(s, f)) = f.sequence - s[Len(s)].sequence - 1
<1> DEFINE n == Len(s)
           low == s[n].sequence + 1
           high == f.sequence - 1
           N == low..high
<1>1. n \in Nat /\ n \in 1..n /\ s[n] \in Frames
  OBVIOUS
<1>2. low \in Int /\ high \in Int /\ high - low + 1 = f.sequence - s[n].sequence - 1
      /\ low <= high + 1
  BY <1>1, FrameType
<1>3. Added(s, f) = {n} \X N
  BY DEF Added
<1>4. Between(s) \cap Added(s, f) = {}
  BY <1>1 DEF Between, Added
<1> HIDE DEF n, low, high
<1>5. IsFiniteSet(N) /\ Cardinality(N) = IF low > high THEN 0 ELSE high - low + 1
  BY <1>2, FS_Interval, Zenon
<1>6. Cardinality(N) = high - low + 1
  BY <1>2, <1>5
<1> HIDE DEF N
<1>7. IsFiniteSet({n}) /\ Cardinality({n}) = 1
  BY FS_Singleton, Zenon
<1>8. /\ IsFiniteSet({n} \X N)
      /\ Cardinality({n} \X N) = Cardinality({n}) * Cardinality(N)
  BY <1>5, <1>7, FS_Product, Zenon
<1>9. Cardinality({n} \X N) = Cardinality(N)
  <2>1. Cardinality(N) \in Nat
    BY <1>5, FS_CardinalityType
  <2> QED BY <1>7, <1>8, <2>1
<1> QED BY <1>2, <1>3, <1>4, <1>6, <1>8, <1>9 DEF n

----------------------------------------------------------------------------
(***************************************************************************)
(* The loop.                                                               *)
(***************************************************************************)
Views ==
    [page : 1..6, help : BOOLEAN, sort : {"c", "m", "p", "t"}, scroll : Nat, filter : Nat, kept : Nat,
     editing : BOOLEAN, paused : BOOLEAN,
     connection : {"none", "stream_status", "replaying_recorded_telemetry", "replay_finished"}]

\* receive reads these and no more.
Settings == options \in [once : BOOLEAN, interactive : BOOLEAN, replay : BOOLEAN] /\ view \in Views

AppType ==
    /\ quit \in BOOLEAN /\ age \in Nat /\ printed \in Nat /\ gaps \in Nat
    /\ current \in Frames \cup {None} /\ visible \in Frames \cup {None}
    /\ history \in Seq(Frames) /\ taken \in Seq(Frames)

\* The snapshot compared with is the last one taken.
LastTaken == current = IF taken = <<>> THEN None ELSE taken[Len(taken)]

\* The histories end at or before the current snapshot: while the view is
\* frozen they do not grow.
HistoryOK ==
    /\ Len(history) <= HistorySize
    /\ history # <<>> => current # None
    /\ \A i \in 1..Len(history) : /\ history[i].instance = current.instance
                                  /\ history[i].sequence <= current.sequence
    /\ \A i \in 1..Len(history) - 1 : history[i].sequence < history[i + 1].sequence

\* A view that is not frozen shows the current snapshot.
Shown == (~view.paused => visible = current) /\ (visible # None => current # None)

AppInv == AppType /\ LastTaken /\ GapsExact /\ HistoryOK /\ OncePrintsOne /\ Shown

ScreenOK ==
    /\ ~options.interactive => screen = "none"
    /\ options.replay /\ ~replaying => view.connection = "replay_finished"

LinkOK == link \in Instances \cup {None}

Inv == ProbeInv /\ Settings /\ AppInv /\ ScreenOK /\ LinkOK

LEMMA LastOf ==
    ASSUME NEW s \in Seq(Frames), s # <<>>
    PROVE  Len(s) \in 1..Len(s) /\ s[Len(s)] \in Frames /\ s[Len(s)] # None
BY LimitTypes

LEMMA GapsGrow ==
    ASSUME AppType, LastTaken, GapsExact, NEW f \in Frames, ~Repeated(f), taken' = Append(taken, f),
           gaps' = gaps + (IF SameInstance(f) THEN f.sequence - current.sequence - 1 ELSE 0)
    PROVE  GapsExact' /\ gaps' \in Nat
<1>1. /\ taken \in Seq(Frames) /\ taken' \in Seq(Frames)
      /\ gaps = Cardinality(Between(taken)) /\ gaps \in Nat
  BY DEF AppType, GapsExact, Between
<1>2. SameInstance(f) <=> taken # <<>> /\ taken[Len(taken)].instance = f.instance
  BY <1>1, LastOf DEF LastTaken, SameInstance
<1>3. gaps' = Cardinality(Between(taken'))
  <2>1. CASE SameInstance(f)
    <3> DEFINE A == Between(taken)
               B == Added(taken, f)
    <3>1. /\ taken # <<>> /\ taken[Len(taken)].instance = f.instance
          /\ current = taken[Len(taken)] /\ current \in Frames
      BY <1>1, <1>2, <2>1, LastOf DEF LastTaken
    <3>2. current.sequence < f.sequence
      BY <2>1, <3>1, FrameType DEF Repeated
    <3>3. /\ IsFiniteSet(B) /\ A \cap B = {} /\ IsFiniteSet(A)
          /\ Cardinality(B) = f.sequence - current.sequence - 1
      BY <1>1, <3>1, <3>2, AddedCount, BetweenFinite
    <3>4. Between(taken') = A \cup B
      BY <1>1, <3>1, BetweenGrows
    <3> HIDE DEF A, B
    <3>5. Cardinality(A \cup B) = Cardinality(A) + Cardinality(B) - Cardinality(A \cap B)
      BY <3>3, FS_Union, Zenon
    <3>6. Cardinality(A \cap B) = 0
      BY <3>3, FS_EmptySet
    <3>7. Cardinality(A) = gaps /\ f.sequence - current.sequence - 1 \in Int
      BY <1>1, <3>1, FrameType DEF A
    <3> QED BY <1>1, <2>1, <3>3, <3>4, <3>5, <3>6, <3>7
  <2>2. CASE ~SameInstance(f)
    <3>1. Between(taken') = Between(taken)
      BY <1>1, <1>2, <2>2, BetweenGrows
    <3> QED BY <1>1, <2>2, <3>1
  <2> QED BY <2>1, <2>2
<1>4. Cardinality(Between(taken')) \in Nat
  BY <1>1, BetweenFinite
<1> QED BY <1>3, <1>4 DEF GapsExact, Between

\* A history of one instance, in order, that ends before f.
EndsBefore(h, f) ==
    /\ h \in Seq(Frames) /\ Len(h) <= HistorySize
    /\ \A i \in 1..Len(h) : h[i].instance = f.instance /\ h[i].sequence < f.sequence
    /\ \A i \in 1..Len(h) - 1 : h[i].sequence < h[i + 1].sequence

LEMMA KeptOK ==
    ASSUME AppType, HistoryOK, NEW f \in Frames, ~Repeated(f)
    PROVE  EndsBefore(Kept(f), f)
<1>1. CASE SameInstance(f)
  <2>1. current \in Frames /\ current.sequence < f.sequence /\ f.instance = current.instance
    BY <1>1, FrameType DEF SameInstance, Repeated, AppType
  <2>2. \A i \in 1..Len(history) : history[i] \in Frames
    BY DEF AppType
  <2>3. \A i \in 1..Len(history) : history[i].sequence < f.sequence
    BY <2>1, <2>2, FrameType DEF HistoryOK
  <2>4. Kept(f) = history
    BY <1>1 DEF Kept
  <2> QED BY <2>1, <2>3, <2>4 DEF HistoryOK, EndsBefore, AppType
<1>2. CASE ~SameInstance(f)
  BY <1>2, LimitTypes DEF Kept, EndsBefore
<1> QED BY <1>1, <1>2

\* Within the limit, and still in order.
LEMMA PushedOK ==
    ASSUME NEW f \in Frames, NEW h, EndsBefore(h, f)
    PROVE  LET p == Pushed(h, f) IN
           /\ p \in Seq(Frames) /\ Len(p) <= HistorySize
           /\ \A i \in 1..Len(p) : p[i].instance = f.instance /\ p[i].sequence <= f.sequence
           /\ \A i \in 1..Len(p) - 1 : p[i].sequence < p[i + 1].sequence
<1>1. /\ h \in Seq(Frames) /\ Len(h) \in Nat /\ Len(h) <= HistorySize
      /\ HistorySize \in Nat \ {0}
      /\ \A i \in 1..Len(h) : /\ h[i].instance = f.instance /\ h[i].sequence < f.sequence
                              /\ h[i].sequence \in Nat
      /\ \A i \in 1..Len(h) - 1 : h[i].sequence < h[i + 1].sequence
      /\ f.sequence \in Nat
  BY LimitTypes, FrameType DEF EndsBefore
<1>2. ASSUME NEW g \in Seq(Frames), NEW d \in {0, 1}, Len(g) + d = Len(h), Len(g) < HistorySize,
             \A i \in 1..Len(g) : g[i] = h[i + d]
      PROVE  LET p == Append(g, f) IN
             /\ p \in Seq(Frames) /\ Len(p) <= HistorySize
             /\ \A i \in 1..Len(p) : p[i].instance = f.instance /\ p[i].sequence <= f.sequence
             /\ \A i \in 1..Len(p) - 1 : p[i].sequence < p[i + 1].sequence
  <2> DEFINE p == Append(g, f)
             n == Len(g)
  <2>1. /\ p \in Seq(Frames) /\ n \in Nat /\ Len(p) = n + 1 /\ p[n + 1] = f
        /\ \A i \in 1..n : p[i] = g[i]
    BY Appended
  <2> HIDE DEF p
  <2>2. \A i \in 1..n : p[i] = h[i + d] /\ i + d \in 1..Len(h)
    BY <1>1, <1>2, <2>1
  <2>3. \A i \in 1..n : p[i].instance = f.instance /\ p[i].sequence < f.sequence
    BY <1>1, <2>2
  <2>4. ASSUME NEW i \in 1..n + 1
        PROVE  p[i].instance = f.instance /\ p[i].sequence <= f.sequence
    <3>1. CASE i = n + 1
      BY <1>1, <2>1, <3>1
    <3>2. CASE i # n + 1
      <4>1. i \in 1..n /\ i + d \in 1..Len(h)
        BY <2>1, <2>2, <3>2
      <4>2. p[i].sequence \in Nat
        BY <1>1, <2>2, <4>1
      <4> QED BY <1>1, <2>3, <4>1, <4>2
    <3> QED BY <3>1, <3>2
  <2>5. ASSUME NEW i \in 1..n PROVE p[i].sequence < p[i + 1].sequence
    <3>1. CASE i = n
      BY <2>1, <2>3, <3>1
    <3>2. CASE i # n
      <4>1. i + 1 \in 1..n /\ i + d \in 1..Len(h) - 1 /\ (i + 1) + d = (i + d) + 1
        BY <1>1, <1>2, <2>1, <3>2
      <4>2. p[i] = h[i + d] /\ p[i + 1] = h[(i + d) + 1]
        BY <2>2, <4>1
      <4> QED BY <1>1, <4>1, <4>2
    <3> QED BY <3>1, <3>2
  <2>6. Len(p) <= HistorySize /\ (Len(p) - 1) = n
    BY <1>1, <1>2, <2>1
  <2> QED BY <2>1, <2>4, <2>5, <2>6 DEF p
<1>3. CASE Len(h) < HistorySize
  <2>1. Pushed(h, f) = Append(h, f)
    BY <1>3 DEF Pushed
  <2> QED BY <1>1, <1>2, <1>3, <2>1
<1>4. CASE ~(Len(h) < HistorySize)
  <2>1. Pushed(h, f) = Append(Tail(h), f)
    BY <1>4 DEF Pushed
  <2>2. /\ Tail(h) \in Seq(Frames) /\ Len(Tail(h)) + 1 = Len(h) /\ Len(Tail(h)) < HistorySize
        /\ \A i \in 1..Len(Tail(h)) : Tail(h)[i] = h[i + 1]
    BY <1>1, <1>4
  <2> QED BY <1>2, <2>1, <2>2
<1> QED BY <1>3, <1>4

LEMMA AppSame == ASSUME AppInv, UNCHANGED <<options, quit, app, view>> PROVE AppInv'
BY DEF AppInv, AppType, LastTaken, GapsExact, HistoryOK, OncePrintsOne, Shown, app

LEMMA ReceiveOK ==
    ASSUME Settings, AppInv, NEW f \in Frames, Receive(f), UNCHANGED <<options, view>>
    PROVE  AppInv'
<1>1. CASE UNCHANGED <<quit, app>>
  BY <1>1, AppSame
<1>2. CASE /\ ~Enough /\ ~Repeated(f)
           /\ gaps' = gaps + (IF SameInstance(f) THEN f.sequence - current.sequence - 1 ELSE 0)
           /\ history' = IF view.paused THEN Kept(f) ELSE Pushed(Kept(f), f)
           /\ printed' = printed + (IF options.once \/ ~options.interactive THEN 1 ELSE 0)
           /\ current' = f /\ age' = 0
           /\ visible' = IF view.paused THEN visible ELSE f
           /\ quit' = (quit \/ options.once)
           /\ taken' = Append(taken, f)
  <2>1. GapsExact' /\ gaps' \in Nat
    BY <1>2, GapsGrow DEF AppInv
  <2>2. /\ taken' \in Seq(Frames) /\ taken' # <<>> /\ taken'[Len(taken')] = f
    BY <1>2, Appended DEF AppInv, AppType
  <2>3. LastTaken'
    BY <1>2, <2>2 DEF LastTaken
  <2>4. f # None
    BY LimitTypes
  <2>5. history' \in Seq(Frames) /\ HistoryOK'
    <3>1. EndsBefore(Kept(f), f)
      BY <1>2, KeptOK DEF AppInv
    <3>2. CASE view.paused
      <4>1. \A i \in 1..Len(Kept(f)) : Kept(f)[i] \in Frames
        BY <3>1 DEF EndsBefore
      <4>2. \A i \in 1..Len(Kept(f)) : Kept(f)[i].sequence <= f.sequence
        BY <3>1, <4>1, FrameType DEF EndsBefore
      <4> QED BY <1>2, <2>4, <3>1, <3>2, <4>2 DEF EndsBefore, HistoryOK
    <3>3. CASE ~view.paused
      <4>1. history' = Pushed(Kept(f), f)
        BY <1>2, <3>3
      <4> QED BY <1>2, <2>4, <3>1, <4>1, PushedOK DEF HistoryOK
    <3> QED BY <3>2, <3>3
  <2>6. AppType'
    BY <1>2, <2>1, <2>2, <2>5 DEF AppInv, AppType, Settings
  <2>7. OncePrintsOne'
    BY <1>2 DEF AppInv, AppType, OncePrintsOne, Enough, Settings
  <2>8. Shown'
    BY <1>2, <2>4 DEF AppInv, Shown, Settings
  <2> QED BY <2>1, <2>3, <2>5, <2>6, <2>7, <2>8 DEF AppInv
<1> QED BY <1>1, <1>2 DEF Receive

LEMMA PageType == ASSUME NEW k \in {"1", "2", "3", "4", "5", "6"} PROVE Page(k) \in 1..6
<1> DEFINE names == <<"1", "2", "3", "4", "5", "6">>
<1>1. \E n \in 1..6 : names[n] = k
  <2>1. /\ names[1] = "1" /\ names[2] = "2" /\ names[3] = "3"
        /\ names[4] = "4" /\ names[5] = "5" /\ names[6] = "6"
    OBVIOUS
  <2> HIDE DEF names
  <2> QED BY <2>1
<1> QED BY <1>1, Zenon DEF Page

LEMMA EditedOK ==
    ASSUME view \in Views, NEW k \in Keys
    PROVE  /\ Edited(k) \in Views /\ Edited(k).paused = view.paused
           /\ Edited(k).connection = view.connection
<1>1. CASE k = "enter"
  BY <1>1 DEF Edited, Views
<1>2. CASE k = "esc"
  BY <1>2 DEF Edited, Views
<1>3. CASE k = "del"
  <2>1. PICK n \in Nat : n = IF view.filter = 0 THEN 0 ELSE view.filter - 1
    BY DEF Views
  <2>2. Edited(k) = [view EXCEPT !.filter = n, !.scroll = 0]
    BY <1>3, <2>1 DEF Edited
  <2>3. [view EXCEPT !.filter = n, !.scroll = 0] \in Views
    BY DEF Views
  <2>4. Edited(k).paused = view.paused /\ Edited(k).connection = view.connection
    BY <2>2 DEF Views
  <2> QED BY <2>2, <2>3, <2>4, Zenon
<1>4. CASE k \notin {"enter", "esc", "del"}
  <2>1. PICK n \in Nat : n = IF view.filter < FilterSize THEN view.filter + 1 ELSE view.filter
    BY DEF Views
  <2>2. Edited(k) = [view EXCEPT !.filter = n, !.scroll = 0]
    BY <1>4, <2>1 DEF Edited
  <2>3. [view EXCEPT !.filter = n, !.scroll = 0] \in Views
    BY DEF Views
  <2>4. Edited(k).paused = view.paused /\ Edited(k).connection = view.connection
    BY <2>2 DEF Views
  <2> QED BY <2>2, <2>3, <2>4, Zenon
<1> QED BY <1>1, <1>2, <1>3, <1>4

LEMMA CommandedOK ==
    ASSUME view \in Views, NEW k \in Keys
    PROVE  /\ Commanded(k) \in Views /\ Commanded(k).connection = view.connection
           /\ Commanded(k).paused = IF k = "space" THEN ~view.paused ELSE view.paused
<1>1. CASE k \in {"1", "2", "3", "4", "5", "6"}
  <2>1. PICK n \in 1..6 : n = Page(k)
    BY <1>1, PageType
  <2>2. Commanded(k) = [view EXCEPT !.page = n, !.scroll = 0] /\ k # "space"
    BY <1>1, <2>1 DEF Commanded
  <2>3. [view EXCEPT !.page = n, !.scroll = 0] \in Views
    BY DEF Views
  <2>4. Commanded(k).paused = view.paused /\ Commanded(k).connection = view.connection
    BY <2>2 DEF Views
  <2> QED BY <2>2, <2>3, <2>4, Zenon
<1>2. CASE k = "h"
  <2>1. Commanded(k) = [view EXCEPT !.help = ~view.help]
    BY <1>2 DEF Commanded
  <2> QED BY <1>2, <2>1 DEF Views
<1>3. CASE k = "space"
  <2>1. Commanded(k) = [view EXCEPT !.paused = ~view.paused]
    BY <1>3 DEF Commanded
  <2> QED BY <1>3, <2>1 DEF Views
<1>4. CASE k = "slash"
  <2>1. Commanded(k) = [view EXCEPT !.kept = view.filter, !.editing = TRUE]
    BY <1>4 DEF Commanded
  <2> QED BY <1>4, <2>1 DEF Views
<1>5. CASE k \in {"c", "m", "p", "t"}
  <2>1. Commanded(k) = [view EXCEPT !.sort = k]
    BY <1>5 DEF Commanded
  <2> QED BY <1>5, <2>1 DEF Views
<1>6. CASE k \in {"j", "k", "g"}
  <2>1. Commanded(k) \in {[view EXCEPT !.scroll = view.scroll + 1], [view EXCEPT !.scroll = 0], view}
                         \/ (view.scroll > 0 /\ Commanded(k) = [view EXCEPT !.scroll = view.scroll - 1])
    BY <1>6 DEF Commanded
  <2> QED BY <1>6, <2>1 DEF Views
<1>7. CASE k \in {"enter", "esc", "del", "q", "x"}
  <2>1. Commanded(k) = view
    BY <1>7 DEF Commanded
  <2> QED BY <1>7, <2>1 DEF Views
<1> QED BY <1>1, <1>2, <1>3, <1>4, <1>5, <1>6, <1>7 DEF Keys

LEMMA KeyOK ==
    ASSUME Settings, AppInv, NEW k \in Keys, Key(k)
    PROVE  Settings' /\ AppInv' /\ view'.connection = view.connection
<1>1. /\ view' \in Views /\ view'.connection = view.connection
      /\ view'.paused = IF k = "space" /\ ~view.editing THEN ~view.paused ELSE view.paused
  BY EditedOK, CommandedOK DEF Key, Settings
<1>2. Settings'
  BY <1>1 DEF Key, others, Settings
<1>3. visible' \in Frames \cup {None} /\ Shown'
  <2>1. CASE k = "space" /\ ~view.editing /\ view.paused /\ current # None
    BY <1>1, <2>1 DEF Key, Thawed, AppInv, AppType, Shown
  <2>2. CASE ~(k = "space" /\ ~view.editing /\ view.paused /\ current # None)
    <3>1. visible' = visible /\ current' = current
      BY <2>2 DEF Key, Thawed
    <3>2. ~view'.paused => ~view.paused \/ current = None
      BY <1>1, <2>2 DEF Settings, Views
    <3>3. current = None => visible = None
      BY DEF AppInv, Shown
    <3> QED BY <3>1, <3>2, <3>3 DEF AppInv, AppType, Shown
  <2> QED BY <2>1, <2>2
<1>4. quit' \in BOOLEAN /\ (quit => quit')
  BY DEF Key, AppInv, AppType
<1>5. UNCHANGED <<options, current, gaps, history, age, printed, taken>>
  BY DEF Key, others
<1>6. AppType'
  BY <1>3, <1>4, <1>5 DEF AppInv, AppType
<1>7. LastTaken' /\ GapsExact' /\ HistoryOK' /\ OncePrintsOne'
  BY <1>4, <1>5 DEF AppInv, LastTaken, GapsExact, HistoryOK, OncePrintsOne
<1> QED BY <1>1, <1>2, <1>3, <1>6, <1>7 DEF AppInv

LEMMA InitOK == Init => Inv
<1> SUFFICES ASSUME Init PROVE Inv
  OBVIOUS
<1>1. ProbeInv
  BY ProbeInitOK DEF Init
<1>2. Settings
  BY DEF Init, Settings, Views
<1>3. AppType /\ LastTaken /\ HistoryOK /\ OncePrintsOne /\ Shown
  <2>1. AppType
    <3>1. /\ quit = FALSE /\ age = 0 /\ printed = 0 /\ gaps = 0 /\ current = None /\ visible = None
          /\ history = <<>> /\ taken = <<>>
      BY DEF Init
    <3>2. <<>> \in Seq(Frames)
      OBVIOUS
    <3> QED BY <3>1, <3>2 DEF AppType
  <2>2. LastTaken /\ OncePrintsOne /\ Shown
    BY DEF Init, LastTaken, OncePrintsOne, Shown
  <2>3. HistoryOK
    BY LimitTypes DEF Init, HistoryOK
  <2> QED BY <2>1, <2>2, <2>3
<1>4. GapsExact
  <2>1. Between(<<>>) = {}
    BY DEF Between
  <2>2. taken = <<>> /\ gaps = 0
    BY DEF Init
  <2> QED BY <2>1, <2>2, FS_EmptySet DEF GapsExact, Between
<1>5. ScreenOK
  <2>1. screen = "none" /\ replaying = options.replay
    BY DEF Init
  <2> QED BY <2>1, Zenon DEF ScreenOK
<1>6. LinkOK
  BY DEF Init, LinkOK
<1> QED BY <1>1, <1>2, <1>3, <1>4, <1>5, <1>6 DEF Inv, AppInv

\* What neither the view, the recording nor the screen changes.
LEMMA ScreenSame == ASSUME ScreenOK, UNCHANGED <<options, replaying, screen, view>> PROVE ScreenOK'
BY DEF ScreenOK

LEMMA SettingsSame == ASSUME Settings, UNCHANGED <<options, view>> PROVE Settings'
BY DEF Settings

LEMMA ProbeSame == ASSUME ProbeInv, UNCHANGED pvars PROVE ProbeInv'
BY DEF ProbeInv, ProbeOK, ProbeValueIsLastReply, pvars

LEMMA NextOK == ASSUME Inv, [Next]_vars PROVE Inv'
<1> USE DEF Inv
<1>1. CASE Leave
  BY <1>1, AppSame, SettingsSame, ScreenSame, ProbeSame DEF Leave, others, wire, LinkOK
<1>2. CASE TickStream
  BY <1>2, ProbeTickOK, AppSame, SettingsSame, ScreenSame DEF TickStream, LinkOK
<1>3. CASE ReplayWaits
  BY <1>3, AppSame, SettingsSame, ScreenSame, ProbeSame DEF ReplayWaits, others, wire, LinkOK
<1>4. CASE ReplayEnds
  <2>1. /\ view' = [view EXCEPT !.connection = "replay_finished"] /\ replaying' = FALSE
        /\ quit' = ~options.interactive /\ ~quit
        /\ UNCHANGED <<pvars, options, app, screen, wire>>
    BY <1>4 DEF ReplayEnds, others, Running
  <2>2. Settings' /\ view'.connection = "replay_finished" /\ view'.paused = view.paused
    BY <2>1 DEF Settings, Views
  <2>3. ScreenOK' /\ LinkOK'
    BY <2>1, <2>2 DEF ScreenOK, LinkOK, wire
  <2>4. AppType' /\ LastTaken' /\ GapsExact' /\ HistoryOK' /\ Shown'
    BY <2>1, <2>2 DEF AppInv, AppType, LastTaken, GapsExact, HistoryOK, Shown, app, Settings
  <2>5. OncePrintsOne'
    BY <2>1 DEF AppInv, AppType, OncePrintsOne, app
  <2> QED BY <2>1, <2>2, <2>3, <2>4, <2>5, ProbeSame DEF AppInv
<1>5. CASE Fail
  BY <1>5, AppSame, SettingsSame, ScreenSame, ProbeSame DEF Fail, others, wire, LinkOK
<1>6. ASSUME NEW f \in Frames, ReplayLine(f) PROVE Inv'
  BY <1>6, ReceiveOK, SettingsSame, ScreenSame, ProbeSame DEF ReplayLine, others, wire, LinkOK
<1>7. ASSUME NEW n \in 1..MaxSequence, HandleFrame(n) PROVE Inv'
  <2>1. [instance |-> link, sequence |-> n] \in Frames
    BY <1>7 DEF HandleFrame, LinkOK, Frames
  <2>2. UNCHANGED <<pvars, options, view, replaying, screen, link>>
    BY <1>7 DEF HandleFrame, others
  <2>3. AppInv'
    BY <1>7, <2>1, <2>2, ReceiveOK DEF HandleFrame
  <2> QED BY <2>2, <2>3, SettingsSame, ScreenSame, ProbeSame DEF LinkOK
<1>8. CASE HandleEnds
  BY <1>8, AppSame, SettingsSame, ScreenSame, ProbeSame DEF HandleEnds, others, LinkOK
<1>9. CASE Probe
  BY <1>9, ProbeHandleOK, AppSame, SettingsSame, ScreenSame DEF Probe, wire, LinkOK
<1>10. ASSUME NEW k \in Keys, Key(k) PROVE Inv'
  <2>1. Settings' /\ AppInv' /\ view'.connection = view.connection
    BY <1>10, KeyOK
  <2>2. UNCHANGED <<pvars, options, replaying, screen, link>>
    BY <1>10 DEF Key, others, wire
  <2> QED BY <2>1, <2>2, ProbeSame DEF ScreenOK, LinkOK
<1>11. CASE KeysEnd
  BY <1>11, AppSame, SettingsSame, ScreenSame, ProbeSame DEF KeysEnd, others, wire, LinkOK
<1>12. CASE Draw
  <2>1. /\ view' = [view EXCEPT !.connection = Connection]
        /\ screen' = IF options.interactive THEN Health(view') ELSE screen
        /\ UNCHANGED <<pvars, options, quit, app, replaying, wire>>
    BY <1>12 DEF Draw, others
  <2>2. /\ Connection \in {"stream_status", "replaying_recorded_telemetry", view.connection}
        /\ options.replay /\ ~replaying => Connection = view.connection
    BY DEF Connection
  <2>3. Settings' /\ view'.connection = Connection /\ view'.paused = view.paused
    BY <2>1, <2>2 DEF Settings, Views
  <2>5. ScreenOK' /\ LinkOK'
    BY <2>1, <2>2, <2>3 DEF ScreenOK, LinkOK, wire
  <2>6. AppInv'
    BY <2>1, <2>3 DEF AppInv, AppType, LastTaken, GapsExact, HistoryOK, OncePrintsOne, Shown, app
  <2> QED BY <2>1, <2>3, <2>5, <2>6, ProbeSame
<1>13. CASE OnSignal
  BY <1>13, AppSame, SettingsSame, ScreenSame, ProbeSame DEF OnSignal, wire, LinkOK
<1>14. CASE Time
  <2>1. age' \in Nat /\ UNCHANGED <<options, quit, current, visible, gaps, history, printed, taken,
                                    view, replaying, screen, link>>
    BY <1>14 DEF Time, AppInv, AppType, wire
  <2>2. AppInv'
    BY <2>1 DEF AppInv, AppType, LastTaken, GapsExact, HistoryOK, OncePrintsOne, Shown
  <2>3. ProbeInv'
    BY <1>14, ProbeTimeOK DEF Time
  <2> QED BY <2>1, <2>2, <2>3, SettingsSame, ScreenSame DEF LinkOK
<1>15. CASE UNCHANGED vars
  BY <1>15, AppSame, SettingsSame, ScreenSame, ProbeSame DEF vars, wire, LinkOK
<1> QED BY <1>1, <1>2, <1>3, <1>4, <1>5, <1>6, <1>7, <1>8, <1>9, <1>10, <1>11, <1>12, <1>13, <1>14,
           <1>15 DEF Next, Loop

\* Whatever poll, the servers, the recording and the keys do.
THEOREM Invariance == Spec => []Inv
<1>1. Init => Inv
  BY InitOK
<1>2. Inv /\ [Next]_vars => Inv'
  BY NextOK
<1> QED BY <1>1, <1>2, PTL DEF Spec

\* The gap counter (receive) counts what is missing between the snapshots
\* accepted, whatever is repeated, replayed out of order or restarted.
THEOREM GapsAreExact == Spec => []GapsExact
<1>1. Inv => GapsExact
  BY DEF Inv, AppInv
<1> QED BY <1>1, Invariance, PTL

\* The curves (the histories of receive) are of the instance shown, in order
\* and within their size.
THEOREM HistoriesAreOfOneInstance == Spec => []HistoryOfOneInstance
<1>1. Inv => HistoryOfOneInstance
  BY DEF Inv, AppInv, HistoryOK, HistoryOfOneInstance
<1> QED BY <1>1, Invariance, PTL

\* With --once the frames that the Handle in progress still delivers are not
\* printed.
THEOREM OnceIsOnce == Spec => []OncePrintsOne
<1>1. Inv => OncePrintsOne
  BY DEF Inv, AppInv
<1> QED BY <1>1, Invariance, PTL

\* value_ of the probe is the last whole reply (HttpProbe::Finish): no reply
\* that was cut short, of any length and cut anywhere, parses as an object.
THEOREM ProbeShowsLastReply == Spec => []ProbeValueIsLastReply
<1>1. Inv => ProbeValueIsLastReply
  BY DEF Inv, ProbeInv
<1> QED BY <1>1, Invariance, PTL

\* ui::Render says LIVE only for the newest snapshot, from a server.
THEOREM LiveIsNewest == Spec => LiveMeansNewest
<1> DEFINE Safe == pc = "draw" /\ pc' = "tick" /\ screen' = "LIVE" =>
                     /\ visible = current /\ current # None
                     /\ age <= StaleAfter /\ ~options.replay /\ ~view.paused
<1>1. Inv /\ [Next]_vars => [Safe]_vars
  <2> SUFFICES ASSUME Inv, Next, pc = "draw", pc' = "tick", screen' = "LIVE"
               PROVE  Safe
    BY DEF vars
  <2>1. Draw
    BY DEF Next, Loop, Leave, TickStream, ReplayWaits, ReplayEnds, Fail, ReplayLine, HandleFrame,
           HandleEnds, Probe, Key, KeysEnd, OnSignal, Time
  <2>2. /\ view' = [view EXCEPT !.connection = Connection]
        /\ screen' = IF options.interactive THEN Health(view') ELSE screen
    BY <2>1 DEF Draw
  <2>3. view'.connection = Connection /\ view'.paused = view.paused
    BY <2>2 DEF Inv, Settings, Views
  <2>4. options.interactive
    BY <2>2 DEF Inv, ScreenOK
  <2>5. Health(view') = "LIVE"
    BY <2>2, <2>4
  <2>6. /\ ~view'.paused /\ visible # None /\ ~(age > StaleAfter)
        /\ view'.connection \notin {"replaying_recorded_telemetry", "replay_finished"}
    BY <2>5 DEF Health
  <2>7. ~options.replay
    BY <2>3, <2>6 DEF Connection, Inv, ScreenOK
  <2>8. visible = current
    BY <2>3, <2>6 DEF Inv, AppInv, Shown
  <2>9. age <= StaleAfter
    BY <2>6, LimitTypes DEF Inv, AppInv, AppType
  <2> QED BY <2>3, <2>6, <2>7, <2>8, <2>9
<1> QED BY <1>1, Invariance, PTL DEF Spec, LiveMeansNewest
=============================================================================
