-------------------------- MODULE EventStreamOpsProofs --------------------------
(***************************************************************************)
(* Lemmas about the operators of a bounded event stream, for EventStream   *)
(* and for the runtime that holds one stream per agent.                    *)
(***************************************************************************)
EXTENDS EventStreamOps, SequenceTheorems, TLAPS

\* The newest n entries of a sequence: their number, their places, their type.
LEMMA NewestProperties ==
    ASSUME NEW S, NEW s \in Seq(S), NEW n \in 0..Len(s)
    PROVE  /\ Newest(s, n) \in Seq(S)
           /\ Len(Newest(s, n)) = n
           /\ \A i \in 1..n : Newest(s, n)[i] = s[Len(s) - n + i]
<1> DEFINE m == Len(s) - n + 1
<1>1. Len(s) \in Nat
  BY LenProperties
<1>2. m \in 1..(Len(s) + 1)
  BY <1>1
<1>3. \A i \in m..Len(s) : s[i] \in S
  BY <1>1, <1>2, ElementOfSeq
<1>4. /\ SubSeq(s, m, Len(s)) \in Seq(S)
      /\ Len(SubSeq(s, m, Len(s))) = IF m <= Len(s) THEN Len(s) - m + 1 ELSE 0
      /\ \A i \in 1..(Len(s) - m + 1) : SubSeq(s, m, Len(s))[i] = s[m + i - 1]
  BY <1>1, <1>2, <1>3, SubSeqProperties
<1>5. Len(s) - m + 1 = n
  BY <1>1
<1>6. \A i \in 1..n : m + i - 1 = Len(s) - n + i
  BY <1>1
<1> QED
  BY <1>1, <1>4, <1>5, <1>6 DEF Newest

\* An append keeps a stream typed and within its bound, and the event it adds
\* is the stream's last.
LEMMA AppendBoundedProperties ==
    ASSUME NEW S, NEW s \in Seq(S), NEW e \in S, Len(s) <= MaxEvents
    PROVE  LET r == AppendBounded(s, e)
           IN  /\ r \in Seq(S)
               /\ Len(r) \in 1..MaxEvents
               /\ r[Len(r)] = e
<1> DEFINE g == Append(s, e)
<1>1. /\ Len(s) \in Nat /\ MaxEvents \in Nat /\ MaxEvents >= 1
      /\ g \in Seq(S) /\ Len(g) = Len(s) + 1 /\ g[Len(s) + 1] = e
  BY LenProperties, MaxEventsAssumption, AppendProperties
<1>2. CASE Len(g) - MaxEvents > 0
  <2>1. AppendBounded(s, e) = Newest(g, MaxEvents)
    <3>1. Len(g) - (Len(g) - MaxEvents) = MaxEvents
      BY <1>1
    <3> QED
      BY <1>2, <3>1 DEF AppendBounded
  <2>2. MaxEvents \in 0..Len(g) /\ Len(g) = MaxEvents + 1
    BY <1>1, <1>2
  <2> HIDE DEF g
  <2>3. /\ Newest(g, MaxEvents) \in Seq(S)
        /\ Len(Newest(g, MaxEvents)) = MaxEvents
        /\ \A i \in 1..MaxEvents : Newest(g, MaxEvents)[i] = g[Len(g) - MaxEvents + i]
    BY <1>1, <2>2, NewestProperties
  <2>4. Newest(g, MaxEvents)[MaxEvents] = g[Len(s) + 1]
    <3>1. MaxEvents \in 1..MaxEvents /\ Len(g) - MaxEvents + MaxEvents = Len(s) + 1
      BY <1>1, <2>2
    <3> QED
      BY <2>3, <3>1
  <2> QED
    BY <1>1, <2>1, <2>3, <2>4
<1>3. CASE ~(Len(g) - MaxEvents > 0)
  <2>1. AppendBounded(s, e) = g
    BY <1>3 DEF AppendBounded
  <2>2. Len(g) \in 1..MaxEvents
    BY <1>1, <1>3
  <2> QED
    BY <1>1, <2>1, <2>2
<1> QED
  BY <1>2, <1>3

\* Appending to the newest entries of a log, with the trim, gives the newest
\* entries of the longer log: the stream forgets nothing but the oldest.
LEMMA AppendKeepsNewest ==
    ASSUME NEW S, NEW l \in Seq(S), NEW e \in S
    PROVE  AppendBounded(Kept(l), e) = Kept(Append(l, e))
<1> DEFINE k == Smaller(Len(l), MaxEvents)
           s == Newest(l, k)
           g == Append(s, e)
           L == Append(l, e)
           h == Smaller(Len(l) + 1, MaxEvents)
<1>0. s = Kept(l) /\ Newest(L, h) = Kept(L)
  BY AppendProperties DEF Kept
<1> SUFFICES AppendBounded(s, e) = Newest(L, h)
  BY <1>0
<1>1. Len(l) \in Nat /\ MaxEvents \in Nat /\ MaxEvents >= 1
  BY LenProperties, MaxEventsAssumption
<1>2. k \in 0..Len(l) /\ h \in 0..(Len(l) + 1)
  BY <1>1 DEF Smaller
<1>3. /\ s \in Seq(S) /\ Len(s) = k
      /\ \A i \in 1..k : s[i] = l[Len(l) - k + i]
  BY <1>2, NewestProperties
<1>4. /\ g \in Seq(S) /\ Len(g) = k + 1
      /\ \A i \in 1..k : g[i] = s[i]
      /\ g[k + 1] = e
  BY <1>3, AppendProperties
<1>5. /\ L \in Seq(S) /\ Len(L) = Len(l) + 1
      /\ \A i \in 1..Len(l) : L[i] = l[i]
      /\ L[Len(l) + 1] = e
  BY AppendProperties
<1>6. /\ Newest(L, h) \in Seq(S) /\ Len(Newest(L, h)) = h
      /\ \A i \in 1..h : Newest(L, h)[i] = L[Len(l) + 1 - h + i]
  <2>1. h \in 0..Len(L)
    BY <1>2, <1>5
  <2>2. /\ Newest(L, h) \in Seq(S) /\ Len(Newest(L, h)) = h
        /\ \A i \in 1..h : Newest(L, h)[i] = L[Len(L) - h + i]
    BY <1>5, <2>1, NewestProperties
  <2> HIDE DEF h, L
  <2> QED
    BY <1>5, <2>2
<1>7. CASE Len(l) >= MaxEvents
  <2>1. k = MaxEvents /\ h = MaxEvents
    BY <1>1, <1>7 DEF Smaller
  <2>2. AppendBounded(s, e) = Newest(g, MaxEvents)
    <3>1. Len(g) - MaxEvents = 1 /\ Len(g) - 1 = MaxEvents
      BY <1>1, <1>4, <2>1
    <3> QED
      BY <3>1 DEF AppendBounded
  <2>3. MaxEvents \in 0..Len(g)
    BY <1>1, <1>4, <2>1
  <2>4. /\ Newest(g, MaxEvents) \in Seq(S) /\ Len(Newest(g, MaxEvents)) = MaxEvents
        /\ \A i \in 1..MaxEvents : Newest(g, MaxEvents)[i] = g[Len(g) - MaxEvents + i]
    BY <1>4, <2>3, NewestProperties
  <2>5. ASSUME NEW i \in 1..MaxEvents
        PROVE  Newest(g, MaxEvents)[i] = Newest(L, h)[i]
    <3>1. Newest(g, MaxEvents)[i] = g[1 + i]
      BY <1>1, <1>4, <2>1, <2>4
    <3>2. Newest(L, h)[i] = L[Len(l) + 1 - MaxEvents + i]
      BY <1>6, <2>1
    <3>3. CASE i = MaxEvents
      <4>1. g[1 + i] = e
        BY <1>1, <1>4, <2>1, <3>3
      <4>2. Len(l) + 1 - MaxEvents + i = Len(l) + 1
        BY <1>1, <3>3
      <4> QED
        BY <1>5, <3>1, <3>2, <4>1, <4>2
    <3>4. CASE i # MaxEvents
      <4>1. 1 + i \in 1..k /\ Len(l) + 1 - MaxEvents + i \in 1..Len(l)
        BY <1>1, <1>7, <2>1, <3>4
      <4>2. g[1 + i] = l[Len(l) - MaxEvents + (1 + i)]
        BY <1>3, <1>4, <2>1, <4>1
      <4>3. Len(l) - MaxEvents + (1 + i) = Len(l) + 1 - MaxEvents + i
        BY <1>1
      <4> QED
        BY <1>5, <3>1, <3>2, <4>1, <4>2, <4>3
    <3> QED
      BY <3>3, <3>4
  <2> QED
    BY <1>6, <2>1, <2>2, <2>4, <2>5, SeqEqual
<1>8. CASE Len(l) < MaxEvents
  <2>1. k = Len(l) /\ h = Len(l) + 1
    BY <1>1, <1>8 DEF Smaller
  <2>2. AppendBounded(s, e) = g
    <3>1. ~(Len(g) - MaxEvents > 0)
      BY <1>1, <1>4, <1>8, <2>1
    <3> QED
      BY <3>1 DEF AppendBounded
  <2>3. ASSUME NEW i \in 1..h
        PROVE  g[i] = Newest(L, h)[i]
    <3>1. Newest(L, h)[i] = L[i]
      BY <1>1, <1>6, <2>1
    <3>2. CASE i = Len(l) + 1
      BY <1>4, <1>5, <2>1, <3>1, <3>2
    <3>3. CASE i # Len(l) + 1
      <4>1. i \in 1..Len(l) /\ i \in 1..k /\ Len(l) - k + i = i
        BY <1>1, <2>1, <3>3
      <4> QED
        BY <1>3, <1>4, <1>5, <3>1, <4>1
    <3> QED
      BY <3>2, <3>3
  <2>4. Len(g) = h /\ Len(Newest(L, h)) = h
    BY <1>4, <1>6, <2>1
  <2>5. g = Newest(L, h)
    <3> HIDE DEF g, L, h
    <3> QED
      BY <1>4, <1>6, <2>3, <2>4, SeqEqual
  <2> QED
    BY <2>2, <2>5
<1>9. Len(l) >= MaxEvents \/ Len(l) < MaxEvents
  BY <1>1
<1> HIDE DEF s, L, h
<1> QED
  BY <1>7, <1>8, <1>9

\* What is kept of no events, and how many events are kept.
LEMMA KeptProperties ==
    ASSUME NEW S, NEW l \in Seq(S)
    PROVE  /\ Kept(l) \in Seq(S)
           /\ Len(Kept(l)) = Smaller(Len(l), MaxEvents)
           /\ Smaller(Len(l), MaxEvents) \in 0..Len(l)
           /\ Len(Kept(l)) <= MaxEvents
           /\ l = << >> => Kept(l) = << >>
<1> DEFINE k == Smaller(Len(l), MaxEvents)
<1>1. Len(l) \in Nat
  BY LenProperties
<1>2. k \in 0..Len(l) /\ k <= MaxEvents
  BY <1>1, MaxEventsAssumption DEF Smaller
<1>3. Kept(l) \in Seq(S) /\ Len(Kept(l)) = k
  BY <1>2, NewestProperties DEF Kept
<1>4. l = << >> => Kept(l) = << >>
  BY <1>2, <1>3, EmptySeq
<1> QED
  BY <1>2, <1>3, <1>4

\* Where the kept events were before: at the end; all are kept until the
\* stream is full.
LEMMA KeptPositions ==
    ASSUME NEW S, NEW l \in Seq(S)
    PROVE  /\ Len(l) \in Nat /\ Len(Kept(l)) \in 0..Len(l)
           /\ \A i \in 1..Len(Kept(l)) : Kept(l)[i] = l[Len(l) - Len(Kept(l)) + i]
           /\ Len(Kept(l)) < MaxEvents => Len(Kept(l)) = Len(l)
<1> DEFINE k == Smaller(Len(l), MaxEvents)
<1>1. Len(l) \in Nat
  BY LenProperties
<1>2. k \in 0..Len(l) /\ (k < MaxEvents => k = Len(l))
  BY <1>1, MaxEventsAssumption DEF Smaller
<1>3. Len(Kept(l)) = k /\ \A i \in 1..k : Kept(l)[i] = l[Len(l) - k + i]
  BY <1>2, NewestProperties DEF Kept
<1> QED
  BY <1>1, <1>2, <1>3

\* get_events never returns more than there is, whatever the limit.
LEMMA ReturnedBound ==
    ASSUME NEW size \in Nat, NEW limit \in Int \union {NoLimit}
    PROVE  Returned(limit, size) \in 0..size
BY NoLimitAssumption DEF Returned
\* Asked for without a limit, get_events returns the whole stream.
LEMMA AllEventsReturned ==
    ASSUME NEW S, NEW s \in Seq(S)
    PROVE  GetEvents(s, NoLimit) = s
<1>1. Len(s) \in Nat /\ Len(s) \in 0..Len(s) /\ Returned(NoLimit, Len(s)) = Len(s)
  BY LenProperties DEF Returned
<1>2. /\ Newest(s, Len(s)) \in Seq(S) /\ Len(Newest(s, Len(s))) = Len(s)
      /\ \A i \in 1..Len(s) : Newest(s, Len(s))[i] = s[Len(s) - Len(s) + i]
  BY <1>1, NewestProperties
<1>3. \A i \in 1..Len(s) : Len(s) - Len(s) + i = i
  BY <1>1
<1>4. \A i \in 1..Len(s) : Newest(s, Len(s))[i] = s[i]
  BY <1>2, <1>3
<1>5. Newest(s, Len(s)) = s
  <2> DEFINE n == Newest(s, Len(s))
  <2>1. n \in Seq(S) /\ Len(n) = Len(s) /\ \A i \in 1..Len(n) : n[i] = s[i]
    BY <1>2, <1>4
  <2> HIDE DEF n
  <2>2. n = s
    BY <2>1, SeqEqual
  <2> QED
    BY <2>2 DEF n
<1> QED
  BY <1>1, <1>5 DEF GetEvents
=============================================================================
