----------------------------- MODULE RadioProofs -----------------------------
(***************************************************************************)
(* Proofs about RadioQueue, for any sizes of the ring, the packets and the *)
(* history, any numbering and any messages: the byte ring, cut anywhere by *)
(* its end, holds the queue of whole messages that it stands for, and the  *)
(* queue's packets, numbers and resends are those of RadioFifo.            *)
(***************************************************************************)
EXTENDS RadioQueue, WellFoundedInduction, TLAPS

-----------------------------------------------------------------------------
(***************************************************************************)
(* Numbers and sequences.                                                  *)
(***************************************************************************)
\* The sizes are positive numbers.
LEMMA Sizes ==
  /\ QueueSize \in Nat /\ QueueSize > 0 /\ MaxPayload \in Nat /\ MaxPayload > 0
  /\ SequenceCounts \in Nat /\ SequenceCounts > 0 /\ HistorySize \in Nat /\ HistorySize > 0
  /\ SendAttempts \in Nat /\ SendAttempts > 0 /\ MaxMessages \in Nat
  /\ Lengths \subseteq Nat /\ MessageHeader = 2 /\ RawFrame \notin Contents
  /\ Ssdv \in Contents /\ Compressed \in Contents
  BY RadioAssumption DEF MessageHeader

\* An index that is less than twice the size of its ring wraps around once.
LEMMA ModFacts ==
  ASSUME NEW Q \in Nat, Q > 0
  PROVE  \A x \in Nat : /\ x < 2 * Q => x % Q = IF x < Q THEN x ELSE x - Q
                        /\ x % Q \in 0..(Q - 1)
  OBVIOUS

Multiple(x) == \E k \in Nat : x = k * MaxPayload

\* A length that is a multiple of the payload stays one when a packet is cut off, and
\* is at least one packet unless it is 0.
LEMMA MultipleFacts ==
  ASSUME NEW x \in Nat
  PROVE  /\ x % MaxPayload = 0 => Multiple(x)
         /\ Multiple(x) /\ x # 0 => x >= MaxPayload /\ Multiple(x - MaxPayload)
         /\ Multiple(0)
<1> DEFINE Q == MaxPayload
<1>1. Q \in Nat /\ Q > 0 BY Sizes
<1> HIDE DEF Q
<1>2. ASSUME x % Q = 0 PROVE \E k \in Nat : x = k * Q
  <2> DEFINE y == x \div Q
  <2>1. y \in Nat BY <1>1
  <2>2. x = Q * y BY <1>1, <1>2, <2>1, SMTT(30)
  <2> QED BY <1>1, <2>1, <2>2
<1>3. ASSUME NEW k \in Nat, x = k * Q, x # 0
      PROVE  x >= Q /\ \E j \in Nat : x - Q = j * Q
  <2>1. k * Q >= Q /\ k - 1 \in Nat /\ k * Q - Q = (k - 1) * Q BY <1>1, <1>3
  <2> QED BY <1>3, <2>1
<1>4. 0 = 0 * Q BY <1>1
<1> QED BY <1>2, <1>3, <1>4 DEF Multiple, Q

\* Every set of numbers has a least one.
LEMMA Least ==
  ASSUME NEW D \in SUBSET Nat, D # {}
  PROVE  \E x \in D : \A y \in D : x <= y
<1>1. \E x \in D : \A y \in D : ~(<<y, x>> \in OpToRel(<,Nat))
  BY NatLessThanWellFounded, WFMin
<1>2. PICK x \in D : \A y \in D : ~(<<y, x>> \in OpToRel(<,Nat)) BY <1>1
<1>3. ASSUME NEW y \in D PROVE ~(y < x)
  <2>1. <<y, x>> \notin {ss \in Nat \X Nat : ss[1] < ss[2]} BY <1>2, Zenon DEF OpToRel
  <2> QED BY <2>1
<1> QED BY <1>3

\* A function on an interval is a sequence.
LEMMA SeqFacts ==
  ASSUME NEW S, NEW n \in Nat, NEW f \in [1..n -> S]
  PROVE  f \in Seq(S) /\ Len(f) = n
  OBVIOUS

\* The first part and the rest of a sequence.
LEMMA CutFacts ==
  ASSUME NEW S, NEW q \in Seq(S), NEW n \in 0..Len(q)
  PROVE  /\ SubSeq(q, 1, n) = [i \in 1..n |-> q[i]]
         /\ SubSeq(q, n + 1, Len(q)) = [i \in 1..(Len(q) - n) |-> q[n + i]]
         /\ SubSeq(q, 1, n) \in Seq(S)
  OBVIOUS

\* A sequence and one element more.
LEMMA AppendFacts ==
  ASSUME NEW S, NEW q \in Seq(S), NEW x \in S
  PROVE  /\ Append(q, x) \in Seq(S) /\ Len(q) \in Nat /\ Len(Append(q, x)) = Len(q) + 1
         /\ \A i \in 1..Len(q) : Append(q, x)[i] = q[i]
         /\ Append(q, x)[Len(q) + 1] = x
  OBVIOUS

\* The head and the rest of a sequence.
LEMMA TailFacts ==
  ASSUME NEW S, NEW q \in Seq(S), q # <<>>
  PROVE  /\ Head(q) \in S /\ Head(q) = q[1] /\ Tail(q) \in Seq(S)
         /\ Len(q) \in Nat /\ Len(q) > 0 /\ Len(Tail(q)) = Len(q) - 1
         /\ \A i \in 1..Len(Tail(q)) : Tail(q)[i] = q[i + 1] /\ i + 1 \in 1..Len(q)
  OBVIOUS

Queued == [content : Contents \cup {RawFrame}, data : Seq(Cells)]

\* The bytes of a message: two cells of header, then the data.
LEMMA EncodeFacts ==
  ASSUME NEW m \in Queued, Len(m.data) <= QueueSize
  PROVE  /\ Encode(m) \in Seq(Cells) /\ Len(Encode(m)) = MessageHeader + Len(m.data)
         /\ Encode(m)[1] = <<"type", m.content>>
         /\ Encode(m)[2] = <<"length", Len(m.data)>>
         /\ \A i \in 1..Len(m.data) : Encode(m)[i + MessageHeader] = m.data[i]
<1>1. m.data \in Seq(Cells) /\ Len(m.data) \in Nat /\ m.content \in Contents \cup {RawFrame}
  BY DEF Queued
<1>2. ASSUME NEW a \in Cells, NEW b \in Cells, NEW q \in Seq(Cells)
      PROVE  /\ <<a, b>> \o q \in Seq(Cells) /\ Len(<<a, b>> \o q) = 2 + Len(q)
             /\ (<<a, b>> \o q)[1] = a /\ (<<a, b>> \o q)[2] = b
             /\ \A i \in 1..Len(q) : (<<a, b>> \o q)[i + 2] = q[i]
  OBVIOUS
<1> DEFINE a == <<"type", m.content>>
           b == <<"length", Len(m.data)>>
<1>3. a \in Cells
  <2>1. a \in {<<"type", c>> : c \in Contents \cup {RawFrame}} BY <1>1
  <2> HIDE DEF a
  <2> QED BY <2>1 DEF Cells
<1>4. b \in Cells
  <2>1. b \in {<<"length", n>> : n \in 0..QueueSize} BY <1>1, Sizes
  <2> HIDE DEF b
  <2> QED BY <2>1 DEF Cells
<1>5. Encode(m) = <<a, b>> \o m.data BY DEF Encode
<1> HIDE DEF a, b
<1>6. /\ Encode(m) \in Seq(Cells) /\ Len(Encode(m)) = 2 + Len(m.data)
      /\ Encode(m)[1] = a /\ Encode(m)[2] = b
      /\ \A i \in 1..Len(m.data) : Encode(m)[i + 2] = m.data[i]
  BY <1>1, <1>2, <1>3, <1>4, <1>5
<1> QED BY <1>6, Sizes DEF a, b

-----------------------------------------------------------------------------
(***************************************************************************)
(* The ring.  Cell j of a ring is the j-th behind its head; a layout says  *)
(* at which cell each waiting message begins.                              *)
(***************************************************************************)
CellIn(b, h, j) == b[(h + j) % QueueSize]

Layout(b, h, n, w, left, at) ==
  /\ at \in [0..Len(w) -> 0..n] /\ at[0] = left /\ at[Len(w)] = n
  /\ \A j, k \in 0..Len(w) : j <= k => at[j] <= at[k]
  /\ \A k \in 1..Len(w) :
       /\ at[k] = at[k - 1] + MessageHeader + Len(w[k].data)
       /\ \A i \in 1..(MessageHeader + Len(w[k].data)) :
            CellIn(b, h, at[k - 1] + i - 1) = Encode(w[k])[i]

\* Writing behind what the ring holds leaves that alone.
LEMMA WriteFacts ==
  ASSUME buffer \in [Indices -> Cells], head \in Indices, count \in 0..QueueSize,
         NEW src \in Seq(Cells), Len(src) + count <= QueueSize
  PROVE  /\ ring_write(src) \in [Indices -> Cells]
         /\ \A j \in 0..(count - 1) : CellIn(ring_write(src), head, j) = CellIn(buffer, head, j)
         /\ \A i \in 1..Len(src) : CellIn(ring_write(src), head, count + i - 1) = src[i]
<1> DEFINE Q == QueueSize
           wrap(x) == x % Q
           tail == wrap(head + count)
           idx(p) == wrap(p + Q - tail) + 1
<1>1. /\ Q \in Nat /\ Q > 0 /\ head \in Nat /\ head < Q /\ count \in Nat /\ count <= Q
      /\ Len(src) \in Nat
  BY Sizes DEF Indices
<1>0. \A x \in Nat : /\ x < 2 * Q => wrap(x) = IF x < Q THEN x ELSE x - Q
                     /\ wrap(x) \in 0..(Q - 1)
  BY <1>1, ModFacts
<1> HIDE DEF wrap
<1>2. tail \in 0..(Q - 1) /\ (tail = head + count \/ tail = head + count - Q)
  <2> DEFINE x == head + count
  <2>1. x \in Nat /\ x < 2 * Q /\ tail = wrap(x) BY <1>1
  <2> HIDE DEF x, tail
  <2>2. tail \in 0..(Q - 1) /\ (tail = x \/ tail = x - Q) BY <1>0, <1>1, <2>1
  <2> QED BY <1>1, <2>2 DEF x
<1>3. ring_write(src) = [p \in Indices |-> IF idx(p) <= Len(src) THEN src[idx(p)]
                                           ELSE buffer[p]]
  BY DEF ring_write, wrap
<1>4. \A p \in Indices : idx(p) \in Nat /\ idx(p) >= 1
  <2> SUFFICES ASSUME NEW p \in Indices PROVE idx(p) \in Nat /\ idx(p) >= 1 OBVIOUS
  <2> DEFINE x == p + Q - tail
  <2>1. x \in Nat BY <1>1, <1>2 DEF Indices
  <2>2. idx(p) = wrap(x) + 1 OBVIOUS
  <2> HIDE DEF tail, x, idx
  <2>3. wrap(x) \in 0..(Q - 1) BY <1>0, <2>1
  <2> HIDE DEF wrap
  <2> QED BY <1>1, <2>2, <2>3
<1>5. ring_write(src) \in [Indices -> Cells]
  <2> HIDE DEF idx
  <2>1. \A p \in Indices : idx(p) <= Len(src) => src[idx(p)] \in Cells BY <1>1, <1>4
  <2> QED BY <1>3, <2>1
<1>6. ASSUME NEW j \in 0..(Q - 1)
      PROVE  /\ wrap(head + j) \in Indices
             /\ j < count => idx(wrap(head + j)) = Q + j - count + 1
             /\ j >= count => idx(wrap(head + j)) = j - count + 1
  <2> DEFINE p == wrap(head + j)
             d == p + Q - tail
             x == head + j
  <2>1. j \in Nat /\ j < Q /\ x \in Nat /\ x < 2 * Q /\ p = wrap(x) BY <1>1
  <2>2. p \in 0..(Q - 1) /\ (p = head + j \/ p = head + j - Q)
    <3> HIDE DEF x, p
    <3>1. p \in 0..(Q - 1) /\ (p = x \/ p = x - Q) BY <1>0, <1>1, <2>1
    <3> QED BY <1>1, <2>1, <3>1 DEF x
  <2> HIDE DEF tail, p, x
  <2>3. d \in Nat /\ d < 2 * Q BY <1>1, <1>2, <2>1, <2>2
  <2>4. /\ j < count => d = Q + j - count \/ d = Q + j - count + Q
        /\ j >= count => d = j - count \/ d = Q + j - count
    <3>1. p \in Int /\ tail \in Int /\ d = p + Q - tail BY <1>1, <1>2, <2>2
    <3> HIDE DEF d, Q
    <3>2. CASE p = head + j BY <1>1, <1>2, <2>1, <2>2, <2>3, <3>1, <3>2
    <3>3. CASE p = head + j - Q BY <1>1, <1>2, <2>1, <2>2, <2>3, <3>1, <3>3
    <3> QED BY <2>2, <3>2, <3>3
  <2>5. idx(p) = wrap(d) + 1 OBVIOUS
  <2> HIDE DEF d, idx
  <2>6. wrap(d) = IF d < Q THEN d ELSE d - Q BY <1>0, <2>3
  <2>7. j < count => idx(p) = Q + j - count + 1 BY <1>1, <2>1, <2>3, <2>4, <2>5, <2>6
  <2>8. j >= count => idx(p) = j - count + 1 BY <1>1, <2>1, <2>3, <2>4, <2>5, <2>6
  <2> QED BY <1>1, <2>2, <2>7, <2>8 DEF p, Indices
<1> HIDE DEF idx, tail
<1>7. ASSUME NEW j \in 0..(count - 1)
      PROVE  CellIn(ring_write(src), head, j) = CellIn(buffer, head, j)
  <2>1. j \in 0..(Q - 1) /\ j < count BY <1>1
  <2> DEFINE p == wrap(head + j)
  <2>2. p \in Indices /\ idx(p) = Q + j - count + 1 BY <1>6, <2>1
  <2>3. ~(idx(p) <= Len(src)) BY <1>1, <2>1, <2>2
  <2> HIDE DEF p
  <2>4. ring_write(src)[p] = buffer[p] BY <1>3, <2>2, <2>3
  <2> QED BY <2>4 DEF p, CellIn, wrap
<1>8. ASSUME NEW i \in 1..Len(src)
      PROVE  CellIn(ring_write(src), head, count + i - 1) = src[i]
  <2> DEFINE j == count + i - 1
  <2>1. j \in 0..(Q - 1) /\ j >= count /\ j - count + 1 = i BY <1>1
  <2> HIDE DEF j
  <2> DEFINE p == wrap(head + j)
  <2>2. p \in Indices /\ idx(p) = i BY <1>6, <2>1
  <2> HIDE DEF p
  <2>3. ring_write(src)[p] = src[i] BY <1>1, <1>3, <2>2
  <2> QED BY <2>3 DEF p, j, CellIn, wrap
<1> QED BY <1>5, <1>7, <1>8

\* Taking bytes out moves every cell forward.
LEMMA ShiftFacts ==
  ASSUME NEW b, NEW h \in Indices, NEW d \in 0..QueueSize,
         NEW j \in Nat, d + j < QueueSize
  PROVE  (h + d) % QueueSize \in Indices
         /\ CellIn(b, (h + d) % QueueSize, j) = CellIn(b, h, d + j)
<1> DEFINE Q == QueueSize
           wrap(x) == x % Q
           g == wrap(h + d)
<1>1. Q \in Nat /\ Q > 0 /\ h \in Nat /\ h < Q /\ d \in Nat /\ d <= Q /\ d + j < Q
  BY Sizes DEF Indices
<1>0. \A x \in Nat : /\ x < 2 * Q => wrap(x) = IF x < Q THEN x ELSE x - Q
                     /\ wrap(x) \in 0..(Q - 1)
  BY <1>1, ModFacts
<1> HIDE DEF wrap
<1>3. h + d \in Nat /\ h + d < 2 * Q /\ h + (d + j) \in Nat /\ h + (d + j) < 2 * Q BY <1>1
<1>2. g \in 0..(Q - 1) /\ (g = h + d \/ g = h + d - Q) BY <1>0, <1>1, <1>3
<1> HIDE DEF g
<1>5. g + j \in Nat /\ g + j < 2 * Q BY <1>1, <1>2
<1>6. wrap(g + j) = wrap(h + (d + j)) BY <1>0, <1>1, <1>2, <1>3, <1>5
<1> QED BY <1>1, <1>2, <1>6 DEF g, wrap, CellIn, Indices

\* What is read behind the head is a run of cells.
LEMMA ReadFacts ==
  ASSUME head \in Nat, NEW k \in Nat, NEW n \in Nat
  PROVE  ring_read(k, n) = [i \in 1..n |-> CellIn(buffer, head, k + i - 1)]
<1>1. \A i \in 1..n : head + k + i - 1 = head + (k + i - 1) OBVIOUS
<1> QED BY <1>1 DEF ring_read, CellIn

\* An accepted message extends the layout.
LEMMA LayoutPush ==
  ASSUME buffer \in [Indices -> Cells], head \in Indices, count \in 0..QueueSize,
         waiting \in Seq(Queued), NEW m \in Queued, Len(m.data) <= QueueSize,
         NEW n \in 0..QueueSize, n = count + MessageHeader + Len(m.data),
         NEW left, NEW at, Layout(buffer, head, count, waiting, left, at)
  PROVE  \E at2 : Layout(ring_write(Encode(m)), head, n, Append(waiting, m), left, at2)
<1> DEFINE w == waiting
           w2 == Append(waiting, m)
           e == Encode(m)
           size(q, k) == MessageHeader + Len(q[k].data)
           b2 == ring_write(e)
           at2 == [k \in 0..Len(w2) |-> IF k <= Len(w) THEN at[k] ELSE n]
<1>1. /\ e \in Seq(Cells) /\ Len(e) = MessageHeader + Len(m.data) /\ Len(m.data) \in Nat
      /\ Len(e) + count = n /\ count \in Nat
  <2>1. Len(m.data) \in Nat /\ MessageHeader \in Nat BY Sizes DEF Queued
  <2>2. e \in Seq(Cells) /\ Len(e) = MessageHeader + Len(m.data) BY EncodeFacts
  <2> DEFINE l == Len(e)
             k == Len(m.data)
  <2>3. l = MessageHeader + k /\ k \in Nat /\ n = count + MessageHeader + k BY <2>1, <2>2
  <2> HIDE DEF k, l, e
  <2>0. count \in Nat /\ MessageHeader = 2 BY Sizes
  <2>4. l + count = n BY ONLY <2>0, <2>3
  <2> QED BY <2>0, <2>1, <2>2, <2>3, <2>4 DEF k, l
<1>2. /\ \A j \in 0..(count - 1) : CellIn(b2, head, j) = CellIn(buffer, head, j)
      /\ \A i \in 1..Len(e) : CellIn(b2, head, count + i - 1) = e[i]
  <2> HIDE DEF e
  <2>0. n \in 0..QueueSize /\ QueueSize \in Nat BY Sizes
  <2>1. Len(e) + count <= QueueSize BY ONLY <1>1, <2>0
  <2> QED BY WriteFacts, <1>1, <2>1
<1>3. /\ w2 \in Seq(Queued) /\ Len(w) \in Nat /\ Len(w2) = Len(w) + 1
      /\ \A k \in 1..Len(w) : w2[k] = w[k]
      /\ w2[Len(w) + 1] = m
  BY AppendFacts
<1>4. \A k \in 1..Len(w) : Len(w[k].data) \in Nat BY DEF Queued
<1> HIDE DEF w, w2, b2, e
<1>5. /\ at \in [0..Len(w) -> 0..count] /\ at[0] = left /\ at[Len(w)] = count
      /\ \A j, k \in 0..Len(w) : j <= k => at[j] <= at[k]
      /\ \A k \in 1..Len(w) :
           /\ at[k] = at[k - 1] + MessageHeader + Len(w[k].data)
           /\ \A i \in 1..(MessageHeader + Len(w[k].data)) :
                CellIn(buffer, head, at[k - 1] + i - 1) = Encode(w[k])[i]
  BY DEF Layout, w
<1>6. at2[0] = left /\ at2[Len(w2)] = n BY <1>3, <1>5
<1>7. at2 \in [0..Len(w2) -> 0..n] BY <1>1, <1>3, <1>5
<1>8. \A j, k \in 0..Len(w2) : j <= k => at2[j] <= at2[k]
  <2> SUFFICES ASSUME NEW j \in 0..Len(w2), NEW k \in 0..Len(w2), j <= k
               PROVE  at2[j] <= at2[k]
    OBVIOUS
  <2>1. CASE k <= Len(w)
    <3>1. j \in 0..Len(w) /\ k \in 0..Len(w) /\ j <= Len(w) BY <1>3, <2>1
    <3> QED BY <1>5, <2>1, <3>1
  <2>2. CASE ~(k <= Len(w))
    <3>1. at2[k] = n BY <2>2
    <3>2. at2[j] \in 0..n BY <1>7
    <3> HIDE DEF at2
    <3> QED BY <3>1, <3>2
  <2> QED BY <2>1, <2>2
<1>9. ASSUME NEW k \in 1..Len(w2)
      PROVE  /\ at2[k] = at2[k - 1] + MessageHeader + Len(w2[k].data)
             /\ \A i \in 1..(MessageHeader + Len(w2[k].data)) :
                  CellIn(b2, head, at2[k - 1] + i - 1) = Encode(w2[k])[i]
  <2>1. CASE k = Len(w) + 1
    <3>1. at2[k] = n /\ at2[k - 1] = count /\ w2[k] = m BY <1>3, <1>5, <2>1
    <3>2. n = count + MessageHeader + Len(m.data) BY <1>1
    <3> HIDE DEF at2
    <3> QED BY <1>1, <1>2, <3>1, <3>2 DEF e
  <2>2. CASE k \in 1..Len(w)
    <3>1. /\ at2[k] = at[k] /\ at2[k - 1] = at[k - 1] /\ w2[k] = w[k] /\ k - 1 \in 0..Len(w)
          /\ k \in 0..Len(w)
      BY <1>3, <2>2
    <3> HIDE DEF at2
    <3>2. /\ at[k] = at[k - 1] + MessageHeader + Len(w[k].data)
          /\ \A i \in 1..(MessageHeader + Len(w[k].data)) :
                CellIn(buffer, head, at[k - 1] + i - 1) = Encode(w[k])[i]
      BY <1>5, <2>2
    <3>3. at[k] \in 0..count /\ at[k - 1] \in 0..count BY <1>5, <3>1
    <3>4. ASSUME NEW i \in 1..(MessageHeader + Len(w[k].data))
          PROVE  CellIn(b2, head, at[k - 1] + i - 1) = Encode(w[k])[i]
      <4>1. Len(w[k].data) \in Nat /\ MessageHeader = 2 BY <1>4, <2>2, Sizes
      <4>2. at[k - 1] + i - 1 \in 0..(count - 1)
        <5> DEFINE x == at[k - 1]
                   y == at[k]
                   l == Len(w[k].data)
        <5>1. /\ x \in Nat /\ y \in Nat /\ y <= count /\ y = x + MessageHeader + l
              /\ i \in 1..(MessageHeader + l) /\ l \in Nat
          BY <3>2, <3>3, <4>1, <1>1
        <5> HIDE DEF x, y, l
        <5>2. x + i - 1 \in 0..(count - 1) BY <1>1, <4>1, <5>1
        <5> QED BY <5>2 DEF x
      <4>3. CellIn(b2, head, at[k - 1] + i - 1) = CellIn(buffer, head, at[k - 1] + i - 1)
        BY <1>2, <4>2
      <4> QED BY <3>2, <4>3
    <3> QED BY <3>1, <3>2, <3>4
  <2> QED BY <1>3, <2>1, <2>2
<1> HIDE DEF at2
<1>10. Layout(b2, head, n, w2, left, at2) BY <1>6, <1>7, <1>8, <1>9 DEF Layout
<1> QED BY <1>10 DEF b2, e, w2

\* Bytes taken from the message under way move the layout.
LEMMA LayoutMore ==
  ASSUME NEW b, NEW h \in Indices, NEW n \in 0..QueueSize, NEW w \in Seq(Queued),
         NEW left \in Nat, NEW d \in 0..left, NEW at, Layout(b, h, n, w, left, at)
  PROVE  \E at2 : Layout(b, (h + d) % QueueSize, n - d, w, left - d, at2)
<1> DEFINE g == (h + d) % QueueSize
           at2 == [k \in 0..Len(w) |-> at[k] - d]
<1>1. /\ at \in [0..Len(w) -> 0..n] /\ at[0] = left /\ at[Len(w)] = n
      /\ \A j, k \in 0..Len(w) : j <= k => at[j] <= at[k]
      /\ \A k \in 1..Len(w) :
           /\ at[k] = at[k - 1] + MessageHeader + Len(w[k].data)
           /\ \A i \in 1..(MessageHeader + Len(w[k].data)) :
                CellIn(b, h, at[k - 1] + i - 1) = Encode(w[k])[i]
  BY DEF Layout
<1>2. Len(w) \in Nat /\ \A k \in 1..Len(w) : Len(w[k].data) \in Nat BY DEF Queued
<1>3. n \in Nat /\ n <= QueueSize /\ QueueSize \in Nat /\ MessageHeader = 2 BY Sizes
<1>4. \A k \in 0..Len(w) : at[k] \in Nat /\ at[k] <= n /\ left <= at[k]
  <2>1. 0 \in 0..Len(w) BY <1>2
  <2>2. ASSUME NEW k \in 0..Len(w) PROVE at[k] \in 0..n /\ at[0] <= at[k]
    <3>1. 0 <= k OBVIOUS
    <3> QED BY <1>1, <2>1, <3>1
  <2> QED BY <1>1, <1>3, <2>2
<1>5. 0 \in 0..Len(w) /\ Len(w) \in 0..Len(w) BY <1>2
<1>6. at2[0] = left - d /\ at2[Len(w)] = n - d BY <1>1, <1>5
<1>7. at2 \in [0..Len(w) -> 0..(n - d)] BY <1>1, <1>4, <1>3
<1>8. \A j, k \in 0..Len(w) : j <= k => at2[j] <= at2[k] BY <1>1, <1>4
<1>9. ASSUME NEW k \in 1..Len(w)
      PROVE  /\ at2[k] = at2[k - 1] + MessageHeader + Len(w[k].data)
             /\ \A i \in 1..(MessageHeader + Len(w[k].data)) :
                  CellIn(b, g, at2[k - 1] + i - 1) = Encode(w[k])[i]
  <2>1. k \in 0..Len(w) /\ k - 1 \in 0..Len(w) BY <1>2
  <2>2. at2[k] = at[k] - d /\ at2[k - 1] = at[k - 1] - d BY <2>1
  <2> HIDE DEF at2, g
  <2>3. at[k] = at[k - 1] + MessageHeader + Len(w[k].data) BY <1>1
  <2>4. at[k - 1] \in Nat /\ at[k] \in Nat /\ at[k] <= n /\ left <= at[k - 1]
        /\ Len(w[k].data) \in Nat
    BY <1>2, <1>4, <2>1
  <2>5. at2[k] = at2[k - 1] + MessageHeader + Len(w[k].data) BY <2>2, <2>3, <2>4, <1>3, SMTT(30)
  <2>6. ASSUME NEW i \in 1..(MessageHeader + Len(w[k].data))
        PROVE  CellIn(b, g, at2[k - 1] + i - 1) = Encode(w[k])[i]
    <3> DEFINE j == at2[k - 1] + i - 1
    <3>1. /\ j \in Nat /\ d + j < QueueSize /\ d \in 0..QueueSize
          /\ d + j = at[k - 1] + i - 1
      <4> DEFINE x == at[k - 1]
                 x2 == at2[k - 1]
                 y == at[k]
                 l == Len(w[k].data)
      <4>1. /\ x \in Nat /\ y \in Nat /\ y <= n /\ y = x + MessageHeader + l /\ left <= x
            /\ i \in 1..(MessageHeader + l) /\ l \in Nat /\ x2 = x - d /\ j = x2 + i - 1
        BY <2>2, <2>3, <2>4
      <4> HIDE DEF x, x2, y, l, j
      <4>2. j \in Nat /\ d + j < QueueSize /\ d \in 0..QueueSize /\ d + j = x + i - 1
        BY <1>3, <4>1
      <4> QED BY <4>2 DEF x
    <3> HIDE DEF j
    <3>2. CellIn(b, g, j) = CellIn(b, h, d + j) BY <3>1, ShiftFacts DEF g
    <3>3. CellIn(b, h, at[k - 1] + i - 1) = Encode(w[k])[i] BY <1>1
    <3> QED BY <3>1, <3>2, <3>3 DEF j
  <2> QED BY <2>5, <2>6
<1> HIDE DEF at2
<1>10. Layout(b, g, n - d, w, left - d, at2) BY <1>6, <1>7, <1>8, <1>9 DEF Layout
<1> QED BY <1>10

\* When no message is under way, the first waiting message is at the head, and taking
\* its header and the first bytes of its data leaves the others where they are.
LEMMA LayoutBegin ==
  ASSUME NEW b, NEW h \in Indices, NEW n \in 0..QueueSize, NEW w \in Seq(Queued),
         w # <<>>, NEW at, Layout(b, h, n, w, 0, at)
  PROVE  /\ MessageHeader + Len(w[1].data) <= n
         /\ \A i \in 1..(MessageHeader + Len(w[1].data)) :
              CellIn(b, h, i - 1) = Encode(w[1])[i]
         /\ \A d \in MessageHeader..(MessageHeader + Len(w[1].data)) : \E at2 :
              Layout(b, (h + d) % QueueSize, n - d, Tail(w),
                     MessageHeader + Len(w[1].data) - d, at2)
<1> DEFINE v == Tail(w)
           l == Len(w[1].data)
<1>1. /\ at \in [0..Len(w) -> 0..n] /\ at[0] = 0 /\ at[Len(w)] = n
      /\ \A j, k \in 0..Len(w) : j <= k => at[j] <= at[k]
      /\ \A k \in 1..Len(w) :
           /\ at[k] = at[k - 1] + MessageHeader + Len(w[k].data)
           /\ \A i \in 1..(MessageHeader + Len(w[k].data)) :
                CellIn(b, h, at[k - 1] + i - 1) = Encode(w[k])[i]
  BY DEF Layout
<1>2. /\ Len(w) \in Nat /\ Len(w) > 0 /\ Len(v) = Len(w) - 1
      /\ \A i \in 1..Len(v) : v[i] = w[i + 1] /\ i + 1 \in 1..Len(w)
  BY TailFacts
<1>3. \A k \in 1..Len(w) : Len(w[k].data) \in Nat BY DEF Queued
<1>4. n \in Nat /\ n <= QueueSize /\ QueueSize \in Nat /\ MessageHeader = 2 BY Sizes
<1>5. 1 \in 1..Len(w) /\ 1 \in 0..Len(w) /\ 0 \in 0..Len(w) /\ Len(w) \in 0..Len(w)
  BY <1>2
<1>6. l \in Nat BY <1>3, <1>5
<1>7. at[1] = MessageHeader + l /\ at[1] <= n
  <2>1. at[1] = at[1 - 1] + MessageHeader + l BY <1>1, <1>5
  <2>2. 1 - 1 = 0 OBVIOUS
  <2>3. at[1] \in 0..n BY <1>1, <1>5
  <2> HIDE DEF l
  <2> QED BY <1>1, <1>4, <1>6, <2>1, <2>2, <2>3
<1>8. \A i \in 1..(MessageHeader + l) : CellIn(b, h, i - 1) = Encode(w[1])[i]
  <2> SUFFICES ASSUME NEW i \in 1..(MessageHeader + l)
               PROVE  CellIn(b, h, i - 1) = Encode(w[1])[i]
    OBVIOUS
  <2>1. CellIn(b, h, at[1 - 1] + i - 1) = Encode(w[1])[i] BY <1>1, <1>5
  <2>2. 1 - 1 = 0 /\ i \in Nat BY <1>4, <1>6
  <2>3. at[1 - 1] + i - 1 = i - 1 BY <1>1, <2>2
  <2> QED BY <2>1, <2>3
<1>9. ASSUME NEW d \in MessageHeader..(MessageHeader + l)
      PROVE  \E at2 : Layout(b, (h + d) % QueueSize, n - d, v, MessageHeader + l - d, at2)
  <2> DEFINE g == (h + d) % QueueSize
             at2 == [k \in 0..Len(v) |-> at[k + 1] - d]
  <2>0. d \in Nat /\ d <= MessageHeader + l /\ MessageHeader + l \in Nat BY <1>4, <1>6
  <2> HIDE DEF v, l
  <2>1. \A k \in 0..Len(v) : k + 1 \in 0..Len(w) /\ 1 <= k + 1 /\ at2[k] = at[k + 1] - d
    BY <1>2
  <2>2. \A k \in 0..Len(v) : at[k + 1] \in Nat /\ at[k + 1] <= n /\ d <= at[k + 1]
    <3> SUFFICES ASSUME NEW k \in 0..Len(v)
                 PROVE  at[k + 1] \in Nat /\ at[k + 1] <= n /\ d <= at[k + 1]
      OBVIOUS
    <3>1. k + 1 \in 0..Len(w) /\ 1 <= k + 1 BY <2>1
    <3>2. at[k + 1] \in 0..n /\ at[1] <= at[k + 1] BY <1>1, <1>5, <3>1
    <3> QED BY <1>4, <1>7, <2>0, <3>2
  <2>3. 0 \in 0..Len(v) /\ Len(v) \in 0..Len(v) /\ 0 + 1 = 1 /\ Len(v) + 1 = Len(w)
    BY <1>2
  <2> HIDE DEF at2
  <2>4. at2[0] = MessageHeader + l - d /\ at2[Len(v)] = n - d
    <3>1. at2[0] = at[1] - d BY <2>3 DEF at2
    <3>2. at2[Len(v)] = at[Len(w)] - d BY <2>3 DEF at2
    <3>3. at[1] = MessageHeader + l BY <1>7
    <3>4. at[Len(w)] = n BY <1>1
    <3>5. (MessageHeader + l) - d = MessageHeader + l - d BY <1>4, <1>6, <2>0
    <3> QED BY <3>1, <3>2, <3>3, <3>4, <3>5
  <2>5. at2 \in [0..Len(v) -> 0..(n - d)]
    <3>1. \A k \in 0..Len(v) : at2[k] \in 0..(n - d) BY <1>4, <2>0, <2>1, <2>2, SMTT(30)
    <3> QED BY <3>1 DEF at2
  <2>6. \A j, k \in 0..Len(v) : j <= k => at2[j] <= at2[k]
    <3> SUFFICES ASSUME NEW j \in 0..Len(v), NEW k \in 0..Len(v), j <= k
                 PROVE  at2[j] <= at2[k]
      OBVIOUS
    <3>1. j + 1 \in 0..Len(w) /\ k + 1 \in 0..Len(w) /\ j + 1 <= k + 1 BY <2>1
    <3>2. at[j + 1] <= at[k + 1] BY <1>1, <3>1
    <3>3. at2[j] = at[j + 1] - d /\ at2[k] = at[k + 1] - d BY <2>1
    <3> QED BY <2>0, <2>2, <3>2, <3>3
  <2>7. ASSUME NEW k \in 1..Len(v)
        PROVE  /\ at2[k] = at2[k - 1] + MessageHeader + Len(v[k].data)
               /\ \A i \in 1..(MessageHeader + Len(v[k].data)) :
                    CellIn(b, g, at2[k - 1] + i - 1) = Encode(v[k])[i]
    <3>1. /\ k \in 0..Len(v) /\ k - 1 \in 0..Len(v) /\ (k - 1) + 1 = k /\ k + 1 \in 1..Len(w)
          /\ v[k] = w[k + 1] /\ (k + 1) - 1 = k
      BY <1>2
    <3> DEFINE x == at[k]
               y == at[k + 1]
               z == Len(v[k].data)
               x2 == at2[k - 1]
    <3>2. y = x + MessageHeader + z BY <1>1, <3>1
    <3>3. /\ x \in Nat /\ y \in Nat /\ y <= n /\ d <= x /\ z \in Nat
          /\ x2 = x - d /\ at2[k] = y - d
      BY <1>3, <2>1, <2>2, <3>1
    <3>4. \A i \in 1..(MessageHeader + z) : CellIn(b, h, x + i - 1) = Encode(v[k])[i]
      BY <1>1, <3>1
    <3> HIDE DEF x, y, z, x2, g
    <3>5. at2[k] = x2 + MessageHeader + z BY <1>4, <2>0, <3>2, <3>3
    <3>6. ASSUME NEW i \in 1..(MessageHeader + z)
          PROVE  CellIn(b, g, x2 + i - 1) = Encode(v[k])[i]
      <4> DEFINE j == x2 + i - 1
      <4>1. /\ j \in Nat /\ d + j < QueueSize /\ d \in 0..QueueSize
            /\ d + j = x + i - 1
        BY <1>4, <2>0, <3>2, <3>3
      <4> HIDE DEF j
      <4>2. CellIn(b, g, j) = CellIn(b, h, d + j) BY <4>1, ShiftFacts DEF g
      <4> QED BY <4>1, <4>2, <3>4 DEF j
    <3> QED BY <3>5, <3>6 DEF x2, z
  <2>8. Layout(b, g, n - d, v, MessageHeader + l - d, at2)
    BY <2>4, <2>5, <2>6, <2>7 DEF Layout
  <2> QED BY <2>8
<1> QED BY <1>7, <1>8, <1>9

\* The ring is empty exactly when nothing waits and no message is under way.
LEMMA LayoutEmpty ==
  ASSUME NEW b, NEW h, NEW n \in 0..QueueSize, NEW w \in Seq(Queued), NEW left,
         NEW at, Layout(b, h, n, w, left, at)
  PROVE  left \in 0..n /\ (n = 0 <=> w = <<>> /\ left = 0)
<1>1. /\ at \in [0..Len(w) -> 0..n] /\ at[0] = left /\ at[Len(w)] = n
      /\ \A k \in 1..Len(w) : at[k] = at[k - 1] + MessageHeader + Len(w[k].data)
  BY DEF Layout
<1>2. Len(w) \in Nat /\ (w = <<>> <=> Len(w) = 0) OBVIOUS
<1>3. left \in 0..n BY <1>1, <1>2
<1>4. ASSUME n = 0, w # <<>> PROVE FALSE
  <2>1. 1 \in 1..Len(w) /\ 1 \in 0..Len(w) /\ 0 \in 0..Len(w) /\ 1 - 1 = 0 BY <1>2, <1>4
  <2>2. at[1] \in 0..n /\ at[0] \in 0..n BY <1>1, <2>1
  <2>3. at[1] = at[0] + MessageHeader + Len(w[1].data) BY <1>1, <2>1
  <2>4. Len(w[1].data) \in Nat BY <2>1 DEF Queued
  <2> QED BY <1>4, <2>2, <2>3, <2>4, Sizes
<1>5. w = <<>> /\ left = 0 => n = 0 BY <1>1, <1>2
<1> QED BY <1>3, <1>4, <1>5

\* A layout is the position of the queue in the ring that RingHoldsQueue computes.
LEMMA LayoutHolds ==
  ASSUME head \in Indices, count \in 0..QueueSize, waiting \in Seq(Queued),
         \A k \in 1..Len(waiting) : Len(waiting[k].data) <= QueueSize,
         NEW pos, Layout(buffer, head, count, waiting, message_left, pos)
  PROVE  RingHoldsQueue
<1> DEFINE w == waiting
           z(k) == Len(Encode(w[k]))
           f == CHOOSE f : f = [k \in 0..Len(w) |-> IF k = 0 THEN message_left
                                                    ELSE f[k - 1] + z(k)]
<1>1. /\ pos \in [0..Len(w) -> 0..count] /\ pos[0] = message_left /\ pos[Len(w)] = count
      /\ \A k \in 1..Len(w) :
           /\ pos[k] = pos[k - 1] + MessageHeader + Len(w[k].data)
           /\ \A i \in 1..(MessageHeader + Len(w[k].data)) :
                CellIn(buffer, head, pos[k - 1] + i - 1) = Encode(w[k])[i]
  BY DEF Layout
<1>2. Len(w) \in Nat OBVIOUS
<1>3. \A k \in 1..Len(w) :
        /\ Encode(w[k]) \in Seq(Cells) /\ z(k) = MessageHeader + Len(w[k].data)
        /\ z(k) \in Nat /\ Len(w[k].data) \in Nat
  <2> SUFFICES ASSUME NEW k \in 1..Len(w)
               PROVE  /\ Encode(w[k]) \in Seq(Cells) /\ z(k) = MessageHeader + Len(w[k].data)
                      /\ z(k) \in Nat /\ Len(w[k].data) \in Nat
    OBVIOUS
  <2>1. w[k] \in Queued /\ Len(w[k].data) <= QueueSize OBVIOUS
  <2>2. Encode(w[k]) \in Seq(Cells) /\ Len(Encode(w[k])) = MessageHeader + Len(w[k].data)
    BY <2>1, EncodeFacts
  <2>3. Len(w[k].data) \in Nat BY <2>1 DEF Queued
  <2> QED BY <2>2, <2>3
<1> HIDE DEF z
<1>4. ASSUME NEW k \in 1..Len(w) PROVE pos[k] = pos[k - 1] + z(k)
  <2>1. k - 1 \in 0..Len(w) BY <1>2
  <2> DEFINE x == pos[k - 1]
             l == Len(w[k].data)
             y == z(k)
  <2>2. x \in 0..count /\ l \in Nat /\ y = MessageHeader + l
    BY <1>1, <1>3, <2>1
  <2>3. pos[k] = x + MessageHeader + l BY <1>1
  <2>4. count \in Nat /\ MessageHeader = 2 BY Sizes
  <2> HIDE DEF x, l, y
  <2>5. pos[k] = x + y BY ONLY <2>2, <2>3, <2>4
  <2> QED BY <2>5 DEF x, y
<1> HIDE DEF w
<1>5. pos = [k \in 0..Len(w) |-> IF k = 0 THEN message_left ELSE pos[k - 1] + z(k)]
  <2>1. ASSUME NEW k \in 0..Len(w)
        PROVE  pos[k] = IF k = 0 THEN message_left ELSE pos[k - 1] + z(k)
    <3>1. CASE k = 0 BY <1>1, <3>1
    <3>2. CASE k # 0
      <4>1. k \in 1..Len(w) BY <1>2, <3>2
      <4> QED BY <1>4, <3>2, <4>1
    <3> QED BY <3>1, <3>2
  <2> QED BY <1>1, <2>1
<1>6. f = [k \in 0..Len(w) |-> IF k = 0 THEN message_left ELSE f[k - 1] + z(k)]
  BY <1>5
<1> HIDE DEF f
<1>7. ASSUME NEW k \in 0..Len(w) PROVE f[k] = pos[k]
  <2> DEFINE D == {j \in 0..Len(w) : f[j] # pos[j]}
  <2>1. SUFFICES ASSUME D # {} PROVE FALSE
    OBVIOUS
  <2>2. D \in SUBSET Nat BY <1>2
  <2>3. PICK x \in D : \A y \in D : x <= y BY <2>1, <2>2, Least
  <2>4. CASE x = 0 BY <1>1, <1>2, <1>6, <2>4
  <2>5. CASE x # 0
    <3>1. x \in 0..Len(w) /\ x \in 1..Len(w) /\ x - 1 \in 0..Len(w) /\ x - 1 < x
      BY <1>2, <2>5
    <3>2. x - 1 \notin D BY <2>3, <3>1, <1>2
    <3>3. f[x - 1] = pos[x - 1] BY <3>1, <3>2
    <3>4. f[x] = f[x - 1] + z(x) BY <1>6, <2>5, <3>1
    <3>5. pos[x] = pos[x - 1] + z(x) BY <1>4, <3>1
    <3> QED BY <3>3, <3>4, <3>5
  <2> QED BY <2>4, <2>5
<1>8. f[Len(w)] = count BY <1>1, <1>2, <1>7
<1>9. ASSUME NEW k \in 1..Len(w) PROVE ring_read(f[k - 1], z(k)) = Encode(w[k])
  <2>1. k - 1 \in 0..Len(w) BY <1>2
  <2>2. f[k - 1] = pos[k - 1] BY <1>7, <2>1
  <2> DEFINE x == pos[k - 1]
             e == Encode(w[k])
             l == z(k)
  <2>3. x \in Nat /\ l \in Nat /\ head \in Nat /\ e \in Seq(Cells) /\ Len(e) = l
    <3>1. x \in 0..count BY <1>1, <2>1
    <3>2. head \in Nat /\ count \in Nat BY Sizes DEF Indices
    <3>3. l \in Nat /\ e \in Seq(Cells) BY <1>3
    <3>4. Len(e) = l BY DEF z
    <3> HIDE DEF x, e, l
    <3> QED BY <3>1, <3>2, <3>3, <3>4
  <2>4. \A i \in 1..l : CellIn(buffer, head, x + i - 1) = e[i]
    BY <1>1, <1>3
  <2> HIDE DEF x, e, l
  <2>5. ring_read(x, l) = [i \in 1..l |-> CellIn(buffer, head, x + i - 1)]
    BY <2>3, ReadFacts
  <2>6. e = [i \in 1..l |-> e[i]] BY <2>3
  <2>7. ring_read(x, l) = e BY <2>4, <2>5, <2>6
  <2> QED BY <2>2, <2>7 DEF x, e, l
<1>10. /\ f[Len(w)] = count
       /\ \A k \in 1..Len(w) : ring_read(f[k - 1], Len(Encode(w[k]))) = Encode(w[k])
  BY <1>8, <1>9 DEF z
<1> QED BY <1>10 DEF RingHoldsQueue, f, w, z

-----------------------------------------------------------------------------
(***************************************************************************)
(* The inductive invariant.  The ring is a layout of the waiting messages; *)
(* a packet that may be remembered starts with a frame; and whichever of   *)
(* the history's slots is the youngest under a number holds the last       *)
(* packet sent under it.                                                   *)
(***************************************************************************)
Kinds == Contents \cup {RawFrame}
Counts == 0..(SequenceCounts - 1)
Slots == 0..(HistorySize - 1)

Good(m) ==
  /\ m \in Queued /\ Len(m.data) >= 1 /\ Len(m.data) <= QueueSize
  /\ m.content = RawFrame => Len(m.data) <= MaxPayload + 1
  /\ m.content = Ssdv => Multiple(Len(m.data))

RingInv ==
  /\ buffer \in [Indices -> Cells] /\ head \in Indices /\ count \in 0..QueueSize
  /\ waiting \in Seq(Queued) /\ \A k \in 1..Len(waiting) : Good(waiting[k])
  /\ \E at : Layout(buffer, head, count, waiting, message_left, at)

BegunInv ==
  /\ content \in Kinds /\ message_left \in Nat
  /\ message_left # 0 => content # RawFrame
  /\ content = Ssdv => Multiple(message_left)

PacketInv ==
  /\ tx \in {"waiting", "sending"} /\ in_flight \in 0..(MaxPayload + 1)
  /\ tx = "waiting" <=> in_flight = 0
  /\ sequence \in [Contents -> Counts]
  /\ packet \in Seq(Cells) /\ Len(packet) <= MaxPayload + 1
  /\ framed \in BOOLEAN /\ sent \in BOOLEAN /\ attempts \in 0..SendAttempts
  /\ sent => tx = "sending"
  /\ tx = "sending" /\ content # RawFrame =>
       packet # <<>> /\ \E s \in Counts : packet[1] = <<"frame", content, s>>
  /\ tx = "sending" /\ ~framed => content = Compressed

Youngest(i, k) ==
  i \in Matches(k[1], k[2]) /\ \A j \in Matches(k[1], k[2]) : Age(i) <= Age(j)

MemoryInv ==
  /\ history \in [Slots -> Seq(Cells)] /\ history_next \in Slots
  /\ \A i \in Slots : Len(history[i]) <= MaxPayload + 1
  /\ latest \in [Numbers -> Seq(Cells)]
  /\ \A k \in Numbers, i \in Slots : Youngest(i, k) => history[i] = latest[k]

UserInv == thread_started \in BOOLEAN /\ accepted \in 0..MaxMessages

RInv == RingInv /\ BegunInv /\ PacketInv /\ MemoryInv /\ UserInv

AgeAt(next, i) == (next + HistorySize - 1 - i) % HistorySize

\* The age of a slot counts back from the one that is overwritten next; a step makes
\* that one the youngest, and every other older by one.
LEMMA AgeFacts ==
  ASSUME NEW next \in Slots, NEW i \in Slots
  PROVE  /\ AgeAt(next, i) \in Nat /\ AgeAt(next, i) <= AgeAt(next, next)
         /\ (next + 1) % HistorySize \in Slots
         /\ AgeAt((next + 1) % HistorySize, next) = 0
         /\ i # next => AgeAt((next + 1) % HistorySize, i) = AgeAt(next, i) + 1
<1> DEFINE H == HistorySize
           wrap(x) == x % H
           nx == wrap(next + 1)
<1>1. H \in Nat /\ H > 0 /\ next \in Nat /\ next < H /\ i \in Nat /\ i < H
  BY Sizes DEF Slots
<1>2. \A x \in Nat : /\ x < 2 * H => wrap(x) = IF x < H THEN x ELSE x - H
                     /\ wrap(x) \in 0..(H - 1)
  BY <1>1, ModFacts
<1> HIDE DEF wrap, H
<1>3. nx = IF next + 1 < H THEN next + 1 ELSE 0
  <2> DEFINE x == next + 1
  <2>1. x \in Nat /\ x < 2 * H /\ nx = wrap(x) /\ x <= H BY <1>1
  <2>2. x = next + 1 OBVIOUS
  <2> HIDE DEF x, nx
  <2>3. nx = IF x < H THEN x ELSE x - H BY <1>2, <2>1
  <2> QED BY <1>1, <2>1, <2>2, <2>3
<1> HIDE DEF nx
<1>4. nx \in Nat /\ nx < H BY <1>1, <1>3
<1>5. ASSUME NEW n \in Nat, n < H, NEW j \in Nat, j < H
      PROVE  wrap(n + H - 1 - j) = IF j < n THEN n - 1 - j ELSE n + H - 1 - j
  <2> DEFINE x == n + H - 1 - j
  <2>1. x \in Nat /\ x < 2 * H BY <1>1, <1>5
  <2>2. x = n + H - 1 - j OBVIOUS
  <2> HIDE DEF x
  <2>3. wrap(x) = IF x < H THEN x ELSE x - H BY <1>2, <2>1
  <2>4. wrap(x) = IF j < n THEN n - 1 - j ELSE n + H - 1 - j BY <1>1, <1>5, <2>1, <2>2, <2>3
  <2> QED BY <2>2, <2>4
<1> DEFINE age(n, j) == wrap(n + H - 1 - j)
<1>6. \A n, j \in Nat : n < H /\ j < H =>
        age(n, j) = IF j < n THEN n - 1 - j ELSE n + H - 1 - j
  BY <1>5
<1> HIDE DEF age
<1>7. /\ age(next, i) \in Nat /\ age(next, i) <= age(next, next)
      /\ age(nx, next) = 0 /\ (i # next => age(nx, i) = age(next, i) + 1)
  BY <1>1, <1>3, <1>4, <1>6
<1> QED BY <1>4, <1>1, <1>7 DEF age, AgeAt, wrap, H, nx, Slots

\* Among the slots that match, one is the youngest, and Newest chooses it.
LEMMA NewestFacts ==
  ASSUME history_next \in Slots, NEW k \in Numbers, Matches(k[1], k[2]) # {}
  PROVE  Newest(k[1], k[2]) \in Slots /\ Youngest(Newest(k[1], k[2]), k)
<1> DEFINE M == Matches(k[1], k[2])
           D == {Age(i) : i \in M}
<1>1. M \subseteq Slots BY DEF Matches, Slots
<1>2. \A i \in M : Age(i) \in Nat
  <2>1. \A i \in M : AgeAt(history_next, i) \in Nat BY <1>1, AgeFacts
  <2> QED BY <2>1 DEF Age, AgeAt
<1> HIDE DEF M
<1>3. M # {} BY DEF M
<1>4. D \in SUBSET Nat /\ D # {} BY <1>2, <1>3
<1>5. PICK x \in D : \A y \in D : x <= y BY <1>4, Least
<1>6. PICK i \in M : x = Age(i) OBVIOUS
<1>7. \A j \in M : Age(i) <= Age(j) BY <1>5, <1>6
<1>8. \E n \in M : \A j \in M : Age(n) <= Age(j) BY <1>7
<1>9. Newest(k[1], k[2]) = CHOOSE n \in M : \A j \in M : Age(n) <= Age(j) BY DEF Newest, M
<1> DEFINE n == Newest(k[1], k[2])
<1>10. n \in M /\ \A j \in M : Age(n) <= Age(j) BY <1>8, <1>9
<1> QED BY <1>1, <1>10 DEF Youngest, M

\* The invariant gives what the run checks.
LEMMA InvariantGivesQueue ==
  ASSUME RInv
  PROVE  QueueInv
<1> USE DEF RInv
<1>1. PICK at : Layout(buffer, head, count, waiting, message_left, at) BY DEF RingInv
<1>2. RingHoldsQueue
  <2>1. /\ head \in Indices /\ count \in 0..QueueSize /\ waiting \in Seq(Queued)
        /\ \A k \in 1..Len(waiting) : Len(waiting[k].data) <= QueueSize
    BY DEF RingInv, Good
  <2> QED BY <1>1, <2>1, LayoutHolds
<1>3. message_left \in 0..count /\ (count = 0 <=> waiting = <<>> /\ message_left = 0)
  <2>1. count \in 0..QueueSize /\ waiting \in Seq(Queued) BY DEF RingInv
  <2> QED BY <1>1, <2>1, LayoutEmpty
<1>4. TypeOK
  <2>1. /\ buffer \in [Indices -> Cells] /\ head \in Indices /\ count \in 0 .. QueueSize
        /\ message_left \in 0 .. count
    BY <1>3 DEF RingInv
  <2>2. /\ in_flight \in 0 .. MaxPayload + 1 /\ tx \in {"waiting", "sending"}
        /\ sequence \in [Contents -> 0 .. SequenceCounts - 1]
        /\ Len(packet) <= MaxPayload + 1 /\ framed \in BOOLEAN /\ sent \in BOOLEAN
        /\ attempts \in 0 .. SendAttempts
    BY DEF PacketInv, Counts
  <2>3. /\ \A i \in 0 .. HistorySize - 1 : Len(history[i]) <= MaxPayload + 1
        /\ history_next \in 0 .. HistorySize - 1
    BY DEF MemoryInv, Slots
  <2>4. thread_started \in BOOLEAN /\ accepted \in 0 .. MaxMessages BY DEF UserInv
  <2>5. content \in Contents \cup {RawFrame} BY DEF BegunInv, Kinds
  <2> QED BY <2>1, <2>2, <2>3, <2>4, <2>5 DEF TypeOK
<1>5. PendingIsHonest
  <2>1. count \in Nat /\ in_flight \in Nat /\ (tx = "waiting" <=> in_flight = 0)
    BY Sizes DEF RingInv, PacketInv
  <2>2. count + in_flight = 0 <=> count = 0 /\ in_flight = 0 BY <2>1
  <2> QED BY <1>3, <2>1, <2>2 DEF PendingIsHonest, radio_queue_pending
<1>6. AcceptedIsFramed BY DEF AcceptedIsFramed, PacketInv
<1>7. ResendIsLatest
  <2> SUFFICES ASSUME NEW k \in Numbers, Matches(k[1], k[2]) # {}
               PROVE  history[Newest(k[1], k[2])] = latest[k]
    BY DEF ResendIsLatest
  <2>1. history_next \in Slots BY DEF MemoryInv
  <2>2. Newest(k[1], k[2]) \in Slots /\ Youngest(Newest(k[1], k[2]), k)
    BY <2>1, NewestFacts
  <2> HIDE DEF RInv
  <2> QED BY <2>2 DEF RInv, MemoryInv
<1> QED BY <1>2, <1>4, <1>5, <1>6, <1>7 DEF QueueInv

\* The queue starts empty.
LEMMA InitInv ==
  ASSUME Init
  PROVE  RInv
<1> USE Sizes
<1>1. RingInv
  <2>1. buffer \in [Indices -> Cells]
    <3>1. <<"empty">> \in Cells BY DEF Cells
    <3> QED BY <3>1 DEF Init
  <2>2. head \in Indices /\ count \in 0..QueueSize BY DEF Init, Indices
  <2>3. waiting = <<>> /\ waiting \in Seq(Queued) /\ Len(waiting) = 0 BY DEF Init
  <2>4. head = 0 /\ count = 0 /\ message_left = 0 BY DEF Init
  <2> DEFINE at == [k \in 0..0 |-> 0]
  <2>5. at \in [0..0 -> 0..0] /\ at[0] = 0 /\ 1..0 = {} /\ \A j \in 0..0 : at[j] = 0 OBVIOUS
  <2> HIDE DEF at
  <2>6. Layout(buffer, head, count, waiting, message_left, at)
    BY <2>3, <2>4, <2>5 DEF Layout
  <2> QED BY <2>1, <2>2, <2>3, <2>6 DEF RingInv
<1>2. BegunInv BY DEF BegunInv, Init, Kinds
<1>3. PacketInv
  <2>1. packet = <<>> /\ packet \in Seq(Cells) /\ Len(packet) = 0 BY DEF Init
  <2>2. sequence \in [Contents -> Counts] BY DEF Init, Counts
  <2>3. /\ tx = "waiting" /\ in_flight = 0 /\ framed = FALSE /\ sent = FALSE /\ attempts = 0
    BY DEF Init
  <2>4. 0 \in 0..(MaxPayload + 1) /\ 0 \in 0..SendAttempts /\ Len(packet) <= MaxPayload + 1
    BY <2>1
  <2>5. ~(tx = "sending") /\ ~sent BY <2>3
  <2> QED BY <2>1, <2>2, <2>3, <2>4, <2>5 DEF PacketInv
<1>4. MemoryInv
  <2>1. /\ history \in [Slots -> Seq(Cells)] /\ \A i \in Slots : history[i] = Never
        /\ latest \in [Numbers -> Seq(Cells)] /\ history_next \in Slots
    BY DEF Init, Slots, Never
  <2>2. Len(Never) = 0 BY DEF Never
  <2>3. \A k \in Numbers : Matches(k[1], k[2]) = {} BY <2>1 DEF Matches, Slots
  <2>4. \A i \in Slots : Len(history[i]) <= MaxPayload + 1 BY <2>1, <2>2
  <2>5. \A k \in Numbers, i \in Slots : ~Youngest(i, k) BY <2>3 DEF Youngest
  <2> QED BY <2>1, <2>4, <2>5 DEF MemoryInv
<1>5. UserInv
  <2>1. thread_started = FALSE /\ accepted = 0 BY DEF Init
  <2>2. accepted \in 0..MaxMessages BY <2>1
  <2>3. thread_started \in BOOLEAN BY <2>1
  <2> QED BY <2>2, <2>3 DEF UserInv
<1> QED BY <1>1, <1>2, <1>3, <1>4, <1>5 DEF RInv

\* A message pushed, by a user or as a resend, keeps the ring a layout.
LEMMA PushKeepsRing ==
  ASSUME RingInv, message_left' = message_left, NEW c \in Kinds, NEW data \in Seq(Cells),
         Fits(Len(data)), Good(Message(c, data)), push_locked(c, data)
  PROVE  RingInv'
<1> DEFINE m == Message(c, data)
           n == count + MessageHeader + Len(data)
<1>1. m \in Queued /\ m.data = data /\ Len(data) \in Nat /\ Len(m.data) <= QueueSize
  BY DEF Good, Message
<1>2. n \in 0..QueueSize /\ n \in Nat /\ Len(data) + count <= QueueSize
  <2>1. Len(data) + MessageHeader <= QueueSize - count BY DEF Fits
  <2>2. count \in 0..QueueSize /\ QueueSize \in Nat /\ MessageHeader = 2
    BY Sizes DEF RingInv
  <2> DEFINE l == Len(data)
  <2>3. l \in Nat /\ l + MessageHeader <= QueueSize - count BY <1>1, <2>1
  <2> HIDE DEF l
  <2>4. count + MessageHeader + l \in 0..QueueSize /\ l + count <= QueueSize
    BY ONLY <2>2, <2>3
  <2> QED BY <2>2, <2>4 DEF l
<1>3. PICK at : Layout(buffer, head, count, waiting, message_left, at) BY DEF RingInv
<1>4. /\ buffer' = ring_write(Encode(m)) /\ count' = n /\ waiting' = Append(waiting, m)
      /\ head' = head
  BY DEF push_locked
<1>5. n = count + MessageHeader + Len(m.data) BY <1>1
<1>6. /\ buffer \in [Indices -> Cells] /\ head \in Indices /\ count \in 0..QueueSize
      /\ waiting \in Seq(Queued) /\ \A k \in 1..Len(waiting) : Good(waiting[k])
  BY DEF RingInv
<1> HIDE DEF n
<1>7. \E at2 : Layout(buffer', head', count', waiting', message_left', at2)
  <2> HIDE DEF m
  <2>1. \E at2 : Layout(ring_write(Encode(m)), head, n, Append(waiting, m), message_left, at2)
    BY <1>1, <1>2, <1>3, <1>5, <1>6, LayoutPush
  <2> QED BY <1>4, <2>1
<1>8. ring_write(Encode(m)) \in [Indices -> Cells]
  <2> HIDE DEF m
  <2>1. Encode(m) \in Seq(Cells) /\ Len(Encode(m)) = MessageHeader + Len(m.data)
    BY <1>1, EncodeFacts
  <2>2. Len(Encode(m)) + count <= QueueSize
    <3> DEFINE l == Len(Encode(m))
               z == Len(m.data)
    <3>1. l = MessageHeader + z /\ n = count + MessageHeader + z /\ z \in Nat
      BY <1>1, <1>5, <2>1
    <3>2. count \in Nat /\ MessageHeader = 2 /\ n <= QueueSize /\ QueueSize \in Nat /\ n \in Nat
      BY <1>2, <1>6, Sizes
    <3> HIDE DEF l, z
    <3>3. l + count <= QueueSize BY ONLY <3>1, <3>2
    <3> QED BY <3>3 DEF l
  <2> QED BY <1>6, <2>1, <2>2, WriteFacts
<1>9. waiting' \in Seq(Queued) /\ \A k \in 1..Len(waiting') : Good(waiting'[k])
  <2> HIDE DEF m
  <2>1. /\ Append(waiting, m) \in Seq(Queued) /\ Len(waiting) \in Nat
        /\ Len(Append(waiting, m)) = Len(waiting) + 1
        /\ \A i \in 1..Len(waiting) : Append(waiting, m)[i] = waiting[i]
        /\ Append(waiting, m)[Len(waiting) + 1] = m
    BY <1>1, <1>6, AppendFacts
  <2>2. Good(m) BY DEF m
  <2>3. ASSUME NEW k \in 1..(Len(waiting) + 1) PROVE Good(Append(waiting, m)[k])
    <3>1. CASE k = Len(waiting) + 1 BY <2>1, <2>2, <3>1
    <3>2. CASE k \in 1..Len(waiting) BY <1>6, <2>1, <3>2
    <3> QED BY <2>1, <3>1, <3>2
  <2> QED BY <1>4, <2>1, <2>3
<1>10. (\A k \in 1..Len(waiting) : Good(waiting[k]))' BY <1>9 DEF Good, Queued, Multiple, Cells
<1> QED BY <1>2, <1>4, <1>6, <1>7, <1>8, <1>9, <1>10 DEF RingInv, Indices, Layout, CellIn

-----------------------------------------------------------------------------
(***************************************************************************)
(* The thread's section under the lock.  Whether it goes on with a message *)
(* or begins one, there is a message m of which it cuts off the first n    *)
(* bytes; what is left of m is at the head of the ring afterwards.         *)
(***************************************************************************)
Rest == Message(content, ring_read(0, message_left))

Cut(m, n) ==
  /\ Good(m) /\ n \in 1..Len(m.data)
  /\ n = IF m.content = RawFrame THEN Len(m.data) ELSE Chunk(Len(m.data))
  /\ content' = m.content /\ message_left' = Len(m.data) - n /\ in_flight' = n
  /\ \/ m.content = RawFrame /\ packet' = m.data /\ framed' = TRUE /\ sequence' = sequence
     \/ /\ m.content # RawFrame
        /\ packet' = <<<<"frame", m.content, sequence[m.content]>>>> \o SubSeq(m.data, 1, n)
        /\ framed' = profile_build_ok(m.content, SubSeq(m.data, 1, n))
        /\ sequence' = [sequence EXCEPT ![m.content] = (@ + 1) % SequenceCounts]
  /\ head' \in Indices /\ count' \in 0..QueueSize
  /\ \E at : Layout(buffer, head', count', waiting', message_left', at)
  /\ \A j \in 1..message_left' : CellIn(buffer, head', j - 1) = m.data[n + j]

\* A cell of the ring is a cell.
LEMMA CellFacts ==
  ASSUME buffer \in [Indices -> Cells], head \in Indices, NEW j \in Nat
  PROVE  CellIn(buffer, head, j) \in Cells
<1> DEFINE x == head + j
<1>1. x \in Nat /\ QueueSize \in Nat /\ QueueSize > 0 BY Sizes DEF Indices
<1> HIDE DEF x
<1>2. x % QueueSize \in Indices BY <1>1, ModFacts DEF Indices
<1> QED BY <1>2 DEF x, CellIn

\* A chunk is a part of what is left, and never nothing.
LEMMA ChunkFacts ==
  ASSUME NEW l \in Nat, l >= 1
  PROVE  Chunk(l) \in 1..l /\ Chunk(l) <= MaxPayload
  BY Sizes DEF Chunk

\* The thread goes on with the message under way.
LEMMA TakeMore ==
  ASSUME RInv, Take, message_left # 0
  PROVE  Cut(Rest, Chunk(message_left)) /\ waiting' = waiting
<1> DEFINE n == Chunk(message_left)
           l == message_left
           d == ring_read(0, l)
           m == Rest
<1>1. /\ buffer \in [Indices -> Cells] /\ head \in Indices /\ count \in 0..QueueSize
      /\ waiting \in Seq(Queued) /\ head \in Nat /\ count \in Nat
  BY Sizes DEF RInv, RingInv, Indices
<1>2. PICK at : Layout(buffer, head, count, waiting, l, at) BY DEF RInv, RingInv
<1>3. l \in Nat /\ l >= 1 /\ l <= count /\ content # RawFrame /\ content \in Kinds
      /\ (content = Ssdv => Multiple(l))
  <2>1. l \in 0..count BY <1>1, <1>2, LayoutEmpty
  <2> QED BY <1>1, <2>1 DEF RInv, BegunInv
<1>4. n \in 1..l /\ n \in Nat /\ n <= l /\ n >= 1 BY <1>3, ChunkFacts
<1> HIDE DEF l, n
<1>5. d = [i \in 1..l |-> CellIn(buffer, head, 0 + i - 1)] BY <1>1, <1>3, ReadFacts
<1>6. d \in Seq(Cells) /\ Len(d) = l /\ \A i \in 1..l : d[i] = CellIn(buffer, head, i - 1)
  <2>1. \A i \in 1..l : i - 1 \in Nat /\ 0 + i - 1 = i - 1 BY <1>3
  <2>2. \A i \in 1..l : CellIn(buffer, head, i - 1) \in Cells BY <1>1, <2>1, CellFacts
  <2>3. d \in [1..l -> Cells] BY <1>5, <2>1, <2>2
  <2>4. \A i \in 1..l : d[i] = CellIn(buffer, head, i - 1) BY <1>5, <2>1
  <2> HIDE DEF d
  <2> QED BY <1>3, <2>3, <2>4, SeqFacts
<1>7. ring_read(0, n) = SubSeq(d, 1, n)
  <2>1. ring_read(0, n) = [i \in 1..n |-> CellIn(buffer, head, 0 + i - 1)]
    BY <1>1, <1>4, ReadFacts
  <2>2. \A i \in 1..n : i \in 1..l BY <1>3, <1>4
  <2> HIDE DEF d
  <2>3. SubSeq(d, 1, n) = [i \in 1..n |-> d[i]] BY <1>3, <1>4, <1>6, CutFacts
  <2>4. \A i \in 1..n : d[i] = CellIn(buffer, head, 0 + i - 1) BY <1>5, <2>2 DEF d
  <2> QED BY <2>1, <2>3, <2>4
<1>8. m.content = content /\ m.data = d BY DEF Rest, Message, l
<1>9. m = [content |-> content, data |-> d] BY DEF Rest, Message, l
<1> HIDE DEF m, d
<1>10. Good(m)
  <2>1. m \in Queued BY <1>3, <1>6, <1>9 DEF Queued, Kinds
  <2>2. l <= QueueSize BY <1>1, <1>3, Sizes
  <2> QED BY <1>3, <1>6, <1>8, <2>1, <2>2 DEF Good
<1>11. /\ head' = (head + 0 + n) % QueueSize /\ count' = count - 0 - n /\ waiting' = waiting
       /\ content' = content /\ message_left' = l - n /\ in_flight' = n
       /\ packet' = <<<<"frame", content, sequence[content]>>>> \o ring_read(0, n)
       /\ framed' = profile_build_ok(content, ring_read(0, n))
       /\ sequence' = [sequence EXCEPT ![content] = (@ + 1) % SequenceCounts]
  BY <1>3 DEF Take, l, n
<1>12. head' = (head + n) % QueueSize /\ count' = count - n
  <2>1. head + 0 + n = head + n /\ count - 0 - n = count - n BY <1>1, <1>4
  <2> QED BY <1>11, <2>1
<1>13. head' \in Indices /\ \A j \in 1..(l - n) : CellIn(buffer, head', j - 1) = d[n + j]
  <2>1. n \in 0..QueueSize /\ n + 0 <= QueueSize BY <1>1, <1>3, <1>4, Sizes
  <2>2. (head + n) % QueueSize \in Indices
    <3> DEFINE x == head + n
    <3>1. x \in Nat /\ QueueSize \in Nat /\ QueueSize > 0 BY <1>1, <1>4, Sizes
    <3> HIDE DEF x
    <3>2. x % QueueSize \in Indices BY <3>1, ModFacts DEF Indices
    <3> QED BY <3>2 DEF x
  <2>3. ASSUME NEW j \in 1..(l - n)
        PROVE  CellIn(buffer, (head + n) % QueueSize, j - 1) = d[n + j]
    <3>1. /\ j - 1 \in Nat /\ n + (j - 1) < QueueSize /\ n + j \in 1..l
          /\ n + (j - 1) = (n + j) - 1
      BY <1>1, <1>3, <1>4, Sizes
    <3> DEFINE y == j - 1
    <3>2. y \in Nat /\ n + y < QueueSize BY <3>1
    <3> HIDE DEF y
    <3>3. CellIn(buffer, (head + n) % QueueSize, y) = CellIn(buffer, head, n + y)
      BY <1>1, <2>1, <3>2, ShiftFacts
    <3>4. d[n + j] = CellIn(buffer, head, (n + j) - 1) BY <1>6, <3>1
    <3> QED BY <3>1, <3>3, <3>4 DEF y
  <2> QED BY <1>12, <2>2, <2>3
<1>14. \E at2 : Layout(buffer, head', count', waiting', message_left', at2)
  <2>1. n \in 0..l BY <1>3, <1>4
  <2>2. \E at2 : Layout(buffer, (head + n) % QueueSize, count - n, waiting, l - n, at2)
    BY <1>1, <1>2, <1>3, <2>1, LayoutMore
  <2> QED BY <1>11, <1>12, <2>2
<1>15. count' \in 0..QueueSize BY <1>1, <1>3, <1>4, <1>12, Sizes
<1>16. n = IF m.content = RawFrame THEN Len(m.data) ELSE Chunk(Len(m.data))
  BY <1>3, <1>6, <1>8 DEF n, l
<1>17. Cut(m, n)
  BY <1>3, <1>4, <1>6, <1>7, <1>8, <1>10, <1>11, <1>13, <1>14, <1>15, <1>16 DEF Cut
<1> QED BY <1>11, <1>17 DEF m, n

\* The thread begins the first of the waiting messages.
LEMMA TakeNew ==
  ASSUME RInv, Take, message_left = 0
  PROVE  /\ waiting # <<>> /\ waiting' = Tail(waiting)
         /\ \E n \in Nat : Cut(waiting[1], n)
<1> DEFINE m == waiting[1]
           l == Len(m.data)
           n == IF m.content = RawFrame THEN l ELSE Chunk(l)
           d == MessageHeader + n
<1>1. /\ buffer \in [Indices -> Cells] /\ head \in Indices /\ count \in 0..QueueSize
      /\ waiting \in Seq(Queued) /\ head \in Nat /\ count \in Nat
  BY Sizes DEF RInv, RingInv, Indices
<1>2. PICK at : Layout(buffer, head, count, waiting, 0, at) BY DEF RInv, RingInv
<1>3. waiting # <<>>
  <2>1. count # 0 BY DEF Take
  <2> QED BY <1>1, <1>2, <2>1, LayoutEmpty
<1>4. Good(m) /\ m \in Queued
  <2>1. 1 \in 1..Len(waiting) BY <1>1, <1>3
  <2> QED BY <2>1 DEF RInv, RingInv, Good
<1>5. l \in Nat /\ l >= 1 /\ l <= QueueSize /\ m.data \in Seq(Cells) BY <1>4 DEF Good, Queued
<1>6. n \in 1..l /\ n \in Nat /\ n <= l /\ n >= 1
  <2> HIDE DEF l
  <2> QED BY <1>5, ChunkFacts
<1>7. /\ MessageHeader + l <= count
      /\ \A i \in 1..(MessageHeader + l) : CellIn(buffer, head, i - 1) = Encode(m)[i]
      /\ \A x \in MessageHeader..(MessageHeader + l) : \E at2 :
           Layout(buffer, (head + x) % QueueSize, count - x, Tail(waiting),
                  MessageHeader + l - x, at2)
  BY <1>1, <1>2, <1>3, LayoutBegin
<1>8. /\ Encode(m)[1] = <<"type", m.content>> /\ Encode(m)[2] = <<"length", l>>
      /\ \A i \in 1..l : Encode(m)[i + MessageHeader] = m.data[i]
  BY <1>4, <1>5, EncodeFacts
<1> HIDE DEF m, l, n
<1>9. MessageHeader = 2 /\ QueueSize \in Nat /\ QueueSize > 0 BY Sizes
<1>10. /\ CellIn(buffer, head, 0) = <<"type", m.content>>
       /\ CellIn(buffer, head, 1) = <<"length", l>>
       /\ \A i \in 1..l : CellIn(buffer, head, MessageHeader + i - 1) = m.data[i]
  <2>1. 1 \in 1..(MessageHeader + l) /\ 2 \in 1..(MessageHeader + l) /\ 1 - 1 = 0 /\ 2 - 1 = 1
    BY <1>5, <1>9
  <2>2. CellIn(buffer, head, 1 - 1) = Encode(m)[1] /\ CellIn(buffer, head, 2 - 1) = Encode(m)[2]
    BY <1>7, <2>1
  <2>3. ASSUME NEW i \in 1..l PROVE CellIn(buffer, head, MessageHeader + i - 1) = m.data[i]
    <3>1. i + MessageHeader \in 1..(MessageHeader + l)
          /\ (i + MessageHeader) - 1 = MessageHeader + i - 1
      BY <1>5, <1>9
    <3>2. CellIn(buffer, head, (i + MessageHeader) - 1) = Encode(m)[i + MessageHeader]
      BY <1>7, <3>1
    <3> QED BY <1>8, <3>1, <3>2
  <2> QED BY <1>8, <2>1, <2>2, <2>3
<1> DEFINE hd == ring_read(0, MessageHeader)
<1>11. hd[1][2] = m.content /\ hd[2][2] = l
  <2>1. hd = [i \in 1..MessageHeader |-> CellIn(buffer, head, 0 + i - 1)]
    BY <1>1, <1>9, ReadFacts
  <2>2. 1 \in 1..MessageHeader /\ 2 \in 1..MessageHeader /\ 0 + 1 - 1 = 0 /\ 0 + 2 - 1 = 1
    BY <1>9
  <2> HIDE DEF hd
  <2>3. hd[1] = CellIn(buffer, head, 0) /\ hd[2] = CellIn(buffer, head, 1) BY <2>1, <2>2
  <2>4. hd[1] = <<"type", m.content>> /\ hd[2] = <<"length", l>> BY <1>10, <2>3
  <2> QED BY <2>4
<1>12. ring_read(MessageHeader, n) = SubSeq(m.data, 1, n)
  <2>1. ring_read(MessageHeader, n) = [i \in 1..n |-> CellIn(buffer, head, MessageHeader + i - 1)]
    <3>1. head \in Nat /\ MessageHeader \in Nat /\ n \in Nat BY <1>1, <1>6, <1>9
    <3> QED BY <3>1, ReadFacts
  <2>2. \A i \in 1..n : i \in 1..l BY <1>5, <1>6
  <2>3. SubSeq(m.data, 1, n) = [i \in 1..n |-> m.data[i]]
    <3>1. n \in 0..Len(m.data) BY <1>5, <1>6 DEF l
    <3> QED BY <1>5, <3>1, CutFacts
  <2> QED BY <1>10, <2>1, <2>2, <2>3
<1> HIDE DEF hd
<1>13. /\ head' = (head + MessageHeader + n) % QueueSize /\ count' = count - MessageHeader - n
       /\ waiting' = Tail(waiting)
       /\ content' = m.content /\ message_left' = l - n /\ in_flight' = n
       /\ \/ /\ m.content = RawFrame /\ packet' = ring_read(MessageHeader, n)
             /\ framed' = TRUE /\ sequence' = sequence
          \/ /\ m.content # RawFrame
             /\ packet' = <<<<"frame", m.content, sequence[m.content]>>>>
                          \o ring_read(MessageHeader, n)
             /\ framed' = profile_build_ok(m.content, ring_read(MessageHeader, n))
             /\ sequence' = [sequence EXCEPT ![m.content] = (@ + 1) % SequenceCounts]
  BY <1>11 DEF Take, n, hd
<1>14. /\ d \in Nat /\ d \in MessageHeader..(MessageHeader + l) /\ d <= count
       /\ head + MessageHeader + n = head + d /\ count - MessageHeader - n = count - d
       /\ MessageHeader + l - d = l - n /\ d \in 0..QueueSize
  BY <1>1, <1>5, <1>6, <1>7, <1>9
<1>15. d = MessageHeader + n OBVIOUS
<1> HIDE DEF d
<1>16. head' = (head + d) % QueueSize /\ count' = count - d BY <1>13, <1>14
<1>17. head' \in Indices /\ \A j \in 1..(l - n) : CellIn(buffer, head', j - 1) = m.data[n + j]
  <2>2. (head + d) % QueueSize \in Indices
    <3> DEFINE x == head + d
    <3>1. x \in Nat BY <1>1, <1>14
    <3> HIDE DEF x
    <3>2. x % QueueSize \in Indices BY <1>9, <3>1, ModFacts DEF Indices
    <3> QED BY <3>2 DEF x
  <2>3. ASSUME NEW j \in 1..(l - n)
        PROVE  CellIn(buffer, (head + d) % QueueSize, j - 1) = m.data[n + j]
    <3> DEFINE y == j - 1
    <3>1. /\ y \in Nat /\ d + y < QueueSize /\ n + j \in 1..l
          /\ d + y = MessageHeader + (n + j) - 1
      BY <1>1, <1>5, <1>6, <1>7, <1>9, <1>15
    <3> HIDE DEF y
    <3>3. CellIn(buffer, (head + d) % QueueSize, y) = CellIn(buffer, head, d + y)
      <4>1. d \in 0..QueueSize /\ head \in Indices /\ y \in Nat /\ d + y < QueueSize
        BY <1>1, <1>14, <3>1
      <4> HIDE DEF RInv, Take
      <4> QED BY ONLY <4>1, ShiftFacts
    <3>4. m.data[n + j] = CellIn(buffer, head, MessageHeader + (n + j) - 1) BY <1>10, <3>1
    <3> QED BY <3>1, <3>3, <3>4 DEF y
  <2> QED BY <1>16, <2>2, <2>3
<1>18. \E at2 : Layout(buffer, head', count', waiting', message_left', at2)
  <2>1. \E at2 : Layout(buffer, (head + d) % QueueSize, count - d, Tail(waiting),
                        MessageHeader + l - d, at2)
    BY <1>7, <1>14
  <2>2. message_left' = MessageHeader + l - d BY <1>13, <1>14
  <2> QED BY <1>13, <1>16, <2>1, <2>2
<1>19. count' \in 0..QueueSize BY <1>1, <1>9, <1>14, <1>16
<1>20. m.content = RawFrame => n = l /\ ring_read(MessageHeader, n) = m.data
  <2> SUFFICES ASSUME m.content = RawFrame
               PROVE  n = l /\ ring_read(MessageHeader, n) = m.data
    OBVIOUS
  <2>1. n = l BY DEF n
  <2>2. SubSeq(m.data, 1, Len(m.data)) = m.data BY <1>5
  <2> QED BY <1>12, <2>1, <2>2 DEF l
<1>21. Cut(m, n)
  <2>1. n = IF m.content = RawFrame THEN Len(m.data) ELSE Chunk(Len(m.data)) BY DEF n, l
  <2>2. n \in 1..Len(m.data) /\ message_left' = Len(m.data) - n BY <1>6, <1>13 DEF l
  <2>3. \A j \in 1..message_left' : CellIn(buffer, head', j - 1) = m.data[n + j]
    BY <1>13, <1>17
  <2> QED BY <1>4, <1>12, <1>13, <1>17, <1>18, <1>19, <1>20, <2>1, <2>2, <2>3 DEF Cut
<1> QED BY <1>3, <1>6, <1>13, <1>21 DEF m

\* A packet: its frame and its payload.
LEMMA FrameFacts ==
  ASSUME NEW c \in Contents, NEW s \in Counts, NEW q \in Seq(Cells)
  PROVE  LET p == <<<<"frame", c, s>>>> \o q
         IN  p \in Seq(Cells) /\ Len(p) = Len(q) + 1 /\ p # <<>> /\ p[1] = <<"frame", c, s>>
<1> DEFINE a == <<"frame", c, s>>
<1>1. a \in Cells
  <2>1. a \in {<<"frame", x, y>> : x \in Contents, y \in 0 .. SequenceCounts - 1}
    BY DEF Counts
  <2> HIDE DEF a
  <2> QED BY <2>1 DEF Cells
<1> HIDE DEF a
<1>2. <<a>> \o q \in Seq(Cells) /\ Len(<<a>> \o q) = Len(q) + 1 /\ (<<a>> \o q)[1] = a
  BY <1>1
<1>3. <<a>> \o q # <<>> BY <1>2
<1> QED BY <1>2, <1>3 DEF a

\* After the cut, what is left can still be cut, and the packet fits and was framed
\* unless its type needs a parameter.
LEMMA CutKeeps ==
  ASSUME RInv, NEW m, NEW n, Cut(m, n), tx' = "sending", attempts' = 0, sent' = FALSE
  PROVE  BegunInv' /\ PacketInv'
<1> DEFINE l == Len(m.data)
           q == SubSeq(m.data, 1, n)
<1>1. /\ m \in Queued /\ m.content \in Kinds /\ m.data \in Seq(Cells) /\ l \in Nat /\ l >= 1
      /\ (m.content = RawFrame => l <= MaxPayload + 1)
      /\ (m.content = Ssdv => Multiple(l))
  BY DEF Cut, Good, Queued, Kinds
<1>2. /\ n \in 1..l /\ n = IF m.content = RawFrame THEN l ELSE Chunk(l)
      /\ content' = m.content /\ message_left' = l - n /\ in_flight' = n
  BY DEF Cut
<1>3. q \in Seq(Cells) /\ Len(q) = n
  <2>1. n \in 0..Len(m.data) BY <1>1, <1>2
  <2>2. q \in Seq(Cells) BY <1>1, <2>1, CutFacts
  <2>3. q = [i \in 1..n |-> m.data[i]] BY <1>1, <2>1, CutFacts
  <2>4. n \in Nat BY <1>1, <2>1
  <2> QED BY <2>2, <2>3, <2>4
<1>4. MaxPayload \in Nat /\ MaxPayload > 0 /\ SendAttempts \in Nat /\ RawFrame \notin Contents
      /\ Ssdv \in Contents
  BY Sizes
<1> HIDE DEF l, q
<1>5. m.content # RawFrame => n <= MaxPayload BY <1>1, <1>2, ChunkFacts
<1>6. m.content = Ssdv => n = MaxPayload /\ Multiple(l - n)
  <2> SUFFICES ASSUME m.content = Ssdv PROVE n = MaxPayload /\ Multiple(l - n)
    OBVIOUS
  <2>1. l >= MaxPayload /\ Multiple(l - MaxPayload) BY <1>1, MultipleFacts
  <2>2. n = Chunk(l) BY <1>2, <1>4
  <2>3. n = MaxPayload BY <1>1, <1>4, <2>1, <2>2 DEF Chunk
  <2> QED BY <2>1, <2>3
<1>7. BegunInv'
  <2>1. l - n \in Nat /\ (l - n # 0 => m.content # RawFrame) BY <1>1, <1>2
  <2> QED BY <1>1, <1>2, <1>6, <2>1 DEF BegunInv, Kinds, Multiple
<1>8. sequence \in [Contents -> Counts] BY DEF RInv, PacketInv
<1>9. n \in 0..(MaxPayload + 1) /\ n # 0 BY <1>1, <1>2, <1>4, <1>5
<1>10. \/ m.content = RawFrame /\ packet' = m.data /\ framed' = TRUE /\ sequence' = sequence
       \/ /\ m.content # RawFrame
          /\ packet' = <<<<"frame", m.content, sequence[m.content]>>>> \o q
          /\ framed' = profile_build_ok(m.content, q)
          /\ sequence' = [sequence EXCEPT ![m.content] = (@ + 1) % SequenceCounts]
  BY DEF Cut, q
<1>11. CASE m.content = RawFrame
  <2>1. packet' = m.data /\ framed' = TRUE /\ sequence' = sequence BY <1>10, <1>11
  <2>2. packet' \in Seq(Cells) /\ Len(packet') <= MaxPayload + 1 BY <1>1, <1>11, <2>1 DEF l
  <2>3. framed' \in BOOLEAN /\ framed' BY <2>1
  <2>4. sequence' \in [Contents -> Counts] BY <1>8, <2>1
  <2>5. tx' # "waiting" /\ in_flight' # 0 /\ in_flight' \in 0..(MaxPayload + 1) BY <1>2, <1>9
  <2>6. attempts' \in 0..SendAttempts BY <1>4
  <2>7. sent' \in BOOLEAN /\ ~sent' OBVIOUS
  <2>8. content' = RawFrame BY <1>2, <1>11
  <2>9. tx' \in {"waiting", "sending"} /\ (tx' = "waiting" <=> in_flight' = 0) BY <2>5
  <2>10. ~(tx' = "sending" /\ content' # RawFrame) BY <2>8
  <2>11. ~(tx' = "sending" /\ ~framed') BY <2>3
  <2>12. sent' => tx' = "sending" BY <2>7
  <2> QED BY ONLY <1>7, <2>2, <2>3, <2>4, <2>5, <2>6, <2>7, <2>9, <2>10, <2>11, <2>12 DEF PacketInv
<1>12. CASE m.content # RawFrame
  <2> DEFINE c == m.content
             s == sequence[c]
  <2>1. c \in Contents BY <1>1, <1>12 DEF Kinds
  <2>2. s \in Counts BY <1>8, <2>1
  <2>3. /\ packet' = <<<<"frame", c, s>>>> \o q
        /\ framed' = profile_build_ok(c, q)
        /\ sequence' = [sequence EXCEPT ![c] = (@ + 1) % SequenceCounts]
    BY <1>10, <1>12
  <2> HIDE DEF c, s
  <2>4. packet' \in Seq(Cells) /\ Len(packet') = n + 1 /\ packet' # <<>>
        /\ packet'[1] = <<"frame", c, s>>
    BY <1>3, <2>1, <2>2, <2>3, FrameFacts
  <2>5. Len(packet') <= MaxPayload + 1
    <3>1. n \in Nat /\ n <= MaxPayload BY <1>5, <1>9, <1>12, <1>4
    <3> QED BY <1>4, <2>4, <3>1
  <2>6. framed' \in BOOLEAN /\ (~framed' => c = Compressed)
    <3>1. c # Compressed => profile_build_ok(c, q) BY <1>3, <1>6 DEF profile_build_ok, c
    <3>2. profile_build_ok(c, q) \in BOOLEAN BY DEF profile_build_ok
    <3> QED BY <2>3, <3>1, <3>2
  <2>7. sequence' \in [Contents -> Counts]
    <3>1. SequenceCounts \in Nat /\ SequenceCounts > 0 BY Sizes
    <3>2. sequence[c] + 1 \in Nat BY <1>8, <2>1, <3>1 DEF Counts
    <3>3. (sequence[c] + 1) % SequenceCounts \in Counts
      <4> DEFINE x == sequence[c] + 1
      <4> HIDE DEF x
      <4>1. x % SequenceCounts \in Counts BY <3>1, <3>2, ModFacts DEF Counts, x
      <4> QED BY <4>1 DEF x
    <3> QED BY <1>8, <2>1, <2>3, <3>3
  <2>8. tx' # "waiting" /\ in_flight' # 0 /\ in_flight' \in 0..(MaxPayload + 1) BY <1>2, <1>9
  <2>9. attempts' \in 0..SendAttempts BY <1>4
  <2>10. sent' \in BOOLEAN /\ ~sent' OBVIOUS
  <2>11. content' = c BY <1>2 DEF c
  <2>12. tx' \in {"waiting", "sending"} /\ (tx' = "waiting" <=> in_flight' = 0) BY <2>8
  <2>13. tx' = "sending" /\ content' # RawFrame =>
           packet' # <<>> /\ \E x \in Counts : packet'[1] = <<"frame", content', x>>
    BY <2>2, <2>4, <2>11
  <2>14. tx' = "sending" /\ ~framed' => content' = Compressed BY <2>6, <2>11
  <2>15. sent' => tx' = "sending" BY <2>10
  <2> QED BY ONLY <1>7, <2>4, <2>5, <2>6, <2>7, <2>8, <2>9, <2>10, <2>12, <2>13, <2>14, <2>15
         DEF PacketInv
<1> QED BY <1>7, <1>11, <1>12

-----------------------------------------------------------------------------
(***************************************************************************)
(* Every step keeps the invariant.                                         *)
(***************************************************************************)
\* The parts of the invariant that a step leaves alone.
LEMMA Kept ==
  /\ RingInv /\ UNCHANGED ring /\ message_left' = message_left => RingInv'
  /\ BegunInv /\ UNCHANGED <<content, message_left>> => BegunInv'
  /\ PacketInv /\ UNCHANGED sender => PacketInv'
  /\ MemoryInv /\ UNCHANGED memory => MemoryInv'
<1>1. ASSUME RingInv, UNCHANGED ring, message_left' = message_left PROVE RingInv'
  BY <1>1 DEF RingInv, ring
<1>2. ASSUME BegunInv, UNCHANGED <<content, message_left>> PROVE BegunInv'
  BY <1>2 DEF BegunInv
<1>3. ASSUME PacketInv, UNCHANGED sender PROVE PacketInv'
  BY <1>3 DEF PacketInv, sender
<1>4. ASSUME MemoryInv, UNCHANGED memory PROVE MemoryInv'
  <2>1. history' = history /\ history_next' = history_next /\ latest' = latest
    BY <1>4 DEF memory
  <2>2. ASSUME NEW k \in Numbers, NEW i \in Slots PROVE Youngest(i, k)' <=> Youngest(i, k)
    BY <2>1 DEF Youngest, Matches, Age
  <2> QED BY <1>4, <2>1, <2>2 DEF MemoryInv
<1> QED BY <1>1, <1>2, <1>3, <1>4

\* The bytes of a user's message.
LEMMA UserMessage ==
  ASSUME RInv, NEW c \in Contents, NEW length \in Lengths, ~bad_args(c, length),
         accepted < MaxMessages, Fits(length)
  PROVE  LET data == [i \in 1 .. length |-> <<"data", accepted + 1, i>>]
         IN  /\ data \in Seq(Cells) /\ Len(data) = length /\ length \in Nat /\ length >= 1
             /\ accepted + 1 \in 1..MaxMessages /\ Good(Message(c, data))
<1> DEFINE data == [i \in 1 .. length |-> <<"data", accepted + 1, i>>]
<1>1. length \in Nat /\ length >= 1 /\ (c = Ssdv => length % MaxPayload = 0)
  BY Sizes DEF bad_args
<1>2. accepted + 1 \in 1..MaxMessages BY Sizes DEF RInv, UserInv
<1>3. length <= QueueSize
  <2>1. length + MessageHeader <= QueueSize - count BY DEF Fits
  <2> QED BY <1>1, <2>1, Sizes DEF RInv, RingInv
<1>4. ASSUME NEW i \in 1..length PROVE data[i] \in Cells
  <2>1. i \in 1..QueueSize BY <1>1, <1>3, Sizes
  <2> DEFINE a == <<"data", accepted + 1, i>>
  <2>2. a \in {<<"data", m, j>> : m \in 1 .. MaxMessages, j \in 1 .. QueueSize}
    BY <1>2, <2>1
  <2>3. data[i] = a OBVIOUS
  <2> HIDE DEF a, data
  <2> QED BY <2>2, <2>3 DEF Cells
<1>5. data \in Seq(Cells) /\ Len(data) = length
  <2>1. data \in [1..length -> Cells] BY <1>4
  <2> HIDE DEF data
  <2> QED BY <1>1, <2>1, SeqFacts
<1> HIDE DEF data
<1>6. Message(c, data) \in Queued BY <1>5 DEF Message, Queued
<1>7. Message(c, data).data = data /\ Message(c, data).content = c BY DEF Message
<1>8. Good(Message(c, data))
  <2>1. c # RawFrame BY Sizes
  <2>2. c = Ssdv => Multiple(length) BY <1>1, MultipleFacts
  <2> QED BY <1>1, <1>3, <1>5, <1>6, <1>7, <2>1, <2>2 DEF Good
<1> QED BY <1>1, <1>2, <1>5, <1>8 DEF data

\* radio_queue_push keeps the invariant.
LEMMA PushInv ==
  ASSUME RInv, NEW c \in Contents, NEW length \in Lengths, Push(c, length)
  PROVE  RInv'
<1>1. UNCHANGED sender /\ UNCHANGED memory /\ thread_started' = TRUE
      /\ ~bad_args(c, length) /\ accepted < MaxMessages
  BY DEF Push
<1>2. BegunInv' /\ PacketInv' /\ MemoryInv'
  <2>1. UNCHANGED <<content, message_left>> BY <1>1 DEF sender
  <2> QED BY <1>1, <2>1, Kept DEF RInv
<1>3. message_left' = message_left BY <1>1 DEF sender
<1>4. RingInv' /\ accepted' \in 0..MaxMessages
  <2> DEFINE data == [i \in 1 .. length |-> <<"data", accepted + 1, i>>]
  <2>1. CASE push_locked(c, data) /\ accepted' = accepted + 1
    <3>1. Fits(Len(data)) BY <2>1 DEF push_locked
    <3>2. Len(data) = length
      <4>1. length \in Nat BY Sizes
      <4> QED BY <4>1
    <3>3. Fits(length) BY <3>1, <3>2
    <3>4. data \in Seq(Cells) /\ accepted + 1 \in 1..MaxMessages /\ Good(Message(c, data))
      BY <1>1, <3>3, UserMessage
    <3> HIDE DEF data
    <3>5. RingInv' BY <1>3, <2>1, <3>1, <3>4, PushKeepsRing DEF RInv, Kinds
    <3>6. accepted' \in 0..MaxMessages BY <2>1, <3>4
    <3> QED BY <3>5, <3>6
  <2>2. CASE UNCHANGED <<ring, accepted>>
    <3>1. UNCHANGED ring /\ accepted' = accepted BY <2>2
    <3>2. RingInv' BY <1>3, <3>1, Kept DEF RInv
    <3> QED BY <3>1, <3>2 DEF RInv, UserInv
  <2> QED BY <2>1, <2>2 DEF Push
<1>5. UserInv'
  <2>1. thread_started' \in BOOLEAN BY <1>1
  <2> QED BY <1>4, <2>1 DEF UserInv
<1> QED BY <1>2, <1>4, <1>5 DEF RInv

\* What a resend pushes: a packet that was sent, the last one under its number.
LEMMA ResendMessage ==
  ASSUME RInv, NEW c \in Contents, NEW s \in Counts, Resend(c, s)
  PROVE  LET p == history[Newest(c, s)]
         IN  /\ p \in Seq(Cells) /\ p # <<>> /\ p = latest[<<c, s>>] /\ Fits(Len(p))
             /\ Good(Message(RawFrame, p))
<1> DEFINE k == <<c, s>>
           i == Newest(c, s)
           p == history[i]
<1>1. k \in Numbers /\ k[1] = c /\ k[2] = s BY DEF Numbers, Counts
<1>2. /\ history \in [Slots -> Seq(Cells)] /\ history_next \in Slots
      /\ \A j \in Slots : Len(history[j]) <= MaxPayload + 1
      /\ \A x \in Numbers, j \in Slots : Youngest(j, x) => history[j] = latest[x]
  BY DEF RInv, MemoryInv
<1>3. Matches(k[1], k[2]) # {} BY <1>1 DEF Resend
<1>4. i \in Slots /\ Youngest(i, k) /\ i \in Matches(c, s)
  <2>1. Newest(k[1], k[2]) \in Slots /\ Youngest(Newest(k[1], k[2]), k)
    BY <1>1, <1>2, <1>3, NewestFacts
  <2> HIDE DEF k
  <2>2. i \in Slots /\ Youngest(i, k) BY <1>1, <2>1
  <2> QED BY <1>1, <2>2 DEF Youngest
<1> HIDE DEF k, i
<1>5. p \in Seq(Cells) /\ Len(p) <= MaxPayload + 1 /\ p = latest[k] BY <1>1, <1>2, <1>4
<1>6. p # <<>> BY <1>4 DEF Matches, Never
<1>7. push_locked(RawFrame, p) /\ Fits(Len(p)) BY DEF Resend, push_locked, i
<1> HIDE DEF p
<1>8. Len(p) \in Nat /\ Len(p) >= 1 BY <1>5, <1>6
<1>9. Len(p) <= QueueSize
  <2> DEFINE l == Len(p)
  <2>1. l \in Nat /\ l + MessageHeader <= QueueSize - count BY <1>7, <1>8 DEF Fits
  <2>2. count \in 0..QueueSize /\ QueueSize \in Nat /\ MessageHeader = 2
    BY Sizes DEF RInv, RingInv
  <2> HIDE DEF l
  <2>3. l <= QueueSize BY ONLY <2>1, <2>2
  <2> QED BY <2>3 DEF l
<1>10. Good(Message(RawFrame, p))
  <2>1. Message(RawFrame, p) \in Queued BY <1>5 DEF Message, Queued
  <2>2. Message(RawFrame, p).data = p /\ Message(RawFrame, p).content = RawFrame
    BY DEF Message
  <2>3. RawFrame # Ssdv BY Sizes
  <2> QED BY <1>5, <1>8, <1>9, <2>1, <2>2, <2>3 DEF Good
<1> QED BY <1>5, <1>6, <1>7, <1>10 DEF k, i, p

\* radio_resend keeps the invariant.
LEMMA ResendStep ==
  ASSUME RInv, NEW c \in Contents, NEW s \in Counts, Resend(c, s)
  PROVE  RInv'
<1>1. UNCHANGED <<thread_started, accepted>> /\ UNCHANGED sender /\ UNCHANGED memory
  BY DEF Resend
<1>2. BegunInv' /\ PacketInv' /\ MemoryInv'
  <2>1. UNCHANGED <<content, message_left>> BY <1>1 DEF sender
  <2> QED BY <1>1, <2>1, Kept DEF RInv
<1>3. message_left' = message_left BY <1>1 DEF sender
<1>4. RingInv'
  <2> DEFINE p == history[Newest(c, s)]
  <2>1. p \in Seq(Cells) /\ Fits(Len(p)) /\ Good(Message(RawFrame, p)) BY ResendMessage
  <2>2. push_locked(RawFrame, p) BY DEF Resend
  <2> HIDE DEF p
  <2> QED BY <1>3, <2>1, <2>2, PushKeepsRing DEF RInv, Kinds
<1>5. UserInv' BY <1>1 DEF RInv, UserInv
<1> QED BY <1>2, <1>4, <1>5 DEF RInv

\* The thread's section under the lock keeps the invariant.
LEMMA TakeInv ==
  ASSUME RInv, Take
  PROVE  RInv'
<1>1. /\ buffer' = buffer /\ tx' = "sending" /\ attempts' = 0 /\ sent' = FALSE
      /\ UNCHANGED <<thread_started, accepted>> /\ UNCHANGED memory
  BY DEF Take
<1>2. /\ waiting \in Seq(Queued) /\ \A k \in 1..Len(waiting) : Good(waiting[k])
      /\ buffer \in [Indices -> Cells]
  BY DEF RInv, RingInv
<1>3. PICK m, n : /\ Cut(m, n) /\ waiting' \in Seq(Queued)
                  /\ \A k \in 1..Len(waiting') : Good(waiting'[k])
  <2>1. CASE message_left # 0 BY <1>2, <2>1, TakeMore
  <2>2. CASE message_left = 0
    <3>1. waiting # <<>> /\ waiting' = Tail(waiting) /\ \E n \in Nat : Cut(waiting[1], n)
      BY <2>2, TakeNew
    <3> DEFINE v == Tail(waiting)
    <3>2. v \in Seq(Queued) /\ \A i \in 1..Len(v) : v[i] = waiting[i + 1] /\ i + 1 \in 1..Len(waiting)
      BY <1>2, <3>1, TailFacts
    <3> HIDE DEF v
    <3>3. \A i \in 1..Len(v) : Good(v[i]) BY <1>2, <3>2
    <3> QED BY <3>1, <3>2, <3>3 DEF v
  <2> QED BY <2>1, <2>2
<1>4. BegunInv' /\ PacketInv' BY <1>1, <1>3, CutKeeps
<1>5. RingInv'
  <2>1. /\ head' \in Indices /\ count' \in 0..QueueSize
        /\ \E at : Layout(buffer, head', count', waiting', message_left', at)
    BY <1>3 DEF Cut
  <2> QED BY <1>1, <1>2, <1>3, <2>1 DEF RingInv
<1>6. MemoryInv' BY <1>1, Kept DEF RInv
<1>7. UserInv' BY <1>1 DEF RInv, UserInv
<1> QED BY <1>4, <1>5, <1>6, <1>7 DEF RInv

\* A call of the driver keeps the invariant.
LEMMA AttemptInv ==
  ASSUME RInv, Attempt
  PROVE  RInv'
<1>1. /\ UNCHANGED ring /\ UNCHANGED <<thread_started, accepted>> /\ UNCHANGED memory
      /\ UNCHANGED <<tx, content, message_left, sequence, packet, framed, in_flight>>
      /\ tx = "sending" /\ attempts < SendAttempts /\ attempts' = attempts + 1
      /\ sent' \in BOOLEAN
  BY DEF Attempt
<1>2. RingInv' /\ BegunInv' /\ MemoryInv' BY <1>1, Kept DEF RInv
<1>3. PacketInv'
  <2>1. attempts' \in 0..SendAttempts BY <1>1, Sizes DEF RInv, PacketInv
  <2>2. sent' => tx' = "sending" BY <1>1
  <2> QED BY <1>1, <2>1, <2>2 DEF RInv, PacketInv
<1>4. UserInv' BY <1>1 DEF RInv, UserInv
<1> QED BY <1>2, <1>3, <1>4 DEF RInv

\* The packet that is remembered becomes the youngest under its number, the slot that
\* it takes was the oldest of all, and the order of the others stays.
LEMMA RememberInv ==
  ASSUME MemoryInv, NEW c \in Contents, NEW s \in Counts, packet \in Seq(Cells),
         Len(packet) <= MaxPayload + 1, packet # <<>>, packet[1] = <<"frame", c, s>>,
         remember
  PROVE  MemoryInv'
<1> DEFINE h == history_next
           k0 == <<c, s>>
<1>1. /\ history \in [Slots -> Seq(Cells)] /\ h \in Slots
      /\ \A i \in Slots : Len(history[i]) <= MaxPayload + 1
      /\ latest \in [Numbers -> Seq(Cells)]
      /\ \A k \in Numbers, i \in Slots : Youngest(i, k) => history[i] = latest[k]
  BY DEF MemoryInv
<1>2. /\ history' = [history EXCEPT ![h] = packet] /\ h' = (h + 1) % HistorySize
      /\ latest' = [latest EXCEPT ![k0] = packet]
  <2>1. packet[1][2] = c /\ packet[1][3] = s OBVIOUS
  <2> QED BY <2>1 DEF remember
<1>3. k0 \in Numbers BY DEF Numbers, Counts
<1>4. h' \in Slots BY <1>1, <1>2, AgeFacts
<1>5. history' \in [Slots -> Seq(Cells)] /\ latest' \in [Numbers -> Seq(Cells)]
      /\ \A i \in Slots : Len(history'[i]) <= MaxPayload + 1
  BY <1>1, <1>2, <1>3
<1>6. /\ history'[h] = packet /\ latest'[k0] = packet
      /\ \A i \in Slots : i # h => history'[i] = history[i]
      /\ \A k \in Numbers : k # k0 => latest'[k] = latest[k]
  BY <1>1, <1>2, <1>3
<1>7. ASSUME NEW i \in Slots
      PROVE  /\ Age(i) = AgeAt(h, i) /\ Age(i)' = AgeAt(h', i)
             /\ Age(i) \in Nat /\ Age(i) <= Age(h)
             /\ AgeAt(h', h) = 0 /\ (i # h => AgeAt(h', i) = Age(i) + 1)
  <2>1. Age(i) = AgeAt(h, i) /\ Age(i)' = AgeAt(h', i) /\ Age(h) = AgeAt(h, h)
    BY DEF Age, AgeAt
  <2> QED BY <1>1, <1>2, <2>1, AgeFacts
<1>8. ASSUME NEW k \in Numbers, NEW i \in Slots, Youngest(i, k)'
      PROVE  history'[i] = latest'[k]
  <2> DEFINE M == Matches(k[1], k[2])
             f == <<"frame", k[1], k[2]>>
             N == {j \in Slots : history'[j] # Never /\ history'[j][1] = f}
  <2>1. M = {j \in Slots : history[j] # Never /\ history[j][1] = f} BY DEF Matches, Slots
  <2>2. i \in N /\ \A j \in N : AgeAt(h', i) <= AgeAt(h', j)
    <3>1. Youngest(i, k)' <=>
            i \in N /\ \A j \in N : (h' + HistorySize - 1 - i) % HistorySize
                                    <= (h' + HistorySize - 1 - j) % HistorySize
      BY DEF Youngest, Matches, Age, Slots
    <3> QED BY <1>8, <3>1 DEF AgeAt
  <2>3. CASE k = k0
    <3>1. f = <<"frame", c, s>> BY <2>3
    <3> HIDE DEF f
    <3>2. h \in N BY <1>1, <1>6, <3>1 DEF Never
    <3>3. AgeAt(h', i) <= AgeAt(h', h) BY <2>2, <3>2
    <3>4. i = h BY <1>1, <1>7, <3>3
    <3> QED BY <1>6, <2>3, <3>4
  <2>4. CASE k # k0
    <3>1. f # <<"frame", c, s>>
      <4>1. k = <<k[1], k[2]>> BY DEF Numbers
      <4> QED BY <2>4, <4>1
    <3> HIDE DEF f
    <3>2. h \notin N BY <1>6, <3>1
    <3>3. i # h /\ i \in M BY <1>6, <2>1, <2>2, <3>2
    <3> HIDE DEF M
    <3>4. ASSUME NEW j \in M PROVE Age(i) <= Age(j)
      <4>1. j \in Slots BY <2>1
      <4>2. CASE j = h BY <1>7, <4>2
      <4>3. CASE j # h
        <5>1. j \in N BY <1>6, <2>1, <4>1, <4>3
        <5>2. AgeAt(h', i) <= AgeAt(h', j) BY <2>2, <5>1
        <5>3. AgeAt(h', i) = Age(i) + 1 /\ AgeAt(h', j) = Age(j) + 1
              /\ Age(i) \in Nat /\ Age(j) \in Nat
          BY <1>7, <3>3, <4>1, <4>3
        <5> QED BY <5>2, <5>3
      <4> QED BY <4>2, <4>3
    <3>5. Youngest(i, k) BY <3>3, <3>4 DEF Youngest, M
    <3> QED BY <1>1, <1>6, <2>4, <3>3, <3>5
  <2> QED BY <2>3, <2>4
<1> QED BY <1>4, <1>5, <1>8 DEF MemoryInv

\* What the packet under way looks like when it is done.
LEMMA DonePacket ==
  ASSUME RInv, tx = "sending", content # RawFrame
  PROVE  /\ packet \in Seq(Cells) /\ Len(packet) <= MaxPayload + 1 /\ packet # <<>>
         /\ \E s \in Counts : packet[1] = <<"frame", content, s>>
         /\ content \in Contents
  BY DEF RInv, PacketInv, BegunInv, Kinds

\* The end of a packet keeps the invariant.
LEMMA FinishInv ==
  ASSUME RInv, Finish
  PROVE  RInv'
<1>1. /\ UNCHANGED ring /\ UNCHANGED <<thread_started, accepted>>
      /\ UNCHANGED <<content, message_left, sequence>>
      /\ tx' = "waiting" /\ in_flight' = 0 /\ packet' = <<>> /\ attempts' = 0 /\ tx = "sending"
  BY DEF Finish
<1>2. framed' = FALSE /\ sent' = FALSE BY DEF Finish
<1>3. RingInv' /\ BegunInv' BY <1>1, Kept DEF RInv
<1>4. PacketInv'
  <2>1. in_flight' \in 0..(MaxPayload + 1) /\ attempts' \in 0..SendAttempts BY <1>1, Sizes
  <2>2. packet' \in Seq(Cells) /\ Len(packet') <= MaxPayload + 1
    <3>1. packet' \in Seq(Cells) /\ Len(packet') = 0 BY <1>1
    <3> QED BY <3>1, Sizes
  <2>3. framed' \in BOOLEAN /\ sent' \in BOOLEAN /\ ~sent' BY <1>2
  <2>4. sequence' \in [Contents -> Counts] BY <1>1 DEF RInv, PacketInv
  <2>5. tx' \in {"waiting", "sending"} /\ tx' # "sending" /\ (tx' = "waiting" <=> in_flight' = 0)
    BY <1>1
  <2> QED BY ONLY <2>1, <2>2, <2>3, <2>4, <2>5 DEF PacketInv
<1>5. MemoryInv'
  <2>1. CASE sent /\ content # RawFrame
    <3>1. remember BY <2>1 DEF Finish
    <3> QED BY <1>1, <2>1, <3>1, DonePacket, RememberInv DEF RInv
  <2>2. CASE ~(sent /\ content # RawFrame)
    <3>1. UNCHANGED memory BY <2>2 DEF Finish
    <3> QED BY <3>1, Kept DEF RInv
  <2> QED BY <2>1, <2>2
<1>6. UserInv' BY <1>1 DEF RInv, UserInv
<1> QED BY <1>3, <1>4, <1>5, <1>6 DEF RInv

\* Every step keeps the invariant.
LEMMA StepInv ==
  ASSUME RInv, [Next]_vars
  PROVE  RInv'
<1>1. CASE \E c \in Contents, length \in Lengths : Push(c, length) BY <1>1, PushInv
<1>2. CASE \E c \in Contents, s \in 0 .. SequenceCounts - 1 : Resend(c, s)
  BY <1>2, ResendStep DEF Counts
<1>3. CASE Take BY <1>3, TakeInv
<1>4. CASE Attempt BY <1>4, AttemptInv
<1>5. CASE Finish BY <1>5, FinishInv
<1>6. CASE UNCHANGED vars
  <2>1. UNCHANGED ring /\ UNCHANGED sender /\ UNCHANGED memory
        /\ UNCHANGED <<thread_started, accepted>>
    BY <1>6 DEF vars
  <2>2. UNCHANGED <<content, message_left>> BY <2>1 DEF sender
  <2>3. RingInv' /\ BegunInv' /\ PacketInv' /\ MemoryInv' BY <2>1, <2>2, Kept DEF RInv
  <2>4. UserInv' BY <2>1 DEF RInv, UserInv
  <2> QED BY <2>3, <2>4 DEF RInv
<1> QED BY <1>1, <1>2, <1>3, <1>4, <1>5, <1>6 DEF Next, tx_thread

\* In every reachable state the ring holds the queue, the pending count is honest,
\* whatever was accepted can be framed, and a resend is the latest packet under its
\* number (radio_queue.c).
THEOREM QueueTheorem == Spec => []QueueInv
<1>1. Init => RInv BY InitInv
<1>2. RInv /\ [Next]_vars => RInv' BY StepInv
<1>3. RInv => QueueInv BY InvariantGivesQueue
<1> QED BY <1>1, <1>2, <1>3, PTL DEF Spec

-----------------------------------------------------------------------------
(***************************************************************************)
(* The refinement: every step is a step of RadioFifo, or invisible there.  *)
(***************************************************************************)
FifoPayloads == {[i \in 1 .. n |-> <<"data", m, i>>] : n \in Lengths \ {0}, m \in 1 .. MaxMessages}
FifoRest == IF message_left = 0 THEN <<>>
            ELSE <<[content |-> content, data |-> ring_read(0, message_left)]>>
FifoOut == IF tx = "waiting" THEN <<>> ELSE <<[content |-> content, data |-> packet]>>

\* The bytes at the head of the ring that belong to the message under way are not
\* written over.
LEMMA PushKeepsRest ==
  ASSUME RInv, UNCHANGED sender, NEW c \in Kinds, NEW data \in Seq(Cells),
         Fits(Len(data)), Good(Message(c, data)), push_locked(c, data)
  PROVE  FifoRest' = FifoRest /\ FifoOut' = FifoOut
<1> DEFINE e == Encode(Message(c, data))
           l == message_left
<1>1. /\ buffer \in [Indices -> Cells] /\ head \in Indices /\ count \in 0..QueueSize
      /\ waiting \in Seq(Queued) /\ head \in Nat /\ count \in Nat
  BY Sizes DEF RInv, RingInv, Indices
<1>2. l \in 0..count
  <2>1. PICK at : Layout(buffer, head, count, waiting, l, at) BY DEF RInv, RingInv
  <2> QED BY <1>1, <2>1, LayoutEmpty
<1>3. /\ tx' = tx /\ content' = content /\ message_left' = l /\ packet' = packet
      /\ head' = head /\ buffer' = ring_write(e)
  BY DEF sender, push_locked
<1>4. e \in Seq(Cells) /\ Len(e) + count <= QueueSize
  <2> DEFINE m == Message(c, data)
  <2>1. m \in Queued /\ m.data = data /\ Len(data) \in Nat /\ Len(m.data) <= QueueSize
    BY DEF Good, Message
  <2> HIDE DEF m
  <2>2. Encode(m) \in Seq(Cells) /\ Len(Encode(m)) = MessageHeader + Len(data)
    BY <2>1, EncodeFacts
  <2> DEFINE x == Len(Encode(m))
             y == Len(data)
  <2>3. x = MessageHeader + y /\ y \in Nat /\ y + MessageHeader <= QueueSize - count
    BY <2>1, <2>2 DEF Fits
  <2>4. MessageHeader = 2 /\ QueueSize \in Nat /\ count \in 0..QueueSize BY <1>1, Sizes
  <2> HIDE DEF x, y
  <2>5. x + count <= QueueSize BY ONLY <2>3, <2>4
  <2> QED BY <2>2, <2>5 DEF x, m
<1>5. \A j \in 0..(count - 1) : CellIn(ring_write(e), head, j) = CellIn(buffer, head, j)
  <2> HIDE DEF e
  <2> QED BY <1>1, <1>4, WriteFacts
<1>6. (ring_read(0, message_left))' = ring_read(0, message_left)
  <2> DEFINE b2 == ring_write(e)
  <2> HIDE DEF b2, l
  <2>1. \A i \in 1..l : i - 1 \in 0..(count - 1) /\ head + 0 + i - 1 = head + (i - 1)
    BY <1>1, <1>2
  <2>2. \A i \in 1..l : b2[(head + 0 + i - 1) % QueueSize] = buffer[(head + 0 + i - 1) % QueueSize]
    <3>1. \A i \in 1..l : CellIn(b2, head, i - 1) = CellIn(buffer, head, i - 1)
      BY <1>5, <2>1 DEF b2
    <3> QED BY <2>1, <3>1 DEF CellIn
  <2>3. (ring_read(0, message_left))' = [i \in 1..l |-> b2[(head + 0 + i - 1) % QueueSize]]
    BY <1>3 DEF ring_read, b2, l
  <2>4. ring_read(0, message_left) = [i \in 1..l |-> buffer[(head + 0 + i - 1) % QueueSize]]
    BY DEF ring_read, l
  <2> QED BY <2>2, <2>3, <2>4
<1> HIDE DEF e
<1> QED BY <1>3, <1>6 DEF FifoRest, FifoOut

\* radio_queue_push is Accept, or changes nothing that RadioFifo knows.
LEMMA PushRefines ==
  ASSUME RInv, NEW c \in Contents, NEW length \in Lengths, Push(c, length)
  PROVE  [Fifo!Next]_(Fifo!vars)
<1>1. /\ UNCHANGED sender /\ UNCHANGED memory /\ ~bad_args(c, length)
      /\ accepted < MaxMessages /\ sequence' = sequence /\ latest' = latest
  BY DEF Push, sender, memory
<1> DEFINE data == [i \in 1 .. length |-> <<"data", accepted + 1, i>>]
<1>2. CASE push_locked(c, data) /\ accepted' = accepted + 1
  <2>1. Fits(Len(data)) BY <1>2 DEF push_locked
  <2>2. Len(data) = length
    <3>1. length \in Nat BY Sizes
    <3> QED BY <3>1
  <2>3. Fits(length) BY <2>1, <2>2
  <2>4. /\ data \in Seq(Cells) /\ accepted + 1 \in 1..MaxMessages /\ length >= 1
        /\ Good(Message(c, data))
    BY <1>1, <2>3, UserMessage
  <2>5. data \in FifoPayloads
    <3>1. length \in Lengths \ {0} BY <2>4, Sizes
    <3> QED BY <2>4, <3>1 DEF FifoPayloads
  <2> HIDE DEF data
  <2>6. FifoRest' = FifoRest /\ FifoOut' = FifoOut
    BY <1>1, <1>2, <2>1, <2>4, PushKeepsRest DEF Kinds
  <2>7. waiting' = Append(waiting, [content |-> c, data |-> data])
    BY <1>2 DEF push_locked, Message
  <2>8. Fifo!Accept
    <3>1. \E x \in Contents, d \in FifoPayloads :
            waiting' = Append(waiting, [content |-> x, data |-> d])
      BY <2>5, <2>7
    <3>2. \E x \in Contents, d \in FifoPayloads : waiting' = Append(waiting, Fifo!Message(x, d))
      BY <3>1 DEF Fifo!Message
    <3>3. UNCHANGED <<FifoRest, FifoOut, sequence, latest>> BY <1>1, <2>6
    <3>4. PICK x \in Contents, d \in FifoPayloads : waiting' = Append(waiting, Fifo!Message(x, d))
      BY <3>2
    <3>5. d \in {[i \in 1 .. n |-> <<"data", m, i>>] : n \in Lengths \ {0}, m \in 1 .. MaxMessages}
      BY DEF FifoPayloads
    <3> QED BY ONLY <3>3, <3>4, <3>5, x \in Contents DEF Fifo!Accept, FifoRest, FifoOut
  <2> QED BY <2>8 DEF Fifo!Next
<1>3. CASE UNCHANGED <<ring, accepted>>
  <2>1. /\ waiting' = waiting /\ buffer' = buffer /\ head' = head /\ tx' = tx
        /\ content' = content /\ message_left' = message_left /\ packet' = packet
    BY <1>1, <1>3 DEF ring, sender
  <2> QED BY <1>1, <2>1 DEF Fifo!vars, ring_read
<1> QED BY <1>2, <1>3 DEF Push

\* radio_resend is Repeat.
LEMMA ResendRefines ==
  ASSUME RInv, NEW c \in Contents, NEW s \in Counts, Resend(c, s)
  PROVE  Fifo!Next
<1> DEFINE p == history[Newest(c, s)]
           k == <<c, s>>
<1>1. UNCHANGED sender /\ UNCHANGED memory /\ sequence' = sequence /\ latest' = latest
  BY DEF Resend, sender, memory
<1>2. /\ p \in Seq(Cells) /\ p # <<>> /\ p = latest[k] /\ Fits(Len(p))
      /\ Good(Message(RawFrame, p))
  BY ResendMessage
<1>3. push_locked(RawFrame, p) BY DEF Resend
<1>4. k \in DOMAIN latest BY DEF RInv, MemoryInv, Numbers, Counts
<1> HIDE DEF p, k
<1>5. FifoRest' = FifoRest /\ FifoOut' = FifoOut BY <1>1, <1>2, <1>3, PushKeepsRest DEF Kinds
<1>6. waiting' = Append(waiting, [content |-> RawFrame, data |-> latest[k]])
  BY <1>2, <1>3 DEF push_locked, Message
<1>7. Fifo!Repeat
  BY <1>1, <1>2, <1>4, <1>5, <1>6 DEF Fifo!Repeat, Fifo!Message, FifoRest, FifoOut
<1> QED BY <1>7 DEF Fifo!Next

\* Cutting a packet off a message is what RadioFifo does with it.
LEMMA CutRefines ==
  ASSUME RInv, NEW m, NEW n, Cut(m, n), NEW tail, waiting' = tail, buffer' = buffer,
         tx' = "sending", latest' = latest
  PROVE  Fifo!CutFrom(m, tail)
<1> DEFINE l == Len(m.data)
           q == SubSeq(m.data, 1, n)
           r == SubSeq(m.data, n + 1, l)
<1>1. /\ m \in Queued /\ m.content \in Kinds /\ m.data \in Seq(Cells) /\ l \in Nat /\ l >= 1
      /\ n \in 1..l /\ n = IF m.content = RawFrame THEN l ELSE Chunk(l)
      /\ content' = m.content /\ message_left' = l - n
  BY DEF Cut, Good, Queued, Kinds
<1>2. m = [content |-> m.content, data |-> m.data] BY <1>1 DEF Queued
<1>3. (ring_read(0, message_left))' = r
  <2>1. n \in 0..Len(m.data) BY <1>1
  <2>2. r = [i \in 1..(l - n) |-> m.data[n + i]] BY <1>1, <2>1, CutFacts
  <2>3. \A j \in 1..(l - n) : CellIn(buffer, head', j - 1) = m.data[n + j] BY <1>1 DEF Cut
  <2>4. head' \in Nat BY Sizes DEF Cut, Indices
  <2>5. (ring_read(0, message_left))' = [i \in 1..(l - n) |-> buffer[(head' + 0 + i - 1) % QueueSize]]
    BY <1>1 DEF ring_read
  <2> HIDE DEF l, r
  <2>6. \A j \in 1..(l - n) : head' + 0 + j - 1 = head' + (j - 1) BY <2>4
  <2>7. \A j \in 1..(l - n) : buffer[(head' + 0 + j - 1) % QueueSize] = m.data[n + j]
    BY <2>3, <2>6 DEF CellIn
  <2> QED BY <2>2, <2>5, <2>7
<1>4. /\ FifoRest' = IF l - n = 0 THEN <<>> ELSE <<[content |-> m.content, data |-> r]>>
      /\ FifoOut' = <<[content |-> m.content, data |-> packet']>>
  <2> HIDE DEF r, l
  <2>1. FifoRest' = IF message_left' = 0 THEN <<>>
                    ELSE <<[content |-> content', data |-> (ring_read(0, message_left))']>>
    BY DEF FifoRest
  <2>2. FifoOut' = <<[content |-> content', data |-> packet']>> BY DEF FifoOut
  <2> QED BY <1>1, <1>3, <2>1, <2>2
<1>5. \/ m.content = RawFrame /\ packet' = m.data /\ sequence' = sequence
      \/ /\ m.content # RawFrame
         /\ packet' = <<<<"frame", m.content, sequence[m.content]>>>> \o q
         /\ sequence' = [sequence EXCEPT ![m.content] = (@ + 1) % SequenceCounts]
  BY DEF Cut
<1>6. CASE m.content = RawFrame
  <2>1. packet' = m.data /\ sequence' = sequence BY <1>5, <1>6
  <2>2. FifoRest' = <<>> BY <1>1, <1>4, <1>6
  <2>3. FifoOut' = <<m>> BY <1>2, <1>4, <2>1
  <2> HIDE DEF l, q, r
  <2> QED BY <1>6, <2>1, <2>2, <2>3 DEF Fifo!CutFrom, FifoRest, FifoOut
<1>7. CASE m.content # RawFrame
  <2>1. /\ packet' = <<<<"frame", m.content, sequence[m.content]>>>> \o q
        /\ sequence' = [sequence EXCEPT ![m.content] = (@ + 1) % SequenceCounts]
    BY <1>5, <1>7
  <2>2. n \in 1..MaxPayload /\ n <= l /\ (l - n = 0 <=> n = l)
    <3> HIDE DEF l
    <3>1. n <= MaxPayload BY <1>1, <1>7, ChunkFacts
    <3> QED BY <1>1, <3>1, Sizes
  <2>3. FifoOut' = <<Fifo!Message(m.content, Fifo!Packet(m.content, sequence[m.content], q))>>
    BY <1>4, <2>1 DEF Fifo!Message, Fifo!Packet
  <2>4. FifoRest' = IF n = l THEN <<>> ELSE <<Fifo!Message(m.content, r)>>
    BY <1>4, <2>2 DEF Fifo!Message
  <2>5. \E x \in 1..MaxPayload :
          /\ x <= Len(m.data)
          /\ FifoOut' = <<Fifo!Message(m.content, Fifo!Packet(m.content, sequence[m.content],
                                                              SubSeq(m.data, 1, x)))>>
          /\ FifoRest' = IF x = Len(m.data) THEN <<>>
                         ELSE <<Fifo!Message(m.content, SubSeq(m.data, x + 1, Len(m.data)))>>
    BY <2>2, <2>3, <2>4
  <2> HIDE DEF l, q, r
  <2> QED BY <1>7, <2>1, <2>5 DEF Fifo!CutFrom, FifoRest, FifoOut
<1> QED BY <1>6, <1>7

\* The thread's section under the lock is Take.
LEMMA TakeRefines ==
  ASSUME RInv, Take
  PROVE  Fifo!Next
<1>1. buffer' = buffer /\ tx' = "sending" /\ latest' = latest /\ tx = "waiting"
  BY DEF Take, memory
<1>2. CASE message_left # 0
  <2>1. Cut(Rest, Chunk(message_left)) /\ waiting' = waiting BY <1>2, TakeMore
  <2>2. Fifo!CutFrom(Rest, waiting) BY <1>1, <2>1, CutRefines
  <2>3. FifoRest = <<Rest>> /\ FifoRest # <<>> /\ FifoRest[1] = Rest /\ FifoOut = <<>>
    BY <1>1, <1>2 DEF FifoRest, FifoOut, Rest, Message
  <2>4. Fifo!CutFrom(FifoRest[1], waiting) BY <2>2, <2>3
  <2>5. Fifo!Take BY <2>3, <2>4 DEF Fifo!Take, FifoRest, FifoOut
  <2> QED BY <2>5 DEF Fifo!Next
<1>3. CASE message_left = 0
  <2>1. waiting # <<>> /\ waiting' = Tail(waiting) /\ \E n \in Nat : Cut(waiting[1], n)
    BY <1>3, TakeNew
  <2>2. Fifo!CutFrom(waiting[1], Tail(waiting)) BY <1>1, <2>1, CutRefines
  <2>3. FifoRest = <<>> /\ FifoOut = <<>> /\ waiting[1] = Head(waiting)
    BY <1>1, <1>3, <2>1 DEF FifoRest, FifoOut
  <2>4. Fifo!CutFrom(Head(waiting), Tail(waiting)) BY <2>2, <2>3
  <2>5. Fifo!Take BY <2>1, <2>3, <2>4 DEF Fifo!Take, FifoRest, FifoOut
  <2> QED BY <2>5 DEF Fifo!Next
<1> QED BY <1>2, <1>3 DEF RInv, BegunInv

\* The end of a packet is Leave.
LEMMA FinishRefines ==
  ASSUME RInv, Finish
  PROVE  Fifo!Next
<1>1. /\ waiting' = waiting /\ buffer' = buffer /\ head' = head /\ content' = content
      /\ message_left' = message_left /\ sequence' = sequence /\ tx = "sending"
      /\ tx' = "waiting"
  BY DEF Finish, ring
<1>2. FifoRest' = FifoRest BY <1>1 DEF FifoRest, ring_read
<1>3. FifoOut' = <<>> /\ FifoOut = <<[content |-> content, data |-> packet]>> /\ FifoOut # <<>>
      /\ FifoOut[1].content = content /\ FifoOut[1].data = packet
  BY <1>1 DEF FifoOut
<1>4. \/ latest' = latest
      \/ /\ content # RawFrame
         /\ latest' = [latest EXCEPT ![<<packet[1][2], packet[1][3]>>] = packet]
  BY DEF Finish, remember, memory
<1>5. \/ latest' = latest
      \/ /\ FifoOut[1].content # RawFrame
         /\ LET p == FifoOut[1].data
            IN  latest' = [latest EXCEPT ![<<p[1][2], p[1][3]>>] = p]
  BY <1>3, <1>4
<1>6. Fifo!Leave BY <1>1, <1>2, <1>3, <1>5 DEF Fifo!Leave, FifoRest, FifoOut
<1> QED BY <1>6 DEF Fifo!Next

\* A call of the driver is invisible.
LEMMA AttemptRefines ==
  ASSUME Attempt
  PROVE  UNCHANGED Fifo!vars
<1>1. /\ waiting' = waiting /\ buffer' = buffer /\ head' = head /\ content' = content
      /\ message_left' = message_left /\ sequence' = sequence /\ tx' = tx /\ packet' = packet
      /\ latest' = latest
  BY DEF Attempt, ring, memory
<1> QED BY <1>1 DEF Fifo!vars, ring_read

\* Every step of the byte ring is a step of the queue of messages or invisible there.
LEMMA StepRefines ==
  ASSUME RInv, [Next]_vars
  PROVE  [Fifo!Next]_(Fifo!vars)
<1>1. CASE \E c \in Contents, length \in Lengths : Push(c, length) BY <1>1, PushRefines
<1>2. CASE \E c \in Contents, s \in 0 .. SequenceCounts - 1 : Resend(c, s)
  BY <1>2, ResendRefines DEF Counts
<1>3. CASE Take BY <1>3, TakeRefines
<1>4. CASE Attempt BY <1>4, AttemptRefines
<1>5. CASE Finish BY <1>5, FinishRefines
<1>6. CASE UNCHANGED vars
  <2>1. /\ waiting' = waiting /\ buffer' = buffer /\ head' = head /\ content' = content
        /\ message_left' = message_left /\ sequence' = sequence /\ tx' = tx
        /\ packet' = packet /\ latest' = latest
    BY <1>6 DEF vars, ring, sender, memory
  <2> QED BY <2>1 DEF Fifo!vars, ring_read
<1> QED BY <1>1, <1>2, <1>3, <1>4, <1>5, <1>6 DEF Next, tx_thread

\* The byte ring, its cursors and the thread's locals implement the queue of whole
\* messages: radio_queue.c keeps what radio.h and radio_queue.h promise.
THEOREM FifoTheorem == Spec => ImplementsFifo
<1>1. Init => RInv BY InitInv
<1>2. RInv /\ [Next]_vars => RInv' BY StepInv
<1>3. RInv /\ [Next]_vars => [Fifo!Next]_(Fifo!vars) BY StepRefines
<1>4. Init => Fifo!Init
  BY DEF Init, Fifo!Init, Never, Numbers
<1> QED BY <1>1, <1>2, <1>3, <1>4, PTL DEF Spec, ImplementsFifo, Fifo!Spec

==============================================================================
