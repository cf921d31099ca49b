------------------------- MODULE MqttFramingProofs -------------------------
(***************************************************************************)
(* Proofs about MqttFraming, for every Base, every size of the buffers and *)
(* every byte stream.                                                      *)
(***************************************************************************)
EXTENDS MqttFraming, SequenceTheorems, WellFoundedInduction, TLAPS

----------------------------------------------------------------------------
(* The input buffer *)

\* The asserts of Buffer: indices in order, behind the prepend area.
WellFormed(b) ==
  /\ b \in [store : Seq(Byte), readerIndex : Nat, writerIndex : Nat]
  /\ CheapPrepend <= b.readerIndex
  /\ b.readerIndex <= b.writerIndex
  /\ b.writerIndex <= Len(b.store)

\* The readable bytes of b are s.
Holds(b, s) ==
  /\ WellFormed(b)
  /\ Len(s) = ReadableBytes(b)
  /\ \A i \in 1..Len(s) : b.store[b.readerIndex + i] = s[i]

\* Zero is a byte, and a byte is a number.
LEMMA ByteFacts == 0 \in Byte /\ Byte \subseteq Nat
BY FramingAssumption DEF Byte

\* A function on 1..n with byte values is a sequence of n bytes.
LEMMA FunctionIsSeq ==
  ASSUME NEW n \in Nat, NEW f \in [1..n -> Byte]
  PROVE  f \in Seq(Byte) /\ Len(f) = n
<1>1. f \in Seq(Byte)
  BY SeqDef
<1>2. DOMAIN f = 1..n /\ DOMAIN f = 1..Len(f) /\ Len(f) \in Nat
  BY <1>1, LenProperties
<1> QED
  BY <1>1, <1>2

\* Concatenation by name, and its associativity.
Cat(s, t) == s \o t

\* Cat is associative.
LEMMA CatAssociative ==
  ASSUME NEW S
  PROVE  \A s, t, u \in Seq(S) : Cat(Cat(s, t), u) = Cat(s, Cat(t, u))
BY DEF Cat

\* What a buffer holds is what Readable returns.
LEMMA HoldsReadable ==
  ASSUME NEW b, NEW s \in Seq(Byte), Holds(b, s)
  PROVE  Readable(b) = s
<1> DEFINE r == b.readerIndex
           w == b.writerIndex
<1>1. r \in Nat /\ w \in Nat /\ b.store \in Seq(Byte) /\ r <= w
      /\ w <= Len(b.store) /\ Len(s) = w - r /\ Len(s) \in Nat
      /\ Len(b.store) \in Nat
  BY LenProperties DEF Holds, WellFormed, ReadableBytes
<1>2. \A i \in r + 1..w : b.store[i] \in Byte
  BY <1>1, ElementOfSeq
<1>3. \A i \in 1..Len(s) : b.store[r + i] = s[i]
  BY DEF Holds
<1>4. Readable(b) = SubSeq(b.store, r + 1, w)
  BY DEF Readable
<1> HIDE DEF r, w
<1>5. /\ Readable(b) \in Seq(Byte)
      /\ Len(Readable(b)) = IF r + 1 <= w THEN w - (r + 1) + 1 ELSE 0
      /\ \A i \in 1..w - (r + 1) + 1 : Readable(b)[i] = b.store[r + 1 + i - 1]
  BY <1>1, <1>2, <1>4, SubSeqProperties
<1>6. Len(Readable(b)) = Len(s)
  BY <1>1, <1>5
<1>7. \A i \in 1..Len(s) : Readable(b)[i] = s[i]
  <2> SUFFICES ASSUME NEW i \in 1..Len(s) PROVE Readable(b)[i] = s[i]
    OBVIOUS
  <2>1. i \in 1..w - (r + 1) + 1 /\ r + 1 + i - 1 = r + i
    BY <1>1
  <2> QED
    BY <2>1, <1>3, <1>5
<1> QED
  BY <1>5, <1>6, <1>7, SeqEqual

\* A fresh buffer holds nothing.
LEMMA NewBufferHolds == Holds(NewBuffer, << >>)
<1>1. CheapPrepend \in Nat /\ InitialSize \in Nat /\ CheapPrepend + InitialSize \in Nat
  BY FramingAssumption
<1> DEFINE f == [i \in 1..(CheapPrepend + InitialSize) |-> 0]
<1>2. f \in [1..(CheapPrepend + InitialSize) -> Byte]
  BY ByteFacts
<1>3. f \in Seq(Byte) /\ Len(f) = CheapPrepend + InitialSize
  BY <1>1, <1>2, FunctionIsSeq
<1>4. /\ NewBuffer.store = f /\ NewBuffer.readerIndex = CheapPrepend
      /\ NewBuffer.writerIndex = CheapPrepend
      /\ NewBuffer = [store |-> f, readerIndex |-> CheapPrepend,
                      writerIndex |-> CheapPrepend]
  BY DEF NewBuffer
<1> HIDE DEF f
<1>5. WellFormed(NewBuffer)
  BY <1>1, <1>3, <1>4 DEF WellFormed
<1> QED
  BY <1>1, <1>4, <1>5 DEF Holds, ReadableBytes

\* Copy keeps the length and changes just the bytes behind at.
LEMMA CopyFacts ==
  ASSUME NEW store \in Seq(Byte), NEW at \in Nat, NEW data \in Seq(Byte)
  PROVE  /\ Copy(store, at, data) \in Seq(Byte)
         /\ Len(Copy(store, at, data)) = Len(store)
         /\ \A i \in 1..Len(data) :
              at + i <= Len(store) => Copy(store, at, data)[at + i] = data[i]
         /\ \A i \in 1..Len(store) :
              i <= at => Copy(store, at, data)[i] = store[i]
<1>1. /\ DOMAIN store = 1..Len(store) /\ Len(store) \in Nat
      /\ DOMAIN data = 1..Len(data) /\ Len(data) \in Nat
  BY LenProperties
<1>2. \A i \in 1..Len(store) : store[i] \in Byte
  BY ElementOfSeq
<1>3. \A i \in 1..Len(data) : data[i] \in Byte
  BY ElementOfSeq
<1> DEFINE f == [i \in 1..Len(store) |->
                   IF i - at \in 1..Len(data) THEN data[i - at] ELSE store[i]]
<1>4. Copy(store, at, data) = f
  BY <1>1 DEF Copy
<1>5. f \in [1..Len(store) -> Byte]
  BY <1>2, <1>3
<1>6. f \in Seq(Byte) /\ Len(f) = Len(store)
  BY <1>1, <1>5, FunctionIsSeq
<1>7. ASSUME NEW i \in 1..Len(data), at + i <= Len(store)
      PROVE  f[at + i] = data[i]
  <2>1. at + i \in 1..Len(store) /\ at + i - at = i
    BY <1>1, <1>7
  <2> QED
    BY <2>1
<1>8. ASSUME NEW i \in 1..Len(store), i <= at
      PROVE  f[i] = store[i]
  <2>1. ~(i - at \in 1..Len(data))
    BY <1>1, <1>8
  <2> QED
    BY <2>1
<1> HIDE DEF f
<1> QED
  BY <1>4, <1>6, <1>7, <1>8

\* retrieve takes n bytes off the front.
LEMMA RetrieveHolds ==
  ASSUME NEW b, NEW s \in Seq(Byte), Holds(b, s), NEW n \in 0..Len(s)
  PROVE  Holds(Retrieve(b, n), SubSeq(s, n + 1, Len(s)))
<1>1. /\ b \in [store : Seq(Byte), readerIndex : Nat, writerIndex : Nat]
      /\ CheapPrepend <= b.readerIndex /\ b.readerIndex <= b.writerIndex
      /\ b.writerIndex <= Len(b.store) /\ Len(s) = b.writerIndex - b.readerIndex
      /\ Len(s) \in Nat /\ Len(b.store) \in Nat /\ CheapPrepend \in Nat
  BY LenProperties, FramingAssumption DEF Holds, WellFormed, ReadableBytes
<1>2. \A i \in 1..Len(s) : b.store[b.readerIndex + i] = s[i]
  BY DEF Holds
<1>3. \A i \in n + 1..Len(s) : s[i] \in Byte
  BY ElementOfSeq
<1> DEFINE t == SubSeq(s, n + 1, Len(s))
<1>4. /\ t \in Seq(Byte)
      /\ Len(t) = IF n + 1 <= Len(s) THEN Len(s) - (n + 1) + 1 ELSE 0
      /\ \A i \in 1..Len(s) - (n + 1) + 1 : t[i] = s[n + 1 + i - 1]
  <2>1. n + 1 \in Int /\ Len(s) \in Int
    BY <1>1
  <2> QED
    BY <2>1, <1>3, SubSeqProperties
<1> SUFFICES Holds(Retrieve(b, n), t)
  OBVIOUS
<1> HIDE DEF t
<1>5. Len(t) = Len(s) - n /\ \A i \in 1..Len(t) : t[i] = s[n + i]
  <2>1. Len(t) = Len(s) - n
    BY <1>1, <1>4
  <2>2. ASSUME NEW i \in 1..Len(t) PROVE t[i] = s[n + i]
    <3>1. i \in 1..Len(s) - (n + 1) + 1 /\ n + 1 + i - 1 = n + i
      BY <1>1, <2>1
    <3> QED
      BY <3>1, <1>4
  <2> QED
    BY <2>1, <2>2
<1>6. CASE n < ReadableBytes(b)
  <2>1. Retrieve(b, n) = [b EXCEPT !.readerIndex = @ + n]
    BY <1>6 DEF Retrieve
  <2>2. /\ WellFormed(Retrieve(b, n))
        /\ Retrieve(b, n).store = b.store
        /\ Retrieve(b, n).readerIndex = b.readerIndex + n
        /\ Retrieve(b, n).writerIndex = b.writerIndex
    BY <1>1, <1>6, <2>1 DEF WellFormed, ReadableBytes
  <2>3. ASSUME NEW i \in 1..Len(t)
        PROVE  Retrieve(b, n).store[Retrieve(b, n).readerIndex + i] = t[i]
    <3>1. n + i \in 1..Len(s) /\ b.readerIndex + n + i = b.readerIndex + (n + i)
      BY <1>1, <1>5
    <3> QED
      BY <3>1, <1>2, <1>5, <2>2
  <2> QED
    BY <1>1, <1>5, <2>2, <2>3 DEF Holds, ReadableBytes
<1>7. CASE ~(n < ReadableBytes(b))
  <2>1. n = Len(s)
    BY <1>1, <1>7 DEF ReadableBytes
  <2>2. Retrieve(b, n) = [b EXCEPT !.readerIndex = CheapPrepend,
                                   !.writerIndex = CheapPrepend]
    BY <1>7 DEF Retrieve
  <2>5. /\ Retrieve(b, n) \in [store : Seq(Byte), readerIndex : Nat,
                               writerIndex : Nat]
        /\ Retrieve(b, n).store = b.store
        /\ Retrieve(b, n).readerIndex = CheapPrepend
        /\ Retrieve(b, n).writerIndex = CheapPrepend
    BY <1>1, <2>2
  <2>3. WellFormed(Retrieve(b, n))
    BY <1>1, <2>5 DEF WellFormed
  <2>4. Len(t) = 0
    BY <1>1, <1>5, <2>1
  <2> QED
    BY <1>1, <2>3, <2>4, <2>5 DEF Holds, ReadableBytes
<1> QED
  BY <1>6, <1>7

\* After makeSpace(n) the buffer holds what it held and n bytes fit behind it.
LEMMA MakeSpaceHolds ==
  ASSUME NEW b, NEW s \in Seq(Byte), Holds(b, s), NEW n \in Nat,
         WritableBytes(b) < n
  PROVE  Holds(MakeSpace(b, n), s) /\ n <= WritableBytes(MakeSpace(b, n))
<1>1. /\ b \in [store : Seq(Byte), readerIndex : Nat, writerIndex : Nat]
      /\ CheapPrepend <= b.readerIndex /\ b.readerIndex <= b.writerIndex
      /\ b.writerIndex <= Len(b.store) /\ Len(s) = b.writerIndex - b.readerIndex
      /\ Len(s) \in Nat /\ Len(b.store) \in Nat /\ CheapPrepend \in Nat
  BY LenProperties, FramingAssumption DEF Holds, WellFormed, ReadableBytes
<1>2. \A i \in 1..Len(s) : b.store[b.readerIndex + i] = s[i]
  BY DEF Holds
<1> DEFINE c == MakeSpace(b, n)
<1>3. CASE WritableBytes(b) + b.readerIndex < n + CheapPrepend
  <2> DEFINE f == [i \in 1..(b.writerIndex + n) |->
                     IF i \in DOMAIN b.store THEN b.store[i] ELSE 0]
  <2>1. c = [b EXCEPT !.store = f]
    BY <1>3 DEF MakeSpace
  <2>2. b.writerIndex + n \in Nat /\ DOMAIN b.store = 1..Len(b.store)
    BY <1>1, LenProperties
  <2>3. \A i \in 1..Len(b.store) : b.store[i] \in Byte
    BY <1>1, ElementOfSeq
  <2>4. f \in [1..(b.writerIndex + n) -> Byte]
    BY <2>2, <2>3, ByteFacts
  <2>5. f \in Seq(Byte) /\ Len(f) = b.writerIndex + n
    BY <2>2, <2>4, FunctionIsSeq
  <2>6. \A i \in 1..Len(s) : f[b.readerIndex + i] = s[i]
    <3> SUFFICES ASSUME NEW i \in 1..Len(s) PROVE f[b.readerIndex + i] = s[i]
      OBVIOUS
    <3>1. /\ b.readerIndex + i \in 1..Len(b.store)
          /\ b.readerIndex + i \in 1..(b.writerIndex + n)
      BY <1>1
    <3> QED
      BY <3>1, <1>2, <2>2
  <2> HIDE DEF f
  <2>7. /\ c \in [store : Seq(Byte), readerIndex : Nat, writerIndex : Nat]
        /\ c.store = f /\ c.readerIndex = b.readerIndex
        /\ c.writerIndex = b.writerIndex
    BY <1>1, <2>1, <2>5
  <2> HIDE DEF c
  <2>8. Holds(c, s) /\ n <= WritableBytes(c)
    BY <1>1, <2>5, <2>6, <2>7 DEF Holds, WellFormed, ReadableBytes, WritableBytes
  <2> QED
    BY <2>8 DEF c
<1>4. CASE ~(WritableBytes(b) + b.readerIndex < n + CheapPrepend)
  <2> DEFINE f == Copy(b.store, CheapPrepend, s)
  <2>1. c = [store |-> f, readerIndex |-> CheapPrepend,
             writerIndex |-> CheapPrepend + Len(s)]
    BY <1>4, HoldsReadable DEF MakeSpace, Holds
  <2>2. /\ f \in Seq(Byte) /\ Len(f) = Len(b.store)
        /\ \A i \in 1..Len(s) :
             CheapPrepend + i <= Len(b.store) => f[CheapPrepend + i] = s[i]
    BY <1>1, CopyFacts
  <2> HIDE DEF f
  <2>3. \A i \in 1..Len(s) : f[CheapPrepend + i] = s[i]
    <3>1. \A i \in 1..Len(s) : CheapPrepend + i <= Len(b.store)
      BY <1>1
    <3> QED
      BY <3>1, <2>2
  <2>4. /\ c \in [store : Seq(Byte), readerIndex : Nat, writerIndex : Nat]
        /\ c.store = f /\ c.readerIndex = CheapPrepend
        /\ c.writerIndex = CheapPrepend + Len(s)
    BY <1>1, <2>1, <2>2
  <2> HIDE DEF c
  <2>5. Holds(c, s)
    BY <1>1, <2>2, <2>3, <2>4 DEF Holds, WellFormed, ReadableBytes
  <2>6. n <= WritableBytes(c)
    BY <1>1, <1>4, <2>2, <2>4 DEF WritableBytes
  <2> QED
    BY <2>5, <2>6 DEF c
<1> QED
  BY <1>3, <1>4

\* Writing data behind the writer index and advancing it by as much appends.
LEMMA WriteHolds ==
  ASSUME NEW b, NEW s \in Seq(Byte), Holds(b, s), NEW data \in Seq(Byte),
         NEW n \in 0..Len(data), n <= WritableBytes(b)
  PROVE  Holds([b EXCEPT !.store = Copy(b.store, b.writerIndex, data),
                         !.writerIndex = b.writerIndex + n],
               s \o SubSeq(data, 1, n))
<1>1. /\ b \in [store : Seq(Byte), readerIndex : Nat, writerIndex : Nat]
      /\ CheapPrepend <= b.readerIndex /\ b.readerIndex <= b.writerIndex
      /\ b.writerIndex <= Len(b.store) /\ Len(s) = b.writerIndex - b.readerIndex
      /\ Len(s) \in Nat /\ Len(b.store) \in Nat /\ CheapPrepend \in Nat
      /\ b.writerIndex + n <= Len(b.store) /\ Len(data) \in Nat
      /\ n \in Nat /\ n <= Len(data)
  BY LenProperties, FramingAssumption
     DEF Holds, WellFormed, ReadableBytes, WritableBytes
<1>2. \A i \in 1..Len(s) : b.store[b.readerIndex + i] = s[i]
  BY DEF Holds
<1> DEFINE f == Copy(b.store, b.writerIndex, data)
           c == [b EXCEPT !.store = f, !.writerIndex = b.writerIndex + n]
           t == SubSeq(data, 1, n)
           u == s \o t
<1>3. /\ f \in Seq(Byte) /\ Len(f) = Len(b.store)
      /\ \A i \in 1..Len(data) :
           b.writerIndex + i <= Len(b.store) => f[b.writerIndex + i] = data[i]
      /\ \A i \in 1..Len(b.store) :
           i <= b.writerIndex => f[i] = b.store[i]
  BY <1>1, CopyFacts, ZenonT(60)
<1>4. /\ t \in Seq(Byte)
      /\ Len(t) = IF 1 <= n THEN n - 1 + 1 ELSE 0
      /\ \A i \in 1..n - 1 + 1 : t[i] = data[1 + i - 1]
  <2>1. 1 \in Int /\ n \in Int /\ \A i \in 1..n : data[i] \in Byte
    BY <1>1, ElementOfSeq
  <2> QED
    BY <2>1, SubSeqProperties
<1>5. /\ c \in [store : Seq(Byte), readerIndex : Nat, writerIndex : Nat]
      /\ c.store = f /\ c.readerIndex = b.readerIndex
      /\ c.writerIndex = b.writerIndex + n
  <2> HIDE DEF f
  <2>1. f \in Seq(Byte) /\ b.writerIndex + n \in Nat
    BY <1>1, <1>3
  <2>2. b \in [store : Seq(Byte), readerIndex : Nat, writerIndex : Nat]
    BY <1>1
  <2> QED
    BY <2>1, <2>2
<1> HIDE DEF t
<1>6. /\ u \in Seq(Byte) /\ Len(u) = Len(s) + Len(t)
      /\ \A i \in 1..Len(s) + Len(t) :
           u[i] = IF i <= Len(s) THEN s[i] ELSE t[i - Len(s)]
  BY <1>4, ConcatProperties
<1> SUFFICES Holds(c, u)
  BY DEF t
<1> HIDE DEF f, c, u
<1>7. Len(t) = n /\ \A i \in 1..n : t[i] = data[i]
  <2>1. Len(t) = n
    BY <1>1, <1>4
  <2>2. ASSUME NEW i \in 1..n PROVE t[i] = data[i]
    <3>1. i \in 1..n - 1 + 1 /\ 1 + i - 1 = i
      BY <1>1
    <3> QED
      BY <3>1, <1>4
  <2> QED
    BY <2>1, <2>2
<1>8. ASSUME NEW i \in 1..Len(u)
      PROVE  c.store[c.readerIndex + i] = u[i]
  <2>1. i \in 1..Len(s) + n /\ b.readerIndex + i \in 1..Len(b.store)
    BY <1>1, <1>6, <1>7
  <2>2. CASE i <= Len(s)
    <3>1. b.readerIndex + i <= b.writerIndex /\ i \in 1..Len(s)
      BY <1>1, <2>1, <2>2
    <3>2. f[b.readerIndex + i] = b.store[b.readerIndex + i]
      BY <2>1, <3>1, <1>3
    <3> QED
      BY <1>2, <1>5, <1>6, <1>7, <2>1, <2>2, <3>1, <3>2
  <2>3. CASE ~(i <= Len(s))
    <3>1. /\ b.readerIndex + i = b.writerIndex + (i - Len(s))
          /\ i - Len(s) \in 1..n /\ i - Len(s) \in 1..Len(data)
          /\ b.writerIndex + (i - Len(s)) <= Len(b.store)
      <4>1. /\ b.readerIndex \in Nat /\ b.writerIndex \in Nat /\ i \in Nat
            /\ Len(s) = b.writerIndex - b.readerIndex /\ Len(s) < i
            /\ i <= Len(s) + n /\ b.writerIndex + n <= Len(b.store)
            /\ Len(b.store) \in Nat /\ Len(data) \in Nat /\ n \in Nat
            /\ n <= Len(data) /\ Len(s) \in Nat
        BY <1>1, <2>1, <2>3
      <4>2. b.readerIndex + i = b.writerIndex + (i - Len(s))
        BY <4>1, SMTT(30)
      <4>3. i - Len(s) \in 1..n /\ i - Len(s) \in 1..Len(data)
        BY <4>1
      <4>4. b.writerIndex + (i - Len(s)) <= Len(b.store)
        BY <4>1
      <4> QED
        BY <4>2, <4>3, <4>4
    <3>2. f[b.readerIndex + i] = data[i - Len(s)]
      BY <2>1, <3>1, <1>3
    <3> QED
      BY <1>5, <1>6, <1>7, <2>1, <2>3, <3>1, <3>2
  <2> QED
    BY <2>2, <2>3
<1>9. WellFormed(c) /\ Len(u) = ReadableBytes(c)
  BY <1>1, <1>3, <1>5, <1>6, <1>7 DEF WellFormed, ReadableBytes
<1> QED
  BY <1>8, <1>9 DEF Holds

\* append puts data behind what the buffer holds.
LEMMA AppendHolds ==
  ASSUME NEW b, NEW s \in Seq(Byte), Holds(b, s), NEW data \in Seq(Byte)
  PROVE  Holds(BufferAppend(b, data), s \o data)
<1> DEFINE c == IF WritableBytes(b) < Len(data) THEN MakeSpace(b, Len(data)) ELSE b
<1>1. Len(data) \in Nat /\ SubSeq(data, 1, Len(data)) = data
  BY LenProperties, SubSeqFull
<1>2. WritableBytes(b) \in Int
  <2>1. b.store \in Seq(Byte) /\ b.writerIndex \in Nat
    BY DEF Holds, WellFormed
  <2> QED
    BY <2>1, LenProperties DEF WritableBytes
<1>3. Holds(c, s) /\ Len(data) <= WritableBytes(c)
  BY <1>1, <1>2, MakeSpaceHolds
<1>4. BufferAppend(b, data) =
        [c EXCEPT !.store = Copy(c.store, c.writerIndex, data),
                  !.writerIndex = c.writerIndex + Len(data)]
  BY DEF BufferAppend
<1> HIDE DEF c
<1>5. Len(data) \in 0..Len(data)
  BY <1>1
<1>6. Holds([c EXCEPT !.store = Copy(c.store, c.writerIndex, data),
                      !.writerIndex = c.writerIndex + Len(data)],
            s \o SubSeq(data, 1, Len(data)))
  BY <1>3, <1>5, WriteHolds, Zenon
<1> QED
  BY <1>1, <1>4, <1>6, Zenon

\* However readv splits the bytes between the vector and the stack buffer,
\* readFd appends them in order.
LEMMA ReadFdHolds ==
  ASSUME NEW b, NEW s \in Seq(Byte), Holds(b, s), NEW data \in Seq(Byte)
  PROVE  Holds(ReadFd(b, data), s \o data)
<1> DEFINE writable == WritableBytes(b)
           f == Copy(b.store, b.writerIndex, data)
<1>1. Len(data) \in Nat /\ SubSeq(data, 1, Len(data)) = data
  BY LenProperties, SubSeqFull
<1>2. /\ b.store \in Seq(Byte) /\ b.writerIndex \in Nat /\ Len(b.store) \in Nat
      /\ writable = Len(b.store) - b.writerIndex /\ writable \in Nat
      /\ b \in [store : Seq(Byte), readerIndex : Nat, writerIndex : Nat]
  <2>1. /\ b.store \in Seq(Byte) /\ b.writerIndex \in Nat
        /\ b \in [store : Seq(Byte), readerIndex : Nat, writerIndex : Nat]
        /\ b.writerIndex <= Len(b.store)
    BY DEF Holds, WellFormed
  <2> QED
    BY <2>1, LenProperties DEF WritableBytes
<1>3. CASE Len(data) <= writable
  <2>1. ReadFd(b, data) = [b EXCEPT !.store = f,
                                    !.writerIndex = b.writerIndex + Len(data)]
    BY <1>2, <1>3 DEF ReadFd
  <2>2. Len(data) \in 0..Len(data)
    BY <1>1
  <2>3. Holds([b EXCEPT !.store = f, !.writerIndex = b.writerIndex + Len(data)],
              s \o SubSeq(data, 1, Len(data)))
    BY <1>3, <2>2, WriteHolds, Zenon
  <2> QED
    BY <1>1, <2>1, <2>3, Zenon
<1>4. CASE ~(Len(data) <= writable)
  <2> DEFINE c  == [b EXCEPT !.store = f, !.writerIndex = b.writerIndex + writable]
             hd == SubSeq(data, 1, writable)
             tl == SubSeq(data, writable + 1, Len(data))
  <2>1. b.writerIndex + writable = Len(b.store)
    BY <1>2
  <2>2. ReadFd(b, data) = BufferAppend(c, tl)
    BY <1>2, <1>4, <2>1 DEF ReadFd
  <2>3. writable \in 0..Len(data) /\ writable <= WritableBytes(b)
    BY <1>1, <1>2, <1>4
  <2>4. Holds(c, s \o hd)
    BY <2>3, WriteHolds
  <2>5. hd \in Seq(Byte) /\ tl \in Seq(Byte) /\ hd \o tl = data
    <3>1. \A i \in 1..Len(data) : data[i] \in Byte
      BY ElementOfSeq
    <3>2. 1 \in Int /\ writable \in Int /\ \A i \in 1..writable : data[i] \in Byte
      BY <1>1, <1>2, <1>4, <3>1
    <3>3. hd \in Seq(Byte)
      BY <3>2, SubSeqProperties
    <3>4. writable + 1 \in Int /\ Len(data) \in Int
          /\ \A i \in writable + 1..Len(data) : data[i] \in Byte
      BY <1>1, <1>2, <1>4, <3>1
    <3>5. tl \in Seq(Byte)
      BY <3>4, SubSeqProperties
    <3>6. 1 \in 1..Len(data) + 1 /\ writable \in 1 - 1..Len(data)
          /\ Len(data) \in writable..Len(data)
      BY <1>1, <1>2, <1>4
    <3>7. hd \o tl = SubSeq(data, 1, Len(data))
      BY <3>6, ConcatAdjacentSubSeq
    <3> QED
      BY <1>1, <3>3, <3>5, <3>7
  <2> HIDE DEF c, hd, tl
  <2>6. s \o hd \in Seq(Byte)
    BY <2>5, ConcatProperties
  <2>7. Holds(BufferAppend(c, tl), Cat(Cat(s, hd), tl))
    BY <2>4, <2>5, <2>6, AppendHolds, Zenon DEF Cat
  <2>8. Cat(Cat(s, hd), tl) = Cat(s, Cat(hd, tl))
    BY <2>5, CatAssociative
  <2>9. Cat(s, Cat(hd, tl)) = s \o data
    BY <2>5 DEF Cat
  <2> QED
    BY <2>2, <2>7, <2>8, <2>9, Zenon
<1> QED
  BY <1>3, <1>4

----------------------------------------------------------------------------
(* Induction.  The induction theorems of the library have an operator as a *)
(* parameter; a least counterexample does as well and needs only a set.    *)

LEMMA LeastNumber ==
  ASSUME NEW T \in SUBSET Nat, T # {}
  PROVE  \E m \in T : \A k \in T : m <= k
<1> DEFINE R == OpToRel(<, Nat)
<1>1. IsWellFoundedOn(R, Nat)
  BY NatLessThanWellFounded
<1>2. \A x, y \in Nat : y < x => <<y, x>> \in R
  BY Zenon DEF OpToRel
<1> HIDE DEF R
<1>3. PICK m \in T : \A k \in T : ~(<<k, m>> \in R)
  BY <1>1, WFMin, Zenon
<1>4. \A k \in T : ~(k < m)
  BY <1>2, <1>3, Zenon
<1> QED
  BY <1>4

\* Strong induction up to n, with a set for the property.
LEMMA InductionUpTo ==
  ASSUME NEW n \in Nat, NEW G, \A m \in 0..n : 0..m - 1 \subseteq G => m \in G
  PROVE  0..n \subseteq G
<1> DEFINE T == {m \in 0..n : m \notin G}
<1> SUFFICES ASSUME T # {} PROVE FALSE
  OBVIOUS
<1>1. T \in SUBSET Nat
  OBVIOUS
<1>2. PICK m \in T : \A k \in T : m <= k
  BY <1>1, LeastNumber
<1>3. ASSUME NEW k \in 0..m - 1 PROVE k \in G
  <2>1. k \in 0..n /\ ~(m <= k)
    OBVIOUS
  <2> QED
    BY <1>2, <2>1
<1> QED
  BY <1>3

----------------------------------------------------------------------------
(* The length field *)

\* The function that Digits defines.
DigitStep(f, d, i) ==
  IF i = 0 THEN [value |-> 0, multiplier |-> 1]
  ELSE [value      |-> f[i - 1].value + (d[i] % Base) * f[i - 1].multiplier,
        multiplier |-> f[i - 1].multiplier * Base]
DigitSums(d) == CHOOSE f : f = [i \in 0..Len(d) |-> DigitStep(f, d, i)]

\* Digits is the last value of that function.
LEMMA DigitsIsSum == ASSUME NEW d PROVE Digits(d) = DigitSums(d)[Len(d)].value
BY Zenon DEF Digits, DigitSums, DigitStep

\* The recursion of Digits defines a function.
LEMMA DigitSumsExist ==
  ASSUME NEW d \in Seq(Byte)
  PROVE  DigitSums(d) = [i \in 0..Len(d) |-> DigitStep(DigitSums(d), d, i)]
<1> DEFINE Good(m) == \E f : f = [i \in 0..m |-> DigitStep(f, d, i)]
           T == {m \in 0..Len(d) : ~Good(m)}
<1>1. Len(d) \in Nat
  BY LenProperties
<1>2. Good(0)
  <2> DEFINE f == [i \in 0..0 |-> [value |-> 0, multiplier |-> 1]]
  <2>1. f = [i \in 0..0 |-> DigitStep(f, d, i)]
    BY DEF DigitStep
  <2> QED
    BY <2>1, Zenon
<1>3. ASSUME NEW m \in 1..Len(d), Good(m - 1)
      PROVE  Good(m)
  <2>1. PICK f : f = [i \in 0..m - 1 |-> DigitStep(f, d, i)]
    BY <1>3
  <2> DEFINE g == [i \in 0..m |-> DigitStep(f, d, i)]
  <2>2. ASSUME NEW i \in 0..m PROVE DigitStep(f, d, i) = DigitStep(g, d, i)
    <3>1. CASE i = 0
      BY <3>1 DEF DigitStep
    <3>2. CASE i # 0
      <4>1. i - 1 \in 0..m - 1 /\ i - 1 \in 0..m
        BY <3>2
      <4>2. f[i - 1] = DigitStep(f, d, i - 1)
        BY <2>1, <4>1
      <4>3. g[i - 1] = DigitStep(f, d, i - 1)
        BY <4>1
      <4>4. f[i - 1] = g[i - 1]
        BY <4>2, <4>3
      <4> HIDE DEF g
      <4> QED
        BY <4>4 DEF DigitStep
    <3> QED
      BY <3>1, <3>2
  <2>3. g = [i \in 0..m |-> DigitStep(g, d, i)]
    BY <2>2
  <2> QED
    BY <2>3, Zenon
<1> HIDE DEF Good
<1>4. T = {}
  <2> SUFFICES ASSUME T # {} PROVE FALSE
    OBVIOUS
  <2>1. PICK m \in T : \A k \in T : m <= k
    <3>1. T \in SUBSET Nat
      BY <1>1
    <3> QED
      BY <3>1, LeastNumber
  <2>2. m # 0 /\ m \in 0..Len(d)
    BY <1>2, <2>1
  <2>3. m \in 1..Len(d) /\ m - 1 \in 0..Len(d) /\ ~(m <= m - 1)
    BY <1>1, <2>2
  <2>4. Good(m - 1)
    BY <2>1, <2>3
  <2> QED
    BY <1>3, <2>1, <2>3, <2>4
<1>5. Good(Len(d))
  BY <1>1, <1>4
<1> QED
  BY <1>5, Zenon DEF Good, DigitSums

\* The sums of Digits are numbers.
LEMMA DigitSumsTypes ==
  ASSUME NEW d \in Seq(Byte)
  PROVE  \A i \in 0..Len(d) :
           DigitSums(d)[i].value \in Nat /\ DigitSums(d)[i].multiplier \in Nat
<1> DEFINE V == DigitSums(d)
           Sum == [value : Nat, multiplier : Nat]
           T == {i \in 0..Len(d) : V[i] \notin Sum}
<1>1. Len(d) \in Nat /\ Base \in Nat \ {0, 1}
  BY LenProperties, FramingAssumption
<1>2. V = [i \in 0..Len(d) |-> DigitStep(V, d, i)]
  BY DigitSumsExist
<1> HIDE DEF V
<1>3. V[0] \in Sum
  BY <1>1, <1>2 DEF DigitStep
<1>4. ASSUME NEW i \in 1..Len(d), V[i - 1] \in Sum
      PROVE  V[i] \in Sum
  <2>1. i \in 0..Len(d) /\ i # 0
    BY <1>1
  <2>2. V[i] = [value |-> V[i - 1].value + (d[i] % Base) * V[i - 1].multiplier,
                multiplier |-> V[i - 1].multiplier * Base]
    BY <1>2, <2>1 DEF DigitStep
  <2>3. d[i] \in Nat
    BY ElementOfSeq, ByteFacts
  <2>4. d[i] % Base \in Nat
    BY <1>1, <2>3
  <2>5. V[i - 1].value \in Nat /\ V[i - 1].multiplier \in Nat
    BY <1>4
  <2>6. \A a, b, c \in Nat : a + b * c \in Nat /\ b * c \in Nat
    OBVIOUS
  <2>7. V[i - 1].value + (d[i] % Base) * V[i - 1].multiplier \in Nat
        /\ V[i - 1].multiplier * Base \in Nat
    BY <1>1, <2>4, <2>5, <2>6
  <2> QED
    BY <2>2, <2>7
<1>5. T = {}
  <2> SUFFICES ASSUME T # {} PROVE FALSE
    OBVIOUS
  <2>1. PICK m \in T : \A k \in T : m <= k
    <3>1. T \in SUBSET Nat
      BY <1>1
    <3> QED
      BY <3>1, LeastNumber
  <2>2. m # 0 /\ m \in 0..Len(d)
    BY <1>3, <2>1
  <2>3. m \in 1..Len(d) /\ m - 1 \in 0..Len(d) /\ ~(m <= m - 1)
    BY <1>1, <2>2
  <2>4. V[m - 1] \in Sum
    BY <2>1, <2>3
  <2> QED
    BY <1>4, <2>1, <2>3, <2>4
<1>6. \A i \in 0..Len(d) : V[i] \in Sum
  BY <1>5
<1> QED
  BY <1>6 DEF V

\* A length field's value is a number.
LEMMA DigitsNat ==
  ASSUME NEW d \in Seq(Byte)
  PROVE  Digits(d) \in Nat
<1>1. Len(d) \in 0..Len(d)
  BY LenProperties
<1> QED
  BY <1>1, DigitSumsTypes, DigitsIsSum

\* The parts of DecodeRemainingLength: how far it looks, where it finds a last
\* byte, and how many bytes the field has.
Looked(d) == IF Len(d) < LenBytes THEN Len(d) ELSE LenBytes
Lasts(d) == {i \in 1..Looked(d) : d[i] < Base}
FieldLen(d) == IF Lasts(d) = {} THEN Looked(d)
               ELSE CHOOSE i \in Lasts(d) : \A j \in Lasts(d) : i <= j

\* decodeRemainingLength in terms of those parts.
LEMMA DecodeParts ==
  ASSUME NEW d
  PROVE  /\ DecodeRemainingLength(d).value = Digits(SubSeq(d, 1, FieldLen(d)))
         /\ DecodeRemainingLength(d).consumed =
              IF Lasts(d) = {} THEN FieldLen(d) + 1 ELSE FieldLen(d)
BY DEF DecodeRemainingLength, FieldLen, Lasts, Looked

\* Where the field ends.
LEMMA FieldLenFacts ==
  ASSUME NEW d \in Seq(Byte)
  PROVE  /\ Looked(d) \in 0..Len(d) /\ FieldLen(d) \in 0..Looked(d)
         /\ Lasts(d) # {} => /\ FieldLen(d) \in Lasts(d)
                             /\ \A j \in Lasts(d) : FieldLen(d) <= j
<1>1. Len(d) \in Nat /\ LenBytes \in Nat
  BY LenProperties, FramingAssumption
<1>2. Looked(d) \in 0..Len(d)
  BY <1>1 DEF Looked
<1>3. CASE Lasts(d) = {}
  BY <1>1, <1>2, <1>3 DEF FieldLen
<1>4. CASE Lasts(d) # {}
  <2>1. Lasts(d) \in SUBSET Nat /\ Lasts(d) \subseteq 1..Looked(d)
    BY <1>2 DEF Lasts
  <2>2. \E i \in Lasts(d) : \A j \in Lasts(d) : i <= j
    BY <1>4, <2>1, LeastNumber
  <2>3. FieldLen(d) = CHOOSE i \in Lasts(d) : \A j \in Lasts(d) : i <= j
    BY <1>4 DEF FieldLen
  <2>4. FieldLen(d) \in Lasts(d) /\ \A j \in Lasts(d) : FieldLen(d) <= j
    BY <2>2, <2>3, Zenon
  <2> QED
    BY <1>1, <1>2, <2>1, <2>4
<1> QED
  BY <1>3, <1>4

\* The front of a byte sequence.
LEMMA PrefixSeq ==
  ASSUME NEW d \in Seq(Byte), NEW n \in 0..Len(d)
  PROVE  /\ SubSeq(d, 1, n) \in Seq(Byte) /\ Len(SubSeq(d, 1, n)) = n
         /\ \A i \in 1..n : SubSeq(d, 1, n)[i] = d[i]
<1>1. Len(d) \in Nat
  BY LenProperties
<1>2. 1 \in Int /\ n \in Int /\ \A i \in 1..n : d[i] \in Byte
  BY <1>1, ElementOfSeq
<1>3. /\ SubSeq(d, 1, n) \in Seq(Byte)
      /\ Len(SubSeq(d, 1, n)) = IF 1 <= n THEN n - 1 + 1 ELSE 0
      /\ \A i \in 1..n - 1 + 1 : SubSeq(d, 1, n)[i] = d[1 + i - 1]
  BY <1>2, SubSeqProperties
<1>4. Len(SubSeq(d, 1, n)) = n
  BY <1>1, <1>3
<1>5. ASSUME NEW i \in 1..n PROVE SubSeq(d, 1, n)[i] = d[i]
  <2>1. i \in 1..n - 1 + 1 /\ 1 + i - 1 = i
    BY <1>1
  <2> QED
    BY <2>1, <1>3
<1> QED
  BY <1>3, <1>4, <1>5

\* The length field's value and size are numbers, and it has a byte.
LEMMA DecodeTypes ==
  ASSUME NEW d \in Seq(Byte), Len(d) > 0
  PROVE  /\ DecodeRemainingLength(d).value \in Nat
         /\ DecodeRemainingLength(d).consumed \in Nat \ {0}
<1>1. FieldLen(d) \in 0..Len(d) /\ Len(d) \in Nat
  BY FieldLenFacts, LenProperties
<1>2. SubSeq(d, 1, FieldLen(d)) \in Seq(Byte)
  BY <1>1, PrefixSeq
<1>3. Lasts(d) # {} => FieldLen(d) \in Nat \ {0}
  BY FieldLenFacts, <1>1 DEF Lasts
<1>4. Digits(SubSeq(d, 1, FieldLen(d))) \in Nat
  BY <1>2, DigitsNat
<1>5. FieldLen(d) + 1 \in Nat \ {0}
  BY <1>1
<1> QED
  BY <1>3, <1>4, <1>5, DecodeParts

\* e starts with d.
StartsWith(e, d) == Len(d) <= Len(e) /\ \A i \in 1..Len(d) : e[i] = d[i]

\* A field that is complete, or has the greatest length, is read the same when
\* more bytes follow.
LEMMA DecodeStable ==
  ASSUME NEW d \in Seq(Byte), NEW e \in Seq(Byte), StartsWith(e, d),
         Lasts(d) # {} \/ LenBytes <= Len(d)
  PROVE  /\ DecodeRemainingLength(e).value = DecodeRemainingLength(d).value
         /\ DecodeRemainingLength(e).consumed = DecodeRemainingLength(d).consumed
<1>1. /\ Len(d) \in Nat /\ Len(e) \in Nat /\ LenBytes \in Nat /\ Base \in Nat
      /\ Len(d) <= Len(e)
  BY LenProperties, FramingAssumption DEF StartsWith
<1>2. \A i \in 1..Len(d) : e[i] = d[i]
  BY DEF StartsWith
<1>3. Looked(d) <= Looked(e) /\ Looked(d) \in 0..Len(d) /\ Looked(e) \in 0..Len(e)
  BY <1>1 DEF Looked
<1>4. \A i \in 1..Looked(d) : i \in Lasts(e) <=> i \in Lasts(d)
  BY <1>1, <1>2, <1>3 DEF Lasts
<1>5. (Lasts(e) = {} <=> Lasts(d) = {}) /\ FieldLen(e) = FieldLen(d)
  <2>1. CASE Lasts(d) # {}
    <3>1. FieldLen(d) \in Lasts(d) /\ \A j \in Lasts(d) : FieldLen(d) <= j
      BY <2>1, FieldLenFacts
    <3>2. FieldLen(d) \in 1..Looked(d) /\ FieldLen(d) \in Lasts(e)
      BY <1>4, <3>1 DEF Lasts
    <3>3. FieldLen(e) \in Lasts(e) /\ FieldLen(e) <= FieldLen(d)
      BY <3>2, FieldLenFacts
    <3>4. FieldLen(e) \in 1..Looked(d)
      BY <1>3, <3>2, <3>3 DEF Lasts
    <3>5. FieldLen(d) <= FieldLen(e)
      BY <1>4, <3>1, <3>3, <3>4
    <3>6. FieldLen(e) = FieldLen(d)
      BY <1>3, <3>2, <3>3, <3>4, <3>5
    <3> QED
      BY <2>1, <3>2, <3>6
  <2>2. CASE Lasts(d) = {}
    <3>1. Looked(d) = LenBytes /\ Looked(e) = LenBytes
      BY <1>1, <2>2 DEF Looked
    <3>2. Lasts(e) = {}
      BY <1>4, <2>2, <3>1 DEF Lasts
    <3> QED
      BY <2>2, <3>1, <3>2 DEF FieldLen
  <2> QED
    BY <2>1, <2>2
<1>6. FieldLen(d) \in 0..Len(d) /\ FieldLen(d) \in 0..Len(e)
  BY <1>1, FieldLenFacts
<1>7. SubSeq(e, 1, FieldLen(d)) = SubSeq(d, 1, FieldLen(d))
  <2> DEFINE n == FieldLen(d)
             x == SubSeq(d, 1, n)
             y == SubSeq(e, 1, n)
  <2>1. /\ x \in Seq(Byte) /\ Len(x) = n /\ \A i \in 1..n : x[i] = d[i]
        /\ y \in Seq(Byte) /\ Len(y) = n /\ \A i \in 1..n : y[i] = e[i]
    BY <1>6, PrefixSeq
  <2>2. \A i \in 1..n : i \in 1..Len(d)
    BY <1>1, <1>6
  <2> HIDE DEF n, x, y
  <2>3. \A i \in 1..Len(y) : y[i] = x[i]
    BY <1>2, <2>1, <2>2
  <2>4. y = x
    BY <2>1, <2>3, SeqEqual
  <2> QED
    BY <2>4 DEF x, y, n
<1> QED
  BY <1>5, <1>7, DecodeParts

----------------------------------------------------------------------------
(* MqttCodec::parse *)

\* The parsers of the packet bodies accept or refuse; they make at most one
\* call, and none for a packet they refuse.
LEMMA ParseBodyFacts ==
  ASSUME NEW head \in Byte, NEW body
  PROVE  LET out == ParseBody(head, body)
         IN  \/ out = Error
             \/ out = Ok(<< >>)
             \/ \E type \in Types : \E args : out = Ok(Call(type, args))
<1>1. Type[head] \in Types
  BY FramingAssumption
<1>2. CASE Type[head] = "CONNECT"
  <2>1. ParseBody(head, body) = ParseConnect(body)
    BY <1>2 DEF ParseBody
  <2>2. "CONNECT" \in Types
    BY DEF Types
  <2> QED
    BY <2>1, <2>2, Zenon DEF ParseConnect
<1>3. CASE Type[head] = "PUBLISH"
  <2>1. ParseBody(head, body) = ParsePublish(Qos[head], body)
    BY <1>3 DEF ParseBody
  <2>2. "PUBLISH" \in Types
    BY DEF Types
  <2> QED
    BY <2>1, <2>2, Zenon DEF ParsePublish
<1>4. CASE Type[head] = "PUBACK"
  <2>1. ParseBody(head, body) = ParsePubAck(body)
    BY <1>4 DEF ParseBody
  <2> QED
    BY <2>1, Zenon DEF ParsePubAck
<1>5. CASE Type[head] = "SUBSCRIBE"
  <2>1. ParseBody(head, body) = ParseSubscribe(body)
    BY <1>5 DEF ParseBody
  <2>2. "SUBSCRIBE" \in Types
    BY DEF Types
  <2> QED
    BY <2>1, <2>2, Zenon DEF ParseSubscribe
<1>6. CASE Type[head] \in {"PINGREQ", "DISCONNECT"}
  <2>1. ParseBody(head, body) = Ok(Call(Type[head], << >>))
    BY <1>6 DEF ParseBody
  <2> QED
    BY <1>1, <2>1, Zenon
<1>7. CASE Type[head] = "other"
  <2>1. ParseBody(head, body) = Ok(<< >>)
    BY <1>7 DEF ParseBody
  <2> QED
    BY <2>1, Zenon
<1> QED
  BY <1>1, <1>2, <1>3, <1>4, <1>5, <1>6, <1>7 DEF Types

\* What parse finds out about the front of r.
HeadLen(r) == 1 + DecodeRemainingLength(Tail(r)).consumed
TotalLen(r) == HeadLen(r) + DecodeRemainingLength(Tail(r)).value
PacketBody(r) == SubSeq(r, HeadLen(r) + 1, TotalLen(r))

\* The bytes behind the first.
LEMMA TailFacts ==
  ASSUME NEW r \in Seq(Byte), 2 <= Len(r)
  PROVE  /\ Tail(r) \in Seq(Byte) /\ Len(Tail(r)) = Len(r) - 1
         /\ \A i \in 1..Len(r) - 1 : Tail(r)[i] = r[i + 1]
         /\ Len(r) \in Nat /\ r[1] \in Byte
<1>1. Len(r) \in Nat
  BY LenProperties
<1>2. r # << >>
  BY <1>1, EmptySeq
<1>3. r[1] \in Byte
  BY <1>1, ElementOfSeq
<1> QED
  BY <1>1, <1>2, <1>3, HeadTailProperties

\* A packet that is not INCOMPLETE lies within r and is not empty.
LEMMA ParseParts ==
  ASSUME NEW r \in Seq(Byte)
  PROVE  IF Len(r) < 2 \/ Len(r) < TotalLen(r)
         THEN Parse(r) = Incomplete
         ELSE /\ HeadLen(r) \in 2..TotalLen(r) /\ TotalLen(r) \in 2..Len(r)
              /\ Parse(r) = [result |-> ParseBody(r[1], PacketBody(r)).result,
                             calls  |-> ParseBody(r[1], PacketBody(r)).calls,
                             total  |-> TotalLen(r)]
<1>1. CASE Len(r) < 2 \/ Len(r) < TotalLen(r)
  BY <1>1, Zenon DEF Parse, TotalLen, HeadLen
<1>2. CASE ~(Len(r) < 2 \/ Len(r) < TotalLen(r))
  <2> DEFINE rl == DecodeRemainingLength(Tail(r))
  <2>1. Len(r) \in Nat /\ 2 <= Len(r)
    BY <1>2, LenProperties
  <2>2. Tail(r) \in Seq(Byte) /\ Len(Tail(r)) > 0
    BY <2>1, TailFacts
  <2>3. rl.value \in Nat /\ rl.consumed \in Nat \ {0}
    BY <2>2, DecodeTypes
  <2>4. HeadLen(r) = 1 + rl.consumed /\ TotalLen(r) = 1 + rl.consumed + rl.value
    BY <2>3 DEF HeadLen, TotalLen
  <2>5. Parse(r) =
          [result |-> ParseBody(r[1], SubSeq(r, TotalLen(r) - rl.value + 1,
                                                TotalLen(r))).result,
           calls  |-> ParseBody(r[1], SubSeq(r, TotalLen(r) - rl.value + 1,
                                                TotalLen(r))).calls,
           total  |-> TotalLen(r)]
    BY <1>2, Zenon DEF Parse, TotalLen, HeadLen
  <2> HIDE DEF rl
  <2>6. /\ HeadLen(r) \in 2..TotalLen(r) /\ TotalLen(r) \in 2..Len(r)
        /\ TotalLen(r) - rl.value + 1 = HeadLen(r) + 1
    BY <1>2, <2>1, <2>3, <2>4
  <2>7. SubSeq(r, TotalLen(r) - rl.value + 1, TotalLen(r)) = PacketBody(r)
    BY <2>6 DEF PacketBody
  <2> QED
    BY <1>2, <2>5, <2>6, <2>7, Zenon
<1> QED
  BY <1>1, <1>2

\* The calls parse can make.
AllCalls == {Parse(r).calls[1] : r \in {q \in Seq(Byte) : Parse(q).calls # << >>}}

\* Every result of parse has its type, and a packet that is taken lies in r.
LEMMA ParseFacts ==
  ASSUME NEW r \in Seq(Byte)
  PROVE  /\ Parse(r).result \in {"OK", "ERROR", "INCOMPLETE"}
         /\ Parse(r).calls \in Seq(AllCalls)
         /\ Parse(r).result # "OK" => Parse(r).calls = << >>
         /\ Parse(r).result # "INCOMPLETE" => Parse(r).total \in 2..Len(r)
         /\ \A i \in DOMAIN Parse(r).calls : Parse(r).calls[i].type \in Types
<1>1. CASE Len(r) < 2 \/ Len(r) < TotalLen(r)
  <2>1. Parse(r) = Incomplete
    BY <1>1, ParseParts
  <2> QED
    BY <2>1, EmptySeq DEF Incomplete
<1>2. CASE ~(Len(r) < 2 \/ Len(r) < TotalLen(r))
  <2> DEFINE out == ParseBody(r[1], PacketBody(r))
  <2>1. /\ TotalLen(r) \in 2..Len(r)
        /\ Parse(r) = [result |-> out.result, calls |-> out.calls,
                       total |-> TotalLen(r)]
    BY <1>2, ParseParts
  <2>2. r[1] \in Byte
    <3>1. Len(r) \in Nat /\ 2 <= Len(r)
      BY <1>2, LenProperties
    <3> QED
      BY <3>1, TailFacts
  <2>3. \/ out = Error
        \/ out = Ok(<< >>)
        \/ \E type \in Types : \E args : out = Ok(Call(type, args))
    BY <2>2, ParseBodyFacts, Zenon
  <2> HIDE DEF out
  <2>4. /\ Parse(r).result = out.result /\ Parse(r).calls = out.calls
        /\ Parse(r).total = TotalLen(r)
    BY <2>1
  <2>5. CASE out = Error \/ out = Ok(<< >>)
    <3>1. out.result \in {"OK", "ERROR"} /\ out.calls = << >>
      BY <2>5 DEF Error, Ok
    <3>2. << >> \in Seq(AllCalls) /\ DOMAIN << >> = {}
      BY EmptySeq
    <3> QED
      BY <2>1, <2>4, <3>1, <3>2
  <2>6. CASE \E type \in Types : \E args : out = Ok(Call(type, args))
    <3>0. PICK type \in Types : \E args : out = Ok(Call(type, args))
      BY <2>6
    <3>1. PICK args : out = Ok(Call(type, args))
      BY <3>0
    <3> DEFINE c == [type |-> type, args |-> args]
    <3>2. Parse(r).calls = <<c>> /\ Parse(r).result = "OK" /\ c.type \in Types
      BY <2>4, <3>1 DEF Ok, Call
    <3> HIDE DEF c
    <3>3. Parse(r).calls # << >> /\ Parse(r).calls[1] = c
      BY <3>2
    <3>4. c \in AllCalls
      BY <3>3 DEF AllCalls
    <3>5. <<c>> \in Seq(AllCalls) /\ DOMAIN <<c>> = 1..1 /\ <<c>>[1] = c
      BY <3>4
    <3> QED
      BY <2>1, <2>4, <3>2, <3>5
  <2> QED
    BY <2>3, <2>5, <2>6
<1> QED
  BY <1>1, <1>2

\* A call names a packet type.
LEMMA CallTypes == \A c \in AllCalls : c.type \in Types
<1> SUFFICES ASSUME NEW c \in AllCalls PROVE c.type \in Types
  OBVIOUS
<1>1. PICK r \in Seq(Byte) : Parse(r).calls # << >> /\ c = Parse(r).calls[1]
  BY DEF AllCalls
<1>2. Parse(r).calls \in Seq(AllCalls)
  BY ParseFacts
<1>3. 1 \in DOMAIN Parse(r).calls
  <2>1. Len(Parse(r).calls) \in Nat \ {0}
    BY <1>1, <1>2, EmptySeq
  <2> QED
    BY <1>2, <2>1, LenProperties
<1> QED
  BY <1>1, <1>3, ParseFacts

\* A packet that is not INCOMPLETE is parsed the same whatever follows it.
LEMMA ParseStable ==
  ASSUME NEW r \in Seq(Byte), NEW s \in Seq(Byte), StartsWith(s, r),
         Parse(r).result # "INCOMPLETE"
  PROVE  Parse(s) = Parse(r)
<1>1. ~(Len(r) < 2 \/ Len(r) < TotalLen(r))
  BY ParseParts DEF Incomplete
<1>2. /\ Len(r) \in Nat /\ Len(s) \in Nat /\ 2 <= Len(r) /\ 2 <= Len(s)
      /\ Len(r) <= Len(s)
  BY <1>1, LenProperties DEF StartsWith
<1>3. \A i \in 1..Len(r) : s[i] = r[i]
  BY DEF StartsWith
<1>4. /\ HeadLen(r) \in 2..TotalLen(r) /\ TotalLen(r) \in 2..Len(r)
      /\ Parse(r) = [result |-> ParseBody(r[1], PacketBody(r)).result,
                     calls  |-> ParseBody(r[1], PacketBody(r)).calls,
                     total  |-> TotalLen(r)]
  BY <1>1, ParseParts, Zenon
<1> DEFINE d == Tail(r)
           e == Tail(s)
<1>5. /\ d \in Seq(Byte) /\ Len(d) = Len(r) - 1
      /\ \A i \in 1..Len(r) - 1 : d[i] = r[i + 1]
  BY <1>2, TailFacts
<1>6. /\ e \in Seq(Byte) /\ Len(e) = Len(s) - 1
      /\ \A i \in 1..Len(s) - 1 : e[i] = s[i + 1]
  BY <1>2, TailFacts
<1>7. HeadLen(r) = 1 + DecodeRemainingLength(d).consumed
  BY DEF HeadLen
<1> HIDE DEF d, e
<1>8. StartsWith(e, d)
  <2>1. Len(d) <= Len(e)
    BY <1>2, <1>5, <1>6
  <2>2. ASSUME NEW i \in 1..Len(d) PROVE e[i] = d[i]
    <3>1. i \in 1..Len(r) - 1 /\ i \in 1..Len(s) - 1 /\ i + 1 \in 1..Len(r)
      BY <1>2, <1>5
    <3> QED
      BY <3>1, <1>3, <1>5, <1>6
  <2> QED
    BY <2>1, <2>2 DEF StartsWith
<1>9. Lasts(d) # {} \/ LenBytes <= Len(d)
  <2> SUFFICES ASSUME Lasts(d) = {}, ~(LenBytes <= Len(d)) PROVE FALSE
    OBVIOUS
  <2>1. FieldLen(d) = Len(d) /\ LenBytes \in Nat
    BY <1>2, <1>5, FramingAssumption DEF FieldLen, Looked
  <2>2. DecodeRemainingLength(d).consumed = Len(d) + 1
    BY <2>1, DecodeParts
  <2> QED
    BY <1>2, <1>4, <1>5, <1>7, <2>2
<1>10. HeadLen(s) = HeadLen(r) /\ TotalLen(s) = TotalLen(r)
  BY <1>5, <1>6, <1>8, <1>9, DecodeStable DEF HeadLen, TotalLen, d, e
<1>11. PacketBody(s) = PacketBody(r)
  <2> DEFINE m == HeadLen(r) + 1
             n == TotalLen(r)
             x == SubSeq(r, m, n)
             y == SubSeq(s, m, n)
  <2>1. m \in Int /\ n \in Int /\ \A i \in m..n : i \in 1..Len(r) /\ i \in 1..Len(s)
    BY <1>2, <1>4
  <2>2. \A i \in m..n : r[i] \in Byte /\ s[i] \in Byte /\ s[i] = r[i]
    BY <1>3, <2>1, ElementOfSeq
  <2> HIDE DEF m, n
  <2>3. /\ x \in Seq(Byte) /\ Len(x) = IF m <= n THEN n - m + 1 ELSE 0
        /\ \A i \in 1..n - m + 1 : x[i] = r[m + i - 1]
    BY <2>1, <2>2, SubSeqProperties
  <2>4. /\ y \in Seq(Byte) /\ Len(y) = IF m <= n THEN n - m + 1 ELSE 0
        /\ \A i \in 1..n - m + 1 : y[i] = s[m + i - 1]
    BY <2>1, <2>2, SubSeqProperties
  <2> HIDE DEF x, y
  <2>5. ASSUME NEW i \in 1..Len(y) PROVE y[i] = x[i]
    <3>1. i \in 1..n - m + 1 /\ m + i - 1 \in m..n
      BY <2>1, <2>4
    <3> QED
      BY <3>1, <2>2, <2>3, <2>4
  <2>6. y = x
    BY <2>3, <2>4, <2>5, SeqEqual
  <2> QED
    BY <1>10, <2>6 DEF PacketBody, x, y, m, n
<1>12. ~(Len(s) < 2 \/ Len(s) < TotalLen(s))
  BY <1>2, <1>4, <1>10
<1>13. Parse(s) = [result |-> ParseBody(s[1], PacketBody(s)).result,
                   calls  |-> ParseBody(s[1], PacketBody(s)).calls,
                   total  |-> TotalLen(s)]
  BY <1>12, ParseParts, Zenon
<1>14. s[1] = r[1]
  BY <1>2, <1>3
<1> QED
  BY <1>4, <1>10, <1>11, <1>13, <1>14, Zenon

----------------------------------------------------------------------------
(* Parsing in one go *)

\* The function that ParsedFrom defines.
ParsedStep(f, s, i) ==
  LET parsed == Parse(SubSeq(s, i + 1, Len(s)))
      rest   == f[i + parsed.total]
  IN  CASE parsed.result = "INCOMPLETE" -> [calls |-> << >>, failed |-> FALSE]
        [] parsed.result = "ERROR" -> [calls |-> << >>, failed |-> TRUE]
        [] parsed.result = "OK" -> [calls |-> parsed.calls \o rest.calls,
                                    failed |-> rest.failed]

\* ParsedFrom is the function of that recursion.
LEMMA ParsedFromIs ==
  ASSUME NEW s
  PROVE  ParsedFrom(s) = CHOOSE f : f = [i \in 0..Len(s) |-> ParsedStep(f, s, i)]
BY Zenon DEF ParsedFrom, ParsedStep

\* The rest of a byte sequence.
LEMMA SuffixSeq ==
  ASSUME NEW s \in Seq(Byte), NEW i \in 0..Len(s)
  PROVE  /\ SubSeq(s, i + 1, Len(s)) \in Seq(Byte)
         /\ Len(SubSeq(s, i + 1, Len(s))) = Len(s) - i
         /\ Len(s) \in Nat
<1>1. Len(s) \in Nat
  BY LenProperties
<1>2. i + 1 \in Int /\ Len(s) \in Int /\ \A j \in i + 1..Len(s) : s[j] \in Byte
  BY <1>1, ElementOfSeq
<1>3. /\ SubSeq(s, i + 1, Len(s)) \in Seq(Byte)
      /\ Len(SubSeq(s, i + 1, Len(s))) =
           IF i + 1 <= Len(s) THEN Len(s) - (i + 1) + 1 ELSE 0
  BY <1>2, SubSeqProperties
<1> QED
  BY <1>1, <1>3

\* One step of parsing, case by case; its packet ends further on.
LEMMA ParsedStepIs ==
  ASSUME NEW f, NEW s \in Seq(Byte), NEW i \in 0..Len(s)
  PROVE  LET parsed == Parse(SubSeq(s, i + 1, Len(s)))
         IN  \/ /\ parsed.result = "INCOMPLETE"
                /\ ParsedStep(f, s, i) = [calls |-> << >>, failed |-> FALSE]
             \/ /\ parsed.result = "ERROR"
                /\ ParsedStep(f, s, i) = [calls |-> << >>, failed |-> TRUE]
             \/ /\ parsed.result = "OK"
                /\ i + parsed.total \in i + 1..Len(s)
                /\ parsed.calls \in Seq(AllCalls)
                /\ ParsedStep(f, s, i) =
                     [calls  |-> parsed.calls \o f[i + parsed.total].calls,
                      failed |-> f[i + parsed.total].failed]
<1> DEFINE r == SubSeq(s, i + 1, Len(s))
<1>1. r \in Seq(Byte) /\ Len(r) = Len(s) - i /\ Len(s) \in Nat
  BY SuffixSeq
<1>2. ParsedStep(f, s, i) =
        CASE Parse(r).result = "INCOMPLETE" -> [calls |-> << >>, failed |-> FALSE]
          [] Parse(r).result = "ERROR" -> [calls |-> << >>, failed |-> TRUE]
          [] Parse(r).result = "OK" ->
               [calls  |-> Parse(r).calls \o f[i + Parse(r).total].calls,
                failed |-> f[i + Parse(r).total].failed]
  BY Zenon DEF ParsedStep
<1> HIDE DEF r
<1>3. /\ Parse(r).result \in {"OK", "ERROR", "INCOMPLETE"}
      /\ Parse(r).calls \in Seq(AllCalls)
      /\ Parse(r).result # "INCOMPLETE" => Parse(r).total \in 2..Len(r)
  BY <1>1, ParseFacts
<1>4. CASE Parse(r).result = "INCOMPLETE"
  <2>1. ParsedStep(f, s, i) = [calls |-> << >>, failed |-> FALSE]
    BY <1>2, <1>4
  <2> QED
    BY <1>4, <2>1 DEF r
<1>5. CASE Parse(r).result = "ERROR"
  <2>1. ParsedStep(f, s, i) = [calls |-> << >>, failed |-> TRUE]
    BY <1>2, <1>5
  <2> QED
    BY <1>5, <2>1 DEF r
<1>6. CASE Parse(r).result = "OK"
  <2>1. i + Parse(r).total \in i + 1..Len(s)
    BY <1>1, <1>3, <1>6
  <2>2. ParsedStep(f, s, i) =
          [calls  |-> Parse(r).calls \o f[i + Parse(r).total].calls,
           failed |-> f[i + Parse(r).total].failed]
    BY <1>2, <1>6
  <2> QED
    BY <1>3, <1>6, <2>1, <2>2 DEF r
<1> QED
  BY <1>3, <1>4, <1>5, <1>6

\* The recursion of ParsedFrom defines a function: each call is for a place
\* further on.
LEMMA ParsedFromExists ==
  ASSUME NEW s \in Seq(Byte)
  PROVE  ParsedFrom(s) = [i \in 0..Len(s) |-> ParsedStep(ParsedFrom(s), s, i)]
<1> DEFINE n == Len(s)
           From(k) == n - k..n
           Good(k) == \E f : f = [i \in From(k) |-> ParsedStep(f, s, i)]
           T == {k \in 0..n : ~Good(k)}
<1>1. n \in Nat
  BY LenProperties
<1>2. ASSUME NEW k \in 0..n, k # 0 => Good(k - 1)
      PROVE  Good(k)
  <2>1. PICK f : k # 0 => f = [i \in From(k - 1) |-> ParsedStep(f, s, i)]
    BY <1>2
  <2> DEFINE g == [i \in From(k) |-> ParsedStep(f, s, i)]
  <2>2. ASSUME NEW i \in From(k) PROVE ParsedStep(f, s, i) = ParsedStep(g, s, i)
    <3> DEFINE parsed == Parse(SubSeq(s, i + 1, Len(s)))
    <3>1. i \in 0..Len(s)
      BY <1>1
    <3>2. ASSUME parsed.result = "OK", i + parsed.total \in i + 1..Len(s)
          PROVE  f[i + parsed.total] = g[i + parsed.total]
      <4> DEFINE j == i + parsed.total
      <4>1. k # 0 /\ j \in From(k - 1) /\ j \in From(k)
        BY <1>1, <3>1, <3>2
      <4> HIDE DEF j
      <4>2. f[j] = ParsedStep(f, s, j)
        BY <2>1, <4>1, Zenon
      <4>3. g[j] = ParsedStep(f, s, j)
        BY <4>1
      <4> QED
        BY <4>2, <4>3 DEF j
    <3> HIDE DEF g, parsed
    <3>3. \/ /\ parsed.result = "INCOMPLETE"
             /\ ParsedStep(f, s, i) = [calls |-> << >>, failed |-> FALSE]
          \/ /\ parsed.result = "ERROR"
             /\ ParsedStep(f, s, i) = [calls |-> << >>, failed |-> TRUE]
          \/ /\ parsed.result = "OK"
             /\ i + parsed.total \in i + 1..Len(s)
             /\ ParsedStep(f, s, i) =
                  [calls  |-> parsed.calls \o f[i + parsed.total].calls,
                   failed |-> f[i + parsed.total].failed]
      BY <3>1, ParsedStepIs, Zenon DEF parsed
    <3>4. \/ /\ parsed.result = "INCOMPLETE"
             /\ ParsedStep(g, s, i) = [calls |-> << >>, failed |-> FALSE]
          \/ /\ parsed.result = "ERROR"
             /\ ParsedStep(g, s, i) = [calls |-> << >>, failed |-> TRUE]
          \/ /\ parsed.result = "OK"
             /\ i + parsed.total \in i + 1..Len(s)
             /\ ParsedStep(g, s, i) =
                  [calls  |-> parsed.calls \o g[i + parsed.total].calls,
                   failed |-> g[i + parsed.total].failed]
      BY <3>1, ParsedStepIs, Zenon DEF parsed
    <3>5. CASE parsed.result = "INCOMPLETE"
      BY <3>3, <3>4, <3>5
    <3>6. CASE parsed.result = "ERROR"
      BY <3>3, <3>4, <3>6
    <3>7. CASE parsed.result = "OK"
      <4>1. f[i + parsed.total] = g[i + parsed.total]
        BY <3>2, <3>3, <3>7
      <4> QED
        BY <3>3, <3>4, <3>7, <4>1
    <3> QED
      BY <3>3, <3>5, <3>6, <3>7
  <2>3. g = [i \in From(k) |-> ParsedStep(g, s, i)]
    BY <2>2, Zenon
  <2> QED
    BY <2>3, Zenon
<1> HIDE DEF Good
<1>3. T = {}
  <2> SUFFICES ASSUME T # {} PROVE FALSE
    OBVIOUS
  <2>1. PICK m \in T : \A k \in T : m <= k
    <3>1. T \in SUBSET Nat
      BY <1>1
    <3> QED
      BY <3>1, LeastNumber
  <2>2. m # 0 => m - 1 \in 0..n /\ ~(m <= m - 1)
    BY <1>1, <2>1
  <2>3. m # 0 => Good(m - 1)
    BY <2>1, <2>2
  <2> QED
    BY <1>2, <2>1, <2>3
<1>4. Good(n)
  BY <1>1, <1>3
<1>5. From(n) = 0..n
  BY <1>1
<1>6. \E f : f = [i \in 0..n |-> ParsedStep(f, s, i)]
  BY <1>4, <1>5 DEF Good
<1> QED
  BY <1>6, ParsedFromIs, Zenon

\* Parsing from any place makes a sequence of calls and fails or not.
LEMMA ParsedFromTypes ==
  ASSUME NEW s \in Seq(Byte)
  PROVE  \A i \in 0..Len(s) : ParsedFrom(s)[i].calls \in Seq(AllCalls)
<1> DEFINE n == Len(s)
           F == ParsedFrom(s)
           T == {k \in 0..n : F[n - k].calls \notin Seq(AllCalls)}
<1>1. n \in Nat
  BY LenProperties
<1>2. F = [i \in 0..n |-> ParsedStep(F, s, i)]
  BY ParsedFromExists
<1> HIDE DEF F
<1>3. T = {}
  <2> SUFFICES ASSUME T # {} PROVE FALSE
    OBVIOUS
  <2>1. PICK m \in T : \A k \in T : m <= k
    <3>1. T \in SUBSET Nat
      BY <1>1
    <3> QED
      BY <3>1, LeastNumber
  <2> DEFINE i == n - m
             parsed == Parse(SubSeq(s, i + 1, Len(s)))
  <2>2. i \in 0..Len(s) /\ m \in 0..n
    BY <1>1, <2>1
  <2>3. F[i] = ParsedStep(F, s, i)
    BY <1>2, <2>2
  <2>4. F[i].calls \notin Seq(AllCalls)
    BY <2>1
  <2>5. \/ ParsedStep(F, s, i) = [calls |-> << >>, failed |-> FALSE]
        \/ ParsedStep(F, s, i) = [calls |-> << >>, failed |-> TRUE]
        \/ /\ i + parsed.total \in i + 1..Len(s)
           /\ parsed.calls \in Seq(AllCalls)
           /\ ParsedStep(F, s, i) =
                [calls  |-> parsed.calls \o F[i + parsed.total].calls,
                 failed |-> F[i + parsed.total].failed]
    <3> HIDE DEF i
    <3> QED
      BY <2>2, ParsedStepIs, Zenon
  <2> HIDE DEF parsed
  <2>6. ~(F[i].calls = << >>)
    BY <2>4, EmptySeq
  <2>7. /\ i + parsed.total \in i + 1..Len(s)
        /\ parsed.calls \in Seq(AllCalls)
        /\ F[i].calls = parsed.calls \o F[i + parsed.total].calls
    <3> HIDE DEF i
    <3>1. \A x : ParsedStep(F, s, i) = [calls |-> << >>, failed |-> x] =>
                   F[i].calls = << >>
      BY <2>3
    <3>2. /\ i + parsed.total \in i + 1..Len(s)
          /\ parsed.calls \in Seq(AllCalls)
          /\ F[i] = [calls  |-> parsed.calls \o F[i + parsed.total].calls,
                     failed |-> F[i + parsed.total].failed]
      BY <2>3, <2>5, <2>6, <3>1, Zenon
    <3>3. \A x, y, z : x = [calls |-> y, failed |-> z] => x.calls = y
      OBVIOUS
    <3> QED
      BY <3>2, <3>3, ZenonT(60)
  <2> DEFINE j == n - (i + parsed.total)
  <2>8. j \in 0..n /\ ~(m <= j) /\ n - j = i + parsed.total
    BY <1>1, <2>2, <2>7
  <2>9. F[i + parsed.total].calls \in Seq(AllCalls)
    <3> HIDE DEF j
    <3>1. j \notin T
      BY <2>1, <2>8
    <3>2. F[n - j].calls \in Seq(AllCalls)
      BY <2>8, <3>1
    <3> QED
      BY <2>8, <3>2
  <2> QED
    BY <2>4, <2>7, <2>9, ConcatProperties
<1>4. ASSUME NEW i \in 0..n PROVE F[i].calls \in Seq(AllCalls)
  <2>1. n - i \in 0..n /\ n - (n - i) = i
    BY <1>1
  <2>2. F[n - (n - i)].calls \in Seq(AllCalls)
    BY <1>3, <2>1
  <2> QED
    BY <2>1, <2>2
<1> QED
  BY <1>4 DEF F

\* A part of a byte sequence, and a part of that part.
LEMMA WindowSeq ==
  ASSUME NEW s \in Seq(Byte), NEW b \in 0..Len(s), NEW a \in 0..b
  PROVE  /\ SubSeq(s, a + 1, b) \in Seq(Byte)
         /\ Len(SubSeq(s, a + 1, b)) = b - a
         /\ \A i \in 1..b - a : SubSeq(s, a + 1, b)[i] = s[a + i]
         /\ Len(s) \in Nat /\ a \in Nat /\ b \in Nat
<1>1. Len(s) \in Nat /\ a \in Nat /\ b \in Nat /\ a <= b /\ b <= Len(s)
  BY LenProperties
<1>2. a + 1 \in Int /\ b \in Int /\ \A j \in a + 1..b : s[j] \in Byte
  BY <1>1, ElementOfSeq
<1> DEFINE x == SubSeq(s, a + 1, b)
<1>3. /\ x \in Seq(Byte)
      /\ Len(x) = IF a + 1 <= b THEN b - (a + 1) + 1 ELSE 0
      /\ \A i \in 1..b - (a + 1) + 1 : x[i] = s[a + 1 + i - 1]
  BY <1>2, SubSeqProperties
<1> HIDE DEF x
<1>4. Len(x) = b - a
  BY <1>1, <1>3
<1>5. ASSUME NEW i \in 1..b - a PROVE x[i] = s[a + i]
  <2>1. i \in 1..b - (a + 1) + 1 /\ a + 1 + i - 1 = a + i
    BY <1>1
  <2> QED
    BY <2>1, <1>3
<1> QED
  BY <1>1, <1>3, <1>4, <1>5 DEF x

\* Bytes dropped from the front of a window leave the shorter window.
LEMMA WindowOfWindow ==
  ASSUME NEW s \in Seq(Byte), NEW b \in 0..Len(s), NEW a \in 0..b,
         NEW t \in 0..b - a
  PROVE  SubSeq(SubSeq(s, a + 1, b), t + 1, b - a) = SubSeq(s, a + t + 1, b)
<1> DEFINE w == SubSeq(s, a + 1, b)
           x == SubSeq(w, t + 1, b - a)
           y == SubSeq(s, (a + t) + 1, b)
<1>1. /\ w \in Seq(Byte) /\ Len(w) = b - a
      /\ \A i \in 1..b - a : w[i] = s[a + i]
      /\ Len(s) \in Nat /\ a \in Nat /\ b \in Nat
  BY WindowSeq
<1> HIDE DEF w
<1>2. b - a \in 0..Len(w) /\ a + t \in 0..b /\ a <= b /\ t \in Nat
  BY <1>1
<1>3. /\ x \in Seq(Byte) /\ Len(x) = (b - a) - t
      /\ \A i \in 1..(b - a) - t : x[i] = w[t + i]
  BY <1>1, <1>2, WindowSeq
<1>4. /\ y \in Seq(Byte) /\ Len(y) = b - (a + t)
      /\ \A i \in 1..b - (a + t) : y[i] = s[(a + t) + i]
  BY <1>2, WindowSeq
<1> HIDE DEF x, y
<1>5. Len(x) = Len(y)
  BY <1>1, <1>2, <1>3, <1>4
<1>6. ASSUME NEW i \in 1..Len(x) PROVE x[i] = y[i]
  <2>1. /\ i \in 1..(b - a) - t /\ i \in 1..b - (a + t) /\ t + i \in 1..b - a
        /\ a + (t + i) = (a + t) + i
    BY <1>1, <1>2, <1>3
  <2> QED
    BY <2>1, <1>1, <1>3, <1>4
<1>7. x = y
  BY <1>3, <1>4, <1>5, <1>6, SeqEqual
<1> QED
  BY <1>7 DEF x, y, w

\* Parsing the first n bytes in one go, where it stands at c.
LEMMA ParsedAt ==
  ASSUME NEW s \in Seq(Byte), NEW n \in 0..Len(s), NEW c \in 0..n
  PROVE  LET F == ParsedFrom(SubSeq(s, 1, n))
             parsed == Parse(SubSeq(s, c + 1, n))
         IN  \/ /\ parsed.result = "INCOMPLETE"
                /\ F[c] = [calls |-> << >>, failed |-> FALSE]
             \/ /\ parsed.result = "ERROR"
                /\ F[c] = [calls |-> << >>, failed |-> TRUE]
             \/ /\ parsed.result = "OK"
                /\ c + parsed.total \in c + 1..n
                /\ F[c + parsed.total].calls \in Seq(AllCalls)
                /\ F[c] = [calls  |-> parsed.calls \o F[c + parsed.total].calls,
                           failed |-> F[c + parsed.total].failed]
<1> DEFINE p == SubSeq(s, 1, n)
           F == ParsedFrom(p)
           q == SubSeq(p, c + 1, Len(p))
<1>1. p \in Seq(Byte) /\ Len(p) = n
  BY PrefixSeq
<1>2. q = SubSeq(s, c + 1, n)
  <2>1. 0 \in 0..n /\ n - 0 = n /\ c \in 0..n - 0 /\ 0 + c + 1 = c + 1 /\ 0 + 1 = 1
    BY LenProperties
  <2>2. SubSeq(SubSeq(s, 0 + 1, n), c + 1, n - 0) = SubSeq(s, 0 + c + 1, n)
    BY <2>1, WindowOfWindow
  <2> QED
    BY <1>1, <2>1, <2>2
<1> HIDE DEF p
<1>3. F = [i \in 0..Len(p) |-> ParsedStep(F, p, i)]
  BY <1>1, ParsedFromExists
<1>4. \A i \in 0..Len(p) : F[i].calls \in Seq(AllCalls)
  BY <1>1, ParsedFromTypes
<1> HIDE DEF F
<1>5. F[c] = ParsedStep(F, p, c) /\ c \in 0..Len(p)
  BY <1>1, <1>3
<1>6. \/ /\ Parse(q).result = "INCOMPLETE"
         /\ ParsedStep(F, p, c) = [calls |-> << >>, failed |-> FALSE]
      \/ /\ Parse(q).result = "ERROR"
         /\ ParsedStep(F, p, c) = [calls |-> << >>, failed |-> TRUE]
      \/ /\ Parse(q).result = "OK"
         /\ c + Parse(q).total \in c + 1..Len(p)
         /\ ParsedStep(F, p, c) =
              [calls  |-> Parse(q).calls \o F[c + Parse(q).total].calls,
               failed |-> F[c + Parse(q).total].failed]
  BY <1>1, <1>5, ParsedStepIs, Zenon
<1> HIDE DEF q
<1>7. c + Parse(q).total \in c + 1..Len(p) => c + Parse(q).total \in 0..Len(p)
  BY <1>1
<1>8. \/ /\ Parse(q).result = "INCOMPLETE"
         /\ F[c] = [calls |-> << >>, failed |-> FALSE]
      \/ /\ Parse(q).result = "ERROR"
         /\ F[c] = [calls |-> << >>, failed |-> TRUE]
      \/ /\ Parse(q).result = "OK"
         /\ c + Parse(q).total \in c + 1..n
         /\ F[c + Parse(q).total].calls \in Seq(AllCalls)
         /\ F[c] = [calls  |-> Parse(q).calls \o F[c + Parse(q).total].calls,
                    failed |-> F[c + Parse(q).total].failed]
  BY <1>1, <1>4, <1>5, <1>6, <1>7, Zenon
<1> QED
  BY <1>2, <1>8, Zenon DEF F, p

----------------------------------------------------------------------------
(* The encoders: the length field *)

\* Division, as the encoders use it.
LEMMA DivMod ==
  ASSUME NEW n \in Nat, NEW b \in Nat \ {0}
  PROVE  n \div b \in Nat /\ n % b \in 0..b - 1
OBVIOUS

\* A remainder is what the quotient leaves.
LEMMA DivRest ==
  ASSUME NEW n \in Nat, NEW b \in Nat \ {0}
  PROVE  n % b = n - b * (n \div b)
OBVIOUS

\* A quotient is smaller: the loop of encodeRemainingLength ends.
LEMMA DivSmaller ==
  ASSUME NEW b \in Nat \ {0, 1}, NEW n \in Nat \ {0}
  PROVE  n \div b < n
OBVIOUS

\* A bound on the number bounds the quotient: the field has at most LenBytes bytes.
LEMMA DivBelow ==
  ASSUME NEW b \in Nat \ {0}, NEW n \in Nat, NEW c \in Nat, n < b * c
  PROVE  n \div b < c
OBVIOUS

\* The continuation bit, which adds Base, does not change a digit.
LEMMA ModSum ==
  ASSUME NEW b \in Nat \ {0}, NEW r \in 0..b - 1
  PROVE  r % b = r /\ (r + b) % b = r
OBVIOUS

\* Shifting every digit by one place multiplies their sum by Base.
LEMMA DigitArithmetic ==
  /\ \A a, b, v, x, m \in Nat : (a + b * v) + x * (b * m) = a + b * (v + x * m)
  /\ \A b, m \in Nat : (b * m) * b = b * (m * b) /\ b * m \in Nat
OBVIOUS

\* The first byte of a length field is its lowest digit.
LEMMA DigitsCons ==
  ASSUME NEW a \in Byte, NEW t \in Seq(Byte)
  PROVE  Digits(<<a>> \o t) = (a % Base) + Base * Digits(t)
<1> DEFINE d == <<a>> \o t
           V == DigitSums(d)
           W == DigitSums(t)
           n == Len(t)
           Good(i) == /\ V[i + 1].value = (a % Base) + Base * W[i].value
                      /\ V[i + 1].multiplier = Base * W[i].multiplier
           T == {i \in 0..n : ~Good(i)}
<1>1. n \in Nat /\ Base \in Nat \ {0} /\ a \in Nat /\ a % Base \in Nat
  BY LenProperties, FramingAssumption, ByteFacts, DivMod
<1>2. /\ d \in Seq(Byte) /\ Len(d) = n + 1 /\ d[1] = a
      /\ \A i \in 1..n : d[i + 1] = t[i]
  <2>1. <<a>> \in Seq(Byte) /\ Len(<<a>>) = 1 /\ <<a>>[1] = a
    OBVIOUS
  <2>2. /\ d \in Seq(Byte) /\ Len(d) = 1 + n
        /\ \A i \in 1..1 + n : d[i] = IF i <= 1 THEN <<a>>[i] ELSE t[i - 1]
    BY <2>1, ConcatProperties
  <2> HIDE DEF d
  <2>3. ASSUME NEW i \in 1..n PROVE d[i + 1] = t[i]
    <3>1. i + 1 \in 1..1 + n /\ ~(i + 1 <= 1) /\ i + 1 - 1 = i
      BY <1>1
    <3> QED
      BY <2>2, <3>1
  <2> QED
    BY <1>1, <2>1, <2>2, <2>3
<1> HIDE DEF d
<1>3. /\ V = [i \in 0..n + 1 |-> DigitStep(V, d, i)]
      /\ W = [i \in 0..n |-> DigitStep(W, t, i)]
  BY <1>2, DigitSumsExist
<1>4. \A i \in 0..n : W[i].value \in Nat /\ W[i].multiplier \in Nat
  BY DigitSumsTypes
<1>5. \A i \in 1..n : t[i] % Base \in Nat
  <2>1. \A i \in 1..n : t[i] \in Nat
    BY ElementOfSeq, ByteFacts
  <2> QED
    BY <1>1, <2>1
<1> HIDE DEF V, W
<1>6. Good(0)
  <2>1. W[0].value = 0 /\ W[0].multiplier = 1 /\ V[0].value = 0 /\ V[0].multiplier = 1
    BY <1>1, <1>3 DEF DigitStep
  <2>2. 1 \in 0..n + 1
    BY <1>1
  <2>3. V[1] = [value |-> V[1 - 1].value + (d[1] % Base) * V[1 - 1].multiplier,
                multiplier |-> V[1 - 1].multiplier * Base]
    BY <1>3, <2>2 DEF DigitStep
  <2>4. V[1].value = V[0].value + (a % Base) * V[0].multiplier
        /\ V[1].multiplier = V[0].multiplier * Base
    BY <1>2, <2>3
  <2> QED
    BY <1>1, <2>1, <2>4
<1>7. ASSUME NEW i \in 1..n, Good(i - 1)
      PROVE  Good(i)
  <2>1. i \in 0..n /\ i # 0 /\ i + 1 \in 0..n + 1 /\ i + 1 # 0 /\ i + 1 - 1 = i
        /\ i - 1 \in 0..n /\ i - 1 + 1 = i
    BY <1>1
  <2>2. /\ W[i].value = W[i - 1].value + (t[i] % Base) * W[i - 1].multiplier
        /\ W[i].multiplier = W[i - 1].multiplier * Base
    <3>1. W[i] = [value |-> W[i - 1].value + (t[i] % Base) * W[i - 1].multiplier,
                  multiplier |-> W[i - 1].multiplier * Base]
      BY <1>3, <2>1 DEF DigitStep
    <3> QED
      BY <3>1
  <2>3. /\ V[i + 1].value = V[i].value + (t[i] % Base) * V[i].multiplier
        /\ V[i + 1].multiplier = V[i].multiplier * Base
    <3>1. V[i + 1] = [value |-> V[i + 1 - 1].value
                                  + (d[i + 1] % Base) * V[i + 1 - 1].multiplier,
                      multiplier |-> V[i + 1 - 1].multiplier * Base]
      BY <1>3, <2>1 DEF DigitStep
    <3> QED
      BY <3>1, <2>1, <1>2
  <2>4. /\ V[i].value = (a % Base) + Base * W[i - 1].value
        /\ V[i].multiplier = Base * W[i - 1].multiplier
    BY <1>7, <2>1
  <2>5. /\ W[i - 1].value \in Nat /\ W[i - 1].multiplier \in Nat /\ t[i] % Base \in Nat
    BY <1>4, <1>5, <2>1
  <2> DEFINE x == t[i] % Base
             v == W[i - 1].value
             m == W[i - 1].multiplier
             r == a % Base
  <2> HIDE DEF x, v, m, r
  <2>6. ((a % Base) + Base * W[i - 1].value) + (t[i] % Base) * (Base * W[i - 1].multiplier)
          = (a % Base) + Base * (W[i - 1].value + (t[i] % Base) * W[i - 1].multiplier)
    <3>1. (r + Base * v) + x * (Base * m) = r + Base * (v + x * m)
      <4>1. x \in Nat /\ v \in Nat /\ m \in Nat /\ r \in Nat /\ Base \in Nat
        BY <1>1, <2>5 DEF x, v, m, r
      <4> QED
        BY <4>1
    <3> QED
      BY <3>1, Zenon DEF x, v, m, r
  <2>7. (Base * W[i - 1].multiplier) * Base = Base * (W[i - 1].multiplier * Base)
    BY <1>1, <2>5, DigitArithmetic
  <2> QED
    BY <2>2, <2>3, <2>4, <2>6, <2>7
<1> HIDE DEF Good
<1>8. T = {}
  <2> SUFFICES ASSUME T # {} PROVE FALSE
    OBVIOUS
  <2>1. PICK m \in T : \A k \in T : m <= k
    <3>1. T \in SUBSET Nat
      BY <1>1
    <3> QED
      BY <3>1, LeastNumber
  <2>2. m # 0 /\ m \in 0..n
    BY <1>6, <2>1
  <2>3. m \in 1..n /\ m - 1 \in 0..n /\ ~(m <= m - 1)
    BY <1>1, <2>2
  <2>4. Good(m - 1)
    BY <2>1, <2>3
  <2> QED
    BY <1>7, <2>1, <2>3, <2>4
<1>9. Good(n)
  BY <1>1, <1>8
<1>10. V[n + 1].value = (a % Base) + Base * W[n].value
  BY <1>9 DEF Good
<1> QED
  BY <1>2, <1>10, DigitsIsSum DEF V, W, d

\* A single digit.
LEMMA DigitsOne ==
  ASSUME NEW a \in 0..Base - 1
  PROVE  Digits(<<a>>) = a
<1>1. a \in Byte /\ Base \in Nat \ {0} /\ a \in Nat
  BY FramingAssumption DEF Byte
<1>2. << >> \in Seq(Byte) /\ Len(<< >>) = 0
  BY EmptySeq
<1>3. Digits(<<a>> \o << >>) = (a % Base) + Base * Digits(<< >>)
  BY <1>1, <1>2, DigitsCons
<1>4. DigitSums(<< >>)[0].value = 0
  <2>1. DigitSums(<< >>) = [i \in 0..0 |-> DigitStep(DigitSums(<< >>), << >>, i)]
    BY <1>2, DigitSumsExist
  <2>2. DigitSums(<< >>)[0] = [value |-> 0, multiplier |-> 1]
    BY <2>1 DEF DigitStep
  <2> QED
    BY <2>2
<1>5. Digits(<< >>) = 0
  BY <1>2, <1>4, DigitsIsSum
<1>6. <<a>> \o << >> = <<a>>
  OBVIOUS
<1>7. a % Base = a
  BY <1>1, ModSum
<1> QED
  BY <1>1, <1>3, <1>5, <1>6, <1>7

\* The function that encodeRemainingLength's loop defines.
EncodeStep(f, n) ==
  IF n < Base THEN <<n>> ELSE <<(n % Base) + Base>> \o f[n \div Base]
LengthFields(len) == CHOOSE f : f = [n \in 0..len |-> EncodeStep(f, n)]

\* encodeRemainingLength returns the last value of that function.
LEMMA EncodeIsField ==
  ASSUME NEW len
  PROVE  EncodeRemainingLength(len) = LengthFields(len)[len]
BY Zenon DEF EncodeRemainingLength, LengthFields, EncodeStep

\* The recursion defines a function: each value depends on a smaller quotient.
LEMMA LengthFieldsExist ==
  ASSUME NEW len \in Nat
  PROVE  LengthFields(len) = [n \in 0..len |-> EncodeStep(LengthFields(len), n)]
<1> DEFINE Good(m) == \E f : f = [n \in 0..m |-> EncodeStep(f, n)]
           G == {m \in 0..len : Good(m)}
<1>1. Base \in Nat \ {0, 1}
  BY FramingAssumption
<1>2. ASSUME NEW m \in 0..len, m = 0 \/ Good(m - 1) PROVE Good(m)
  <2>1. \E f : \A n \in 0..m - 1 : f[n] = EncodeStep(f, n)
    <3>1. CASE m = 0
      BY <3>1
    <3>2. CASE m # 0
      <4>1. PICK f : f = [n \in 0..m - 1 |-> EncodeStep(f, n)]
        BY <1>2, <3>2
      <4>2. \A n \in 0..m - 1 : f[n] = EncodeStep(f, n)
        BY <4>1, Zenon
      <4> QED
        BY <4>2, Zenon
    <3> QED
      BY <3>1, <3>2
  <2>2. PICK f : \A n \in 0..m - 1 : f[n] = EncodeStep(f, n)
    BY <2>1
  <2> DEFINE g == [n \in 0..m |-> EncodeStep(f, n)]
  <2>3. ASSUME NEW n \in 0..m PROVE EncodeStep(f, n) = EncodeStep(g, n)
    <3>1. CASE n < Base
      BY <3>1 DEF EncodeStep
    <3>2. CASE ~(n < Base)
      <4>1. n \in Nat \ {0} /\ n <= m
        BY <1>1, <3>2
      <4>2. n \div Base \in Nat /\ n \div Base < n
        BY <1>1, <4>1, DivMod, DivSmaller
      <4>3. n \div Base \in 0..m - 1 /\ n \div Base \in 0..m
        BY <4>1, <4>2
      <4>4. f[n \div Base] = g[n \div Base]
        BY <2>2, <4>3, Zenon
      <4> HIDE DEF g
      <4> QED
        BY <3>2, <4>4, Zenon DEF EncodeStep
    <3> QED
      BY <3>1, <3>2
  <2>4. g = [n \in 0..m |-> EncodeStep(g, n)]
    BY <2>3
  <2> QED
    BY <2>4, Zenon
<1> HIDE DEF Good
<1>3. ASSUME NEW m \in 0..len, 0..m - 1 \subseteq G PROVE m \in G
  <2>1. m = 0 \/ m - 1 \in 0..m - 1
    OBVIOUS
  <2> QED
    BY <1>2, <1>3, <2>1
<1>4. 0..len \subseteq G
  <2> HIDE DEF G
  <2> QED
    BY <1>3, InductionUpTo
<1>5. Good(len)
  BY <1>4
<1> QED
  BY <1>5, Zenon DEF Good, LengthFields

\* A length field: bytes of which only the last is below Base, with value n.
IsField(d, n) ==
  /\ d \in Seq(Byte) /\ Len(d) >= 1
  /\ d[Len(d)] < Base /\ \A i \in 1..Len(d) - 1 : ~(d[i] < Base)
  /\ Digits(d) = n

\* A length below Base is a field of one byte.
LEMMA FieldOne ==
  ASSUME NEW n \in 0..Base - 1
  PROVE  IsField(<<n>>, n)
<1>1. n \in Byte /\ Base \in Nat
  BY FramingAssumption DEF Byte
<1>2. <<n>> \in Seq(Byte) /\ Len(<<n>>) = 1 /\ <<n>>[1] = n
  BY <1>1
<1>3. \A i \in 1..1 - 1 : ~(<<n>>[i] < Base)
  OBVIOUS
<1>4. Digits(<<n>>) = n
  BY DigitsOne
<1> QED
  BY <1>1, <1>2, <1>3, <1>4 DEF IsField

\* One more turn of the loop puts a digit in front of a field.
LEMMA FieldCons ==
  ASSUME NEW n \in Nat, ~(n < Base), NEW t, IsField(t, n \div Base)
  PROVE  IsField(<<(n % Base) + Base>> \o t, n)
<1> DEFINE r == n % Base
           q == n \div Base
           a == r + Base
           d == <<a>> \o t
           k == Len(t)
<1>1. Base \in Nat \ {0, 1} /\ r \in 0..Base - 1 /\ q \in Nat
  BY FramingAssumption, DivMod
<1>2. t \in Seq(Byte) /\ k \in Nat /\ k >= 1 /\ t[k] < Base
      /\ Digits(t) = q /\ \A i \in 1..k - 1 : ~(t[i] < Base)
  BY LenProperties DEF IsField
<1>3. a % Base = r
  BY <1>1, ModSum
<1>4. n % Base = n - Base * (n \div Base)
  BY <1>1, DivRest
<1> HIDE DEF r, q
<1>5. a \in Byte /\ ~(a < Base) /\ a \in Nat
  BY <1>1 DEF Byte
<1>6. r + Base * q = n
  <2>1. r = n - Base * q
    BY <1>4, Zenon DEF r, q
  <2> QED
    BY <1>1, <2>1
<1> HIDE DEF a
<1>7. Digits(d) = (a % Base) + Base * Digits(t)
  BY <1>2, <1>5, DigitsCons
<1>8. Digits(d) = n
  BY <1>2, <1>3, <1>6, <1>7, Zenon
<1>9. /\ d \in Seq(Byte) /\ Len(d) = k + 1 /\ d[1] = a
      /\ \A i \in 1..k : d[i + 1] = t[i]
  <2>1. <<a>> \in Seq(Byte) /\ Len(<<a>>) = 1 /\ <<a>>[1] = a
    BY <1>5
  <2>2. /\ d \in Seq(Byte) /\ Len(d) = 1 + k
        /\ \A i \in 1..1 + k : d[i] = IF i <= 1 THEN <<a>>[i] ELSE t[i - 1]
    BY <1>2, <2>1, ConcatProperties
  <2> HIDE DEF d
  <2>3. ASSUME NEW i \in 1..k PROVE d[i + 1] = t[i]
    <3>1. i + 1 \in 1..1 + k /\ ~(i + 1 <= 1) /\ i + 1 - 1 = i
      BY <1>2
    <3> QED
      BY <2>2, <3>1
  <2> QED
    BY <1>2, <2>1, <2>2, <2>3
<1> HIDE DEF d, k
<1>10. d[Len(d)] < Base
  BY <1>2, <1>9
<1>11. ASSUME NEW i \in 1..Len(d) - 1 PROVE ~(d[i] < Base)
  <2>1. CASE i = 1
    BY <1>5, <1>9, <2>1
  <2>2. CASE i # 1
    <3>1. i - 1 \in 1..k - 1 /\ i - 1 \in 1..k /\ i - 1 + 1 = i
      BY <1>2, <1>9, <2>2
    <3> QED
      BY <1>2, <1>9, <3>1
  <2> QED
    BY <2>1, <2>2
<1> QED
  BY <1>2, <1>8, <1>9, <1>10, <1>11 DEF IsField, d, a, r

\* encodeRemainingLength writes a length field with the value it is given.
LEMMA EncodedField ==
  ASSUME NEW n \in Nat
  PROVE  IsField(EncodeRemainingLength(n), n)
<1> DEFINE E == LengthFields(n)
           G == {m \in 0..n : IsField(E[m], m)}
<1>1. Base \in Nat \ {0, 1}
  BY FramingAssumption
<1>2. \A m \in 0..n : E[m] = EncodeStep(E, m)
  BY LengthFieldsExist, Zenon
<1> HIDE DEF E
<1>3. ASSUME NEW m \in 0..n, 0..m - 1 \subseteq G PROVE IsField(E[m], m)
  <2>1. CASE m < Base
    <3>1. E[m] = <<m>>
      BY <1>2, <2>1, Zenon DEF EncodeStep
    <3>2. m \in 0..Base - 1
      BY <1>1, <2>1
    <3> QED
      BY <3>1, <3>2, FieldOne
  <2>2. CASE ~(m < Base)
    <3>1. m \in Nat \ {0}
      BY <1>1, <2>2
    <3>2. m \div Base \in Nat /\ m \div Base < m
      BY <1>1, <3>1, DivMod, DivSmaller
    <3>3. m \div Base \in 0..m - 1
      BY <3>1, <3>2
    <3>4. IsField(E[m \div Base], m \div Base)
      BY <1>3, <3>3, Zenon
    <3>5. E[m] = <<(m % Base) + Base>> \o E[m \div Base]
      BY <1>2, <2>2, Zenon DEF EncodeStep
    <3>6. IsField(<<(m % Base) + Base>> \o E[m \div Base], m)
      BY <2>2, <3>1, <3>4, FieldCons
    <3> QED
      BY <3>5, <3>6, Zenon
  <2> QED
    BY <2>1, <2>2
<1>4. \A m \in 0..n : 0..m - 1 \subseteq G => m \in G
  BY <1>3, Zenon
<1>5. 0..n \subseteq G
  <2> HIDE DEF G
  <2> QED
    BY <1>4, InductionUpTo
<1>6. n \in 0..n
  OBVIOUS
<1>7. IsField(E[n], n)
  BY <1>5, <1>6, Zenon
<1> QED
  BY <1>7, EncodeIsField, Zenon DEF E

\* A concatenation starts with its first part.
LEMMA ConcatStarts ==
  ASSUME NEW d \in Seq(Byte), NEW e \in Seq(Byte)
  PROVE  /\ d \o e \in Seq(Byte) /\ Len(d \o e) = Len(d) + Len(e)
         /\ StartsWith(d \o e, d)
<1>1. Len(d) \in Nat /\ Len(e) \in Nat
  BY LenProperties
<1> DEFINE x == d \o e
<1>2. /\ x \in Seq(Byte) /\ Len(x) = Len(d) + Len(e)
      /\ \A i \in 1..Len(d) + Len(e) :
           x[i] = IF i <= Len(d) THEN d[i] ELSE e[i - Len(d)]
  BY ConcatProperties
<1> HIDE DEF x
<1>3. \A i \in 1..Len(d) : x[i] = d[i]
  BY <1>1, <1>2
<1> QED
  BY <1>1, <1>2, <1>3 DEF StartsWith, x

\* A length field of at most LenBytes is decoded to its value, whatever follows.
LEMMA DecodeField ==
  ASSUME NEW n \in Nat, NEW d, IsField(d, n), Len(d) <= LenBytes, NEW rest \in Seq(Byte)
  PROVE  /\ DecodeRemainingLength(d \o rest).value = n
         /\ DecodeRemainingLength(d \o rest).consumed = Len(d)
<1>1. /\ d \in Seq(Byte) /\ Len(d) \in Nat /\ Len(d) >= 1 /\ LenBytes \in Nat
      /\ d[Len(d)] < Base /\ \A i \in 1..Len(d) - 1 : ~(d[i] < Base)
      /\ Digits(d) = n
  BY LenProperties, FramingAssumption DEF IsField
<1>2. d \o rest \in Seq(Byte) /\ StartsWith(d \o rest, d)
  BY <1>1, ConcatStarts
<1>3. Looked(d) = Len(d)
  BY <1>1 DEF Looked
<1>4. Len(d) \in Lasts(d) /\ \A i \in Lasts(d) : i = Len(d)
  BY <1>1, <1>3 DEF Lasts
<1>5. FieldLen(d) = Len(d)
  BY <1>1, <1>4, FieldLenFacts
<1>6. SubSeq(d, 1, Len(d)) = d
  BY <1>1, SubSeqFull
<1>7. /\ DecodeRemainingLength(d).value = n
      /\ DecodeRemainingLength(d).consumed = Len(d)
  BY <1>1, <1>4, <1>5, <1>6, DecodeParts
<1> QED
  BY <1>1, <1>2, <1>4, <1>7, DecodeStable

----------------------------------------------------------------------------
(* A packet, its strings and its numbers *)

\* Where the parts of a packet are.
LEMMA PacketParts ==
  ASSUME NEW head \in Byte, NEW body \in Seq(Byte)
  PROVE  LET p == Packet(head, body)
             e == EncodeRemainingLength(Len(body))
         IN  /\ p \in Seq(Byte) /\ Len(p) = 1 + Len(e) + Len(body)
             /\ p[1] = head
             /\ \A i \in 1..Len(e) : p[1 + i] = e[i]
             /\ \A i \in 1..Len(body) : p[1 + Len(e) + i] = body[i]
<1> DEFINE e == EncodeRemainingLength(Len(body))
           f == <<head>> \o e
           p == f \o body
           k == Len(e)
           n == Len(body)
<1>1. n \in Nat
  BY LenProperties
<1>2. e \in Seq(Byte) /\ k \in Nat
  BY <1>1, EncodedField, LenProperties DEF IsField
<1> HIDE DEF e
<1>3. <<head>> \in Seq(Byte) /\ Len(<<head>>) = 1 /\ <<head>>[1] = head
  OBVIOUS
<1>4. /\ f \in Seq(Byte) /\ Len(f) = 1 + k
      /\ \A i \in 1..1 + k : f[i] = IF i <= 1 THEN <<head>>[i] ELSE e[i - 1]
  BY <1>2, <1>3, ConcatProperties
<1> HIDE DEF f
<1>5. /\ p \in Seq(Byte) /\ Len(p) = 1 + k + n
      /\ \A i \in 1..1 + k + n : p[i] = IF i <= 1 + k THEN f[i] ELSE body[i - (1 + k)]
  <2>1. /\ p \in Seq(Byte) /\ Len(p) = Len(f) + Len(body)
        /\ \A i \in 1..Len(f) + Len(body) :
             p[i] = IF i <= Len(f) THEN f[i] ELSE body[i - Len(f)]
    BY <1>4, ConcatProperties
  <2> HIDE DEF p, k
  <2> QED
    BY <1>4, <2>1, Zenon
<1> HIDE DEF p, k, n
<1>6. p[1] = head
  BY <1>1, <1>2, <1>3, <1>4, <1>5
<1>7. ASSUME NEW i \in 1..k PROVE p[1 + i] = e[i]
  <2>1. /\ 1 + i \in 1..1 + k + n /\ 1 + i \in 1..1 + k /\ 1 + i <= 1 + k
        /\ ~(1 + i <= 1) /\ 1 + i - 1 = i
    BY <1>1, <1>2
  <2> QED
    BY <1>4, <1>5, <2>1
<1>8. ASSUME NEW i \in 1..n PROVE p[1 + k + i] = body[i]
  <2> DEFINE j == 1 + k + i
  <2>1. j \in 1..1 + k + n /\ ~(j <= 1 + k) /\ j - (1 + k) = i
    BY <1>1, <1>2
  <2> HIDE DEF j
  <2>2. p[j] = body[i]
    BY <1>5, <2>1
  <2> QED
    BY <2>2 DEF j
<1>9. Packet(head, body) = p
  BY Zenon DEF Packet, p, f, e
<1> QED
  BY <1>5, <1>6, <1>7, <1>8, <1>9 DEF k, n, e

\* parse finds a packet's body, and the packet's end.
LEMMA PacketParsed ==
  ASSUME NEW head \in Byte, NEW body \in Seq(Byte), LengthFits(body)
  PROVE  LET p   == Packet(head, body)
             out == ParseBody(head, body)
         IN  /\ p \in Seq(Byte) /\ Len(p) >= 2
             /\ Parse(p) = [result |-> out.result, calls |-> out.calls,
                            total |-> Len(p)]
<1> DEFINE p == Packet(head, body)
           e == EncodeRemainingLength(Len(body))
           k == Len(e)
           n == Len(body)
           t == Tail(p)
           u == e \o body
<1>1. n \in Nat /\ IsField(e, n) /\ k <= LenBytes
  BY LenProperties, EncodedField DEF LengthFits
<1>2. e \in Seq(Byte) /\ k \in Nat /\ k >= 1
  BY <1>1, LenProperties DEF IsField
<1>3. /\ p \in Seq(Byte) /\ Len(p) = 1 + k + n /\ p[1] = head
      /\ \A i \in 1..k : p[1 + i] = e[i]
      /\ \A i \in 1..n : p[1 + k + i] = body[i]
  BY PacketParts
<1>4. /\ DecodeRemainingLength(u).value = n
      /\ DecodeRemainingLength(u).consumed = k
  BY <1>1, DecodeField
<1> HIDE DEF p, e
<1>5. Len(p) >= 2 /\ Len(p) \in Nat
  BY <1>1, <1>2, <1>3
<1>6. t = u
  <2>1. /\ t \in Seq(Byte) /\ Len(t) = k + n
        /\ \A i \in 1..k + n : t[i] = p[i + 1]
    <3>1. Len(p) - 1 = k + n
      BY <1>1, <1>2, <1>3
    <3> QED
      BY <1>3, <1>5, <3>1, TailFacts
  <2>2. /\ u \in Seq(Byte) /\ Len(u) = k + n
        /\ \A i \in 1..k + n : u[i] = IF i <= k THEN e[i] ELSE body[i - k]
    BY <1>2, ConcatProperties
  <2> HIDE DEF t, u, k, n
  <2>3. ASSUME NEW i \in 1..k + n PROVE t[i] = u[i]
    <3>1. CASE i <= k
      <4>1. i \in 1..k /\ i + 1 = 1 + i
        BY <1>1, <1>2, <3>1
      <4> QED
        BY <1>3, <2>1, <2>2, <3>1, <4>1
    <3>2. CASE ~(i <= k)
      <4>1. i - k \in 1..n /\ i + 1 = 1 + k + (i - k)
        BY <1>1, <1>2, <3>2
      <4> QED
        BY <1>3, <2>1, <2>2, <3>2, <4>1
    <3> QED
      BY <3>1, <3>2
  <2> QED
    BY <2>1, <2>2, <2>3, SeqEqual
<1>7. HeadLen(p) = 1 + k /\ TotalLen(p) = Len(p)
  <2>1. /\ DecodeRemainingLength(Tail(p)).value = n
        /\ DecodeRemainingLength(Tail(p)).consumed = k
    BY <1>4, <1>6
  <2> QED
    BY <1>1, <1>2, <1>3, <2>1 DEF HeadLen, TotalLen
<1>8. PacketBody(p) = body
  <2> DEFINE x == SubSeq(p, (1 + k) + 1, Len(p))
  <2>1. Len(p) \in 0..Len(p) /\ 1 + k \in 0..Len(p) /\ Len(p) - (1 + k) = n
    BY <1>1, <1>2, <1>3, <1>5
  <2>2. /\ x \in Seq(Byte) /\ Len(x) = n
        /\ \A i \in 1..n : x[i] = p[(1 + k) + i]
    BY <1>3, <2>1, WindowSeq
  <2> HIDE DEF x, n, k
  <2>3. \A i \in 1..n : x[i] = body[i]
    BY <1>3, <2>2
  <2>4. x = body
    BY <2>2, <2>3, SeqEqual DEF n
  <2> QED
    BY <1>7, <2>4 DEF PacketBody, x
<1>9. ~(Len(p) < 2 \/ Len(p) < TotalLen(p))
  BY <1>5, <1>7
<1>10. Parse(p) = [result |-> ParseBody(p[1], PacketBody(p)).result,
                   calls  |-> ParseBody(p[1], PacketBody(p)).calls,
                   total  |-> TotalLen(p)]
  BY <1>3, <1>9, ParseParts, Zenon
<1>11. Parse(p) = [result |-> ParseBody(head, body).result,
                   calls  |-> ParseBody(head, body).calls,
                   total  |-> Len(p)]
  BY <1>3, <1>7, <1>8, <1>10, Zenon
<1> QED
  BY <1>3, <1>5, <1>11 DEF p

\* htons writes two bytes that read back as the number.
LEMMA HtonsFacts ==
  ASSUME NEW n \in UInt16s
  PROVE  /\ Htons(n) \in Seq(Byte) /\ Len(Htons(n)) = 2
         /\ Htons(n)[1] * 2 * Base + Htons(n)[2] = n
         /\ n \in Nat
<1> DEFINE c == 2 * Base
           h == n \div c
           l == n % c
<1>1. Base \in Nat \ {0, 1} /\ c \in Nat \ {0} /\ n \in Nat /\ n < 4 * Base * Base
  BY FramingAssumption DEF UInt16s
<1>2. n < c * c
  <2>1. 4 * Base * Base = c * c
    BY <1>1
  <2> QED
    BY <1>1, <2>1
<1>3. h * 2 * Base = c * h
  <2>1. h \in Nat
    BY <1>1, DivMod
  <2> HIDE DEF h
  <2> QED
    BY <1>1, <2>1
<1>4. Byte = 0..c - 1
  BY DEF Byte
<1> HIDE DEF c
<1>5. h \in Nat /\ l \in 0..c - 1
  BY <1>1, DivMod
<1>6. h < c
  BY <1>1, <1>2, DivBelow
<1>7. l = n - c * h
  BY <1>1, DivRest
<1>8. Htons(n) = <<h, l>>
  BY Zenon DEF Htons, c
<1> HIDE DEF h, l
<1>9. h \in Byte /\ l \in Byte
  BY <1>1, <1>4, <1>5, <1>6
<1>10. c * h + l = n
  BY <1>1, <1>5, <1>7
<1>11. <<h, l>> \in Seq(Byte) /\ Len(<<h, l>>) = 2 /\ <<h, l>>[1] = h /\ <<h, l>>[2] = l
  BY <1>9
<1>12. h * 2 * Base + l = n
  BY <1>3, <1>10, Zenon
<1> QED
  BY <1>1, <1>8, <1>11, <1>12, Zenon

\* The bytes w lie in b behind offset p.
BytesAt(b, p, w) ==
  /\ p \in Nat /\ p + Len(w) <= Len(b)
  /\ \A i \in 1..Len(w) : b[p + i] = w[i]

\* Both parts lie in a concatenation.
LEMMA ConcatContains ==
  ASSUME NEW x \in Seq(Byte), NEW y \in Seq(Byte)
  PROVE  /\ x \o y \in Seq(Byte) /\ Len(x \o y) = Len(x) + Len(y)
         /\ BytesAt(x \o y, 0, x)
         /\ BytesAt(x \o y, Len(x), y)
<1> DEFINE b == x \o y
           k == Len(x)
           n == Len(y)
<1>1. k \in Nat /\ n \in Nat
  BY LenProperties
<1>2. /\ b \in Seq(Byte) /\ Len(b) = k + n
      /\ \A i \in 1..k + n : b[i] = IF i <= k THEN x[i] ELSE y[i - k]
  BY ConcatProperties
<1> HIDE DEF b
<1>3. BytesAt(b, 0, x)
  BY <1>1, <1>2 DEF BytesAt
<1>4. ASSUME NEW i \in 1..n PROVE b[k + i] = y[i]
  <2> DEFINE j == k + i
  <2>1. j \in 1..k + n /\ ~(j <= k) /\ j - k = i
    BY <1>1
  <2> HIDE DEF j
  <2>2. b[j] = y[i]
    BY <1>2, <2>1
  <2> QED
    BY <2>2 DEF j
<1>5. BytesAt(b, k, y)
  BY <1>1, <1>2, <1>4 DEF BytesAt
<1> QED
  BY <1>2, <1>3, <1>5 DEF b

\* What lies in a part lies in the whole.
LEMMA ContainsPart ==
  ASSUME NEW b \in Seq(Byte), NEW p \in Nat, NEW w \in Seq(Byte), BytesAt(b, p, w),
         NEW q \in Nat, NEW v \in Seq(Byte), BytesAt(w, q, v)
  PROVE  BytesAt(b, p + q, v)
<1>1. Len(b) \in Nat /\ Len(w) \in Nat /\ Len(v) \in Nat
  BY LenProperties
<1>2. /\ p + Len(w) <= Len(b) /\ q + Len(v) <= Len(w)
      /\ \A i \in 1..Len(w) : b[p + i] = w[i]
      /\ \A i \in 1..Len(v) : w[q + i] = v[i]
  BY DEF BytesAt
<1>3. p + q \in Nat /\ (p + q) + Len(v) <= Len(b)
  BY <1>1, <1>2
<1>4. ASSUME NEW i \in 1..Len(v) PROVE b[(p + q) + i] = v[i]
  <2>1. q + i \in 1..Len(w) /\ (p + q) + i = p + (q + i)
    BY <1>1, <1>2
  <2> QED
    BY <1>2, <2>1
<1> QED
  BY <1>3, <1>4 DEF BytesAt

\* What is contained up to the end is the tail.
LEMMA ContainsEnd ==
  ASSUME NEW b \in Seq(Byte), NEW p \in Nat, NEW w \in Seq(Byte), BytesAt(b, p, w),
         Len(b) = p + Len(w)
  PROVE  SubSeq(b, p + 1, Len(b)) = w
<1> DEFINE x == SubSeq(b, p + 1, Len(b))
<1>1. Len(b) \in Nat /\ Len(w) \in Nat
  BY LenProperties
<1>2. Len(b) \in 0..Len(b) /\ p \in 0..Len(b) /\ Len(b) - p = Len(w)
  BY <1>1
<1>3. /\ x \in Seq(Byte) /\ Len(x) = Len(w)
      /\ \A i \in 1..Len(w) : x[i] = b[p + i]
  BY <1>2, WindowSeq
<1> HIDE DEF x
<1>4. \A i \in 1..Len(x) : x[i] = w[i]
  BY <1>3 DEF BytesAt
<1>5. x = w
  BY <1>3, <1>4, SeqEqual
<1> QED
  BY <1>5 DEF x

\* writeMqttString writes a length and the bytes.
LEMMA WriteStringFacts ==
  ASSUME NEW s \in Strings
  PROVE  /\ s \in Seq(Byte) /\ Len(s) \in UInt16s /\ Len(s) \in Nat
         /\ WriteMqttString(s) \in Seq(Byte) /\ Len(WriteMqttString(s)) = 2 + Len(s)
         /\ BytesAt(WriteMqttString(s), 0, Htons(Len(s)))
         /\ BytesAt(WriteMqttString(s), 2, s)
<1>1. s \in Seq(Byte) /\ Len(s) \in UInt16s /\ Len(s) \in Nat
  BY LenProperties DEF Strings
<1>2. Htons(Len(s)) \in Seq(Byte) /\ Len(Htons(Len(s))) = 2
  BY <1>1, HtonsFacts
<1>3. WriteMqttString(s) = Htons(Len(s)) \o s
  BY DEF WriteMqttString
<1> DEFINE h == Htons(Len(s))
<1> HIDE DEF h
<1>4. /\ h \o s \in Seq(Byte) /\ Len(h \o s) = 2 + Len(s)
      /\ BytesAt(h \o s, 0, h) /\ BytesAt(h \o s, 2, s)
  <2>1. h \in Seq(Byte) /\ Len(h) = 2
    BY <1>2 DEF h
  <2>2. /\ h \o s \in Seq(Byte) /\ Len(h \o s) = Len(h) + Len(s)
        /\ BytesAt(h \o s, 0, h) /\ BytesAt(h \o s, Len(h), s)
    BY <1>1, <2>1, ConcatContains
  <2> QED
    BY <2>1, <2>2
<1> QED
  BY <1>1, <1>3, <1>4 DEF h

\* A two-byte number at offset p reads back.
LEMMA UInt16Read ==
  ASSUME NEW b \in Seq(Byte), NEW p \in Nat, NEW n \in UInt16s, BytesAt(b, p, Htons(n))
  PROVE  UInt16(b, p) = n /\ p + 2 <= Len(b)
<1>1. Len(Htons(n)) = 2 /\ Htons(n)[1] * 2 * Base + Htons(n)[2] = n
  BY HtonsFacts
<1>2. p + 2 <= Len(b) /\ \A i \in 1..2 : b[p + i] = Htons(n)[i]
  BY <1>1 DEF BytesAt
<1>3. b[p + 1] = Htons(n)[1] /\ b[p + 2] = Htons(n)[2]
  BY <1>2
<1>4. UInt16(b, p) = n
  BY <1>1, <1>3, Zenon DEF UInt16
<1> QED
  BY <1>2, <1>4

\* readMqttString inverts writeMqttString, wherever the string stands.
LEMMA StringRead ==
  ASSUME NEW b \in Seq(Byte), NEW p \in Nat, NEW s \in Strings,
         BytesAt(b, p, WriteMqttString(s))
  PROVE  MqttString(b, p) = s /\ AfterString(b, p) = p + 2 + Len(s)
<1> DEFINE w == WriteMqttString(s)
           h == Htons(Len(s))
           n == Len(s)
<1>1. /\ s \in Seq(Byte) /\ n \in UInt16s /\ n \in Nat
      /\ w \in Seq(Byte) /\ Len(w) = 2 + n
      /\ BytesAt(w, 0, h) /\ BytesAt(w, 2, s)
  BY WriteStringFacts
<1>2. h \in Seq(Byte) /\ Len(b) \in Nat
  BY <1>1, HtonsFacts, LenProperties
<1>3. p + Len(w) <= Len(b)
  BY DEF BytesAt
<1>4. BytesAt(b, p + 0, h) /\ BytesAt(b, p + 2, s)
  <2>1. 0 \in Nat /\ 2 \in Nat
    OBVIOUS
  <2> HIDE DEF w, h
  <2>2. BytesAt(b, p, w)
    BY DEF w
  <2> QED
    BY <1>1, <1>2, <2>1, <2>2, ContainsPart
<1>5. UInt16(b, p) = n
  <2>1. p + 0 = p
    OBVIOUS
  <2> QED
    BY <1>1, <1>4, <2>1, UInt16Read
<1>6. /\ p + 2 <= Len(b) /\ p + 2 + n <= Len(b)
      /\ p + 2 \in 0..p + 2 + n /\ p + 2 + n \in 0..Len(b)
      /\ (p + 2 + n) - (p + 2) = n /\ p + 3 = (p + 2) + 1
  BY <1>1, <1>2, <1>3
<1>7. HasString(b, p)
  BY <1>5, <1>6 DEF HasString
<1> DEFINE x == SubSeq(b, (p + 2) + 1, p + 2 + n)
<1>8. /\ x \in Seq(Byte) /\ Len(x) = n
      /\ \A i \in 1..n : x[i] = b[(p + 2) + i]
  BY <1>6, WindowSeq
<1> HIDE DEF x, n
<1>9. \A i \in 1..n : x[i] = s[i]
  BY <1>4, <1>8 DEF BytesAt, n
<1>10. x = s
  BY <1>1, <1>8, <1>9, SeqEqual DEF n
<1>11. MqttString(b, p) = s
  <2>1. MqttString(b, p) = SubSeq(b, p + 3, p + 2 + n)
    BY <1>5, <1>7 DEF MqttString
  <2> QED
    BY <1>6, <1>10, <2>1 DEF x
<1>12. AfterString(b, p) = p + 2 + n
  <2>1. ~(p + 2 > Len(b))
    BY <1>2, <1>6
  <2> QED
    BY <1>5, <1>7, <2>1, Zenon DEF AfterString
<1> QED
  BY <1>11, <1>12 DEF n

----------------------------------------------------------------------------
(* The packets of a device *)

LEMMA FirstByteFacts ==
  ASSUME NEW type, NEW qos, HasFirstByte(type, qos)
  PROVE  /\ FirstByte(type, qos) \in Byte
         /\ Type[FirstByte(type, qos)] = type /\ Qos[FirstByte(type, qos)] = qos
BY Zenon DEF HasFirstByte, FirstByte

\* The CONNECT parser finds the client id.
LEMMA ConnectRead ==
  ASSUME NEW p \in ConnectPackets
  PROVE  /\ ConnectBody(p) \in Seq(Byte)
         /\ ParseConnect(ConnectBody(p)) = Ok(<<SentCall(p)>>)
<1> DEFINE id == p.args[1]
           m == WriteMqttString(<<1>>)
           v == <<1, 0, 0, 1>>
           w == WriteMqttString(id)
           x == m \o v
           b == x \o w
<1>1. p.type = "CONNECT" /\ p.args \in [1..1 -> Strings] /\ id \in Strings
  BY DEF ConnectPackets
<1>2. p.args = <<id>>
  BY <1>1
<1>3. Base \in Nat \ {0, 1}
  BY FramingAssumption
<1>4. 1 \in Byte /\ 0 \in Byte /\ 1 \in UInt16s
  <2>1. 4 * Base * Base >= 2
    BY <1>3
  <2>2. 4 * Base * Base \in Nat
    BY <1>3
  <2> QED
    BY <1>3, <2>1, <2>2 DEF Byte, UInt16s
<1>5. <<1>> \in Strings /\ Len(<<1>>) = 1
  BY <1>4 DEF Strings
<1>6. v \in Seq(Byte) /\ Len(v) = 4
  BY <1>4
<1>7. m \in Seq(Byte) /\ Len(m) = 3
  <2>1. m \in Seq(Byte) /\ Len(m) = 2 + Len(<<1>>)
    BY <1>5, WriteStringFacts
  <2> HIDE DEF m
  <2> QED
    BY <1>5, <2>1
<1>8. w \in Seq(Byte) /\ Len(w) = 2 + Len(id) /\ Len(id) \in Nat
  BY <1>1, WriteStringFacts
<1>9. ConnectBody(p) = b
  BY DEF ConnectBody
<1> HIDE DEF m, v, w, id
<1>10. x \in Seq(Byte) /\ Len(x) = 7 /\ BytesAt(x, 0, m)
  <2>1. x \in Seq(Byte) /\ Len(x) = Len(m) + Len(v) /\ BytesAt(x, 0, m)
    BY <1>6, <1>7, ConcatContains
  <2> QED
    BY <1>6, <1>7, <2>1
<1> HIDE DEF x
<1>11. b \in Seq(Byte) /\ Len(b) = 7 + Len(w) /\ BytesAt(b, 0, x) /\ BytesAt(b, 7, w)
  BY <1>8, <1>10, ConcatContains
<1> HIDE DEF b
<1>12. BytesAt(b, 0, m)
  <2>1. 0 \in Nat /\ 0 + 0 = 0
    OBVIOUS
  <2> QED
    BY <1>7, <1>10, <1>11, <2>1, ContainsPart
<1>13. AfterString(b, 0) = 0 + 2 + 1
  BY <1>5, <1>11, <1>12, StringRead DEF m
<1>14. AfterString(b, 0) + 4 = 7 /\ ~(7 > Len(b)) /\ 7 \in Nat
  BY <1>8, <1>11, <1>13
<1>15. MqttString(b, 7) = id
  BY <1>1, <1>11, <1>14, StringRead DEF w
<1>16. ParseConnect(b) = Ok(Call("CONNECT", <<MqttString(b, 7)>>))
  BY <1>14, Zenon DEF ParseConnect
<1>17. ParseConnect(b) = Ok(<<SentCall(p)>>)
  BY <1>1, <1>2, <1>15, <1>16, Zenon DEF Call, SentCall
<1> QED
  BY <1>9, <1>11, <1>17

\* The PUBLISH parser finds topic, payload and packet id.
LEMMA PublishRead ==
  ASSUME NEW p \in PublishPackets
  PROVE  /\ PublishBody(p) \in Seq(Byte)
         /\ ParsePublish(p.qos, PublishBody(p)) = Ok(<<SentCall(p)>>)
<1> DEFINE topic == p.args[1]
           payload == p.args[2]
           id == p.args[3][1]
           w == WriteMqttString(topic)
           v == IF p.qos > 0 THEN Htons(id) ELSE << >>
           x == w \o v
           b == x \o payload
           n == 2 + Len(topic)
           q == IF p.qos > 0 THEN n + 2 ELSE n
<1>1. /\ p.type = "PUBLISH" /\ p.qos \in 0..2
      /\ p.args \in Strings \X Seq(Byte) \X [1..1 -> UInt16s]
      /\ p.qos = 0 => p.args[3] = <<0>>
  BY DEF PublishPackets
<1>2. topic \in Strings /\ payload \in Seq(Byte) /\ id \in UInt16s
  BY <1>1
<1>3. p.args[3] = <<id>>
  BY <1>1
<1>4. p.args = <<topic, payload, p.args[3]>>
  BY <1>1
<1>5. p.args = <<topic, payload, <<id>> >>
  BY <1>3, <1>4, Zenon
<1>6. p.qos = 0 => id = 0
  BY <1>1
<1>7. PublishBody(p) = b
  BY DEF PublishBody
<1>8. /\ topic \in Seq(Byte) /\ Len(topic) \in Nat
      /\ w \in Seq(Byte) /\ Len(w) = n
  BY <1>2, WriteStringFacts
<1>9. v \in Seq(Byte) /\ Len(v) = IF p.qos > 0 THEN 2 ELSE 0
  BY <1>2, HtonsFacts, EmptySeq
<1>10. p.qos > 0 => v = Htons(id)
  OBVIOUS
<1> HIDE DEF topic, payload, id, w, v
<1>11. n \in Nat /\ q \in Nat /\ q = n + Len(v) /\ Len(payload) \in Nat
  BY <1>2, <1>8, <1>9, LenProperties
<1>12. x \in Seq(Byte) /\ Len(x) = q /\ BytesAt(x, 0, w) /\ BytesAt(x, n, v)
  BY <1>8, <1>9, <1>11, ConcatContains
<1> HIDE DEF x, n, q
<1>13. /\ b \in Seq(Byte) /\ Len(b) = q + Len(payload)
       /\ BytesAt(b, 0, x) /\ BytesAt(b, q, payload)
  BY <1>2, <1>12, ConcatContains
<1> HIDE DEF b
<1>14. BytesAt(b, 0, w) /\ BytesAt(b, n, v)
  <2>1. 0 \in Nat /\ 0 + 0 = 0 /\ 0 + n = n
    BY <1>11
  <2>2. BytesAt(b, 0 + 0, w)
    BY <1>8, <1>12, <1>13, <2>1, ContainsPart
  <2>3. BytesAt(b, 0 + n, v)
    BY <1>9, <1>11, <1>12, <1>13, <2>1, ContainsPart
  <2> QED
    BY <2>1, <2>2, <2>3
<1>15. MqttString(b, 0) = topic /\ AfterString(b, 0) = n
  <2>1. MqttString(b, 0) = topic /\ AfterString(b, 0) = 0 + 2 + Len(topic)
    BY <1>2, <1>13, <1>14, StringRead DEF w
  <2>2. 0 + 2 + Len(topic) = n
    BY <1>8 DEF n
  <2> QED
    BY <2>1, <2>2
<1>16. (IF p.qos > 0 THEN UInt16(b, n) ELSE 0) = id
  <2>1. CASE p.qos > 0
    BY <1>2, <1>10, <1>11, <1>13, <1>14, <2>1, UInt16Read
  <2>2. CASE ~(p.qos > 0)
    BY <1>1, <1>6, <2>2
  <2> QED
    BY <2>1, <2>2
<1>17. ~(q > Len(b)) /\ SubSeq(b, q + 1, Len(b)) = payload
  <2>1. ~(q > Len(b))
    BY <1>11, <1>13
  <2> QED
    BY <1>2, <1>11, <1>13, <2>1, ContainsEnd
<1>18. ParsePublish(p.qos, b) =
         Ok(Call("PUBLISH", <<MqttString(b, 0), SubSeq(b, q + 1, Len(b)),
                              <<IF p.qos > 0 THEN UInt16(b, n) ELSE 0>> >>))
  BY <1>15, <1>17, Zenon DEF ParsePublish, q
<1>19. ParsePublish(p.qos, b) = Ok(Call("PUBLISH", <<topic, payload, <<id>> >>))
  BY <1>15, <1>16, <1>17, <1>18, Zenon
<1>20. ParsePublish(p.qos, b) = Ok(<<SentCall(p)>>)
  BY <1>1, <1>5, <1>19, Zenon DEF Call, SentCall
<1> QED
  BY <1>7, <1>13, <1>20

\* A device's packet parses as itself.
LEMMA EncodedParses ==
  ASSUME NEW p \in DevicePackets
  PROVE  LET e == Encoded(p)
         IN  /\ e \in Seq(Byte) /\ Len(e) >= 2
             /\ Parse(e) = [result |-> "OK", calls |-> <<SentCall(p)>>,
                            total |-> Len(e)]
<1>1. CASE p \in ConnectPackets
  <2> DEFINE h == FirstByte("CONNECT", 0)
             b == ConnectBody(p)
  <2>1. p.type = "CONNECT" /\ HasFirstByte("CONNECT", 0) /\ LengthFits(b)
    BY <1>1 DEF ConnectPackets
  <2>2. h \in Byte /\ Type[h] = "CONNECT"
    BY <2>1, FirstByteFacts
  <2>3. b \in Seq(Byte) /\ ParseConnect(b) = Ok(<<SentCall(p)>>)
    BY <1>1, ConnectRead
  <2>4. Encoded(p) = Packet(h, b)
    BY <2>1, Zenon DEF Encoded, SendConnect
  <2> HIDE DEF h, b
  <2>5. ParseBody(h, b) = ParseConnect(b)
    BY <2>2 DEF ParseBody
  <2>6. ParseBody(h, b).result = "OK" /\ ParseBody(h, b).calls = <<SentCall(p)>>
    <3>1. ParseBody(h, b) = [result |-> "OK", calls |-> <<SentCall(p)>>]
      BY <2>3, <2>5, Zenon DEF Ok
    <3> QED
      BY <3>1
  <2>7. /\ Packet(h, b) \in Seq(Byte) /\ Len(Packet(h, b)) >= 2
        /\ Parse(Packet(h, b)) =
             [result |-> ParseBody(h, b).result, calls |-> ParseBody(h, b).calls,
              total |-> Len(Packet(h, b))]
    BY <2>1, <2>2, <2>3, PacketParsed
  <2> QED
    BY <2>4, <2>6, <2>7, Zenon
<1>2. CASE p \in PublishPackets
  <2> DEFINE h == FirstByte("PUBLISH", p.qos)
             b == PublishBody(p)
  <2>1. p.type = "PUBLISH" /\ HasFirstByte("PUBLISH", p.qos) /\ LengthFits(b)
    BY <1>2 DEF PublishPackets
  <2>2. h \in Byte /\ Type[h] = "PUBLISH" /\ Qos[h] = p.qos
    BY <2>1, FirstByteFacts
  <2>3. b \in Seq(Byte) /\ ParsePublish(p.qos, b) = Ok(<<SentCall(p)>>)
    BY <1>2, PublishRead
  <2>4. Encoded(p) = Packet(h, b)
    <3>1. p.type # "CONNECT"
      BY <2>1
    <3> QED
      BY <3>1, Zenon DEF Encoded, EncodePublish
  <2> HIDE DEF h, b
  <2>5. ParseBody(h, b) = ParsePublish(p.qos, b)
    BY <2>2 DEF ParseBody
  <2>6. ParseBody(h, b).result = "OK" /\ ParseBody(h, b).calls = <<SentCall(p)>>
    <3>1. ParseBody(h, b) = [result |-> "OK", calls |-> <<SentCall(p)>>]
      BY <2>3, <2>5, Zenon DEF Ok
    <3> QED
      BY <3>1
  <2>7. /\ Packet(h, b) \in Seq(Byte) /\ Len(Packet(h, b)) >= 2
        /\ Parse(Packet(h, b)) =
             [result |-> ParseBody(h, b).result, calls |-> ParseBody(h, b).calls,
              total |-> Len(Packet(h, b))]
    BY <2>1, <2>2, <2>3, PacketParsed
  <2> QED
    BY <2>4, <2>6, <2>7, Zenon
<1> QED
  BY <1>1, <1>2 DEF DevicePackets

\* The function that FlattenSeq defines.
FlatStep(f, es, i) == IF i = 1 THEN es[i] ELSE f[i - 1] \o es[i]
Flat(es) == CHOOSE f : f = [i \in 1..Len(es) |-> FlatStep(f, es, i)]

\* FlattenSeq is the last value of that function.
LEMMA FlattenIsFlat ==
  ASSUME NEW es, Len(es) # 0
  PROVE  FlattenSeq(es) = Flat(es)[Len(es)]
BY Zenon DEF FlattenSeq, Flat, FlatStep

\* The recursion of FlattenSeq defines a function.
LEMMA FlatExists ==
  ASSUME NEW es, Len(es) \in Nat
  PROVE  Flat(es) = [i \in 1..Len(es) |-> FlatStep(Flat(es), es, i)]
<1> DEFINE Good(m) == \E f : f = [i \in 1..m |-> FlatStep(f, es, i)]
           n == Len(es)
           G == {m \in 0..n : Good(m)}
<1>1. ASSUME NEW m \in 0..n, m = 0 \/ Good(m - 1) PROVE Good(m)
  <2>1. \E f : \A i \in 1..m - 1 : f[i] = FlatStep(f, es, i)
    <3>1. CASE m = 0
      BY <3>1
    <3>2. CASE m # 0
      <4>1. PICK f : f = [i \in 1..m - 1 |-> FlatStep(f, es, i)]
        BY <1>1, <3>2
      <4>2. \A i \in 1..m - 1 : f[i] = FlatStep(f, es, i)
        BY <4>1, Zenon
      <4> QED
        BY <4>2, Zenon
    <3> QED
      BY <3>1, <3>2
  <2>2. PICK f : \A i \in 1..m - 1 : f[i] = FlatStep(f, es, i)
    BY <2>1
  <2> DEFINE g == [i \in 1..m |-> FlatStep(f, es, i)]
  <2>3. ASSUME NEW i \in 1..m PROVE FlatStep(f, es, i) = FlatStep(g, es, i)
    <3>1. CASE i = 1
      BY <3>1, Zenon DEF FlatStep
    <3>2. CASE i # 1
      <4>1. i - 1 \in 1..m - 1 /\ i - 1 \in 1..m
        BY <3>2
      <4>2. f[i - 1] = g[i - 1]
        BY <2>2, <4>1, Zenon
      <4> HIDE DEF g
      <4> QED
        BY <3>2, <4>2, Zenon DEF FlatStep
    <3> QED
      BY <3>1, <3>2
  <2>4. g = [i \in 1..m |-> FlatStep(g, es, i)]
    BY <2>3
  <2> QED
    BY <2>4, Zenon
<1> HIDE DEF Good
<1>2. ASSUME NEW m \in 0..n, 0..m - 1 \subseteq G PROVE m \in G
  <2>1. m = 0 \/ m - 1 \in 0..m - 1
    OBVIOUS
  <2> QED
    BY <1>1, <1>2, <2>1
<1>3. 0..n \subseteq G
  <2> HIDE DEF G
  <2> QED
    BY <1>2, InductionUpTo
<1>4. Good(n)
  BY <1>3
<1> QED
  BY <1>4, Zenon DEF Good, Flat

\* A sequence that is one longer flattens to one part more.
LEMMA FlattenStep ==
  ASSUME NEW d \in Seq(Seq(Byte)), NEW es \in Seq(Seq(Byte)),
         Len(es) = Len(d) + 1, \A i \in 1..Len(d) : d[i] = es[i]
  PROVE  FlattenSeq(es) = FlattenSeq(d) \o es[Len(es)]
<1> DEFINE n == Len(d)
<1>1. n \in Nat /\ Len(es) = n + 1 /\ n + 1 \in Nat /\ n + 1 # 0
  BY LenProperties
<1>2. es[n + 1] \in Seq(Byte)
  BY <1>1, ElementOfSeq
<1>3. FlattenSeq(es) = Flat(es)[n + 1]
  BY <1>1, FlattenIsFlat
<1>4. \A i \in 1..n + 1 : Flat(es)[i] = FlatStep(Flat(es), es, i)
  BY <1>1, FlatExists, Zenon
<1>5. \A i \in 1..n : Flat(d)[i] = FlatStep(Flat(d), d, i)
  BY <1>1, FlatExists, Zenon
<1>6. CASE n = 0
  <2>1. d = << >>
    BY <1>6, EmptySeq
  <2>2. FlattenSeq(d) = << >>
    BY <1>6, <2>1, Zenon DEF FlattenSeq
  <2>3. n + 1 = 1 /\ 1 \in 1..n + 1
    BY <1>6
  <2>4. Flat(es)[1] = es[1]
    BY <1>4, <2>3, Zenon DEF FlatStep
  <2>5. << >> \o es[n + 1] = es[n + 1]
    BY <1>2, ConcatEmptySeq
  <2> QED
    BY <1>1, <1>3, <2>2, <2>3, <2>4, <2>5
<1>7. CASE n # 0
  <2> DEFINE G == {i \in 0..n : i = 0 \/ Flat(d)[i] = Flat(es)[i]}
  <2>1. ASSUME NEW i \in 0..n, 0..i - 1 \subseteq G PROVE i \in G
    <3>1. CASE i = 0
      BY <3>1
    <3>2. CASE i = 1
      <4>1. 1 \in 1..n /\ 1 \in 1..n + 1
        BY <1>1, <1>7
      <4>2. Flat(d)[1] = d[1] /\ Flat(es)[1] = es[1] /\ d[1] = es[1]
        BY <1>4, <1>5, <4>1, Zenon DEF FlatStep
      <4> QED
        BY <3>2, <4>2
    <3>3. CASE i # 0 /\ i # 1
      <4>1. /\ i \in 1..n /\ i \in 1..n + 1 /\ i # 1
            /\ i - 1 \in 0..i - 1 /\ i - 1 # 0
        BY <1>1, <3>3
      <4>2. Flat(d)[i] = Flat(d)[i - 1] \o d[i] /\ Flat(es)[i] = Flat(es)[i - 1] \o es[i]
        BY <1>4, <1>5, <4>1, Zenon DEF FlatStep
      <4>3. Flat(d)[i - 1] = Flat(es)[i - 1]
        BY <2>1, <4>1
      <4>4. d[i] = es[i]
        BY <4>1
      <4>5. Flat(d)[i] = Flat(es)[i]
        BY <4>2, <4>3, <4>4, Zenon
      <4> QED
        BY <4>5
    <3> QED
      BY <3>1, <3>2, <3>3
  <2>2. 0..n \subseteq G
    <3> HIDE DEF G
    <3> QED
      BY <1>1, <2>1, InductionUpTo
  <2>3. Flat(d)[n] = Flat(es)[n]
    BY <1>1, <1>7, <2>2
  <2>4. n + 1 \in 1..n + 1 /\ n + 1 # 1 /\ n + 1 - 1 = n
    BY <1>1, <1>7
  <2>5. Flat(es)[n + 1] = Flat(es)[n] \o es[n + 1]
    <3> DEFINE j == n + 1
    <3>1. j \in 1..n + 1 /\ j # 1 /\ j - 1 = n
      BY <2>4
    <3> HIDE DEF j
    <3>2. Flat(es)[j] = Flat(es)[j - 1] \o es[j]
      BY <1>4, <3>1, Zenon DEF FlatStep
    <3> QED
      BY <3>1, <3>2, Zenon DEF j
  <2>6. FlattenSeq(d) = Flat(d)[n]
    BY <1>7, FlattenIsFlat
  <2> QED
    <3>1. FlattenSeq(es) = Flat(es)[n] \o es[n + 1]
      BY <1>3, <2>5, Zenon
    <3> QED
      BY <1>1, <2>3, <2>6, <3>1
<1> QED
  BY <1>6, <1>7

\* The bytes of the first k packets.
FirstBytes(ps, k) == EncodeAll(SubSeq(ps, 1, k))

\* The first k packets, one by one.
LEMMA FirstPackets ==
  ASSUME NEW S, NEW ps \in Seq(S), NEW k \in 0..Len(ps)
  PROVE  /\ SubSeq(ps, 1, k) \in Seq(S) /\ Len(SubSeq(ps, 1, k)) = k
         /\ \A i \in 1..k : SubSeq(ps, 1, k)[i] = ps[i]
         /\ DOMAIN SubSeq(ps, 1, k) = 1..k
<1>1. Len(ps) \in Nat
  BY LenProperties
<1>2. 1 \in Int /\ k \in Int /\ \A i \in 1..k : ps[i] \in S
  BY <1>1, ElementOfSeq
<1> DEFINE x == SubSeq(ps, 1, k)
<1>3. /\ x \in Seq(S) /\ Len(x) = IF 1 <= k THEN k - 1 + 1 ELSE 0
      /\ \A i \in 1..k - 1 + 1 : x[i] = ps[1 + i - 1]
  BY <1>2, SubSeqProperties
<1> HIDE DEF x
<1>4. Len(x) = k
  BY <1>1, <1>3
<1>5. DOMAIN x = 1..k
  BY <1>3, <1>4, LenProperties
<1>6. ASSUME NEW i \in 1..k PROVE x[i] = ps[i]
  <2>1. i \in 1..k - 1 + 1 /\ 1 + i - 1 = i
    BY <1>1
  <2> QED
    BY <1>3, <2>1
<1> QED
  BY <1>3, <1>4, <1>5, <1>6 DEF x

\* No packets have no bytes.
LEMMA NoBytes ==
  ASSUME NEW ps \in Seq(DevicePackets)
  PROVE  FirstBytes(ps, 0) = << >>
<1>1. Len(ps) \in Nat
  BY LenProperties
<1>2. 0 \in 0..Len(ps)
  BY <1>1
<1>3. DOMAIN SubSeq(ps, 1, 0) = 1..0
  BY <1>2, FirstPackets
<1> DEFINE q == SubSeq(ps, 1, 0)
           e == [i \in DOMAIN q |-> Encoded(q[i])]
<1>4. e = << >> /\ Len(e) = 0
  BY <1>3, EmptySeq
<1>5. FlattenSeq(e) = e
  <2> HIDE DEF e
  <2> QED
    BY <1>4, Zenon DEF FlattenSeq
<1> QED
  BY <1>4, <1>5, Zenon DEF FirstBytes, EncodeAll

\* One more packet adds its bytes at the end.
LEMMA FirstBytesStep ==
  ASSUME NEW ps \in Seq(DevicePackets), NEW k \in 0..Len(ps) - 1
  PROVE  FirstBytes(ps, k + 1) = FirstBytes(ps, k) \o Encoded(ps[k + 1])
<1>1. Len(ps) \in Nat /\ k \in Nat /\ k \in 0..Len(ps) /\ k + 1 \in 0..Len(ps)
  BY LenProperties
<1> DEFINE q == SubSeq(ps, 1, k)
           r == SubSeq(ps, 1, k + 1)
           d == [i \in DOMAIN q |-> Encoded(q[i])]
           e == [i \in DOMAIN r |-> Encoded(r[i])]
<1>2. DOMAIN q = 1..k /\ \A i \in 1..k : q[i] = ps[i]
  BY <1>1, FirstPackets
<1>3. DOMAIN r = 1..k + 1 /\ \A i \in 1..k + 1 : r[i] = ps[i]
  BY <1>1, FirstPackets
<1>4. \A i \in 1..k + 1 : Encoded(ps[i]) \in Seq(Byte)
  <2>1. \A i \in 1..k + 1 : ps[i] \in DevicePackets
    BY <1>1, ElementOfSeq
  <2> QED
    BY <2>1, EncodedParses
<1> HIDE DEF q, r
<1>5. d \in [1..k -> Seq(Byte)] /\ e \in [1..k + 1 -> Seq(Byte)]
  <2>1. \A i \in 1..k : Encoded(q[i]) \in Seq(Byte)
    <3>1. \A i \in 1..k : i \in 1..k + 1
      BY <1>1
    <3> QED
      BY <1>2, <1>4, <3>1, Zenon
  <2>2. \A i \in 1..k + 1 : Encoded(r[i]) \in Seq(Byte)
    BY <1>3, <1>4, Zenon
  <2> QED
    BY <1>2, <1>3, <2>1, <2>2
<1>6. /\ \A i \in 1..k : d[i] = Encoded(ps[i])
      /\ \A i \in 1..k + 1 : e[i] = Encoded(ps[i])
  BY <1>2, <1>3
<1>7. FirstBytes(ps, k) = FlattenSeq(d) /\ FirstBytes(ps, k + 1) = FlattenSeq(e)
  BY Zenon DEF FirstBytes, EncodeAll, q, r
<1> HIDE DEF d, e
<1>8. d \in Seq(Seq(Byte)) /\ Len(d) = k /\ e \in Seq(Seq(Byte)) /\ Len(e) = k + 1
  <2>1. k + 1 \in Nat
    BY <1>1
  <2>2. d \in Seq(Seq(Byte)) /\ e \in Seq(Seq(Byte))
    BY <1>1, <1>5, <2>1, SeqDef
  <2>3. DOMAIN d = 1..Len(d) /\ Len(d) \in Nat /\ DOMAIN e = 1..Len(e) /\ Len(e) \in Nat
    BY <2>2, LenProperties
  <2>4. DOMAIN d = 1..k /\ DOMAIN e = 1..k + 1
    BY <1>5
  <2>5. ASSUME NEW a \in Nat, NEW b \in Nat, 1..a = 1..b PROVE a = b
    BY <2>5
  <2>6. 1..Len(d) = 1..k /\ 1..Len(e) = 1..k + 1
    BY <2>3, <2>4
  <2>7. Len(d) = k
    BY <1>1, <2>3, <2>5, <2>6
  <2>8. Len(e) = k + 1
    BY <2>1, <2>3, <2>5, <2>6
  <2> QED
    BY <2>2, <2>7, <2>8
<1>9. \A i \in 1..Len(d) : d[i] = e[i]
  BY <1>1, <1>6, <1>8
<1>10. FlattenSeq(e) = FlattenSeq(d) \o e[Len(e)]
  BY <1>8, <1>9, FlattenStep
<1>11. e[Len(e)] = Encoded(ps[k + 1])
  BY <1>1, <1>6, <1>8
<1> QED
  BY <1>7, <1>10, <1>11, Zenon

\* The bytes of the first k packets start those of the first n.
LEMMA FirstBytesSeq ==
  ASSUME NEW ps \in Seq(DevicePackets), NEW n \in 0..Len(ps)
  PROVE  /\ FirstBytes(ps, n) \in Seq(Byte)
         /\ \A k \in 0..n : FirstBytes(ps, k) \in Seq(Byte)
                            /\ BytesAt(FirstBytes(ps, n), 0, FirstBytes(ps, k))
<1> DEFINE B(k) == FirstBytes(ps, k)
           Good(m) == /\ B(m) \in Seq(Byte)
                      /\ \A k \in 0..m : B(k) \in Seq(Byte) /\ BytesAt(B(m), 0, B(k))
           G == {m \in 0..n : Good(m)}
<1>1. Len(ps) \in Nat /\ n \in Nat /\ n <= Len(ps)
  BY LenProperties
<1>2. ASSUME NEW b \in Seq(Byte) PROVE BytesAt(b, 0, b)
  BY LenProperties DEF BytesAt
<1>3. Good(0)
  <2>1. B(0) = << >> /\ << >> \in Seq(Byte)
    BY NoBytes, EmptySeq
  <2>2. B(0) \in Seq(Byte) /\ BytesAt(B(0), 0, B(0))
    BY <1>2, <2>1
  <2>3. \A k \in 0..0 : k = 0
    OBVIOUS
  <2> HIDE DEF B
  <2> QED
    BY <2>2, <2>3
<1>4. ASSUME NEW m \in 1..n, Good(m - 1) PROVE Good(m)
  <2> DEFINE e == Encoded(ps[m])
  <2>1. m - 1 \in 0..Len(ps) - 1 /\ m - 1 + 1 = m /\ m \in 1..Len(ps)
    BY <1>1
  <2>2. B(m) = B(m - 1) \o e
    BY <2>1, FirstBytesStep
  <2>3. e \in Seq(Byte)
    <3>1. ps[m] \in DevicePackets
      BY <2>1, ElementOfSeq
    <3> QED
      BY <3>1, EncodedParses
  <2> HIDE DEF B, e
  <2>4. B(m - 1) \in Seq(Byte)
    BY <1>4
  <2>5. B(m) \in Seq(Byte) /\ BytesAt(B(m), 0, B(m - 1))
    BY <2>2, <2>3, <2>4, ConcatContains
  <2>6. ASSUME NEW k \in 0..m
        PROVE  B(k) \in Seq(Byte) /\ BytesAt(B(m), 0, B(k))
    <3>1. CASE k = m
      BY <1>2, <2>5, <3>1
    <3>2. CASE k # m
      <4>1. k \in 0..m - 1 /\ 0 + 0 = 0 /\ 0 \in Nat
        BY <1>1, <3>2
      <4>2. B(k) \in Seq(Byte) /\ BytesAt(B(m - 1), 0, B(k))
        BY <1>4, <4>1
      <4>3. BytesAt(B(m), 0 + 0, B(k))
        BY <2>4, <2>5, <4>1, <4>2, ContainsPart
      <4> QED
        BY <4>1, <4>2, <4>3
    <3> QED
      BY <3>1, <3>2
  <2> QED
    BY <2>5, <2>6
<1> HIDE DEF Good
<1>5. ASSUME NEW m \in 0..n, 0..m - 1 \subseteq G PROVE m \in G
  <2>1. m = 0 \/ (m \in 1..n /\ m - 1 \in 0..m - 1)
    BY <1>1
  <2> QED
    BY <1>3, <1>4, <1>5, <2>1
<1>6. 0..n \subseteq G
  <2> HIDE DEF G
  <2> QED
    BY <1>1, <1>5, InductionUpTo
<1>7. Good(n)
  BY <1>1, <1>6
<1> QED
  BY <1>7 DEF Good

\* Where the packets of ps lie in what a device sends.
LEMMA SentAt ==
  ASSUME NEW ps \in Seq(DevicePackets)
  PROVE  /\ EncodeAll(ps) \in Seq(Byte)
         /\ Len(FirstBytes(ps, 0)) = 0
         /\ Len(FirstBytes(ps, Len(ps))) = Len(EncodeAll(ps))
         /\ \A k \in 0..Len(ps) : Len(FirstBytes(ps, k)) \in 0..Len(EncodeAll(ps))
         /\ \A k \in 0..Len(ps) - 1 :
              LET at == Len(FirstBytes(ps, k))
                  e  == Encoded(ps[k + 1])
              IN  /\ Len(FirstBytes(ps, k + 1)) = at + Len(e)
                  /\ StartsWith(SubSeq(EncodeAll(ps), at + 1, Len(EncodeAll(ps))), e)
<1> DEFINE n == Len(ps)
           s == EncodeAll(ps)
<1>1. n \in Nat /\ n \in 0..n
  BY LenProperties
<1>2. FirstBytes(ps, n) = s
  <2>1. SubSeq(ps, 1, Len(ps)) = ps
    BY SubSeqFull
  <2> QED
    BY <2>1, Zenon DEF FirstBytes
<1>3. /\ s \in Seq(Byte)
      /\ \A k \in 0..n : FirstBytes(ps, k) \in Seq(Byte) /\ BytesAt(s, 0, FirstBytes(ps, k))
  BY <1>1, <1>2, FirstBytesSeq
<1>4. FirstBytes(ps, 0) = << >> /\ Len(<< >>) = 0
  BY NoBytes, EmptySeq
<1> HIDE DEF s
<1>5. ASSUME NEW k \in 0..n PROVE Len(FirstBytes(ps, k)) \in 0..Len(s)
  <2>1. FirstBytes(ps, k) \in Seq(Byte) /\ BytesAt(s, 0, FirstBytes(ps, k))
    BY <1>3
  <2>2. Len(FirstBytes(ps, k)) \in Nat /\ Len(s) \in Nat
    BY <1>3, <2>1, LenProperties
  <2>3. 0 + Len(FirstBytes(ps, k)) <= Len(s)
    BY <2>1 DEF BytesAt
  <2> QED
    BY <2>2, <2>3
<1>6. ASSUME NEW k \in 0..n - 1
      PROVE  LET at == Len(FirstBytes(ps, k))
                 e  == Encoded(ps[k + 1])
             IN  /\ Len(FirstBytes(ps, k + 1)) = at + Len(e)
                 /\ StartsWith(SubSeq(s, at + 1, Len(s)), e)
  <2> DEFINE b == FirstBytes(ps, k)
             at == Len(b)
             e == Encoded(ps[k + 1])
             c == FirstBytes(ps, k + 1)
             x == SubSeq(s, at + 1, Len(s))
  <2>1. k \in 0..n /\ k + 1 \in 0..n /\ k + 1 \in 1..n
    BY <1>1
  <2>2. e \in Seq(Byte)
    <3>1. ps[k + 1] \in DevicePackets
      BY <2>1, ElementOfSeq
    <3> QED
      BY <3>1, EncodedParses
  <2>3. c = b \o e
    BY FirstBytesStep
  <2>4. b \in Seq(Byte) /\ c \in Seq(Byte) /\ BytesAt(s, 0, c) /\ at \in 0..Len(s)
    BY <1>3, <1>5, <2>1
  <2> HIDE DEF b, c, e
  <2>5. Len(c) = at + Len(e) /\ BytesAt(c, at, e)
    BY <2>2, <2>3, <2>4, ConcatContains
  <2>6. at \in Nat /\ Len(s) \in Nat /\ Len(e) \in Nat
    BY <1>3, <2>2, <2>4, LenProperties
  <2>7. BytesAt(s, at, e)
    <3>1. 0 \in Nat /\ 0 + at = at
      BY <2>6
    <3>2. BytesAt(s, 0 + at, e)
      BY <1>3, <2>2, <2>4, <2>5, <2>6, <3>1, ContainsPart
    <3> QED
      BY <3>1, <3>2
  <2> HIDE DEF at
  <2>8. /\ x \in Seq(Byte) /\ Len(x) = Len(s) - at
        /\ \A i \in 1..Len(s) - at : x[i] = s[at + i]
    <3>1. Len(s) \in 0..Len(s) /\ at \in 0..Len(s)
      BY <2>4, <2>6 DEF at
    <3> QED
      BY <1>3, <3>1, WindowSeq
  <2> HIDE DEF x
  <2>9. at + Len(e) <= Len(s) /\ \A i \in 1..Len(e) : s[at + i] = e[i]
    BY <2>7 DEF BytesAt
  <2>10. StartsWith(x, e)
    <3>1. Len(e) <= Len(x) /\ \A i \in 1..Len(e) : i \in 1..Len(s) - at
      BY <2>6, <2>8, <2>9
    <3> QED
      BY <2>8, <2>9, <3>1 DEF StartsWith
  <2> QED
    BY <2>5, <2>10 DEF x, at, b, c, e
<1> QED
  BY <1>2, <1>3, <1>4, <1>5, <1>6 DEF s

\* What a device sends next is its next packet.
LEMMA NextPacket ==
  ASSUME NEW ps \in Seq(DevicePackets), NEW k \in 0..Len(ps) - 1
  PROVE  LET s  == EncodeAll(ps)
             at == Len(FirstBytes(ps, k))
             e  == Encoded(ps[k + 1])
         IN  /\ Len(FirstBytes(ps, k + 1)) = at + Len(e) /\ Len(e) >= 2 /\ Len(e) \in Nat
             /\ Parse(SubSeq(s, at + 1, Len(s))) =
                  [result |-> "OK", calls |-> <<SentCall(ps[k + 1])>>, total |-> Len(e)]
<1> DEFINE s  == EncodeAll(ps)
           at == Len(FirstBytes(ps, k))
           e  == Encoded(ps[k + 1])
           x  == SubSeq(s, at + 1, Len(s))
<1>1. Len(ps) \in Nat /\ k \in 0..Len(ps) /\ k + 1 \in 1..Len(ps)
  BY LenProperties
<1>2. /\ s \in Seq(Byte) /\ at \in 0..Len(s)
      /\ Len(FirstBytes(ps, k + 1)) = at + Len(e) /\ StartsWith(x, e)
  BY <1>1, SentAt
<1>3. /\ e \in Seq(Byte) /\ Len(e) >= 2
      /\ Parse(e) = [result |-> "OK", calls |-> <<SentCall(ps[k + 1])>>,
                     total |-> Len(e)]
  <2>1. ps[k + 1] \in DevicePackets
    BY <1>1, ElementOfSeq
  <2> QED
    BY <2>1, EncodedParses
<1> HIDE DEF s, at, e
<1>4. Len(s) \in Nat /\ Len(e) \in Nat
  BY <1>2, <1>3, LenProperties
<1>5. x \in Seq(Byte)
  <2>1. Len(s) \in 0..Len(s)
    BY <1>4
  <2> QED
    BY <1>2, <2>1, WindowSeq
<1> HIDE DEF x
<1>6. Parse(e).result # "INCOMPLETE"
  BY <1>3
<1>7. Parse(x) = Parse(e)
  BY <1>2, <1>3, <1>5, <1>6, ParseStable
<1> QED
  BY <1>2, <1>3, <1>4, <1>7 DEF x, s, at, e

\* The calls of the first k packets.
LEMMA SentCallsFacts ==
  ASSUME NEW ps \in Seq(DevicePackets)
  PROVE  LET S == {SentCall(p) : p \in DevicePackets}
             c == SentCalls(ps)
         IN  /\ c \in Seq(S) /\ Len(c) = Len(ps)
             /\ SubSeq(c, 1, 0) = << >>
             /\ \A k \in 0..Len(ps) - 1 :
                  SubSeq(c, 1, k + 1) = SubSeq(c, 1, k) \o <<SentCall(ps[k + 1])>>
<1> DEFINE S == {SentCall(p) : p \in DevicePackets}
           c == SentCalls(ps)
<1>1. Len(ps) \in Nat /\ DOMAIN ps = 1..Len(ps)
  BY LenProperties
<1>2. \A i \in 1..Len(ps) : SentCall(ps[i]) \in S
  <2>1. \A i \in 1..Len(ps) : ps[i] \in DevicePackets
    BY ElementOfSeq
  <2> QED
    BY <2>1, Zenon
<1>3. c = [i \in 1..Len(ps) |-> SentCall(ps[i])]
  BY <1>1, Zenon DEF SentCalls
<1> HIDE DEF S, c
<1>4. c \in [1..Len(ps) -> S] /\ \A i \in 1..Len(ps) : c[i] = SentCall(ps[i])
  BY <1>2, <1>3, Zenon
<1>5. c \in Seq(S)
  BY <1>1, <1>4, SeqDef
<1>6. DOMAIN c = 1..Len(ps) /\ DOMAIN c = 1..Len(c) /\ Len(c) \in Nat
  BY <1>4, <1>5, LenProperties
<1>7. Len(c) = Len(ps)
  BY <1>1, <1>6
<1>8. ASSUME NEW k \in 0..Len(ps) - 1
      PROVE  SubSeq(c, 1, k + 1) = SubSeq(c, 1, k) \o <<SentCall(ps[k + 1])>>
  <2>1. /\ 1 \in 1..Len(c) /\ k + 1 \in 1..Len(c) /\ k + 1 - 1 = k
    BY <1>1, <1>7
  <2>2. SubSeq(c, 1, k + 1) = SubSeq(c, 1, k + 1 - 1) \o <<c[k + 1]>>
    BY <1>5, <2>1, SubSeqRecursiveSecond
  <2>3. c[k + 1] = SentCall(ps[k + 1])
    BY <1>4, <1>7, <2>1
  <2> QED
    BY <2>1, <2>2, <2>3
<1>9. SubSeq(c, 1, 0) = << >>
  BY SubSeqEmpty
<1> QED
  BY <1>5, <1>7, <1>8, <1>9 DEF S, c

----------------------------------------------------------------------------
(* The invariant.  CallsAgree speaks of every continuation of the bytes    *)
(* received: that is what makes it inductive, since a packet that is taken *)
(* is parsed the same in all of them (ParseStable).                        *)

\* The bytes received and not yet consumed.
Window == SubSeq(stream, consumed + 1, received)

\* Types, what the buffer holds, and the two properties.
FramingInv ==
  /\ stream \in Seq(Byte)
  /\ received \in 0..Len(stream) /\ consumed \in 0..received
  /\ pc \in {"poll", "parse", "closed"}
  /\ handled \in Seq(AllCalls)
  /\ Holds(buf, Window)
  /\ CallsAgree
  /\ NoPacketWaits

\* It holds when the connection is made.
LEMMA FramingInit == Init => FramingInv
<1> SUFFICES ASSUME Init PROVE FramingInv
  OBVIOUS
<1>1. stream \in Seq(Byte)
  <2>1. CASE stream \in Raw
    BY <2>1, FramingAssumption
  <2>2. CASE stream \in {EncodeAll(ps) : ps \in Sent}
    <3>1. PICK ps \in Sent : stream = EncodeAll(ps)
      BY <2>2
    <3>2. ps \in Seq(DevicePackets)
      BY SentAssumption
    <3> QED
      BY <3>1, <3>2, SentAt
  <2> QED
    BY <2>1, <2>2 DEF Init
<1>2. /\ Len(stream) \in Nat /\ received = 0 /\ consumed = 0
      /\ pc = "poll" /\ handled = << >> /\ buf = NewBuffer
  BY <1>1, LenProperties DEF Init
<1>3. Window = << >>
  BY <1>2, SubSeqEmpty DEF Window
<1>4. Holds(buf, Window)
  BY <1>2, <1>3, NewBufferHolds
<1>5. CallsAgree
  <2> SUFFICES ASSUME NEW n \in 0..Len(stream)
               PROVE  InOneGo(Received(n)) =
                        [calls  |-> handled \o ParsedFrom(Received(n))[0].calls,
                         failed |-> ParsedFrom(Received(n))[0].failed]
    BY <1>2 DEF CallsAgree
  <2> DEFINE F == ParsedFrom(Received(n))
             parsed == Parse(SubSeq(stream, 0 + 1, n))
  <2>1. n \in 0..Len(stream) /\ 0 \in 0..n
    BY <1>2
  <2>2. \/ /\ parsed.result = "INCOMPLETE"
           /\ F[0] = [calls |-> << >>, failed |-> FALSE]
        \/ /\ parsed.result = "ERROR"
           /\ F[0] = [calls |-> << >>, failed |-> TRUE]
        \/ /\ parsed.result = "OK"
           /\ F[0] = [calls  |-> parsed.calls \o F[0 + parsed.total].calls,
                      failed |-> F[0 + parsed.total].failed]
    BY <1>1, <2>1, ParsedAt, Zenon DEF Received
  <2>3. Received(n) \in Seq(Byte) /\ Len(Received(n)) = n
    BY <1>1, PrefixSeq DEF Received
  <2>4. F[0].calls \in Seq(AllCalls)
    BY <2>1, <2>3, ParsedFromTypes
  <2> HIDE DEF F, parsed
  <2>5. F[0] = [calls |-> F[0].calls, failed |-> F[0].failed]
    BY <2>2
  <2>6. << >> \o F[0].calls = F[0].calls
    BY <2>4, ConcatEmptySeq
  <2> QED
    BY <1>2, <2>5, <2>6 DEF InOneGo, F
<1> QED
  BY <1>1, <1>2, <1>4, <1>5, EmptySeq DEF FramingInv, NoPacketWaits

\* handleRead: the buffer takes the next bytes of the stream.
LEMMA HandleReadInv ==
  ASSUME FramingInv, NEW n \in 1..Len(stream), HandleRead(n)
  PROVE  FramingInv'
<1>1. /\ stream \in Seq(Byte) /\ received \in 0..Len(stream)
      /\ consumed \in 0..received /\ Len(stream) \in Nat
      /\ handled \in Seq(AllCalls) /\ Holds(buf, Window)
  BY LenProperties DEF FramingInv
<1>2. /\ pc = "poll" /\ pc' = "parse" /\ received' = received + n
      /\ n <= Len(stream) - received
      /\ stream' = stream /\ consumed' = consumed /\ handled' = handled
      /\ buf' = ReadFd(buf, SubSeq(stream, received + 1, received + n))
  BY DEF HandleRead
<1>3. /\ received + n \in 0..Len(stream) /\ consumed \in 0..received + n
      /\ received \in 0..received + n /\ n \in Nat
  BY <1>1, <1>2
<1> DEFINE data == SubSeq(stream, received + 1, received + n)
<1>4. Window \in Seq(Byte) /\ data \in Seq(Byte)
  BY <1>1, <1>3, WindowSeq DEF Window
<1>5. Holds(buf', Window \o data)
  BY <1>1, <1>2, <1>4, ReadFdHolds
<1>6. Window \o data = SubSeq(stream, consumed + 1, received + n)
  <2>1. /\ consumed + 1 \in 1..Len(stream) + 1
        /\ received \in consumed + 1 - 1..Len(stream)
        /\ received + n \in received..Len(stream)
    BY <1>1, <1>3
  <2> QED
    BY <1>1, <2>1, ConcatAdjacentSubSeq DEF Window
<1>7. Holds(buf', Window')
  BY <1>2, <1>5, <1>6 DEF Window
<1>8. CallsAgree'
  <2>1. \A k \in received + n..Len(stream) : k \in received..Len(stream)
    BY <1>1, <1>3
  <2>2. \A k \in received..Len(stream) :
          InOneGo(Received(k)) =
            [calls  |-> handled \o ParsedFrom(Received(k))[consumed].calls,
             failed |-> ParsedFrom(Received(k))[consumed].failed]
    BY <1>2 DEF FramingInv, CallsAgree
  <2> QED
    BY <1>2, <2>1, <2>2 DEF CallsAgree, Received
<1> QED
  BY <1>1, <1>2, <1>3, <1>7, <1>8 DEF FramingInv, NoPacketWaits

\* The loop of onMessage ends.
LEMMA OnMessageReturnsInv ==
  ASSUME FramingInv, OnMessageReturns
  PROVE  FramingInv'
<1>1. /\ stream \in Seq(Byte) /\ received \in 0..Len(stream)
      /\ consumed \in 0..received /\ Len(stream) \in Nat
      /\ handled \in Seq(AllCalls) /\ Holds(buf, Window)
  BY LenProperties DEF FramingInv
<1>2. /\ pc = "parse" /\ pc' = "poll"
      /\ stream' = stream /\ received' = received /\ consumed' = consumed
      /\ handled' = handled /\ buf' = buf
      /\ ReadableBytes(buf) = 0 \/ Parse(Readable(buf)).result = "INCOMPLETE"
  BY DEF OnMessageReturns
<1>3. Window \in Seq(Byte) /\ Len(Window) = received - consumed
  BY <1>1, WindowSeq DEF Window
<1>4. Readable(buf) = Window /\ ReadableBytes(buf) = Len(Window)
  BY <1>1, <1>3, HoldsReadable DEF Holds
<1>5. NoPacketWaits'
  <2>1. consumed = received \/ Parse(Window).result = "INCOMPLETE"
    BY <1>1, <1>2, <1>3, <1>4
  <2> QED
    BY <1>2, <2>1 DEF NoPacketWaits, Window
<1>6. Window' = Window
  BY <1>2 DEF Window
<1>7. CallsAgree'
  <2>1. CallsAgree
    BY DEF FramingInv
  <2> QED
    BY <1>2, <2>1 DEF CallsAgree, Received
<1> QED
  BY <1>1, <1>2, <1>5, <1>6, <1>7 DEF FramingInv

\* What taking a packet does, whatever its result.
LEMMA TakePacketFacts ==
  ASSUME FramingInv, NEW result \in {"OK", "ERROR"}, TakePacket(result)
  PROVE  LET parsed == Parse(Window)
         IN  /\ parsed.result = result
             /\ parsed.calls \in Seq(AllCalls)
             /\ result = "ERROR" => parsed.calls = << >>
             /\ consumed + parsed.total \in 0..received
             /\ stream' = stream /\ received' = received
             /\ consumed' = consumed + parsed.total
             /\ handled' = handled \o parsed.calls
             /\ Holds(buf', Window')
             /\ \A k \in received..Len(stream) :
                  Parse(SubSeq(stream, consumed + 1, k)) = parsed
<1>1. /\ stream \in Seq(Byte) /\ received \in 0..Len(stream)
      /\ consumed \in 0..received /\ Len(stream) \in Nat
      /\ handled \in Seq(AllCalls) /\ Holds(buf, Window)
  BY LenProperties DEF FramingInv
<1>2. /\ Window \in Seq(Byte) /\ Len(Window) = received - consumed
      /\ \A i \in 1..received - consumed : Window[i] = stream[consumed + i]
  BY <1>1, WindowSeq DEF Window
<1>3. Readable(buf) = Window
  BY <1>1, <1>2, HoldsReadable
<1> DEFINE parsed == Parse(Window)
<1>4. /\ parsed.result = result
      /\ stream' = stream /\ received' = received
      /\ consumed' = consumed + parsed.total
      /\ handled' = handled \o parsed.calls
      /\ buf' = Retrieve(buf, parsed.total)
  BY <1>3 DEF TakePacket
<1>5. /\ parsed.calls \in Seq(AllCalls)
      /\ result = "ERROR" => parsed.calls = << >>
      /\ parsed.total \in 2..Len(Window)
  BY <1>2, <1>4, ParseFacts
<1>6. ASSUME NEW k \in received..Len(stream)
      PROVE  Parse(SubSeq(stream, consumed + 1, k)) = parsed
  <2> DEFINE x == SubSeq(stream, consumed + 1, k)
  <2>1. k \in 0..Len(stream) /\ consumed \in 0..k
    BY <1>1
  <2>2. /\ x \in Seq(Byte) /\ Len(x) = k - consumed
        /\ \A i \in 1..k - consumed : x[i] = stream[consumed + i]
    BY <1>1, <2>1, WindowSeq
  <2> HIDE DEF x
  <2>3. StartsWith(x, Window)
    <3>1. Len(Window) <= Len(x)
      BY <1>1, <1>2, <2>1, <2>2
    <3>2. \A i \in 1..Len(Window) : i \in 1..received - consumed /\ i \in 1..k - consumed
      BY <1>1, <1>2, <2>1
    <3> QED
      BY <1>2, <2>2, <3>1, <3>2 DEF StartsWith
  <2>4. Parse(x) = Parse(Window)
    BY <1>2, <1>4, <2>2, <2>3, ParseStable
  <2> QED
    BY <2>4 DEF x
<1> HIDE DEF parsed
<1>7. /\ parsed.total \in 0..Len(Window) /\ consumed + parsed.total \in 0..received
      /\ parsed.total \in 0..received - consumed
  BY <1>1, <1>2, <1>5
<1>8. Holds(buf', Window')
  <2>1. Holds(buf', SubSeq(Window, parsed.total + 1, Len(Window)))
    BY <1>1, <1>2, <1>4, <1>7, RetrieveHolds
  <2>2. SubSeq(Window, parsed.total + 1, received - consumed)
          = SubSeq(stream, consumed + parsed.total + 1, received)
    BY <1>1, <1>7, WindowOfWindow DEF Window
  <2>3. Window' = SubSeq(stream, consumed + parsed.total + 1, received)
    BY <1>4 DEF Window
  <2> QED
    BY <1>2, <2>1, <2>2, <2>3
<1> QED
  BY <1>4, <1>5, <1>6, <1>7, <1>8 DEF parsed

\* A packet is handled and onMessage goes on.
LEMMA OnMessageParsesInv ==
  ASSUME FramingInv, OnMessageParses
  PROVE  FramingInv'
<1>1. /\ stream \in Seq(Byte) /\ received \in 0..Len(stream)
      /\ consumed \in 0..received /\ Len(stream) \in Nat
      /\ handled \in Seq(AllCalls)
  BY LenProperties DEF FramingInv
<1>2. pc = "parse" /\ pc' = "parse" /\ TakePacket("OK")
  BY DEF OnMessageParses, TakePacket
<1> DEFINE parsed == Parse(Window)
           c == consumed
           d == consumed + parsed.total
<1>3. /\ parsed.result = "OK"
      /\ parsed.calls \in Seq(AllCalls)
      /\ d \in 0..received
      /\ stream' = stream /\ received' = received /\ consumed' = d
      /\ handled' = handled \o parsed.calls
      /\ Holds(buf', Window')
      /\ \A k \in received..Len(stream) :
           Parse(SubSeq(stream, consumed + 1, k)) = parsed
  BY <1>2, TakePacketFacts
<1> HIDE DEF parsed
<1>4. handled' \in Seq(AllCalls)
  BY <1>1, <1>3, ConcatProperties
<1>5. ASSUME NEW k \in received..Len(stream)
      PROVE  InOneGo(Received(k)) =
               [calls  |-> (handled \o parsed.calls)
                             \o ParsedFrom(Received(k))[d].calls,
                failed |-> ParsedFrom(Received(k))[d].failed]
  <2> DEFINE F == ParsedFrom(Received(k))
             x == F[d].calls
             g == InOneGo(Received(k))
  <2>1. g = [calls |-> handled \o F[c].calls, failed |-> F[c].failed]
    BY <1>2 DEF FramingInv, CallsAgree
  <2>2. k \in 0..Len(stream) /\ c \in 0..k
    BY <1>1
  <2>3. Parse(SubSeq(stream, c + 1, k)) = parsed
    BY <1>3
  <2>4. /\ F[d].calls \in Seq(AllCalls)
        /\ F[c] = [calls |-> parsed.calls \o F[d].calls, failed |-> F[d].failed]
    <3>1. parsed.result # "INCOMPLETE" /\ parsed.result # "ERROR"
      BY <1>3
    <3> QED
      BY <1>1, <2>2, <2>3, <3>1, ParsedAt, Zenon DEF Received
  <2> HIDE DEF F, g, c, d
  <2>6. F[c].calls = Cat(parsed.calls, x) /\ F[c].failed = F[d].failed
    <3>1. F[c] = [calls |-> Cat(parsed.calls, x), failed |-> F[d].failed]
      BY <2>4, Zenon DEF Cat
    <3> QED
      BY <3>1
  <2>7. g = [calls |-> Cat(handled, Cat(parsed.calls, x)), failed |-> F[d].failed]
    BY <2>1, <2>6, Zenon DEF Cat
  <2>8. Cat(handled, Cat(parsed.calls, x)) = Cat(Cat(handled, parsed.calls), x)
    <3> HIDE DEF x
    <3>1. x \in Seq(AllCalls)
      BY <2>4 DEF x
    <3> QED
      BY <1>1, <1>3, <3>1, CatAssociative
  <2>9. g = [calls |-> Cat(Cat(handled, parsed.calls), x), failed |-> F[d].failed]
    BY <2>7, <2>8, Zenon
  <2> QED
    BY <2>9, Zenon DEF Cat, F, g
<1>6. CallsAgree'
  <2> HIDE DEF d
  <2> QED
    BY <1>2, <1>3, <1>5 DEF CallsAgree, Received
<1> QED
  BY <1>1, <1>2, <1>3, <1>4, <1>6 DEF FramingInv, NoPacketWaits

\* A packet is refused and the connection closed.
LEMMA OnMessageFailsInv ==
  ASSUME FramingInv, OnMessageFails
  PROVE  FramingInv'
<1>1. /\ stream \in Seq(Byte) /\ received \in 0..Len(stream)
      /\ consumed \in 0..received /\ Len(stream) \in Nat
      /\ handled \in Seq(AllCalls)
  BY LenProperties DEF FramingInv
<1>2. pc = "parse" /\ pc' = "closed" /\ TakePacket("ERROR")
  BY DEF OnMessageFails, TakePacket
<1> DEFINE parsed == Parse(Window)
           c == consumed
           d == consumed + parsed.total
<1>3. /\ parsed.result = "ERROR" /\ parsed.calls = << >>
      /\ d \in 0..received
      /\ stream' = stream /\ received' = received /\ consumed' = d
      /\ handled' = handled \o parsed.calls
      /\ Holds(buf', Window')
      /\ \A k \in received..Len(stream) :
           Parse(SubSeq(stream, consumed + 1, k)) = parsed
  BY <1>2, TakePacketFacts
<1> HIDE DEF parsed
<1>4. handled' = handled
  BY <1>1, <1>3, ConcatEmptySeq
<1>5. ASSUME NEW k \in received..Len(stream)
      PROVE  InOneGo(Received(k)) = [calls |-> handled, failed |-> TRUE]
  <2> DEFINE F == ParsedFrom(Received(k))
             g == InOneGo(Received(k))
  <2>1. g = [calls |-> handled \o F[c].calls, failed |-> F[c].failed]
    BY <1>2 DEF FramingInv, CallsAgree
  <2>2. k \in 0..Len(stream) /\ c \in 0..k
    BY <1>1
  <2>3. Parse(SubSeq(stream, c + 1, k)) = parsed
    BY <1>3
  <2>4. F[c] = [calls |-> << >>, failed |-> TRUE]
    <3>1. parsed.result # "INCOMPLETE" /\ parsed.result # "OK"
      BY <1>3
    <3> QED
      BY <1>1, <2>2, <2>3, <3>1, ParsedAt, Zenon DEF Received
  <2>5. F[c].calls = << >> /\ F[c].failed = TRUE
    BY <2>4
  <2>6. handled \o << >> = handled
    BY <1>1, ConcatEmptySeq
  <2> QED
    BY <2>1, <2>5, <2>6, Zenon
<1>6. CallsAgree'
  BY <1>2, <1>3, <1>4, <1>5 DEF CallsAgree, Received
<1> QED
  BY <1>1, <1>2, <1>3, <1>4, <1>6 DEF FramingInv, NoPacketWaits

\* The buffer, the parser and the loop of onMessage keep the invariant, for
\* every stream and however it is cut.
THEOREM FramingCorrect == Spec => []FramingInv
<1>1. FramingInv /\ [Next]_vars => FramingInv'
  <2> SUFFICES ASSUME FramingInv, [Next]_vars PROVE FramingInv'
    OBVIOUS
  <2>1. CASE \E n \in 1..Len(stream) : HandleRead(n)
    BY <2>1, HandleReadInv
  <2>2. CASE OnMessageReturns
    BY <2>2, OnMessageReturnsInv
  <2>3. CASE OnMessageParses
    BY <2>3, OnMessageParsesInv
  <2>4. CASE OnMessageFails
    BY <2>4, OnMessageFailsInv
  <2>5. CASE UNCHANGED vars
    <3>1. /\ stream' = stream /\ received' = received /\ consumed' = consumed
          /\ handled' = handled /\ buf' = buf /\ pc' = pc
      BY <2>5 DEF vars
    <3>2. Window' = Window
      BY <3>1 DEF Window
    <3>3. CallsAgree' /\ NoPacketWaits'
      BY <3>1 DEF FramingInv, CallsAgree, NoPacketWaits, Received
    <3> QED
      BY <3>1, <3>2, <3>3 DEF FramingInv
  <2> QED
    BY <2>1, <2>2, <2>3, <2>4, <2>5 DEF Next
<1> QED
  BY <1>1, FramingInit, PTL DEF Spec

\* Types, with Buffer's asserts: its indices stay in order, inside the vector
\* and behind the prepend area.
THEOREM TypeCorrect == Spec => []TypeOK
<1>1. FramingInv => TypeOK
  <2> SUFFICES ASSUME FramingInv PROVE TypeOK
    OBVIOUS
  <2>1. WellFormed(buf) /\ CheapPrepend \in Nat
    BY FramingAssumption DEF FramingInv, Holds
  <2>2. buf.store \in Seq(Byte) /\ Len(buf.store) \in Nat
        /\ buf.readerIndex \in Nat /\ buf.writerIndex \in Nat
    BY <2>1, LenProperties DEF WellFormed
  <2>3. /\ buf.readerIndex \in CheapPrepend..Len(buf.store)
        /\ buf.writerIndex \in buf.readerIndex..Len(buf.store)
    BY <2>1, <2>2 DEF WellFormed
  <2>4. \A i \in DOMAIN handled : handled[i].type \in Types
    <3>1. handled \in Seq(AllCalls)
      BY DEF FramingInv
    <3>2. \A i \in DOMAIN handled : handled[i] \in AllCalls
      BY <3>1, LenProperties, ElementOfSeq
    <3> QED
      BY <3>2, CallTypes
  <2> QED
    BY <2>2, <2>3, <2>4 DEF FramingInv, TypeOK
<1> QED
  BY <1>1, FramingCorrect, PTL

\* Buffer::readFd, makeSpace and retrieve lose, duplicate and reorder nothing,
\* whatever the sizes of the vector and the stack buffer are.
THEOREM BufferKeepsTail == Spec => []BufferHoldsTail
<1>1. FramingInv => BufferHoldsTail
  <2> SUFFICES ASSUME FramingInv PROVE BufferHoldsTail
    OBVIOUS
  <2>1. /\ stream \in Seq(Byte) /\ received \in 0..Len(stream)
        /\ consumed \in 0..received /\ Holds(buf, Window)
    BY DEF FramingInv
  <2>2. Window \in Seq(Byte)
    BY <2>1, WindowSeq DEF Window
  <2>3. Readable(buf) = Window
    BY <2>1, <2>2, HoldsReadable
  <2> QED
    BY <2>1, <2>3 DEF BufferHoldsTail, Holds, WellFormed, Window
<1> QED
  BY <1>1, FramingCorrect, PTL

\* For every byte stream and every way TCP cuts it into reads, the handlers
\* are called, and the connection is closed, as if it had come in one piece.
THEOREM ChunksDoNotMatter == Spec => []ChunkingIrrelevant
<1>1. FramingInv => ChunkingIrrelevant
  <2> SUFFICES ASSUME FramingInv, pc # "parse"
               PROVE  LET whole == InOneGo(SubSeq(stream, 1, received))
                      IN  /\ handled = whole.calls
                          /\ pc = "closed" <=> whole.failed
    BY DEF ChunkingIrrelevant
  <2>1. /\ stream \in Seq(Byte) /\ received \in 0..Len(stream)
        /\ consumed \in 0..received /\ Len(stream) \in Nat
        /\ handled \in Seq(AllCalls) /\ pc \in {"poll", "closed"}
    BY LenProperties DEF FramingInv
  <2>2. received \in received..Len(stream)
    BY <2>1
  <2> DEFINE g == InOneGo(SubSeq(stream, 1, received))
             F == ParsedFrom(SubSeq(stream, 1, received))
  <2>3. CASE pc = "closed"
    <3>1. g = [calls |-> handled, failed |-> TRUE]
      BY <2>2, <2>3 DEF FramingInv, CallsAgree, Received
    <3> HIDE DEF g
    <3>2. g.calls = handled /\ g.failed = TRUE
      BY <3>1
    <3> QED
      BY <2>3, <3>2 DEF g
  <2>4. CASE pc = "poll"
    <3>1. g = [calls |-> handled \o F[consumed].calls, failed |-> F[consumed].failed]
      BY <2>2, <2>4 DEF FramingInv, CallsAgree, Received
    <3>2. Parse(SubSeq(stream, consumed + 1, received)).result = "INCOMPLETE"
      <4>1. CASE consumed = received
        <5>1. /\ SubSeq(stream, consumed + 1, received) \in Seq(Byte)
              /\ Len(SubSeq(stream, consumed + 1, received)) = 0
          BY <2>1, <4>1, WindowSeq
        <5>2. Len(SubSeq(stream, consumed + 1, received)) < 2
          BY <5>1
        <5>3. Parse(SubSeq(stream, consumed + 1, received)) = Incomplete
          BY <5>1, <5>2, ParseParts, Zenon
        <5> QED
          BY <5>3 DEF Incomplete
      <4> QED
        BY <2>4, <4>1 DEF FramingInv, NoPacketWaits
    <3>3. F[consumed] = [calls |-> << >>, failed |-> FALSE]
      <4>1. Parse(SubSeq(stream, consumed + 1, received)).result # "OK"
            /\ Parse(SubSeq(stream, consumed + 1, received)).result # "ERROR"
        BY <3>2
      <4> QED
        BY <2>1, <4>1, ParsedAt, Zenon
    <3>4. F[consumed].calls = << >> /\ F[consumed].failed = FALSE
      BY <3>3
    <3>5. handled \o << >> = handled
      BY <2>1, ConcatEmptySeq
    <3>6. g = [calls |-> handled, failed |-> FALSE]
      BY <3>1, <3>4, <3>5, Zenon
    <3> HIDE DEF g
    <3>7. g.calls = handled /\ g.failed = FALSE
      BY <3>6
    <3> QED
      BY <2>4, <3>7 DEF g
  <2> QED
    BY <2>1, <2>3, <2>4
<1> QED
  BY <1>1, FramingCorrect, PTL

----------------------------------------------------------------------------
(* What a device sends is what the handlers see.  onMessage stands between  *)
(* two packets of the device: parse cannot take less than the next packet   *)
(* (PacketParsed) nor more (ParseStable).                                   *)

\* Initially nothing is taken.
LEMMA BoundaryInit == Init => OnPacketBoundary
<1> SUFFICES ASSUME Init, NEW ps \in Sent
             PROVE  \E k \in 0..Len(ps) :
                      /\ consumed = Len(EncodeAll(SubSeq(ps, 1, k)))
                      /\ handled = SubSeq(SentCalls(ps), 1, k)
  BY DEF OnPacketBoundary, Init
<1>1. ps \in Seq(DevicePackets)
  BY SentAssumption
<1>2. Len(FirstBytes(ps, 0)) = 0
  BY <1>1, SentAt
<1>3. SubSeq(SentCalls(ps), 1, 0) = << >>
  BY <1>1, SentCallsFacts
<1>4. 0 \in 0..Len(ps)
  BY <1>1, LenProperties
<1> QED
  BY <1>2, <1>3, <1>4 DEF Init, FirstBytes

\* Taking a packet of a device's stream is taking the next packet sent.
LEMMA BoundaryTake ==
  ASSUME FramingInv, OnPacketBoundary, NEW result \in {"OK", "ERROR"},
         TakePacket(result), NEW ps \in Sent, stream = EncodeAll(ps)
  PROVE  /\ result = "OK"
         /\ \E k \in 0..Len(ps) :
              /\ consumed' = Len(EncodeAll(SubSeq(ps, 1, k)))
              /\ handled' = SubSeq(SentCalls(ps), 1, k)
<1>1. ps \in Seq(DevicePackets)
  BY SentAssumption
<1>2. Len(ps) \in Nat
  BY <1>1, LenProperties
<1>3. /\ stream \in Seq(Byte) /\ received \in 0..Len(stream)
      /\ consumed \in 0..received /\ Len(stream) \in Nat
  BY LenProperties DEF FramingInv
<1>4. PICK k \in 0..Len(ps) : /\ consumed = Len(FirstBytes(ps, k))
                              /\ handled = SubSeq(SentCalls(ps), 1, k)
  BY DEF OnPacketBoundary, FirstBytes
<1> DEFINE parsed == Parse(Window)
           rest == SubSeq(stream, consumed + 1, Len(stream))
<1>5. /\ parsed.result = result
      /\ consumed + parsed.total \in 0..received
      /\ consumed' = consumed + parsed.total
      /\ handled' = handled \o parsed.calls
      /\ Parse(rest) = parsed
  <2>1. Len(stream) \in received..Len(stream)
    BY <1>3
  <2> QED
    BY <2>1, TakePacketFacts
<1>6. parsed.total \in Nat /\ parsed.total >= 2
  <2>1. Window \in Seq(Byte) /\ Len(Window) \in Nat
    BY <1>3, WindowSeq, LenProperties DEF Window
  <2>2. parsed.total \in 2..Len(Window)
    BY <1>5, <2>1, ParseFacts
  <2> QED
    BY <2>1, <2>2
<1> HIDE DEF parsed, rest
<1>7. k # Len(ps)
  <2> SUFFICES ASSUME k = Len(ps) PROVE FALSE
    OBVIOUS
  <2>1. consumed = Len(stream)
    BY <1>1, <1>4, SentAt
  <2> QED
    BY <1>3, <1>5, <1>6, <2>1
<1>8. k \in 0..Len(ps) - 1 /\ k + 1 \in 0..Len(ps)
  BY <1>2, <1>7
<1> DEFINE e == Encoded(ps[k + 1])
<1>9. /\ Len(FirstBytes(ps, k + 1)) = consumed + Len(e)
      /\ Parse(rest) = [result |-> "OK", calls |-> <<SentCall(ps[k + 1])>>,
                        total |-> Len(e)]
  BY <1>1, <1>4, <1>8, NextPacket DEF rest
<1> HIDE DEF e
<1>10. /\ parsed.result = "OK" /\ parsed.calls = <<SentCall(ps[k + 1])>>
       /\ parsed.total = Len(e)
  BY <1>5, <1>9
<1>11. SubSeq(SentCalls(ps), 1, k + 1)
         = SubSeq(SentCalls(ps), 1, k) \o <<SentCall(ps[k + 1])>>
  BY <1>1, <1>8, SentCallsFacts
<1>12. handled' = SubSeq(SentCalls(ps), 1, k + 1)
  BY <1>4, <1>5, <1>10, <1>11, Zenon
<1>13. consumed' = Len(FirstBytes(ps, k + 1))
  BY <1>5, <1>9, <1>10
<1> QED
  BY <1>5, <1>8, <1>10, <1>12, <1>13 DEF FirstBytes

\* Every step keeps the buffer on a packet boundary.
LEMMA BoundaryNext ==
  ASSUME FramingInv, OnPacketBoundary, [Next]_vars
  PROVE  OnPacketBoundary'
<1>1. stream' = stream
  BY DEF Next, HandleRead, OnMessageReturns, OnMessageParses, OnMessageFails,
         TakePacket, vars
<1> SUFFICES ASSUME NEW ps \in Sent, stream = EncodeAll(ps)
             PROVE  /\ pc' # "closed"
                    /\ \E k \in 0..Len(ps) :
                         /\ consumed' = Len(EncodeAll(SubSeq(ps, 1, k)))
                         /\ handled' = SubSeq(SentCalls(ps), 1, k)
  BY <1>1 DEF OnPacketBoundary
<1>2. /\ pc # "closed"
      /\ \E k \in 0..Len(ps) :
           /\ consumed = Len(EncodeAll(SubSeq(ps, 1, k)))
           /\ handled = SubSeq(SentCalls(ps), 1, k)
  BY DEF OnPacketBoundary
<1>3. CASE \E n \in 1..Len(stream) : HandleRead(n)
  BY <1>2, <1>3 DEF HandleRead
<1>4. CASE OnMessageReturns
  BY <1>2, <1>4 DEF OnMessageReturns
<1>5. CASE OnMessageParses
  <2>1. TakePacket("OK") /\ pc' = "parse"
    BY <1>5 DEF OnMessageParses
  <2> QED
    BY <2>1, BoundaryTake
<1>6. CASE OnMessageFails
  <2>1. TakePacket("ERROR")
    BY <1>6 DEF OnMessageFails
  <2>2. "ERROR" = "OK"
    BY <2>1, BoundaryTake
  <2> QED
    BY <2>2
<1>7. CASE UNCHANGED vars
  BY <1>2, <1>7 DEF vars
<1> QED
  BY <1>3, <1>4, <1>5, <1>6, <1>7 DEF Next

\* Between two reads the calls made are those of all packets received.
LEMMA BoundarySafe ==
  ASSUME FramingInv, OnPacketBoundary
  PROVE  PacketsAsSent
<1> SUFFICES ASSUME NEW ps \in Sent, stream = EncodeAll(ps)
             PROVE  /\ IsPrefix(handled, SentCalls(ps))
                    /\ pc # "closed"
                    /\ pc = "poll" /\ received = Len(stream) => handled = SentCalls(ps)
  BY DEF PacketsAsSent
<1> DEFINE c == SentCalls(ps)
           S == {SentCall(p) : p \in DevicePackets}
<1>1. ps \in Seq(DevicePackets)
  BY SentAssumption
<1>2. Len(ps) \in Nat /\ c \in Seq(S) /\ Len(c) = Len(ps)
  BY <1>1, LenProperties, SentCallsFacts
<1>3. /\ stream \in Seq(Byte) /\ received \in 0..Len(stream)
      /\ consumed \in 0..received /\ Len(stream) \in Nat
  BY LenProperties DEF FramingInv
<1>4. PICK k \in 0..Len(ps) : /\ consumed = Len(FirstBytes(ps, k))
                              /\ handled = SubSeq(c, 1, k)
  BY DEF OnPacketBoundary, FirstBytes
<1> HIDE DEF c, S
<1>5. handled \in Seq(S) /\ Len(handled) = k
  BY <1>2, <1>4, FirstPackets
<1>6. SubSeq(handled, 1, Len(handled)) = handled
  BY <1>5, SubSeqFull
<1>7. IsPrefix(handled, c)
  BY <1>2, <1>4, <1>5, <1>6 DEF IsPrefix
<1>8. ASSUME pc = "poll", received = Len(stream) PROVE handled = c
  <2>1. k = Len(ps)
    <3> SUFFICES ASSUME k # Len(ps) PROVE FALSE
      OBVIOUS
    <3>1. k \in 0..Len(ps) - 1 /\ k + 1 \in 0..Len(ps)
      BY <1>2
    <3> DEFINE e == Encoded(ps[k + 1])
               rest == SubSeq(stream, consumed + 1, Len(stream))
    <3>2. /\ Len(FirstBytes(ps, k + 1)) = consumed + Len(e) /\ Len(e) >= 2
          /\ Len(e) \in Nat
          /\ Parse(rest) = [result |-> "OK", calls |-> <<SentCall(ps[k + 1])>>,
                            total |-> Len(e)]
      BY <1>1, <1>4, <3>1, NextPacket
    <3>3. Len(FirstBytes(ps, k + 1)) \in 0..Len(stream)
      BY <1>1, <3>1, SentAt
    <3> HIDE DEF e
    <3>4. consumed # received
      BY <1>3, <1>8, <3>2, <3>3
    <3>5. Parse(rest).result = "INCOMPLETE"
      BY <1>8, <3>4 DEF FramingInv, NoPacketWaits
    <3> QED
      BY <3>2, <3>5
  <2>2. SubSeq(c, 1, Len(c)) = c
    BY <1>2, SubSeqFull
  <2> QED
    BY <1>2, <1>4, <2>1, <2>2
<1> QED
  BY <1>7, <1>8 DEF c, OnPacketBoundary

\* The codec inverts the encoders, for every sequence of packets a device may
\* encode and however TCP cuts the stream.
THEOREM CodecInvertsEncoders == Spec => []PacketsAsSent
<1>1. Init => OnPacketBoundary
  BY BoundaryInit
<1>2. FramingInv /\ OnPacketBoundary /\ [Next]_vars => OnPacketBoundary'
  BY BoundaryNext
<1>3. FramingInv /\ OnPacketBoundary => PacketsAsSent
  BY BoundarySafe
<1> QED
  BY <1>1, <1>2, <1>3, FramingCorrect, PTL DEF Spec

=============================================================================
