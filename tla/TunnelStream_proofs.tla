------------------------ MODULE TunnelStream_proofs ------------------------
(***************************************************************************)
(* Proofs about TunnelStream, for bodies and responses of any length and   *)
(* any number of raw writes: both ends stay in step, and what nobody has   *)
(* disturbed arrives whole.                                                *)
(***************************************************************************)
EXTENDS TunnelStream, Integers, TLAPS

-----------------------------------------------------------------------------
(***************************************************************************)
(* What is on the way, as a sequence of frames.                            *)
(***************************************************************************)
Heads == {"meta", "resp", "resp101"}
RawAfter == {"end", "raw", "resp101"}

\* A message comes first, a length goes with its bytes, and nothing but raw bytes
\* follows the end of a body or a 101.
Shape(q) ==
  /\ \A i \in 1 .. Len(q) : q[i] \in Heads => i = 1
  /\ \A i \in 1 .. Len(q) : q[i] = "data" => i > 1 /\ q[i - 1] = "len"
  /\ \A i \in 1 .. Len(q) : q[i] = "len" /\ i < Len(q) => q[i + 1] = "data"
  /\ \A i \in 1 .. Len(q) : q[i] = "raw" /\ i > 1 => q[i - 1] \in RawAfter
  /\ \A i, j \in 1 .. Len(q) : i < j /\ q[i] \in RawAfter => q[j] = "raw"

Begin(q) == IF q = <<>> THEN None ELSE q[1]
Final(q) == IF q = <<>> THEN None ELSE q[Len(q)]
Lacks(q, x) == \A i \in 1 .. Len(q) : q[i] # x
Upgraded(q) == \A i \in 1 .. Len(q) : q[i] \in {"resp101", "raw"}

\* Twice the number of chunks, in a sequence without raw bytes.
Body(q) ==
  Len(q) - (IF Begin(q) \in {"meta", "resp"} THEN 1 ELSE 0) - (IF Final(q) = "end" THEN 1 ELSE 0)

LEMMA SeqFacts ==
  ASSUME NEW q \in Seq(Frames)
  PROVE  /\ Len(q) \in Nat
         /\ q = <<>> <=> Len(q) = 0
         /\ \A i \in 1 .. Len(q) : q[i] \in Frames
OBVIOUS

\* What is left of q from its m-th frame on.
Taken(q, m) == SubSeq(q, m, Len(q))

LEMMA TailFacts ==
  ASSUME NEW q \in Seq(Frames), NEW n \in Nat, n <= Len(q), NEW m, m = n + 1
  PROVE  LET t == Taken(q, m)
         IN  /\ t \in Seq(Frames) /\ Len(t) = Len(q) - n
             /\ \A i \in 1 .. Len(t) : t[i] = q[i + n]
BY DEF Taken

LEMMA AppendFacts ==
  ASSUME NEW q \in Seq(Frames), NEW f \in Seq(Frames)
  PROVE  /\ q \o f \in Seq(Frames) /\ Len(q \o f) = Len(q) + Len(f)
         /\ \A i \in 1 .. Len(q \o f) :
              (q \o f)[i] = IF i <= Len(q) THEN q[i] ELSE f[i - Len(q)]
OBVIOUS

LEMMA PrefixFacts ==
  ASSUME NEW q \in Seq(Frames), NEW n \in 0 .. Len(q)
  PROVE  LET t == SubSeq(q, 1, n)
         IN  /\ t \in Seq(Frames) /\ Len(t) = n
             /\ \A i \in 1 .. n : t[i] = q[i]
OBVIOUS

LEMMA NoneIsNoFrame == None \notin Frames
BY DEF None, Frames

LEMMA BeginFinal ==
  ASSUME NEW q \in Seq(Frames)
  PROVE  /\ Begin(q) = None <=> q = <<>>
         /\ Final(q) = None <=> q = <<>>
         /\ Begin(q) \in Frames \cup {None} /\ Final(q) \in Frames \cup {None}
BY NoneIsNoFrame DEF Begin, Final

\* What t has of q after n frames.
TailOf(q, n, t) ==
  /\ t \in Seq(Frames) /\ Len(t) = Len(q) - n /\ Shape(t)
  /\ t # <<>> => Final(t) = Final(q) /\ Begin(t) = q[n + 1] /\ Final(q) # None
  /\ t = <<>> => Final(q) = q[n]
  /\ \A x \in Frames : Lacks(q, x) => Lacks(t, x)
  /\ Upgraded(q) => Upgraded(t)

\* What is left of a sequence keeps its shape, unless a length is taken alone.
LEMMA TailShape ==
  ASSUME NEW q \in Seq(Frames), NEW n \in Nat, n >= 1, n <= Len(q), Shape(q), q[n] # "len",
         NEW m, m = n + 1, NEW t, t = Taken(q, m)
  PROVE  TailOf(q, n, t)
<1>1. /\ t \in Seq(Frames) /\ Len(t) = Len(q) - n /\ Len(q) \in Nat /\ Len(t) \in Nat
      /\ \A i \in 1 .. Len(t) : t[i] = q[i + n] /\ i + n \in 1 .. Len(q)
  <2>1. t \in Seq(Frames) /\ Len(t) = Len(q) - n /\ \A i \in 1 .. Len(t) : t[i] = q[i + n]
    BY TailFacts
  <2>2. Len(q) \in Nat /\ Len(t) \in Nat
    BY <2>1, SeqFacts
  <2>3. QED
    BY <2>1, <2>2
<1>2. t = <<>> <=> Len(t) = 0
  BY <1>1, SeqFacts
<1>3. Shape(t)
  <2>1. \A i \in 1 .. Len(t) : t[i] \notin Heads
    BY <1>1 DEF Shape
  <2>2. \A i \in 1 .. Len(t) : t[i] = "data" => i > 1 /\ t[i - 1] = "len"
    <3> SUFFICES ASSUME NEW i \in 1 .. Len(t), t[i] = "data"
                 PROVE  i > 1 /\ t[i - 1] = "len"
      OBVIOUS
    <3>1. q[i + n - 1] = "len"
      BY <1>1 DEF Shape
    <3>2. i # 1
      BY <3>1
    <3>3. i - 1 \in 1 .. Len(t) /\ i - 1 + n = i + n - 1
      BY <1>1, <3>2
    <3>4. QED
      BY <1>1, <3>1, <3>2, <3>3
  <2>3. \A i \in 1 .. Len(t) : t[i] = "len" /\ i < Len(t) => t[i + 1] = "data"
    <3> SUFFICES ASSUME NEW i \in 1 .. Len(t), t[i] = "len", i < Len(t)
                 PROVE  t[i + 1] = "data"
      OBVIOUS
    <3>1. i + 1 \in 1 .. Len(t) /\ i + n < Len(q) /\ i + 1 + n = i + n + 1
      BY <1>1
    <3>2. q[i + n + 1] = "data"
      BY <1>1, <3>1 DEF Shape
    <3>3. QED
      BY <1>1, <3>1, <3>2
  <2>4. \A i \in 1 .. Len(t) : t[i] = "raw" /\ i > 1 => t[i - 1] \in RawAfter
    <3> SUFFICES ASSUME NEW i \in 1 .. Len(t), t[i] = "raw", i > 1
                 PROVE  t[i - 1] \in RawAfter
      OBVIOUS
    <3>1. i - 1 \in 1 .. Len(t) /\ i + n > 1 /\ i - 1 + n = i + n - 1
      BY <1>1
    <3>2. q[i + n - 1] \in RawAfter
      BY <1>1, <3>1 DEF Shape
    <3>3. QED
      BY <1>1, <3>1, <3>2
  <2>5. \A i, j \in 1 .. Len(t) : i < j /\ t[i] \in RawAfter => t[j] = "raw"
    BY <1>1 DEF Shape
  <2>6. QED
    BY <2>1, <2>2, <2>3, <2>4, <2>5 DEF Shape
<1>4. t # <<>> => Final(t) = Final(q) /\ Begin(t) = q[m] /\ Final(q) # None
  <2> SUFFICES ASSUME t # <<>>
               PROVE  Final(t) = Final(q) /\ Begin(t) = q[m] /\ Final(q) # None
    OBVIOUS
  <2>1. Len(t) \in 1 .. Len(t) /\ 1 \in 1 .. Len(t) /\ q # <<>> /\ Len(t) + n = Len(q) /\ 1 + n = m
    BY <1>1, <1>2
  <2>2. t[Len(t)] = q[Len(q)] /\ t[1] = q[m]
    BY <1>1, <2>1
  <2>3. Final(t) = t[Len(t)] /\ Begin(t) = t[1] /\ Final(q) = q[Len(q)]
    BY <2>1 DEF Final, Begin
  <2>4. QED
    BY <2>1, <2>2, <2>3, BeginFinal
<1>5. t = <<>> => Final(q) = q[n]
  BY <1>1, <1>2 DEF Final
<1>6. (\A x \in Frames : Lacks(q, x) => Lacks(t, x)) /\ (Upgraded(q) => Upgraded(t))
  BY <1>1 DEF Lacks, Upgraded
<1>7. QED
  BY <1>1, <1>3, <1>4, <1>5, <1>6 DEF TailOf

\* A message is read; it cannot be followed by raw bytes.
LEMMA TakeMessage ==
  ASSUME NEW q \in Seq(Frames), Shape(q), Begin(q) \in {"meta", "resp"},
         NEW t, t = Taken(q, 2)
  PROVE  /\ t \in Seq(Frames) /\ Shape(t) /\ Begin(t) \in {None, "len", "end"}
         /\ Body(t) = Body(q)
         /\ (t = <<>> /\ Final(q) = Begin(q)) \/ (t # <<>> /\ Final(t) = Final(q))
         /\ \A x \in Frames : Lacks(q, x) => Lacks(t, x)
<1>1. q # <<>> /\ Len(q) \in Nat /\ Len(q) >= 1 /\ q[1] \in {"meta", "resp"} /\ Begin(q) = q[1]
  BY SeqFacts, BeginFinal DEF Begin, None
<1>2. /\ t \in Seq(Frames) /\ Len(t) = Len(q) - 1 /\ Shape(t)
      /\ t # <<>> => Final(t) = Final(q) /\ Begin(t) = q[2] /\ Final(q) # None
      /\ t = <<>> => Final(q) = q[1]
      /\ \A x \in Frames : Lacks(q, x) => Lacks(t, x)
  <2>1. 1 \in Nat /\ 1 >= 1 /\ 1 <= Len(q) /\ q[1] # "len" /\ 1 + 1 = 2 /\ 2 = 1 + 1
    BY <1>1
  <2>2. TailOf(q, 1, t)
    BY <2>1, TailShape
  <2>3. QED
    BY <2>1, <2>2 DEF TailOf
<1>3. t = <<>> => Begin(t) = None /\ Final(t) = None
  BY DEF Begin, Final
<1>4. t # <<>> => Begin(t) \in {"len", "end"}
  <2> SUFFICES ASSUME t # <<>>
               PROVE  q[2] \in {"len", "end"}
    BY <1>2
  <2>1. 2 \in 1 .. Len(q) /\ 2 - 1 = 1
    BY <1>1, <1>2, SeqFacts
  <2>2. q[2] \in Frames /\ q[2] \notin Heads
    BY <2>1, SeqFacts DEF Shape
  <2>3. q[2] # "data" /\ q[2] # "raw"
    BY <1>1, <2>1 DEF Shape, RawAfter
  <2>4. QED
    BY <2>2, <2>3 DEF Frames, Heads
<1>5. Body(t) = Body(q)
  <2>1. CASE t = <<>>
    <3>1. Len(t) = 0
      BY <2>1
    <3>2. Body(t) = 0
      BY <3>1, <1>3, <2>1 DEF Body, None
    <3>3. Body(q) = 0
      BY <1>1, <1>2, <2>1, <3>1 DEF Body
    <3>4. QED
      BY <3>2, <3>3
  <2>2. CASE t # <<>>
    <3>1. Body(q) = Len(q) - 1 - (IF Final(q) = "end" THEN 1 ELSE 0)
      BY DEF Body
    <3>2. Body(t) = Len(t) - 0 - (IF Final(t) = "end" THEN 1 ELSE 0)
      BY <1>4, <2>2 DEF Body
    <3>3. QED
      BY <1>1, <1>2, <2>2, <3>1, <3>2
  <2>3. QED
    BY <2>1, <2>2
<1>6. QED
  BY <1>1, <1>2, <1>3, <1>4, <1>5

\* A chunk is read.
LEMMA TakeChunk ==
  ASSUME NEW q \in Seq(Frames), Shape(q), Begin(q) = "len", Len(q) >= 2,
         NEW t, t = Taken(q, 3)
  PROVE  /\ t \in Seq(Frames) /\ Shape(t) /\ Begin(t) \in {None, "len", "end"}
         /\ Body(t) = Body(q) - 2
         /\ (t = <<>> /\ Final(q) = "data") \/ (t # <<>> /\ Final(t) = Final(q))
         /\ \A x \in Frames : Lacks(q, x) => Lacks(t, x)
<1>1. Len(q) \in Nat /\ q[1] = "len"
  BY SeqFacts DEF Begin, None
<1>2. q[2] = "data"
  <2>1. 1 \in 1 .. Len(q) /\ 1 < Len(q) /\ 1 + 1 = 2
    BY <1>1
  <2>2. QED
    BY <1>1, <2>1 DEF Shape
<1>3. /\ t \in Seq(Frames) /\ Len(t) = Len(q) - 2 /\ Shape(t)
      /\ t # <<>> => Final(t) = Final(q) /\ Begin(t) = q[3] /\ Final(q) # None
      /\ t = <<>> => Final(q) = q[2]
      /\ \A x \in Frames : Lacks(q, x) => Lacks(t, x)
  <2>1. 2 \in Nat /\ 2 >= 1 /\ 2 <= Len(q) /\ q[2] # "len" /\ 2 + 1 = 3 /\ 3 = 2 + 1
    BY <1>1, <1>2
  <2>2. TailOf(q, 2, t)
    BY <2>1, TailShape
  <2>3. QED
    BY <2>1, <2>2 DEF TailOf
<1>4. t = <<>> => Begin(t) = None /\ Final(t) = None
  BY DEF Begin, Final
<1>5. t # <<>> => Begin(t) \in {"len", "end"}
  <2> SUFFICES ASSUME t # <<>>
               PROVE  q[3] \in {"len", "end"}
    BY <1>3
  <2>1. 3 \in 1 .. Len(q) /\ 3 - 1 = 2
    BY <1>1, <1>3, SeqFacts
  <2>2. q[3] \in Frames /\ q[3] \notin Heads
    BY <2>1, SeqFacts DEF Shape
  <2>3. q[3] # "data" /\ q[3] # "raw"
    BY <1>2, <2>1 DEF Shape, RawAfter
  <2>4. QED
    BY <2>2, <2>3 DEF Frames, Heads
<1>6. Body(t) = Body(q) - 2
  <2>1. CASE t = <<>>
    <3>1. Len(t) = 0
      BY <2>1
    <3>2. Body(t) = 0
      BY <3>1, <1>4, <2>1 DEF Body, None
    <3>3. Body(q) = 2
      BY <1>1, <1>2, <1>3, <2>1, <3>1 DEF Body
    <3>4. QED
      BY <3>2, <3>3
  <2>2. CASE t # <<>>
    <3>1. Body(q) = Len(q) - 0 - (IF Final(q) = "end" THEN 1 ELSE 0)
      BY DEF Body
    <3>2. Body(t) = Len(t) - 0 - (IF Final(t) = "end" THEN 1 ELSE 0)
      BY <1>5, <2>2 DEF Body
    <3>3. QED
      BY <1>1, <1>3, <2>2, <3>1, <3>2
  <2>3. QED
    BY <2>1, <2>2
<1>7. QED
  BY <1>2, <1>3, <1>4, <1>5, <1>6

\* The end of a body, a 101 or a raw frame is read; only raw bytes may follow.
LEMMA TakeEnd ==
  ASSUME NEW q \in Seq(Frames), Shape(q), Begin(q) \in RawAfter,
         NEW t, t = Taken(q, 2)
  PROVE  /\ t \in Seq(Frames) /\ Shape(t) /\ Begin(t) \in {None, "raw"}
         /\ \/ t = <<>> /\ Final(q) = Begin(q) /\ Len(q) = 1
            \/ t # <<>> /\ Final(t) = "raw" /\ Final(q) = "raw"
         /\ \A x \in Frames : Lacks(q, x) => Lacks(t, x)
         /\ Upgraded(q) => Upgraded(t)
<1>1. q # <<>> /\ Len(q) \in Nat /\ Len(q) >= 1 /\ q[1] \in RawAfter /\ Begin(q) = q[1]
  BY SeqFacts, BeginFinal DEF Begin, None, RawAfter
<1>2. /\ t \in Seq(Frames) /\ Len(t) = Len(q) - 1 /\ Shape(t)
      /\ t # <<>> => Final(t) = Final(q) /\ Begin(t) = q[2] /\ Final(q) # None
      /\ t = <<>> => Final(q) = q[1]
      /\ \A x \in Frames : Lacks(q, x) => Lacks(t, x)
      /\ Upgraded(q) => Upgraded(t)
  <2>1. 1 \in Nat /\ 1 >= 1 /\ 1 <= Len(q) /\ q[1] # "len" /\ 1 + 1 = 2 /\ 2 = 1 + 1
    BY <1>1 DEF RawAfter
  <2>2. TailOf(q, 1, t)
    BY <2>1, TailShape
  <2>3. QED
    BY <2>1, <2>2 DEF TailOf
<1>3. t = <<>> => Begin(t) = None /\ Len(q) = 1
  <2>1. t = <<>> => Len(t) = 0
    BY <1>2, SeqFacts
  <2>2. t = <<>> => Begin(t) = None
    BY DEF Begin
  <2>3. QED
    BY <1>1, <1>2, <2>1, <2>2
<1>4. t # <<>> => Begin(t) = "raw" /\ Final(q) = "raw"
  <2> SUFFICES ASSUME t # <<>>
               PROVE  q[2] = "raw" /\ Final(q) = "raw"
    BY <1>2
  <2>1. Len(q) >= 2
    BY <1>1, <1>2, SeqFacts
  <2>2. 1 \in 1 .. Len(q) /\ 2 \in 1 .. Len(q) /\ Len(q) \in 1 .. Len(q) /\ 1 < 2 /\ 1 < Len(q)
    BY <1>1, <2>1
  <2>3. q[2] = "raw" /\ q[Len(q)] = "raw"
    BY <1>1, <2>2 DEF Shape
  <2>4. QED
    BY <1>1, <2>3 DEF Final
<1>5. QED
  BY <1>1, <1>2, <1>3, <1>4

\* What may follow a frame, and what may come first.
Fits(last, x) ==
  \/ last = None /\ x # "data"
  \/ last \in {"meta", "resp", "data"} /\ x \in {"len", "end"}
  \/ last = "len" /\ x = "data"
  \/ last \in RawAfter /\ x = "raw"

Added(q, x) == q \o <<x>>

AddedTo(q, x, t) ==
  /\ t \in Seq(Frames) /\ Shape(t) /\ Len(t) = Len(q) + 1 /\ t # <<>>
  /\ Begin(t) = (IF q = <<>> THEN x ELSE Begin(q)) /\ Final(t) = x
  /\ \A y \in Frames : Lacks(q, y) /\ y # x => Lacks(t, y)
  /\ Upgraded(q) /\ x \in {"resp101", "raw"} => Upgraded(t)

LEMMA AddedFacts ==
  ASSUME NEW q \in Seq(Frames), NEW x \in Frames
  PROVE  LET t == Added(q, x)
         IN  /\ t \in Seq(Frames) /\ Len(t) = Len(q) + 1
             /\ \A i \in 1 .. Len(q) : t[i] = q[i]
             /\ t[Len(q) + 1] = x
BY DEF Added

LEMMA AddShape ==
  ASSUME NEW q \in Seq(Frames), NEW x \in Frames, Shape(q), Fits(Final(q), x),
         NEW t, t = Added(q, x)
  PROVE  AddedTo(q, x, t)
<1> DEFINE n == Len(q)
<1>1. n \in Nat /\ (q = <<>> <=> n = 0)
  BY SeqFacts
<1>2. /\ t \in Seq(Frames) /\ Len(t) = n + 1
      /\ \A i \in 1 .. n : t[i] = q[i]
      /\ t[n + 1] = x
  BY AddedFacts
<1>3. Len(t) # 0 /\ t # <<>>
  BY <1>1, <1>2, SeqFacts
<1>4. n # 0 => Final(q) = q[n]
  BY <1>1 DEF Final
<1>5. n = 0 => Final(q) = None
  BY <1>1 DEF Final
<1>6. None \notin RawAfter \cup Heads \cup {"data", "len"}
  BY DEF None, RawAfter, Heads
<1> HIDE DEF n
<1>7. Shape(t)
  <2>1. \A i \in 1 .. Len(t) : t[i] \in Heads => i = 1
    <3> SUFFICES ASSUME NEW i \in 1 .. Len(t), t[i] \in Heads, i # 1
                 PROVE  FALSE
      OBVIOUS
    <3>1. CASE i \in 1 .. n
      BY <1>2, <3>1 DEF Shape, n
    <3>2. CASE i = n + 1
      <4>1. n # 0 /\ x \in Heads
        BY <1>1, <1>2, <3>2
      <4>2. Final(q) # None
        BY <1>1, <4>1, BeginFinal
      <4>3. QED
        BY <4>1, <4>2 DEF Fits, Heads
    <3>3. QED
      BY <1>1, <1>2, <3>1, <3>2
  <2>2. \A i \in 1 .. Len(t) : t[i] = "data" => i > 1 /\ t[i - 1] = "len"
    <3> SUFFICES ASSUME NEW i \in 1 .. Len(t), t[i] = "data"
                 PROVE  i > 1 /\ t[i - 1] = "len"
      OBVIOUS
    <3>1. CASE i \in 1 .. n
      <4>1. i > 1 /\ q[i - 1] = "len"
        BY <1>2, <3>1 DEF Shape, n
      <4>2. i - 1 \in 1 .. n
        BY <1>1, <3>1, <4>1
      <4>3. QED
        BY <1>2, <4>1, <4>2
    <3>2. CASE i = n + 1
      <4>1. x = "data"
        BY <1>2, <3>2
      <4>2. Final(q) = "len"
        BY <4>1 DEF Fits
      <4>3. n # 0 /\ q[n] = "len"
        BY <1>4, <1>5, <4>2 DEF None
      <4>4. n \in 1 .. n /\ i - 1 = n /\ i > 1
        BY <1>1, <3>2, <4>3
      <4>5. QED
        BY <1>2, <4>3, <4>4
    <3>3. QED
      BY <1>1, <1>2, <3>1, <3>2
  <2>3. \A i \in 1 .. Len(t) : t[i] = "len" /\ i < Len(t) => t[i + 1] = "data"
    <3> SUFFICES ASSUME NEW i \in 1 .. Len(t), t[i] = "len", i < Len(t)
                 PROVE  t[i + 1] = "data"
      OBVIOUS
    <3>1. i \in 1 .. n /\ q[i] = "len"
      BY <1>1, <1>2
    <3>2. CASE i = n
      <4>1. Final(q) = "len"
        BY <1>1, <1>4, <3>1, <3>2
      <4>2. x = "data"
        BY <4>1 DEF Fits, None, RawAfter
      <4>3. QED
        BY <1>2, <3>2, <4>2
    <3>3. CASE i # n
      <4>1. i < n /\ i + 1 \in 1 .. n
        BY <1>1, <3>1, <3>3
      <4>2. q[i + 1] = "data"
        BY <3>1, <4>1 DEF Shape, n
      <4>3. QED
        BY <1>2, <4>1, <4>2
    <3>4. QED
      BY <3>2, <3>3
  <2>4. \A i \in 1 .. Len(t) : t[i] = "raw" /\ i > 1 => t[i - 1] \in RawAfter
    <3> SUFFICES ASSUME NEW i \in 1 .. Len(t), t[i] = "raw", i > 1
                 PROVE  t[i - 1] \in RawAfter
      OBVIOUS
    <3>1. CASE i \in 1 .. n
      <4>1. q[i - 1] \in RawAfter
        BY <1>2, <3>1 DEF Shape, n
      <4>2. i - 1 \in 1 .. n
        BY <1>1, <3>1
      <4>3. QED
        BY <1>2, <4>1, <4>2
    <3>2. CASE i = n + 1
      <4>1. x = "raw"
        BY <1>2, <3>2
      <4>2. n # 0 /\ n \in 1 .. n /\ i - 1 = n
        BY <1>1, <3>2
      <4>3. Final(q) # None
        BY <1>1, <4>2, BeginFinal
      <4>4. q[n] \in RawAfter
        BY <1>4, <4>1, <4>2, <4>3 DEF Fits
      <4>5. QED
        BY <1>2, <4>2, <4>4
    <3>3. QED
      BY <1>1, <1>2, <3>1, <3>2
  <2>5. \A i, j \in 1 .. Len(t) : i < j /\ t[i] \in RawAfter => t[j] = "raw"
    <3> SUFFICES ASSUME NEW i \in 1 .. Len(t), NEW j \in 1 .. Len(t), i < j, t[i] \in RawAfter
                 PROVE  t[j] = "raw"
      OBVIOUS
    <3>1. i \in 1 .. n /\ q[i] \in RawAfter
      BY <1>1, <1>2
    <3>2. CASE j \in 1 .. n
      BY <1>2, <3>1, <3>2 DEF Shape, n
    <3>3. CASE j = n + 1
      <4>1. n # 0 /\ n \in 1 .. n
        BY <1>1, <3>1
      <4>2. q[n] \in RawAfter
        <5>1. CASE i = n
          BY <3>1, <5>1
        <5>2. CASE i # n
          <6>1. i < n
            BY <1>1, <3>1, <5>2
          <6>2. q[n] = "raw"
            BY <3>1, <4>1, <6>1 DEF Shape, n
          <6>3. QED
            BY <6>2 DEF RawAfter
        <5>3. QED
          BY <5>1, <5>2
      <4>3. Final(q) \in RawAfter
        BY <1>4, <4>1, <4>2
      <4>4. x = "raw"
        BY <4>3 DEF Fits, None, RawAfter
      <4>5. QED
        BY <1>2, <3>3, <4>4
    <3>4. QED
      BY <1>1, <1>2, <3>2, <3>3
  <2>6. QED
    BY <2>1, <2>2, <2>3, <2>4, <2>5 DEF Shape
<1>8. Begin(t) = (IF q = <<>> THEN x ELSE Begin(q))
  <2>1. Begin(t) = t[1]
    BY <1>3 DEF Begin
  <2>2. CASE n = 0
    BY <1>1, <1>2, <2>1, <2>2
  <2>3. CASE n # 0
    <3>1. 1 \in 1 .. n /\ q # <<>>
      BY <1>1, <2>3
    <3>2. QED
      BY <1>2, <2>1, <3>1 DEF Begin
  <2>4. QED
    BY <2>2, <2>3
<1>9. Final(t) = x
  BY <1>2, <1>3 DEF Final
<1>10. \A y \in Frames : Lacks(q, y) /\ y # x => Lacks(t, y)
  <2> SUFFICES ASSUME NEW y \in Frames, Lacks(q, y), y # x, NEW i \in 1 .. Len(t)
               PROVE  t[i] # y
    BY DEF Lacks
  <2>1. i \in 1 .. n \/ i = n + 1
    BY <1>1, <1>2
  <2>2. QED
    BY <1>2, <2>1 DEF Lacks, n
<1>11. Upgraded(q) /\ x \in {"resp101", "raw"} => Upgraded(t)
  <2> SUFFICES ASSUME Upgraded(q), x \in {"resp101", "raw"}, NEW i \in 1 .. Len(t)
               PROVE  t[i] \in {"resp101", "raw"}
    BY DEF Upgraded
  <2>1. i \in 1 .. n \/ i = n + 1
    BY <1>1, <1>2
  <2>2. QED
    BY <1>2, <2>1 DEF Upgraded, n
<1>12. QED
  BY <1>2, <1>3, <1>7, <1>8, <1>9, <1>10, <1>11 DEF AddedTo, n

LEMMA ChunkIsTwo == ASSUME NEW q \in Seq(Frames) PROVE q \o Chunk = Added(Added(q, "len"), "data")
BY DEF Chunk, Added, Frames

LEMMA ChunkEndIsThree ==
  ASSUME NEW q \in Seq(Frames)
  PROVE  q \o (Chunk \o <<"end">>) = Added(q \o Chunk, "end")
BY DEF Chunk, Added, Frames

LEMMA ErrorIsFour == ErrorResponse = Added(Added(<<>>, "resp") \o Chunk, "end")
BY DEF ErrorResponse, Chunk, Added

LEMMA BeginOnes ==
  ASSUME NEW q \in Seq(Frames), q # <<>>
  PROVE  /\ \A x \in Frames : Lacks(q, x) => Begin(q) # x
         /\ Upgraded(q) => Begin(q) \in {"resp101", "raw"}
<1>1. 1 \in 1 .. Len(q) /\ Begin(q) = q[1]
  BY SeqFacts DEF Begin
<1>2. QED
  BY <1>1 DEF Lacks, Upgraded

\* q with something added: how it begins and ends, and its chunks.
Grown(q, t, first, last, chunks) ==
  /\ t \in Seq(Frames) /\ Shape(t) /\ t # <<>>
  /\ Begin(t) = (IF q = <<>> THEN first ELSE Begin(q)) /\ Final(t) = last
  /\ Body(t) = Body(q) + 2 * chunks

LEMMA BodyType == ASSUME NEW q \in Seq(Frames) PROVE Body(q) \in Int
BY SeqFacts DEF Body

LEMMA BodyNat == ASSUME NEW q \in Seq(Frames) PROVE Body(q) \in Nat
<1>1. Len(q) \in Nat /\ (q = <<>> <=> Len(q) = 0)
  BY SeqFacts
<1>2. CASE Len(q) = 0
  <2>1. Begin(q) = None /\ Final(q) = None /\ Len(q) = 0
    BY <1>1, <1>2 DEF Begin, Final
  <2>2. QED
    BY <2>1 DEF Body, None
<1>3. CASE Len(q) = 1
  <2>1. Begin(q) = Final(q)
    BY <1>1, <1>3 DEF Begin, Final
  <2>2. QED
    BY <1>3, <2>1 DEF Body
<1>4. CASE Len(q) >= 2
  BY <1>1, <1>4 DEF Body
<1>5. Len(q) = 0 \/ Len(q) = 1 \/ Len(q) >= 2
  BY <1>1
<1>6. QED
  BY <1>2, <1>3, <1>4, <1>5

LEMMA AddChunk ==
  ASSUME NEW q \in Seq(Frames), Shape(q), Final(q) \in {None, "meta", "resp", "data"},
         NEW t, t = q \o Chunk
  PROVE  /\ Grown(q, t, "len", "data", 1)
         /\ \A y \in Frames : Lacks(q, y) /\ y \notin {"len", "data"} => Lacks(t, y)
<1> DEFINE s == Added(q, "len")
<1>1. {"len", "data"} \subseteq Frames /\ Fits(Final(q), "len") /\ Fits("len", "data")
  BY DEF Frames, Fits
<1>2. AddedTo(q, "len", s)
  BY <1>1, AddShape
<1>3. s \in Seq(Frames) /\ Shape(s) /\ Final(s) = "len"
  BY <1>2 DEF AddedTo
<1>4. t = Added(s, "data")
  BY ChunkIsTwo
<1>5. AddedTo(s, "data", t)
  BY <1>1, <1>3, <1>4, AddShape
<1> HIDE DEF s
<1>6. t \in Seq(Frames) /\ Shape(t) /\ t # <<>> /\ Final(t) = "data" /\ s # <<>>
  BY <1>2, <1>5 DEF AddedTo
<1>7. Begin(t) = (IF q = <<>> THEN "len" ELSE Begin(q))
  BY <1>2, <1>5, <1>6 DEF AddedTo
<1>8. Body(t) = Body(q) + 2 * 1
  <2>1. Len(q) \in Nat /\ Len(t) = Len(q) + 2
    BY <1>2, <1>5, SeqFacts DEF AddedTo
  <2>2. Body(t) = Len(t) - (IF Begin(t) \in {"meta", "resp"} THEN 1 ELSE 0) - 0
    BY <1>6 DEF Body
  <2>3. Body(q) = Len(q) - (IF Begin(q) \in {"meta", "resp"} THEN 1 ELSE 0) - 0
    BY DEF Body, None
  <2>4. Begin(t) \in {"meta", "resp"} <=> Begin(q) \in {"meta", "resp"}
    BY <1>7 DEF Begin, None
  <2>5. QED
    BY <2>1, <2>2, <2>3, <2>4
<1>9. \A y \in Frames : Lacks(q, y) /\ y \notin {"len", "data"} => Lacks(t, y)
  BY <1>2, <1>5 DEF AddedTo
<1>10. QED
  BY <1>6, <1>7, <1>8, <1>9 DEF Grown

LEMMA AddEnd ==
  ASSUME NEW q \in Seq(Frames), Shape(q), Final(q) \in {None, "meta", "resp", "data"},
         NEW t, t = Added(q, "end")
  PROVE  /\ Grown(q, t, "end", "end", 0)
         /\ \A y \in Frames : Lacks(q, y) /\ y # "end" => Lacks(t, y)
<1>1. "end" \in Frames /\ Fits(Final(q), "end")
  BY DEF Frames, Fits
<1>2. AddedTo(q, "end", t)
  BY <1>1, AddShape
<1>3. Body(t) = Body(q) + 2 * 0
  <2>1. Len(q) \in Nat /\ Len(t) = Len(q) + 1
    BY <1>2, SeqFacts DEF AddedTo
  <2>2. Body(t) = Len(t) - (IF Begin(t) \in {"meta", "resp"} THEN 1 ELSE 0) - 1
    BY <1>2 DEF Body, AddedTo
  <2>3. Body(q) = Len(q) - (IF Begin(q) \in {"meta", "resp"} THEN 1 ELSE 0) - 0
    BY DEF Body, None
  <2>4. Begin(t) \in {"meta", "resp"} <=> Begin(q) \in {"meta", "resp"}
    BY <1>2 DEF Begin, None, AddedTo
  <2>5. QED
    BY <2>1, <2>2, <2>3, <2>4
<1>4. QED
  BY <1>2, <1>3 DEF Grown, AddedTo

LEMMA AddChunkEnd ==
  ASSUME NEW q \in Seq(Frames), Shape(q), Final(q) \in {None, "meta", "resp", "data"},
         NEW t, t = q \o (Chunk \o <<"end">>)
  PROVE  /\ Grown(q, t, "len", "end", 1)
         /\ \A y \in Frames : Lacks(q, y) /\ y \notin {"len", "data", "end"} => Lacks(t, y)
<1> DEFINE s == q \o Chunk
<1>1. /\ Grown(q, s, "len", "data", 1)
      /\ \A y \in Frames : Lacks(q, y) /\ y \notin {"len", "data"} => Lacks(s, y)
  BY AddChunk
<1>2. t = Added(s, "end")
  BY ChunkEndIsThree
<1> HIDE DEF s
<1>3. s \in Seq(Frames) /\ Shape(s) /\ Final(s) = "data"
  BY <1>1 DEF Grown
<1>4. /\ Grown(s, t, "end", "end", 0)
      /\ \A y \in Frames : Lacks(s, y) /\ y # "end" => Lacks(t, y)
  BY <1>2, <1>3, AddEnd
<1>5. Body(t) = Body(q) + 2 * 1
  BY <1>1, <1>4, BodyType DEF Grown
<1>6. QED
  BY <1>1, <1>4, <1>5 DEF Grown

\* A message is the first frame of its direction.
LEMMA AddMessage ==
  ASSUME NEW x \in Heads, NEW t, t = <<>> \o <<x>>
  PROVE  /\ t \in Seq(Frames) /\ Shape(t) /\ Begin(t) = x /\ Final(t) = x /\ t # <<>>
         /\ x # "resp101" => Body(t) = 0
         /\ \A y \in Frames : y # x => Lacks(t, y)
         /\ x = "resp101" => Upgraded(t)
<1>1. <<>> \in Seq(Frames) /\ Shape(<<>>) /\ Final(<<>>) = None /\ Upgraded(<<>>)
      /\ \A y \in Frames : Lacks(<<>>, y)
  BY DEF Shape, Final, Upgraded, Lacks
<1>2. x \in Frames /\ Fits(None, x) /\ x # "end"
  BY DEF Frames, Fits, Heads
<1>3. t = Added(<<>>, x)
  BY DEF Added
<1>4. AddedTo(<<>>, x, t)
  BY <1>1, <1>2, <1>3, AddShape
<1>5. t \in Seq(Frames) /\ Shape(t) /\ Begin(t) = x /\ Final(t) = x /\ t # <<>> /\ Len(t) = 1
  <2>1. Len(<<>>) = 0
    OBVIOUS
  <2>2. QED
    BY <1>4, <2>1 DEF AddedTo
<1>6. x # "resp101" => Body(t) = 0
  BY <1>2, <1>5 DEF Body, Heads
<1>7. QED
  BY <1>1, <1>4, <1>5, <1>6 DEF AddedTo

LEMMA AddRaw ==
  ASSUME NEW q \in Seq(Frames), Shape(q), Final(q) \in {None, "end", "raw", "resp101"},
         NEW t, t = q \o <<"raw">>
  PROVE  /\ t \in Seq(Frames) /\ Shape(t) /\ t # <<>>
         /\ Begin(t) = (IF q = <<>> THEN "raw" ELSE Begin(q)) /\ Final(t) = "raw"
         /\ \A y \in Frames : Lacks(q, y) /\ y # "raw" => Lacks(t, y)
         /\ Upgraded(q) => Upgraded(t)
<1>1. "raw" \in Frames /\ Fits(Final(q), "raw") /\ t = Added(q, "raw")
  BY DEF Frames, Fits, RawAfter, Added
<1>2. AddedTo(q, "raw", t)
  BY <1>1, AddShape
<1>3. QED
  BY <1>2 DEF AddedTo

\* A turn of CopyChunks after q, with n chunks left.
Copied(q, n, c, t) ==
  /\ t \in Seq(Frames) /\ Shape(t) /\ c.left \in Nat /\ c.left <= n
  /\ c.end \in {"yes", "no", "error"}
  /\ c.end = "yes" => c.left = 0 /\ t # <<>> /\ Final(t) = "end" /\ Body(t) = Body(q) + 2 * n
  /\ c.end = "no" => c.left = n - 1 /\ t # <<>> /\ Final(t) = "data" /\ Body(t) = Body(q) + 2
  /\ c.end = "error" => n > 0 /\ Body(t) <= Body(q) + 2
  /\ IF q = <<>> THEN Begin(t) \in {None, "len", "end"} ELSE Begin(t) = Begin(q)
  /\ n = 0 => c.end = "yes" /\ (Lacks(q, "len") => Lacks(t, "len"))
  /\ Lacks(q, "raw") => Lacks(t, "raw")
  /\ Lacks(q, "resp101") => Lacks(t, "resp101")

LEMMA CopyCases ==
  ASSUME NEW n \in Nat, NEW c \in CopyChunks(n)
  PROVE  \/ n = 0 /\ c.out = <<"end">> /\ c.left = 0 /\ c.end = "yes"
         \/ n > 0 /\ c.out = Chunk /\ c.left = n - 1 /\ c.end = "no"
         \/ n > 0 /\ c.out = <<>> /\ c.left = n /\ c.end = "error"
         \/ n > 0 /\ c.out = Chunk /\ c.left = n /\ c.end = "error"
         \/ n = 1 /\ c.out = Chunk \o <<"end">> /\ c.left = 0 /\ c.end = "yes"
BY DEF CopyChunks, Turn

LEMMA CopyOut == ASSUME NEW n \in Nat, NEW c \in CopyChunks(n) PROVE c.out \in Seq(Frames)
<1>1. Chunk \in Seq(Frames) /\ <<"end">> \in Seq(Frames) /\ <<>> \in Seq(Frames)
  BY DEF Chunk, Frames
<1>2. Chunk \o <<"end">> \in Seq(Frames)
  BY <1>1
<1>3. QED
  BY <1>1, <1>2, CopyCases

LEMMA CopyStep ==
  ASSUME NEW q \in Seq(Frames), Shape(q), Final(q) \in {None, "meta", "resp", "data"},
         NEW n \in Nat, NEW c \in CopyChunks(n), NEW t, t = q \o c.out
  PROVE  Copied(q, n, c, t)
<1>1. {"len", "raw", "resp101"} \subseteq Frames /\ Body(q) \in Nat
  BY BodyNat DEF Frames
<1>2. CASE n = 0 /\ c.out = <<"end">> /\ c.left = 0 /\ c.end = "yes"
  <2>1. t = Added(q, "end")
    BY <1>2 DEF Added
  <2>2. Grown(q, t, "end", "end", 0) /\ \A y \in Frames : Lacks(q, y) /\ y # "end" => Lacks(t, y)
    BY <2>1, AddEnd
  <2>3. QED
    BY <1>1, <1>2, <2>2 DEF Copied, Grown
<1>3. CASE n > 0 /\ c.out = Chunk /\ c.left = n - 1 /\ c.end = "no"
  <2>1. Grown(q, t, "len", "data", 1) /\ \A y \in Frames : Lacks(q, y) /\ y \notin {"len", "data"} => Lacks(t, y)
    BY <1>3, AddChunk
  <2>2. t \in Seq(Frames) /\ Shape(t) /\ t # <<>> /\ Final(t) = "data" /\ Body(t) = Body(q) + 2
        /\ Begin(t) = (IF q = <<>> THEN "len" ELSE Begin(q))
    BY <1>1, <2>1 DEF Grown
  <2>3. (Lacks(q, "raw") => Lacks(t, "raw")) /\ (Lacks(q, "resp101") => Lacks(t, "resp101"))
    BY <1>1, <2>1
  <2>4. QED
    BY <1>1, <1>3, <2>2, <2>3 DEF Copied
<1>4. CASE n > 0 /\ c.out = <<>> /\ c.left = n /\ c.end = "error"
  <2>1. t = q
    BY <1>4
  <2>2. q = <<>> => Begin(q) = None
    BY DEF Begin
  <2>3. QED
    BY <1>1, <1>4, <2>1, <2>2 DEF Copied
<1>5. CASE n > 0 /\ c.out = Chunk /\ c.left = n /\ c.end = "error"
  <2>1. Grown(q, t, "len", "data", 1) /\ \A y \in Frames : Lacks(q, y) /\ y \notin {"len", "data"} => Lacks(t, y)
    BY <1>5, AddChunk
  <2>2. t \in Seq(Frames) /\ Shape(t) /\ t # <<>> /\ Final(t) = "data" /\ Body(t) = Body(q) + 2
        /\ Begin(t) = (IF q = <<>> THEN "len" ELSE Begin(q))
    BY <1>1, <2>1 DEF Grown
  <2>3. (Lacks(q, "raw") => Lacks(t, "raw")) /\ (Lacks(q, "resp101") => Lacks(t, "resp101"))
    BY <1>1, <2>1
  <2>4. QED
    BY <1>1, <1>5, <2>2, <2>3 DEF Copied
<1>6. CASE n = 1 /\ c.out = Chunk \o <<"end">> /\ c.left = 0 /\ c.end = "yes"
  <2>1. /\ Grown(q, t, "len", "end", 1)
        /\ \A y \in Frames : Lacks(q, y) /\ y \notin {"len", "data", "end"} => Lacks(t, y)
    BY <1>6, AddChunkEnd
  <2>2. t \in Seq(Frames) /\ Shape(t) /\ t # <<>> /\ Final(t) = "end" /\ Body(t) = Body(q) + 2
        /\ Begin(t) = (IF q = <<>> THEN "len" ELSE Begin(q))
    BY <1>1, <2>1 DEF Grown
  <2>3. (Lacks(q, "raw") => Lacks(t, "raw")) /\ (Lacks(q, "resp101") => Lacks(t, "resp101"))
    BY <1>1, <2>1
  <2>4. QED
    BY <1>1, <1>6, <2>2, <2>3 DEF Copied
<1>7. QED
  BY <1>2, <1>3, <1>4, <1>5, <1>6, CopyCases

\* An error response is a whole response of one chunk.
LEMMA ErrorShape ==
  /\ ErrorResponse \in Seq(Frames) /\ Shape(ErrorResponse) /\ Begin(ErrorResponse) = "resp"
  /\ Final(ErrorResponse) = "end" /\ ErrorResponse # <<>> /\ Body(ErrorResponse) = 2
  /\ Lacks(ErrorResponse, "resp101")
<1> DEFINE a == <<>> \o <<"resp">>
           b == a \o Chunk
<1>1. "resp" \in Heads /\ "resp101" \in Frames
  BY DEF Heads, Frames
<1>2. /\ a \in Seq(Frames) /\ Shape(a) /\ Begin(a) = "resp" /\ Final(a) = "resp" /\ a # <<>>
      /\ Body(a) = 0 /\ Lacks(a, "resp101")
  BY <1>1, AddMessage
<1>3. a = Added(<<>>, "resp")
  BY DEF Added
<1> HIDE DEF a
<1>4. Grown(a, b, "len", "data", 1) /\ Lacks(b, "resp101")
  BY <1>1, <1>2, AddChunk
<1>5. ErrorResponse = Added(b, "end")
  BY <1>3, ErrorIsFour
<1> HIDE DEF b
<1>6. b \in Seq(Frames) /\ Shape(b) /\ Final(b) = "data" /\ b # <<>> /\ Begin(b) = "resp" /\ Body(b) = 2
  BY <1>2, <1>4 DEF Grown
<1>7. Grown(b, ErrorResponse, "end", "end", 0) /\ Lacks(ErrorResponse, "resp101")
  BY <1>1, <1>4, <1>5, <1>6, AddEnd
<1>8. QED
  BY <1>6, <1>7 DEF Grown

\* What is cut off somewhere.
LEMMA CutShape ==
  ASSUME NEW q \in Seq(Frames), Shape(q), NEW t \in Prefixes(q)
  PROVE  /\ t \in Seq(Frames) /\ Shape(t) /\ Begin(t) \in {None, Begin(q)}
         /\ Body(t) <= Body(q)
         /\ \A y \in Frames : Lacks(q, y) => Lacks(t, y)
<1>1. PICK n \in 0 .. Len(q) : t = SubSeq(q, 1, n)
  BY DEF Prefixes
<1>2. t \in Seq(Frames) /\ Len(t) = n /\ (\A i \in 1 .. n : t[i] = q[i]) /\ Len(q) \in Nat /\ n <= Len(q)
  BY <1>1, PrefixFacts, SeqFacts
<1>3. Shape(t)
  <2>1. \A i \in 1 .. Len(t) : t[i] \in Heads => i = 1
    BY <1>2 DEF Shape
  <2>2. \A i \in 1 .. Len(t) : t[i] = "data" => i > 1 /\ t[i - 1] = "len"
    <3> SUFFICES ASSUME NEW i \in 1 .. n, q[i] = "data"
                 PROVE  i > 1 /\ t[i - 1] = "len"
      BY <1>2
    <3>1. i > 1 /\ q[i - 1] = "len"
      BY <1>2 DEF Shape
    <3>2. i - 1 \in 1 .. n
      BY <3>1
    <3>3. QED
      BY <1>2, <3>1, <3>2
  <2>3. \A i \in 1 .. Len(t) : t[i] = "len" /\ i < Len(t) => t[i + 1] = "data"
    <3> SUFFICES ASSUME NEW i \in 1 .. n, q[i] = "len", i < n
                 PROVE  t[i + 1] = "data"
      BY <1>2
    <3>1. q[i + 1] = "data"
      BY <1>2 DEF Shape
    <3>2. i + 1 \in 1 .. n
      OBVIOUS
    <3>3. QED
      BY <1>2, <3>1, <3>2
  <2>4. \A i \in 1 .. Len(t) : t[i] = "raw" /\ i > 1 => t[i - 1] \in RawAfter
    <3> SUFFICES ASSUME NEW i \in 1 .. n, q[i] = "raw", i > 1
                 PROVE  t[i - 1] \in RawAfter
      BY <1>2
    <3>1. q[i - 1] \in RawAfter
      BY <1>2 DEF Shape
    <3>2. i - 1 \in 1 .. n
      OBVIOUS
    <3>3. QED
      BY <1>2, <3>1, <3>2
  <2>5. \A i, j \in 1 .. Len(t) : i < j /\ t[i] \in RawAfter => t[j] = "raw"
    BY <1>2 DEF Shape
  <2>6. QED
    BY <2>1, <2>2, <2>3, <2>4, <2>5 DEF Shape
<1>4. \A y \in Frames : Lacks(q, y) => Lacks(t, y)
  BY <1>2 DEF Lacks
<1>5. n = 0 => t = <<>> /\ Begin(t) = None /\ Body(t) = 0
  <2>1. n = 0 => t = <<>>
    BY <1>2, SeqFacts
  <2>2. n = 0 => Begin(t) = None /\ Final(t) = None
    BY <2>1 DEF Begin, Final
  <2>3. n = 0 => Len(t) = 0
    BY <1>2
  <2>4. QED
    BY <2>1, <2>2, <2>3 DEF Body, None
<1>6. n # 0 => t # <<>> /\ q # <<>> /\ 1 \in 1 .. n
  BY <1>2, SeqFacts
<1>7. n # 0 => Begin(t) = Begin(q)
  BY <1>2, <1>6 DEF Begin
<1>8. Body(t) <= Body(q)
  <2>1. CASE n = 0
    BY <1>5, <2>1, BodyNat
  <2>2. CASE n # 0 /\ n = Len(q)
    <3>1. Final(t) = Final(q)
      <4>1. n \in 1 .. n
        BY <1>2, <2>2
      <4>2. QED
        BY <1>2, <1>6, <2>2, <4>1 DEF Final
    <3>2. QED
      BY <1>2, <1>7, <2>2, <3>1 DEF Body
  <2>3. CASE n # 0 /\ n < Len(q)
    BY <1>2, <1>7, <2>3 DEF Body
  <2>4. QED
    BY <1>2, <2>1, <2>2, <2>3
<1>9. QED
  BY <1>2, <1>3, <1>4, <1>5, <1>7, <1>8

-----------------------------------------------------------------------------
(***************************************************************************)
(* The invariant.                                                          *)
(***************************************************************************)

\* A websocket's request has no body, and only a websocket gets a 101 and raw bytes.
KindInv ==
  /\ kind = "ws" => left = 0 /\ got = 0 /\ Lacks(up.q, "len")
  /\ kind = "http" => master # "raw" /\ agent # "raw" /\ Lacks(up.q, "raw") /\ Lacks(down.q, "resp101")

\* What a reader finds first.
ReaderInv ==
  /\ Shape(up.q) /\ Shape(down.q)
  /\ agent = "meta" => Begin(up.q) \in {None, "meta"}
  /\ agent = "body" => Begin(up.q) \in {None, "len", "end"}
  /\ agent = "raw" \/ (agent = "panel" /\ kind = "ws") => Begin(up.q) \in {None, "raw"}
  /\ master \in {"meta", "body", "await"} => Begin(down.q) \in {None, "resp", "resp101"}
  /\ master = "relay" => Begin(down.q) \in {None, "len", "end"}
  /\ master = "raw" => Begin(down.q) \in {None, "raw"}

\* What a writer has written last, or how far its reader has come if it has read all.
UpWriterInv ==
  /\ up.end # "open" => master = "done"
  /\ master = "meta" => up.q = <<>> /\ agent = "meta"
  /\ master = "body" =>
       IF up.q = <<>> THEN agent \in {"body", "done"} ELSE Final(up.q) \in {"meta", "data"}
  /\ master \in {"await", "relay", "raw"} =>
       IF up.q = <<>> THEN agent \notin {"meta", "body"} ELSE Final(up.q) \in {"end", "raw"}

DownWriterInv ==
  /\ down.end # "open" => agent = "done"
  /\ agent \in {"meta", "body", "panel"} => down.q = <<>> /\ master \in {"meta", "body", "await", "done"}
  /\ agent = "copy" =>
       IF down.q = <<>> THEN master \in {"relay", "done"} ELSE Final(down.q) \in {"resp", "data"}
  /\ agent = "raw" => Upgraded(down.q) /\ (down.q = <<>> => master \in {"raw", "done"})

WriterInv == ~broken => UpWriterInv /\ DownWriterInv

\* Chunks read, on the way and not yet sent are never more than there were.
BoundInv ==
  /\ master \in {"await", "relay", "raw"} => left = 0
  /\ master \in {"meta", "body", "await"} => relayed = 0
  /\ outcome = "finished" => master = "done"
  /\ kind = "http" /\ agent \in {"meta", "body"} =>
       2 * got + Body(up.q) + 2 * (IF master \in {"meta", "body"} THEN left ELSE 0) <= 2 * BodyChunks

\* While nobody stops in the middle they are as many, and each end waits for the other.
CountInv == Undisturbed =>
  /\ master = "done" => agent = "done"
  /\ agent = "done" /\ master # "done" => Final(down.q) = "end" /\ resp.left = 0
  /\ kind = "http" /\ agent \in {"meta", "body"} =>
       2 * got + Body(up.q) + 2 * left = 2 * BodyChunks
  /\ agent \in {"copy", "done"} /\ master \in {"meta", "body", "await", "relay"} =>
       2 * relayed + Body(down.q) + 2 * resp.left = 2 * resp.chunks

FrameInv == KindInv /\ ReaderInv /\ WriterInv
ChunkInv == BoundInv /\ CountInv /\ ExchangeWhole

WireType == up \in Wire /\ down \in Wire

MasterType ==
  /\ left \in 0 .. BodyChunks
  /\ master \in {"meta", "body", "await", "relay", "raw", "done"}
  /\ relayed \in Nat
  /\ outcome \in {None, "502", "finished", "gone", "upgraded"}

AgentType ==
  /\ agent \in {"meta", "body", "panel", "copy", "raw", "done"}
  /\ got \in 0 .. BodyChunks
  /\ panelGot \subseteq 0 .. BodyChunks
  /\ resp \in [streams : BOOLEAN, chunks : Nat, left : Nat]

RawType == raw \in [{"master", "agent"} -> 0 .. RawFrames]
SessionType == kind \in {"http", "ws"} /\ broken \in BOOLEAN /\ aborted \in BOOLEAN

TypeInv == WireType /\ MasterType /\ AgentType /\ RawType /\ SessionType

LEMMA TypeParts == TypeInv => TypeOK
BY DEF TypeInv, TypeOK, WireType, MasterType, AgentType, RawType, SessionType

StreamInv == TypeInv /\ FrameInv /\ ChunkInv

\* Nothing is on the way.
LEMMA Nothing ==
  /\ <<>> \in Seq(Frames) /\ Shape(<<>>) /\ Begin(<<>>) = None /\ Final(<<>>) = None
  /\ Upgraded(<<>>) /\ Body(<<>>) = 0 /\ \A y \in Frames : Lacks(<<>>, y)
BY DEF Shape, Begin, Final, Upgraded, Lacks, Body, None

-----------------------------------------------------------------------------
(***************************************************************************)
(* The wires.                                                              *)
(***************************************************************************)
Ends == {"open", "eof", "error"}

LEMMA WireFields == ASSUME NEW w \in Wire PROVE w.q \in Seq(Frames) /\ w.end \in Ends
BY DEF Wire, Ends

LEMMA NewWire ==
  ASSUME NEW q \in Seq(Frames), NEW e \in Ends
  PROVE  LET w == [q |-> q, end |-> e] IN w \in Wire /\ w.q = q /\ w.end = e
BY DEF Wire, Ends

LEMMA WrittenWire ==
  ASSUME NEW w \in Wire, NEW f \in Seq(Frames)
  PROVE  /\ Written(w, f) \in Wire /\ Written(w, f).end = w.end
         /\ broken => Written(w, f).q = w.q
         /\ ~broken => Written(w, f).q = w.q \o f
<1>1. w.q \o f \in Seq(Frames)
  BY WireFields
<1> DEFINE g == w.q \o f
<1>2. [w EXCEPT !.q = w.q \o f] = [w EXCEPT !.q = g]
  OBVIOUS
<1>3. g \in Seq(Frames)
  BY <1>1
<1> HIDE DEF g
<1>4. [w EXCEPT !.q = g] \in Wire /\ [w EXCEPT !.q = g].end = w.end /\ [w EXCEPT !.q = g].q = g
  BY <1>3 DEF Wire
<1>5. QED
  BY <1>2, <1>4 DEF Written, g

LEMMA ClosedWire ==
  ASSUME NEW w \in Wire
  PROVE  Closed(w) \in Wire /\ Closed(w).q = w.q /\ Closed(w).end # "open"
BY DEF Closed, Wire

LEMMA RestWire ==
  ASSUME NEW w \in Wire, NEW n \in Nat, n <= Len(w.q), NEW m, m = n + 1
  PROVE  Rest(w, n) \in Wire /\ Rest(w, n).end = w.end /\ Rest(w, n).q = Taken(w.q, m)
<1> DEFINE g == Taken(w.q, m)
<1>1. g \in Seq(Frames)
  BY TailFacts, WireFields
<1>2. Rest(w, n) = [w EXCEPT !.q = g]
  BY DEF Rest, Taken
<1> HIDE DEF g
<1>3. [w EXCEPT !.q = g] \in Wire /\ [w EXCEPT !.q = g].end = w.end /\ [w EXCEPT !.q = g].q = g
  BY <1>1 DEF Wire
<1>4. QED
  BY <1>2, <1>3 DEF g

LEMMA FirstIsBegin == ASSUME NEW w \in Wire PROVE First(w) = Begin(w.q)
BY WireFields DEF First, Begin

LEMMA ChunkIsThere ==
  ASSUME NEW w \in Wire, HasChunk(w)
  PROVE  Begin(w.q) = "len" /\ Len(w.q) >= 2
<1>1. w.q \in Seq(Frames) /\ Len(w.q) >= 2 /\ SubSeq(w.q, 1, 2) = Chunk
  BY WireFields DEF HasChunk
<1>2. SubSeq(w.q, 1, 2)[1] = w.q[1] /\ Chunk[1] = "len"
  BY <1>1 DEF Chunk
<1>3. QED
  BY <1>1, <1>2 DEF Begin

LEMMA EndedEmpty ==
  ASSUME NEW w \in Wire, Ended(w)
  PROVE  w.end # "open" /\ Begin(w.q) \in {None, "len"} /\ Final(w.q) \in {None, "len"}
         /\ (Lacks(w.q, "len") => w.q = <<>>)
<1>1. CASE w.q = <<>>
  BY <1>1 DEF Ended, Begin, Final
<1>2. CASE w.q = <<"len">>
  <2>1. Len(w.q) = 1 /\ w.q[1] = "len" /\ w.q # <<>>
    BY <1>2
  <2>2. Begin(w.q) = "len" /\ Final(w.q) = "len" /\ ~Lacks(w.q, "len")
    BY <2>1 DEF Begin, Final, Lacks
  <2>3. QED
    BY <2>2 DEF Ended
<1>3. QED
  BY <1>1, <1>2 DEF Ended

LEMMA InitInv == Init => StreamInv
<1> SUFFICES ASSUME Init
             PROVE  StreamInv
  OBVIOUS
<1>1. /\ up = [q |-> <<>>, end |-> "open"] /\ down = [q |-> <<>>, end |-> "open"]
      /\ kind \in {"http", "ws"} /\ left = (IF kind = "http" THEN BodyChunks ELSE 0)
      /\ master = "meta" /\ agent = "meta" /\ got = 0 /\ panelGot = {}
      /\ resp = [streams |-> FALSE, chunks |-> 0, left |-> 0]
      /\ relayed = 0 /\ outcome = None /\ broken = FALSE /\ aborted = FALSE
      /\ raw = [e \in {"master", "agent"} |-> RawFrames]
  BY DEF Init
<1>2. up.q = <<>> /\ down.q = <<>> /\ up.end = "open" /\ down.end = "open"
  BY <1>1
<1>3. TypeInv
  <2>1. WireType
    BY <1>1, Nothing, NewWire DEF Ends, WireType
  <2>2. RawType
    BY <1>1, ChunksAssumption DEF RawType
  <2>3. MasterType
    BY <1>1, ChunksAssumption DEF MasterType
  <2>4. AgentType
    BY <1>1, ChunksAssumption DEF AgentType
  <2>5. SessionType
    BY <1>1 DEF SessionType
  <2>6. QED
    BY <2>1, <2>2, <2>3, <2>4, <2>5 DEF TypeInv
<1>4. FrameInv
  <2>1. "len" \in Frames /\ "raw" \in Frames /\ "resp101" \in Frames
    BY DEF Frames
  <2>2. QED
    BY <1>1, <1>2, <2>1, Nothing
       DEF FrameInv, KindInv, ReaderInv, WriterInv, UpWriterInv, DownWriterInv
<1>5. ChunkInv
  BY <1>1, <1>2, Nothing, ChunksAssumption DEF ChunkInv, BoundInv, CountInv, ExchangeWhole, None
<1>6. QED
  BY <1>3, <1>4, <1>5 DEF StreamInv

-----------------------------------------------------------------------------
(***************************************************************************)
(* The master's end.                                                       *)
(***************************************************************************)

\* The master returns, having read nothing, because the agent is gone or the session, or
\* because the browser has left.
LEMMA MasterLeaves ==
  ASSUME StreamInv, NEW o, MasterReturns(o), o \in {"502", "gone", "upgraded"} \/ (o = "finished" /\ ~Undisturbed),
         UNCHANGED <<kind, down, left, relayed, agentVars, raw, broken>>,
         aborted' \in {aborted, TRUE},
         broken \/ down.end # "open" \/ aborted'
  PROVE  StreamInv'
<1> USE DEF StreamInv
<1>1. up' \in Wire /\ up'.q = up.q /\ up'.end # "open"
  BY ClosedWire DEF MasterReturns, TypeInv, WireType
<1>2. master' = "done" /\ outcome' = o /\ UNCHANGED <<agent, got, panelGot, resp>>
  BY DEF MasterReturns, agentVars
<1>3. TypeInv'
  BY <1>1, <1>2 DEF TypeInv, WireType, MasterType, AgentType, RawType, SessionType
<1>4. KindInv' /\ ReaderInv'
  BY <1>1, <1>2 DEF FrameInv, KindInv, ReaderInv
<1>5. WriterInv'
  BY <1>1, <1>2 DEF FrameInv, WriterInv, UpWriterInv, DownWriterInv
<1>6. up.q \in Seq(Frames) /\ left \in Nat /\ got \in Nat /\ BodyChunks \in Nat /\ Body(up.q) \in Nat
  BY WireFields, BodyNat, ChunksAssumption DEF TypeInv, WireType, MasterType, AgentType
<1>7. BoundInv'
  BY <1>1, <1>2, <1>6 DEF ChunkInv, BoundInv
<1>8. Undisturbed' => Undisturbed /\ agent = "done"
  BY <1>2 DEF Undisturbed, FrameInv, WriterInv, DownWriterInv, TypeInv, SessionType
<1>9. CountInv' /\ ExchangeWhole'
  BY <1>1, <1>2, <1>8 DEF ChunkInv, CountInv, ExchangeWhole, Undisturbed
<1>10. QED
  BY <1>3, <1>4, <1>5, <1>7, <1>9 DEF FrameInv, ChunkInv

LEMMA MasterSendsMetaInv == StreamInv /\ MasterSendsMeta => StreamInv'
<1> SUFFICES ASSUME StreamInv, MasterSendsMeta
             PROVE  StreamInv'
  OBVIOUS
<1>1. CASE MayFail(down) /\ MasterReturns("502")
  BY <1>1, MasterLeaves DEF MasterSendsMeta, MayFail
<1>2. CASE up' = Written(up, <<"meta">>) /\ master' = "body" /\ UNCHANGED outcome
  <2> USE DEF StreamInv
  <2>1. UNCHANGED <<kind, down, left, relayed, agent, got, panelGot, resp, raw, broken, aborted>>
        /\ master = "meta"
    BY DEF MasterSendsMeta, agentVars
  <2>2. <<"meta">> \in Seq(Frames) /\ up \in Wire
    BY DEF Frames, TypeInv, WireType
  <2>3. up' \in Wire /\ up'.end = up.end
    BY <1>2, <2>2, WrittenWire
  <2>4. TypeInv'
    BY <1>2, <2>1, <2>3 DEF TypeInv, WireType, MasterType, AgentType, RawType, SessionType
  <2>5. CASE broken
    <3>1. up'.q = up.q
      BY <1>2, <2>2, <2>5, WrittenWire
    <3>2. FrameInv' /\ ChunkInv'
      BY <1>2, <2>1, <2>5, <3>1
         DEF FrameInv, KindInv, ReaderInv, WriterInv, ChunkInv, BoundInv, CountInv, ExchangeWhole, Undisturbed
    <3>3. QED
      BY <2>4, <3>2
  <2>6. CASE ~broken
    <3>1. up.q = <<>> /\ agent = "meta"
      BY <2>1, <2>6 DEF FrameInv, WriterInv, UpWriterInv
    <3>2. up'.q = <<>> \o <<"meta">>
      BY <1>2, <2>2, <2>6, <3>1, WrittenWire
    <3>3. "meta" \in Heads /\ "len" \in Frames /\ "raw" \in Frames
      BY DEF Heads, Frames
    <3>4. /\ up'.q # <<>> /\ Shape(up'.q) /\ Begin(up'.q) = "meta" /\ Final(up'.q) = "meta"
          /\ Body(up'.q) = 0 /\ Lacks(up'.q, "len") /\ Lacks(up'.q, "raw")
      BY <3>2, <3>3, AddMessage
    <3>5. Body(up.q) = 0
      BY <3>1, Nothing
    <3>6. FrameInv'
      BY <1>2, <2>1, <2>3, <3>1, <3>4
         DEF FrameInv, KindInv, ReaderInv, WriterInv, UpWriterInv, DownWriterInv
    <3>7. ChunkInv'
      BY <1>2, <2>1, <3>1, <3>4, <3>5 DEF ChunkInv, BoundInv, CountInv, ExchangeWhole, Undisturbed
    <3>8. QED
      BY <2>4, <3>6, <3>7
  <2>7. QED
    BY <2>5, <2>6
<1>3. QED
  BY <1>1, <1>2 DEF MasterSendsMeta

\* Twice the chunks read, on the way and left, after a turn of CopyChunks.
LEMMA CopyKeepsCount ==
  ASSUME NEW g \in Nat, NEW b \in Nat, NEW l \in Nat, NEW b2 \in Nat, NEW l2 \in Nat,
         (b2 = b + 2 * l /\ l2 = 0) \/ (b2 = b + 2 /\ l2 = l - 1)
  PROVE  2 * g + b2 + 2 * l2 = 2 * g + b + 2 * l
OBVIOUS

LEMMA CopyKeepsBound ==
  ASSUME NEW g \in Nat, NEW b \in Nat, NEW l \in Nat, NEW b2 \in Nat, NEW whole \in Nat,
         2 * g + b + 2 * l <= 2 * whole, b2 <= b + 2, l > 0
  PROVE  2 * g + b2 + 2 * 0 <= 2 * whole
OBVIOUS

LEMMA MasterCopiesInv == StreamInv /\ MasterCopies => StreamInv'
<1> SUFFICES ASSUME StreamInv, MasterCopies
             PROVE  StreamInv'
  OBVIOUS
<1>1. UNCHANGED <<kind, down, relayed, agent, got, panelGot, resp, raw, broken>> /\ master = "body"
  BY DEF MasterCopies, agentVars
<1>2. CASE MayFail(down) /\ MasterReturns("502") /\ UNCHANGED <<left, aborted>>
  BY <1>2, MasterLeaves DEF MasterCopies, MayFail
<1>3. ASSUME NEW c \in CopyChunks(left), left' = c.left, aborted' = (aborted \/ c.end = "error"),
             IF c.end = "error"
             THEN up' = Closed(Written(up, c.out)) /\ master' = "done" /\ outcome' = "502"
             ELSE /\ up' = Written(up, c.out)
                  /\ master' = IF c.end = "yes" THEN "await" ELSE "body"
                  /\ UNCHANGED outcome
      PROVE  StreamInv'
  <2> USE DEF StreamInv
  <2>1. left \in Nat /\ got \in Nat /\ up \in Wire /\ up.q \in Seq(Frames) /\ Shape(up.q) /\ BodyChunks \in Nat
    BY WireFields, ChunksAssumption DEF TypeInv, WireType, MasterType, AgentType, FrameInv, ReaderInv
  <2>2. c.out \in Seq(Frames) /\ c.left \in Nat /\ c.left <= left /\ c.end \in {"yes", "no", "error"}
        /\ (c.end = "yes" => c.left = 0) /\ (c.end = "error" => left > 0)
        /\ (left = 0 => c.end = "yes") /\ (c.end = "no" => c.left = left - 1)
    BY <2>1, CopyOut, CopyCases
  <2>3. /\ Written(up, c.out) \in Wire /\ Written(up, c.out).end = up.end
        /\ broken => Written(up, c.out).q = up.q
        /\ ~broken => Written(up, c.out).q = up.q \o c.out
    BY <2>1, <2>2, WrittenWire
  <2>4. /\ up' \in Wire /\ (c.end = "error" => up'.end # "open") /\ (c.end # "error" => up'.end = up.end)
        /\ broken => up'.q = up.q
        /\ ~broken => up'.q = up.q \o c.out
    BY <1>3, <2>3, ClosedWire
  <2>5. TypeInv'
    BY <1>1, <1>3, <2>1, <2>2, <2>4 DEF TypeInv, WireType, MasterType, AgentType, RawType, SessionType
  <2>6. up'.q \in Seq(Frames) /\ Body(up.q) \in Nat /\ Body(up'.q) \in Nat
    BY <2>1, <2>4, WireFields, BodyNat
  <2>7. c.end = "error" => aborted' /\ master' = "done" /\ outcome' = "502"
    BY <1>3
  <2>8. c.end # "error" => aborted' = aborted /\ outcome' = outcome
                           /\ master' = IF c.end = "yes" THEN "await" ELSE "body"
    BY <1>3, <2>5 DEF TypeInv, SessionType
  <2>9. CASE broken
    BY <1>1, <1>3, <2>1, <2>2, <2>4, <2>5, <2>6, <2>7, <2>8, <2>9
       DEF FrameInv, KindInv, ReaderInv, WriterInv, ChunkInv, BoundInv, CountInv, ExchangeWhole, Undisturbed
  <2>10. CASE ~broken
    <3>1. IF up.q = <<>> THEN agent \in {"body", "done"} ELSE Final(up.q) \in {"meta", "data"}
      BY <1>1, <2>10 DEF FrameInv, WriterInv, UpWriterInv
    <3>2. Final(up.q) \in {None, "meta", "resp", "data"}
      BY <2>1, <3>1, BeginFinal
    <3>3. Copied(up.q, left, c, up'.q)
      BY <2>1, <2>4, <2>10, <3>2, CopyStep
    <3>4. KindInv'
      BY <1>1, <1>3, <2>2, <2>7, <2>8, <3>3 DEF FrameInv, KindInv, Copied
    <3>5. up.q = <<>> => Begin(up.q) = None
      BY DEF Begin
    <3>6. ReaderInv'
      BY <1>1, <2>2, <2>7, <2>8, <3>1, <3>3 DEF FrameInv, ReaderInv, Copied
    <3>7. WriterInv'
      BY <1>1, <2>2, <2>4, <2>7, <2>8, <2>10, <3>1, <3>3
         DEF FrameInv, WriterInv, UpWriterInv, DownWriterInv, Copied
    <3>8. /\ c.end = "yes" => Body(up'.q) = Body(up.q) + 2 * left
          /\ c.end = "no" => Body(up'.q) = Body(up.q) + 2
          /\ c.end = "error" => Body(up'.q) <= Body(up.q) + 2
      BY <3>3 DEF Copied
    <3>9. kind = "http" /\ agent \in {"meta", "body"} => 2 * got + Body(up.q) + 2 * left <= 2 * BodyChunks
      BY <1>1 DEF ChunkInv, BoundInv
    <3>10. kind = "http" /\ agent \in {"meta", "body"} =>
             2 * got + Body(up'.q) + 2 * (IF master' \in {"meta", "body"} THEN left' ELSE 0) <= 2 * BodyChunks
      <4> SUFFICES ASSUME kind = "http", agent \in {"meta", "body"}
                   PROVE  2 * got + Body(up'.q) + 2 * (IF master' \in {"meta", "body"} THEN left' ELSE 0)
                            <= 2 * BodyChunks
        OBVIOUS
      <4>1. CASE c.end = "error"
        <5>1. 2 * got + Body(up'.q) + 2 * 0 <= 2 * BodyChunks
          BY <2>1, <2>2, <2>6, <3>8, <3>9, <4>1, CopyKeepsBound
        <5>2. QED
          BY <2>7, <4>1, <5>1
      <4>2. CASE c.end = "yes"
        <5>1. 2 * got + Body(up'.q) + 2 * 0 = 2 * got + Body(up.q) + 2 * left
          BY <2>1, <2>6, <3>8, <4>2, CopyKeepsCount
        <5>2. QED
          BY <2>8, <3>9, <4>2, <5>1
      <4>3. CASE c.end = "no"
        <5>1. 2 * got + Body(up'.q) + 2 * c.left = 2 * got + Body(up.q) + 2 * left
          BY <2>1, <2>2, <2>6, <3>8, <4>3, CopyKeepsCount
        <5>2. QED
          BY <1>3, <2>8, <3>9, <4>3, <5>1
      <4>4. QED
        BY <2>2, <4>1, <4>2, <4>3
    <3>11. BoundInv'
      BY <1>1, <1>3, <2>2, <2>7, <2>8, <3>10 DEF ChunkInv, BoundInv
    <3>12. Undisturbed' => Undisturbed /\ c.end # "error"
      BY <1>1, <2>7, <2>8 DEF Undisturbed
    <3>13. Undisturbed /\ kind = "http" /\ agent \in {"meta", "body"} =>
             2 * got + Body(up.q) + 2 * left = 2 * BodyChunks
      BY DEF ChunkInv, CountInv
    <3>14. Undisturbed' /\ kind = "http" /\ agent \in {"meta", "body"} =>
             2 * got + Body(up'.q) + 2 * left' = 2 * BodyChunks
      <4>1. c.end # "error" => 2 * got + Body(up'.q) + 2 * c.left = 2 * got + Body(up.q) + 2 * left
        BY <2>1, <2>2, <2>6, <3>8, CopyKeepsCount
      <4>2. QED
        BY <1>3, <3>12, <3>13, <4>1
    <3>15. CountInv' /\ ExchangeWhole'
      BY <1>1, <2>2, <2>8, <3>12, <3>14 DEF ChunkInv, CountInv, ExchangeWhole
    <3>16. QED
      BY <2>5, <3>4, <3>6, <3>7, <3>11, <3>15 DEF FrameInv, ChunkInv
  <2>11. QED
    BY <2>9, <2>10
<1>4. QED
  BY <1>2, <1>3 DEF MasterCopies

LEMMA MasterReadsHeadInv == StreamInv /\ MasterReadsHead => StreamInv'
<1> SUFFICES ASSUME StreamInv, MasterReadsHead
             PROVE  StreamInv'
  OBVIOUS
<1> USE DEF StreamInv
<1>1. /\ UNCHANGED <<kind, left, relayed, agent, got, panelGot, resp, raw, broken, aborted>>
      /\ master = "await" /\ up \in Wire /\ down \in Wire /\ down.q \in Seq(Frames) /\ Shape(down.q)
  BY WireFields DEF MasterReadsHead, agentVars, TypeInv, WireType, FrameInv, ReaderInv
<1>2. CASE Ended(down) /\ MasterReturns("502") /\ UNCHANGED down
  BY <1>1, <1>2, EndedEmpty, MasterLeaves DEF MasterReadsHead
<1>3. CASE /\ First(down) \in {"resp", "resp101"}
           /\ down' = Rest(down, 1)
           /\ master' = IF First(down) = "resp" THEN "relay" ELSE "raw"
           /\ outcome' = IF First(down) = "resp" THEN outcome ELSE "upgraded"
           /\ UNCHANGED up
  <2>1. Begin(down.q) \in {"resp", "resp101"} /\ First(down) = Begin(down.q) /\ down.q # <<>>
    BY <1>1, <1>3, FirstIsBegin, BeginFinal DEF None
  <2>2. 1 <= Len(down.q)
    BY <1>1, <2>1, SeqFacts
  <2>3. down' \in Wire /\ down'.end = down.end /\ down'.q = Taken(down.q, 2)
    BY <1>1, <1>3, <2>2, RestWire
  <2>4. TypeInv'
    BY <1>1, <1>3, <2>3 DEF TypeInv, WireType, MasterType, AgentType, RawType, SessionType
  <2>5. {"resp101", "raw", "len"} \subseteq Frames
    BY DEF Frames
  <2>6. /\ Lacks(down.q, "resp101") => Begin(down.q) # "resp101"
        /\ Upgraded(down.q) => Begin(down.q) # "resp"
    BY <1>1, <2>1, <2>5, BeginOnes
  <2>7. ~broken => /\ agent \notin {"meta", "body", "panel"}
                   /\ agent = "copy" => Final(down.q) \in {"resp", "data"}
                   /\ agent = "raw" => Upgraded(down.q)
                   /\ UpWriterInv /\ (down.end # "open" => agent = "done")
    BY <2>1 DEF FrameInv, WriterInv, DownWriterInv
  <2>8. Undisturbed => ~broken /\ (agent = "done" => Final(down.q) = "end" /\ resp.left = 0)
    BY <1>1 DEF ChunkInv, CountInv, Undisturbed
  <2>9. CASE Begin(down.q) = "resp"
    <3>1. master' = "relay" /\ outcome' = outcome
      BY <1>3, <2>1, <2>9
    <3>2. /\ Shape(down'.q) /\ Begin(down'.q) \in {None, "len", "end"} /\ Body(down'.q) = Body(down.q)
          /\ \/ down'.q = <<>> /\ Final(down.q) = "resp"
             \/ down'.q # <<>> /\ Final(down'.q) = Final(down.q)
          /\ \A x \in Frames : Lacks(down.q, x) => Lacks(down'.q, x)
      BY <1>1, <2>3, <2>9, TakeMessage
    <3>3. KindInv' /\ ReaderInv'
      BY <1>1, <1>3, <2>5, <3>1, <3>2 DEF FrameInv, KindInv, ReaderInv
    <3>4. WriterInv'
      BY <1>1, <1>3, <2>3, <2>6, <2>7, <2>9, <3>1, <3>2 DEF WriterInv, UpWriterInv, DownWriterInv
    <3>5. BoundInv'
      BY <1>1, <1>3, <3>1 DEF ChunkInv, BoundInv
    <3>6. CountInv' /\ ExchangeWhole'
      BY <1>1, <1>3, <2>8, <3>1, <3>2 DEF ChunkInv, CountInv, ExchangeWhole, Undisturbed
    <3>7. QED
      BY <2>4, <3>3, <3>4, <3>5, <3>6 DEF FrameInv, ChunkInv
  <2>10. CASE Begin(down.q) = "resp101"
    <3>1. master' = "raw" /\ outcome' = "upgraded"
      BY <1>3, <2>1, <2>10
    <3>2. Begin(down.q) \in RawAfter
      BY <2>10 DEF RawAfter
    <3>3. /\ Shape(down'.q) /\ Begin(down'.q) \in {None, "raw"} /\ Final(down.q) \in {"resp101", "raw"}
          /\ \A x \in Frames : Lacks(down.q, x) => Lacks(down'.q, x)
          /\ Upgraded(down.q) => Upgraded(down'.q)
      BY <1>1, <2>3, <2>10, <3>2, TakeEnd
    <3>4. KindInv' /\ ReaderInv'
      BY <1>1, <1>3, <2>5, <2>6, <2>10, <3>1, <3>3 DEF FrameInv, KindInv, ReaderInv, TypeInv, SessionType
    <3>5. WriterInv'
      BY <1>1, <1>3, <2>3, <2>6, <2>7, <3>1, <3>3 DEF WriterInv, UpWriterInv, DownWriterInv
    <3>6. BoundInv'
      BY <1>1, <1>3, <3>1 DEF ChunkInv, BoundInv
    <3>7. CountInv' /\ ExchangeWhole'
      BY <1>1, <1>3, <2>8, <3>1, <3>3 DEF ChunkInv, CountInv, ExchangeWhole, Undisturbed
    <3>8. QED
      BY <2>4, <3>4, <3>5, <3>6, <3>7 DEF FrameInv, ChunkInv
  <2>11. QED
    BY <2>1, <2>9, <2>10
<1>4. QED
  BY <1>2, <1>3 DEF MasterReadsHead

LEMMA BrowserLeavesInv == StreamInv /\ BrowserLeaves => StreamInv'
BY MasterLeaves DEF BrowserLeaves

LEMMA MasterRelaysInv == StreamInv /\ MasterRelays => StreamInv'
<1> SUFFICES ASSUME StreamInv, MasterRelays
             PROVE  StreamInv'
  OBVIOUS
<1> USE DEF StreamInv
<1>1. /\ UNCHANGED <<kind, left, agent, got, panelGot, resp, raw, broken, aborted>>
      /\ master = "relay" /\ up \in Wire /\ down \in Wire /\ down.q \in Seq(Frames) /\ Shape(down.q)
  BY WireFields DEF MasterRelays, agentVars, TypeInv, WireType, FrameInv, ReaderInv
<1>2. Undisturbed => ~broken /\ (agent = "done" => Final(down.q) = "end" /\ resp.left = 0)
  BY <1>1 DEF ChunkInv, CountInv, Undisturbed
<1>3. down.q # <<>> /\ ~broken =>
        /\ agent \notin {"meta", "body", "panel"}
        /\ agent = "copy" => Final(down.q) \in {"resp", "data"}
        /\ agent = "raw" => Upgraded(down.q)
        /\ UpWriterInv /\ (down.end # "open" => agent = "done")
  BY DEF FrameInv, WriterInv, DownWriterInv
<1>4. {"resp101", "raw", "len"} \subseteq Frames
  BY DEF Frames
<1>5. CASE Ended(down) /\ UNCHANGED <<down, relayed>> /\ (MasterReturns("finished") \/ MasterReturns("502"))
  <2>1. down.end # "open" /\ Final(down.q) \in {None, "len"}
    BY <1>1, <1>5, EndedEmpty
  <2>2. ~broken => agent = "done"
    BY <2>1 DEF FrameInv, WriterInv, DownWriterInv
  <2>3. ~Undisturbed
    BY <1>2, <2>1, <2>2 DEF None
  <2>4. UNCHANGED agentVars
    BY DEF MasterRelays
  <2>5. CASE MasterReturns("finished")
    BY <1>1, <1>5, <2>1, <2>3, <2>4, <2>5, MasterLeaves
  <2>6. CASE MasterReturns("502")
    BY <1>1, <1>5, <2>1, <2>4, <2>6, MasterLeaves
  <2>7. QED
    BY <1>5, <2>5, <2>6
<1>6. CASE HasChunk(down) /\ down' = Rest(down, 2) /\ relayed' = relayed + 1 /\ UNCHANGED <<up, master, outcome>>
  <2>1. Begin(down.q) = "len" /\ 2 <= Len(down.q)
    BY <1>1, <1>6, ChunkIsThere
  <2>2. down' \in Wire /\ down'.end = down.end /\ down'.q = Taken(down.q, 3)
    BY <1>1, <1>6, <2>1, RestWire
  <2>3. TypeInv'
    BY <1>1, <1>6, <2>2 DEF TypeInv, WireType, MasterType, AgentType, RawType, SessionType
  <2>4. /\ Shape(down'.q) /\ Begin(down'.q) \in {None, "len", "end"} /\ Body(down'.q) = Body(down.q) - 2
        /\ \/ down'.q = <<>> /\ Final(down.q) = "data"
           \/ down'.q # <<>> /\ Final(down'.q) = Final(down.q)
        /\ \A x \in Frames : Lacks(down.q, x) => Lacks(down'.q, x)
    BY <1>1, <2>1, <2>2, TakeChunk
  <2>5. down.q # <<>>
    BY <2>1 DEF Begin, None
  <2>6. ~Upgraded(down.q)
    BY <1>1, <2>1, <2>5, BeginOnes
  <2>7. KindInv' /\ ReaderInv'
    BY <1>1, <1>4, <1>6, <2>4 DEF FrameInv, KindInv, ReaderInv
  <2>8. WriterInv'
    BY <1>1, <1>3, <1>6, <2>2, <2>4, <2>5, <2>6 DEF WriterInv, UpWriterInv, DownWriterInv
  <2>9. BoundInv'
    BY <1>1, <1>6 DEF ChunkInv, BoundInv
  <2>10. relayed \in Nat /\ Body(down.q) \in Nat /\ resp.left \in Nat /\ resp.chunks \in Nat
    BY <1>1, BodyNat DEF TypeInv, MasterType, AgentType
  <2>11. Undisturbed /\ agent \in {"copy", "done"} =>
           2 * relayed + Body(down.q) + 2 * resp.left = 2 * resp.chunks
    BY <1>1 DEF ChunkInv, CountInv
  <2>12. Undisturbed /\ agent \in {"copy", "done"} =>
           2 * relayed' + Body(down'.q) + 2 * resp.left = 2 * resp.chunks
    BY <1>6, <2>4, <2>10, <2>11
  <2>13. Undisturbed' = Undisturbed
    BY <1>1 DEF Undisturbed
  <2>14. CountInv' /\ ExchangeWhole'
    <3>1. outcome # "finished"
      BY <1>1 DEF ChunkInv, BoundInv
    <3>2. QED
      BY <1>1, <1>2, <1>6, <2>4, <2>12, <2>13, <3>1 DEF ChunkInv, CountInv, ExchangeWhole
  <2>15. QED
    BY <2>3, <2>7, <2>8, <2>9, <2>14 DEF FrameInv, ChunkInv
<1>7. CASE HasEnd(down) /\ down' = Rest(down, 1) /\ MasterReturns("finished") /\ UNCHANGED relayed
  <2>1. Begin(down.q) = "end" /\ down.q # <<>>
    BY <1>1, <1>7, FirstIsBegin, BeginFinal DEF HasEnd, None
  <2>2. 1 <= Len(down.q)
    BY <1>1, <2>1, SeqFacts
  <2>3. down' \in Wire /\ down'.end = down.end /\ down'.q = Taken(down.q, 2)
    BY <1>1, <1>7, <2>2, RestWire
  <2>4. up' \in Wire /\ up'.q = up.q /\ up'.end # "open" /\ master' = "done" /\ outcome' = "finished"
    BY <1>1, <1>7, ClosedWire DEF MasterReturns
  <2>5. TypeInv'
    BY <1>1, <1>7, <2>3, <2>4 DEF TypeInv, WireType, MasterType, AgentType, RawType, SessionType
  <2>6. "end" \in RawAfter
    BY DEF RawAfter
  <2>7. /\ Shape(down'.q)
        /\ (Final(down.q) = "end" /\ Len(down.q) = 1) \/ Final(down.q) = "raw"
        /\ \A x \in Frames : Lacks(down.q, x) => Lacks(down'.q, x)
    BY <1>1, <2>1, <2>3, <2>6, TakeEnd
  <2>8. ~Upgraded(down.q)
    BY <1>1, <2>1, BeginOnes
  <2>9. ~broken => agent = "done"
    BY <1>3, <2>1, <2>7, <2>8 DEF TypeInv, AgentType
  <2>10. KindInv' /\ ReaderInv'
    BY <1>1, <1>4, <2>4, <2>7 DEF FrameInv, KindInv, ReaderInv
  <2>11. WriterInv'
    BY <1>1, <2>4, <2>9 DEF WriterInv, UpWriterInv, DownWriterInv
  <2>12. up.q \in Seq(Frames) /\ left \in Nat /\ got \in Nat /\ BodyChunks \in Nat /\ Body(up.q) \in Nat
    BY <1>1, WireFields, BodyNat, ChunksAssumption DEF TypeInv, MasterType, AgentType
  <2>13. BoundInv'
    BY <1>1, <2>4, <2>12 DEF ChunkInv, BoundInv
  <2>14. Undisturbed => relayed = resp.chunks
    <3>1. Undisturbed => Final(down.q) = "end" /\ Len(down.q) = 1 /\ resp.left = 0
      BY <1>2, <2>7, <2>9
    <3>2. Undisturbed => Body(down.q) = 0
      BY <2>1, <3>1 DEF Body
    <3>3. Undisturbed => 2 * relayed + Body(down.q) + 2 * resp.left = 2 * resp.chunks
      BY <1>1, <1>2, <2>9 DEF ChunkInv, CountInv
    <3>4. relayed \in Nat /\ resp.chunks \in Nat
      BY DEF TypeInv, MasterType, AgentType
    <3>5. QED
      BY <3>1, <3>2, <3>3, <3>4
  <2>15. Undisturbed' => Undisturbed /\ agent = "done"
    BY <1>1, <1>2, <2>9 DEF Undisturbed
  <2>16. CountInv' /\ ExchangeWhole'
    BY <1>1, <1>7, <2>4, <2>14, <2>15 DEF ChunkInv, CountInv, ExchangeWhole
  <2>17. QED
    BY <2>5, <2>10, <2>11, <2>13, <2>16 DEF FrameInv, ChunkInv
<1>8. QED
  BY <1>5, <1>6, <1>7 DEF MasterRelays

LEMMA MasterRawInv == StreamInv /\ MasterRaw => StreamInv'
<1> SUFFICES ASSUME StreamInv, MasterRaw
             PROVE  StreamInv'
  OBVIOUS
<1> USE DEF StreamInv
<1>1. /\ UNCHANGED <<kind, left, relayed, agent, got, panelGot, resp, broken, aborted>>
      /\ master = "raw" /\ up \in Wire /\ down \in Wire /\ up.q \in Seq(Frames) /\ Shape(up.q)
      /\ down.q \in Seq(Frames) /\ Shape(down.q)
  BY WireFields DEF MasterRaw, agentVars, TypeInv, WireType, FrameInv, ReaderInv
<1>2. kind = "ws"
  BY <1>1 DEF FrameInv, KindInv, TypeInv, SessionType
<1>3. CASE down.end # "open" /\ MasterReturns("upgraded") /\ UNCHANGED <<down, raw>>
  BY <1>1, <1>3, MasterLeaves DEF MasterRaw
<1>4. CASE First(down) = "raw" /\ down' = Rest(down, 1) /\ UNCHANGED <<up, master, outcome, raw>>
  <2>1. Begin(down.q) = "raw" /\ down.q # <<>>
    BY <1>1, <1>4, FirstIsBegin, BeginFinal DEF None
  <2>2. 1 <= Len(down.q) /\ "raw" \in RawAfter
    BY <1>1, <2>1, SeqFacts DEF RawAfter
  <2>3. down' \in Wire /\ down'.end = down.end /\ down'.q = Taken(down.q, 2)
    BY <1>1, <1>4, <2>2, RestWire
  <2>4. TypeInv'
    BY <1>1, <1>4, <2>3 DEF TypeInv, WireType, MasterType, AgentType, RawType, SessionType
  <2>5. /\ Shape(down'.q) /\ Begin(down'.q) \in {None, "raw"} /\ Final(down.q) = "raw"
        /\ Upgraded(down.q) => Upgraded(down'.q)
    BY <1>1, <2>1, <2>2, <2>3, TakeEnd
  <2>6. KindInv' /\ ReaderInv'
    BY <1>1, <1>2, <1>4, <2>5 DEF FrameInv, KindInv, ReaderInv
  <2>7. WriterInv'
    BY <1>1, <1>4, <2>1, <2>3, <2>5 DEF FrameInv, WriterInv, UpWriterInv, DownWriterInv
  <2>8. BoundInv' /\ CountInv' /\ ExchangeWhole'
    BY <1>1, <1>2, <1>4, <2>5 DEF ChunkInv, BoundInv, CountInv, ExchangeWhole, Undisturbed
  <2>9. QED
    BY <2>4, <2>6, <2>7, <2>8 DEF FrameInv, ChunkInv
<1>5. CASE /\ raw["master"] > 0
           /\ raw' = [raw EXCEPT !["master"] = @ - 1]
           /\ up' = Written(up, <<"raw">>)
           /\ UNCHANGED <<down, master, outcome>>
  <2>1. RawType'
    BY <1>5, ChunksAssumption DEF TypeInv, RawType
  <2>2. <<"raw">> \in Seq(Frames) /\ {"raw", "len"} \subseteq Frames
    BY DEF Frames
  <2>3. /\ up' \in Wire /\ up'.end = up.end
        /\ broken => up'.q = up.q
        /\ ~broken => up'.q = up.q \o <<"raw">>
    BY <1>1, <1>5, <2>2, WrittenWire
  <2>4. TypeInv'
    BY <1>1, <1>5, <2>1, <2>3 DEF TypeInv, WireType, MasterType, AgentType, SessionType
  <2>5. CASE broken
    BY <1>1, <1>2, <1>5, <2>3, <2>4, <2>5
       DEF FrameInv, KindInv, ReaderInv, WriterInv, ChunkInv, BoundInv, CountInv, ExchangeWhole, Undisturbed
  <2>6. CASE ~broken
    <3>1. IF up.q = <<>> THEN agent \notin {"meta", "body"} ELSE Final(up.q) \in {"end", "raw"}
      BY <1>1, <2>6 DEF FrameInv, WriterInv, UpWriterInv
    <3>2. Final(up.q) \in {None, "end", "raw", "resp101"}
      BY <1>1, <3>1, BeginFinal
    <3>3. /\ Shape(up'.q) /\ up'.q # <<>> /\ Final(up'.q) = "raw"
          /\ Begin(up'.q) = (IF up.q = <<>> THEN "raw" ELSE Begin(up.q))
          /\ \A y \in Frames : Lacks(up.q, y) /\ y # "raw" => Lacks(up'.q, y)
      BY <1>1, <2>3, <2>6, <3>2, AddRaw
    <3>4. KindInv'
      BY <1>1, <1>2, <1>5, <2>2, <3>3 DEF FrameInv, KindInv
    <3>5. ReaderInv'
      BY <1>1, <1>5, <3>1, <3>3 DEF FrameInv, ReaderInv
    <3>6. WriterInv'
      BY <1>1, <1>5, <2>3, <2>6, <3>3 DEF FrameInv, WriterInv, UpWriterInv, DownWriterInv
    <3>7. BoundInv' /\ CountInv' /\ ExchangeWhole'
      BY <1>1, <1>2, <1>5 DEF ChunkInv, BoundInv, CountInv, ExchangeWhole, Undisturbed
    <3>8. QED
      BY <2>4, <3>4, <3>5, <3>6, <3>7 DEF FrameInv, ChunkInv
  <2>7. QED
    BY <2>5, <2>6
<1>6. QED
  BY <1>3, <1>4, <1>5 DEF MasterRaw

-----------------------------------------------------------------------------
(***************************************************************************)
(* The agent's end.                                                        *)
(***************************************************************************)

LEMMA JoinNothing == ASSUME NEW q \in Seq(Frames) PROVE <<>> \o q = q /\ q \o <<>> = q
OBVIOUS

\* The agent returns because the master is gone or the session, or because the panel
\* has left.
LEMMA AgentLeaves ==
  ASSUME StreamInv, AgentReturns(<<>>), agent # "done",
         UNCHANGED <<kind, up, masterVars, got, panelGot, resp, raw, broken>>,
         aborted' \in {aborted, TRUE},
         broken \/ up.end # "open" \/ (aborted' /\ agent # "meta")
  PROVE  StreamInv'
<1> USE DEF StreamInv
<1>1. <<>> \in Seq(Frames) /\ down \in Wire /\ down.q \in Seq(Frames)
  BY WireFields DEF TypeInv, WireType
<1>2. Written(down, <<>>) \in Wire /\ Written(down, <<>>).q = down.q
  BY <1>1, WrittenWire, JoinNothing DEF TypeInv, SessionType
<1>3. down' \in Wire /\ down'.q = down.q /\ down'.end # "open" /\ agent' = "done"
  BY <1>2, ClosedWire DEF AgentReturns
<1>4. UNCHANGED <<left, master, relayed, outcome>>
  BY DEF masterVars
<1>5. TypeInv'
  <2>1. aborted' \in BOOLEAN
    BY DEF TypeInv, SessionType
  <2>2. QED
    BY <1>3, <1>4, <2>1 DEF TypeInv, WireType, MasterType, AgentType, RawType, SessionType
<1>6. KindInv' /\ ReaderInv'
  BY <1>3, <1>4 DEF FrameInv, KindInv, ReaderInv
<1>7. WriterInv'
  BY <1>3, <1>4 DEF FrameInv, WriterInv, UpWriterInv, DownWriterInv
<1>8. BoundInv'
  BY <1>3, <1>4 DEF ChunkInv, BoundInv
<1>9. ~Undisturbed'
  BY DEF Undisturbed, FrameInv, WriterInv, UpWriterInv, ChunkInv, CountInv
<1>10. CountInv' /\ ExchangeWhole'
  BY <1>9 DEF CountInv, ExchangeWhole
<1>11. QED
  BY <1>5, <1>6, <1>7, <1>8, <1>10 DEF FrameInv, ChunkInv

\* The agent answers with an error of its own before the panel has answered.
LEMMA AgentFails ==
  ASSUME StreamInv, AgentWritesErr, agent \in {"meta", "body", "panel"},
         UNCHANGED <<kind, masterVars, got, panelGot, raw, broken, aborted>>,
         up' \in Wire, up'.end = up.end, Shape(up'.q),
         \A y \in Frames : Lacks(up.q, y) => Lacks(up'.q, y),
         up'.q = <<>> \/ (up.q # <<>> /\ Final(up'.q) = Final(up.q)),
         ~broken => master # "meta"
  PROVE  StreamInv'
<1> USE DEF StreamInv
<1>1. /\ down \in Wire /\ down.q \in Seq(Frames) /\ ErrorResponse \in Seq(Frames)
      /\ UNCHANGED <<left, master, relayed, outcome>>
  BY WireFields, ErrorShape DEF TypeInv, WireType, masterVars
<1>2. /\ Written(down, ErrorResponse) \in Wire
      /\ broken => Written(down, ErrorResponse).q = down.q
      /\ ~broken => Written(down, ErrorResponse).q = down.q \o ErrorResponse
  BY <1>1, WrittenWire
<1>3. /\ down' \in Wire /\ down'.end # "open" /\ agent' = "done"
      /\ broken => down'.q = down.q
      /\ ~broken => down'.q = down.q \o ErrorResponse
  BY <1>2, ClosedWire DEF AgentWritesErr, AgentReturns
<1>4. /\ resp' \in [streams : BOOLEAN, chunks : Nat, left : Nat]
      /\ resp'.chunks = 1 /\ resp'.left = 0
  BY DEF AgentWritesErr
<1>5. TypeInv'
  BY <1>1, <1>3, <1>4 DEF TypeInv, WireType, MasterType, AgentType, RawType, SessionType
<1>6. ~broken => down.q = <<>> /\ master \in {"meta", "body", "await", "done"}
  BY DEF FrameInv, WriterInv, DownWriterInv
<1>7. ~broken => down'.q = ErrorResponse
  BY <1>1, <1>3, <1>6, JoinNothing
<1>8. {"raw", "len", "resp101"} \subseteq Frames
  BY DEF Frames
<1>9. KindInv' /\ ReaderInv'
  <2>1. CASE broken
    BY <1>1, <1>3, <1>8, <2>1 DEF FrameInv, KindInv, ReaderInv
  <2>2. CASE ~broken
    BY <1>1, <1>3, <1>6, <1>7, <1>8, <2>2, ErrorShape DEF FrameInv, KindInv, ReaderInv
  <2>3. QED
    BY <2>1, <2>2
<1>10. WriterInv'
  BY <1>1, <1>3, <1>6 DEF FrameInv, WriterInv, UpWriterInv, DownWriterInv
<1>11. BoundInv'
  BY <1>1, <1>3 DEF ChunkInv, BoundInv
<1>12. Undisturbed' => Undisturbed /\ ~broken /\ master # "done"
  BY DEF Undisturbed, ChunkInv, CountInv
<1>13. ~broken /\ master # "done" => relayed = 0
  BY <1>6 DEF ChunkInv, BoundInv
<1>14. CountInv'
  BY <1>1, <1>3, <1>4, <1>7, <1>12, <1>13, ErrorShape DEF CountInv
<1>15. ExchangeWhole'
  BY <1>1, <1>12 DEF ChunkInv, BoundInv, ExchangeWhole
<1>16. QED
  BY <1>5, <1>9, <1>10, <1>11, <1>14, <1>15 DEF FrameInv, ChunkInv

LEMMA AgentReadsMetaInv == StreamInv /\ AgentReadsMeta => StreamInv'
<1> SUFFICES ASSUME StreamInv, AgentReadsMeta
             PROVE  StreamInv'
  OBVIOUS
<1> USE DEF StreamInv
<1>1. /\ UNCHANGED <<kind, left, master, relayed, outcome, got, panelGot, raw, broken, aborted>>
      /\ agent = "meta" /\ up \in Wire /\ up.q \in Seq(Frames) /\ Shape(up.q)
  BY WireFields DEF AgentReadsMeta, masterVars, TypeInv, WireType, FrameInv, ReaderInv
<1>2. CASE Ended(up) /\ AgentReturns(<<>>) /\ UNCHANGED <<up, resp>>
  BY <1>1, <1>2, EndedEmpty, AgentLeaves DEF AgentReadsMeta
<1>3. CASE /\ First(up) = "meta" /\ up' = Rest(up, 1)
           /\ (agent' = "body" /\ UNCHANGED <<down, resp>>) \/ AgentWritesErr
  <2>1. Begin(up.q) = "meta" /\ up.q # <<>>
    BY <1>1, <1>3, FirstIsBegin, BeginFinal DEF None
  <2>2. 1 <= Len(up.q)
    BY <1>1, <2>1, SeqFacts
  <2>3. up' \in Wire /\ up'.end = up.end /\ up'.q = Taken(up.q, 2)
    BY <1>1, <1>3, <2>2, RestWire
  <2>4. /\ Shape(up'.q) /\ Begin(up'.q) \in {None, "len", "end"} /\ Body(up'.q) = Body(up.q)
        /\ \/ up'.q = <<>> /\ Final(up.q) = "meta"
           \/ up'.q # <<>> /\ Final(up'.q) = Final(up.q)
        /\ \A y \in Frames : Lacks(up.q, y) => Lacks(up'.q, y)
    BY <1>1, <2>1, <2>3, TakeMessage
  <2>5. ~broken => master # "meta"
    BY <2>1 DEF FrameInv, WriterInv, UpWriterInv
  <2>6. CASE AgentWritesErr
    BY <1>1, <2>1, <2>3, <2>4, <2>5, <2>6, AgentFails DEF AgentReadsMeta
  <2>7. CASE agent' = "body" /\ UNCHANGED <<down, resp>>
    <3>1. TypeInv'
      BY <1>1, <2>3, <2>7 DEF TypeInv, WireType, MasterType, AgentType, RawType, SessionType
    <3>2. {"raw", "len"} \subseteq Frames
      BY DEF Frames
    <3>3. KindInv' /\ ReaderInv'
      BY <1>1, <2>4, <2>7, <3>2 DEF FrameInv, KindInv, ReaderInv
    <3>4. WriterInv'
      BY <1>1, <2>1, <2>3, <2>4, <2>5, <2>7 DEF FrameInv, WriterInv, UpWriterInv, DownWriterInv
    <3>5. BoundInv' /\ CountInv' /\ ExchangeWhole'
      BY <1>1, <2>4, <2>7 DEF ChunkInv, BoundInv, CountInv, ExchangeWhole, Undisturbed
    <3>6. QED
      BY <3>1, <3>3, <3>4, <3>5 DEF FrameInv, ChunkInv
  <2>8. QED
    BY <1>3, <2>6, <2>7
<1>4. QED
  BY <1>2, <1>3 DEF AgentReadsMeta

LEMMA ReadBound ==
  ASSUME NEW g \in Nat, NEW b \in Nat, NEW l \in Nat, NEW n \in Nat, 2 * g + b + 2 * l <= 2 * n
  PROVE  g \in 0 .. n
OBVIOUS

LEMMA EndIsEmpty ==
  ASSUME NEW q \in Seq(Frames), Begin(q) = "end", Final(q) = "end", Len(q) = 1
  PROVE  Body(q) = 0
<1>1. (IF Begin(q) \in {"meta", "resp"} THEN 1 ELSE 0) = 0
  OBVIOUS
<1>2. (IF Final(q) = "end" THEN 1 ELSE 0) = 1
  OBVIOUS
<1>3. Body(q) = 1 - 0 - 1
  BY <1>1, <1>2 DEF Body
<1>4. QED
  BY <1>3

LEMMA AgentReadsBodyInv == StreamInv /\ AgentReadsBody => StreamInv'
<1> SUFFICES ASSUME StreamInv, AgentReadsBody
             PROVE  StreamInv'
  OBVIOUS
<1> USE DEF StreamInv
<1>1. /\ UNCHANGED <<kind, left, master, relayed, outcome, raw, broken, aborted>>
      /\ agent = "body" /\ up \in Wire /\ up.q \in Seq(Frames) /\ Shape(up.q)
  BY WireFields DEF AgentReadsBody, masterVars, TypeInv, WireType, FrameInv, ReaderInv
<1>2. {"raw", "len"} \subseteq Frames
  BY DEF Frames
<1>3. got \in Nat /\ left \in Nat /\ BodyChunks \in Nat /\ Body(up.q) \in Nat
  BY <1>1, BodyNat, ChunksAssumption DEF TypeInv, MasterType, AgentType
<1>4. Undisturbed => master # "done" /\ ~broken
  BY <1>1 DEF Undisturbed, ChunkInv, CountInv
<1>5. CASE HasChunk(up) /\ up' = Rest(up, 2) /\ got' = got + 1 /\ UNCHANGED <<agent, down, panelGot, resp>>
  <2>1. Begin(up.q) = "len" /\ 2 <= Len(up.q)
    BY <1>1, <1>5, ChunkIsThere
  <2>2. up' \in Wire /\ up'.end = up.end /\ up'.q = Taken(up.q, 3)
    BY <1>1, <1>5, <2>1, RestWire
  <2>3. /\ up'.q \in Seq(Frames) /\ Shape(up'.q) /\ Begin(up'.q) \in {None, "len", "end"}
        /\ Body(up'.q) = Body(up.q) - 2
        /\ \/ up'.q = <<>> /\ Final(up.q) = "data"
           \/ up'.q # <<>> /\ Final(up'.q) = Final(up.q)
        /\ \A x \in Frames : Lacks(up.q, x) => Lacks(up'.q, x)
    BY <1>1, <2>1, <2>2, TakeChunk
  <2>4. up.q # <<>>
    BY <2>1 DEF Begin, None
  <2>5. kind = "http"
    <3>1. ~Lacks(up.q, "len")
      BY <1>1, <1>2, <2>1, <2>4, BeginOnes
    <3>2. QED
      BY <3>1 DEF FrameInv, KindInv, TypeInv, SessionType
  <2>6. Body(up'.q) \in Nat
    BY <2>3, BodyNat
  <2>7. 2 * got' + Body(up'.q) = 2 * got + Body(up.q)
    BY <1>3, <1>5, <2>3
  <2>8. 2 * got' + Body(up'.q) + 2 * (IF master \in {"meta", "body"} THEN left ELSE 0) <= 2 * BodyChunks
    BY <1>1, <2>5, <2>7 DEF ChunkInv, BoundInv
  <2>9. got' \in 0 .. BodyChunks
    <3>1. got' \in Nat
      BY <1>3, <1>5
    <3>2. (IF master \in {"meta", "body"} THEN left ELSE 0) \in Nat
      BY <1>3
    <3>3. QED
      BY <1>3, <2>6, <2>8, <3>1, <3>2, ReadBound
  <2>10. TypeInv'
    BY <1>1, <1>5, <2>2, <2>9 DEF TypeInv, WireType, MasterType, AgentType, RawType, SessionType
  <2>11. KindInv' /\ ReaderInv'
    BY <1>1, <1>2, <1>5, <2>3, <2>5 DEF FrameInv, KindInv, ReaderInv
  <2>12. WriterInv'
    BY <1>1, <1>5, <2>2, <2>3, <2>4 DEF FrameInv, WriterInv, UpWriterInv, DownWriterInv
  <2>13. BoundInv'
    BY <1>1, <1>5, <2>8 DEF ChunkInv, BoundInv
  <2>14. CountInv'
    BY <1>1, <1>5, <2>5, <2>7 DEF ChunkInv, CountInv, Undisturbed
  <2>15. ExchangeWhole'
    BY <1>1, <1>5 DEF ChunkInv, ExchangeWhole, Undisturbed
  <2>16. QED
    BY <2>10, <2>11, <2>12, <2>13, <2>14, <2>15 DEF FrameInv, ChunkInv
<1>6. CASE /\ HasEnd(up) /\ up' = Rest(up, 1) /\ agent' = "panel" /\ panelGot' = {got}
           /\ UNCHANGED <<down, got, resp>>
  <2>1. Begin(up.q) = "end" /\ up.q # <<>>
    BY <1>1, <1>6, FirstIsBegin, BeginFinal DEF HasEnd, None
  <2>2. 1 <= Len(up.q) /\ "end" \in RawAfter
    BY <1>1, <2>1, SeqFacts DEF RawAfter
  <2>3. up' \in Wire /\ up'.end = up.end /\ up'.q = Taken(up.q, 2)
    BY <1>1, <1>6, <2>2, RestWire
  <2>4. /\ up'.q \in Seq(Frames) /\ Shape(up'.q) /\ Begin(up'.q) \in {None, "raw"}
        /\ \/ up'.q = <<>> /\ Final(up.q) = "end" /\ Len(up.q) = 1
           \/ up'.q # <<>> /\ Final(up'.q) = "raw" /\ Final(up.q) = "raw"
        /\ \A x \in Frames : Lacks(up.q, x) => Lacks(up'.q, x)
    BY <1>1, <2>1, <2>2, <2>3, TakeEnd
  <2>5. ~broken => master \notin {"meta", "body"}
    BY <2>1, <2>4 DEF FrameInv, WriterInv, UpWriterInv
  <2>6. TypeInv'
    BY <1>1, <1>6, <2>3 DEF TypeInv, WireType, MasterType, AgentType, RawType, SessionType
  <2>7. KindInv' /\ ReaderInv'
    BY <1>1, <1>2, <1>6, <2>4 DEF FrameInv, KindInv, ReaderInv
  <2>8. WriterInv'
    BY <1>1, <1>6, <2>1, <2>3, <2>4, <2>5 DEF FrameInv, WriterInv, UpWriterInv, DownWriterInv
  <2>9. BoundInv' /\ CountInv'
    BY <1>1, <1>4, <1>6 DEF ChunkInv, BoundInv, CountInv, Undisturbed
  <2>10. Undisturbed /\ kind = "http" => got = BodyChunks
    <3> SUFFICES ASSUME Undisturbed, kind = "http"
                 PROVE  got = BodyChunks
      OBVIOUS
    <3>1. up'.q = <<>> /\ Final(up.q) = "end" /\ Len(up.q) = 1
      <4>1. Lacks(up'.q, "raw")
        BY <1>2, <2>4 DEF FrameInv, KindInv
      <4>2. up'.q # <<>> => Begin(up'.q) = "raw"
        BY <2>4, BeginFinal
      <4>3. QED
        BY <1>2, <2>4, <4>1, <4>2, BeginOnes
    <3>2. Body(up.q) = 0
      BY <1>1, <2>1, <3>1, EndIsEmpty
    <3>3. left = 0
      BY <1>4, <2>5 DEF ChunkInv, BoundInv, TypeInv, MasterType
    <3>4. 2 * got + Body(up.q) + 2 * left = 2 * BodyChunks
      BY <1>1 DEF ChunkInv, CountInv
    <3>5. QED
      BY <1>3, <3>2, <3>3, <3>4
  <2>11. ExchangeWhole'
    BY <1>1, <1>6, <2>10 DEF ChunkInv, ExchangeWhole, Undisturbed
  <2>12. QED
    BY <2>6, <2>7, <2>8, <2>9, <2>11 DEF FrameInv, ChunkInv
<1>7. CASE Ended(up) /\ agent' = "panel" /\ panelGot' = {got} /\ UNCHANGED <<up, down, got, resp>>
  <2>1. up.end # "open" /\ (Lacks(up.q, "len") => up.q = <<>>)
    BY <1>1, <1>7, EndedEmpty
  <2>2. ~broken => master = "done"
    BY <2>1 DEF FrameInv, WriterInv, UpWriterInv
  <2>3. TypeInv'
    BY <1>1, <1>7 DEF TypeInv, WireType, MasterType, AgentType, RawType, SessionType
  <2>4. up.q = <<>> => Begin(up.q) = None
    BY DEF Begin
  <2>5. KindInv' /\ ReaderInv'
    BY <1>1, <1>7, <2>1, <2>4 DEF FrameInv, KindInv, ReaderInv
  <2>6. WriterInv'
    BY <1>1, <1>7, <2>2 DEF FrameInv, WriterInv, UpWriterInv, DownWriterInv
  <2>7. BoundInv' /\ CountInv' /\ ExchangeWhole'
    BY <1>1, <1>4, <1>7, <2>2 DEF ChunkInv, BoundInv, CountInv, ExchangeWhole, Undisturbed
  <2>8. QED
    BY <2>3, <2>5, <2>6, <2>7 DEF FrameInv, ChunkInv
<1>8. CASE Ended(up) /\ AgentWritesErr /\ UNCHANGED <<up, got, panelGot>>
  <2>1. up.end # "open"
    BY <1>1, <1>8, EndedEmpty
  <2>2. ~broken => master # "meta"
    BY <2>1 DEF FrameInv, WriterInv, UpWriterInv
  <2>3. QED
    BY <1>1, <1>8, <2>2, AgentFails DEF AgentReadsBody
<1>9. QED
  BY <1>5, <1>6, <1>7, <1>8 DEF AgentReadsBody

LEMMA PanelAnswersInv == StreamInv /\ PanelAnswers => StreamInv'
<1> SUFFICES ASSUME StreamInv, PanelAnswers
             PROVE  StreamInv'
  OBVIOUS
<1> USE DEF StreamInv
<1>1. /\ UNCHANGED <<kind, up, left, master, relayed, outcome, got, panelGot, raw, broken, aborted>>
      /\ agent = "panel" /\ up \in Wire /\ down \in Wire /\ down.q \in Seq(Frames)
  BY WireFields DEF PanelAnswers, masterVars, TypeInv, WireType
<1>2. {"raw", "len", "resp101"} \subseteq Frames /\ "resp" \in Heads /\ "resp101" \in Heads
  BY DEF Frames, Heads
<1>3. <<"resp">> \in Seq(Frames) /\ <<"resp101">> \in Seq(Frames)
  BY DEF Frames
<1>4. ~broken => /\ down.q = <<>> /\ master \in {"body", "await", "done"}
                 /\ master = "body" => up.q # <<>>
  BY <1>1 DEF FrameInv, WriterInv, UpWriterInv, DownWriterInv
<1>5. Undisturbed => master \in {"body", "await"} /\ ~broken /\ relayed = 0
  BY <1>1, <1>4 DEF Undisturbed, ChunkInv, CountInv, BoundInv
<1>6. CASE MayFail(up) /\ AgentReturns(<<>>) /\ UNCHANGED resp
  BY <1>1, <1>6, AgentLeaves DEF PanelAnswers, MayFail
<1>7. CASE AgentWritesErr
  <2>1. up' \in Wire /\ up'.end = up.end /\ up'.q = up.q /\ Shape(up.q)
    BY <1>1 DEF FrameInv, ReaderInv
  <2>2. ~broken => master # "meta"
    BY <1>4
  <2>3. QED
    BY <1>1, <1>7, <2>1, <2>2, AgentFails DEF PanelAnswers
<1>8. ASSUME NEW s \in BOOLEAN, agent' = "copy", down' = Written(down, <<"resp">>),
             resp' = [streams |-> s, chunks |-> RespChunks, left |-> RespChunks]
      PROVE  StreamInv'
  <2>1. /\ down' \in Wire /\ down'.end = down.end
        /\ broken => down'.q = down.q
        /\ ~broken => down'.q = <<>> \o <<"resp">>
    BY <1>1, <1>3, <1>4, <1>8, WrittenWire
  <2>2. /\ resp' \in [streams : BOOLEAN, chunks : Nat, left : Nat]
        /\ resp'.chunks = RespChunks /\ resp'.left = RespChunks /\ RespChunks \in Nat
    BY <1>8, ChunksAssumption
  <2>3. TypeInv'
    BY <1>1, <1>8, <2>1, <2>2 DEF TypeInv, WireType, MasterType, AgentType, RawType, SessionType
  <2>4. ~broken => /\ Shape(down'.q) /\ Begin(down'.q) = "resp" /\ Final(down'.q) = "resp"
                   /\ down'.q # <<>> /\ Body(down'.q) = 0 /\ Lacks(down'.q, "resp101")
    BY <1>2, <2>1, AddMessage
  <2>5. KindInv' /\ ReaderInv'
    <3>1. CASE broken
      BY <1>1, <1>8, <2>1, <3>1 DEF FrameInv, KindInv, ReaderInv
    <3>2. CASE ~broken
      BY <1>1, <1>4, <1>8, <2>4, <3>2 DEF FrameInv, KindInv, ReaderInv
    <3>3. QED
      BY <3>1, <3>2
  <2>6. WriterInv'
    BY <1>1, <1>4, <1>8, <2>1, <2>4 DEF FrameInv, WriterInv, UpWriterInv, DownWriterInv
  <2>7. BoundInv'
    BY <1>1, <1>8 DEF ChunkInv, BoundInv
  <2>8. Undisturbed' => Undisturbed
    BY <1>1 DEF Undisturbed
  <2>9. CountInv'
    BY <1>1, <1>5, <1>8, <2>2, <2>4, <2>8 DEF CountInv
  <2>10. ExchangeWhole'
    BY <1>1, <1>5, <2>8 DEF ChunkInv, BoundInv, ExchangeWhole
  <2>11. QED
    BY <2>3, <2>5, <2>6, <2>7, <2>9, <2>10 DEF FrameInv, ChunkInv
<1>9. CASE kind = "ws" /\ agent' = "raw" /\ down' = Written(down, <<"resp101">>) /\ UNCHANGED resp
  <2>1. /\ down' \in Wire /\ down'.end = down.end
        /\ broken => down'.q = down.q
        /\ ~broken => down'.q = <<>> \o <<"resp101">>
    BY <1>1, <1>3, <1>4, <1>9, WrittenWire
  <2>2. TypeInv'
    BY <1>1, <1>9, <2>1 DEF TypeInv, WireType, MasterType, AgentType, RawType, SessionType
  <2>3. ~broken => /\ Shape(down'.q) /\ Begin(down'.q) = "resp101"
                   /\ down'.q # <<>> /\ Upgraded(down'.q)
    BY <1>2, <2>1, AddMessage
  <2>4. KindInv' /\ ReaderInv'
    <3>1. CASE broken
      BY <1>1, <1>9, <2>1, <3>1 DEF FrameInv, KindInv, ReaderInv
    <3>2. CASE ~broken
      BY <1>1, <1>4, <1>9, <2>3, <3>2 DEF FrameInv, KindInv, ReaderInv
    <3>3. QED
      BY <3>1, <3>2
  <2>5. WriterInv'
    BY <1>1, <1>4, <1>9, <2>1, <2>3 DEF FrameInv, WriterInv, UpWriterInv, DownWriterInv
  <2>6. BoundInv' /\ CountInv' /\ ExchangeWhole'
    BY <1>1, <1>5, <1>9 DEF ChunkInv, BoundInv, CountInv, ExchangeWhole, Undisturbed
  <2>7. QED
    BY <2>2, <2>4, <2>5, <2>6 DEF FrameInv, ChunkInv
<1>10. QED
  BY <1>6, <1>7, <1>8, <1>9 DEF PanelAnswers

LEMMA AgentCopiesInv == StreamInv /\ AgentCopies => StreamInv'
<1> SUFFICES ASSUME StreamInv, AgentCopies
             PROVE  StreamInv'
  OBVIOUS
<1>1. UNCHANGED <<kind, up, left, master, relayed, outcome, got, panelGot, raw, broken>> /\ agent = "copy"
  BY DEF AgentCopies, masterVars
<1>2. CASE MayFail(up) /\ AgentReturns(<<>>) /\ UNCHANGED <<resp, aborted>>
  BY <1>1, <1>2, AgentLeaves DEF AgentCopies, MayFail
<1>3. ASSUME NEW c \in CopyChunks(resp.left), aborted' = (aborted \/ c.end = "error"),
             resp' = [resp EXCEPT !.left = c.left],
             IF c.end = "no" THEN down' = Written(down, c.out) /\ UNCHANGED agent
                             ELSE AgentReturns(c.out)
      PROVE  StreamInv'
  <2> USE DEF StreamInv
  <2>1. /\ resp \in [streams : BOOLEAN, chunks : Nat, left : Nat] /\ resp.left \in Nat /\ resp.chunks \in Nat
        /\ relayed \in Nat /\ down \in Wire /\ down.q \in Seq(Frames) /\ Shape(down.q)
    BY WireFields DEF TypeInv, WireType, MasterType, AgentType, FrameInv, ReaderInv
  <2>2. c.out \in Seq(Frames) /\ c.left \in Nat /\ c.end \in {"yes", "no", "error"}
        /\ (c.end = "yes" => c.left = 0) /\ (c.end = "no" => c.left = resp.left - 1)
    BY <2>1, CopyOut, CopyCases
  <2>3. /\ Written(down, c.out) \in Wire /\ Written(down, c.out).end = down.end
        /\ broken => Written(down, c.out).q = down.q
        /\ ~broken => Written(down, c.out).q = down.q \o c.out
    BY <2>1, <2>2, WrittenWire
  <2>4. /\ down' \in Wire
        /\ c.end = "no" => down'.end = down.end /\ agent' = "copy"
        /\ c.end # "no" => down'.end # "open" /\ agent' = "done"
        /\ broken => down'.q = down.q
        /\ ~broken => down'.q = down.q \o c.out
    BY <1>1, <1>3, <2>3, ClosedWire DEF AgentReturns
  <2>5. /\ resp' \in [streams : BOOLEAN, chunks : Nat, left : Nat]
        /\ resp'.left = c.left /\ resp'.chunks = resp.chunks
    BY <1>3, <2>1, <2>2
  <2>6. aborted' \in BOOLEAN
    BY <1>3 DEF TypeInv, SessionType
  <2>7. TypeInv'
    BY <1>1, <2>2, <2>4, <2>5, <2>6 DEF TypeInv, WireType, MasterType, AgentType, RawType, SessionType
  <2>8. CASE broken
    BY <1>1, <2>2, <2>4, <2>7, <2>8
       DEF FrameInv, KindInv, ReaderInv, WriterInv, ChunkInv, BoundInv, CountInv, ExchangeWhole, Undisturbed
  <2>9. CASE ~broken
    <3>1. IF down.q = <<>> THEN master \in {"relay", "done"} ELSE Final(down.q) \in {"resp", "data"}
      BY <1>1, <2>9 DEF FrameInv, WriterInv, DownWriterInv
    <3>2. Final(down.q) \in {None, "meta", "resp", "data"}
      BY <2>1, <3>1, BeginFinal
    <3>3. Copied(down.q, resp.left, c, down'.q)
      BY <2>1, <2>4, <2>9, <3>2, CopyStep
    <3>4. KindInv' /\ ReaderInv'
      BY <1>1, <2>2, <2>4, <3>1, <3>3 DEF FrameInv, KindInv, ReaderInv, Copied
    <3>5. WriterInv'
      BY <1>1, <2>2, <2>4, <2>9, <3>3 DEF FrameInv, WriterInv, UpWriterInv, DownWriterInv, Copied
    <3>6. BoundInv'
      BY <1>1, <2>2, <2>4 DEF ChunkInv, BoundInv
    <3>7. Undisturbed' => Undisturbed /\ c.end # "error" /\ master # "done"
      BY <1>1, <1>3 DEF Undisturbed, ChunkInv, CountInv
    <3>8. Body(down.q) \in Nat /\ Body(down'.q) \in Nat
      BY <2>1, <3>3, BodyNat DEF Copied
    <3>9. /\ c.end = "yes" => Body(down'.q) = Body(down.q) + 2 * resp.left /\ Final(down'.q) = "end"
          /\ c.end = "no" => Body(down'.q) = Body(down.q) + 2
      BY <3>3 DEF Copied
    <3>10. c.end # "error" =>
             2 * relayed + Body(down'.q) + 2 * c.left = 2 * relayed + Body(down.q) + 2 * resp.left
      <4>1. c.end # "error" => \/ Body(down'.q) = Body(down.q) + 2 * resp.left /\ c.left = 0
                               \/ Body(down'.q) = Body(down.q) + 2 /\ c.left = resp.left - 1
        BY <2>2, <3>9
      <4> HIDE DEF StreamInv
      <4>2. relayed \in Nat /\ resp.left \in Nat /\ c.left \in Nat
        BY <2>1, <2>2
      <4>3. QED
        BY <3>8, <4>1, <4>2, CopyKeepsCount
    <3>11. Undisturbed /\ master \in {"meta", "body", "await", "relay"} =>
             2 * relayed + Body(down.q) + 2 * resp.left = 2 * resp.chunks
      BY <1>1 DEF ChunkInv, CountInv
    <3>12. Undisturbed' /\ master \in {"meta", "body", "await", "relay"} =>
             2 * relayed + Body(down'.q) + 2 * resp'.left = 2 * resp'.chunks
      BY <2>5, <3>7, <3>10, <3>11
    <3>13. CountInv'
      BY <1>1, <2>2, <2>4, <2>5, <3>7, <3>9, <3>12 DEF CountInv
    <3>14. ExchangeWhole'
      BY <1>1, <2>5, <3>7 DEF ChunkInv, BoundInv, ExchangeWhole
    <3>15. QED
      BY <2>7, <3>4, <3>5, <3>6, <3>13, <3>14 DEF FrameInv, ChunkInv
  <2>10. QED
    BY <2>8, <2>9
<1>4. QED
  BY <1>2, <1>3 DEF AgentCopies

LEMMA FinalUpgraded ==
  ASSUME NEW q \in Seq(Frames), q # <<>>, Upgraded(q)
  PROVE  Final(q) \in {"resp101", "raw"}
<1>1. Len(q) \in 1 .. Len(q) /\ Final(q) = q[Len(q)]
  BY SeqFacts DEF Final
<1>2. QED
  BY <1>1 DEF Upgraded

LEMMA AgentRawInv == StreamInv /\ AgentRaw => StreamInv'
<1> SUFFICES ASSUME StreamInv, AgentRaw
             PROVE  StreamInv'
  OBVIOUS
<1> USE DEF StreamInv
<1>1. /\ UNCHANGED <<kind, left, master, relayed, outcome, got, panelGot, resp, broken, aborted>>
      /\ agent = "raw" /\ up \in Wire /\ down \in Wire /\ up.q \in Seq(Frames) /\ Shape(up.q)
      /\ down.q \in Seq(Frames) /\ Shape(down.q)
  BY WireFields DEF AgentRaw, masterVars, TypeInv, WireType, FrameInv, ReaderInv
<1>2. kind = "ws"
  BY <1>1 DEF FrameInv, KindInv, TypeInv, SessionType
<1>3. {"raw", "len"} \subseteq Frames
  BY DEF Frames
<1>4. CASE up.end # "open" /\ AgentReturns(<<>>) /\ UNCHANGED <<up, raw>>
  BY <1>1, <1>4, AgentLeaves DEF AgentRaw
<1>5. CASE First(up) = "raw" /\ up' = Rest(up, 1) /\ UNCHANGED <<down, agent, raw>>
  <2>1. Begin(up.q) = "raw" /\ up.q # <<>>
    BY <1>1, <1>5, FirstIsBegin, BeginFinal DEF None
  <2>2. 1 <= Len(up.q) /\ "raw" \in RawAfter
    BY <1>1, <2>1, SeqFacts DEF RawAfter
  <2>3. up' \in Wire /\ up'.end = up.end /\ up'.q = Taken(up.q, 2)
    BY <1>1, <1>5, <2>2, RestWire
  <2>4. TypeInv'
    BY <1>1, <1>5, <2>3 DEF TypeInv, WireType, MasterType, AgentType, RawType, SessionType
  <2>5. /\ Shape(up'.q) /\ Begin(up'.q) \in {None, "raw"} /\ Final(up.q) = "raw"
        /\ up'.q = <<>> \/ Final(up'.q) = "raw"
        /\ \A x \in Frames : Lacks(up.q, x) => Lacks(up'.q, x)
    BY <1>1, <2>1, <2>2, <2>3, TakeEnd
  <2>6. KindInv' /\ ReaderInv'
    BY <1>1, <1>2, <1>3, <1>5, <2>5 DEF FrameInv, KindInv, ReaderInv
  <2>7. WriterInv'
    BY <1>1, <1>5, <2>1, <2>3, <2>5 DEF FrameInv, WriterInv, UpWriterInv, DownWriterInv
  <2>8. BoundInv' /\ CountInv' /\ ExchangeWhole'
    BY <1>1, <1>2, <1>5 DEF ChunkInv, BoundInv, CountInv, ExchangeWhole, Undisturbed
  <2>9. QED
    BY <2>4, <2>6, <2>7, <2>8 DEF FrameInv, ChunkInv
<1>6. CASE /\ raw["agent"] > 0
           /\ raw' = [raw EXCEPT !["agent"] = @ - 1]
           /\ down' = Written(down, <<"raw">>)
           /\ UNCHANGED <<up, agent>>
  <2>1. RawType'
    BY <1>6, ChunksAssumption DEF TypeInv, RawType
  <2>2. <<"raw">> \in Seq(Frames)
    BY DEF Frames
  <2>3. /\ down' \in Wire /\ down'.end = down.end
        /\ broken => down'.q = down.q
        /\ ~broken => down'.q = down.q \o <<"raw">>
    BY <1>1, <1>6, <2>2, WrittenWire
  <2>4. TypeInv'
    BY <1>1, <1>6, <2>1, <2>3 DEF TypeInv, WireType, MasterType, AgentType, SessionType
  <2>5. CASE broken
    BY <1>1, <1>2, <1>6, <2>3, <2>4, <2>5
       DEF FrameInv, KindInv, ReaderInv, WriterInv, ChunkInv, BoundInv, CountInv, ExchangeWhole, Undisturbed
  <2>6. CASE ~broken
    <3>1. Upgraded(down.q) /\ (down.q = <<>> => master \in {"raw", "done"})
      BY <1>1, <2>6 DEF FrameInv, WriterInv, DownWriterInv
    <3>2. Final(down.q) \in {None, "end", "raw", "resp101"}
      BY <1>1, <3>1, BeginFinal, FinalUpgraded
    <3>3. /\ Shape(down'.q) /\ down'.q # <<>> /\ Upgraded(down'.q)
          /\ Begin(down'.q) = (IF down.q = <<>> THEN "raw" ELSE Begin(down.q))
      BY <1>1, <2>3, <2>6, <3>1, <3>2, AddRaw
    <3>4. KindInv' /\ ReaderInv'
      BY <1>1, <1>2, <1>6, <3>1, <3>3 DEF FrameInv, KindInv, ReaderInv
    <3>5. WriterInv'
      BY <1>1, <1>6, <2>3, <2>6, <3>3 DEF FrameInv, WriterInv, UpWriterInv, DownWriterInv
    <3>6. BoundInv' /\ CountInv' /\ ExchangeWhole'
      BY <1>1, <1>2, <1>6 DEF ChunkInv, BoundInv, CountInv, ExchangeWhole, Undisturbed
    <3>7. QED
      BY <2>4, <3>4, <3>5, <3>6 DEF FrameInv, ChunkInv
  <2>7. QED
    BY <2>5, <2>6
<1>7. QED
  BY <1>4, <1>5, <1>6 DEF AgentRaw

LEMMA PanelLeavesInv == StreamInv /\ PanelLeaves => StreamInv'
BY AgentLeaves DEF PanelLeaves

-----------------------------------------------------------------------------
(***************************************************************************)
(* The session under the stream fails.                                     *)
(***************************************************************************)
LEMMA SessionFailsInv == StreamInv /\ SessionFails => StreamInv'
<1> SUFFICES ASSUME StreamInv, SessionFails
             PROVE  StreamInv'
  OBVIOUS
<1> USE DEF StreamInv
<1>1. PICK u \in Prefixes(up.q), d \in Prefixes(down.q), e, f \in {"eof", "error"} :
        /\ up' = [q |-> u, end |-> IF u = up.q /\ up.end = "eof" THEN "eof" ELSE e]
        /\ down' = [q |-> d, end |-> IF d = down.q /\ down.end = "eof" THEN "eof" ELSE f]
  BY DEF SessionFails
<1>2. UNCHANGED <<kind, left, master, relayed, outcome, agent, got, panelGot, resp, raw, aborted>>
      /\ broken' = TRUE
  BY DEF SessionFails, masterVars, agentVars
<1>3. up.q \in Seq(Frames) /\ Shape(up.q) /\ down.q \in Seq(Frames) /\ Shape(down.q)
  BY WireFields DEF TypeInv, WireType, FrameInv, ReaderInv
<1>4. /\ u \in Seq(Frames) /\ Shape(u) /\ Begin(u) \in {None, Begin(up.q)} /\ Body(u) <= Body(up.q)
      /\ \A y \in Frames : Lacks(up.q, y) => Lacks(u, y)
  BY <1>3, CutShape
<1>5. /\ d \in Seq(Frames) /\ Shape(d) /\ Begin(d) \in {None, Begin(down.q)}
      /\ \A y \in Frames : Lacks(down.q, y) => Lacks(d, y)
  BY <1>3, CutShape
<1>6. up' \in Wire /\ up'.q = u /\ down' \in Wire /\ down'.q = d
  BY <1>1, <1>4, <1>5 DEF Wire
<1>7. TypeInv'
  BY <1>2, <1>6 DEF TypeInv, WireType, MasterType, AgentType, RawType, SessionType
<1>8. {"raw", "len", "resp101"} \subseteq Frames
  BY DEF Frames
<1>9. KindInv' /\ ReaderInv'
  BY <1>2, <1>4, <1>5, <1>6, <1>8 DEF FrameInv, KindInv, ReaderInv
<1>10. WriterInv' /\ CountInv' /\ ExchangeWhole'
  BY <1>2 DEF WriterInv, CountInv, ExchangeWhole, Undisturbed
<1>11. BoundInv'
  <2>1. Body(u) \in Nat /\ Body(up.q) \in Nat /\ got \in Nat /\ left \in Nat /\ BodyChunks \in Nat
    BY <1>3, <1>4, BodyNat, ChunksAssumption DEF TypeInv, MasterType, AgentType
  <2>2. Body(up'.q) <= Body(up.q) /\ Body(up'.q) \in Nat
    BY <1>4, <1>6, <2>1
  <2>3. QED
    BY <1>2, <2>1, <2>2 DEF ChunkInv, BoundInv
<1>12. QED
  BY <1>7, <1>9, <1>10, <1>11 DEF FrameInv, ChunkInv

LEMMA StutterInv == StreamInv /\ UNCHANGED vars => StreamInv'
<1> SUFFICES ASSUME StreamInv, UNCHANGED vars
             PROVE  StreamInv'
  OBVIOUS
<1>1. UNCHANGED <<kind, up, down, left, master, relayed, outcome, agent, got, panelGot, resp, raw, broken, aborted>>
  BY DEF vars, wires, masterVars, agentVars
<1>2. TypeInv'
  BY <1>1 DEF StreamInv, TypeInv, WireType, MasterType, AgentType, RawType, SessionType
<1>3. FrameInv'
  BY <1>1 DEF StreamInv, FrameInv, KindInv, ReaderInv, WriterInv, UpWriterInv, DownWriterInv
<1>4. ChunkInv'
  BY <1>1 DEF StreamInv, ChunkInv, BoundInv, CountInv, ExchangeWhole, Undisturbed
<1>5. QED
  BY <1>2, <1>3, <1>4 DEF StreamInv

LEMMA StepInv == StreamInv /\ [Next]_vars => StreamInv'
<1> SUFFICES ASSUME StreamInv, [Next]_vars
             PROVE  StreamInv'
  OBVIOUS
<1>1. CASE MasterStep
  BY <1>1, MasterSendsMetaInv, MasterCopiesInv, MasterReadsHeadInv, MasterRelaysInv, MasterRawInv
     DEF MasterStep
<1>2. CASE AgentStep
  BY <1>2, AgentReadsMetaInv, AgentReadsBodyInv, PanelAnswersInv, AgentCopiesInv, AgentRawInv
     DEF AgentStep
<1>3. CASE BrowserLeaves
  BY <1>3, BrowserLeavesInv
<1>4. CASE PanelLeaves
  BY <1>4, PanelLeavesInv
<1>5. CASE SessionFails
  BY <1>5, SessionFailsInv
<1>6. CASE Finished \/ UNCHANGED vars
  BY <1>6, StutterInv DEF Finished
<1>7. QED
  BY <1>1, <1>2, <1>3, <1>4, <1>5, <1>6 DEF Next

-----------------------------------------------------------------------------
(***************************************************************************)
(* Neither end waits for ever: they do not wait for each other, and what   *)
(* is left to do becomes less with every step.                             *)
(***************************************************************************)

\* Who has returned has closed the stream, and so has a session that has failed.
EndInv ==
  /\ master = "done" \/ broken => up.end # "open"
  /\ agent = "done" \/ broken => down.end # "open"

\* A stream that has ended stays so; a reader changes nothing about it.
LEMMA WriteKeepsEnd ==
  ASSUME NEW w \in Wire, NEW f
  PROVE  /\ Written(w, f).end = w.end
         /\ Closed(Written(w, f)).end # "open" /\ Closed(w).end # "open"
<1>1. Written(w, f).end = w.end /\ DOMAIN Written(w, f) = {"q", "end"}
  BY DEF Written, Wire
<1>2. \A v : DOMAIN v = {"q", "end"} => [v EXCEPT !.end = "eof"].end = "eof"
  OBVIOUS
<1>3. DOMAIN w = {"q", "end"}
  BY DEF Wire
<1>4. QED
  BY <1>1, <1>2, <1>3 DEF Closed

LEMMA EndStep == StreamInv /\ EndInv /\ [Next]_vars => EndInv'
<1> SUFFICES ASSUME StreamInv, EndInv, [Next]_vars
             PROVE  EndInv'
  OBVIOUS
<1>1. up \in Wire /\ down \in Wire /\ left \in Nat /\ resp.left \in Nat
      /\ master \in {"meta", "body", "await", "relay", "raw", "done"}
      /\ agent \in {"meta", "body", "panel", "copy", "raw", "done"}
  BY ChunksAssumption DEF StreamInv, TypeInv, WireType, MasterType, AgentType
<1>2. /\ <<"meta">> \in Seq(Frames) /\ <<"raw">> \in Seq(Frames) /\ <<>> \in Seq(Frames)
      /\ <<"resp">> \in Seq(Frames) /\ <<"resp101">> \in Seq(Frames) /\ ErrorResponse \in Seq(Frames)
  BY ErrorShape DEF Frames
<1>3. \A w \in Wire, n \in 1 .. 2 : Rest(w, n).end = w.end
  BY DEF Rest, Wire
<1>4. CASE MasterSendsMeta
  BY <1>1, <1>2, <1>4, WriteKeepsEnd DEF EndInv, MasterSendsMeta, MasterReturns, agentVars
<1>5. CASE MasterCopies
  <2>1. \A c \in CopyChunks(left) : c.out \in Seq(Frames) /\ c.end \in {"yes", "no", "error"}
    BY <1>1, CopyOut, CopyCases
  <2>2. CASE \E c \in CopyChunks(left) :
               IF c.end = "error"
               THEN up' = Closed(Written(up, c.out)) /\ master' = "done"
               ELSE up' = Written(up, c.out) /\ master' = IF c.end = "yes" THEN "await" ELSE "body"
    BY <1>1, <1>5, <2>1, <2>2, WriteKeepsEnd DEF EndInv, MasterCopies, agentVars
  <2>3. CASE MasterReturns("502")
    BY <1>1, <1>5, <2>3, WriteKeepsEnd, <1>2 DEF EndInv, MasterCopies, MasterReturns, agentVars
  <2>4. QED
    BY <1>5, <2>2, <2>3 DEF MasterCopies
<1>6. CASE MasterReadsHead
  BY <1>1, <1>2, <1>3, <1>6, WriteKeepsEnd DEF EndInv, MasterReadsHead, MasterReturns, agentVars
<1>7. CASE MasterRelays
  BY <1>1, <1>2, <1>3, <1>7, WriteKeepsEnd DEF EndInv, MasterRelays, MasterReturns, agentVars
<1>8. CASE MasterRaw
  BY <1>1, <1>2, <1>3, <1>8, WriteKeepsEnd DEF EndInv, MasterRaw, MasterReturns, agentVars
<1>9. CASE BrowserLeaves
  BY <1>1, <1>2, <1>9, WriteKeepsEnd DEF EndInv, BrowserLeaves, MasterReturns, agentVars
<1>10. CASE AgentReadsMeta
  BY <1>1, <1>2, <1>3, <1>10, WriteKeepsEnd
     DEF EndInv, AgentReadsMeta, AgentWritesErr, AgentReturns, masterVars
<1>11. CASE AgentReadsBody
  BY <1>1, <1>2, <1>3, <1>11, WriteKeepsEnd
     DEF EndInv, AgentReadsBody, AgentWritesErr, AgentReturns, masterVars
<1>12. CASE PanelAnswers
  BY <1>1, <1>2, <1>12, WriteKeepsEnd
     DEF EndInv, PanelAnswers, AgentWritesErr, AgentReturns, masterVars
<1>13. CASE AgentCopies
  <2>1. \A c \in CopyChunks(resp.left) : c.out \in Seq(Frames)
    BY <1>1, CopyOut
  <2>2. CASE \E c \in CopyChunks(resp.left) :
               IF c.end = "no" THEN down' = Written(down, c.out) /\ UNCHANGED agent
                               ELSE AgentReturns(c.out)
    BY <1>1, <1>13, <2>1, <2>2, WriteKeepsEnd DEF EndInv, AgentCopies, AgentReturns, masterVars
  <2>3. CASE AgentReturns(<<>>)
    BY <1>1, <1>2, <1>13, <2>3, WriteKeepsEnd DEF EndInv, AgentCopies, AgentReturns, masterVars
  <2>4. QED
    BY <1>13, <2>2, <2>3 DEF AgentCopies
<1>14. CASE AgentRaw
  BY <1>1, <1>2, <1>3, <1>14, WriteKeepsEnd DEF EndInv, AgentRaw, AgentReturns, masterVars
<1>15. CASE PanelLeaves
  BY <1>1, <1>2, <1>15, WriteKeepsEnd DEF EndInv, PanelLeaves, AgentReturns, masterVars
<1>16. CASE SessionFails
  BY <1>16 DEF EndInv, SessionFails
<1>17. CASE Finished \/ UNCHANGED vars
  BY <1>17 DEF EndInv, Finished, vars, wires, masterVars, agentVars
<1>18. QED
  BY <1>4, <1>5, <1>6, <1>7, <1>8, <1>9, <1>10, <1>11, <1>12, <1>13, <1>14, <1>15, <1>16, <1>17
     DEF Next, MasterStep, AgentStep

\* The end that reads finds something there, or the end of the stream, unless nothing is
\* on the way to it and its stream is open.
LEMMA ReaderWaits ==
  ASSUME NEW w \in Wire, Shape(w.q), ~Ended(w), ~HasChunk(w), ~HasEnd(w),
         Begin(w.q) \in {None, "len", "end"}
  PROVE  w.end = "open" /\ (w.q = <<>> \/ w.q = <<"len">>)
<1>1. w.q \in Seq(Frames) /\ Len(w.q) \in Nat /\ (w.q = <<>> <=> Len(w.q) = 0)
  BY WireFields, SeqFacts
<1>2. First(w) = Begin(w.q) /\ Begin(w.q) # "end"
  BY FirstIsBegin DEF HasEnd
<1>3. w.q # <<>> => w.q[1] = "len"
  BY <1>1, <1>2, BeginFinal DEF Begin
<1>4. ~(Len(w.q) >= 2)
  <2> SUFFICES ASSUME Len(w.q) >= 2
               PROVE  FALSE
    OBVIOUS
  <2>1. w.q[1] = "len" /\ 1 \in 1 .. Len(w.q) /\ 1 < Len(w.q) /\ 1 + 1 = 2
    BY <1>1, <1>3
  <2>2. w.q[2] = "data"
    BY <2>1 DEF Shape
  <2>3. SubSeq(w.q, 1, 2) = <<"len", "data">>
    <3> DEFINE t == SubSeq(w.q, 1, 2)
    <3>1. t \in Seq(Frames) /\ Len(t) = 2 /\ t[1] = "len" /\ t[2] = "data"
      BY <1>1, <2>1, <2>2
    <3> HIDE DEF t
    <3>2. t = <<"len", "data">>
      BY <3>1
    <3>3. QED
      BY <3>2 DEF t
  <2>4. QED
    BY <2>3 DEF HasChunk, Chunk
<1>5. w.q # <<>> => w.q = <<"len">>
  BY <1>1, <1>3, <1>4
<1>6. QED
  BY <1>5 DEF Ended

LEMMA LoneLength == ~(<<"len">> = <<>>) /\ Final(<<"len">>) = "len" /\ Begin(<<"len">>) = "len"
                    /\ ~Upgraded(<<"len">>)
BY DEF Final, Begin, Upgraded

\* Without a failed session, an end that only waits does so on an open stream with
\* nothing on the way but for a length at most, and the other end has not returned.
LEMMA NobodyWaitsForBoth == StreamInv /\ EndInv => NoMutualWait
<1> SUFFICES ASSUME StreamInv, EndInv
             PROVE  NoMutualWait
  OBVIOUS
<1>1. /\ up \in Wire /\ down \in Wire /\ Shape(up.q) /\ Shape(down.q)
      /\ First(up) = Begin(up.q) /\ First(down) = Begin(down.q)
      /\ master \in {"meta", "body", "await", "relay", "raw", "done"}
      /\ agent \in {"meta", "body", "panel", "copy", "raw", "done"}
      /\ ReaderInv /\ KindInv /\ kind \in {"http", "ws"}
  BY FirstIsBegin DEF StreamInv, TypeInv, WireType, MasterType, AgentType, SessionType, FrameInv, ReaderInv
<1>2. up.q \in Seq(Frames) /\ down.q \in Seq(Frames)
      /\ (Begin(up.q) = None <=> up.q = <<>>) /\ (Begin(down.q) = None <=> down.q = <<>>)
  BY <1>1, WireFields, BeginFinal
<1>3. master = "await" /\ MasterWaits => down.end = "open" /\ down.q = <<>>
  BY <1>1, <1>2 DEF MasterWaits, ReaderInv, Ended
<1>4. master = "relay" /\ MasterWaits => down.end = "open" /\ (down.q = <<>> \/ down.q = <<"len">>)
  BY <1>1, ReaderWaits DEF MasterWaits, ReaderInv
<1>5. master = "raw" /\ MasterWaits => down.end = "open" /\ down.q = <<>>
  BY DEF MasterWaits, Silent
<1>6. agent = "meta" /\ AgentWaits => up.end = "open" /\ up.q = <<>>
  BY <1>1, <1>2 DEF AgentWaits, ReaderInv, Ended
<1>7. agent = "body" /\ AgentWaits => up.end = "open" /\ (up.q = <<>> \/ up.q = <<"len">>)
  BY <1>1, ReaderWaits DEF AgentWaits, ReaderInv
<1>8. agent = "raw" /\ AgentWaits => up.end = "open" /\ up.q = <<>>
  BY DEF AgentWaits, Silent
<1>9. MasterWaits => master \in {"await", "relay", "raw"} /\ down.end = "open"
  BY <1>3, <1>4, <1>5 DEF MasterWaits
<1>10. AgentWaits => agent \in {"meta", "body", "raw"} /\ up.end = "open"
  BY <1>6, <1>7, <1>8 DEF AgentWaits
<1>11. MasterWaits => agent # "done" /\ ~broken
  BY <1>9 DEF EndInv
<1>12. AgentWaits => master # "done" /\ ~broken
  BY <1>10 DEF EndInv
<1>13. ASSUME MasterWaits, AgentWaits
       PROVE  master = "raw" /\ agent = "raw"
  <2>1. UpWriterInv /\ DownWriterInv
    BY <1>11, <1>13 DEF StreamInv, FrameInv, WriterInv
  <2>2. agent \notin {"meta", "body"}
    <3>1. (up.q # <<>> /\ Final(up.q) \in {"end", "raw"}) \/ agent \notin {"meta", "body"}
      BY <1>9, <1>13, <2>1 DEF UpWriterInv
    <3>2. QED
      BY <1>6, <1>7, <1>13, <3>1, LoneLength
  <2>3. agent = "raw" /\ Upgraded(down.q) /\ (down.q = <<>> => master \in {"raw", "done"})
    BY <1>10, <1>13, <2>1, <2>2 DEF DownWriterInv
  <2>4. QED
    BY <1>3, <1>4, <1>9, <1>13, <2>3, LoneLength
<1>14. QED
  BY <1>11, <1>12, <1>13 DEF NoMutualWait

\* The numbers the handlers' places stand for.
Places ==
  /\ master = "meta" => MasterPlace = 3 * left + 9
  /\ master = "body" => MasterPlace = 3 * left + 7
  /\ master = "await" => MasterPlace = 3
  /\ master \in {"relay", "raw"} => MasterPlace = 1
  /\ master = "done" => MasterPlace = 0
  /\ agent = "meta" => AgentPlace = 3 * RespChunks + 9
  /\ agent = "body" => AgentPlace = 3 * RespChunks + 8
  /\ agent = "panel" => AgentPlace = 3 * RespChunks + 7
  /\ agent = "copy" => AgentPlace = 3 * resp.left + 4
  /\ agent = "raw" => AgentPlace = 1
  /\ agent = "done" => AgentPlace = 0

LEMMA PlacesHold == Places
BY DEF Places, MasterPlace, AgentPlace

LEMMA PlacesHoldNext == Places'
BY PlacesHold, PTL

\* The parts of what is left to do.
OnTheWay == Len(up.q) + Len(down.q)
MasterWork == 2 * raw["master"] + MasterPlace
AgentWork == 2 * raw["agent"] + AgentPlace
SessionWork == IF broken THEN 0 ELSE 1

Numbers ==
  /\ up \in Wire /\ down \in Wire
  /\ Len(up.q) \in Nat /\ Len(down.q) \in Nat /\ left \in Nat /\ resp.left \in Nat /\ RespChunks \in Nat
  /\ raw["master"] \in Nat /\ raw["agent"] \in Nat
  /\ MasterPlace \in Nat /\ AgentPlace \in Nat
  /\ OnTheWay \in Nat /\ MasterWork \in Nat /\ AgentWork \in Nat /\ SessionWork \in Nat
  /\ Work = OnTheWay + MasterWork + AgentWork + SessionWork /\ Work \in Nat

LEMMA NumbersHold == StreamInv => Numbers
<1> SUFFICES ASSUME StreamInv
             PROVE  Numbers
  OBVIOUS
<1>1. up \in Wire /\ down \in Wire /\ left \in Nat /\ resp.left \in Nat /\ RespChunks \in Nat
  BY ChunksAssumption DEF StreamInv, TypeInv, WireType, MasterType, AgentType
<1>2. raw["master"] \in Nat /\ raw["agent"] \in Nat
  BY ChunksAssumption DEF StreamInv, TypeInv, RawType
<1>3. Len(up.q) \in Nat /\ Len(down.q) \in Nat
  BY <1>1, WireFields, SeqFacts
<1> DEFINE u == Len(up.q)
           d == Len(down.q)
           a == raw["agent"]
           m == raw["master"]
           p == MasterPlace
           g == AgentPlace
           b == SessionWork
           l == left
           r == resp.left
           n == RespChunks
<1>4. u \in Nat /\ d \in Nat /\ a \in Nat /\ m \in Nat /\ l \in Nat /\ r \in Nat /\ n \in Nat /\ b \in Nat
  BY <1>1, <1>2, <1>3 DEF SessionWork
<1>5. p \in {3 * l + 9, 3 * l + 7, 3, 1, 0}
  BY PlacesHold DEF Places, StreamInv, TypeInv, MasterType
<1>6. g \in {3 * n + 9, 3 * n + 8, 3 * n + 7, 3 * r + 4, 1, 0}
  BY PlacesHold DEF Places, StreamInv, TypeInv, AgentType
<1>7. /\ Work = u + d + 2 * m + 2 * a + p + g + b
      /\ OnTheWay = u + d /\ MasterWork = 2 * m + p /\ AgentWork = 2 * a + g /\ SessionWork = b
  BY DEF Work, SessionWork, OnTheWay, MasterWork, AgentWork
<1> HIDE DEF u, d, a, m, p, g, b, l, r, n
<1>8. p \in Nat /\ g \in Nat
  BY <1>4, <1>5, <1>6
<1>9. /\ OnTheWay \in Nat /\ MasterWork \in Nat /\ AgentWork \in Nat /\ SessionWork \in Nat
      /\ Work = OnTheWay + MasterWork + AgentWork + SessionWork /\ Work \in Nat
  BY <1>4, <1>7, <1>8
<1>10. MasterPlace \in Nat /\ AgentPlace \in Nat
  BY <1>8 DEF p, g
<1>11. QED
  BY <1>1, <1>2, <1>3, <1>9, <1>10 DEF Numbers

LEMMA NumbersHoldNext == StreamInv' => Numbers'
BY NumbersHold, PTL

\* Frames written are on the way or lost; frames read are not.
LEMMA WrittenLen ==
  ASSUME StreamInv, NEW w \in Wire, NEW f \in Seq(Frames)
  PROVE  /\ Len(Written(w, f).q) \in Nat /\ Len(Written(w, f).q) <= Len(w.q) + Len(f)
         /\ Closed(Written(w, f)).q = Written(w, f).q /\ Closed(w).q = w.q
         /\ Len(w.q) \in Nat /\ Len(f) \in Nat
<1>1. w.q \in Seq(Frames) /\ Len(w.q) \in Nat /\ Len(f) \in Nat /\ Len(w.q \o f) = Len(w.q) + Len(f)
  BY WireFields, SeqFacts, AppendFacts
<1>2. Written(w, f) \in Wire /\ Written(w, f).q \in {w.q, w.q \o f}
  BY WrittenWire DEF StreamInv, TypeInv, SessionType
<1>3. QED
  BY <1>1, <1>2, ClosedWire

LEMMA RestLen ==
  ASSUME NEW w \in Wire, NEW n \in Nat, n <= Len(w.q)
  PROVE  Len(Rest(w, n).q) = Len(w.q) - n
<1>1. Rest(w, n).q = Taken(w.q, n + 1)
  BY RestWire
<1>2. w.q \in Seq(Frames)
  BY WireFields
<1>3. Len(Taken(w.q, n + 1)) = Len(w.q) - n
  BY <1>2, TailFacts
<1>4. QED
  BY <1>1, <1>3

LEMMA FrameIsThere ==
  ASSUME NEW w \in Wire, First(w) \in Frames
  PROVE  1 <= Len(w.q)
BY WireFields, SeqFacts, NoneIsNoFrame DEF First

LEMMA FewFrames ==
  /\ Len(<<>>) = 0 /\ Len(<<"meta">>) = 1 /\ Len(<<"resp">>) = 1 /\ Len(<<"resp101">>) = 1
  /\ Len(<<"raw">>) = 1 /\ Len(<<"end">>) = 1 /\ Len(Chunk) = 2 /\ Len(Chunk \o <<"end">>) = 3
  /\ Len(ErrorResponse) = 4
  /\ <<>> \in Seq(Frames) /\ <<"meta">> \in Seq(Frames) /\ <<"resp">> \in Seq(Frames)
  /\ <<"resp101">> \in Seq(Frames) /\ <<"raw">> \in Seq(Frames) /\ ErrorResponse \in Seq(Frames)
BY ErrorShape DEF Chunk, ErrorResponse, Frames

\* A turn of CopyChunks takes more from what is left than it puts on the way, or ends
\* the copy.
LEMMA TurnLess ==
  ASSUME NEW n \in Nat, NEW c \in CopyChunks(n)
  PROVE  /\ c.out \in Seq(Frames) /\ Len(c.out) \in Nat /\ c.left \in Nat
         /\ c.end \in {"yes", "no", "error"}
         /\ c.end = "no" => Len(c.out) + 3 * c.left < 3 * n
         /\ c.end = "error" => Len(c.out) + 3 * c.left <= 3 * n + 2
         /\ c.end = "yes" => Len(c.out) + 3 * c.left <= 3 * n + 1
<1>1. c.out \in Seq(Frames) /\ Len(c.out) \in Nat
  BY CopyOut, SeqFacts
<1>2. \/ n = 0 /\ Len(c.out) = 1 /\ c.left = 0 /\ c.end = "yes"
      \/ n > 0 /\ Len(c.out) = 2 /\ c.left = n - 1 /\ c.end = "no"
      \/ n > 0 /\ Len(c.out) = 0 /\ c.left = n /\ c.end = "error"
      \/ n > 0 /\ Len(c.out) = 2 /\ c.left = n /\ c.end = "error"
      \/ n = 1 /\ Len(c.out) = 3 /\ c.left = 0 /\ c.end = "yes"
  BY CopyCases, FewFrames
<1> DEFINE k == Len(c.out)
           d == c.left
           e == c.end
<1>5. \/ n = 0 /\ k = 1 /\ d = 0 /\ e = "yes"
      \/ n > 0 /\ k = 2 /\ d = n - 1 /\ e = "no"
      \/ n > 0 /\ k = 0 /\ d = n /\ e = "error"
      \/ n > 0 /\ k = 2 /\ d = n /\ e = "error"
      \/ n = 1 /\ k = 3 /\ d = 0 /\ e = "yes"
  BY <1>2
<1> HIDE DEF k, d, e
<1>3. /\ d \in Nat /\ e \in {"yes", "no", "error"}
      /\ e = "no" => k + 3 * d < 3 * n
      /\ e = "error" => k + 3 * d <= 3 * n + 2
      /\ e = "yes" => k + 3 * d <= 3 * n + 1
  BY <1>5
<1>4. QED
  BY <1>1, <1>3 DEF k, d, e

\* A step spends more of a handler's place than the frames it puts on the way, or takes
\* something from the way, or is one of the raw writes.
LEMMA SumLess ==
  ASSUME NEW u \in Nat, NEW d \in Nat, NEW m \in Nat, NEW p \in Nat, NEW o \in Nat, NEW s \in Nat,
         NEW u1 \in Nat, NEW d1 \in Nat, NEW m1 \in Nat, NEW p1 \in Nat, NEW a \in Nat,
         \/ u1 <= u + a /\ d1 <= d /\ m1 = m /\ p1 + a < p
         \/ u1 <= u /\ d1 < d /\ m1 = m /\ p1 <= p
         \/ u1 <= u + 1 /\ d1 <= d /\ m1 = m - 1 /\ p1 = p
  PROVE  /\ (u1 + d1) + (2 * m1 + p1) + o + s < (u + d) + (2 * m + p) + o + s
         /\ (d1 + u1) + o + (2 * m1 + p1) + s < (d + u) + o + (2 * m + p) + s
OBVIOUS

\* The way u1 into the stream, d1 out of it, of an end with m1 raw writes left and place p1.
Spent(u1, d1, m1, p1, u, d, m, p, a) ==
  \/ u1 <= u + a /\ d1 <= d /\ m1 = m /\ p1 + a < p
  \/ u1 <= u /\ d1 < d /\ m1 = m /\ p1 <= p
  \/ u1 <= u + 1 /\ d1 <= d /\ m1 = m - 1 /\ p1 = p

LEMMA MasterLess ==
  ASSUME StreamInv, StreamInv', UNCHANGED <<agent, resp, broken>>, raw'["agent"] = raw["agent"],
         NEW a \in Nat,
         Spent(Len(up'.q), Len(down'.q), raw'["master"], MasterPlace',
               Len(up.q), Len(down.q), raw["master"], MasterPlace, a)
  PROVE  Work' < Work
<1> DEFINE u == Len(up.q)
           d == Len(down.q)
           m == raw["master"]
           p == MasterPlace
           u1 == Len(up'.q)
           d1 == Len(down'.q)
           m1 == raw'["master"]
           p1 == MasterPlace'
           o == AgentWork
           s == SessionWork
<1>1. AgentWork' = AgentWork /\ SessionWork' = SessionWork
  BY DEF AgentWork, AgentPlace, SessionWork
<1>2. /\ u \in Nat /\ d \in Nat /\ m \in Nat /\ p \in Nat /\ o \in Nat /\ s \in Nat
      /\ Work = (u + d) + (2 * m + p) + o + s
  BY NumbersHold DEF Numbers, OnTheWay, MasterWork
<1>3. /\ u1 \in Nat /\ d1 \in Nat /\ m1 \in Nat /\ p1 \in Nat
      /\ Work' = (u1 + d1) + (2 * m1 + p1) + o + s
  BY <1>1, NumbersHoldNext DEF Numbers, OnTheWay, MasterWork
<1>4. Spent(u1, d1, m1, p1, u, d, m, p, a)
  OBVIOUS
<1> HIDE DEF u, d, m, p, u1, d1, m1, p1, o, s
<1>5. (u1 + d1) + (2 * m1 + p1) + o + s < (u + d) + (2 * m + p) + o + s
  BY <1>2, <1>3, <1>4, SumLess DEF Spent
<1>6. QED
  BY <1>2, <1>3, <1>5

LEMMA AgentLess ==
  ASSUME StreamInv, StreamInv', UNCHANGED <<master, left, broken>>, raw'["master"] = raw["master"],
         NEW a \in Nat,
         Spent(Len(down'.q), Len(up'.q), raw'["agent"], AgentPlace',
               Len(down.q), Len(up.q), raw["agent"], AgentPlace, a)
  PROVE  Work' < Work
<1> DEFINE u == Len(down.q)
           d == Len(up.q)
           m == raw["agent"]
           p == AgentPlace
           u1 == Len(down'.q)
           d1 == Len(up'.q)
           m1 == raw'["agent"]
           p1 == AgentPlace'
           o == MasterWork
           s == SessionWork
<1>1. MasterWork' = MasterWork /\ SessionWork' = SessionWork
  BY DEF MasterWork, MasterPlace, SessionWork
<1>2. /\ u \in Nat /\ d \in Nat /\ m \in Nat /\ p \in Nat /\ o \in Nat /\ s \in Nat
      /\ Work = (d + u) + o + (2 * m + p) + s
  BY NumbersHold DEF Numbers, OnTheWay, AgentWork
<1>3. /\ u1 \in Nat /\ d1 \in Nat /\ m1 \in Nat /\ p1 \in Nat
      /\ Work' = (d1 + u1) + o + (2 * m1 + p1) + s
  BY <1>1, NumbersHoldNext DEF Numbers, OnTheWay, AgentWork
<1>4. Spent(u1, d1, m1, p1, u, d, m, p, a)
  OBVIOUS
<1> HIDE DEF u, d, m, p, u1, d1, m1, p1, o, s
<1>5. (d1 + u1) + o + (2 * m1 + p1) + s < (d + u) + o + (2 * m + p) + s
  BY <1>2, <1>3, <1>4, SumLess DEF Spent
<1>6. QED
  BY <1>2, <1>3, <1>5

\* What one write of an end adds to what is on the way.
LEMMA ShortWrites ==
  ASSUME StreamInv, NEW w \in Wire
  PROVE  /\ \A y \in Frames : /\ Len(Written(w, <<y>>).q) <= Len(w.q) + 1
                             /\ Closed(Written(w, <<y>>)).q = Written(w, <<y>>).q
         /\ Len(Closed(Written(w, <<>>)).q) <= Len(w.q)
         /\ Len(Closed(Written(w, ErrorResponse)).q) <= Len(w.q) + 4
         /\ Len(Closed(w).q) = Len(w.q)
<1>1. ASSUME NEW y \in Frames
      PROVE  /\ Len(Written(w, <<y>>).q) <= Len(w.q) + 1
             /\ Closed(Written(w, <<y>>)).q = Written(w, <<y>>).q
  <2> DEFINE f == <<y>>
  <2>1. f \in Seq(Frames) /\ Len(f) = 1
    OBVIOUS
  <2> HIDE DEF f
  <2>2. Len(Written(w, f).q) <= Len(w.q) + 1 /\ Closed(Written(w, f)).q = Written(w, f).q
    BY <2>1, WrittenLen
  <2>3. QED
    BY <2>2 DEF f
<1>2. Len(Closed(Written(w, <<>>)).q) <= Len(w.q)
  <2> DEFINE f == <<>>
  <2>1. f \in Seq(Frames) /\ Len(f) = 0
    OBVIOUS
  <2> HIDE DEF f
  <2>2. Len(Closed(Written(w, f)).q) <= Len(w.q)
    <3>1. /\ Len(Written(w, f).q) \in Nat /\ Len(Written(w, f).q) <= Len(w.q) + Len(f)
          /\ Closed(Written(w, f)).q = Written(w, f).q /\ Len(w.q) \in Nat
      BY <2>1, WrittenLen
    <3>2. QED
      BY <2>1, <3>1
  <2>3. QED
    BY <2>2 DEF f
<1>3. Len(Closed(Written(w, ErrorResponse)).q) <= Len(w.q) + 4
  BY FewFrames, WrittenLen
<1>4. QED
  BY <1>1, <1>2, <1>3, WrittenLen, FewFrames

\* What the handlers do: pay for the frames they send, take one, send raw bytes, return.
LEMMA MasterPays ==
  ASSUME StreamInv, StreamInv', UNCHANGED <<agent, resp, broken, down, raw>>, NEW a \in Nat,
         Len(up'.q) <= Len(up.q) + a, MasterPlace' + a < MasterPlace
  PROVE  Work' < Work
<1>1. raw'["master"] = raw["master"] /\ raw'["agent"] = raw["agent"] /\ Len(down'.q) = Len(down.q)
  OBVIOUS
<1>2. Len(down.q) \in Nat
  BY NumbersHold DEF Numbers
<1>3. Len(down'.q) <= Len(down.q)
  BY <1>1, <1>2
<1>4. QED
  BY <1>1, <1>3, MasterLess DEF Spent

LEMMA MasterTakes ==
  ASSUME StreamInv, StreamInv', UNCHANGED <<agent, resp, broken, raw>>,
         Len(up'.q) = Len(up.q), Len(down'.q) < Len(down.q), MasterPlace' <= MasterPlace
  PROVE  Work' < Work
<1>1. raw'["master"] = raw["master"] /\ raw'["agent"] = raw["agent"]
  OBVIOUS
<1>2. Len(up.q) \in Nat
  BY NumbersHold DEF Numbers
<1>3. Len(up'.q) <= Len(up.q) /\ 0 \in Nat
  BY <1>2
<1>4. QED
  BY <1>1, <1>3, MasterLess DEF Spent

LEMMA AgentPays ==
  ASSUME StreamInv, StreamInv', UNCHANGED <<master, left, broken, up, raw>>, NEW a \in Nat,
         Len(down'.q) <= Len(down.q) + a, AgentPlace' + a < AgentPlace
  PROVE  Work' < Work
<1>1. raw'["master"] = raw["master"] /\ raw'["agent"] = raw["agent"] /\ Len(up'.q) = Len(up.q)
  OBVIOUS
<1>2. Len(up.q) \in Nat
  BY NumbersHold DEF Numbers
<1>3. Len(up'.q) <= Len(up.q)
  BY <1>1, <1>2
<1>4. QED
  BY <1>1, <1>3, AgentLess DEF Spent

LEMMA AgentTakes ==
  ASSUME StreamInv, StreamInv', UNCHANGED <<master, left, broken, raw>>,
         Len(down'.q) = Len(down.q), Len(up'.q) < Len(up.q), AgentPlace' <= AgentPlace
  PROVE  Work' < Work
<1>1. raw'["master"] = raw["master"] /\ raw'["agent"] = raw["agent"]
  OBVIOUS
<1>2. Len(down.q) \in Nat
  BY NumbersHold DEF Numbers
<1>3. Len(down'.q) <= Len(down.q) /\ 0 \in Nat
  BY <1>2
<1>4. QED
  BY <1>1, <1>3, AgentLess DEF Spent

LEMMA MasterReturned ==
  ASSUME StreamInv, StreamInv', UNCHANGED <<agentVars, broken, down, raw>>, master # "done",
         NEW o, MasterReturns(o)
  PROVE  Work' < Work
<1>1. Numbers /\ Places /\ Places' /\ UNCHANGED <<agent, resp>>
  BY NumbersHold, PlacesHold, PlacesHoldNext DEF agentVars
<1>2. MasterPlace' = 0
  BY <1>1 DEF Places, MasterReturns
<1>3. 0 < MasterPlace
  <2>1. master \in {"meta", "body", "await", "relay", "raw"} /\ left \in Nat
    BY <1>1 DEF StreamInv, TypeInv, MasterType, Numbers
  <2>2. MasterPlace \in {3 * left + 9, 3 * left + 7, 3, 1}
    BY <1>1, <2>1 DEF Places
  <2>3. QED
    BY <2>1, <2>2
<1>4. Len(up'.q) = Len(up.q) /\ Len(up.q) \in Nat
  BY <1>1, ShortWrites DEF Numbers, MasterReturns
<1>5. Len(up'.q) <= Len(up.q) + 0 /\ MasterPlace' + 0 < MasterPlace /\ 0 \in Nat
  BY <1>2, <1>3, <1>4
<1>6. QED
  BY <1>1, <1>5, MasterPays

LEMMA AgentReturned ==
  ASSUME StreamInv, StreamInv', UNCHANGED <<masterVars, broken, up, raw>>, AgentReturns(<<>>),
         agent # "done"
  PROVE  Work' < Work
<1>1. Numbers /\ Places /\ Places' /\ UNCHANGED <<master, left>>
  BY NumbersHold, PlacesHold, PlacesHoldNext DEF masterVars
<1>2. AgentPlace' = 0
  BY <1>1 DEF Places, AgentReturns
<1>3. 0 < AgentPlace
  <2>1. agent \in {"meta", "body", "panel", "copy", "raw"} /\ resp.left \in Nat /\ RespChunks \in Nat
    BY <1>1 DEF StreamInv, TypeInv, AgentType, Numbers
  <2>2. AgentPlace \in {3 * RespChunks + 9, 3 * RespChunks + 8, 3 * RespChunks + 7, 3 * resp.left + 4, 1}
    BY <1>1, <2>1 DEF Places
  <2> DEFINE r == resp.left
             p == AgentPlace
  <2>3. r \in Nat /\ p \in {3 * RespChunks + 9, 3 * RespChunks + 8, 3 * RespChunks + 7, 3 * r + 4, 1}
    BY <2>1, <2>2
  <2> HIDE DEF r, p
  <2>4. 0 < p
    BY <2>1, <2>3
  <2>5. QED
    BY <2>4 DEF p
<1>4. Len(down'.q) <= Len(down.q) /\ Len(down.q) \in Nat
  BY <1>1, ShortWrites DEF Numbers, AgentReturns
<1>5. Len(down'.q) <= Len(down.q) + 0 /\ AgentPlace' + 0 < AgentPlace /\ 0 \in Nat
  BY <1>2, <1>3, <1>4
<1>6. QED
  BY <1>1, <1>5, AgentPays

\* One step of each action.
LEMMA MasterSendsMetaLess == StreamInv /\ StreamInv' /\ MasterSendsMeta => Work' < Work
<1> SUFFICES ASSUME StreamInv, StreamInv', MasterSendsMeta
             PROVE  Work' < Work
  OBVIOUS
<1>1. Numbers /\ Places /\ Places'
  BY NumbersHold, PlacesHold, PlacesHoldNext
<1>2. UNCHANGED <<down, left, raw, agentVars, agent, resp, broken>> /\ master = "meta"
  BY DEF MasterSendsMeta, agentVars
<1>3. CASE up' = Written(up, <<"meta">>) /\ master' = "body"
  <2>1. Len(up'.q) <= Len(up.q) + 1
    BY <1>1, <1>3, ShortWrites DEF Numbers, Frames
  <2>2. MasterPlace = 3 * left + 9 /\ MasterPlace' = 3 * left + 7 /\ left \in Nat
    BY <1>1, <1>2, <1>3 DEF Places, Numbers
  <2>3. MasterPlace' + 1 < MasterPlace /\ 1 \in Nat
    BY <2>2
  <2>4. QED
    BY <1>2, <2>1, <2>3, MasterPays
<1>4. CASE MasterReturns("502")
  BY <1>2, <1>4, MasterReturned
<1>5. QED
  BY <1>3, <1>4 DEF MasterSendsMeta

\* A reader takes a frame or the two of a chunk.
LEMMA ReadLess ==
  ASSUME NEW w \in Wire
  PROVE  /\ First(w) \in Frames => Len(Rest(w, 1).q) < Len(w.q)
         /\ HasChunk(w) => Len(Rest(w, 2).q) < Len(w.q)
<1>1. Len(w.q) \in Nat
  BY WireFields, SeqFacts
<1>2. First(w) \in Frames => Len(Rest(w, 1).q) = Len(w.q) - 1
  BY <1>1, FrameIsThere, RestLen
<1>3. HasChunk(w) => Len(Rest(w, 2).q) = Len(w.q) - 2
  BY <1>1, RestLen DEF HasChunk
<1>4. QED
  BY <1>1, <1>2, <1>3

LEMMA MasterCopiesLess == StreamInv /\ StreamInv' /\ MasterCopies => Work' < Work
<1> SUFFICES ASSUME StreamInv, StreamInv', MasterCopies
             PROVE  Work' < Work
  OBVIOUS
<1>1. Numbers /\ Places /\ Places'
  BY NumbersHold, PlacesHold, PlacesHoldNext
<1>2. UNCHANGED <<down, raw, agentVars, agent, resp, broken>> /\ master = "body"
  BY DEF MasterCopies, agentVars
<1>3. MasterPlace = 3 * left + 7 /\ left \in Nat
  BY <1>1, <1>2 DEF Places, Numbers
<1>4. CASE \E c \in CopyChunks(left) :
             /\ left' = c.left
             /\ IF c.end = "error"
                THEN up' = Closed(Written(up, c.out)) /\ master' = "done"
                ELSE up' = Written(up, c.out) /\ master' = IF c.end = "yes" THEN "await" ELSE "body"
  <2>1. PICK c \in CopyChunks(left) :
             /\ left' = c.left
             /\ IF c.end = "error"
                THEN up' = Closed(Written(up, c.out)) /\ master' = "done"
                ELSE up' = Written(up, c.out) /\ master' = IF c.end = "yes" THEN "await" ELSE "body"
    BY <1>4
  <2> DEFINE k == Len(c.out)
             l == left
             l1 == c.left
             e == c.end
  <2>2. c.out \in Seq(Frames) /\ k \in Nat /\ l1 \in Nat /\ l \in Nat
    BY <1>3, TurnLess
  <2>3. /\ e \in {"yes", "no", "error"}
        /\ e = "no" => k + 3 * l1 < 3 * l
        /\ e = "error" => k + 3 * l1 <= 3 * l + 2
        /\ e = "yes" => k + 3 * l1 <= 3 * l + 1
    BY <1>3, TurnLess
  <2>4. Len(up'.q) <= Len(up.q) + k
    BY <1>1, <2>1, <2>2, WrittenLen DEF Numbers
  <2>5. /\ MasterPlace = 3 * l + 7
        /\ e = "no" => MasterPlace' = 3 * l1 + 7
        /\ e = "error" => MasterPlace' = 0
        /\ e = "yes" => MasterPlace' = 3
    BY <1>1, <1>3, <2>1 DEF Places
  <2> DEFINE p == MasterPlace
             p1 == MasterPlace'
  <2>6. p = 3 * l + 7 /\ (e = "no" => p1 = 3 * l1 + 7) /\ (e = "error" => p1 = 0) /\ (e = "yes" => p1 = 3)
    BY <2>5
  <2> HIDE DEF k, l, l1, e, p, p1
  <2>7. p1 + k < p
    BY <2>2, <2>3, <2>6
  <2>8. MasterPlace' + k < MasterPlace
    BY <2>7 DEF p, p1
  <2>9. QED
    BY <1>2, <2>2, <2>4, <2>8, MasterPays
<1>5. CASE MasterReturns("502")
  BY <1>2, <1>5, MasterReturned
<1>6. QED
  BY <1>4, <1>5 DEF MasterCopies

LEMMA MasterReadsHeadLess == StreamInv /\ StreamInv' /\ MasterReadsHead => Work' < Work
<1> SUFFICES ASSUME StreamInv, StreamInv', MasterReadsHead
             PROVE  Work' < Work
  OBVIOUS
<1>1. Numbers /\ Places /\ Places'
  BY NumbersHold, PlacesHold, PlacesHoldNext
<1>2. UNCHANGED <<raw, agentVars, agent, resp, broken>> /\ master = "await"
  BY DEF MasterReadsHead, agentVars
<1>3. CASE /\ First(down) \in {"resp", "resp101"} /\ down' = Rest(down, 1) /\ UNCHANGED up
           /\ master' = IF First(down) = "resp" THEN "relay" ELSE "raw"
  <2>1. Len(up'.q) = Len(up.q) /\ Len(down'.q) < Len(down.q)
    BY <1>1, <1>3, ReadLess DEF Numbers, Frames
  <2>2. MasterPlace = 3 /\ MasterPlace' = 1
    BY <1>1, <1>2, <1>3 DEF Places
  <2>3. QED
    BY <1>2, <2>1, <2>2, MasterTakes
<1>4. CASE MasterReturns("502") /\ UNCHANGED down
  BY <1>2, <1>4, MasterReturned
<1>5. QED
  BY <1>3, <1>4 DEF MasterReadsHead

LEMMA MasterRelaysLess == StreamInv /\ StreamInv' /\ MasterRelays => Work' < Work
<1> SUFFICES ASSUME StreamInv, StreamInv', MasterRelays
             PROVE  Work' < Work
  OBVIOUS
<1>1. Numbers /\ Places /\ Places'
  BY NumbersHold, PlacesHold, PlacesHoldNext
<1>2. UNCHANGED <<raw, agentVars, agent, resp, broken>> /\ master = "relay"
  BY DEF MasterRelays, agentVars
<1>3. MasterPlace = 1
  BY <1>1, <1>2 DEF Places
<1>4. CASE HasChunk(down) /\ down' = Rest(down, 2) /\ UNCHANGED <<up, master>>
  <2>1. Len(up'.q) = Len(up.q) /\ Len(down'.q) < Len(down.q)
    BY <1>1, <1>4, ReadLess DEF Numbers
  <2>2. MasterPlace' = 1
    BY <1>1, <1>2, <1>4 DEF Places
  <2>3. QED
    BY <1>2, <1>3, <2>1, <2>2, MasterTakes
<1>5. CASE HasEnd(down) /\ down' = Rest(down, 1) /\ MasterReturns("finished")
  <2>1. Len(up'.q) = Len(up.q)
    BY <1>1, <1>5, ShortWrites DEF Numbers, MasterReturns
  <2>2. Len(down'.q) < Len(down.q)
    BY <1>1, <1>5, ReadLess DEF Numbers, Frames, HasEnd
  <2>3. MasterPlace' = 0
    BY <1>1, <1>5 DEF Places, MasterReturns
  <2>4. QED
    BY <1>2, <1>3, <2>1, <2>2, <2>3, MasterTakes
<1>6. CASE (\E o : MasterReturns(o)) /\ UNCHANGED down
  BY <1>2, <1>6, MasterReturned
<1>7. QED
  BY <1>4, <1>5, <1>6 DEF MasterRelays

LEMMA BrowserLeavesLess == StreamInv /\ StreamInv' /\ BrowserLeaves => Work' < Work
BY MasterReturned DEF BrowserLeaves, agentVars

LEMMA MasterRawLess == StreamInv /\ StreamInv' /\ MasterRaw => Work' < Work
<1> SUFFICES ASSUME StreamInv, StreamInv', MasterRaw
             PROVE  Work' < Work
  OBVIOUS
<1>1. Numbers /\ Places /\ Places'
  BY NumbersHold, PlacesHold, PlacesHoldNext
<1>2. UNCHANGED <<agentVars, agent, resp, broken>> /\ master = "raw"
  BY DEF MasterRaw, agentVars
<1>3. MasterPlace = 1
  BY <1>1, <1>2 DEF Places
<1>4. CASE First(down) = "raw" /\ down' = Rest(down, 1) /\ UNCHANGED <<up, master, raw>>
  <2>1. Len(up'.q) = Len(up.q) /\ Len(down'.q) < Len(down.q)
    BY <1>1, <1>4, ReadLess DEF Numbers, Frames
  <2>2. MasterPlace' = 1
    BY <1>1, <1>2, <1>4 DEF Places
  <2>3. QED
    BY <1>2, <1>3, <1>4, <2>1, <2>2, MasterTakes
<1>5. CASE /\ raw' = [raw EXCEPT !["master"] = @ - 1] /\ up' = Written(up, <<"raw">>)
           /\ UNCHANGED <<down, master>>
  <2>1. /\ raw'["master"] = raw["master"] - 1
        /\ raw'["agent"] = raw["agent"]
    BY <1>5 DEF StreamInv, TypeInv, RawType
  <2>2. Len(up'.q) <= Len(up.q) + 1
    BY <1>1, <1>5, ShortWrites DEF Numbers, Frames
  <2>3. Len(down'.q) = Len(down.q) /\ Len(down.q) \in Nat
    BY <1>1, <1>5 DEF Numbers
  <2>4. MasterPlace' = MasterPlace
    BY <1>1, <1>2, <1>3, <1>5 DEF Places
  <2>5. Len(down'.q) <= Len(down.q) /\ 0 \in Nat
    BY <2>3
  <2>6. Spent(Len(up'.q), Len(down'.q), raw'["master"], MasterPlace',
              Len(up.q), Len(down.q), raw["master"], MasterPlace, 0)
    BY <2>1, <2>2, <2>4, <2>5 DEF Spent
  <2>7. QED
    BY <1>2, <2>1, <2>5, <2>6, MasterLess
<1>6. CASE MasterReturns("upgraded") /\ UNCHANGED <<down, raw>>
  BY <1>2, <1>6, MasterReturned
<1>7. QED
  BY <1>4, <1>5, <1>6 DEF MasterRaw

\* An error response is paid for by what the panel's response would have been.
LEMMA AgentErrs ==
  ASSUME StreamInv, StreamInv', UNCHANGED <<masterVars, broken, up, raw>>, AgentWritesErr,
         agent \in {"meta", "body", "panel"}
  PROVE  Work' < Work
<1>1. Numbers /\ Places /\ Places' /\ UNCHANGED <<master, left>>
  BY NumbersHold, PlacesHold, PlacesHoldNext DEF masterVars
<1>2. AgentPlace' = 0
  BY <1>1 DEF Places, AgentReturns, AgentWritesErr
<1>3. AgentPlace \in {3 * RespChunks + 9, 3 * RespChunks + 8, 3 * RespChunks + 7} /\ RespChunks \in Nat
  BY <1>1 DEF Places, Numbers
<1>4. AgentPlace' + 4 < AgentPlace /\ 4 \in Nat
  BY <1>2, <1>3
<1>5. Len(down'.q) <= Len(down.q) + 4
  BY <1>1, ShortWrites DEF Numbers, AgentReturns, AgentWritesErr
<1>6. QED
  BY <1>1, <1>4, <1>5, AgentPays

LEMMA AgentReadsMetaLess == StreamInv /\ StreamInv' /\ AgentReadsMeta => Work' < Work
<1> SUFFICES ASSUME StreamInv, StreamInv', AgentReadsMeta
             PROVE  Work' < Work
  OBVIOUS
<1>1. Numbers /\ Places /\ Places'
  BY NumbersHold, PlacesHold, PlacesHoldNext
<1>2. UNCHANGED <<masterVars, master, left, raw, broken>> /\ agent = "meta"
  BY DEF AgentReadsMeta, masterVars
<1>3. AgentPlace = 3 * RespChunks + 9 /\ RespChunks \in Nat
  BY <1>1, <1>2 DEF Places, Numbers
<1>4. CASE First(up) = "meta" /\ up' = Rest(up, 1) /\ agent' = "body" /\ UNCHANGED down
  <2>1. Len(down'.q) = Len(down.q) /\ Len(up'.q) < Len(up.q)
    BY <1>1, <1>4, ReadLess DEF Numbers, Frames
  <2>2. AgentPlace' = 3 * RespChunks + 8
    BY <1>1, <1>4 DEF Places
  <2>3. AgentPlace' <= AgentPlace
    BY <1>3, <2>2
  <2>4. QED
    BY <1>2, <2>1, <2>3, AgentTakes
<1>5. CASE First(up) = "meta" /\ up' = Rest(up, 1) /\ AgentWritesErr
  <2>1. Len(up'.q) < Len(up.q) /\ Len(up.q) \in Nat /\ Len(up'.q) \in Nat
    BY <1>1, <1>5, ReadLess, NumbersHoldNext DEF Numbers, Frames
  <2>2. Len(down'.q) <= Len(down.q) + 4
    BY <1>1, <1>5, ShortWrites DEF Numbers, AgentReturns, AgentWritesErr
  <2>3. AgentPlace' = 0
    BY <1>1, <1>5 DEF Places, AgentReturns, AgentWritesErr
  <2>4. AgentPlace' + 4 < AgentPlace /\ 4 \in Nat /\ Len(up'.q) <= Len(up.q)
    BY <1>3, <2>1, <2>3
  <2>5. Spent(Len(down'.q), Len(up'.q), raw'["agent"], AgentPlace',
              Len(down.q), Len(up.q), raw["agent"], AgentPlace, 4)
    BY <1>2, <2>2, <2>4 DEF Spent
  <2>6. raw'["master"] = raw["master"]
    BY <1>2
  <2>7. QED
    BY <1>2, <2>4, <2>5, <2>6, AgentLess
<1>6. CASE AgentReturns(<<>>) /\ UNCHANGED <<up, resp>>
  BY <1>2, <1>6, AgentReturned
<1>7. QED
  BY <1>4, <1>5, <1>6 DEF AgentReadsMeta

LEMMA AgentReadsBodyLess == StreamInv /\ StreamInv' /\ AgentReadsBody => Work' < Work
<1> SUFFICES ASSUME StreamInv, StreamInv', AgentReadsBody
             PROVE  Work' < Work
  OBVIOUS
<1>1. Numbers /\ Places /\ Places'
  BY NumbersHold, PlacesHold, PlacesHoldNext
<1>2. UNCHANGED <<masterVars, master, left, raw, broken>> /\ agent = "body"
  BY DEF AgentReadsBody, masterVars
<1>3. AgentPlace = 3 * RespChunks + 8 /\ RespChunks \in Nat
  BY <1>1, <1>2 DEF Places, Numbers
<1>4. CASE HasChunk(up) /\ up' = Rest(up, 2) /\ UNCHANGED <<agent, down>>
  <2>1. Len(down'.q) = Len(down.q) /\ Len(up'.q) < Len(up.q)
    BY <1>1, <1>4, ReadLess DEF Numbers
  <2>2. AgentPlace' = 3 * RespChunks + 8
    BY <1>1, <1>2, <1>4 DEF Places
  <2>3. AgentPlace' <= AgentPlace
    BY <1>3, <2>2
  <2>4. QED
    BY <1>2, <2>1, <2>3, AgentTakes
<1>5. CASE HasEnd(up) /\ up' = Rest(up, 1) /\ agent' = "panel" /\ UNCHANGED down
  <2>1. Len(down'.q) = Len(down.q) /\ Len(up'.q) < Len(up.q)
    BY <1>1, <1>5, ReadLess DEF Numbers, Frames, HasEnd
  <2>2. AgentPlace' = 3 * RespChunks + 7
    BY <1>1, <1>5 DEF Places
  <2>3. AgentPlace' <= AgentPlace
    BY <1>3, <2>2
  <2>4. QED
    BY <1>2, <2>1, <2>3, AgentTakes
<1>6. CASE agent' = "panel" /\ UNCHANGED <<up, down>>
  <2>1. Len(down'.q) <= Len(down.q) + 0 /\ 0 \in Nat
    BY <1>1, <1>6 DEF Numbers
  <2>2. AgentPlace' = 3 * RespChunks + 7
    BY <1>1, <1>6 DEF Places
  <2>3. AgentPlace' + 0 < AgentPlace
    BY <1>3, <2>2
  <2>4. QED
    BY <1>2, <1>6, <2>1, <2>3, AgentPays
<1>7. CASE AgentWritesErr /\ UNCHANGED up
  BY <1>2, <1>7, AgentErrs
<1>8. QED
  BY <1>4, <1>5, <1>6, <1>7 DEF AgentReadsBody

LEMMA PanelAnswersLess == StreamInv /\ StreamInv' /\ PanelAnswers => Work' < Work
<1> SUFFICES ASSUME StreamInv, StreamInv', PanelAnswers
             PROVE  Work' < Work
  OBVIOUS
<1>1. Numbers /\ Places /\ Places'
  BY NumbersHold, PlacesHold, PlacesHoldNext
<1>2. UNCHANGED <<masterVars, master, left, raw, broken, up>> /\ agent = "panel"
  BY DEF PanelAnswers, masterVars
<1>3. AgentPlace = 3 * RespChunks + 7 /\ RespChunks \in Nat
  BY <1>1, <1>2 DEF Places, Numbers
<1>4. CASE /\ \E t \in BOOLEAN : resp' = [streams |-> t, chunks |-> RespChunks, left |-> RespChunks]
           /\ agent' = "copy" /\ down' = Written(down, <<"resp">>)
  <2>1. resp'.left = RespChunks
    BY <1>4
  <2>2. AgentPlace' = 3 * RespChunks + 4
    BY <1>1, <1>4, <2>1 DEF Places
  <2>3. Len(down'.q) <= Len(down.q) + 1
    BY <1>1, <1>4, ShortWrites DEF Numbers, Frames
  <2>4. AgentPlace' + 1 < AgentPlace /\ 1 \in Nat
    BY <1>3, <2>2
  <2>5. QED
    BY <1>2, <2>3, <2>4, AgentPays
<1>5. CASE agent' = "raw" /\ down' = Written(down, <<"resp101">>)
  <2>1. AgentPlace' = 1
    BY <1>1, <1>5 DEF Places
  <2>2. Len(down'.q) <= Len(down.q) + 1
    BY <1>1, <1>5, ShortWrites DEF Numbers, Frames
  <2>3. AgentPlace' + 1 < AgentPlace /\ 1 \in Nat
    BY <1>3, <2>1
  <2>4. QED
    BY <1>2, <2>2, <2>3, AgentPays
<1>6. CASE AgentWritesErr
  BY <1>2, <1>6, AgentErrs
<1>7. CASE AgentReturns(<<>>)
  BY <1>2, <1>7, AgentReturned
<1>8. QED
  BY <1>4, <1>5, <1>6, <1>7 DEF PanelAnswers

LEMMA AgentCopiesLess == StreamInv /\ StreamInv' /\ AgentCopies => Work' < Work
<1> SUFFICES ASSUME StreamInv, StreamInv', AgentCopies
             PROVE  Work' < Work
  OBVIOUS
<1>1. Numbers /\ Places /\ Places'
  BY NumbersHold, PlacesHold, PlacesHoldNext
<1>2. UNCHANGED <<masterVars, master, left, raw, broken, up>> /\ agent = "copy"
  BY DEF AgentCopies, masterVars
<1>3. AgentPlace = 3 * resp.left + 4 /\ resp.left \in Nat
  BY <1>1, <1>2 DEF Places, Numbers
<1>4. CASE \E c \in CopyChunks(resp.left) :
             /\ resp' = [resp EXCEPT !.left = c.left]
             /\ IF c.end = "no" THEN down' = Written(down, c.out) /\ UNCHANGED agent
                                ELSE AgentReturns(c.out)
  <2>1. PICK c \in CopyChunks(resp.left) :
             /\ resp' = [resp EXCEPT !.left = c.left]
             /\ IF c.end = "no" THEN down' = Written(down, c.out) /\ UNCHANGED agent
                                ELSE AgentReturns(c.out)
    BY <1>4
  <2> DEFINE k == Len(c.out)
             l == resp.left
             l1 == c.left
             e == c.end
  <2>2. c.out \in Seq(Frames) /\ k \in Nat /\ l1 \in Nat /\ l \in Nat
    BY <1>3, TurnLess
  <2>3. /\ e \in {"yes", "no", "error"}
        /\ e = "no" => k + 3 * l1 < 3 * l
        /\ e = "error" => k + 3 * l1 <= 3 * l + 2
        /\ e = "yes" => k + 3 * l1 <= 3 * l + 1
    BY <1>3, TurnLess
  <2>4. Len(down'.q) <= Len(down.q) + k
    BY <1>1, <2>1, <2>2, WrittenLen DEF Numbers, AgentReturns
  <2>5. resp'.left = l1
    BY <2>1 DEF StreamInv, TypeInv, AgentType
  <2>6. e = "no" => agent' = "copy"
    BY <1>2, <2>1
  <2>7. e # "no" => agent' = "done"
    BY <2>1 DEF AgentReturns
  <2> DEFINE p == AgentPlace
             p1 == AgentPlace'
  <2>8. p = 3 * l + 4 /\ (e = "no" => p1 = 3 * l1 + 4) /\ (e # "no" => p1 = 0)
    BY <1>1, <1>3, <2>5, <2>6, <2>7 DEF Places
  <2> HIDE DEF k, l, l1, e, p, p1
  <2>9. p1 + k < p
    BY <2>2, <2>3, <2>8
  <2>10. AgentPlace' + k < AgentPlace
    BY <2>9 DEF p, p1
  <2>11. QED
    BY <1>2, <2>2, <2>4, <2>10, AgentPays
<1>5. CASE AgentReturns(<<>>)
  BY <1>2, <1>5, AgentReturned
<1>6. QED
  BY <1>4, <1>5 DEF AgentCopies

LEMMA AgentRawLess == StreamInv /\ StreamInv' /\ AgentRaw => Work' < Work
<1> SUFFICES ASSUME StreamInv, StreamInv', AgentRaw
             PROVE  Work' < Work
  OBVIOUS
<1>1. Numbers /\ Places /\ Places'
  BY NumbersHold, PlacesHold, PlacesHoldNext
<1>2. UNCHANGED <<masterVars, master, left, broken>> /\ agent = "raw"
  BY DEF AgentRaw, masterVars
<1>3. AgentPlace = 1
  BY <1>1, <1>2 DEF Places
<1>4. CASE First(up) = "raw" /\ up' = Rest(up, 1) /\ UNCHANGED <<down, agent, raw>>
  <2>1. Len(down'.q) = Len(down.q) /\ Len(up'.q) < Len(up.q)
    BY <1>1, <1>4, ReadLess DEF Numbers, Frames
  <2>2. AgentPlace' = 1
    BY <1>1, <1>2, <1>4 DEF Places
  <2>3. QED
    BY <1>2, <1>3, <1>4, <2>1, <2>2, AgentTakes
<1>5. CASE /\ raw' = [raw EXCEPT !["agent"] = @ - 1] /\ down' = Written(down, <<"raw">>)
           /\ UNCHANGED <<up, agent>>
  <2>1. /\ raw'["agent"] = raw["agent"] - 1
        /\ raw'["master"] = raw["master"]
    BY <1>5 DEF StreamInv, TypeInv, RawType
  <2>2. Len(down'.q) <= Len(down.q) + 1
    BY <1>1, <1>5, ShortWrites DEF Numbers, Frames
  <2>3. Len(up'.q) = Len(up.q) /\ Len(up.q) \in Nat
    BY <1>1, <1>5 DEF Numbers
  <2>4. AgentPlace' = AgentPlace
    BY <1>1, <1>2, <1>3, <1>5 DEF Places
  <2>5. Len(up'.q) <= Len(up.q) /\ 0 \in Nat
    BY <2>3
  <2>6. Spent(Len(down'.q), Len(up'.q), raw'["agent"], AgentPlace',
              Len(down.q), Len(up.q), raw["agent"], AgentPlace, 0)
    BY <2>1, <2>2, <2>4, <2>5 DEF Spent
  <2>7. QED
    BY <1>2, <2>1, <2>5, <2>6, AgentLess
<1>6. CASE AgentReturns(<<>>) /\ UNCHANGED <<up, raw>>
  BY <1>2, <1>6, AgentReturned
<1>7. QED
  BY <1>4, <1>5, <1>6 DEF AgentRaw

LEMMA PanelLeavesLess == StreamInv /\ StreamInv' /\ PanelLeaves => Work' < Work
BY AgentReturned DEF PanelLeaves, masterVars

\* The session fails once, and nothing is added to what is on the way.
LEMMA SessionFailsLess == StreamInv /\ StreamInv' /\ SessionFails => Work' < Work
<1> SUFFICES ASSUME StreamInv, StreamInv', SessionFails
             PROVE  Work' < Work
  OBVIOUS
<1>1. UNCHANGED <<master, left, agent, resp, raw>> /\ ~broken /\ broken'
  BY DEF SessionFails, masterVars, agentVars
<1>2. SessionWork = 1 /\ SessionWork' = 0
  BY <1>1 DEF SessionWork
<1>3. MasterWork' = MasterWork /\ AgentWork' = AgentWork
  BY <1>1 DEF MasterWork, AgentWork, MasterPlace, AgentPlace
<1>4. Len(up'.q) <= Len(up.q) /\ Len(down'.q) <= Len(down.q) /\ Len(up.q) \in Nat /\ Len(down.q) \in Nat
      /\ Len(up'.q) \in Nat /\ Len(down'.q) \in Nat
  <2>1. PICK n \in 0 .. Len(up.q), k \in 0 .. Len(down.q) :
               up'.q = SubSeq(up.q, 1, n) /\ down'.q = SubSeq(down.q, 1, k)
    BY DEF SessionFails, Prefixes
  <2>2. up.q \in Seq(Frames) /\ down.q \in Seq(Frames)
    BY WireFields DEF StreamInv, TypeInv, WireType
  <2>3. Len(up'.q) = n /\ Len(down'.q) = k
    BY <2>1, <2>2, PrefixFacts
  <2>4. QED
    BY <2>2, <2>3, SeqFacts
<1> DEFINE u == Len(up.q)
           d == Len(down.q)
           u1 == Len(up'.q)
           d1 == Len(down'.q)
           m == MasterWork
           a == AgentWork
<1>5. /\ Work = (u + d) + m + a + 1 /\ m \in Nat /\ a \in Nat
      /\ Work' = (u1 + d1) + m + a + 0
  BY <1>2, <1>3, NumbersHold, NumbersHoldNext DEF Numbers, OnTheWay
<1>6. u1 <= u /\ d1 <= d /\ u \in Nat /\ d \in Nat /\ u1 \in Nat /\ d1 \in Nat
  BY <1>4
<1> HIDE DEF u, d, u1, d1, m, a
<1>7. QED
  BY <1>5, <1>6

LEMMA StepLess == StreamInv /\ StreamInv' /\ [Next]_vars => [Work' < Work]_vars
BY MasterSendsMetaLess, MasterCopiesLess, MasterReadsHeadLess, MasterRelaysLess, MasterRawLess,
   BrowserLeavesLess, AgentReadsMetaLess, AgentReadsBodyLess, PanelAnswersLess, AgentCopiesLess,
   AgentRawLess, PanelLeavesLess, SessionFailsLess
   DEF Next, MasterStep, AgentStep, Finished

-----------------------------------------------------------------------------
(***************************************************************************)
(* The theorems.                                                           *)
(***************************************************************************)

\* What is on the way always has the shape of the framing, each end finds what it waits
\* for, and no chunk is lost or doubled while nobody stops in the middle: the invariant
\* of the exchange between proxyHTTP and handleStream (server.go:279, client.go:163).
THEOREM StreamInvariant == Spec => []StreamInv
BY InitInv, StepInv, PTL DEF Spec

\* Every variable keeps its type, so no more of a body is read than was sent.
THEOREM TypeCorrect == Spec => []TypeOK
<1>1. StreamInv => TypeOK
  BY TypeParts DEF StreamInv
<1>2. QED
  BY <1>1, StreamInvariant, PTL

\* Neither end takes one frame for another, whoever fails or leaves: above all the raw
\* bytes of a websocket start after the end of the upgrade's body (client.go:364).
THEOREM AlwaysInStep == Spec => []InStep
<1>1. StreamInv => InStep
  <2> SUFFICES ASSUME StreamInv
               PROVE  InStep
    OBVIOUS
  <2>1. First(up) = Begin(up.q) /\ First(down) = Begin(down.q)
    BY FirstIsBegin DEF StreamInv, TypeInv, WireType
  <2>2. QED
    BY <2>1 DEF StreamInv, FrameInv, ReaderInv, InStep
<1>2. QED
  BY <1>1, StreamInvariant, PTL

\* CopyChunks and ChunkReader carry a body of any length whole, both ways, unless the
\* browser, the panel or the session stops in the middle (protocol.go:139).
THEOREM AlwaysWhole == Spec => []ExchangeWhole
<1>1. StreamInv => ExchangeWhole
  BY DEF StreamInv, ChunkInv
<1>2. QED
  BY <1>1, StreamInvariant, PTL

\* What holds of the two ends and of how they have left the stream.
LEMMA EndsHold == Spec => [](StreamInv /\ EndInv)
<1>1. Init => EndInv
  BY DEF Init, EndInv
<1>2. QED
  BY <1>1, EndStep, StreamInvariant, InitInv, StepInv, PTL DEF Spec

\* proxyHTTP and handleStream never wait for each other, and neither waits on a stream
\* the other has left: every return closes the stream, every frame that is read has been
\* written before its writer reads, and the drain of an upgrade's body ends (server.go:310,
\* client.go:253).
THEOREM NeverStuck == Spec => []NoMutualWait
BY EndsHold, NobodyWaitsForBoth, PTL

\* Whatever fails, leaves or is answered early, what is left to do is a number and becomes
\* less with every step: CopyChunks and ChunkReader make no step that could be made for
\* ever (protocol.go:139).
THEOREM WorkRunsOut == Spec => StepsRunOut
<1>1. StreamInv /\ StreamInv' /\ [Next]_vars => [Work' \in Nat /\ Work' < Work]_vars
  <2> SUFFICES ASSUME StreamInv, StreamInv', [Next]_vars
               PROVE  [Work' \in Nat /\ Work' < Work]_vars
    OBVIOUS
  <2>1. Work' \in Nat
    BY NumbersHoldNext DEF Numbers
  <2>2. QED
    BY <2>1, StepLess
<1>2. QED
  BY <1>1, StreamInvariant, PTL DEF Spec, StepsRunOut

\* So a request takes no more steps than three for each chunk of its body and of the
\* response, two for each raw write of either end, and nineteen (client.go:163).
MostSteps == 3 * BodyChunks + 3 * RespChunks + 4 * RawFrames + 19
THEOREM StepsBounded == Spec => [](Work \in Nat /\ Work <= MostSteps)
<1>1. Init => Work <= MostSteps
  <2> SUFFICES ASSUME Init
               PROVE  Work <= MostSteps
    OBVIOUS
  <2>1. Places
    BY PlacesHold
  <2> DEFINE b == BodyChunks
             c == RespChunks
             f == RawFrames
             l == left
  <2>2. b \in Nat /\ c \in Nat /\ f \in Nat
    BY ChunksAssumption
  <2>3. l \in {b, 0} /\ Len(up.q) = 0 /\ Len(down.q) = 0 /\ raw["master"] = f /\ raw["agent"] = f
        /\ MasterPlace = 3 * l + 9 /\ AgentPlace = 3 * c + 9
    BY <2>1 DEF Init, Places
  <2>4. (IF broken THEN 0 ELSE 1) = 1
    BY DEF Init
  <2>5. Work = 0 + 0 + 2 * f + 2 * f + (3 * l + 9) + (3 * c + 9) + 1
    BY <2>3, <2>4 DEF Work
  <2>6. MostSteps = 3 * b + 3 * c + 4 * f + 19
    BY DEF MostSteps
  <2> HIDE DEF b, c, f, l
  <2>7. QED
    BY <2>2, <2>3, <2>5, <2>6
<1>2. StreamInv /\ StreamInv' /\ [Next]_vars /\ Work <= MostSteps => (Work <= MostSteps)'
  <2> SUFFICES ASSUME StreamInv, StreamInv', [Next]_vars, Work <= MostSteps
               PROVE  Work' <= MostSteps
    BY DEF MostSteps
  <2>1. Work \in Nat /\ Work' \in Nat /\ MostSteps \in Nat
    BY NumbersHold, NumbersHoldNext, ChunksAssumption DEF Numbers, MostSteps
  <2>2. Work' <= Work
    <3>1. CASE UNCHANGED vars
      <4>1. UNCHANGED <<up, down, left, master, agent, resp, raw, broken>>
        BY <3>1 DEF vars, wires, masterVars, agentVars
      <4>2. MasterPlace' = MasterPlace /\ AgentPlace' = AgentPlace
        BY <4>1 DEF MasterPlace, AgentPlace
      <4>3. Work' = Work
        BY <4>1, <4>2 DEF Work
      <4>4. QED
        BY <2>1, <4>3
    <3>2. CASE Work' < Work
      BY <2>1, <3>2
    <3>3. QED
      BY <3>1, <3>2, StepLess
  <2> DEFINE w == Work
             v == Work'
             n == MostSteps
  <2>3. w \in Nat /\ v \in Nat /\ n \in Nat /\ v <= w /\ w <= n
    BY <2>1, <2>2
  <2> HIDE DEF w, v, n
  <2>4. v <= n
    BY <2>3
  <2>5. QED
    BY <2>4 DEF v, n
<1>3. StreamInv => Work \in Nat
  BY NumbersHold DEF Numbers
<1>4. QED
  BY <1>1, <1>2, <1>3, StreamInvariant, PTL DEF Spec
============================================================================
