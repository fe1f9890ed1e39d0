---------------------------- MODULE EditorProofs ----------------------------
(***************************************************************************)
(* Proofs about LineEditor, for any sequence of keys, caps, programs and   *)
(* files.                                                                  *)
(***************************************************************************)
EXTENDS LineEditor, FoldTheorems, SequenceTheorems

-----------------------------------------------------------------------------
(* Strings of bytes.  `Sound` is what decoding asks of each byte, seen from  *)
(* that byte; that it says the same as Whole is shown below.                 *)
Leads == {"L", "F"}

Led(s, i) == i > 1 /\ (s[i - 1] \in Leads \/ (i > 2 /\ s[i - 2] = "F"))

Sound(s) ==
    \A i \in 1 .. Len(s) :
        /\ s[i] = "L" => i + 1 <= Len(s) /\ IsContinuation(s[i + 1])
        /\ s[i] = "F" => i + 2 <= Len(s) /\ IsContinuation(s[i + 1]) /\ IsContinuation(s[i + 2])
        /\ IsContinuation(s[i]) => Led(s, i)

Strings == Seq(Bytes)

(* What a cut leaves on each side. *)
LEMMA CutParts ==
    ASSUME NEW S, NEW s \in Seq(S), NEW n \in 0 .. Len(s)
    PROVE  /\ Take(s, n) \in Seq(S) /\ Len(Take(s, n)) = n
           /\ \A i \in 1 .. n : Take(s, n)[i] = s[i]
           /\ Drop(s, n) \in Seq(S) /\ Len(Drop(s, n)) = Len(s) - n
           /\ \A i \in 1 .. (Len(s) - n) : Drop(s, n)[i] = s[n + i]
BY DEF Take, Drop

LEMMA ConcatStrings ==
    ASSUME NEW s \in Strings, NEW t \in Strings PROVE s \o t \in Strings
BY DEF Strings

LEMMA SoundEmpty == <<>> \in Strings /\ Sound(<<>>)
BY DEF Sound, Strings

LEMMA SoundByte ==
    ASSUME NEW b \in Bytes \ (Leads \cup Continuation)
    PROVE  <<b>> \in Strings /\ Sound(<<b>>)
BY DEF Sound, Strings, Leads, IsContinuation, Continuation

(* Sound parts make a sound whole, with a boundary between them. *)
LEMMA SoundConcat ==
    ASSUME NEW s \in Strings, NEW t \in Strings, Sound(s), Sound(t)
    PROVE  s \o t \in Strings /\ Sound(s \o t) /\ Boundary(s \o t, Len(s))
<1> DEFINE u == s \o t
           m == Len(s)
           n == Len(t)
<1>1. /\ u \in Strings /\ m \in Nat /\ n \in Nat /\ Len(u) = m + n
      /\ \A i \in 1 .. m : u[i] = s[i]
      /\ \A i \in 1 .. n : u[m + i] = t[i]
    BY DEF Strings
<1> HIDE DEF u, m, n
<1>2. ASSUME NEW i \in 1 .. (m + n)
      PROVE  /\ u[i] = "L" => i + 1 <= m + n /\ IsContinuation(u[i + 1])
             /\ u[i] = "F" => i + 2 <= m + n /\ IsContinuation(u[i + 1]) /\ IsContinuation(u[i + 2])
             /\ IsContinuation(u[i]) => Led(u, i)
  <2>1. CASE i \in 1 .. m
    <3>1. /\ s[i] = "L" => i + 1 <= m /\ IsContinuation(s[i + 1])
          /\ s[i] = "F" => i + 2 <= m /\ IsContinuation(s[i + 1]) /\ IsContinuation(s[i + 2])
          /\ IsContinuation(s[i]) => Led(s, i)
        BY <2>1 DEF Sound, m
    <3> QED
        BY <1>1, <2>1, <3>1 DEF Led
  <2>2. CASE i \notin 1 .. m
    <3> DEFINE j == i - m
    <3>1. j \in 1 .. n /\ i = m + j
        BY <1>1, <2>2
    <3> HIDE DEF j
    <3>2. /\ t[j] = "L" => j + 1 <= n /\ IsContinuation(t[j + 1])
          /\ t[j] = "F" => j + 2 <= n /\ IsContinuation(t[j + 1]) /\ IsContinuation(t[j + 2])
          /\ IsContinuation(t[j]) => Led(t, j)
        BY <3>1 DEF Sound, n
    <3>3. /\ u[i] = t[j]
          /\ j + 1 <= n => u[i + 1] = t[j + 1]
          /\ j + 2 <= n => u[i + 2] = t[j + 2]
          /\ j > 1 => u[i - 1] = t[j - 1]
          /\ j > 2 => u[i - 2] = t[j - 2]
        BY <1>1, <3>1
    <3> QED
        BY <1>1, <3>1, <3>2, <3>3 DEF Led
  <2> QED
      BY <2>1, <2>2
<1>3. Sound(u)
    BY <1>1, <1>2 DEF Sound
<1>4. n > 0 => ~IsContinuation(u[m + 1])
  <2>1. n > 0 => u[m + 1] = t[1] /\ 1 \in 1 .. n
      BY <1>1
  <2>2. n > 0 => ~IsContinuation(t[1])
      BY <1>1, <2>1 DEF Sound, Led, n
  <2> QED
      BY <2>1, <2>2
<1> QED
    BY <1>1, <1>3, <1>4 DEF Boundary, u, m

(* A cut at a boundary leaves sound parts. *)
LEMMA SoundCut ==
    ASSUME NEW s \in Strings, Sound(s), NEW n \in 0 .. Len(s), Boundary(s, n)
    PROVE  /\ Take(s, n) \in Strings /\ Len(Take(s, n)) = n /\ Sound(Take(s, n))
           /\ Drop(s, n) \in Strings /\ Len(Drop(s, n)) = Len(s) - n /\ Sound(Drop(s, n))
<1> DEFINE a == Take(s, n)
           b == Drop(s, n)
           m == Len(s)
<1>1. /\ m \in Nat /\ a \in Strings /\ Len(a) = n /\ b \in Strings /\ Len(b) = m - n
      /\ \A i \in 1 .. n : a[i] = s[i]
      /\ \A i \in 1 .. (m - n) : b[i] = s[n + i]
    BY CutParts DEF Strings
<1>2. \A i \in 1 .. m :
        /\ s[i] = "L" => i + 1 <= m /\ IsContinuation(s[i + 1])
        /\ s[i] = "F" => i + 2 <= m /\ IsContinuation(s[i + 1]) /\ IsContinuation(s[i + 2])
        /\ IsContinuation(s[i]) => Led(s, i)
    BY DEF Sound
<1>3. n = m \/ n = 0 \/ ~IsContinuation(s[n + 1])
    BY DEF Boundary
<1> HIDE DEF a, b, m
<1>4. Sound(a)
  <2> SUFFICES ASSUME NEW i \in 1 .. n
               PROVE  /\ a[i] = "L" => i + 1 <= n /\ IsContinuation(a[i + 1])
                      /\ a[i] = "F" => i + 2 <= n /\ IsContinuation(a[i + 1]) /\ IsContinuation(a[i + 2])
                      /\ IsContinuation(a[i]) => Led(a, i)
      BY <1>1 DEF Sound
  <2>0. i \in 1 .. m /\ n <= m /\ n \in Nat
      BY <1>1 DEF m
  <2>1. s[i] = "L" => i + 1 <= n
      BY <1>2, <1>3, <2>0
  <2>2. s[i] = "F" => i + 2 <= n
    <3> SUFFICES ASSUME s[i] = "F", i + 2 > n PROVE FALSE
        BY <1>1
    <3>1. i + 2 <= m /\ IsContinuation(s[i + 1]) /\ IsContinuation(s[i + 2])
        BY <1>2, <2>0
    <3>2. n = i \/ n = i + 1
        BY <2>0
    <3> QED
        BY <1>1, <1>3, <2>0, <3>1, <3>2
  <2>3. IsContinuation(s[i]) => Led(s, i)
      BY <1>2, <2>0
  <2>4. (IsContinuation(s[i + 1]) \/ ~(i + 1 <= n) \/ s[i] \notin Leads)
        /\ (s[i] = "F" => IsContinuation(s[i + 2]))
      BY <1>2, <2>0, <2>1, <2>2 DEF Leads
  <2>5. /\ a[i] = s[i] /\ (i + 1 <= n => a[i + 1] = s[i + 1])
        /\ (i + 2 <= n => a[i + 2] = s[i + 2])
        /\ (i > 1 => a[i - 1] = s[i - 1])
        /\ (i > 2 => a[i - 2] = s[i - 2])
      BY <1>1, <2>0
  <2> QED
      BY <2>0, <2>1, <2>2, <2>3, <2>4, <2>5 DEF Led, Leads
<1>5. Sound(b)
  <2> SUFFICES ASSUME NEW i \in 1 .. (m - n)
               PROVE  /\ b[i] = "L" => i + 1 <= m - n /\ IsContinuation(b[i + 1])
                      /\ b[i] = "F" => i + 2 <= m - n /\ IsContinuation(b[i + 1]) /\ IsContinuation(b[i + 2])
                      /\ IsContinuation(b[i]) => Led(b, i)
      BY <1>1 DEF Sound
  <2> DEFINE j == n + i
  <2>0. j \in 1 .. m /\ n <= m /\ n \in Nat
      BY <1>1 DEF m
  <2>1. /\ b[i] = s[j]
        /\ i + 1 <= m - n => b[i + 1] = s[j + 1]
        /\ i + 2 <= m - n => b[i + 2] = s[j + 2]
        /\ i > 1 => b[i - 1] = s[j - 1]
        /\ i > 2 => b[i - 2] = s[j - 2]
      BY <1>1, <2>0
  <2>2. /\ s[j] = "L" => j + 1 <= m /\ IsContinuation(s[j + 1])
        /\ s[j] = "F" => j + 2 <= m /\ IsContinuation(s[j + 1]) /\ IsContinuation(s[j + 2])
        /\ IsContinuation(s[j]) => Led(s, j)
      BY <1>2, <2>0
  <2>3. IsContinuation(s[j]) => Led(b, i)
    <3> SUFFICES ASSUME IsContinuation(s[j]) PROVE Led(b, i)
        OBVIOUS
    <3>1. Led(s, j)
        BY <2>2
    <3>2. CASE n = 0
        BY <2>1, <3>1, <3>2 DEF Led
    <3>3. CASE n # 0
      <4>1. n + 1 \in 1 .. m /\ ~IsContinuation(s[n + 1])
          BY <1>1, <1>3, <2>0, <3>3
      <4>2. i > 1
          BY <4>1, <2>0
      <4>3. CASE s[j - 1] \in Leads
          BY <2>1, <4>2, <4>3 DEF Led
      <4>4. CASE s[j - 1] \notin Leads
        <5>1. j > 2 /\ s[j - 2] = "F"
            BY <3>1, <4>4 DEF Led
        <5>2. j - 2 \in 1 .. m /\ j - 2 + 1 = j - 1
            BY <1>1, <2>0, <5>1
        <5>3. IsContinuation(s[j - 2 + 1])
            BY <1>2, <5>1, <5>2, Zenon
        <5>4. i # 2
          <6> SUFFICES ASSUME i = 2 PROVE FALSE
              OBVIOUS
          <6>1. j - 2 + 1 = n + 1
              BY <2>0
          <6> QED
              BY <4>1, <5>3, <6>1
        <5> QED
            BY <2>1, <4>2, <5>1, <5>4 DEF Led
      <4> QED
          BY <4>3, <4>4
    <3> QED
        BY <3>2, <3>3
  <2> QED
      BY <1>1, <2>0, <2>1, <2>2, <2>3
<1> QED
    BY <1>1, <1>4, <1>5 DEF a, b, m

-----------------------------------------------------------------------------
(* What is left of a string when the cap has cut it: the last bytes of its   *)
(* characters may be missing, but a byte that continues one still follows    *)
(* what it continues.                                                        *)
Follows(s, i) ==
    i > 1 /\ (s[i - 1] \in Leads \/ (i > 2 /\ s[i - 2] = "F" /\ IsContinuation(s[i - 1])))

Clean(s) == \A i \in 1 .. Len(s) : IsContinuation(s[i]) => Follows(s, i)

LEMMA SoundClean == ASSUME NEW s \in Strings, Sound(s) PROVE Clean(s)
<1> SUFFICES ASSUME NEW i \in 1 .. Len(s), IsContinuation(s[i]) PROVE Follows(s, i)
    BY DEF Clean
<1>0. Len(s) \in Nat
    BY DEF Strings
<1>1. Led(s, i)
    BY DEF Sound
<1>2. CASE s[i - 1] \in Leads
    BY <1>1, <1>2 DEF Led, Follows
<1>3. CASE i > 2 /\ s[i - 2] = "F"
  <2>1. i - 2 \in 1 .. Len(s) /\ i - 2 + 1 = i - 1
      BY <1>0, <1>3
  <2>2. IsContinuation(s[i - 2 + 1])
      BY <1>3, <2>1 DEF Sound
  <2> QED
      BY <1>3, <2>1, <2>2 DEF Follows
<1> QED
    BY <1>1, <1>2, <1>3 DEF Led

LEMMA CleanByte ==
    ASSUME NEW b \in Bytes \ Continuation
    PROVE  <<b>> \in Strings /\ Clean(<<b>>)
BY DEF Clean, Strings, IsContinuation

LEMMA CleanConcat ==
    ASSUME NEW s \in Strings, NEW t \in Strings, Clean(s), Clean(t)
    PROVE  s \o t \in Strings /\ Clean(s \o t) /\ Boundary(s \o t, Len(s))
<1> DEFINE u == s \o t
           m == Len(s)
           n == Len(t)
<1>1. /\ u \in Strings /\ m \in Nat /\ n \in Nat /\ Len(u) = m + n
      /\ \A i \in 1 .. m : u[i] = s[i]
      /\ \A i \in 1 .. n : u[m + i] = t[i]
    BY DEF Strings
<1>a. \A i \in 1 .. m : IsContinuation(s[i]) => Follows(s, i)
    BY DEF Clean
<1>b. \A i \in 1 .. n : IsContinuation(t[i]) => Follows(t, i)
    BY DEF Clean
<1> HIDE DEF u, m, n
<1>2. ASSUME NEW i \in 1 .. (m + n), IsContinuation(u[i]) PROVE Follows(u, i)
  <2>1. CASE i \in 1 .. m
      BY <1>1, <1>2, <1>a, <2>1 DEF Follows
  <2>2. CASE i \notin 1 .. m
    <3> DEFINE j == i - m
    <3>1. j \in 1 .. n /\ i = m + j
        BY <1>1, <2>2
    <3> HIDE DEF j
    <3>3. /\ u[i] = t[j]
          /\ j > 1 => u[i - 1] = t[j - 1]
          /\ j > 2 => u[i - 2] = t[j - 2]
        BY <1>1, <3>1
    <3>2. Follows(t, j)
        BY <1>2, <1>b, <3>1, <3>3
    <3> QED
        BY <1>1, <3>1, <3>2, <3>3 DEF Follows
  <2> QED
      BY <2>1, <2>2
<1>3. Clean(u)
    BY <1>1, <1>2 DEF Clean
<1>4. n > 0 => ~IsContinuation(u[m + 1])
  <2>1. n > 0 => u[m + 1] = t[1] /\ 1 \in 1 .. n
      BY <1>1
  <2>2. n > 0 => ~IsContinuation(t[1])
      BY <1>1, <1>b, <2>1 DEF Follows
  <2> QED
      BY <2>1, <2>2
<1> QED
    BY <1>1, <1>3, <1>4 DEF Boundary, u, m

(* Any cut leaves a clean string before it, and at a boundary after it too. *)
LEMMA CleanTake ==
    ASSUME NEW s \in Strings, Clean(s), NEW n \in 0 .. Len(s)
    PROVE  Take(s, n) \in Strings /\ Clean(Take(s, n))
<1> DEFINE a == Take(s, n)
<1>1. /\ Len(s) \in Nat /\ a \in Strings /\ Len(a) = n /\ \A i \in 1 .. n : a[i] = s[i]
    BY CutParts DEF Strings
<1> HIDE DEF a
<1>2. ASSUME NEW i \in 1 .. n, IsContinuation(a[i]) PROVE Follows(a, i)
  <2>1. Follows(s, i)
      BY <1>1, <1>2 DEF Clean
  <2> QED
      BY <1>1, <2>1 DEF Follows
<1> QED
    BY <1>1, <1>2 DEF Clean, a

LEMMA CleanDrop ==
    ASSUME NEW s \in Strings, Clean(s), NEW n \in 0 .. Len(s), Boundary(s, n)
    PROVE  Drop(s, n) \in Strings /\ Clean(Drop(s, n))
<1> DEFINE a == Drop(s, n)
           m == Len(s)
<1>1. /\ m \in Nat /\ a \in Strings /\ Len(a) = m - n /\ \A i \in 1 .. (m - n) : a[i] = s[n + i]
    BY CutParts DEF Strings
<1>a. \A i \in 1 .. m : IsContinuation(s[i]) => Follows(s, i)
    BY DEF Clean
<1>b. n < m => ~IsContinuation(s[n + 1])
  <2>1. CASE n = 0
      BY <1>1, <1>a, <2>1 DEF Follows
  <2>2. CASE n # 0
      BY <1>1, <2>2 DEF Boundary
  <2> QED
      BY <2>1, <2>2
<1> HIDE DEF a, m
<1>2. ASSUME NEW i \in 1 .. (m - n), IsContinuation(a[i]) PROVE Follows(a, i)
  <2>1. n + i \in 1 .. m /\ n \in Nat /\ a[i] = s[n + i]
      BY <1>1 DEF m
  <2>2. Follows(s, n + i)
      BY <1>2, <1>a, <2>1
  <2>3. i # 1
      BY <1>1, <1>2, <1>b, <2>1
  <2>4. a[i - 1] = s[n + i - 1] /\ (i > 2 => a[i - 2] = s[n + i - 2])
      BY <1>1, <2>1, <2>3
  <2>5. i = 2 => ~IsContinuation(s[n + i - 1])
      BY <1>1, <1>b, <2>1
  <2> QED
      BY <2>1, <2>2, <2>3, <2>4, <2>5 DEF Follows
<1> QED
    BY <1>1, <1>2 DEF Clean, a

(* The second byte of a character goes after its first. *)
LEMMA CleanSecond ==
    ASSUME NEW s \in Strings, Clean(s), Len(s) > 0, s[Len(s)] = "L", NEW b \in Bytes
    PROVE  s \o <<b>> \in Strings /\ Clean(s \o <<b>>)
<1> DEFINE u == s \o <<b>>
           m == Len(s)
<1>1. /\ u \in Strings /\ m \in Nat /\ Len(u) = m + 1 /\ u[m + 1] = b
      /\ \A i \in 1 .. m : u[i] = s[i]
    BY DEF Strings
<1>a. (\A i \in 1 .. m : IsContinuation(s[i]) => Follows(s, i)) /\ m > 0 /\ s[m] = "L"
    BY DEF Clean
<1> HIDE DEF u, m
<1>2. ASSUME NEW i \in 1 .. (m + 1), IsContinuation(u[i]) PROVE Follows(u, i)
  <2>1. CASE i \in 1 .. m
      BY <1>1, <1>2, <1>a, <2>1 DEF Follows
  <2>2. CASE i = m + 1
      BY <1>1, <1>a, <2>2 DEF Follows, Leads
  <2> QED
      BY <1>1, <2>1, <2>2
<1> QED
    BY <1>1, <1>2 DEF Clean, u

(* After a byte that is a character of its own there is a boundary. *)
LEMMA AfterByte ==
    ASSUME NEW s \in Strings, Clean(s), NEW n \in 0 .. Len(s),
           n = 0 \/ s[n] \notin Leads \cup Continuation
    PROVE  Boundary(s, n)
<1> SUFFICES ASSUME n # 0, n # Len(s), IsContinuation(s[n + 1]) PROVE FALSE
    BY DEF Boundary
<1>1. n + 1 \in 1 .. Len(s) /\ n \in 1 .. Len(s) /\ Len(s) \in Nat /\ n + 1 - 1 = n
    BY DEF Strings
<1>2. Follows(s, n + 1)
    BY <1>1 DEF Clean
<1> QED
    BY <1>1, <1>2 DEF Follows, IsContinuation

-----------------------------------------------------------------------------
(* Decoding.  One step of from_utf8_lossy takes Move bytes and gives Piece.  *)
Move(s, i) ==
    IF CharAt(s, i) # 0 THEN CharAt(s, i)
    ELSE IF s[i] = "F" /\ i < Len(s) /\ IsContinuation(s[i + 1]) THEN 2 ELSE 1

Piece(s, i) ==
    IF CharAt(s, i) # 0 THEN SubSeq(s, i, i + CharAt(s, i) - 1) ELSE Replacement

Decoded(s, f, i) == IF i > Len(s) THEN <<>> ELSE Piece(s, i) \o f[i + Move(s, i)]

IsDecoding(f, s) == f = [i \in 1 .. Len(s) + 1 |-> Decoded(s, f, i)]

Decoding(s) == CHOOSE f : IsDecoding(f, s)

(* The model's recursive function, in one equation. *)
LEMMA LossyIsChosen == ASSUME NEW s PROVE Lossy(s) = Decoding(s)[1]
<1> DEFINE L(f) == [i \in 1..Len(s) + 1 |->
                      IF i > Len(s) THEN <<>>
                      ELSE LET n == CharAt(s, i)
                               cut == IF s[i] = "F" /\ i < Len(s) /\ IsContinuation(s[i + 1])
                                      THEN 2 ELSE 1
                           IN IF n = 0 THEN Replacement \o f[i + cut]
                              ELSE SubSeq(s, i, i + n - 1) \o f[i + n]]
<1>1. Lossy(s) = (CHOOSE f : f = L(f))[1]
    BY Zenon DEF Lossy
<1>2. \A f : L(f) = [i \in 1 .. Len(s) + 1 |-> Decoded(s, f, i)]
  <2> TAKE f
  <2>1. ASSUME NEW i \in 1 .. Len(s) + 1
        PROVE  (IF i > Len(s) THEN <<>>
                ELSE LET n == CharAt(s, i)
                         cut == IF s[i] = "F" /\ i < Len(s) /\ IsContinuation(s[i + 1])
                                THEN 2 ELSE 1
                     IN IF n = 0 THEN Replacement \o f[i + cut]
                        ELSE SubSeq(s, i, i + n - 1) \o f[i + n]) = Decoded(s, f, i)
      BY DEF Decoded, Piece, Move
  <2> QED
      BY <2>1, Zenon
<1>3. \A f : f = L(f) <=> IsDecoding(f, s)
    BY <1>2, Zenon DEF IsDecoding
<1> HIDE DEF L
<1> QED
    BY <1>1, <1>3, Zenon DEF Decoding

(* What one step takes and gives. *)
LEMMA PieceSound ==
    ASSUME NEW s \in Strings, NEW i \in 1 .. Len(s)
    PROVE  /\ Move(s, i) \in 1 .. 3 /\ i + Move(s, i) <= Len(s) + 1
           /\ Piece(s, i) \in Strings /\ Sound(Piece(s, i))
<1>1. s[i] \in Bytes /\ Len(s) \in Nat /\ \A k \in 1 .. Len(s) : s[k] \in Bytes
    BY DEF Strings
<1>2. Replacement \in Strings /\ Sound(Replacement)
  <2> DEFINE r == Replacement
  <2>1. r \in Strings
    <3>1. "F" \in Bytes /\ "K" \in Bytes /\ "J" \in Bytes
        BY DEF Bytes, Printable
    <3> QED
        BY <3>1 DEF Replacement, Strings
  <2>2. Len(r) = 3 /\ r[1] = "F" /\ r[2] = "K" /\ r[3] = "J"
      BY DEF Replacement
  <2> HIDE DEF r
  <2>3. Sound(r)
      BY <2>2 DEF Sound, Led, Leads, IsContinuation, Continuation
  <2> QED
      BY <2>1, <2>3 DEF r
<1>3. CASE CharAt(s, i) = 0
    BY <1>1, <1>2, <1>3 DEF Move, Piece
<1>4. CASE CharAt(s, i) # 0
  <2>1. \/ /\ s[i] = "L" /\ CharAt(s, i) = 2 /\ i + 1 <= Len(s) /\ IsContinuation(s[i + 1])
        \/ /\ s[i] = "F" /\ CharAt(s, i) = 3 /\ i + 2 <= Len(s)
           /\ IsContinuation(s[i + 1]) /\ IsContinuation(s[i + 2])
        \/ /\ s[i] \notin Leads \cup Continuation /\ CharAt(s, i) = 1
      BY <1>4 DEF CharAt, Leads, IsContinuation
  <2> DEFINE p == SubSeq(s, i, i + CharAt(s, i) - 1)
  <2>2. Move(s, i) = CharAt(s, i) /\ Piece(s, i) = p
      BY <1>4 DEF Move, Piece
  <2>3. Move(s, i) \in 1 .. 3 /\ i + Move(s, i) <= Len(s) + 1
      BY <1>1, <2>1, <2>2
  <2>4. p \in Strings /\ Len(p) = CharAt(s, i) /\ \A k \in 1 .. CharAt(s, i) : p[k] = s[i + k - 1]
      BY <1>1, <2>1 DEF Strings
  <2> HIDE DEF p
  <2>5. Sound(p)
    <3>1. CASE s[i] = "L" /\ CharAt(s, i) = 2 /\ i + 1 <= Len(s) /\ IsContinuation(s[i + 1])
      <4>1. Len(p) = 2 /\ p[1] = "L" /\ IsContinuation(p[2])
          BY <2>4, <3>1
      <4> QED
          BY <4>1 DEF Sound, Led, Leads, IsContinuation, Continuation
    <3>2. CASE /\ s[i] = "F" /\ CharAt(s, i) = 3 /\ i + 2 <= Len(s)
               /\ IsContinuation(s[i + 1]) /\ IsContinuation(s[i + 2])
      <4>1. Len(p) = 3 /\ p[1] = "F" /\ IsContinuation(p[2]) /\ IsContinuation(p[3])
          BY <2>4, <3>2
      <4> QED
          BY <4>1 DEF Sound, Led, Leads, IsContinuation, Continuation
    <3>3. CASE s[i] \notin Leads \cup Continuation /\ CharAt(s, i) = 1
      <4>1. Len(p) = 1 /\ p[1] \notin Leads \cup Continuation
          BY <2>4, <3>3
      <4> QED
          BY <4>1 DEF Sound, Leads, IsContinuation
    <3> QED
        BY <2>1, <3>1, <3>2, <3>3
  <2> QED
      BY <2>2, <2>3, <2>4, <2>5
<1> QED
    BY <1>3, <1>4

(* The recursion has a solution: it is built from the end of the string. *)
LEMMA DecodingExists ==
    ASSUME NEW s \in Strings
    PROVE  IsDecoding(Decoding(s), s)
<1> DEFINE n == Len(s)
           A == [1 .. n + 1 -> Strings]
           Up(f, m) == \A i \in (n + 1 - m) .. (n + 1) : f[i] = Decoded(s, f, i)
           T == {m \in 0 .. n : \E f \in A : Up(f, m)}
<1>0. n \in Nat
    BY DEF Strings
<1>a. \A i \in 1 .. n : /\ Move(s, i) \in 1 .. 3 /\ i + Move(s, i) <= n + 1
                        /\ Piece(s, i) \in Strings
    BY PieceSound
<1>b. \A f : \A i \in 1 .. n : Decoded(s, f, i) = Piece(s, i) \o f[i + Move(s, i)]
    BY <1>0 DEF Decoded
<1>c. \A f : Decoded(s, f, n + 1) = <<>>
    BY <1>0 DEF Decoded
<1> HIDE DEF n
<1>1. 0 \in T
  <2> DEFINE f == [i \in 1 .. n + 1 |-> <<>>]
  <2>1. f \in A /\ f[n + 1] = <<>>
      BY <1>0, SoundEmpty
  <2>2. Up(f, 0)
      BY <1>0, <1>c, <2>1
  <2> QED
      BY <1>0, <2>1, <2>2
<1>2. ASSUME NEW m \in 1 .. n, m - 1 \in T PROVE m \in T
  <2>1. PICK f \in A : Up(f, m - 1)
      BY <1>2
  <2> DEFINE j == n + 1 - m
             g == [f EXCEPT ![j] = Decoded(s, f, j)]
  <2>2. j \in 1 .. n /\ (n + 1 - m) = j /\ (n + 1 - (m - 1)) = j + 1
      BY <1>0
  <2>3. j + Move(s, j) \in 1 .. n + 1 /\ j + Move(s, j) > j
      BY <1>0, <1>a, <2>2
  <2>4. Decoded(s, f, j) \in Strings
    <3>1. f[j + Move(s, j)] \in Strings /\ Piece(s, j) \in Strings
        BY <1>a, <2>2, <2>3
    <3>2. Piece(s, j) \o f[j + Move(s, j)] \in Strings
        BY <3>1, ConcatStrings
    <3> QED
        BY <1>b, <2>2, <3>2
  <2>5. g \in A /\ g[j] = Decoded(s, f, j) /\ \A i \in (j + 1) .. (n + 1) : g[i] = f[i]
      BY <1>0, <2>2, <2>4
  <2> HIDE DEF g
  <2>6. \A i \in j .. (n + 1) : Decoded(s, g, i) = Decoded(s, f, i)
    <3> TAKE i \in j .. (n + 1)
    <3>1. CASE i = n + 1
        BY <1>c, <3>1
    <3>2. CASE i # n + 1
      <4>1. i \in 1 .. n
          BY <1>0, <2>2, <3>2
      <4>2. i + Move(s, i) \in (j + 1) .. (n + 1)
          BY <1>0, <1>a, <2>2, <4>1
      <4>3. g[i + Move(s, i)] = f[i + Move(s, i)]
          BY <2>5, <4>2
      <4> QED
          BY <1>b, <4>1, <4>3
    <3> QED
        BY <3>1, <3>2
  <2>7. \A i \in (j + 1) .. (n + 1) : f[i] = Decoded(s, f, i)
      BY <2>1, <2>2
  <2> HIDE DEF j
  <2>8. \A i \in j .. (n + 1) : g[i] = Decoded(s, g, i)
    <3> TAKE i \in j .. (n + 1)
    <3>1. i = j \/ i \in (j + 1) .. (n + 1)
        BY <1>0, <2>2
    <3> QED
        BY <2>5, <2>6, <2>7, <3>1
  <2>9. Up(g, m)
      BY <2>2, <2>8
  <2> QED
      BY <1>0, <2>5, <2>9
<1>3. n \in T
  <2> HIDE DEF T
  <2>1. 0 .. n \subseteq T
      BY <1>0, <1>1, <1>2, StepsReachAll
  <2> QED
      BY <1>0, <2>1
<1>4. PICK f \in A : Up(f, n)
    BY <1>3
<1>5. \A i \in 1 .. n + 1 : f[i] = Decoded(s, f, i)
    BY <1>0, <1>4
<1>6. f = [i \in 1 .. n + 1 |-> f[i]]
    OBVIOUS
<1>7. IsDecoding(f, s)
    BY <1>5, <1>6, Zenon DEF IsDecoding, n
<1> QED
    BY <1>7, Zenon DEF Decoding

(* What one value of the decoding is. *)
LEMMA DecodingAt ==
    ASSUME NEW s \in Strings, NEW i \in 1 .. Len(s) + 1
    PROVE  Decoding(s)[i] = Decoded(s, Decoding(s), i)
BY DecodingExists, Zenon DEF IsDecoding

(* Decoding gives sound strings only. *)
LEMMA LossySound ==
    ASSUME NEW s \in Strings
    PROVE  Lossy(s) \in Strings /\ Sound(Lossy(s))
<1> DEFINE n == Len(s)
           d == Decoding(s)
           Up(m) == \A i \in (n + 1 - m) .. (n + 1) : d[i] \in Strings /\ Sound(d[i])
           T == {m \in 0 .. n : Up(m)}
<1>0. n \in Nat
    BY DEF Strings
<1>a. \A i \in 1 .. n : /\ Move(s, i) \in 1 .. 3 /\ i + Move(s, i) <= n + 1
                        /\ Piece(s, i) \in Strings /\ Sound(Piece(s, i))
    BY PieceSound
<1>b. d[n + 1] = <<>> /\ \A i \in 1 .. n : d[i] = Piece(s, i) \o d[i + Move(s, i)]
  <2>1. n + 1 \in 1 .. n + 1 /\ n + 1 > n
      BY <1>0
  <2>2. \A i \in 1 .. n : i \in 1 .. n + 1 /\ ~(i > n)
      BY <1>0
  <2>3. \A i \in 1 .. n + 1 : d[i] = Decoded(s, d, i)
      BY DecodingAt
  <2> HIDE DEF d
  <2> QED
      BY <2>1, <2>2, <2>3 DEF Decoded
<1> HIDE DEF n, d
<1>1. 0 \in T
    BY <1>0, <1>b, SoundEmpty
<1>2. ASSUME NEW m \in 1 .. n, m - 1 \in T PROVE m \in T
  <2> DEFINE j == n + 1 - m
  <2>1. j \in 1 .. n /\ (n + 1 - m) = j /\ (n + 1 - (m - 1)) = j + 1
      BY <1>0
  <2>2. \A i \in (j + 1) .. (n + 1) : d[i] \in Strings /\ Sound(d[i])
      BY <1>2, <2>1
  <2> HIDE DEF j
  <2>3. j + Move(s, j) \in (j + 1) .. (n + 1)
      BY <1>0, <1>a, <2>1
  <2>4. d[j] \in Strings /\ Sound(d[j])
    <3>1. d[j + Move(s, j)] \in Strings /\ Sound(d[j + Move(s, j)])
        BY <2>2, <2>3
    <3>2. Piece(s, j) \in Strings /\ Sound(Piece(s, j)) /\ d[j] = Piece(s, j) \o d[j + Move(s, j)]
        BY <1>a, <1>b, <2>1
    <3> QED
        BY <3>1, <3>2, SoundConcat
  <2>5. \A i \in j .. (n + 1) : i = j \/ i \in (j + 1) .. (n + 1)
      BY <1>0, <2>1
  <2> QED
      BY <1>0, <2>1, <2>2, <2>4, <2>5
<1>3. n \in T
  <2> HIDE DEF T
  <2>1. 0 .. n \subseteq T
      BY <1>0, <1>1, <1>2, StepsReachAll
  <2> QED
      BY <1>0, <2>1
<1>4. d[1] \in Strings /\ Sound(d[1])
    BY <1>0, <1>3
<1> QED
    BY <1>4, LossyIsChosen DEF d

(* At a boundary of a sound string stands a whole character, and after it a  *)
(* boundary again.                                                           *)
LEMMA SoundMove ==
    ASSUME NEW s \in Strings, Sound(s), NEW i \in 1 .. Len(s), ~IsContinuation(s[i])
    PROVE  /\ Piece(s, i) = SubSeq(s, i, i + Move(s, i) - 1)
           /\ i + Move(s, i) = Len(s) + 1 \/ ~IsContinuation(s[i + Move(s, i)])
<1>1. s[i] \in Bytes /\ Len(s) \in Nat
    BY DEF Strings
<1>2. \A k \in 1 .. Len(s) :
        /\ s[k] = "L" => k + 1 <= Len(s) /\ IsContinuation(s[k + 1])
        /\ s[k] = "F" => k + 2 <= Len(s) /\ IsContinuation(s[k + 1]) /\ IsContinuation(s[k + 2])
        /\ IsContinuation(s[k]) => Led(s, k)
    BY DEF Sound
<1> DEFINE j == i + Move(s, i)
<1>3. j \in Nat /\ j <= Len(s) + 1 /\ j > i
    BY <1>1, PieceSound
<1>5. CASE s[i] = "L"
  <2>1. i + 1 <= Len(s) /\ IsContinuation(s[i + 1])
      BY <1>2, <1>5
  <2>2. CharAt(s, i) = 2
      BY <1>5, <2>1 DEF CharAt, IsContinuation
  <2>3. j = i + 2 /\ Move(s, i) = 2 /\ Piece(s, i) = SubSeq(s, i, i + Move(s, i) - 1)
      BY <2>2 DEF Move, Piece
  <2>4. ASSUME j # Len(s) + 1, IsContinuation(s[i + 2]) PROVE FALSE
    <3>1. i + 2 \in 1 .. Len(s)
        BY <1>1, <1>3, <2>3, <2>4
    <3>2. Led(s, i + 2)
        BY <1>2, <2>4, <3>1
    <3>3. i + 2 - 1 = i + 1 /\ i + 2 - 2 = i
        OBVIOUS
    <3>4. s[i + 1] \in Leads \/ s[i] = "F"
        BY <3>2, <3>3 DEF Led
    <3> QED
        BY <1>5, <2>1, <3>4 DEF Leads, IsContinuation, Continuation
  <2> QED
      BY <2>3, <2>4
<1>6. CASE s[i] = "F"
  <2>1. i + 2 <= Len(s) /\ IsContinuation(s[i + 1]) /\ IsContinuation(s[i + 2])
      BY <1>2, <1>6
  <2>2. CharAt(s, i) = 3
      BY <1>6, <2>1 DEF CharAt, IsContinuation
  <2>3. j = i + 3 /\ Move(s, i) = 3 /\ Piece(s, i) = SubSeq(s, i, i + Move(s, i) - 1)
      BY <2>2 DEF Move, Piece
  <2>4. ASSUME j # Len(s) + 1, IsContinuation(s[i + 3]) PROVE FALSE
    <3>1. i + 3 \in 1 .. Len(s)
        BY <1>1, <1>3, <2>3, <2>4
    <3>2. Led(s, i + 3)
        BY <1>2, <2>4, <3>1
    <3>3. i + 3 - 1 = i + 2 /\ i + 3 - 2 = i + 1
        OBVIOUS
    <3>4. s[i + 2] \in Leads \/ s[i + 1] = "F"
        BY <3>2, <3>3 DEF Led
    <3> QED
        BY <2>1, <3>4 DEF Leads, IsContinuation, Continuation
  <2> QED
      BY <2>3, <2>4
<1>7. CASE s[i] \notin Leads
  <2>1. s[i] \notin Leads \cup Continuation /\ CharAt(s, i) = 1
      BY <1>7 DEF CharAt, Leads, IsContinuation
  <2>2. j = i + 1 /\ Move(s, i) = 1 /\ Piece(s, i) = SubSeq(s, i, i + Move(s, i) - 1)
      BY <2>1 DEF Move, Piece
  <2>3. Boundary(s, i)
      BY <1>1, <2>1, AfterByte, SoundClean
  <2> QED
      BY <1>1, <2>2, <2>3 DEF Boundary
<1> QED
    BY <1>5, <1>6, <1>7 DEF Leads

(* Decoding changes nothing in a sound string. *)
LEMMA SoundLossy ==
    ASSUME NEW s \in Strings, Sound(s)
    PROVE  Lossy(s) = s
<1> DEFINE n == Len(s)
           d == Decoding(s)
           Fixed(i) == (i = n + 1 \/ ~IsContinuation(s[i])) => d[i] = SubSeq(s, i, n)
           Up(m) == \A i \in (n + 1 - m) .. (n + 1) : Fixed(i)
           T == {m \in 0 .. n : Up(m)}
<1>0. n \in Nat
    BY DEF Strings
<1>a. \A i \in 1 .. n :
          /\ Move(s, i) \in 1 .. 3 /\ i + Move(s, i) <= n + 1
          /\ ~IsContinuation(s[i]) =>
                /\ Piece(s, i) = SubSeq(s, i, i + Move(s, i) - 1)
                /\ i + Move(s, i) = n + 1 \/ ~IsContinuation(s[i + Move(s, i)])
    BY PieceSound, SoundMove
<1>b. d[n + 1] = <<>> /\ \A i \in 1 .. n : d[i] = Piece(s, i) \o d[i + Move(s, i)]
  <2>1. n + 1 \in 1 .. n + 1 /\ n + 1 > n
      BY <1>0
  <2>2. \A i \in 1 .. n : i \in 1 .. n + 1 /\ ~(i > n)
      BY <1>0
  <2>3. \A i \in 1 .. n + 1 : d[i] = Decoded(s, d, i)
      BY DecodingAt
  <2> HIDE DEF d
  <2> QED
      BY <2>1, <2>2, <2>3 DEF Decoded
<1>c. ASSUME NEW i \in 1 .. n, NEW k \in 1 .. n + 1, i < k
      PROVE  SubSeq(s, i, k - 1) \o SubSeq(s, k, n) = SubSeq(s, i, n)
  <2>1. /\ k - 1 + 1 = k /\ i \in 1 .. Len(s) + 1
        /\ k - 1 \in i - 1 .. Len(s) /\ n \in k - 1 .. Len(s)
      BY <1>0, <1>c
  <2>2. SubSeq(s, i, k - 1) \o SubSeq(s, k - 1 + 1, n) = SubSeq(s, i, n)
      BY <2>1, ConcatAdjacentSubSeq DEF Strings
  <2> QED
      BY <2>1, <2>2
<1>d. SubSeq(s, n + 1, n) = <<>> /\ SubSeq(s, 1, n) = s
    BY <1>0 DEF Strings
<1> HIDE DEF n, d
<1>1. 0 \in T
  <2>1. \A i \in (n + 1 - 0) .. (n + 1) : i = n + 1
      BY <1>0
  <2>2. Fixed(n + 1)
      BY <1>b, <1>d, Zenon
  <2>3. \A i \in (n + 1 - 0) .. (n + 1) : Fixed(i)
      BY <2>1, <2>2, Zenon
  <2>4. 0 \in 0 .. n
      BY <1>0
  <2> QED
      BY <2>3, <2>4, Zenon
<1>2. ASSUME NEW m \in 1 .. n, m - 1 \in T PROVE m \in T
  <2> DEFINE j == n + 1 - m
  <2>1. j \in 1 .. n /\ (n + 1 - m) = j /\ (n + 1 - (m - 1)) = j + 1
      BY <1>0
  <2>2. \A i \in (j + 1) .. (n + 1) : Fixed(i)
      BY <1>2, <2>1
  <2> HIDE DEF j
  <2>3. j + Move(s, j) \in (j + 1) .. (n + 1)
      BY <1>0, <1>a, <2>1
  <2>4. Fixed(j)
    <3> SUFFICES ASSUME ~IsContinuation(s[j]) PROVE d[j] = SubSeq(s, j, n)
        BY <1>0, <2>1
    <3> DEFINE k == j + Move(s, j)
    <3>1. d[k] = SubSeq(s, k, n)
        BY <1>a, <2>1, <2>2, <2>3
    <3>2. d[j] = SubSeq(s, j, k - 1) \o d[k]
      <4>1. d[j] = Piece(s, j) \o d[k]
          BY <1>b, <2>1
      <4>2. Piece(s, j) = SubSeq(s, j, k - 1)
          BY <1>a, <2>1
      <4> QED
          BY <4>1, <4>2
    <3>3. k \in 1 .. n + 1 /\ j < k
        BY <1>0, <2>1, <2>3
    <3> HIDE DEF k
    <3> QED
        BY <1>c, <2>1, <3>1, <3>2, <3>3
  <2>5. \A i \in j .. (n + 1) : i = j \/ i \in (j + 1) .. (n + 1)
      BY <1>0, <2>1
  <2>6. \A i \in j .. (n + 1) : Fixed(i)
      BY <2>2, <2>4, <2>5, Zenon
  <2> QED
      BY <1>0, <2>1, <2>6
<1>3. n \in T
  <2> HIDE DEF T
  <2>1. 0 .. n \subseteq T
      BY <1>0, <1>1, <1>2, StepsReachAll
  <2> QED
      BY <1>0, <2>1
<1>4. 1 \in 1 .. n + 1 /\ (n + 1 - n) = 1
    BY <1>0
<1>5. Fixed(1)
    BY <1>3, <1>4
<1>6. 1 = n + 1 \/ ~IsContinuation(s[1])
  <2> SUFFICES ASSUME n # 0 PROVE ~IsContinuation(s[1])
      BY <1>0
  <2>1. 1 \in 1 .. Len(s)
      BY <1>0 DEF n
  <2> QED
      BY <2>1 DEF Sound, Led
<1>7. d[1] = s
    BY <1>5, <1>6, <1>d
<1> QED
    BY <1>7, LossyIsChosen DEF d

(* The two say the same. *)
LEMMA WholeIsSound == ASSUME NEW s \in Strings PROVE Whole(s) <=> Sound(s)
BY LossySound, SoundLossy DEF Whole

-----------------------------------------------------------------------------
(* Places. *)
LEMMA GreatestIn ==
    ASSUME NEW n \in Nat, NEW S, S \subseteq 0 .. n, S # {}
    PROVE  Greatest(S) \in S /\ \A k \in S : k <= Greatest(S)
<1> DEFINE T == {n - k : k \in S}
<1>1. T \subseteq Nat /\ T # {}
    OBVIOUS
<1>2. \E x \in T : \A y \in T : x <= y
  <2> HIDE DEF T
  <2> QED
      BY <1>1, LeastExists
<1>3. PICK m \in S : \A k \in S : n - m <= n - k
    BY <1>2
<1>4. \A k \in S : k <= m
    BY <1>3
<1> QED
    BY <1>4, Zenon DEF Greatest

LEMMA SmallestIn ==
    ASSUME NEW S, S \subseteq Nat, S # {}
    PROVE  Smallest(S) \in S /\ \A k \in S : Smallest(S) <= k
<1>1. \E x \in S : \A y \in S : x <= y
    BY LeastExists
<1> QED
    BY <1>1, Zenon DEF Smallest

-----------------------------------------------------------------------------
(* Texts and lines.  w is "whole" while the cap has cut nothing.             *)
Text(s, w) == s \in Strings /\ Clean(s) /\ (w = "whole" => Sound(s))

Line(s, n, w) == Text(s, w) /\ n \in 0 .. Len(s) /\ Boundary(s, n)

LEMMA SoundText == ASSUME NEW w, NEW s \in Strings, Sound(s) PROVE Text(s, w)
BY SoundClean DEF Text

LEMMA TextLen == ASSUME NEW w, NEW s, Text(s, w) PROVE Len(s) \in Nat
BY DEF Text, Strings

LEMMA LineEnds ==
    ASSUME NEW w, NEW s, Text(s, w)
    PROVE  Line(s, 0, w) /\ Line(s, Len(s), w)
BY TextLen DEF Line, Boundary

LEMMA TextEmpty == ASSUME NEW w PROVE Text(<<>>, w)
BY SoundEmpty, SoundText

LEMMA TextConcat ==
    ASSUME NEW w, NEW s, NEW t, Text(s, w), Text(t, w)
    PROVE  /\ Text(s \o t, w) /\ Line(s \o t, Len(s), w)
           /\ Len(s \o t) = Len(s) + Len(t)
<1>1. s \o t \in Strings /\ Len(s \o t) = Len(s) + Len(t) /\ Len(s) \in Nat /\ Len(t) \in Nat
    BY DEF Text, Strings
<1>2. Clean(s \o t) /\ Boundary(s \o t, Len(s)) /\ (w = "whole" => Sound(s \o t))
    BY SoundConcat, CleanConcat DEF Text
<1>3. Text(s \o t, w)
    BY <1>1, <1>2 DEF Text
<1>4. Len(s) \in 0 .. Len(s \o t)
    BY <1>1
<1> QED
    BY <1>1, <1>2, <1>3, <1>4 DEF Line

LEMMA LineCut ==
    ASSUME NEW w, NEW s, NEW n, Line(s, n, w)
    PROVE  /\ Text(Take(s, n), w) /\ Len(Take(s, n)) = n
           /\ Text(Drop(s, n), w) /\ Len(Drop(s, n)) = Len(s) - n
<1>1. s \in Strings /\ n \in 0 .. Len(s)
    BY DEF Line, Text
<1>2. /\ Take(s, n) \in Strings /\ Len(Take(s, n)) = n
      /\ Drop(s, n) \in Strings /\ Len(Drop(s, n)) = Len(s) - n
    BY <1>1, CutParts DEF Strings
<1>3. w = "whole" => Sound(Take(s, n)) /\ Sound(Drop(s, n))
    BY <1>1, SoundCut DEF Line, Text
<1>4. Clean(Take(s, n)) /\ Clean(Drop(s, n))
    BY <1>1, CleanTake, CleanDrop DEF Line, Text
<1> QED
    BY <1>2, <1>3, <1>4 DEF Text

(* A place after a byte that is a character of its own. *)
LEMMA LineAfter ==
    ASSUME NEW w, NEW s, Text(s, w), NEW n \in 0 .. Len(s),
           n = 0 \/ s[n] \notin Leads \cup Continuation
    PROVE  Line(s, n, w)
BY AfterByte DEF Line, Text

(* A place before a byte that starts a character. *)
LEMMA LineBefore ==
    ASSUME NEW w, NEW s, Text(s, w), NEW n \in 0 .. Len(s),
           n = 0 \/ n = Len(s) \/ ~IsContinuation(s[n + 1])
    PROVE  Line(s, n, w)
BY DEF Line, Boundary

(* What two cuts leave. *)
LEMMA CutOfTake ==
    ASSUME NEW s \in Strings, NEW a \in 0 .. Len(s), NEW b \in 0 .. Len(s), a <= b
    PROVE  Take(Take(s, b), a) = Take(s, a) /\ Drop(Take(s, b), a) = SubSeq(s, a + 1, b)
<1> DEFINE u == Take(s, b)
<1>0. s \in Seq(Bytes) /\ Len(s) \in Nat
    BY DEF Strings
<1>1. u \in Seq(Bytes) /\ Len(u) = b /\ \A i \in 1 .. b : u[i] = s[i]
    BY <1>0, CutParts
<1> HIDE DEF u
<1>2. a \in 0 .. Len(u)
    BY <1>0, <1>1
<1>3. /\ Take(u, a) \in Seq(Bytes) /\ Len(Take(u, a)) = a
      /\ \A i \in 1 .. a : Take(u, a)[i] = u[i]
      /\ Drop(u, a) \in Seq(Bytes) /\ Len(Drop(u, a)) = Len(u) - a
      /\ \A i \in 1 .. (Len(u) - a) : Drop(u, a)[i] = u[a + i]
  <2>1. u \in Seq(Bytes)
      BY <1>1
  <2> QED
      BY <1>2, <2>1, CutParts
<1>4. Take(s, a) \in Seq(Bytes) /\ Len(Take(s, a)) = a /\ \A i \in 1 .. a : Take(s, a)[i] = s[i]
    BY <1>0, CutParts
<1>5. /\ SubSeq(s, a + 1, b) \in Seq(Bytes) /\ Len(SubSeq(s, a + 1, b)) = b - a
      /\ \A i \in 1 .. (b - a) : SubSeq(s, a + 1, b)[i] = s[a + i]
    BY <1>0
<1>6. (\A i \in 1 .. a : i \in 1 .. b) /\ (\A i \in 1 .. (b - a) : a + i \in 1 .. b)
    BY <1>0
<1>7. Take(u, a) = Take(s, a)
  <2>1. \A i \in 1 .. a : Take(u, a)[i] = Take(s, a)[i]
      BY <1>1, <1>3, <1>4, <1>6
  <2> QED
      BY <1>3, <1>4, <2>1, SeqEqual
<1>8. Drop(u, a) = SubSeq(s, a + 1, b)
  <2>1. Len(Drop(u, a)) = b - a /\ \A i \in 1 .. (b - a) : Drop(u, a)[i] = SubSeq(s, a + 1, b)[i]
      BY <1>1, <1>3, <1>5, <1>6
  <2> QED
      BY <1>3, <1>5, <2>1, SeqEqual
<1> QED
    BY <1>7, <1>8 DEF u

(* Between two places of a line. *)
LEMMA LineBetween ==
    ASSUME NEW w, NEW s, NEW a, NEW b, Line(s, a, w), Line(s, b, w), a <= b
    PROVE  /\ Text(SubSeq(s, a + 1, b), w) /\ Len(SubSeq(s, a + 1, b)) = b - a
           /\ Line(Take(s, a) \o Drop(s, b), a, w)
<1>1. s \in Strings /\ a \in 0 .. Len(s) /\ b \in 0 .. Len(s) /\ Len(s) \in Nat
    BY DEF Line, Text, Strings
<1> DEFINE t == Take(s, b)
<1>2. Text(t, w) /\ Len(t) = b
    BY LineCut
<1>3. Drop(t, a) = SubSeq(s, a + 1, b)
    BY <1>1, CutOfTake
<1>4. Line(t, a, w)
  <2>1. a \in 0 .. Len(t)
      BY <1>1, <1>2
  <2>2. a # 0 /\ a # Len(t) => a # Len(s) /\ a + 1 \in 1 .. b
      BY <1>1, <1>2
  <2>3. \A i \in 1 .. b : t[i] = s[i]
      BY <1>1, CutParts DEF Strings
  <2>4. Boundary(t, a)
      BY <2>2, <2>3 DEF Line, Boundary
  <2> QED
      BY <1>2, <2>1, <2>4 DEF Line
<1>5. Text(Drop(t, a), w) /\ Len(Drop(t, a)) = b - a
    BY <1>2, <1>4, LineCut
<1>6. Text(Take(s, a), w) /\ Len(Take(s, a)) = a /\ Text(Drop(s, b), w)
    BY LineCut
<1>7. Line(Take(s, a) \o Drop(s, b), a, w)
    BY <1>6, TextConcat
<1> QED
    BY <1>3, <1>5, <1>7

-----------------------------------------------------------------------------
(* The places the editor computes.  *)
LEMMA PrevCharPlace ==
    ASSUME NEW w, NEW e, Line(e.buf, e.cursor, w)
    PROVE  Line(e.buf, PrevChar(e, e.cursor), w) /\ PrevChar(e, e.cursor) <= e.cursor
<1> DEFINE b == e.buf
           c == e.cursor
           S == {0} \cup {k \in 1..(c - 1) : ~IsContinuation(b[k + 1])}
           p == Greatest(S)
<1>1. Text(b, w) /\ c \in 0 .. Len(b) /\ Len(b) \in Nat
    BY TextLen DEF Line
<1> HIDE DEF b, c
<1>2. S \subseteq 0 .. c /\ S # {} /\ c \in Nat
    BY <1>1
<1>3. p \in S
  <2> HIDE DEF S
  <2> QED
      BY <1>2, GreatestIn
<1>4. p \in 0 .. Len(b) /\ p <= c /\ (p = 0 \/ ~IsContinuation(b[p + 1]))
    BY <1>1, <1>3
<1>5. Line(b, p, w)
    BY <1>1, <1>4, LineBefore
<1> QED
    BY <1>4, <1>5 DEF PrevChar, b, c

LEMMA NextCharPlace ==
    ASSUME NEW w, NEW e, Line(e.buf, e.cursor, w)
    PROVE  Line(e.buf, NextChar(e, e.cursor), w) /\ e.cursor <= NextChar(e, e.cursor)
<1> DEFINE b == e.buf
           c == e.cursor
           S == {Len(b)} \cup {k \in (c + 1)..(Len(b) - 1) : ~IsContinuation(b[k + 1])}
           p == Smallest(S)
<1>1. Text(b, w) /\ c \in 0 .. Len(b) /\ Len(b) \in Nat
    BY TextLen DEF Line
<1> HIDE DEF b, c
<1>2. S \subseteq Nat /\ S # {}
    BY <1>1
<1>3. p \in S
  <2> HIDE DEF S
  <2> QED
      BY <1>2, SmallestIn
<1>4. p \in 0 .. Len(b) /\ c <= p /\ (p = Len(b) \/ ~IsContinuation(b[p + 1]))
    BY <1>1, <1>3
<1>5. Line(b, p, w)
    BY <1>1, <1>4, LineBefore
<1> QED
    BY <1>4, <1>5 DEF NextChar, b, c

(* The start of a word: a blank stands before it. *)
LEMMA BlankPlace ==
    ASSUME NEW w, NEW s, Text(s, w), NEW n \in 0 .. Len(s)
    PROVE  LET p == Greatest({0} \cup {k \in 1..n : s[k] \in Blanks})
           IN  Line(s, p, w) /\ p <= n
<1> DEFINE S == {0} \cup {k \in 1..n : s[k] \in Blanks}
           p == Greatest(S)
<1>1. Len(s) \in Nat /\ S \subseteq 0 .. n /\ S # {} /\ n \in Nat
    BY TextLen
<1>2. p \in S
  <2> HIDE DEF S
  <2> QED
      BY <1>1, GreatestIn
<1>3. p \in 0 .. Len(s) /\ p <= n /\ (p = 0 \/ s[p] \in Blanks)
    BY <1>1, <1>2
<1>4. p = 0 \/ s[p] \notin Leads \cup Continuation
    BY <1>3 DEF Blanks, Leads, Continuation
<1> HIDE DEF p
<1>5. Line(s, p, w)
    BY <1>3, <1>4, LineAfter
<1> QED
    BY <1>3, <1>5 DEF p

LEMMA TrimText == ASSUME NEW w, NEW s, Text(s, w) PROVE Text(Trim(s), w)
<1> DEFINE ink == {i \in 1..Len(s) : s[i] \notin Blanks}
           a == Smallest(ink)
           b == Greatest(ink)
<1>0. Len(s) \in Nat
    BY TextLen
<1>1. CASE ink = {}
    BY <1>1, TextEmpty DEF Trim
<1>2. CASE ink # {}
  <2>1. ink \subseteq 0 .. Len(s) /\ ink \subseteq Nat
      BY <1>0
  <2>2. a \in ink /\ b \in ink /\ (\A k \in ink : a <= k) /\ (\A k \in ink : k <= b)
    <3> HIDE DEF ink
    <3> QED
        BY <1>0, <1>2, <2>1, GreatestIn, SmallestIn
  <2>3. /\ a \in 1 .. Len(s) /\ b \in 1 .. Len(s) /\ a <= b
        /\ \A k \in 1 .. Len(s) : k < a \/ k > b => s[k] \in Blanks
    <3>1. a \in 1 .. Len(s) /\ b \in 1 .. Len(s) /\ a <= b
        BY <2>2
    <3>2. \A k \in 1 .. Len(s) : s[k] \notin Blanks => k \in ink
        OBVIOUS
    <3> HIDE DEF a, b, ink
    <3>3. \A k \in 1 .. Len(s) : s[k] \notin Blanks => a <= k /\ k <= b
        BY <2>2, <3>2
    <3> QED
        BY <1>0, <3>1, <3>3
  <2>4. Trim(s) = SubSeq(s, a, b)
      BY <1>2 DEF Trim
  <2> HIDE DEF a, b
  <2>5. Line(s, a - 1, w)
    <3>1. a - 1 \in 0 .. Len(s) /\ (a - 1 = 0 \/ s[a - 1] \in Blanks)
        BY <1>0, <2>3
    <3>2. a - 1 = 0 \/ s[a - 1] \notin Leads \cup Continuation
        BY <3>1 DEF Blanks, Leads, Continuation
    <3> QED
        BY <3>1, <3>2, LineAfter
  <2>6. Line(s, b, w)
    <3>1. b \in 0 .. Len(s) /\ (b = Len(s) \/ s[b + 1] \in Blanks)
        BY <1>0, <2>3
    <3>2. b = Len(s) \/ ~IsContinuation(s[b + 1])
        BY <3>1 DEF Blanks, IsContinuation, Continuation
    <3> QED
        BY <3>1, <3>2, LineBefore
  <2>7. a - 1 <= b /\ a - 1 + 1 = a
      BY <2>3
  <2>8. Text(SubSeq(s, a - 1 + 1, b), w)
      BY <2>5, <2>6, <2>7, LineBetween
  <2> QED
      BY <2>4, <2>7, <2>8
<1> QED
    BY <1>1, <1>2

(* What of s fits into r bytes, from its start. *)
LEMMA FitPlace ==
    ASSUME NEW w, NEW s, Text(s, w), NEW r \in 0 .. Len(s)
    PROVE  LET p == Greatest({k \in 0..r : Boundary(s, k)})
           IN  Line(s, p, w) /\ p <= r
<1> DEFINE S == {k \in 0..r : Boundary(s, k)}
           p == Greatest(S)
<1>1. Len(s) \in Nat /\ S \subseteq 0 .. r /\ S # {} /\ r \in Nat
    BY TextLen DEF Boundary
<1>2. p \in S
  <2> HIDE DEF S
  <2> QED
      BY <1>1, GreatestIn
<1>3. p \in 0 .. Len(s) /\ p <= r /\ Boundary(s, p)
    BY <1>1, <1>2
<1> HIDE DEF p
<1>4. Line(s, p, w)
    BY <1>3 DEF Line
<1> QED
    BY <1>3, <1>4 DEF p

LEMMA CommonPrefixText ==
    ASSUME NEW w, NEW names, names # {}, \A n \in names : Text(n, w)
    PROVE  Text(CommonPrefix(names), w)
<1> DEFINE first == CHOOSE n \in names : TRUE
           shared == {k \in 0..Len(first) : \A n \in names : StartsWith(n, Take(first, k))}
           g == Greatest(shared)
           p == Greatest({k \in 0..g : Boundary(first, k)})
<1>1. first \in names
    OBVIOUS
<1>2. CommonPrefix(names) = Take(first, p)
    BY DEF CommonPrefix
<1>3. Text(first, w) /\ Len(first) \in Nat
    BY <1>1, TextLen
<1>4. 0 \in shared
  <2> SUFFICES ASSUME NEW n \in names PROVE StartsWith(n, Take(first, 0))
      BY <1>3
  <2>1. n \in Seq(Bytes) /\ first \in Seq(Bytes)
      BY <1>3 DEF Text, Strings
  <2> HIDE DEF first
  <2>2. Take(first, 0) = <<>> /\ Take(n, 0) = <<>>
      BY <2>1 DEF Take
  <2> QED
      BY <2>1, <2>2 DEF StartsWith
<1>5. shared \subseteq 0 .. Len(first)
    OBVIOUS
<1>6. g \in shared
  <2> HIDE DEF shared, first
  <2> QED
      BY <1>3, <1>4, <1>5, GreatestIn
<1>7. g \in 0 .. Len(first)
    BY <1>5, <1>6
<1>8. Line(first, p, w)
  <2> HIDE DEF first, g
  <2> QED
      BY <1>3, <1>7, FitPlace
<1> HIDE DEF first, p
<1> QED
    BY <1>2, <1>8, LineCut

-----------------------------------------------------------------------------
(* Completion offers whole names. *)
Outcome(d, w) == d.kind \in {"none", "single", "listing"} /\ (d.kind = "single" => Text(d.text, w))

LEMMA Outcomes ==
    ASSUME NEW w
    PROVE  /\ Outcome(Nothing, w) /\ Outcome(Ambiguous, w)
           /\ \A t, space : Text(t, w) => Outcome(Single(t, space), w)
<1>1. Outcome(Nothing, w) /\ Outcome(Ambiguous, w)
    BY DEF Outcome, Nothing, Ambiguous
<1>2. ASSUME NEW t, NEW space, Text(t, w) PROVE Outcome(Single(t, space), w)
  <2>1. Single(t, space).kind = "single" /\ Single(t, space).text = t
      BY DEF Single
  <2> QED
      BY <1>2, <2>1 DEF Outcome
<1> QED
    BY <1>1, <1>2

LEMMA NamesText ==
    ASSUME NEW w
    PROVE  /\ \A n \in Programs : Text(n, w)
           /\ \A d \in DOMAIN Listing : \A x \in Listing[d] : Text(x.name, w)
BY NamesAssumption, WholeIsSound, SoundText DEF Strings

LEMMA CompleteCommandOutcome == ASSUME NEW w, NEW word PROVE Outcome(CompleteCommand(word), w)
<1> DEFINE names == {n \in Programs : StartsWith(n, word)}
           lcp == CommonPrefix(names)
           n1 == CHOOSE n \in names : TRUE
<1>1. \A n \in names : Text(n, w)
    BY NamesText
<1>2. \/ CompleteCommand(word) = Nothing
      \/ CompleteCommand(word) = Ambiguous
      \/ names # {} /\ CompleteCommand(word) = Single(n1, TRUE)
      \/ names # {} /\ CompleteCommand(word) = Single(lcp, FALSE)
  <2>1. names = {} => Cardinality(names) = 0
      BY FS_EmptySet
  <2>2. CompleteCommand(word) =
           CASE names = {} -> Nothing
             [] Cardinality(names) = 1 -> Single(n1, TRUE)
             [] Cardinality(names) > 1 /\ Len(lcp) > Len(word) -> Single(lcp, FALSE)
             [] OTHER -> Ambiguous
      BY DEF CompleteCommand
  <2> HIDE DEF names, lcp, n1
  <2> DEFINE more == Cardinality(names) > 1 /\ Len(lcp) > Len(word)
  <2>3. CASE names = {}
    <3>1. ~(Cardinality(names) = 1) /\ ~more
        BY <2>1, <2>3
    <3> HIDE DEF more
    <3> QED
        BY <2>2, <2>3, <3>1 DEF more
  <2>4. CASE names # {} /\ Cardinality(names) = 1
      BY <2>2, <2>4
  <2>5. CASE names # {} /\ Cardinality(names) # 1 /\ more
      BY <2>2, <2>5
  <2>6. CASE names # {} /\ Cardinality(names) # 1 /\ ~more
      BY <2>2, <2>6
  <2> QED
      BY <2>3, <2>4, <2>5, <2>6
<1> HIDE DEF names
<1>3. names # {} => Text(lcp, w) /\ Text(n1, w)
    BY <1>1, CommonPrefixText
<1> HIDE DEF lcp, n1
<1> QED
    BY <1>2, <1>3, Outcomes

LEMMA CompletePathOutcome ==
    ASSUME NEW w, NEW word, Text(word, w)
    PROVE  Outcome(CompletePath(word), w)
<1> DEFINE S == {0} \cup {i \in 1..Len(word) : word[i] = "/"}
           slash == Greatest(S)
           dirPart == Take(word, slash)
           base == Drop(word, slash)
           entries == IF dirPart \in DOMAIN Listing THEN Listing[dirPart] ELSE {}
           cands == {x \in entries : /\ StartsWith(x.name, base)
                                     /\ StartsWith(base, <<".">>) \/ ~StartsWith(x.name, <<".">>)}
           one == CHOOSE x \in cands : TRUE
           names == {x.name : x \in cands}
           lcp == CommonPrefix(names)
           last == IF one.dir THEN <<"/">> ELSE <<>>
<1>1. \/ CompletePath(word) = Nothing
      \/ CompletePath(word) = Ambiguous
      \/ cands # {} /\ CompletePath(word) = Single(dirPart \o one.name \o last, ~one.dir)
      \/ cands # {} /\ CompletePath(word) = Single(dirPart \o lcp, FALSE)
  <2>1. cands = {} => Cardinality(cands) = 0
      BY FS_EmptySet
  <2>2. CompletePath(word) =
           CASE cands = {} -> Nothing
             [] Cardinality(cands) = 1 -> Single(dirPart \o one.name \o last, ~one.dir)
             [] Cardinality(cands) > 1 /\ Len(lcp) > Len(base) -> Single(dirPart \o lcp, FALSE)
             [] OTHER -> Ambiguous
      BY DEF CompletePath
  <2> HIDE DEF cands, lcp, one, dirPart, last, base
  <2> DEFINE more == Cardinality(cands) > 1 /\ Len(lcp) > Len(base)
  <2>3. CASE cands = {}
    <3>1. ~(Cardinality(cands) = 1) /\ ~more
        BY <2>1, <2>3
    <3> HIDE DEF more
    <3> QED
        BY <2>2, <2>3, <3>1 DEF more
  <2>4. CASE cands # {} /\ Cardinality(cands) = 1
      BY <2>2, <2>4
  <2>5. CASE cands # {} /\ Cardinality(cands) # 1 /\ more
      BY <2>2, <2>5
  <2>6. CASE cands # {} /\ Cardinality(cands) # 1 /\ ~more
      BY <2>2, <2>6
  <2> QED
      BY <2>3, <2>4, <2>5, <2>6
<1>2. \A x \in cands : Text(x.name, w)
  <2>1. \A x \in entries : Text(x.name, w)
    <3> HIDE DEF dirPart
    <3> QED
        BY NamesText
  <2> HIDE DEF entries
  <2> QED
      BY <2>1
<1> HIDE DEF cands
<1>3. Len(word) \in Nat
    BY TextLen
<1>4. S \subseteq 0 .. Len(word) /\ S # {}
    BY <1>3
<1>5. slash \in S
  <2> HIDE DEF S
  <2> QED
      BY <1>3, <1>4, GreatestIn
<1>6. slash \in 0 .. Len(word) /\ (slash = 0 \/ word[slash] \notin Leads \cup Continuation)
    BY <1>3, <1>5 DEF Leads, Continuation
<1> HIDE DEF slash
<1>7. Text(dirPart, w)
    BY <1>6, LineAfter, LineCut
<1>8. Text(last, w)
  <2>1. "/" \in Bytes \ (Leads \cup Continuation)
      BY DEF Bytes, Printable, Leads, Continuation
  <2>2. Text(<<"/">>, w)
      BY <2>1, SoundByte, SoundText
  <2> QED
      BY <2>2, TextEmpty
<1> HIDE DEF last, dirPart
<1>9. cands # {} => Text(dirPart \o one.name \o last, w)
  <2> SUFFICES ASSUME cands # {} PROVE Text(dirPart \o one.name \o last, w)
      OBVIOUS
  <2>1. Text(one.name, w)
      BY <1>2
  <2>2. Text(dirPart \o one.name, w)
      BY <1>7, <2>1, TextConcat
  <2> QED
      BY <1>8, <2>2, TextConcat
<1>10. cands # {} => Text(dirPart \o lcp, w)
  <2> SUFFICES ASSUME cands # {} PROVE Text(dirPart \o lcp, w)
      OBVIOUS
  <2>1. names # {} /\ \A n \in names : Text(n, w)
      BY <1>2
  <2> HIDE DEF names
  <2>2. Text(lcp, w)
      BY <2>1, CommonPrefixText
  <2> QED
      BY <1>7, <2>2, TextConcat
<1> DEFINE p == dirPart \o one.name \o last
           q == dirPart \o lcp
<1>11. cands # {} => Outcome(Single(p, ~one.dir), w) /\ Outcome(Single(q, FALSE), w)
  <2> HIDE DEF p, q, one
  <2>1. cands # {} => Text(p, w) /\ Text(q, w)
      BY <1>9, <1>10 DEF p, q
  <2> QED
      BY <2>1, Outcomes, Zenon
<1>12. Outcome(Nothing, w) /\ Outcome(Ambiguous, w)
    BY Outcomes
<1> HIDE DEF one, lcp
<1> QED
    BY <1>1, <1>11, <1>12, Zenon

LEMMA CompleteOutcome ==
    ASSUME NEW w, NEW word, Text(word, w), NEW isCommand
    PROVE  Outcome(Complete(word, isCommand), w)
<1>1. \/ Complete(word, isCommand) = CompleteCommand(word)
      \/ Complete(word, isCommand) = CompletePath(word)
    BY Zenon DEF Complete
<1> QED
    BY <1>1, CompleteCommandOutcome, CompletePathOutcome

-----------------------------------------------------------------------------
(* The editor.  Its kept texts are whole and its indices valid; its line is  *)
(* whole but for the moment between the two bytes of a character.            *)
Fields == {"buf", "cursor", "kill", "history", "histPos", "stash", "esc", "params", "search",
           "open", "scr", "cut", "key", "keys"}

Remembered(h, w) ==
    /\ h \in Seq(Strings) /\ Len(h) <= MaxHistory
    /\ \A i \in 1 .. Len(h) : Text(h[i], w)

Searches == Seq([query : Strings, matched : Nat])

Found(s, h) ==
    /\ s \in Searches /\ Len(s) <= 1
    /\ Len(s) = 1 => /\ s[1].matched <= Len(h)
                     /\ s[1].matched # 0 => Includes(h[s[1].matched], s[1].query)

Kept(e, w) ==
    /\ Fields \subseteq DOMAIN e /\ e.esc \in {"none", "got", "csi"}
    /\ Text(e.kill, w) /\ Text(e.stash, w) /\ Remembered(e.history, w)
    /\ e.histPos \in 0 .. Len(e.history) /\ Found(e.search, e.history)

Good(e, w) == Kept(e, w) /\ Line(e.buf, e.cursor, w)

(* The first byte of a character stands before the cursor. *)
HalfLine(s, n, w) ==
    /\ s \in Strings /\ n \in 0 .. Len(s) /\ Clean(s) /\ Boundary(s, n)
    /\ Len(s) >= MaxBuffer \/ (n > 0 /\ s[n] = "L")
    /\ w = "whole" => /\ n > 0 /\ s[n] = "L"
                      /\ Sound(Take(s, n - 1)) /\ Sound(Drop(s, n))

Half(e, w) == Kept(e, w) /\ HalfLine(e.buf, e.cursor, w)

(* What an operation that cuts nothing must do. *)
Safe(e, f, w) == Good(f, w) /\ f.cut = e.cut

(* f differs from e in its line, and may have left the history. *)
Relined(e, f) ==
    /\ Fields \subseteq DOMAIN f /\ f.kill = e.kill /\ f.stash = e.stash /\ f.history = e.history
    /\ f.esc = e.esc /\ f.search = e.search /\ f.cut = e.cut /\ f.histPos \in {0, e.histPos}

LEMMA RelinedKept ==
    ASSUME NEW w, NEW e, NEW f, Kept(e, w), Relined(e, f)
    PROVE  Kept(f, w) /\ f.cut = e.cut
<1>1. Len(e.history) \in Nat
    BY DEF Kept, Remembered
<1>2. f.histPos \in 0 .. Len(f.history)
    BY <1>1 DEF Kept, Relined
<1> QED
    BY <1>2 DEF Kept, Relined

LEMMA RelinedSafe ==
    ASSUME NEW w, NEW e, NEW f, Good(e, w), Relined(e, f), Line(f.buf, f.cursor, w)
    PROVE  Safe(e, f, w)
BY RelinedKept DEF Good, Safe

LEMMA RedrawFields ==
    ASSUME NEW e, Fields \subseteq DOMAIN e
    PROVE  /\ Relined(e, Redraw(e)) /\ Redraw(e).buf = e.buf /\ Redraw(e).cursor = e.cursor
           /\ Redraw(e).histPos = e.histPos
<1> DEFINE x == Shows(e.buf, Columns(e.buf) - Columns(Drop(e.buf, e.cursor)))
<1>1. Redraw(e) = [e EXCEPT !.scr = x]
    BY DEF Redraw
<1> HIDE DEF x
<1> QED
    BY <1>1 DEF Relined, Fields

LEMMA RedrawSafe ==
    ASSUME NEW w, NEW e, NEW f, Safe(e, f, w)
    PROVE  Safe(e, Redraw(f), w) /\ Redraw(f).search = f.search
<1>1. /\ Relined(f, Redraw(f)) /\ Redraw(f).buf = f.buf /\ Redraw(f).cursor = f.cursor
    BY RedrawFields DEF Safe, Good, Kept
<1>2. Safe(f, Redraw(f), w)
    BY <1>1, RelinedSafe DEF Safe, Good
<1> QED
    BY <1>1, <1>2 DEF Safe, Relined

LEMMA RenderFields ==
    ASSUME NEW e, Fields \subseteq DOMAIN e
    PROVE  /\ Fields \subseteq DOMAIN RenderSearch(e)
           /\ \A x \in Fields \ {"scr"} : RenderSearch(e)[x] = e[x]
BY DEF RenderSearch, Fields

LEMMA GoodSelf == ASSUME NEW w, NEW e, Good(e, w) PROVE Safe(e, e, w)
BY DEF Safe

-----------------------------------------------------------------------------
(* Moving and deleting. *)
LEMMA DrainSafe ==
    ASSUME NEW w, NEW e, Good(e, w), NEW a, NEW b, Line(e.buf, a, w), Line(e.buf, b, w), a <= b
    PROVE  Safe(e, Drain(e, a, b), w)
<1> DEFINE t == Take(e.buf, a) \o Drop(e.buf, b)
<1>1. Line(t, a, w)
    BY LineBetween
<1>2. Drain(e, a, b) = [e EXCEPT !.buf = t, !.cursor = a]
    BY DEF Drain
<1> HIDE DEF t
<1> DEFINE f == [e EXCEPT !.buf = t, !.cursor = a]
<1>3. Relined(e, f) /\ f.buf = t /\ f.cursor = a
    BY DEF Good, Kept, Relined, Fields
<1> HIDE DEF f
<1> QED
    BY <1>1, <1>2, <1>3, RelinedSafe DEF f

LEMMA KillSafe ==
    ASSUME NEW w, NEW e, NEW d, Safe(e, d, w), NEW x, Text(x, w)
    PROVE  Safe(e, [d EXCEPT !.kill = x], w)
<1> DEFINE f == [d EXCEPT !.kill = x]
<1>1. /\ Fields \subseteq DOMAIN f /\ f.kill = x /\ f.buf = d.buf /\ f.cursor = d.cursor
      /\ f.stash = d.stash /\ f.history = d.history /\ f.histPos = d.histPos
      /\ f.esc = d.esc /\ f.search = d.search /\ f.cut = d.cut
    BY DEF Safe, Good, Kept, Fields
<1> HIDE DEF f
<1> QED
    BY <1>1 DEF Safe, Good, Kept, f

LEMMA BackspaceSafe == ASSUME NEW w, NEW e, Good(e, w) PROVE Safe(e, Backspace(e), w)
<1>1. Line(e.buf, e.cursor, w)
    BY DEF Good
<1>2. Safe(e, Drain(e, PrevChar(e, e.cursor), e.cursor), w)
    BY <1>1, PrevCharPlace, DrainSafe
<1> QED
    BY <1>2, RedrawSafe, GoodSelf DEF Backspace

LEMMA DeleteForwardSafe == ASSUME NEW w, NEW e, Good(e, w) PROVE Safe(e, DeleteForward(e), w)
<1>1. Line(e.buf, e.cursor, w)
    BY DEF Good
<1>2. Safe(e, Drain(e, e.cursor, NextChar(e, e.cursor)), w)
    BY <1>1, NextCharPlace, DrainSafe
<1> QED
    BY <1>2, RedrawSafe, GoodSelf DEF DeleteForward

LEMMA MovedSafe ==
    ASSUME NEW w, NEW e, Good(e, w), NEW n, Line(e.buf, n, w)
    PROVE  /\ Safe(e, [e EXCEPT !.cursor = n], w)
           /\ \A x : Safe(e, [e EXCEPT !.cursor = n, !.scr.col = x], w)
<1>1. Safe(e, [e EXCEPT !.cursor = n], w)
  <2> DEFINE f == [e EXCEPT !.cursor = n]
  <2>1. Relined(e, f) /\ f.buf = e.buf /\ f.cursor = n
      BY DEF Good, Kept, Relined, Fields
  <2> HIDE DEF f
  <2> QED
      BY <2>1, RelinedSafe DEF f
<1>2. ASSUME NEW x PROVE Safe(e, [e EXCEPT !.cursor = n, !.scr.col = x], w)
  <2> DEFINE f == [e EXCEPT !.cursor = n, !.scr.col = x]
  <2>1. Relined(e, f) /\ f.buf = e.buf /\ f.cursor = n
      BY DEF Good, Kept, Relined, Fields
  <2> HIDE DEF f
  <2> QED
      BY <2>1, RelinedSafe DEF f
<1> QED
    BY <1>1, <1>2

LEMMA MovesSafe ==
    ASSUME NEW w, NEW e, Good(e, w)
    PROVE  /\ Safe(e, MoveHome(e), w) /\ Safe(e, MoveEnd(e), w)
           /\ Safe(e, MoveLeft(e), w) /\ Safe(e, MoveRight(e), w)
<1>1. Line(e.buf, e.cursor, w) /\ Text(e.buf, w)
    BY DEF Good, Line
<1>2. Line(e.buf, 0, w) /\ Line(e.buf, Len(e.buf), w)
    BY <1>1, LineEnds
<1>3. Safe(e, MoveHome(e), w) /\ Safe(e, MoveEnd(e), w)
    BY <1>2, MovedSafe, RedrawSafe DEF MoveHome, MoveEnd
<1>4. Line(e.buf, PrevChar(e, e.cursor), w) /\ Line(e.buf, NextChar(e, e.cursor), w)
    BY <1>1, PrevCharPlace, NextCharPlace
<1>5. Safe(e, MoveLeft(e), w)
    BY <1>4, MovedSafe, GoodSelf DEF MoveLeft
<1>6. Safe(e, MoveRight(e), w)
    BY <1>4, MovedSafe, GoodSelf DEF MoveRight
<1> QED
    BY <1>3, <1>5, <1>6

LEMMA KillsSafe ==
    ASSUME NEW w, NEW e, Good(e, w)
    PROVE  Safe(e, KillToStart(e), w) /\ Safe(e, KillToEnd(e), w) /\ Safe(e, KillWord(e), w)
<1> DEFINE n == Len(e.buf)
           c == e.cursor
<1>1. Line(e.buf, c, w) /\ Text(e.buf, w) /\ c \in 0 .. n /\ n \in Nat
    BY TextLen DEF Good, Line
<1>2. Line(e.buf, 0, w) /\ Line(e.buf, n, w)
    BY <1>1, LineEnds
<1>3. Text(Take(e.buf, c), w) /\ Text(Drop(e.buf, c), w)
    BY <1>1, LineCut
<1>4. Safe(e, Drain(e, 0, c), w) /\ Safe(e, Drain(e, c, n), w)
    BY <1>1, <1>2, DrainSafe
<1>5. Safe(e, KillToStart(e), w)
    BY <1>3, <1>4, KillSafe, RedrawSafe, GoodSelf DEF KillToStart
<1>6. Safe(e, KillToEnd(e), w)
    BY <1>3, <1>4, KillSafe, RedrawSafe, GoodSelf DEF KillToEnd
<1>7. Safe(e, KillWord(e), w)
  <2> DEFINE S == {0} \cup {k \in 1..c : e.buf[k] \notin Blanks}
             ink == Greatest(S)
             from == Greatest({0} \cup {k \in 1..ink : e.buf[k] \in Blanks})
  <2>1. S \subseteq 0 .. c /\ S # {} /\ c \in Nat
      BY <1>1
  <2>2. ink \in 0 .. c
    <3> HIDE DEF S
    <3> QED
        BY <2>1, GreatestIn
  <2>3. ink \in 0 .. Len(e.buf)
      BY <1>1, <2>2
  <2> HIDE DEF ink
  <2>4. Line(e.buf, from, w) /\ from <= ink
      BY <1>1, <2>3, BlankPlace
  <2>5. from \in Nat
      BY <1>1, <2>4 DEF Line
  <2> HIDE DEF from
  <2>6. from <= c
      BY <1>1, <2>2, <2>4, <2>5
  <2>7. Safe(e, Drain(e, from, c), w) /\ Text(SubSeq(e.buf, from + 1, c), w)
      BY <1>1, <2>4, <2>6, DrainSafe, LineBetween
  <2>8. Safe(e, Redraw([Drain(e, from, c) EXCEPT !.kill = SubSeq(e.buf, from + 1, c)]), w)
      BY <2>7, KillSafe, RedrawSafe
  <2>9. \/ KillWord(e) = e
        \/ KillWord(e) = Redraw([Drain(e, from, c) EXCEPT !.kill = SubSeq(e.buf, from + 1, c)])
      BY Zenon DEF KillWord, from, ink
  <2> QED
      BY <2>8, <2>9, GoodSelf
<1> QED
    BY <1>5, <1>6, <1>7

LEMMA YankSafe == ASSUME NEW w, NEW e, Good(e, w) PROVE Safe(e, Yank(e), w)
<1> DEFINE a == Take(e.buf, e.cursor)
           b == Drop(e.buf, e.cursor)
           t == a \o e.kill \o b
           n == e.cursor + Len(e.kill)
           f == [e EXCEPT !.buf = t, !.cursor = @ + Len(e.kill), !.histPos = 0]
<1>1. Text(a, w) /\ Len(a) = e.cursor /\ Text(b, w) /\ Text(e.kill, w)
    BY LineCut DEF Good, Kept
<1>2. Text(a \o e.kill, w) /\ Len(a \o e.kill) = n
    BY <1>1, TextConcat
<1>3. Line(t, n, w)
    BY <1>1, <1>2, TextConcat
<1> HIDE DEF t, n
<1>4. Relined(e, f) /\ f.buf = t /\ f.cursor = n
    BY DEF Good, Kept, Relined, Fields, n
<1> HIDE DEF f
<1>5. Safe(e, Redraw(f), w)
    BY <1>3, <1>4, RelinedSafe, RedrawSafe
<1>6. Yank(e) = e \/ Yank(e) = Redraw(f)
    BY DEF Yank, f, t
<1> QED
    BY <1>5, <1>6, GoodSelf

LEMMA ClearLineSafe ==
    ASSUME NEW w, NEW e, Good(e, w)
    PROVE  /\ Safe(e, ClearLine(e), w) /\ ClearLine(e).history = e.history
           /\ ClearLine(e).search = e.search /\ ClearLine(e).histPos = 0
<1> DEFINE f == ClearLine(e)
<1>1. /\ Fields \subseteq DOMAIN f /\ f.kill = e.kill /\ f.buf = <<>> /\ f.cursor = 0
      /\ f.stash = <<>> /\ f.history = e.history /\ f.histPos = 0
      /\ f.esc = e.esc /\ f.search = e.search /\ f.cut = e.cut
    BY DEF Good, Kept, Fields, ClearLine
<1>2. Text(<<>>, w) /\ Line(<<>>, 0, w)
    BY TextEmpty, LineEnds
<1>3. 0 \in 0 .. Len(e.history)
    BY DEF Good, Kept, Remembered
<1> HIDE DEF f
<1> QED
    BY <1>1, <1>2, <1>3 DEF Safe, Good, Kept, f

LEMMA InterruptSafe == ASSUME NEW w, NEW e, Good(e, w) PROVE Safe(e, Interrupt(e), w)
BY ClearLineSafe, RedrawSafe DEF Interrupt

LEMMA CtrlDSafe == ASSUME NEW w, NEW e, Good(e, w) PROVE Safe(e, CtrlD(e), w)
<1> DEFINE f == [e EXCEPT !.open = FALSE]
<1>1. Relined(e, f) /\ f.buf = e.buf /\ f.cursor = e.cursor
    BY DEF Good, Kept, Relined, Fields
<1> HIDE DEF f
<1>2. Safe(e, f, w)
    BY <1>1, RelinedSafe DEF Good
<1> QED
    BY <1>2, DeleteForwardSafe DEF CtrlD, f

-----------------------------------------------------------------------------
(* History. *)
LEMMA PushHistoryKept ==
    ASSUME NEW w, NEW h, Remembered(h, w), NEW line, Text(line, w)
    PROVE  Remembered(PushHistory(h, line), w)
<1> DEFINE t == Trim(line)
           all == Append(h, t)
           n == IF Len(all) > MaxHistory THEN Len(all) - MaxHistory ELSE 0
<1>1. Text(t, w)
    BY TrimText
<1> HIDE DEF t
<1>2. h \in Seq(Strings) /\ Len(h) \in Nat /\ t \in Strings
    BY <1>1 DEF Remembered, Text
<1>3. /\ all \in Seq(Strings) /\ Len(all) = Len(h) + 1 /\ all[Len(h) + 1] = t
      /\ \A i \in 1 .. Len(h) : all[i] = h[i]
    BY <1>2
<1>4. \A i \in 1 .. Len(all) : Text(all[i], w)
  <2> TAKE i \in 1 .. Len(all)
  <2>1. i \in 1 .. Len(h) \/ i = Len(h) + 1
      BY <1>2, <1>3
  <2> HIDE DEF all
  <2> QED
      BY <1>1, <1>3, <2>1 DEF Remembered
<1> HIDE DEF all
<1>5. n \in 0 .. Len(all) /\ Len(all) - n <= MaxHistory
    BY <1>2, <1>3, LineBounds
<1> HIDE DEF n
<1>6. /\ Drop(all, n) \in Seq(Strings) /\ Len(Drop(all, n)) = Len(all) - n
      /\ \A i \in 1 .. (Len(all) - n) : Drop(all, n)[i] = all[n + i]
    BY <1>3, <1>5, CutParts
<1>7. \A i \in 1 .. (Len(all) - n) : n + i \in 1 .. Len(all)
    BY <1>2, <1>3, <1>5
<1>8. Remembered(Drop(all, n), w)
    BY <1>4, <1>5, <1>6, <1>7 DEF Remembered
<1>9. PushHistory(h, line) = h \/ PushHistory(h, line) = Drop(all, n)
    BY DEF PushHistory, all, n, t
<1> QED
    BY <1>8, <1>9

LEMMA SubmitSafe ==
    ASSUME NEW w, NEW e, Good(e, w), e.search = <<>>
    PROVE  Safe(e, Submit(e), w)
<1> DEFINE c == ClearLine(e)
           h == PushHistory(c.history, Lossy(e.buf))
           f == [c EXCEPT !.history = PushHistory(@, Lossy(e.buf))]
<1>1. Safe(e, c, w) /\ c.history = e.history /\ c.search = <<>> /\ c.histPos = 0
    BY ClearLineSafe
<1>2. Text(Lossy(e.buf), w)
    BY LossySound, SoundText DEF Good, Line, Text
<1>3. Remembered(h, w)
    BY <1>1, <1>2, PushHistoryKept DEF Good, Kept
<1> HIDE DEF c
<1>4. /\ Fields \subseteq DOMAIN f /\ f.kill = c.kill /\ f.buf = c.buf /\ f.cursor = c.cursor
      /\ f.stash = c.stash /\ f.history = h /\ f.histPos = c.histPos
      /\ f.esc = c.esc /\ f.search = c.search /\ f.cut = c.cut
    BY <1>1 DEF Safe, Good, Kept, Fields
<1> HIDE DEF f, h
<1>5. 0 \in 0 .. Len(h)
    BY <1>3 DEF Remembered
<1>6. Found(<<>>, h)
    BY DEF Found, Searches
<1>7. Safe(e, f, w)
    BY <1>1, <1>3, <1>4, <1>5, <1>6 DEF Safe, Good, Kept
<1>8. Submit(e) = Redraw(f)
    BY DEF Submit, f, c
<1> QED
    BY <1>7, <1>8, RedrawSafe

LEMMA RecallSafe ==
    ASSUME NEW w, NEW e, Good(e, w), NEW i \in 1 .. Len(e.history)
    PROVE  Safe(e, Recall(e, i), w)
<1> DEFINE t == e.history[i]
           f == [e EXCEPT !.histPos = i, !.buf = t, !.cursor = Len(t)]
<1>1. Text(t, w) /\ i \in 0 .. Len(e.history)
    BY DEF Good, Kept, Remembered
<1>2. Recall(e, i) = Redraw(f)
    BY DEF Recall
<1> HIDE DEF t
<1>3. /\ Fields \subseteq DOMAIN f /\ f.kill = e.kill /\ f.buf = t /\ f.cursor = Len(t)
      /\ f.stash = e.stash /\ f.history = e.history /\ f.histPos = i
      /\ f.esc = e.esc /\ f.search = e.search /\ f.cut = e.cut
    BY DEF Good, Kept, Fields
<1> HIDE DEF f
<1>4. Line(t, Len(t), w)
    BY <1>1, LineEnds
<1>5. Safe(e, f, w)
    BY <1>1, <1>3, <1>4 DEF Safe, Good, Kept
<1> QED
    BY <1>2, <1>5, RedrawSafe

LEMMA HistoryPrevSafe == ASSUME NEW w, NEW e, Good(e, w) PROVE Safe(e, HistoryPrev(e), w)
<1> DEFINE n == Len(e.history)
           s == [e EXCEPT !.stash = e.buf]
<1>1. n \in Nat /\ e.histPos \in 0 .. n /\ e.history \in Seq(Strings)
    BY DEF Good, Kept, Remembered
<1>2. /\ Fields \subseteq DOMAIN s /\ s.kill = e.kill /\ s.buf = e.buf /\ s.cursor = e.cursor
      /\ s.stash = e.buf /\ s.history = e.history /\ s.histPos = e.histPos
      /\ s.esc = e.esc /\ s.search = e.search /\ s.cut = e.cut
    BY DEF Good, Kept, Fields
<1>3. CASE e.history = <<>> \/ e.histPos = 1
  <2>1. HistoryPrev(e) = e
      BY <1>1, <1>3 DEF HistoryPrev
  <2> QED
      BY <2>1, GoodSelf
<1>4. CASE e.history # <<>> /\ e.histPos = 0
  <2>1. HistoryPrev(e) = Recall(s, n)
      BY <1>4 DEF HistoryPrev
  <2> HIDE DEF s
  <2>2. Safe(e, s, w)
      BY <1>2 DEF Safe, Good, Kept, Line
  <2>3. n \in 1 .. Len(s.history)
      BY <1>1, <1>2, <1>4
  <2> QED
      BY <2>1, <2>2, <2>3, RecallSafe DEF Safe
<1>5. CASE e.history # <<>> /\ e.histPos > 1
  <2>1. HistoryPrev(e) = Recall(e, e.histPos - 1)
      BY <1>5, <1>1 DEF HistoryPrev
  <2>2. e.histPos - 1 \in 1 .. n
      BY <1>1, <1>5
  <2> QED
      BY <2>1, <2>2, RecallSafe
<1> QED
    BY <1>1, <1>3, <1>4, <1>5

LEMMA HistoryNextSafe == ASSUME NEW w, NEW e, Good(e, w) PROVE Safe(e, HistoryNext(e), w)
<1> DEFINE n == Len(e.history)
           f == [e EXCEPT !.histPos = 0, !.buf = e.stash, !.cursor = Len(e.stash), !.stash = <<>>]
<1>1. n \in Nat /\ e.histPos \in 0 .. n
    BY DEF Good, Kept, Remembered
<1>2. /\ Fields \subseteq DOMAIN f /\ f.kill = e.kill /\ f.buf = e.stash /\ f.cursor = Len(e.stash)
      /\ f.stash = <<>> /\ f.history = e.history /\ f.histPos = 0
      /\ f.esc = e.esc /\ f.search = e.search /\ f.cut = e.cut
    BY DEF Good, Kept, Fields
<1>3. CASE e.histPos = 0
  <2>1. HistoryNext(e) = e
      BY <1>3 DEF HistoryNext
  <2> QED
      BY <2>1, GoodSelf
<1>4. CASE e.histPos > 0 /\ e.histPos < n
  <2>1. HistoryNext(e) = Recall(e, e.histPos + 1)
      BY <1>4, <1>1 DEF HistoryNext
  <2>2. e.histPos + 1 \in 1 .. n
      BY <1>1, <1>4
  <2> QED
      BY <2>1, <2>2, RecallSafe
<1>5. CASE e.histPos # 0 /\ ~(e.histPos > 0 /\ e.histPos < n)
  <2>1. HistoryNext(e) = Redraw(f)
      BY <1>5 DEF HistoryNext
  <2> HIDE DEF f
  <2>2. Text(e.stash, w)
      BY DEF Good, Kept
  <2>3. Line(e.stash, Len(e.stash), w) /\ Text(<<>>, w) /\ 0 \in 0 .. n
      BY <1>1, <2>2, LineEnds, TextEmpty
  <2>4. Safe(e, f, w)
      BY <1>2, <2>3 DEF Safe, Good, Kept
  <2> QED
      BY <2>1, <2>4, RedrawSafe
<1> QED
    BY <1>3, <1>4, <1>5

-----------------------------------------------------------------------------
(* Reverse search. *)
LEMMA FoundSafe ==
    ASSUME NEW w, NEW e, NEW f, Good(e, w), Fields \subseteq DOMAIN f,
           \A x \in Fields \ {"scr", "search"} : f[x] = e[x],
           Found(f.search, e.history)
    PROVE  Safe(e, f, w) /\ f.esc = e.esc
<1>1. /\ f.kill = e.kill /\ f.buf = e.buf /\ f.cursor = e.cursor
      /\ f.stash = e.stash /\ f.history = e.history /\ f.histPos = e.histPos
      /\ f.esc = e.esc /\ f.cut = e.cut
    BY DEF Fields
<1> QED
    BY <1>1 DEF Safe, Good, Kept

LEMMA StartSearchSafe == ASSUME NEW w, NEW e, Good(e, w) PROVE Safe(e, StartSearch(e), w)
<1> DEFINE r == [query |-> <<>>, matched |-> 0]
           s == <<r>>
           f == [e EXCEPT !.search = s]
           g == RenderSearch(f)
<1>1. r \in [query : Strings, matched : Nat] /\ r.matched = 0
    BY SoundEmpty
<1> HIDE DEF r
<1>2. s \in Searches /\ Len(s) = 1 /\ s[1] = r
    BY <1>1 DEF Searches
<1>3. Len(e.history) \in Nat
    BY DEF Good, Kept, Remembered
<1> HIDE DEF s
<1>4. Found(s, e.history)
    BY <1>1, <1>2, <1>3 DEF Found
<1>5. Fields \subseteq DOMAIN f /\ f.search = s /\ \A x \in Fields \ {"search"} : f[x] = e[x]
    BY DEF Good, Kept, Fields
<1> HIDE DEF f
<1>6. Fields \subseteq DOMAIN g /\ g.search = s /\ \A x \in Fields \ {"scr", "search"} : g[x] = e[x]
    BY <1>5, RenderFields DEF Fields
<1> HIDE DEF g
<1>7. Safe(e, g, w)
    BY <1>4, <1>6, FoundSafe
<1>8. StartSearch(e) = g
    BY DEF StartSearch, g, f, s, r
<1> QED
    BY <1>7, <1>8

LEMMA FindMatchFinds ==
    ASSUME NEW w, NEW e, Good(e, w), NEW before \in 1 .. Len(e.history) + 1, NEW query
    PROVE  LET m == FindMatch(e, before, query)
           IN  m \in 0 .. Len(e.history) /\ (m # 0 => Includes(e.history[m], query))
<1> DEFINE n == Len(e.history)
           k == Least(before - 1, n)
           S == {0} \cup {i \in 1..k : Includes(e.history[i], query)}
           m == FindMatch(e, before, query)
<1>1. n \in Nat
    BY DEF Good, Kept, Remembered
<1>2. k \in 0 .. n
    BY <1>1 DEF Least
<1>3. m = 0 \/ m = Greatest(S)
    BY DEF FindMatch
<1> HIDE DEF k
<1>4. S \subseteq 0 .. n /\ S # {} /\ 0 \in 0 .. n
    BY <1>1, <1>2
<1>5. Greatest(S) \in S
  <2> HIDE DEF S, n
  <2> QED
      BY <1>1, <1>4, GreatestIn
<1>6. \A i \in S : i \in 0 .. n /\ (i # 0 => Includes(e.history[i], query))
    BY <1>4
<1> HIDE DEF S, m, n
<1>7. m \in 0 .. n /\ (m # 0 => Includes(e.history[m], query))
    BY <1>3, <1>4, <1>5, <1>6
<1> QED
    BY <1>7 DEF m, n

(* While a search is open there is one query, and its match. *)
LEMMA SearchOpen ==
    ASSUME NEW w, NEW e, Good(e, w), e.search # <<>>
    PROVE  /\ Len(e.history) \in Nat /\ e.search \in Searches /\ Len(e.search) = 1
           /\ e.search[1] \in [query : Strings, matched : Nat]
           /\ e.search[1].matched <= Len(e.history)
<1> DEFINE s == e.search
           R == [query : Strings, matched : Nat]
<1>1. Len(e.history) \in Nat
    BY DEF Good, Kept, Remembered
<1>2. Found(s, e.history)
    BY DEF Good, Kept
<1>3. s # <<>>
    OBVIOUS
<1> HIDE DEF s
<1>4. s \in Seq(R) /\ Len(s) <= 1
    BY <1>2 DEF Found, Searches
<1> HIDE DEF R
<1>5. Len(s) = 1 /\ s[1] \in R
  <2>1. Len(s) \in Nat \ {0}
      BY <1>3, <1>4, EmptySeq
  <2> DEFINE l == Len(s)
  <2>a. l \in Nat /\ l # 0 /\ l <= 1
      BY <1>4, <2>1, Zenon
  <2>2. Len(s) = 1
    <3> HIDE DEF l
    <3>1. l = 1
        BY <2>a
    <3> QED
        BY <3>1 DEF l
  <2>3. 1 \in 1 .. Len(s)
      BY <2>2
  <2>4. s[1] \in R
      BY <1>4, <2>3, ElementOfSeq, Zenon
  <2> QED
      BY <2>2, <2>4
<1>6. s[1].matched <= Len(e.history)
    BY <1>2, <1>5 DEF Found
<1> QED
    BY <1>1, <1>2, <1>5, <1>6 DEF s, R, Found

LEMMA SearchForSafe ==
    ASSUME NEW w, NEW e, Good(e, w), e.search # <<>>, NEW query \in Strings
    PROVE  /\ Safe(e, SearchFor(e, query), w) /\ SearchFor(e, query).search # <<>>
           /\ SearchFor(e, query).esc = e.esc
<1> DEFINE n == Len(e.history)
           m == FindMatch(e, n + 1, query)
           r == [query |-> query, matched |-> m]
           f == [e EXCEPT !.search[1] = r]
           g == RenderSearch(f)
<1>1. n \in Nat /\ e.search \in Searches /\ Len(e.search) = 1
    BY SearchOpen
<1>2. n + 1 \in 1 .. Len(e.history) + 1
    BY <1>1
<1>3. m \in 0 .. n /\ (m # 0 => Includes(e.history[m], query))
    BY <1>2, FindMatchFinds, Zenon
<1> HIDE DEF m
<1>4. r \in [query : Strings, matched : Nat] /\ r.matched = m /\ r.query = query
    BY <1>1, <1>3
<1>5. SearchFor(e, query) = g
    BY DEF SearchFor, m
<1> HIDE DEF r
<1> DEFINE s == [e.search EXCEPT ![1] = r]
<1>6. s \in Searches /\ Len(s) = 1 /\ s[1] = r
    BY <1>1, <1>4 DEF Searches
<1>7. Fields \subseteq DOMAIN f /\ f.search = s /\ \A x \in Fields \ {"search"} : f[x] = e[x]
    BY DEF Good, Kept, Fields
<1> HIDE DEF s, f
<1>8. Found(s, e.history)
    BY <1>1, <1>3, <1>4, <1>6 DEF Found
<1>9. Fields \subseteq DOMAIN g /\ g.search = s /\ \A x \in Fields \ {"scr", "search"} : g[x] = e[x]
    BY <1>7, RenderFields DEF Fields
<1> HIDE DEF g
<1>10. Safe(e, g, w) /\ g.esc = e.esc
    BY <1>8, <1>9, FoundSafe
<1>11. s # <<>>
    BY <1>6
<1> QED
    BY <1>5, <1>9, <1>10, <1>11

LEMMA SearchStepSafe ==
    ASSUME NEW w, NEW e, Good(e, w), e.search # <<>>
    PROVE  Safe(e, SearchStep(e), w)
<1> DEFINE n == Len(e.history)
           r == e.search[1]
           from == IF r.matched = 0 THEN n + 1 ELSE r.matched
           m == FindMatch(e, from, r.query)
           f == [e EXCEPT !.search[1].matched = m]
<1>1. n \in Nat /\ e.search \in Searches /\ Len(e.search) = 1
    BY SearchOpen
<1>2. r \in [query : Strings, matched : Nat] /\ r.matched <= n
    BY SearchOpen
<1>3. from \in 1 .. Len(e.history) + 1
    BY <1>1, <1>2
<1> HIDE DEF from
<1>4. m \in 0 .. n /\ (m # 0 => Includes(e.history[m], r.query))
    BY <1>3, FindMatchFinds, Zenon
<1>5. \/ SearchStep(e) = RenderSearch(e)
      \/ SearchStep(e) = RenderSearch(f)
    BY DEF SearchStep, from
<1> HIDE DEF m
<1> DEFINE q == [r EXCEPT !.matched = m]
           s == [e.search EXCEPT ![1] = q]
<1>6. q \in [query : Strings, matched : Nat] /\ q.matched = m /\ q.query = r.query
    BY <1>1, <1>2, <1>4
<1>7. Fields \subseteq DOMAIN f /\ f.search = s /\ \A x \in Fields \ {"search"} : f[x] = e[x]
    BY DEF Good, Kept, Fields
<1> HIDE DEF q, f, r
<1>8. s \in Searches /\ Len(s) = 1 /\ s[1] = q
    BY <1>1, <1>6 DEF Searches
<1> HIDE DEF s
<1>9. Found(s, e.history) /\ Found(e.search, e.history)
    BY <1>1, <1>4, <1>6, <1>8 DEF Found, Good, Kept
<1>10. Safe(e, RenderSearch(f), w)
  <2> DEFINE g == RenderSearch(f)
  <2>1. Fields \subseteq DOMAIN g /\ g.search = s /\ \A x \in Fields \ {"scr", "search"} : g[x] = e[x]
      BY <1>7, RenderFields DEF Fields
  <2> HIDE DEF g
  <2> QED
      BY <1>9, <2>1, FoundSafe DEF g
<1>11. Safe(e, RenderSearch(e), w)
  <2> DEFINE g == RenderSearch(e)
  <2>1. Fields \subseteq DOMAIN g /\ g.search = e.search
        /\ \A x \in Fields \ {"scr", "search"} : g[x] = e[x]
      BY RenderFields DEF Fields, Good, Kept
  <2> HIDE DEF g
  <2> QED
      BY <1>9, <2>1, FoundSafe DEF g
<1> QED
    BY <1>5, <1>10, <1>11

-----------------------------------------------------------------------------
(* Completion. *)
LEMMA ApplyCompletionSafe ==
    ASSUME NEW w, NEW e, Good(e, w), NEW text, Text(text, w), NEW space
    PROVE  Safe(e, ApplyCompletion(e, text, space), w)
<1> DEFINE start == WordStartAt(e)
           last == IF space THEN <<"sp">> ELSE <<>>
           head == Take(e.buf, start) \o text \o last
           tail == Drop(e.buf, e.cursor)
           room == IF MaxBuffer > Len(head) THEN MaxBuffer - Len(head) ELSE 0
           top == Least(room, Len(tail))
           keep == Greatest({k \in 0..top : Boundary(tail, k)})
           t == head \o Take(tail, keep)
           f == [e EXCEPT !.buf = t, !.cursor = Len(head)]
<1>1. Line(e.buf, e.cursor, w) /\ Text(e.buf, w) /\ e.cursor \in 0 .. Len(e.buf)
    BY DEF Good, Line
<1>2. Line(e.buf, start, w)
    BY <1>1, BlankPlace DEF WordStartAt
<1>0. ApplyCompletion(e, text, space) = Redraw(f)
    BY Zenon DEF ApplyCompletion
<1> HIDE DEF start
<1>3. Text(last, w)
  <2>1. "sp" \in Bytes \ (Leads \cup Continuation)
      BY DEF Bytes, Printable, Leads, Continuation
  <2>2. Text(<<"sp">>, w)
      BY <2>1, SoundByte, SoundText
  <2> QED
      BY <2>2, TextEmpty
<1> HIDE DEF last
<1>4. Text(head, w)
  <2>1. Text(Take(e.buf, start), w)
      BY <1>2, LineCut
  <2>2. Text(Take(e.buf, start) \o text, w)
      BY <2>1, TextConcat
  <2> QED
      BY <1>3, <2>2, TextConcat
<1>5. Text(tail, w)
    BY <1>1, LineCut
<1>6. Len(head) \in Nat /\ Len(tail) \in Nat
    BY <1>4, <1>5, TextLen
<1> HIDE DEF head, tail
<1>7. top \in 0 .. Len(tail)
    BY <1>6, LineBounds DEF Least
<1> HIDE DEF top
<1>8. Line(tail, keep, w)
    BY <1>5, <1>7, FitPlace
<1> HIDE DEF keep
<1>9. Line(t, Len(head), w)
    BY <1>4, <1>8, LineCut, TextConcat
<1> HIDE DEF t
<1>10. Relined(e, f) /\ f.buf = t /\ f.cursor = Len(head)
    BY DEF Good, Kept, Relined, Fields
<1> HIDE DEF f
<1> QED
    BY <1>0, <1>9, <1>10, RelinedSafe, RedrawSafe

LEMMA CompleteCurrentWordSafe ==
    ASSUME NEW w, NEW e, Good(e, w)
    PROVE  Safe(e, CompleteCurrentWord(e), w)
<1> DEFINE start == WordStartAt(e)
           word == Lossy(SubSeq(e.buf, start + 1, e.cursor))
           done == Complete(word, \A i \in 1..start : e.buf[i] \in Blanks)
<1>0. CompleteCurrentWord(e) =
        CASE done.kind = "none" -> e
          [] done.kind = "single" -> ApplyCompletion(e, done.text, done.space)
          [] done.kind = "listing" -> Redraw(e)
    BY Zenon DEF CompleteCurrentWord
<1>1. Line(e.buf, e.cursor, w) /\ Text(e.buf, w) /\ e.cursor \in 0 .. Len(e.buf)
    BY DEF Good, Line
<1>2. Line(e.buf, start, w) /\ start <= e.cursor
    BY <1>1, BlankPlace DEF WordStartAt
<1> HIDE DEF start
<1>3. Text(SubSeq(e.buf, start + 1, e.cursor), w)
    BY <1>1, <1>2, LineBetween
<1>4. Text(word, w)
    BY <1>3, LossySound, SoundText DEF Text
<1> HIDE DEF word
<1>5. Outcome(done, w)
    BY <1>4, CompleteOutcome
<1> HIDE DEF done
<1>6. CASE done.kind = "none"
    BY <1>0, <1>6, GoodSelf
<1>7. CASE done.kind = "single"
  <2>1. Text(done.text, w)
      BY <1>5, <1>7 DEF Outcome
  <2> QED
      BY <1>0, <1>7, <2>1, ApplyCompletionSafe
<1>8. CASE done.kind = "listing"
    BY <1>0, <1>8, GoodSelf, RedrawSafe
<1> QED
    BY <1>5, <1>6, <1>7, <1>8 DEF Outcome

-----------------------------------------------------------------------------
(* The cap.  Once it has cut, w is "cut". *)
Mode(e, w) == e.cut \/ w = "whole"

Settled(e, f, w) == \E v : Good(f, v) /\ (Mode(e, w) => Mode(f, v))

HalfSettled(e, f, w) == \E v : Half(f, v) /\ (Mode(e, w) => Mode(f, v))

LEMMA SafeSettled == ASSUME NEW w, NEW e, NEW f, Safe(e, f, w) PROVE Settled(e, f, w)
BY Zenon DEF Safe, Settled, Mode

LEMMA SettledAfter ==
    ASSUME NEW w, NEW v, NEW e, NEW f, NEW g, Mode(e, w) => Mode(f, v), Safe(f, g, v)
    PROVE  Settled(e, g, w)
BY Zenon DEF Safe, Settled, Mode

LEMMA KeptCut ==
    ASSUME NEW w, NEW e, Kept(e, w) PROVE Kept(e, "cut")
<1>1. "cut" # "whole"
    OBVIOUS
<1>2. \A s : Text(s, w) => Text(s, "cut")
    BY <1>1 DEF Text
<1>3. Remembered(e.history, "cut")
    BY <1>2 DEF Kept, Remembered
<1> QED
    BY <1>2, <1>3 DEF Kept

LEMMA LinesCut ==
    ASSUME NEW s \in Strings, NEW n \in 0 .. Len(s), Clean(s), Boundary(s, n)
    PROVE  Line(s, n, "cut") /\ (Len(s) >= MaxBuffer => HalfLine(s, n, "cut"))
<1>1. "cut" # "whole"
    OBVIOUS
<1> QED
    BY <1>1 DEF Line, HalfLine, Text

(* A byte that does not fit is dropped, and the line is cut. *)
LEMMA InsertFull ==
    ASSUME NEW w, NEW e, Kept(e, w), e.buf \in Strings, e.cursor \in 0 .. Len(e.buf), NEW b,
           Clean(e.buf), Boundary(e.buf, e.cursor), Len(e.buf) >= MaxBuffer
    PROVE  /\ Settled(e, Insert(e, b), w) /\ HalfSettled(e, Insert(e, b), w)
           /\ Insert(e, b).esc = e.esc /\ Insert(e, b).search = e.search
<1> DEFINE f == [e EXCEPT !.cut = TRUE]
<1>1. Insert(e, b) = f
    BY DEF Insert
<1>2. /\ Fields \subseteq DOMAIN f /\ f.kill = e.kill /\ f.buf = e.buf /\ f.cursor = e.cursor
      /\ f.stash = e.stash /\ f.history = e.history /\ f.histPos = e.histPos
      /\ f.esc = e.esc /\ f.search = e.search
    BY DEF Kept, Fields
<1>3. f.cut = TRUE
    BY DEF Kept, Fields
<1> HIDE DEF f
<1>4. Kept(f, "cut")
    BY <1>2, KeptCut DEF Kept
<1>5. Good(f, "cut") /\ Half(f, "cut")
    BY <1>2, <1>4, LinesCut DEF Good, Half
<1>6. Mode(f, "cut")
    BY <1>3, Zenon DEF Mode
<1>7. Settled(e, f, w) /\ HalfSettled(e, f, w)
    BY <1>5, <1>6, Zenon DEF Settled, HalfSettled
<1> QED
    BY <1>1, <1>2, <1>7

(* Any other is put before the cursor. *)
LEMMA InsertFits ==
    ASSUME NEW w, NEW e, Kept(e, w), NEW b, ~(Len(e.buf) >= MaxBuffer)
    PROVE  LET f == Insert(e, b)
           IN  /\ Kept(f, w) /\ f.cut = e.cut /\ f.esc = e.esc /\ f.search = e.search
               /\ f.buf = Take(e.buf, e.cursor) \o <<b>> \o Drop(e.buf, e.cursor)
               /\ f.cursor = e.cursor + 1
<1> DEFINE t == Take(e.buf, e.cursor) \o <<b>> \o Drop(e.buf, e.cursor)
           n == [e EXCEPT !.buf = t, !.cursor = @ + 1, !.histPos = 0]
           f == Insert(e, b)
<1>1. f = AppendByte(n, b) \/ f = Redraw(n)
    BY DEF Insert
<1> HIDE DEF t
<1>2. Relined(e, n) /\ n.buf = t /\ n.cursor = e.cursor + 1 /\ n.histPos = 0
    BY DEF Relined, Kept, Fields
<1> HIDE DEF n
<1>3. Relined(n, f) /\ f.buf = n.buf /\ f.cursor = n.cursor
  <2>1. CASE f = Redraw(n)
    <3> HIDE DEF f
    <3> QED
        BY <1>2, <2>1, RedrawFields DEF Relined
  <2>2. CASE f = AppendByte(n, b)
    <3> HIDE DEF f
    <3> QED
        BY <1>2, <2>2 DEF AppendByte, Relined, Fields
  <2> QED
      BY <1>1, <2>1, <2>2
<1> HIDE DEF f
<1>4. Kept(n, w) /\ n.cut = e.cut
    BY <1>2, RelinedKept
<1>5. Kept(f, w) /\ f.cut = e.cut
    BY <1>3, <1>4, RelinedKept
<1>6. f.esc = e.esc /\ f.search = e.search
    BY <1>2, <1>3 DEF Relined
<1> QED
    BY <1>2, <1>3, <1>5, <1>6 DEF f, t

LEMMA ConcatParts ==
    ASSUME NEW S, NEW a \in Seq(S), NEW z \in Seq(S)
    PROVE  /\ a \o z \in Seq(S) /\ Len(a \o z) = Len(a) + Len(z)
           /\ Len(a) \in Nat /\ Len(z) \in Nat
           /\ \A i \in 1 .. Len(a) : (a \o z)[i] = a[i]
           /\ \A i \in 1 .. Len(z) : (a \o z)[Len(a) + i] = z[i]
OBVIOUS

LEMMA InsertParts ==
    ASSUME NEW S, NEW a \in Seq(S), NEW b \in S, NEW z \in Seq(S)
    PROVE  /\ (a \o <<b>>) \o z \in Seq(S) /\ Len((a \o <<b>>) \o z) = Len(a) + 1 + Len(z)
           /\ ((a \o <<b>>) \o z)[Len(a) + 1] = b
           /\ \A i \in 1 .. Len(a) : ((a \o <<b>>) \o z)[i] = a[i]
           /\ \A i \in 1 .. Len(z) : ((a \o <<b>>) \o z)[Len(a) + 1 + i] = z[i]
           /\ Len(a) \in Nat /\ Len(z) \in Nat
<1> DEFINE l == a \o <<b>>
           t == l \o z
           m == Len(a)
<1>2. l \in Seq(S) /\ Len(l) = m + 1 /\ m \in Nat /\ l[m + 1] = b /\ \A i \in 1 .. m : l[i] = a[i]
    OBVIOUS
<1>3. l \in Seq(S)
    OBVIOUS
<1> HIDE DEF l
<1>4. /\ t \in Seq(S) /\ Len(t) = Len(l) + Len(z) /\ Len(z) \in Nat
      /\ \A i \in 1 .. Len(l) : t[i] = l[i]
      /\ \A i \in 1 .. Len(z) : t[Len(l) + i] = z[i]
    BY <1>3, ConcatParts
<1> HIDE DEF t, m
<1>5. m + 1 \in 1 .. Len(l) /\ \A i \in 1 .. m : i \in 1 .. Len(l)
    BY <1>2
<1>6. t[m + 1] = b /\ \A i \in 1 .. m : t[i] = a[i]
    BY <1>2, <1>4, <1>5
<1>7. Len(t) = m + 1 + Len(z) /\ \A i \in 1 .. Len(z) : t[m + 1 + i] = z[i]
    BY <1>2, <1>4
<1> QED
    BY <1>2, <1>4, <1>6, <1>7 DEF t, m, l

LEMMA InsertByte ==
    ASSUME NEW w, NEW e, Good(e, w), NEW b \in Bytes \ (Leads \cup Continuation)
    PROVE  Settled(e, Insert(e, b), w)
<1>1. Line(e.buf, e.cursor, w) /\ Kept(e, w)
    BY DEF Good
<1>2. /\ e.buf \in Strings /\ e.cursor \in 0 .. Len(e.buf)
      /\ Clean(e.buf) /\ Boundary(e.buf, e.cursor)
    BY <1>1 DEF Line, Text
<1>3. CASE Len(e.buf) >= MaxBuffer
    BY <1>1, <1>2, <1>3, InsertFull
<1>4. CASE ~(Len(e.buf) >= MaxBuffer)
  <2> DEFINE a == Take(e.buf, e.cursor)
             z == Drop(e.buf, e.cursor)
             f == Insert(e, b)
  <2>1. Text(a, w) /\ Len(a) = e.cursor /\ Text(z, w)
      BY <1>1, LineCut
  <2>2. Text(<<b>>, w) /\ Len(<<b>>) = 1
      BY SoundByte, SoundText
  <2>3. Text(a \o <<b>>, w) /\ Len(a \o <<b>>) = e.cursor + 1
      BY <2>1, <2>2, TextConcat
  <2>4. Line(a \o <<b>> \o z, e.cursor + 1, w)
      BY <2>1, <2>3, TextConcat
  <2>5. /\ Kept(f, w) /\ f.cut = e.cut
        /\ f.buf = a \o <<b>> \o z /\ f.cursor = e.cursor + 1
      BY <1>1, <1>4, InsertFits, Zenon
  <2> HIDE DEF f
  <2>6. Safe(e, f, w)
      BY <2>4, <2>5, Zenon DEF Safe, Good
  <2> QED
      BY <2>6, SafeSettled DEF f
<1> QED
    BY <1>3, <1>4

LEMMA InsertLead ==
    ASSUME NEW w, NEW e, Good(e, w)
    PROVE  /\ HalfSettled(e, Insert(e, "L"), w)
           /\ Insert(e, "L").esc = e.esc /\ Insert(e, "L").search = e.search
<1>1. Line(e.buf, e.cursor, w) /\ Kept(e, w)
    BY DEF Good
<1>2. e.buf \in Strings /\ e.cursor \in 0 .. Len(e.buf) /\ Len(e.buf) \in Nat
    BY <1>1 DEF Line, Text, Strings
<1>a. Clean(e.buf) /\ Boundary(e.buf, e.cursor)
    BY <1>1 DEF Line, Text
<1>3. CASE Len(e.buf) >= MaxBuffer
    BY <1>1, <1>2, <1>3, <1>a, InsertFull
<1>4. CASE ~(Len(e.buf) >= MaxBuffer)
  <2> DEFINE a == Take(e.buf, e.cursor)
             z == Drop(e.buf, e.cursor)
             f == Insert(e, "L")
             t == a \o <<"L">> \o z
             n == e.cursor
  <2>1. Text(a, w) /\ Len(a) = n /\ Text(z, w) /\ Len(z) = Len(e.buf) - n /\ n \in Nat
      BY <1>1, <1>2, LineCut
  <2>2. a \in Seq(Bytes) /\ z \in Seq(Bytes) /\ "L" \in Bytes
      BY <2>1 DEF Text, Strings, Bytes, Printable
  <2>3. /\ Kept(f, w) /\ f.cut = e.cut /\ f.esc = e.esc /\ f.search = e.search
        /\ f.buf = t /\ f.cursor = n + 1
      BY <1>1, <1>4, InsertFits, Zenon
  <2> HIDE DEF f, a, z, n
  <2>4. /\ t \in Seq(Bytes) /\ Len(t) = n + 1 + Len(z) /\ t[n + 1] = "L" /\ Len(z) \in Nat
        /\ \A i \in 1 .. n : t[i] = a[i]
        /\ \A i \in 1 .. Len(z) : t[n + 1 + i] = z[i]
    <3>1. /\ t \in Seq(Bytes) /\ Len(t) = Len(a) + 1 + Len(z) /\ t[Len(a) + 1] = "L"
          /\ Len(z) \in Nat
          /\ \A i \in 1 .. Len(a) : t[i] = a[i]
          /\ \A i \in 1 .. Len(z) : t[Len(a) + 1 + i] = z[i]
        BY <2>2, InsertParts
    <3>2. Len(a) = n
        BY <2>1
    <3> HIDE DEF t
    <3> QED
        BY <3>1, <3>2, Zenon
  <2> HIDE DEF t
  <2>5. Take(t, n) = a
    <3>1. n \in 0 .. Len(t)
      <4> DEFINE m == Len(z)
                 k == Len(t)
      <4>1. k = n + 1 + m /\ m \in Nat /\ n \in Nat
          BY <2>1, <2>4
      <4> HIDE DEF m, k
      <4> QED
          BY <4>1 DEF m, k
    <3>2. Take(t, n) \in Seq(Bytes) /\ Len(Take(t, n)) = n /\ \A i \in 1 .. n : Take(t, n)[i] = t[i]
        BY <2>4, <3>1, CutParts
    <3> QED
        BY <2>1, <2>2, <2>4, <3>2, SeqEqual
  <2>6. Drop(t, n + 1) = z
    <3>1. n + 1 \in 0 .. Len(t) /\ Len(t) - (n + 1) = Len(z)
      <4> DEFINE m == Len(z)
      <4>1. Len(t) = n + 1 + m /\ m \in Nat /\ n \in Nat
          BY <2>1, <2>4
      <4> HIDE DEF m
      <4> QED
          BY <4>1 DEF m
    <3>2. /\ Drop(t, n + 1) \in Seq(Bytes) /\ Len(Drop(t, n + 1)) = Len(z)
          /\ \A i \in 1 .. Len(z) : Drop(t, n + 1)[i] = t[n + 1 + i]
      <4>1. t \in Seq(Bytes)
          BY <2>4
      <4>2. /\ Drop(t, n + 1) \in Seq(Bytes) /\ Len(Drop(t, n + 1)) = Len(t) - (n + 1)
            /\ \A i \in 1 .. (Len(t) - (n + 1)) : Drop(t, n + 1)[i] = t[n + 1 + i]
          BY <3>1, <4>1, CutParts
      <4> QED
          BY <3>1, <4>2, Zenon
    <3> QED
        BY <2>2, <2>4, <3>2, SeqEqual
  <2>7. HalfLine(t, n + 1, w)
    <3>1. n + 1 \in 0 .. Len(t) /\ n + 1 > 0 /\ t \in Strings
        BY <2>1, <2>4 DEF Strings
    <3>2. w = "whole" => Sound(a) /\ Sound(z)
        BY <2>1 DEF Text
    <3>3. Clean(t) /\ Boundary(t, n + 1)
      <4>1. a \in Strings /\ Clean(a) /\ z \in Strings /\ Clean(z)
          BY <2>1 DEF Text
      <4>2. <<"L">> \in Strings /\ Clean(<<"L">>)
          BY CleanByte DEF Bytes, Printable, Continuation
      <4>3. a \o <<"L">> \in Strings /\ Clean(a \o <<"L">>)
          BY <4>1, <4>2, CleanConcat
      <4>4. Len(a \o <<"L">>) = n + 1
          BY <2>1, <2>2
      <4>5. Clean((a \o <<"L">>) \o z) /\ Boundary((a \o <<"L">>) \o z, Len(a \o <<"L">>))
          BY <4>1, <4>3, CleanConcat
      <4> QED
          BY <4>4, <4>5, Zenon DEF t
    <3> DEFINE k == n + 1
    <3>4. /\ t \in Strings /\ k \in 0 .. Len(t) /\ Clean(t) /\ Boundary(t, k)
          /\ Len(t) >= MaxBuffer \/ (k > 0 /\ t[k] = "L")
          /\ w = "whole" => /\ k > 0 /\ t[k] = "L"
                            /\ Sound(Take(t, k - 1)) /\ Sound(Drop(t, k))
      <4>1. t \in Strings /\ k \in 0 .. Len(t) /\ k > 0
          BY <3>1
      <4>2. t[k] = "L"
          BY <2>4
      <4>3. k - 1 = n
          BY <2>1
      <4>4. w = "whole" => Sound(Take(t, k - 1)) /\ Sound(Drop(t, k))
          BY <2>5, <2>6, <3>2, <4>3, Zenon
      <4> QED
          BY <3>3, <4>1, <4>2, <4>4, Zenon
    <3> HIDE DEF k
    <3>5. HalfLine(t, k, w)
        BY <3>4 DEF HalfLine
    <3> QED
        BY <3>5 DEF k
  <2>8. Half(f, w)
      BY <2>3, <2>7, Zenon DEF Half
  <2>9. HalfSettled(e, f, w)
      BY <2>3, <2>8, Zenon DEF HalfSettled, Mode
  <2> QED
      BY <2>3, <2>9 DEF f
<1> QED
    BY <1>3, <1>4

LEMMA InsertSecond ==
    ASSUME NEW w, NEW e, Half(e, w), NEW b, IsContinuation(b)
    PROVE  Settled(e, Insert(e, b), w)
<1>1. HalfLine(e.buf, e.cursor, w) /\ Kept(e, w)
    BY DEF Half
<1>2. e.buf \in Strings /\ e.cursor \in 0 .. Len(e.buf) /\ Len(e.buf) \in Nat
    BY <1>1 DEF HalfLine, Strings
<1>a. Clean(e.buf) /\ Boundary(e.buf, e.cursor)
    BY <1>1 DEF HalfLine
<1>3. CASE Len(e.buf) >= MaxBuffer
    BY <1>1, <1>2, <1>3, <1>a, InsertFull
<1>4. CASE ~(Len(e.buf) >= MaxBuffer)
  <2> DEFINE c == e.cursor
             a == Take(e.buf, c)
             z == Drop(e.buf, c)
             t == a \o <<b>> \o z
             f == Insert(e, b)
  <2>1. /\ a \in Seq(Bytes) /\ Len(a) = c /\ z \in Seq(Bytes) /\ Len(z) = Len(e.buf) - c
        /\ \A i \in 1 .. c : a[i] = e.buf[i]
      BY <1>2, CutParts DEF Strings
  <2>2. b \in Bytes
      BY DEF IsContinuation, Continuation, Bytes, Printable
  <2>3. /\ Kept(f, w) /\ f.cut = e.cut
        /\ f.buf = t /\ f.cursor = c + 1
      BY <1>1, <1>4, InsertFits, Zenon
  <2> HIDE DEF f
  <2>4. t \in Strings /\ c + 1 \in 0 .. Len(t)
    <3>1. t \in Seq(Bytes) /\ Len(t) = c + 1 + Len(z) /\ Len(z) \in Nat /\ c \in Nat
      <4>1. a \in Seq(Bytes) /\ z \in Seq(Bytes)
          BY <2>1
      <4>2. Len(a) = c
          BY <2>1
      <4> HIDE DEF c, a, z
      <4>3. t \in Seq(Bytes) /\ Len(t) = Len(a) + 1 + Len(z) /\ Len(z) \in Nat /\ Len(a) \in Nat
          BY <2>2, <4>1, InsertParts
      <4> QED
          BY <4>2, <4>3, Zenon
    <3> HIDE DEF t, c, z
    <3> QED
        BY <1>2, <2>1, <3>1 DEF Strings
  <2>5. w = "whole" => Sound(t) /\ Boundary(t, c + 1)
    <3> SUFFICES ASSUME w = "whole" PROVE Sound(t) /\ Boundary(t, c + 1)
        OBVIOUS
    <3> DEFINE k == c - 1
               y == Take(e.buf, k)
               p == <<"L", b>>
    <3>1. c > 0 /\ e.buf[c] = "L" /\ Sound(y) /\ Sound(z)
        BY <1>1 DEF HalfLine
    <3>2. k \in 0 .. Len(e.buf) /\ c = k + 1 /\ c \in 1 .. Len(e.buf)
        BY <1>2, <3>1
    <3> HIDE DEF k
    <3>3. /\ y \in Seq(Bytes) /\ Len(y) = k
          /\ \A i \in 1 .. k : y[i] = e.buf[i]
        BY <1>2, <3>2, CutParts DEF Strings
    <3>4. p \in Seq(Bytes) /\ Len(p) = 2 /\ p[1] = "L" /\ p[2] = b
      <4>1. "L" \in Bytes
          BY DEF Bytes, Printable
      <4> QED
          BY <2>2, <4>1
    <3> HIDE DEF p, y, a, z
    <3>a. y \in Seq(Bytes) /\ p \in Seq(Bytes)
        BY <3>3, <3>4
    <3>5. Sound(p)
        BY <3>4 DEF Sound, Led, Leads, IsContinuation, Continuation
    <3>6. a \o <<b>> = y \o p
      <4> DEFINE l == a \o <<b>>
                 r == y \o p
      <4>1. /\ l \in Seq(Bytes) /\ Len(l) = c + 1 /\ l[c + 1] = b
            /\ \A i \in 1 .. c : l[i] = a[i]
          BY <2>1, <2>2, <1>2
      <4>2. /\ r \in Seq(Bytes) /\ Len(r) = k + 2 /\ r[k + 1] = "L" /\ r[k + 2] = b
            /\ \A i \in 1 .. k : r[i] = y[i]
        <5>1. k \in Nat
            BY <3>2
        <5>2. /\ Len(r) = k + 2 /\ r \in Seq(Bytes)
              /\ \A i \in 1 .. k : r[i] = y[i]
              /\ \A i \in 1 .. 2 : r[k + i] = p[i]
          <6>1. /\ Len(r) = Len(y) + Len(p) /\ r \in Seq(Bytes)
                /\ \A i \in 1 .. Len(y) : r[i] = y[i]
                /\ \A i \in 1 .. Len(p) : r[Len(y) + i] = p[i]
              BY <3>a, ConcatParts
          <6> HIDE DEF r
          <6> QED
              BY <3>3, <3>4, <6>1, Zenon
        <5> HIDE DEF r
        <5> QED
            BY <3>4, <5>1, <5>2
      <4> HIDE DEF l, r
      <4>3. \A i \in 1 .. (c + 1) : l[i] = r[i]
        <5> TAKE i \in 1 .. (c + 1)
        <5>1. i \in 1 .. k \/ i = k + 1 \/ i = k + 2
            BY <3>2
        <5>2. i \in 1 .. k => i \in 1 .. c
            BY <3>2
        <5>3. k + 2 = c + 1 /\ k + 1 = c /\ c \in 1 .. c
            BY <3>2
        <5> QED
            BY <2>1, <3>1, <3>3, <4>1, <4>2, <5>1, <5>2, <5>3
      <4>4. Len(l) = Len(r)
          BY <3>2, <4>1, <4>2
      <4>5. l = r
          BY <4>1, <4>2, <4>3, <4>4, SeqEqual
      <4> QED
          BY <4>5 DEF l, r
    <3>7. Sound(y \o p) /\ y \o p \in Strings
        BY <3>1, <3>3, <3>4, <3>5, SoundConcat DEF Strings
    <3>8. Len(y \o p) = c + 1
      <4>1. Len(y \o p) = k + 2
        <5>1. Len(y \o p) = Len(y) + Len(p)
            BY <3>a, ConcatParts
        <5> QED
            BY <3>3, <3>4, <5>1, Zenon
      <4> QED
          BY <3>2, <4>1
    <3>9. Sound((y \o p) \o z) /\ Boundary((y \o p) \o z, Len(y \o p))
        BY <2>1, <3>1, <3>7, SoundConcat DEF Strings
    <3> QED
        BY <3>6, <3>8, <3>9
  <2>8. Clean(t) /\ Boundary(t, c + 1)
    <3>1. c > 0 /\ e.buf[c] = "L" /\ c \in 1 .. c
        BY <1>1, <1>2, <1>4 DEF HalfLine
    <3>2. a \in Strings /\ Clean(a) /\ z \in Strings /\ Clean(z)
        BY <1>2, <1>a, CleanTake, CleanDrop
    <3>3. Len(a) = c /\ a[c] = "L"
        BY <2>1, <3>1
    <3> HIDE DEF a, z, c
    <3>4. a \o <<b>> \in Strings /\ Clean(a \o <<b>>)
        BY <2>2, <3>1, <3>2, <3>3, CleanSecond
    <3>5. Len(a \o <<b>>) = c + 1
        BY <2>2, <3>2, <3>3 DEF Strings
    <3>6. Clean((a \o <<b>>) \o z) /\ Boundary((a \o <<b>>) \o z, Len(a \o <<b>>))
        BY <3>2, <3>4, CleanConcat
    <3> QED
        BY <3>5, <3>6, Zenon
  <2>6. Line(t, c + 1, w)
      BY <2>4, <2>5, <2>8 DEF Line, Text
  <2> HIDE DEF t
  <2>7. Safe(e, f, w)
      BY <2>3, <2>6, Zenon DEF Safe, Good
  <2> QED
      BY <2>7, SafeSettled DEF f
<1> QED
    BY <1>3, <1>4

(* Leaving the search takes what fits of the match into the line. *)
LEMMA AcceptSearchSettled ==
    ASSUME NEW w, NEW e, Good(e, w), e.search # <<>>
    PROVE  LET f == AcceptSearch(e)
           IN  f.search = <<>> /\ \E v : Good(f, v) /\ (Mode(e, w) => Mode(f, v))
<1> DEFINE i == e.search[1].matched
           found == IF i = 0 THEN e.buf ELSE e.history[i]
           kept == IF i = 0 THEN found ELSE Take(found, Least(Len(found), MaxBuffer))
           c == e.cut \/ kept # found
           f == [e EXCEPT !.search = <<>>, !.buf = kept, !.cursor = Len(kept), !.histPos = 0,
                          !.cut = c]
<1>1. AcceptSearch(e) = [e EXCEPT !.search = <<>>, !.buf = kept, !.cursor = Len(kept), !.histPos = 0,
                                  !.cut = @ \/ kept # found]
    BY DEF AcceptSearch
<1>2. i \in Nat /\ i <= Len(e.history) /\ Len(e.history) \in Nat
    BY SearchOpen
<1> HIDE DEF i
<1>3. Text(found, w)
  <2>1. CASE i = 0
      BY <2>1 DEF Good, Line
  <2>2. CASE i # 0
    <3>1. i \in 1 .. Len(e.history)
        BY <1>2, <2>2
    <3> QED
        BY <2>2, <3>1 DEF Good, Kept, Remembered
  <2> QED
      BY <2>1, <2>2
<1>4. Len(found) \in Nat /\ found \in Seq(Bytes)
    BY <1>3, TextLen DEF Text, Strings
<1> HIDE DEF found
<1>5. kept \in Strings /\ Clean(kept) /\ Len(kept) \in Nat
  <2>1. Least(Len(found), MaxBuffer) \in 0 .. Len(found)
      BY <1>4, LineBounds DEF Least
  <2> DEFINE k == Least(Len(found), MaxBuffer)
  <2> HIDE DEF k
  <2>2. found \in Strings /\ Clean(found) /\ Take(found, k) \in Strings /\ Clean(Take(found, k))
      BY <1>3, <2>1, CleanTake DEF k, Text
  <2>3. kept \in Seq(Bytes) /\ Clean(kept)
      BY <2>2 DEF k, Strings
  <2> HIDE DEF kept
  <2> QED
      BY <2>3 DEF Strings
<1> HIDE DEF kept, c
<1>6. /\ Fields \subseteq DOMAIN f /\ f.kill = e.kill /\ f.buf = kept /\ f.cursor = Len(kept)
      /\ f.stash = e.stash /\ f.history = e.history /\ f.histPos = 0
      /\ f.esc = e.esc /\ f.search = <<>>
    BY DEF Good, Kept, Fields
<1>7. f.cut = c
    BY DEF Good, Kept, Fields
<1>8. AcceptSearch(e) = f
    BY <1>1, Zenon DEF c
<1> HIDE DEF f
<1>9. ASSUME NEW v, Kept(e, v) PROVE Kept(f, v)
  <2>1. Found(<<>>, e.history)
      BY DEF Found, Searches
  <2>2. 0 \in 0 .. Len(e.history)
      BY <1>2
  <2> QED
      BY <1>6, <1>9, <2>1, <2>2 DEF Kept
<1>10. CASE kept = found
  <2>1. Good(f, w)
    <3>1. Kept(f, w)
        BY <1>9 DEF Good
    <3>2. Line(kept, Len(kept), w)
        BY <1>3, <1>10, LineEnds
    <3> QED
        BY <1>6, <3>1, <3>2 DEF Good
  <2>2. Mode(e, w) => Mode(f, w)
      BY <1>7, Zenon DEF Mode, c
  <2> QED
      BY <1>6, <1>8, <2>1, <2>2
<1>11. CASE kept # found
  <2>1. Good(f, "cut")
    <3>1. Kept(f, "cut")
        BY <1>9, KeptCut DEF Good
    <3>2. Len(kept) \in 0 .. Len(kept) /\ Boundary(kept, Len(kept))
        BY <1>5 DEF Boundary
    <3>3. Line(kept, Len(kept), "cut")
        BY <1>5, <3>2, LinesCut
    <3> QED
        BY <1>6, <3>1, <3>3 DEF Good
  <2>2. Mode(f, "cut")
      BY <1>7, <1>11, Zenon DEF Mode, c
  <2> QED
      BY <1>6, <1>8, <2>1, <2>2
<1> QED
    BY <1>10, <1>11

-----------------------------------------------------------------------------
(* The keys. *)
LEMMA EscSafe ==
    ASSUME NEW w, NEW e, Good(e, w), NEW x \in {"none", "got", "csi"}
    PROVE  /\ Safe(e, [e EXCEPT !.esc = x], w)
           /\ \A p : Safe(e, [e EXCEPT !.esc = x, !.params = p], w)
           /\ \A p : Safe(e, [e EXCEPT !.params = p], w)
<1>1. ASSUME NEW f, Fields \subseteq DOMAIN f, f.esc \in {"none", "got", "csi"},
             \A y \in Fields \ {"esc", "params"} : f[y] = e[y]
      PROVE  Safe(e, f, w)
  <2>1. /\ f.kill = e.kill /\ f.buf = e.buf /\ f.cursor = e.cursor /\ f.search = e.search
        /\ f.stash = e.stash /\ f.history = e.history /\ f.histPos = e.histPos /\ f.cut = e.cut
      BY <1>1 DEF Fields
  <2> QED
      BY <1>1, <2>1 DEF Safe, Good, Kept
<1>2. Safe(e, [e EXCEPT !.esc = x], w)
  <2> DEFINE f == [e EXCEPT !.esc = x]
  <2>1. /\ Fields \subseteq DOMAIN f /\ f.esc \in {"none", "got", "csi"}
        /\ \A y \in Fields \ {"esc", "params"} : f[y] = e[y]
      BY DEF Good, Kept, Fields
  <2> HIDE DEF f
  <2> QED
      BY <1>1, <2>1 DEF f
<1>3. ASSUME NEW p PROVE Safe(e, [e EXCEPT !.esc = x, !.params = p], w)
  <2> DEFINE f == [e EXCEPT !.esc = x, !.params = p]
  <2>1. /\ Fields \subseteq DOMAIN f /\ f.esc \in {"none", "got", "csi"}
        /\ \A y \in Fields \ {"esc", "params"} : f[y] = e[y]
      BY DEF Good, Kept, Fields
  <2> HIDE DEF f
  <2> QED
      BY <1>1, <2>1 DEF f
<1>4. ASSUME NEW p PROVE Safe(e, [e EXCEPT !.params = p], w)
  <2> DEFINE f == [e EXCEPT !.params = p]
  <2>1. /\ Fields \subseteq DOMAIN f /\ f.esc \in {"none", "got", "csi"}
        /\ \A y \in Fields \ {"esc", "params"} : f[y] = e[y]
      BY DEF Good, Kept, Fields
  <2> HIDE DEF f
  <2> QED
      BY <1>1, <2>1 DEF f
<1> QED
    BY <1>2, <1>3, <1>4

LEMMA PlainKeySettled ==
    ASSUME NEW w, NEW e, Good(e, w), e.search = <<>>, NEW key, key # "L", ~IsContinuation(key)
    PROVE  Settled(e, PlainKey(e, key), w)
<1>1. Safe(e, Submit(e), w)
    BY SubmitSafe
<1>2. Safe(e, [e EXCEPT !.esc = "got"], w)
    BY EscSafe
<1>3. Safe(e, CompleteCurrentWord(e), w) /\ Safe(e, Backspace(e), w)
    BY CompleteCurrentWordSafe, BackspaceSafe
<1>4. /\ Safe(e, MoveHome(e), w) /\ Safe(e, MoveEnd(e), w)
      /\ Safe(e, MoveLeft(e), w) /\ Safe(e, MoveRight(e), w)
    BY MovesSafe
<1>5. Safe(e, HistoryPrev(e), w) /\ Safe(e, HistoryNext(e), w)
    BY HistoryPrevSafe, HistoryNextSafe
<1>6. Safe(e, KillToStart(e), w) /\ Safe(e, KillToEnd(e), w) /\ Safe(e, KillWord(e), w)
    BY KillsSafe
<1>7. Safe(e, Yank(e), w) /\ Safe(e, StartSearch(e), w)
    BY YankSafe, StartSearchSafe
<1>8. Safe(e, Interrupt(e), w) /\ Safe(e, CtrlD(e), w)
    BY InterruptSafe, CtrlDSafe
<1>9. Safe(e, e, w) /\ Safe(e, Redraw(e), w)
    BY GoodSelf, RedrawSafe
<1>10. key \in Printable => Settled(e, Insert(e, key), w)
  <2> SUFFICES ASSUME key \in Printable PROVE Settled(e, Insert(e, key), w)
      OBVIOUS
  <2>1. key \in Bytes \ (Leads \cup Continuation)
      BY DEF Bytes, Printable, Leads, IsContinuation
  <2> QED
      BY <2>1, InsertByte
<1> DEFINE Named == {"Enter", "Esc", "Tab", "Backspace", "Home", "End", "Left", "Right", "Prev",
                     "Next", "KillStart", "KillEnd", "KillWord", "Yank", "Clear", "Search",
                     "Interrupt", "Eof"}
<1>11. CASE key \in Named
  <2>0. key \notin Printable
      BY <1>11 DEF Printable
  <2>1. Safe(e, PlainKey(e, key), w)
    <3>1. CASE key \in {"Enter", "Esc", "Tab", "Backspace"}
        BY <2>0, <3>1, <1>1, <1>2, <1>3 DEF PlainKey
    <3>2. CASE key \in {"Home", "End", "Left", "Right"}
        BY <2>0, <3>2, <1>4 DEF PlainKey
    <3>3. CASE key \in {"Prev", "Next", "KillStart", "KillEnd", "KillWord"}
        BY <2>0, <3>3, <1>5, <1>6 DEF PlainKey
    <3>4. CASE key \in {"Yank", "Clear", "Search", "Interrupt", "Eof"}
        BY <2>0, <3>4, <1>7, <1>8, <1>9 DEF PlainKey
    <3> QED
        BY <1>11, <3>1, <3>2, <3>3, <3>4
  <2> QED
      BY <2>1, SafeSettled
<1>12. CASE key \notin Named /\ key \in Printable
  <2>1. PlainKey(e, key) = Insert(e, key)
      BY <1>12 DEF PlainKey
  <2> QED
      BY <1>10, <1>12, <2>1
<1>13. CASE key \notin Named /\ key \notin Printable
  <2>1. PlainKey(e, key) = e
      BY <1>13 DEF PlainKey
  <2> QED
      BY <1>9, <2>1, SafeSettled
<1> QED
    BY <1>11, <1>12, <1>13

(* A byte of a character goes to the buffer. *)
LEMMA PlainByte ==
    ASSUME NEW e, NEW key \in {"L"} \cup Continuation
    PROVE  PlainKey(e, key) = Insert(e, key)
BY DEF PlainKey, Printable, Continuation

LEMMA InputCsiSafe ==
    ASSUME NEW w, NEW e, Good(e, w), NEW key
    PROVE  Safe(e, InputCsi(e, key), w)
<1> DEFINE d == [e EXCEPT !.esc = "none", !.params = <<>>]
           n == [e EXCEPT !.params = Append(@, key)]
<1>1. Safe(e, d, w) /\ Safe(e, n, w) /\ Safe(e, e, w)
    BY EscSafe, GoodSelf
<1>2. \/ InputCsi(e, key) \in {e, n, d}
      \/ InputCsi(e, key) \in {HistoryPrev(d), HistoryNext(d), MoveRight(d), MoveLeft(d)}
      \/ InputCsi(e, key) \in {MoveHome(d), MoveEnd(d), DeleteForward(d)}
  <2>1. CASE key \in {"1", "3", "4", ";"}
      BY <2>1 DEF InputCsi
  <2>2. CASE key \in {"A", "B", "C", "D", "H", "E"}
      BY <2>2 DEF InputCsi
  <2>3. CASE key \notin {"1", "3", "4", ";", "A", "B", "C", "D", "H", "E", "~"}
      BY <2>3 DEF InputCsi
  <2>4. CASE key = "~"
      BY <2>4 DEF InputCsi
  <2> QED
      BY <2>1, <2>2, <2>3, <2>4
<1> HIDE DEF d, n
<1>3. Good(d, w) /\ d.cut = e.cut
    BY <1>1 DEF Safe
<1>4. /\ Safe(d, HistoryPrev(d), w) /\ Safe(d, HistoryNext(d), w) /\ Safe(d, MoveRight(d), w)
      /\ Safe(d, MoveLeft(d), w) /\ Safe(d, MoveHome(d), w) /\ Safe(d, MoveEnd(d), w)
      /\ Safe(d, DeleteForward(d), w)
    BY <1>3, HistoryPrevSafe, HistoryNextSafe, MovesSafe, DeleteForwardSafe
<1>5. \A g : Safe(d, g, w) => Safe(e, g, w)
    BY <1>3 DEF Safe
<1> QED
    BY <1>1, <1>2, <1>4, <1>5

LEMMA SettledThen ==
    ASSUME NEW w, NEW v, NEW e, NEW f, NEW g, Mode(e, w) => Mode(f, v), Settled(f, g, v)
    PROVE  Settled(e, g, w)
BY Zenon DEF Settled

(* In search the bytes of a character go to the query. *)
LEMMA SearchByte ==
    ASSUME NEW w, NEW e, Good(e, w), e.search # <<>>, NEW key \in Printable
    PROVE  /\ Safe(e, InputSearch(e, key), w) /\ InputSearch(e, key).search # <<>>
           /\ InputSearch(e, key).esc = e.esc
<1> DEFINE query == e.search[1].query
           q == IF Len(query) < MaxBuffer THEN Append(query, key) ELSE query
<1>1. InputSearch(e, key) = SearchFor(e, q)
    BY DEF InputSearch, Printable
<1>2. query \in Strings
    BY SearchOpen
<1> HIDE DEF query
<1>3. key \in Bytes
    BY DEF Bytes
<1>4. q \in Strings
    BY <1>2, <1>3 DEF Strings
<1> HIDE DEF q
<1> QED
    BY <1>1, <1>4, SearchForSafe

LEMMA InputSearchSettled ==
    ASSUME NEW w, NEW e, Good(e, w), e.search # <<>>, NEW key, key # "L", ~IsContinuation(key)
    PROVE  Settled(e, InputSearch(e, key), w)
<1> DEFINE f == AcceptSearch(e)
           query == e.search[1].query
           cutq == Take(query, IF query = <<>> THEN 0 ELSE Len(query) - 1)
<1>1. f.search = <<>> /\ \E v : Good(f, v) /\ (Mode(e, w) => Mode(f, v))
    BY AcceptSearchSettled
<1>2. PICK v : Good(f, v) /\ (Mode(e, w) => Mode(f, v))
    BY <1>1, Zenon
<1>3. CASE key \in Printable
    BY <1>3, SearchByte, SafeSettled
<1>4. CASE key = "Enter"
  <2>1. InputSearch(e, key) = Submit(f)
      BY <1>4 DEF InputSearch, Printable
  <2> HIDE DEF f
  <2>2. Safe(f, Submit(f), v)
      BY <1>1, <1>2, SubmitSafe
  <2> QED
      BY <1>2, <2>1, <2>2, SettledAfter
<1>5. CASE key = "Search"
  <2>1. InputSearch(e, key) = SearchStep(e)
      BY <1>5 DEF InputSearch, Printable
  <2> QED
      BY <2>1, SearchStepSafe, SafeSettled
<1>6. CASE key \in {"Abort", "Interrupt", "Esc"}
  <2> DEFINE g == [e EXCEPT !.search = <<>>]
  <2>1. InputSearch(e, key) = Redraw(g)
      BY <1>6 DEF InputSearch, Printable
  <2>2. Fields \subseteq DOMAIN g /\ g.search = <<>> /\ \A x \in Fields \ {"search"} : g[x] = e[x]
      BY DEF Good, Kept, Fields
  <2>3. Found(<<>>, e.history)
      BY DEF Found, Searches
  <2> HIDE DEF g
  <2>4. Safe(e, g, w)
      BY <2>2, <2>3, FoundSafe
  <2> QED
      BY <2>1, <2>4, RedrawSafe, SafeSettled
<1>7. CASE key = "Backspace"
  <2>1. InputSearch(e, key) = SearchFor(e, cutq)
      BY <1>7 DEF InputSearch, Printable
  <2>2. query \in Seq(Bytes)
      BY SearchOpen DEF Strings
  <2> HIDE DEF query
  <2> DEFINE n == IF query = <<>> THEN 0 ELSE Len(query) - 1
  <2>3. n \in 0 .. Len(query)
    <3>1. Len(query) \in Nat /\ (query # <<>> => Len(query) \in Nat \ {0})
        BY <2>2, EmptySeq
    <3> QED
        BY <3>1
  <2> HIDE DEF n
  <2>4. Take(query, n) \in Strings
      BY <2>2, <2>3, CutParts DEF Strings
  <2>5. cutq \in Strings
      BY <2>4 DEF n
  <2> HIDE DEF cutq
  <2> QED
      BY <2>1, <2>5, SearchForSafe, SafeSettled
<1>8. CASE key = "Tab"
  <2>1. InputSearch(e, key) = CompleteCurrentWord(f)
      BY <1>8 DEF InputSearch, Printable
  <2> HIDE DEF f
  <2>2. Safe(f, CompleteCurrentWord(f), v)
      BY <1>2, CompleteCurrentWordSafe
  <2> QED
      BY <1>2, <2>1, <2>2, SettledAfter
<1>9. CASE key \notin Printable \cup {"Enter", "Search", "Abort", "Interrupt", "Esc", "Backspace", "Tab"}
  <2> DEFINE g == Redraw(f)
  <2>1. InputSearch(e, key) = PlainKey(g, key)
      BY <1>9 DEF InputSearch
  <2> HIDE DEF f
  <2>2. Safe(f, g, v) /\ g.search = <<>>
      BY <1>1, <1>2, GoodSelf, RedrawSafe
  <2> HIDE DEF g
  <2>3. Good(g, v) /\ (Mode(e, w) => Mode(g, v))
      BY <1>2, <2>2, Zenon DEF Safe, Mode
  <2>4. Settled(g, PlainKey(g, key), v)
      BY <2>2, <2>3, PlainKeySettled
  <2> QED
      BY <2>1, <2>3, <2>4, SettledThen
<1> QED
    BY <1>3, <1>4, <1>5, <1>6, <1>7, <1>8, <1>9

LEMMA InputSettled ==
    ASSUME NEW w, NEW e, Good(e, w), NEW key, key # "L", ~IsContinuation(key)
    PROVE  Settled(e, Input(e, key), w)
<1>0. e.esc \in {"none", "got", "csi"}
    BY DEF Good, Kept
<1>1. CASE e.esc = "got"
  <2>1. Input(e, key) = InputAfterEsc(e, key)
      BY <1>1 DEF Input
  <2>2. Safe(e, InputAfterEsc(e, key), w)
      BY EscSafe DEF InputAfterEsc
  <2> QED
      BY <2>1, <2>2, SafeSettled
<1>2. CASE e.esc = "csi"
  <2>1. Input(e, key) = InputCsi(e, key)
      BY <1>2 DEF Input
  <2> QED
      BY <2>1, InputCsiSafe, SafeSettled
<1>3. CASE e.esc = "none" /\ e.search # <<>>
  <2>1. Input(e, key) = InputSearch(e, key)
      BY <1>3 DEF Input
  <2> QED
      BY <1>3, <2>1, InputSearchSettled
<1>4. CASE e.esc = "none" /\ e.search = <<>>
  <2>1. Input(e, key) = PlainKey(e, key)
      BY <1>4 DEF Input
  <2> QED
      BY <1>4, <2>1, PlainKeySettled
<1> QED
    BY <1>0, <1>1, <1>2, <1>3, <1>4

-----------------------------------------------------------------------------
(* The invariant. *)
EditorState(e) ==
    /\ \E v : /\ Mode(e, v)
              /\ IF e.key = "L" /\ e.search = <<>> THEN Half(e, v) ELSE Good(e, v)
    /\ e.key = "L" => e.esc = "none"

EditorInv == EditorState(ed)

LEMMA PressKeeps ==
    ASSUME NEW e, EditorState(e), NEW key, NEW n,
           IsContinuation(key) <=> e.key = "L", key = "L" => e.esc = "none",
           NEW f, f = [Input(e, key) EXCEPT !.key = key, !.keys = n]
    PROVE  EditorState(f)
<1> DEFINE g == Input(e, key)
<1>0. f = [g EXCEPT !.key = key, !.keys = n]
    OBVIOUS
<1>a. Fields \subseteq DOMAIN g =>
        /\ Relined(g, f) /\ f.key = key /\ f.buf = g.buf /\ f.cursor = g.cursor /\ f.cut = g.cut
        /\ f.esc = g.esc /\ f.search = g.search
  <2> HIDE DEF g
  <2> QED
      BY <1>0 DEF Relined, Fields
<1>b. ASSUME NEW v, Kept(g, v)
      PROVE  /\ Kept(f, v) /\ f.key = key /\ f.buf = g.buf /\ f.cursor = g.cursor /\ f.cut = g.cut
             /\ f.esc = g.esc /\ f.search = g.search
  <2> HIDE DEF g
  <2>1. Fields \subseteq DOMAIN g
      BY <1>b DEF Kept
  <2> QED
      BY <1>a, <1>b, <2>1, RelinedKept
<1>1. PICK w : /\ Mode(e, w)
               /\ IF e.key = "L" /\ e.search = <<>> THEN Half(e, w) ELSE Good(e, w)
    BY Zenon DEF EditorState
<1>2. CASE key # "L" /\ ~IsContinuation(key)
  <2>1. Good(e, w)
      BY <1>1, <1>2
  <2>2. Settled(e, g, w)
      BY <1>2, <2>1, InputSettled
  <2> HIDE DEF g
  <2>3. PICK v : Good(g, v) /\ Mode(g, v)
      BY <1>1, <2>2, Zenon DEF Settled
  <2>4. /\ Kept(f, v) /\ f.key = key /\ f.buf = g.buf /\ f.cursor = g.cursor /\ f.cut = g.cut
      BY <1>b, <2>3 DEF Good
  <2>5. Good(f, v)
      BY <2>3, <2>4 DEF Good
  <2>6. Mode(f, v)
      BY <2>3, <2>4, Zenon DEF Mode
  <2> QED
      BY <1>2, <2>4, <2>5, <2>6, Zenon DEF EditorState
<1>3. CASE key = "L" \/ IsContinuation(key)
  <2>1. e.esc = "none" /\ key \in {"L"} \cup Continuation /\ key \in Printable
      BY <1>3 DEF EditorState, IsContinuation, Continuation, Printable
  <2>2. CASE e.search # <<>>
    <3>1. Good(e, w)
        BY <1>1, <2>2
    <3>2. g = InputSearch(e, key)
        BY <2>1, <2>2 DEF Input
    <3>3. Safe(e, g, w) /\ g.search # <<>> /\ g.esc = "none"
        BY <2>1, <2>2, <3>1, <3>2, SearchByte
    <3> HIDE DEF g
    <3>4. /\ Kept(f, w) /\ f.key = key /\ f.buf = g.buf /\ f.cursor = g.cursor /\ f.cut = g.cut
          /\ f.esc = g.esc /\ f.search = g.search
        BY <1>b, <3>3 DEF Safe, Good
    <3>5. Good(f, w)
        BY <3>3, <3>4 DEF Safe, Good
    <3>6. Mode(f, w)
        BY <1>1, <3>3, <3>4, Zenon DEF Safe, Mode
    <3> QED
        BY <3>3, <3>4, <3>5, <3>6, Zenon DEF EditorState
  <2>3. CASE e.search = <<>> /\ key = "L"
    <3>1. Good(e, w)
        BY <1>1, <2>3 DEF IsContinuation, Continuation
    <3>2. g = Insert(e, "L")
        BY <2>1, <2>3, PlainByte DEF Input
    <3>3. HalfSettled(e, g, w) /\ g.esc = "none" /\ g.search = <<>>
        BY <2>1, <2>3, <3>1, <3>2, InsertLead
    <3> HIDE DEF g
    <3>4. PICK v : Half(g, v) /\ Mode(g, v)
        BY <1>1, <3>3, Zenon DEF HalfSettled
    <3>5. /\ Kept(f, v) /\ f.key = key /\ f.buf = g.buf /\ f.cursor = g.cursor /\ f.cut = g.cut
          /\ f.esc = g.esc /\ f.search = g.search
        BY <1>b, <3>4 DEF Half
    <3>6. Half(f, v)
        BY <3>4, <3>5 DEF Half
    <3>7. Mode(f, v)
        BY <3>4, <3>5, Zenon DEF Mode
    <3> QED
        BY <2>3, <3>3, <3>5, <3>6, <3>7, Zenon DEF EditorState
  <2>4. CASE e.search = <<>> /\ key # "L"
    <3>1. Half(e, w) /\ IsContinuation(key)
        BY <1>1, <1>3, <2>4
    <3>2. g = Insert(e, key)
        BY <2>1, <2>4, PlainByte DEF Input
    <3>3. Settled(e, g, w)
        BY <3>1, <3>2, InsertSecond
    <3> HIDE DEF g
    <3>4. PICK v : Good(g, v) /\ Mode(g, v)
        BY <1>1, <3>3, Zenon DEF Settled
    <3>5. /\ Kept(f, v) /\ f.key = key /\ f.buf = g.buf /\ f.cursor = g.cursor /\ f.cut = g.cut
        BY <1>b, <3>4 DEF Good
    <3>6. Good(f, v)
        BY <3>4, <3>5 DEF Good
    <3>7. Mode(f, v)
        BY <3>4, <3>5, Zenon DEF Mode
    <3> QED
        BY <2>4, <3>5, <3>6, <3>7, Zenon DEF EditorState
  <2> QED
      BY <2>2, <2>3, <2>4
<1> QED
    BY <1>2, <1>3

(* The invariant is one: it holds of the empty editor and every key keeps it. *)
THEOREM EditorStateHolds == EditorSpec => []EditorInv
<1>1. ASSUME EditorInit PROVE EditorInv
  <2> DEFINE e == [buf |-> <<>>, cursor |-> 0, kill |-> <<>>, history |-> <<>>, histPos |-> 0,
                   stash |-> <<>>, esc |-> "none", params |-> <<>>, search |-> <<>>, open |-> TRUE,
                   scr |-> Shows(<<>>, 0), cut |-> FALSE, key |-> "none", keys |-> 0]
  <2>1. ed = e
      BY <1>1, Zenon DEF EditorInit
  <2>2. /\ Fields \subseteq DOMAIN e /\ e.kill = <<>> /\ e.buf = <<>> /\ e.cursor = 0
        /\ e.stash = <<>> /\ e.history = <<>> /\ e.histPos = 0
        /\ e.esc = "none" /\ e.search = <<>> /\ e.key = "none"
      BY DEF Fields
  <2> HIDE DEF e
  <2>3. Text(<<>>, "whole") /\ Line(<<>>, 0, "whole")
      BY TextEmpty, LineEnds
  <2>4. Remembered(<<>>, "whole") /\ Found(<<>>, <<>>) /\ 0 \in 0 .. Len(<<>>)
      BY LineBounds DEF Remembered, Found, Searches
  <2>5. Good(e, "whole")
      BY <2>2, <2>3, <2>4 DEF Good, Kept
  <2>6. Mode(e, "whole")
      BY Zenon DEF Mode
  <2>7. e.key # "L"
      BY <2>2
  <2>8. EditorState(e)
      BY <2>5, <2>6, <2>7, Zenon DEF EditorState
  <2> QED
      BY <2>1, <2>8, Zenon DEF EditorInv
<1>2. ASSUME EditorInv, [EditorNext]_ed PROVE EditorInv'
  <2>1. CASE UNCHANGED ed
      BY <1>2, <2>1, Zenon DEF EditorInv
  <2>2. ASSUME NEW key \in Typeable \cup Controls, Press(key) PROVE EditorInv'
    <3>1. /\ IsContinuation(key) <=> ed.key = "L"
          /\ key = "L" => ed.esc = "none"
          /\ ed' = [Input(ed, key) EXCEPT !.key = key, !.keys = ed.keys + 1]
        BY <2>2, Zenon DEF Press
    <3> QED
        BY <1>2, <3>1, PressKeeps, Zenon DEF EditorInv
  <2> QED
      BY <1>2, <2>1, <2>2, Zenon DEF EditorNext
<1> QED
    BY <1>1, <1>2, PTL DEF EditorSpec

LEMMA StateConsistent == ASSUME EditorInv PROVE EditorConsistent
<1>1. PICK w : /\ Mode(ed, w)
               /\ IF ed.key = "L" /\ ed.search = <<>> THEN Half(ed, w) ELSE Good(ed, w)
    BY Zenon DEF EditorInv, EditorState
<1>2. Kept(ed, w) /\ (ed.key # "L" => Good(ed, w))
    BY <1>1 DEF Good, Half
<1>3. ed.cursor \in 0 .. Len(ed.buf)
    BY <1>1 DEF Good, Half, Line, HalfLine
<1>4. CharactersStayWhole
  <2> SUFFICES ASSUME ~ed.cut
               PROVE  /\ ed.key # "L" => Whole(ed.buf) /\ Boundary(ed.buf, ed.cursor)
                      /\ Whole(ed.kill) /\ Whole(ed.stash)
                      /\ \A i \in 1..Len(ed.history) : Whole(ed.history[i])
      BY Zenon DEF CharactersStayWhole
  <2>1. w = "whole"
      BY <1>1, Zenon DEF Mode
  <2>2. \A s : Text(s, w) => Whole(s)
      BY <2>1, WholeIsSound DEF Text
  <2>3. Text(ed.kill, w) /\ Text(ed.stash, w) /\ \A i \in 1..Len(ed.history) : Text(ed.history[i], w)
      BY <1>2 DEF Kept, Remembered
  <2>4. ed.key # "L" => Text(ed.buf, w) /\ Boundary(ed.buf, ed.cursor)
      BY <1>2, <2>1 DEF Good, Line
  <2> QED
      BY <2>2, <2>3, <2>4
<1>5. IndicesValid
  <2>1. Len(ed.history) <= MaxHistory /\ ed.histPos \in 0 .. Len(ed.history)
      BY <1>2 DEF Kept, Remembered
  <2>2. ASSUME ed.search # <<>>
        PROVE  ed.search[1].matched # 0 =>
                  /\ ed.search[1].matched <= Len(ed.history)
                  /\ Includes(ed.history[ed.search[1].matched], ed.search[1].query)
    <3>1. Good(ed, w)
        BY <1>1, <2>2
    <3>2. Len(ed.search) = 1
        BY <2>2, <3>1, SearchOpen
    <3> QED
        BY <1>2, <3>2 DEF Kept, Found
  <2> QED
      BY <1>3, <2>1, <2>2 DEF IndicesValid
<1> QED
    BY <1>4, <1>5 DEF EditorConsistent

(* Whatever keys a client presses, and whatever programs and files there are *)
(* to complete: the text it typed stays in whole characters in the line, the *)
(* kill slot, the stash and the history, unless the cap cut it, and every    *)
(* index the editor keeps is one its next key may use.                       *)
THEOREM EditorStaysConsistent == EditorSpec => []EditorConsistent
<1>1. EditorInv => EditorConsistent
    BY StateConsistent
<1> QED
    BY <1>1, EditorStateHolds, PTL

-----------------------------------------------------------------------------
(* The screen.  A column is a byte that starts a character, so the columns   *)
(* of the parts of a line add up.                                            *)
Starts(s, a, b) == {i \in (a + 1) .. b : ~IsContinuation(s[i])}

LEMMA StartsFinite ==
    ASSUME NEW s, NEW a \in Nat, NEW b \in Nat
    PROVE  IsFiniteSet(Starts(s, a, b)) /\ Cardinality(Starts(s, a, b)) \in Nat
<1>1. IsFiniteSet((a + 1) .. b)
    BY FS_Interval
<1>2. Starts(s, a, b) \subseteq (a + 1) .. b
    BY DEF Starts
<1>3. IsFiniteSet(Starts(s, a, b))
    BY <1>1, <1>2, FS_Subset
<1> QED
    BY <1>3, FS_CardinalityType

LEMMA StartsSplit ==
    ASSUME NEW s, NEW a \in Nat, NEW b \in Nat, NEW c \in Nat, a <= b, b <= c
    PROVE  Cardinality(Starts(s, a, c)) = Cardinality(Starts(s, a, b)) + Cardinality(Starts(s, b, c))
<1> DEFINE P == Starts(s, a, b)
           Q == Starts(s, b, c)
<1>1. Starts(s, a, c) = P \cup Q /\ P \cap Q = {}
    BY DEF Starts
<1>2. IsFiniteSet(P) /\ IsFiniteSet(Q) /\ Cardinality(P) \in Nat /\ Cardinality(Q) \in Nat
    BY StartsFinite
<1> HIDE DEF P, Q
<1>3. Cardinality(P \cup Q) = Cardinality(P) + Cardinality(Q) - Cardinality(P \cap Q)
    BY <1>2, FS_Union
<1>4. Cardinality({}) = 0
    BY FS_EmptySet
<1>5. Cardinality(P \cup Q) = Cardinality(P) + Cardinality(Q)
  <2>1. Cardinality(P \cap Q) = 0
      BY <1>1, <1>4
  <2> QED
      BY <1>2, <1>3, <2>1
<1> QED
    BY <1>1, <1>5 DEF P, Q

LEMMA ColumnsWhole == ASSUME NEW s PROVE Columns(s) = Cardinality(Starts(s, 0, Len(s)))
<1>1. 0 + 1 = 1
    OBVIOUS
<1> QED
    BY <1>1, Zenon DEF Columns, Starts

LEMMA ColumnsTake ==
    ASSUME NEW s \in Strings, NEW n \in 0 .. Len(s)
    PROVE  Columns(Take(s, n)) = Cardinality(Starts(s, 0, n))
<1> DEFINE t == Take(s, n)
<1>1. Len(t) = n /\ \A i \in 1 .. n : t[i] = s[i]
    BY CutParts DEF Strings
<1>2. Columns(t) = Cardinality(Starts(t, 0, n))
    BY <1>1, ColumnsWhole
<1> HIDE DEF t
<1>3. Starts(t, 0, n) = Starts(s, 0, n)
    BY <1>1 DEF Starts
<1> QED
    BY <1>2, <1>3 DEF t

LEMMA ColumnsDrop ==
    ASSUME NEW s \in Strings, NEW n \in 0 .. Len(s)
    PROVE  Columns(Drop(s, n)) = Cardinality(Starts(s, n, Len(s)))
<1> DEFINE t == Drop(s, n)
           m == Len(s)
<1>1. m \in Nat /\ n \in 0 .. m /\ Len(t) = m - n /\ \A i \in 1 .. (m - n) : t[i] = s[n + i]
    BY CutParts DEF Strings
<1>2. Columns(t) = Cardinality(Starts(t, 0, m - n))
    BY <1>1, ColumnsWhole
<1> HIDE DEF t, m
<1> DEFINE A == Starts(t, 0, m - n)
           B == Starts(s, n, m)
           f == [i \in A |-> n + i]
<1>3. IsFiniteSet(A)
    BY <1>1, StartsFinite
<1>4. \A i \in A : i \in 1 .. (m - n) /\ ~IsContinuation(t[i])
    BY <1>1 DEF Starts
<1>5. \A i \in A : n + i \in B
    BY <1>1, <1>4 DEF Starts
<1>6. \A k \in B : k - n \in A /\ n + (k - n) = k
  <2> TAKE k \in B
  <2>1. k \in (n + 1) .. m /\ ~IsContinuation(s[k])
      BY <1>1 DEF Starts
  <2>2. k - n \in 1 .. (m - n) /\ n + (k - n) = k
      BY <1>1, <2>1
  <2>3. t[k - n] = s[k]
      BY <1>1, <2>2
  <2> QED
      BY <2>1, <2>2, <2>3 DEF Starts
<1>7. f \in Bijection(A, B)
  <2> HIDE DEF A, B
  <2>1. f \in [A -> B]
      BY <1>5
  <2>2. \A x, y \in A : f[x] = f[y] => x = y
      BY <1>1, <1>4
  <2>3. \A k \in B : \E i \in A : f[i] = k
      BY <1>6
  <2>4. DOMAIN f = A
      OBVIOUS
  <2> HIDE DEF f
  <2>5. IsInjective(f)
      BY <2>2, <2>4 DEF IsInjective
  <2> QED
      BY <2>1, <2>3, <2>5, Zenon DEF Bijection, Injection, Surjection
<1>8. ExistsBijection(A, B)
    BY <1>7, Zenon DEF ExistsBijection
<1>9. Cardinality(B) = Cardinality(A)
  <2> HIDE DEF A, B
  <2> QED
      BY <1>3, <1>8, FS_Bijection
<1> QED
    BY <1>2, <1>9 DEF t, m

(* The redraw leaves the cursor after what precedes it. *)
LEMMA ColumnsLeft ==
    ASSUME NEW s \in Strings, NEW n \in 0 .. Len(s)
    PROVE  Columns(s) - Columns(Drop(s, n)) = Columns(Take(s, n))
<1>0. Len(s) \in Nat
    BY DEF Strings
<1>1. Columns(s) = Cardinality(Starts(s, 0, Len(s)))
    BY ColumnsWhole
<1>2. Cardinality(Starts(s, 0, Len(s))) = Cardinality(Starts(s, 0, n)) + Cardinality(Starts(s, n, Len(s)))
    BY <1>0, StartsSplit
<1>3. Cardinality(Starts(s, 0, n)) \in Nat /\ Cardinality(Starts(s, n, Len(s))) \in Nat
    BY <1>0, StartsFinite
<1> QED
    BY <1>1, <1>2, <1>3, ColumnsTake, ColumnsDrop

(* Between two neighbouring places there is one column. *)
LEMMA OneColumn ==
    ASSUME NEW s \in Strings, NEW a \in 0 .. Len(s), NEW b \in 0 .. Len(s), a < b,
           ~IsContinuation(s[a + 1]), \A k \in (a + 2) .. b : IsContinuation(s[k])
    PROVE  Columns(Take(s, b)) = Columns(Take(s, a)) + 1
<1>0. Len(s) \in Nat /\ a \in Nat /\ b \in Nat
    BY DEF Strings
<1>1. Starts(s, a, b) = {a + 1}
  <2>1. \A i \in (a + 1) .. b : i = a + 1 \/ i \in (a + 2) .. b
      BY <1>0
  <2>2. a + 1 \in (a + 1) .. b
      BY <1>0
  <2> QED
      BY <2>1, <2>2 DEF Starts
<1>2. Cardinality(Starts(s, a, b)) = 1
    BY <1>1, FS_Singleton
<1>3. Cardinality(Starts(s, 0, b)) = Cardinality(Starts(s, 0, a)) + Cardinality(Starts(s, a, b))
    BY <1>0, StartsSplit
<1> QED
    BY <1>2, <1>3, ColumnsTake

LEMMA CleanStart ==
    ASSUME NEW w, NEW s, NEW n, Line(s, n, w), n < Len(s)
    PROVE  ~IsContinuation(s[n + 1])
<1>1. Len(s) \in Nat /\ n \in 0 .. Len(s) /\ Clean(s) /\ Boundary(s, n)
    BY DEF Line, Text, Strings
<1>2. CASE n = 0
  <2>1. 1 \in 1 .. Len(s) /\ n + 1 = 1
      BY <1>1, <1>2
  <2>2. ~Follows(s, 1)
      BY DEF Follows
  <2> QED
      BY <1>1, <2>1, <2>2 DEF Clean
<1>3. CASE n # 0
    BY <1>1, <1>3 DEF Boundary
<1> QED
    BY <1>2, <1>3

LEMMA PrevColumn ==
    ASSUME NEW w, NEW e, Line(e.buf, e.cursor, w), e.cursor # 0
    PROVE  Columns(Take(e.buf, PrevChar(e, e.cursor))) = Columns(Take(e.buf, e.cursor)) - 1
<1> DEFINE b == e.buf
           c == e.cursor
           S == {0} \cup {k \in 1..(c - 1) : ~IsContinuation(b[k + 1])}
           p == Greatest(S)
<1>1. Text(b, w) /\ c \in 0 .. Len(b) /\ Len(b) \in Nat /\ b \in Strings /\ c # 0
    BY TextLen DEF Line, Text
<1>2. PrevChar(e, e.cursor) = p /\ Line(b, p, w)
    BY PrevCharPlace DEF PrevChar
<1> HIDE DEF b, c
<1>3. S \subseteq 0 .. c /\ S # {} /\ c \in Nat
    BY <1>1
<1>4. p \in S /\ \A k \in S : k <= p
  <2> HIDE DEF S
  <2> QED
      BY <1>3, GreatestIn
<1>5. p \in 0 .. (c - 1) /\ p \in 0 .. Len(b) /\ p < c /\ p < Len(b)
    BY <1>1, <1>4
<1>6. \A k \in (p + 2) .. c : IsContinuation(b[k])
  <2> SUFFICES ASSUME NEW k \in (p + 2) .. c, ~IsContinuation(b[k]) PROVE FALSE
      OBVIOUS
  <2> HIDE DEF p
  <2>1. k - 1 \in 1 .. (c - 1) /\ k - 1 + 1 = k /\ k - 1 > p
      BY <1>1, <1>5
  <2>2. k - 1 \in S
      BY <2>1
  <2> QED
      BY <1>4, <1>5, <2>1, <2>2
<1> HIDE DEF p
<1>7. ~IsContinuation(b[p + 1])
    BY <1>2, <1>5, CleanStart
<1>8. Columns(Take(b, c)) = Columns(Take(b, p)) + 1
    BY <1>1, <1>5, <1>6, <1>7, OneColumn
<1>9. Columns(Take(b, p)) \in Nat
    BY <1>1, <1>5, ColumnsTake, StartsFinite
<1>10. Columns(Take(b, p)) = Columns(Take(b, c)) - 1
    BY <1>8, <1>9
<1> QED
    BY <1>2, <1>10 DEF b, c

LEMMA NextColumn ==
    ASSUME NEW w, NEW e, Line(e.buf, e.cursor, w), ~(e.cursor >= Len(e.buf))
    PROVE  Columns(Take(e.buf, NextChar(e, e.cursor))) = Columns(Take(e.buf, e.cursor)) + 1
<1> DEFINE b == e.buf
           c == e.cursor
           S == {Len(b)} \cup {k \in (c + 1)..(Len(b) - 1) : ~IsContinuation(b[k + 1])}
           p == Smallest(S)
<1>1. Text(b, w) /\ c \in 0 .. Len(b) /\ Len(b) \in Nat /\ b \in Strings /\ c < Len(b)
    BY TextLen DEF Line, Text
<1>2. NextChar(e, e.cursor) = p
    BY DEF NextChar
<1>a. ~IsContinuation(b[c + 1])
    BY <1>1, CleanStart
<1> HIDE DEF b, c
<1>3. S \subseteq Nat /\ S # {}
    BY <1>1
<1>4. p \in S /\ \A k \in S : p <= k
  <2> HIDE DEF S
  <2> QED
      BY <1>3, SmallestIn
<1>5. p \in 0 .. Len(b) /\ c < p
    BY <1>1, <1>4
<1>6. \A k \in (c + 2) .. p : IsContinuation(b[k])
  <2> SUFFICES ASSUME NEW k \in (c + 2) .. p, ~IsContinuation(b[k]) PROVE FALSE
      OBVIOUS
  <2> HIDE DEF p
  <2>1. k - 1 \in (c + 1) .. (Len(b) - 1) /\ k - 1 + 1 = k /\ k - 1 < p
      BY <1>1, <1>5
  <2>2. k - 1 \in S
      BY <2>1
  <2> QED
      BY <1>4, <1>5, <2>1, <2>2
<1> HIDE DEF p
<1>8. Columns(Take(b, p)) = Columns(Take(b, c)) + 1
    BY <1>1, <1>5, <1>6, <1>a, OneColumn
<1> QED
    BY <1>2, <1>8 DEF b, c

(* A byte at the end of the line is a column if it starts a character. *)
LEMMA ByteColumn ==
    ASSUME NEW s \in Strings, NEW b \in Bytes
    PROVE  Columns(Append(s, b)) = IF IsContinuation(b) THEN Columns(s) ELSE Columns(s) + 1
<1> DEFINE t == Append(s, b)
           n == Len(s)
<1>1. n \in Nat /\ Len(t) = n + 1 /\ t[n + 1] = b /\ \A i \in 1 .. n : t[i] = s[i]
    BY DEF Strings
<1> HIDE DEF t
<1>2. Columns(t) = Cardinality(Starts(t, 0, n + 1))
    BY <1>1, ColumnsWhole
<1>3. Cardinality(Starts(t, 0, n + 1)) = Cardinality(Starts(t, 0, n)) + Cardinality(Starts(t, n, n + 1))
    BY <1>1, StartsSplit
<1>4. Starts(t, 0, n) = Starts(s, 0, n)
    BY <1>1 DEF Starts
<1>5. Cardinality(Starts(s, 0, n)) = Columns(s) /\ Cardinality(Starts(s, 0, n)) \in Nat
    BY <1>1, ColumnsWhole, StartsFinite
<1>6. CASE IsContinuation(b)
  <2>1. Starts(t, n, n + 1) = {}
      BY <1>1, <1>6 DEF Starts
  <2>2. Cardinality(Starts(t, n, n + 1)) = 0
      BY <2>1, FS_EmptySet
  <2> QED
      BY <1>2, <1>3, <1>4, <1>5, <1>6, <2>2 DEF t
<1>7. CASE ~IsContinuation(b)
  <2>1. Starts(t, n, n + 1) = {n + 1}
      BY <1>1, <1>7 DEF Starts
  <2>2. Cardinality(Starts(t, n, n + 1)) = 1
      BY <2>1, FS_Singleton
  <2> QED
      BY <1>2, <1>3, <1>4, <1>5, <1>7, <2>2 DEF t
<1> QED
    BY <1>6, <1>7

(* The terminal's line has its parts, and a search has ended every escape    *)
(* sequence.                                                                 *)
Drawn(e) == DOMAIN e.scr = {"mode", "line", "col"}

Drew(e) == Drawn(e) /\ (e.search # <<>> => e.esc = "none")

(* What a key must do: the screen follows the line. *)
Follow(e, f) == Drew(f) /\ (InStep(e) => InStep(f))

LEMMA RedrawFollows ==
    ASSUME NEW e, NEW g, Fields \subseteq DOMAIN g, g.search = <<>>,
           g.buf \in Strings, g.cursor \in 0 .. Len(g.buf)
    PROVE  Follow(e, Redraw(g)) /\ InStep(Redraw(g)) /\ Redraw(g).search = <<>>
<1> DEFINE x == Shows(g.buf, Columns(g.buf) - Columns(Drop(g.buf, g.cursor)))
           f == [g EXCEPT !.scr = x]
<1>1. Redraw(g) = f
    BY DEF Redraw
<1>2. /\ DOMAIN x = {"mode", "line", "col"} /\ x.mode = "line" /\ x.line = g.buf
      /\ x.col = Columns(g.buf) - Columns(Drop(g.buf, g.cursor))
    BY DEF Shows
<1>3. x.col = Columns(Take(g.buf, g.cursor))
    BY <1>2, ColumnsLeft
<1> HIDE DEF x
<1>4. f.scr = x /\ f.buf = g.buf /\ f.cursor = g.cursor /\ f.search = <<>>
    BY DEF Fields
<1> HIDE DEF f
<1>5. InStep(f) /\ Drew(f)
    BY <1>2, <1>3, <1>4 DEF InStep, Drew, Drawn
<1> QED
    BY <1>1, <1>4, <1>5 DEF Follow

(* A line that was redrawn and is good now. *)
LEMMA RedrawnFollows ==
    ASSUME NEW w, NEW e, NEW g, Fields \subseteq DOMAIN g, g.search = <<>>, Good(Redraw(g), w)
    PROVE  Follow(e, Redraw(g)) /\ InStep(Redraw(g)) /\ Redraw(g).search = <<>>
<1>1. Redraw(g).buf = g.buf /\ Redraw(g).cursor = g.cursor
    BY RedrawFields
<1>2. g.buf \in Strings /\ g.cursor \in 0 .. Len(g.buf)
    BY <1>1 DEF Good, Line, Text
<1> QED
    BY <1>2, RedrawFollows

LEMMA SameFollows ==
    ASSUME NEW e, NEW f, Drew(e), f.scr = e.scr, f.buf = e.buf, f.cursor = e.cursor,
           f.search = e.search, f.search # <<>> => f.esc = "none"
    PROVE  Follow(e, f)
BY DEF Follow, Drew, Drawn, InStep

LEMMA SelfFollows == ASSUME NEW e, Drew(e) PROVE Follow(e, e)
BY SameFollows DEF Drew

LEMMA RenderFollows ==
    ASSUME NEW e, NEW g, Fields \subseteq DOMAIN g, Drawn(g), g.search # <<>>, g.esc = "none"
    PROVE  Follow(e, RenderSearch(g))
<1> DEFINE f == RenderSearch(g)
<1>1. f = [g EXCEPT !.scr.mode = "search"]
    BY DEF RenderSearch
<1>2. /\ f.search = g.search /\ f.esc = g.esc /\ f.scr.mode = "search"
      /\ DOMAIN f.scr = {"mode", "line", "col"}
    BY <1>1 DEF Fields, Drawn
<1> HIDE DEF f
<1> QED
    BY <1>2 DEF f, Follow, Drew, Drawn, InStep

-----------------------------------------------------------------------------
(* One lemma for the keys that redraw, one for those that move.  *)
LEMMA DrainFields ==
    ASSUME NEW e, Fields \subseteq DOMAIN e, NEW a, NEW b
    PROVE  /\ Fields \subseteq DOMAIN Drain(e, a, b) /\ Drain(e, a, b).search = e.search
           /\ \A x : /\ Fields \subseteq DOMAIN [Drain(e, a, b) EXCEPT !.kill = x]
                     /\ [Drain(e, a, b) EXCEPT !.kill = x].search = e.search
<1> DEFINE t == Take(e.buf, a) \o Drop(e.buf, b)
           d == [e EXCEPT !.buf = t, !.cursor = a]
<1>1. Drain(e, a, b) = d
    BY DEF Drain
<1> HIDE DEF t
<1>2. Fields \subseteq DOMAIN d /\ d.search = e.search
    BY DEF Fields
<1> HIDE DEF d
<1>3. \A x : /\ Fields \subseteq DOMAIN [d EXCEPT !.kill = x]
             /\ [d EXCEPT !.kill = x].search = e.search
    BY <1>2 DEF Fields
<1> QED
    BY <1>1, <1>2, <1>3

LEMMA DeletesFollow ==
    ASSUME NEW w, NEW e, Good(e, w), Drew(e), e.search = <<>>
    PROVE  /\ Follow(e, Backspace(e)) /\ Follow(e, DeleteForward(e)) /\ Follow(e, KillToStart(e))
           /\ Follow(e, KillToEnd(e)) /\ Follow(e, KillWord(e))
<1>0. Fields \subseteq DOMAIN e
    BY DEF Good, Kept
<1>1. ASSUME NEW a, NEW b, Good(Redraw(Drain(e, a, b)), w)
      PROVE  Follow(e, Redraw(Drain(e, a, b)))
    BY <1>0, <1>1, DrainFields, RedrawnFollows
<1>2. ASSUME NEW a, NEW b, NEW x, Good(Redraw([Drain(e, a, b) EXCEPT !.kill = x]), w)
      PROVE  Follow(e, Redraw([Drain(e, a, b) EXCEPT !.kill = x]))
  <2> DEFINE g == [Drain(e, a, b) EXCEPT !.kill = x]
  <2>1. Fields \subseteq DOMAIN g /\ g.search = <<>>
      BY <1>0, DrainFields
  <2> HIDE DEF g
  <2> QED
      BY <1>2, <2>1, RedrawnFollows DEF g
<1>3. Follow(e, e)
    BY SelfFollows
<1>4. Follow(e, Backspace(e))
  <2>1. Good(Backspace(e), w)
      BY BackspaceSafe DEF Safe
  <2> QED
      BY <1>1, <1>3, <2>1 DEF Backspace
<1>5. Follow(e, DeleteForward(e))
  <2>1. Good(DeleteForward(e), w)
      BY DeleteForwardSafe DEF Safe
  <2> QED
      BY <1>1, <1>3, <2>1 DEF DeleteForward
<1>6. Good(KillToStart(e), w) /\ Good(KillToEnd(e), w) /\ Good(KillWord(e), w)
    BY KillsSafe DEF Safe
<1>7. Follow(e, KillToStart(e)) /\ Follow(e, KillToEnd(e))
    BY <1>2, <1>3, <1>6 DEF KillToStart, KillToEnd
<1>8. Follow(e, KillWord(e))
  <2> DEFINE ink == Greatest({0} \cup {k \in 1..e.cursor : e.buf[k] \notin Blanks})
             from == Greatest({0} \cup {k \in 1..ink : e.buf[k] \in Blanks})
             g == Redraw([Drain(e, from, e.cursor) EXCEPT !.kill = SubSeq(e.buf, from + 1, e.cursor)])
  <2>1. KillWord(e) = IF e.cursor = 0 THEN e ELSE g
      BY Zenon DEF KillWord
  <2> HIDE DEF from
  <2>2. Good(g, w) => Follow(e, g)
      BY <1>2
  <2> HIDE DEF g
  <2> QED
      BY <1>3, <1>6, <2>1, <2>2
<1> QED
    BY <1>4, <1>5, <1>7, <1>8

LEMMA MovesFollow ==
    ASSUME NEW w, NEW e, Good(e, w), Drew(e), e.search = <<>>
    PROVE  /\ Follow(e, MoveHome(e)) /\ Follow(e, MoveEnd(e))
           /\ Follow(e, MoveLeft(e)) /\ Follow(e, MoveRight(e))
<1>0. Fields \subseteq DOMAIN e /\ Line(e.buf, e.cursor, w)
    BY DEF Good, Kept
<1>1. Good(MoveHome(e), w) /\ Good(MoveEnd(e), w)
    BY MovesSafe DEF Safe
<1>2. ASSUME NEW n, Good(Redraw([e EXCEPT !.cursor = n]), w)
      PROVE  Follow(e, Redraw([e EXCEPT !.cursor = n]))
  <2> DEFINE g == [e EXCEPT !.cursor = n]
  <2>1. Fields \subseteq DOMAIN g /\ g.search = <<>>
      BY <1>0 DEF Fields
  <2> HIDE DEF g
  <2> QED
      BY <1>2, <2>1, RedrawnFollows DEF g
<1>3. Follow(e, MoveHome(e)) /\ Follow(e, MoveEnd(e))
    BY <1>1, <1>2 DEF MoveHome, MoveEnd
<1>4. ASSUME NEW n, NEW y, InStep(e) => y = Columns(Take(e.buf, n))
      PROVE  Follow(e, [e EXCEPT !.cursor = n, !.scr.col = y])
  <2> DEFINE f == [e EXCEPT !.cursor = n, !.scr.col = y]
  <2>1. /\ f.search = <<>> /\ f.buf = e.buf /\ f.cursor = n
        /\ DOMAIN f.scr = {"mode", "line", "col"} /\ f.scr.col = y
        /\ f.scr.mode = e.scr.mode /\ f.scr.line = e.scr.line
      BY <1>0 DEF Fields, Drew, Drawn
  <2> HIDE DEF f
  <2>2. Follow(e, f)
      BY <1>4, <2>1 DEF Follow, Drew, Drawn, InStep
  <2> QED
      BY <2>2 DEF f
<1>5. Follow(e, MoveLeft(e))
  <2>1. CASE e.cursor = 0
      BY <2>1, SelfFollows DEF MoveLeft
  <2>2. CASE e.cursor # 0
    <3> DEFINE n == PrevChar(e, e.cursor)
               y == e.scr.col - 1
    <3>1. MoveLeft(e) = [e EXCEPT !.cursor = n, !.scr.col = y]
        BY <2>2, Zenon DEF MoveLeft
    <3>2. InStep(e) => y = Columns(Take(e.buf, n))
        BY <1>0, <2>2, PrevColumn DEF InStep
    <3> HIDE DEF n, y
    <3>3. Follow(e, [e EXCEPT !.cursor = n, !.scr.col = y])
        BY <1>4, <3>2, Zenon
    <3> QED
        BY <3>1, <3>3, Zenon
  <2> QED
      BY <2>1, <2>2
<1>6. Follow(e, MoveRight(e))
  <2>1. CASE e.cursor >= Len(e.buf)
      BY <2>1, SelfFollows DEF MoveRight
  <2>2. CASE ~(e.cursor >= Len(e.buf))
    <3> DEFINE n == NextChar(e, e.cursor)
               y == e.scr.col + 1
    <3>1. MoveRight(e) = [e EXCEPT !.cursor = n, !.scr.col = y]
        BY <2>2, Zenon DEF MoveRight
    <3>2. InStep(e) => y = Columns(Take(e.buf, n))
        BY <1>0, <2>2, NextColumn DEF InStep
    <3> HIDE DEF n, y
    <3>3. Follow(e, [e EXCEPT !.cursor = n, !.scr.col = y])
        BY <1>4, <3>2, Zenon
    <3> QED
        BY <3>1, <3>3, Zenon
  <2> QED
      BY <2>1, <2>2
<1> QED
    BY <1>3, <1>5, <1>6

LEMMA RelinesFollow ==
    ASSUME NEW w, NEW e, Good(e, w), Drew(e), e.search = <<>>
    PROVE  /\ Follow(e, Yank(e)) /\ Follow(e, Interrupt(e)) /\ Follow(e, Redraw(e))
           /\ Follow(e, Submit(e)) /\ Follow(e, CtrlD(e))
<1>0. Fields \subseteq DOMAIN e
    BY DEF Good, Kept
<1>a. Follow(e, e)
    BY SelfFollows
<1>1. Follow(e, Redraw(e))
  <2>1. Good(Redraw(e), w)
      BY GoodSelf, RedrawSafe DEF Safe
  <2> QED
      BY <1>0, <2>1, RedrawnFollows
<1>2. Follow(e, Yank(e))
  <2> DEFINE t == Take(e.buf, e.cursor) \o e.kill \o Drop(e.buf, e.cursor)
             n == e.cursor + Len(e.kill)
             g == [e EXCEPT !.buf = t, !.cursor = n, !.histPos = 0]
  <2>1. Yank(e) = e \/ Yank(e) = Redraw(g)
      BY DEF Yank
  <2> HIDE DEF t, n
  <2>2. Fields \subseteq DOMAIN g /\ g.search = <<>>
      BY <1>0 DEF Fields
  <2> HIDE DEF g
  <2>3. Good(Yank(e), w)
      BY YankSafe DEF Safe
  <2> QED
      BY <1>a, <2>1, <2>2, <2>3, RedrawnFollows
<1>3. Fields \subseteq DOMAIN ClearLine(e) /\ ClearLine(e).search = <<>>
    BY <1>0 DEF ClearLine, Fields
<1>4. Follow(e, Interrupt(e))
  <2>1. Good(Interrupt(e), w)
      BY InterruptSafe DEF Safe
  <2> QED
      BY <1>3, <2>1, RedrawnFollows DEF Interrupt
<1>5. Follow(e, Submit(e))
  <2> DEFINE c == ClearLine(e)
             h == PushHistory(c.history, Lossy(e.buf))
             g == [c EXCEPT !.history = h]
  <2>1. Submit(e) = Redraw(g)
      BY Zenon DEF Submit
  <2> HIDE DEF c, h
  <2>2. Fields \subseteq DOMAIN g /\ g.search = <<>>
      BY <1>3 DEF Fields, c
  <2> HIDE DEF g
  <2>3. Good(Submit(e), w)
      BY SubmitSafe DEF Safe
  <2> QED
      BY <2>1, <2>2, <2>3, RedrawnFollows
<1>6. Follow(e, CtrlD(e))
  <2> DEFINE g == [e EXCEPT !.open = FALSE]
  <2>1. CtrlD(e) = g \/ CtrlD(e) = DeleteForward(e)
      BY DEF CtrlD
  <2>2. g.scr = e.scr /\ g.buf = e.buf /\ g.cursor = e.cursor /\ g.search = e.search
      BY <1>0 DEF Fields
  <2> HIDE DEF g
  <2>3. Follow(e, g)
      BY <2>2, SameFollows
  <2> QED
      BY <2>1, <2>3, DeletesFollow
<1> QED
    BY <1>1, <1>2, <1>4, <1>5, <1>6

LEMMA HistoryFollows ==
    ASSUME NEW w, NEW e, Good(e, w), Drew(e), e.search = <<>>
    PROVE  Follow(e, HistoryPrev(e)) /\ Follow(e, HistoryNext(e))
<1>0. Fields \subseteq DOMAIN e /\ e.histPos \in 0 .. Len(e.history) /\ Len(e.history) \in Nat
    BY DEF Good, Kept, Remembered
<1>a. Follow(e, e)
    BY SelfFollows
<1>1. ASSUME NEW d, NEW i, Fields \subseteq DOMAIN d, d.search = <<>>, Good(Recall(d, i), w)
      PROVE  Follow(e, Recall(d, i))
  <2> DEFINE t == d.history[i]
             g == [d EXCEPT !.histPos = i, !.buf = t, !.cursor = Len(t)]
  <2>1. Recall(d, i) = Redraw(g)
      BY DEF Recall
  <2> HIDE DEF t
  <2>2. Fields \subseteq DOMAIN g /\ g.search = <<>>
      BY <1>1 DEF Fields
  <2> HIDE DEF g
  <2> QED
      BY <1>1, <2>1, <2>2, RedrawnFollows
<1>2. Good(HistoryPrev(e), w) /\ Good(HistoryNext(e), w)
    BY HistoryPrevSafe, HistoryNextSafe DEF Safe
<1>3. Follow(e, HistoryPrev(e))
  <2> DEFINE s == [e EXCEPT !.stash = e.buf]
  <2>1. \/ HistoryPrev(e) = e \/ HistoryPrev(e) = Recall(s, Len(e.history))
        \/ HistoryPrev(e) = Recall(e, e.histPos - 1)
    <3>1. CASE e.history = <<>> \/ e.histPos = 1
        BY <1>0, <3>1 DEF HistoryPrev
    <3>2. CASE e.history # <<>> /\ e.histPos = 0
        BY <3>2 DEF HistoryPrev
    <3>3. CASE e.history # <<>> /\ e.histPos > 1
        BY <1>0, <3>3 DEF HistoryPrev
    <3> QED
        BY <1>0, <3>1, <3>2, <3>3
  <2>2. Fields \subseteq DOMAIN s /\ s.search = <<>>
      BY <1>0 DEF Fields
  <2> HIDE DEF s
  <2> QED
      BY <1>0, <1>a, <1>1, <1>2, <2>1, <2>2
<1>4. Follow(e, HistoryNext(e))
  <2> DEFINE g == [e EXCEPT !.histPos = 0, !.buf = e.stash, !.cursor = Len(e.stash), !.stash = <<>>]
  <2>1. \/ HistoryNext(e) = e \/ HistoryNext(e) = Recall(e, e.histPos + 1)
        \/ HistoryNext(e) = Redraw(g)
      BY <1>0 DEF HistoryNext
  <2>2. Fields \subseteq DOMAIN g /\ g.search = <<>>
      BY <1>0 DEF Fields
  <2> HIDE DEF g
  <2> QED
      BY <1>0, <1>a, <1>1, <1>2, <2>1, <2>2, RedrawnFollows
<1> QED
    BY <1>3, <1>4

(* A byte at the end of the line is drawn alone, any other with the line. *)
LEMMA InsertFollows ==
    ASSUME NEW e, Fields \subseteq DOMAIN e, e.buf \in Strings, e.cursor \in 0 .. Len(e.buf),
           Drew(e), e.search = <<>>, NEW b \in Bytes
    PROVE  Follow(e, Insert(e, b)) /\ Insert(e, b).search = <<>>
<1> DEFINE s == e.buf
           c == e.cursor
           t == Take(s, c) \o <<b>> \o Drop(s, c)
           n == [e EXCEPT !.buf = t, !.cursor = c + 1, !.histPos = 0]
           r == [e EXCEPT !.cut = TRUE]
<1>0. s \in Strings /\ c \in 0 .. Len(s) /\ Len(s) \in Nat
    BY DEF Strings
<1>1. t \in Strings /\ Len(t) = Len(s) + 1
  <2>1. /\ Take(s, c) \in Seq(Bytes) /\ Len(Take(s, c)) = c
        /\ Drop(s, c) \in Seq(Bytes) /\ Len(Drop(s, c)) = Len(s) - c
      BY <1>0, CutParts DEF Strings
  <2> DEFINE a == Take(s, c)
             z == Drop(s, c)
  <2> HIDE DEF a, z
  <2>2. a \o <<b>> \o z \in Seq(Bytes) /\ Len(a \o <<b>> \o z) = Len(a) + 1 + Len(z)
    <3>1. a \in Seq(Bytes) /\ z \in Seq(Bytes)
        BY <2>1 DEF a, z
    <3> QED
        BY <3>1, InsertParts
  <2>3. Len(a) + 1 + Len(z) = Len(s) + 1
      BY <1>0, <2>1 DEF a, z
  <2> QED
      BY <2>2, <2>3 DEF a, z, Strings
<1>2. c = Len(s) => t = Append(s, b)
  <2> SUFFICES ASSUME c = Len(s) PROVE t = Append(s, b)
      OBVIOUS
  <2>1. s \in Seq(Bytes)
      BY <1>0 DEF Strings
  <2>2. Take(s, c) = s /\ Drop(s, c) = <<>>
    <3> HIDE DEF s
    <3> QED
        BY <1>0, <2>1 DEF Take, Drop
  <2> HIDE DEF s
  <2>3. s \o <<b>> \o <<>> = Append(s, b)
      BY <2>1
  <2> QED
      BY <2>2, <2>3
<1>3. Insert(e, b) = IF Len(s) >= MaxBuffer THEN r
                     ELSE IF n.cursor = Len(n.buf) THEN AppendByte(n, b) ELSE Redraw(n)
    BY Zenon DEF Insert
<1> HIDE DEF s, c, t
<1>4. /\ Fields \subseteq DOMAIN n /\ n.search = <<>> /\ n.buf = t /\ n.cursor = c + 1
      /\ n.scr = e.scr /\ n.esc = e.esc
    BY DEF Fields
<1>5. r.scr = e.scr /\ r.buf = e.buf /\ r.cursor = e.cursor /\ r.search = e.search
    BY DEF Fields
<1> HIDE DEF n, r
<1>6. CASE Len(s) >= MaxBuffer
    BY <1>3, <1>5, <1>6, SameFollows
<1>7. CASE ~(Len(s) >= MaxBuffer) /\ n.cursor # Len(n.buf)
  <2>1. c + 1 \in 0 .. Len(t)
      BY <1>0, <1>1
  <2> QED
      BY <1>1, <1>3, <1>4, <1>7, <2>1, RedrawFollows
<1>8. CASE ~(Len(s) >= MaxBuffer) /\ n.cursor = Len(n.buf)
  <2> DEFINE y == IF IsContinuation(b) THEN n.scr.col ELSE n.scr.col + 1
             f == [n EXCEPT !.scr.line = Append(n.scr.line, b), !.scr.col = y]
  <2>1. Insert(e, b) = AppendByte(n, b)
      BY <1>3, <1>8
  <2>2. c = Len(s) /\ t = Append(s, b)
      BY <1>0, <1>1, <1>2, <1>4, <1>8
  <2>3. AppendByte(n, b) = f
      BY Zenon DEF AppendByte
  <2>4. /\ f.search = <<>> /\ f.buf = t /\ f.cursor = c + 1
        /\ DOMAIN f.scr = {"mode", "line", "col"} /\ f.scr.col = y
        /\ f.scr.mode = e.scr.mode /\ f.scr.line = Append(e.scr.line, b)
    <3> DEFINE z == Append(n.scr.line, b)
    <3>1. z = Append(e.scr.line, b)
        BY <1>4
    <3> HIDE DEF y, z
    <3>2. [n EXCEPT !.scr.line = z, !.scr.col = y].scr = [n.scr EXCEPT !.line = z, !.col = y]
        BY <1>4 DEF Fields
    <3> QED
        BY <1>4, <3>1, <3>2 DEF Fields, Drew, Drawn, z
  <2> HIDE DEF f
  <2>5. Take(t, c + 1) = t
    <3>1. t \in Seq(Bytes) /\ Len(t) = c + 1
        BY <1>1, <2>2 DEF Strings
    <3> QED
        BY <3>1 DEF Take
  <2>6. Take(s, c) = s
    <3>1. s \in Seq(Bytes)
        BY <1>0 DEF Strings
    <3> QED
        BY <2>2, <3>1 DEF Take
  <2>7. Columns(t) = IF IsContinuation(b) THEN Columns(s) ELSE Columns(s) + 1
      BY <1>0, <2>2, ByteColumn
  <2>8. InStep(e) => e.scr.mode = "line" /\ e.scr.line = s /\ e.scr.col = Columns(s)
      BY <2>6 DEF InStep, s, c
  <2>9. InStep(e) => f.scr.mode = "line" /\ f.scr.line = t /\ f.scr.col = Columns(t)
      BY <1>4, <2>2, <2>4, <2>7, <2>8
  <2>10. InStep(e) => InStep(f)
      BY <2>4, <2>5, <2>9 DEF InStep
  <2> QED
      BY <2>1, <2>3, <2>4, <2>10 DEF Follow, Drew, Drawn
<1> QED
    BY <1>6, <1>7, <1>8

LEMMA CompletionFollows ==
    ASSUME NEW w, NEW e, Good(e, w), Drew(e), e.search = <<>>
    PROVE  Follow(e, CompleteCurrentWord(e))
<1>0. Fields \subseteq DOMAIN e
    BY DEF Good, Kept
<1> DEFINE start == WordStartAt(e)
           word == Lossy(SubSeq(e.buf, start + 1, e.cursor))
           done == Complete(word, \A i \in 1..start : e.buf[i] \in Blanks)
<1>1. CompleteCurrentWord(e) =
        CASE done.kind = "none" -> e
          [] done.kind = "single" -> ApplyCompletion(e, done.text, done.space)
          [] done.kind = "listing" -> Redraw(e)
    BY Zenon DEF CompleteCurrentWord
<1>2. done.kind \in {"none", "single", "listing"}
  <2>1. Line(e.buf, e.cursor, w) /\ Text(e.buf, w) /\ e.cursor \in 0 .. Len(e.buf)
      BY DEF Good, Line
  <2>2. Line(e.buf, start, w) /\ start <= e.cursor
      BY <2>1, BlankPlace DEF WordStartAt
  <2> HIDE DEF start
  <2>3. Text(SubSeq(e.buf, start + 1, e.cursor), w)
      BY <2>1, <2>2, LineBetween
  <2>4. Text(word, w)
      BY <2>3, LossySound, SoundText DEF Text
  <2> HIDE DEF word
  <2> QED
      BY <2>4, CompleteOutcome DEF Outcome
<1> HIDE DEF done
<1>3. Good(CompleteCurrentWord(e), w)
    BY CompleteCurrentWordSafe DEF Safe
<1>4. CASE done.kind = "none"
    BY <1>1, <1>4, SelfFollows
<1>5. CASE done.kind = "listing"
    BY <1>1, <1>5, RelinesFollow
<1>6. CASE done.kind = "single"
  <2> DEFINE text == done.text
             space == done.space
             head == Take(e.buf, WordStartAt(e)) \o text \o (IF space THEN <<"sp">> ELSE <<>>)
             tail == Drop(e.buf, e.cursor)
             room == IF MaxBuffer > Len(head) THEN MaxBuffer - Len(head) ELSE 0
             keep == Greatest({k \in 0..Least(room, Len(tail)) : Boundary(tail, k)})
             t == head \o Take(tail, keep)
             n == Len(head)
             g == [e EXCEPT !.buf = t, !.cursor = n]
  <2>1. CompleteCurrentWord(e) = ApplyCompletion(e, text, space)
      BY <1>1, <1>6
  <2>2. ApplyCompletion(e, text, space) = Redraw(g)
      BY Zenon DEF ApplyCompletion
  <2> HIDE DEF t, n
  <2>3. Fields \subseteq DOMAIN g /\ g.search = <<>>
      BY <1>0 DEF Fields
  <2> HIDE DEF g, text, space
  <2> QED
      BY <1>3, <2>1, <2>2, <2>3, RedrawnFollows
<1> QED
    BY <1>2, <1>4, <1>5, <1>6

(* Searching shows the search. *)
LEMMA SearchesFollow ==
    ASSUME NEW w, NEW e, Good(e, w), Drew(e), e.search # <<>>
    PROVE  Follow(e, SearchStep(e)) /\ \A query : Follow(e, SearchFor(e, query))
<1>0. Fields \subseteq DOMAIN e /\ e.esc = "none" /\ Drawn(e)
    BY DEF Good, Kept, Drew
<1>1. e.search \in Searches /\ Len(e.search) = 1
    BY SearchOpen
<1>2. ASSUME NEW r PROVE [e.search EXCEPT ![1] = r] # <<>>
  <2> DEFINE s == e.search
  <2>1. DOMAIN s = {1}
      BY <1>1 DEF Searches
  <2> HIDE DEF s
  <2>2. DOMAIN [s EXCEPT ![1] = r] = {1}
      BY <2>1
  <2>3. DOMAIN <<>> = {}
      OBVIOUS
  <2> QED
      BY <2>2, <2>3 DEF s
<1>3. ASSUME NEW r, NEW g, g = [e EXCEPT !.search[1] = r] PROVE Follow(e, RenderSearch(g))
  <2>1. /\ Fields \subseteq DOMAIN g /\ g.search = [e.search EXCEPT ![1] = r]
        /\ g.esc = e.esc /\ g.scr = e.scr
      BY <1>0, <1>3 DEF Fields
  <2>2. g.search # <<>>
      BY <1>2, <2>1
  <2>3. Drawn(g)
      BY <1>0, <2>1 DEF Drawn
  <2> QED
      BY <1>0, <2>1, <2>2, <2>3, RenderFollows
<1>4. ASSUME NEW query PROVE Follow(e, SearchFor(e, query))
  <2> DEFINE r == [query |-> query, matched |-> FindMatch(e, Len(e.history) + 1, query)]
             g == [e EXCEPT !.search[1] = r]
  <2>1. SearchFor(e, query) = RenderSearch(g)
      BY Zenon DEF SearchFor
  <2> HIDE DEF r
  <2>2. Follow(e, RenderSearch(g))
      BY <1>3
  <2> QED
      BY <2>1, <2>2
<1>5. Follow(e, SearchStep(e))
  <2> DEFINE s == e.search[1]
             from == IF s.matched = 0 THEN Len(e.history) + 1 ELSE s.matched
             m == FindMatch(e, from, s.query)
             f == [e EXCEPT !.search[1].matched = m]
             r == [s EXCEPT !.matched = m]
  <2>1. SearchStep(e) = RenderSearch(e) \/ SearchStep(e) = RenderSearch(f)
      BY DEF SearchStep
  <2> HIDE DEF m
  <2>2. f = [e EXCEPT !.search[1] = r]
      OBVIOUS
  <2> HIDE DEF f, r
  <2>3. Follow(e, RenderSearch(f))
      BY <1>3, <2>2
  <2>4. Follow(e, RenderSearch(e))
      BY <1>0, RenderFollows
  <2> QED
      BY <2>1, <2>3, <2>4
<1> QED
    BY <1>4, <1>5

LEMMA StartSearchFollows ==
    ASSUME NEW w, NEW e, Good(e, w), Drew(e), e.esc = "none"
    PROVE  Follow(e, StartSearch(e))
<1> DEFINE s == <<[query |-> <<>>, matched |-> 0]>>
           g == [e EXCEPT !.search = s]
<1>0. Fields \subseteq DOMAIN e /\ Drawn(e)
    BY DEF Good, Kept, Drew
<1>1. StartSearch(e) = RenderSearch(g)
    BY Zenon DEF StartSearch
<1>2. s # <<>>
    OBVIOUS
<1> HIDE DEF s
<1>3. Fields \subseteq DOMAIN g /\ g.search = s /\ g.esc = e.esc /\ g.scr = e.scr
    BY <1>0 DEF Fields
<1> HIDE DEF g
<1>4. Drawn(g)
    BY <1>0, <1>3 DEF Drawn
<1> QED
    BY <1>1, <1>2, <1>3, <1>4, RenderFollows

LEMMA AcceptedDrew ==
    ASSUME NEW w, NEW e, Good(e, w), Drew(e), e.search # <<>>
    PROVE  LET f == AcceptSearch(e)
           IN  Drew(f) /\ f.search = <<>> /\ f.esc = "none" /\ Fields \subseteq DOMAIN f
<1> DEFINE i == e.search[1].matched
           found == IF i = 0 THEN e.buf ELSE e.history[i]
           kept == IF i = 0 THEN found ELSE Take(found, Least(Len(found), MaxBuffer))
           c == e.cut \/ kept # found
           n == Len(kept)
           f == [e EXCEPT !.search = <<>>, !.buf = kept, !.cursor = n, !.histPos = 0, !.cut = c]
<1>0. Fields \subseteq DOMAIN e /\ e.esc = "none" /\ Drawn(e)
    BY DEF Good, Kept, Drew
<1>1. AcceptSearch(e) = f
    BY Zenon DEF AcceptSearch
<1> HIDE DEF kept, c, n
<1>2. Fields \subseteq DOMAIN f /\ f.search = <<>> /\ f.esc = e.esc /\ f.scr = e.scr
    BY <1>0 DEF Fields
<1> HIDE DEF f
<1> QED
    BY <1>0, <1>1, <1>2 DEF Drew, Drawn

-----------------------------------------------------------------------------
(* The keys again. *)
LEMMA EscFollows ==
    ASSUME NEW w, NEW e, Good(e, w), Drew(e), e.search = <<>>
    PROVE  /\ \A x : Follow(e, [e EXCEPT !.esc = x])
           /\ \A x, p : Follow(e, [e EXCEPT !.esc = x, !.params = p])
           /\ \A p : Follow(e, [e EXCEPT !.params = p])
<1>0. Fields \subseteq DOMAIN e
    BY DEF Good, Kept
<1>1. ASSUME NEW x PROVE Follow(e, [e EXCEPT !.esc = x])
  <2> DEFINE f == [e EXCEPT !.esc = x]
  <2>1. f.scr = e.scr /\ f.buf = e.buf /\ f.cursor = e.cursor /\ f.search = e.search
      BY <1>0 DEF Fields
  <2> HIDE DEF f
  <2> QED
      BY <2>1, SameFollows DEF f
<1>2. ASSUME NEW x, NEW p PROVE Follow(e, [e EXCEPT !.esc = x, !.params = p])
  <2> DEFINE f == [e EXCEPT !.esc = x, !.params = p]
  <2>1. f.scr = e.scr /\ f.buf = e.buf /\ f.cursor = e.cursor /\ f.search = e.search
      BY <1>0 DEF Fields
  <2> HIDE DEF f
  <2> QED
      BY <2>1, SameFollows DEF f
<1>3. ASSUME NEW p PROVE Follow(e, [e EXCEPT !.params = p])
  <2> DEFINE f == [e EXCEPT !.params = p]
  <2>1. f.scr = e.scr /\ f.buf = e.buf /\ f.cursor = e.cursor /\ f.search = e.search
      BY <1>0 DEF Fields
  <2> HIDE DEF f
  <2> QED
      BY <2>1, SameFollows DEF f
<1> QED
    BY <1>1, <1>2, <1>3

LEMMA PlainKeyFollows ==
    ASSUME NEW w, NEW e, Good(e, w), Drew(e), e.search = <<>>, e.esc = "none", NEW key
    PROVE  Follow(e, PlainKey(e, key))
<1>1. Follow(e, Submit(e)) /\ Follow(e, Yank(e)) /\ Follow(e, Interrupt(e)) /\ Follow(e, CtrlD(e))
      /\ Follow(e, Redraw(e))
    BY RelinesFollow
<1>2. Follow(e, [e EXCEPT !.esc = "got"])
    BY EscFollows
<1>3. Follow(e, CompleteCurrentWord(e))
    BY CompletionFollows
<1>4. /\ Follow(e, MoveHome(e)) /\ Follow(e, MoveEnd(e))
      /\ Follow(e, MoveLeft(e)) /\ Follow(e, MoveRight(e))
    BY MovesFollow
<1>5. Follow(e, HistoryPrev(e)) /\ Follow(e, HistoryNext(e))
    BY HistoryFollows
<1>6. /\ Follow(e, Backspace(e)) /\ Follow(e, KillToStart(e))
      /\ Follow(e, KillToEnd(e)) /\ Follow(e, KillWord(e))
    BY DeletesFollow
<1>7. Follow(e, StartSearch(e)) /\ Follow(e, e)
    BY StartSearchFollows, SelfFollows
<1> DEFINE Named == {"Enter", "Esc", "Tab", "Backspace", "Home", "End", "Left", "Right", "Prev",
                     "Next", "KillStart", "KillEnd", "KillWord", "Yank", "Clear", "Search",
                     "Interrupt", "Eof"}
<1>8. CASE key \in Named
  <2>0. key \notin Printable
      BY <1>8 DEF Printable
  <2>1. CASE key \in {"Enter", "Esc", "Tab", "Backspace"}
      BY <2>0, <2>1, <1>1, <1>2, <1>3, <1>6 DEF PlainKey
  <2>2. CASE key \in {"Home", "End", "Left", "Right"}
      BY <2>0, <2>2, <1>4 DEF PlainKey
  <2>3. CASE key \in {"Prev", "Next", "KillStart", "KillEnd", "KillWord"}
      BY <2>0, <2>3, <1>5, <1>6 DEF PlainKey
  <2>4. CASE key \in {"Yank", "Clear", "Search", "Interrupt", "Eof"}
      BY <2>0, <2>4, <1>1, <1>7 DEF PlainKey
  <2> QED
      BY <1>8, <2>1, <2>2, <2>3, <2>4
<1>9. CASE key \notin Named /\ key \in Printable
  <2>1. PlainKey(e, key) = Insert(e, key)
      BY <1>9 DEF PlainKey
  <2>2. key \in Bytes
      BY <1>9 DEF Bytes
  <2>3. Fields \subseteq DOMAIN e /\ e.buf \in Strings /\ e.cursor \in 0 .. Len(e.buf)
      BY DEF Good, Kept, Line, Text
  <2> QED
      BY <2>1, <2>2, <2>3, InsertFollows
<1>10. CASE key \notin Named /\ key \notin Printable
  <2>1. PlainKey(e, key) = e
      BY <1>10 DEF PlainKey
  <2> QED
      BY <1>7, <2>1
<1> QED
    BY <1>8, <1>9, <1>10

LEMMA InputCsiFollows ==
    ASSUME NEW w, NEW e, Good(e, w), Drew(e), e.search = <<>>, NEW key
    PROVE  Follow(e, InputCsi(e, key))
<1> DEFINE d == [e EXCEPT !.esc = "none", !.params = <<>>]
           n == [e EXCEPT !.params = Append(@, key)]
<1>1. Follow(e, d) /\ Follow(e, n) /\ Follow(e, e)
    BY EscFollows, SelfFollows
<1>2. Safe(e, d, w)
    BY EscSafe
<1>3. d.search = <<>>
    BY DEF Good, Kept, Fields
<1>4. \/ InputCsi(e, key) \in {e, n, d}
      \/ InputCsi(e, key) \in {HistoryPrev(d), HistoryNext(d), MoveRight(d), MoveLeft(d)}
      \/ InputCsi(e, key) \in {MoveHome(d), MoveEnd(d), DeleteForward(d)}
  <2>1. CASE key \in {"1", "3", "4", ";"}
      BY <2>1 DEF InputCsi
  <2>2. CASE key \in {"A", "B", "C", "D", "H", "E"}
      BY <2>2 DEF InputCsi
  <2>3. CASE key \notin {"1", "3", "4", ";", "A", "B", "C", "D", "H", "E", "~"}
      BY <2>3 DEF InputCsi
  <2>4. CASE key = "~"
      BY <2>4 DEF InputCsi
  <2> QED
      BY <2>1, <2>2, <2>3, <2>4
<1> HIDE DEF d, n
<1>5. Good(d, w) /\ Drew(d) /\ (InStep(e) => InStep(d))
    BY <1>1, <1>2 DEF Safe, Follow
<1>6. /\ Follow(d, HistoryPrev(d)) /\ Follow(d, HistoryNext(d)) /\ Follow(d, MoveRight(d))
      /\ Follow(d, MoveLeft(d)) /\ Follow(d, MoveHome(d)) /\ Follow(d, MoveEnd(d))
      /\ Follow(d, DeleteForward(d))
    BY <1>3, <1>5, HistoryFollows, MovesFollow, DeletesFollow
<1>7. \A g : Follow(d, g) => Follow(e, g)
    BY <1>5 DEF Follow
<1> QED
    BY <1>1, <1>4, <1>6, <1>7

(* In search all keys but Tab are seen. *)
LEMMA InputSearchFollows ==
    ASSUME NEW w, NEW e, Good(e, w), Drew(e), e.search # <<>>, NEW key
    PROVE  Drew(InputSearch(e, key)) /\ (key # "Tab" => Follow(e, InputSearch(e, key)))
<1> DEFINE f == AcceptSearch(e)
           query == e.search[1].query
           cutq == Take(query, IF query = <<>> THEN 0 ELSE Len(query) - 1)
           addq == IF Len(query) < MaxBuffer THEN Append(query, key) ELSE query
<1>1. f.search = <<>> /\ \E v : Good(f, v) /\ (Mode(e, w) => Mode(f, v))
    BY AcceptSearchSettled
<1>2. PICK v : Good(f, v)
    BY <1>1, Zenon
<1>3. Drew(f) /\ f.esc = "none" /\ Fields \subseteq DOMAIN f
    BY AcceptedDrew, Zenon
<1>4. \A g : Follow(e, g) => Drew(g)
    BY DEF Follow
<1>5. \A q : Follow(e, SearchFor(e, q))
    BY SearchesFollow
<1>6. CASE key \in Printable
  <2>1. InputSearch(e, key) = SearchFor(e, addq)
      BY <1>6 DEF InputSearch, Printable
  <2> QED
      BY <1>4, <1>5, <2>1
<1>7. CASE key = "Enter"
  <2>1. InputSearch(e, key) = Submit(f)
      BY <1>7 DEF InputSearch, Printable
  <2> HIDE DEF f
  <2>2. Good(Submit(f), v)
      BY <1>1, <1>2, SubmitSafe DEF Safe
  <2> DEFINE c == ClearLine(f)
             h == PushHistory(c.history, Lossy(f.buf))
             g == [c EXCEPT !.history = h]
  <2>3. Submit(f) = Redraw(g)
      BY Zenon DEF Submit
  <2>4. Fields \subseteq DOMAIN c /\ c.search = <<>>
      BY <1>1, <1>3 DEF ClearLine, Fields
  <2> HIDE DEF c, h
  <2>5. Fields \subseteq DOMAIN g /\ g.search = <<>>
      BY <2>4 DEF Fields
  <2> HIDE DEF g
  <2>6. Follow(e, Redraw(g))
      BY <2>2, <2>3, <2>5, RedrawnFollows
  <2> QED
      BY <1>4, <2>1, <2>3, <2>6
<1>8. CASE key = "Search"
  <2>1. InputSearch(e, key) = SearchStep(e)
      BY <1>8 DEF InputSearch, Printable
  <2> QED
      BY <1>4, <2>1, SearchesFollow
<1>9. CASE key \in {"Abort", "Interrupt", "Esc"}
  <2> DEFINE g == [e EXCEPT !.search = <<>>]
  <2>1. InputSearch(e, key) = Redraw(g)
      BY <1>9 DEF InputSearch, Printable
  <2>2. Fields \subseteq DOMAIN g /\ g.search = <<>> /\ g.buf = e.buf /\ g.cursor = e.cursor
      BY DEF Good, Kept, Fields
  <2>3. e.buf \in Strings /\ e.cursor \in 0 .. Len(e.buf)
      BY DEF Good, Line, Text
  <2> HIDE DEF g
  <2>4. Follow(e, Redraw(g))
      BY <2>2, <2>3, RedrawFollows
  <2> QED
      BY <1>4, <2>1, <2>4
<1>10. CASE key = "Backspace"
  <2>1. InputSearch(e, key) = SearchFor(e, cutq)
      BY <1>10 DEF InputSearch, Printable
  <2> QED
      BY <1>4, <1>5, <2>1
<1>11. CASE key = "Tab"
  <2>1. InputSearch(e, key) = CompleteCurrentWord(f)
      BY <1>11 DEF InputSearch, Printable
  <2> HIDE DEF f
  <2>2. Follow(f, CompleteCurrentWord(f))
      BY <1>1, <1>2, <1>3, CompletionFollows
  <2> QED
      BY <1>11, <2>1, <2>2 DEF Follow
<1>12. CASE key \notin Printable \cup {"Enter", "Search", "Abort", "Interrupt", "Esc", "Backspace", "Tab"}
  <2> DEFINE g == Redraw(f)
  <2>1. InputSearch(e, key) = PlainKey(g, key)
      BY <1>12 DEF InputSearch
  <2> HIDE DEF f
  <2>2. Good(g, v)
      BY <1>2, GoodSelf, RedrawSafe DEF Safe
  <2>3. Follow(e, g) /\ InStep(g) /\ g.search = <<>>
      BY <1>1, <1>3, <2>2, RedrawnFollows
  <2>4. g.esc = "none"
      BY <1>3, RedrawFields DEF Relined
  <2> HIDE DEF g
  <2>5. Follow(g, PlainKey(g, key))
      BY <2>2, <2>3, <2>4, PlainKeyFollows DEF Follow
  <2> QED
      BY <2>1, <2>3, <2>5 DEF Follow
<1> QED
    BY <1>6, <1>7, <1>8, <1>9, <1>10, <1>11, <1>12

LEMMA InputFollows ==
    ASSUME NEW w, NEW e, Good(e, w), Drew(e), NEW key
    PROVE  /\ Drew(Input(e, key))
           /\ ~(e.search # <<>> /\ key = "Tab") => Follow(e, Input(e, key))
<1>0. e.esc \in {"none", "got", "csi"} /\ (e.esc # "none" => e.search = <<>>)
    BY DEF Good, Kept, Drew
<1>a. \A g : Follow(e, g) => Drew(g)
    BY DEF Follow
<1>1. CASE e.esc = "got"
  <2>1. Input(e, key) = InputAfterEsc(e, key)
      BY <1>1 DEF Input
  <2>2. Follow(e, InputAfterEsc(e, key))
      BY <1>0, <1>1, EscFollows DEF InputAfterEsc
  <2> QED
      BY <1>a, <2>1, <2>2
<1>2. CASE e.esc = "csi"
  <2>1. Input(e, key) = InputCsi(e, key)
      BY <1>2 DEF Input
  <2> QED
      BY <1>0, <1>2, <1>a, <2>1, InputCsiFollows
<1>3. CASE e.esc = "none" /\ e.search # <<>>
  <2>1. Input(e, key) = InputSearch(e, key)
      BY <1>3 DEF Input
  <2> QED
      BY <1>3, <2>1, InputSearchFollows
<1>4. CASE e.esc = "none" /\ e.search = <<>>
  <2>1. Input(e, key) = PlainKey(e, key)
      BY <1>4 DEF Input
  <2> QED
      BY <1>4, <1>a, <2>1, PlainKeyFollows
<1> QED
    BY <1>0, <1>1, <1>2, <1>3, <1>4

-----------------------------------------------------------------------------
(* What completion keeps. *)
LEMMA StartsWithIs ==
    ASSUME NEW s \in Strings, NEW p \in Strings
    PROVE  StartsWith(s, p) <=> (Len(p) <= Len(s) /\ \A i \in 1 .. Len(p) : s[i] = p[i])
<1> DEFINE n == Len(p)
<1>1. n \in Nat /\ Len(s) \in Nat /\ p \in Seq(Bytes) /\ s \in Seq(Bytes)
    BY DEF Strings
<1>2. ASSUME n <= Len(s) PROVE (Take(s, n) = p) <=> (\A i \in 1 .. n : s[i] = p[i])
  <2>1. n \in 0 .. Len(s)
      BY <1>1, <1>2
  <2>2. Take(s, n) \in Seq(Bytes) /\ Len(Take(s, n)) = n /\ \A i \in 1 .. n : Take(s, n)[i] = s[i]
      BY <1>1, <2>1, CutParts
  <2>3. (\A i \in 1 .. n : s[i] = p[i]) => Take(s, n) = p
    <3> SUFFICES ASSUME \A i \in 1 .. n : s[i] = p[i] PROVE Take(s, n) = p
        OBVIOUS
    <3>1. \A i \in 1 .. n : Take(s, n)[i] = p[i]
        BY <2>2
    <3> QED
        BY <1>1, <2>2, <3>1, SeqEqual
  <2>4. Take(s, n) = p => \A i \in 1 .. n : s[i] = p[i]
      BY <2>2
  <2> QED
      BY <2>3, <2>4
<1> QED
    BY <1>2 DEF StartsWith

LEMMA StartsWithSelf == ASSUME NEW s \in Strings PROVE StartsWith(s, s)
<1>1. Len(s) \in Nat
    BY DEF Strings
<1> QED
    BY <1>1, StartsWithIs

LEMMA StartsWithMore ==
    ASSUME NEW s \in Strings, NEW p \in Strings, NEW t \in Strings, StartsWith(s, p)
    PROVE  s \o t \in Strings /\ StartsWith(s \o t, p)
<1>1. Len(p) <= Len(s) /\ \A i \in 1 .. Len(p) : s[i] = p[i]
    BY StartsWithIs
<1> DEFINE u == s \o t
<1>2. /\ u \in Strings /\ Len(u) = Len(s) + Len(t) /\ Len(s) \in Nat /\ Len(t) \in Nat /\ Len(p) \in Nat
      /\ \A i \in 1 .. Len(s) : u[i] = s[i]
    BY DEF Strings
<1> HIDE DEF u
<1>3. Len(p) <= Len(u) /\ \A i \in 1 .. Len(p) : u[i] = p[i]
    BY <1>1, <1>2
<1>4. StartsWith(u, p)
    BY <1>2, <1>3, StartsWithIs
<1> QED
    BY <1>2, <1>4 DEF u

LEMMA StartsWithAfter ==
    ASSUME NEW a \in Strings, NEW s \in Strings, NEW p \in Strings, StartsWith(s, p)
    PROVE  a \o s \in Strings /\ a \o p \in Strings /\ StartsWith(a \o s, a \o p)
<1>1. Len(p) <= Len(s) /\ \A i \in 1 .. Len(p) : s[i] = p[i]
    BY StartsWithIs
<1> DEFINE u == a \o s
           v == a \o p
           m == Len(a)
<1>2. /\ u \in Strings /\ Len(u) = m + Len(s) /\ m \in Nat /\ Len(s) \in Nat /\ Len(p) \in Nat
      /\ \A i \in 1 .. m : u[i] = a[i]
      /\ \A i \in 1 .. Len(s) : u[m + i] = s[i]
    BY ConcatParts DEF Strings
<1>3. /\ v \in Strings /\ Len(v) = m + Len(p)
      /\ \A i \in 1 .. m : v[i] = a[i]
      /\ \A i \in 1 .. Len(p) : v[m + i] = p[i]
    BY ConcatParts DEF Strings
<1> HIDE DEF u, v, m
<1>4. Len(v) <= Len(u)
    BY <1>1, <1>2, <1>3
<1>5. \A i \in 1 .. Len(v) : u[i] = v[i]
  <2> TAKE i \in 1 .. Len(v)
  <2>1. CASE i \in 1 .. m
      BY <1>2, <1>3, <2>1
  <2>2. CASE i \notin 1 .. m
    <3> DEFINE j == i - m
    <3>1. j \in 1 .. Len(p) /\ i = m + j /\ j \in 1 .. Len(s)
        BY <1>1, <1>2, <1>3, <2>2
    <3> HIDE DEF j
    <3> QED
        BY <1>1, <1>2, <1>3, <3>1
  <2> QED
      BY <2>1, <2>2
<1>6. StartsWith(u, v)
    BY <1>2, <1>3, <1>4, <1>5, StartsWithIs
<1> QED
    BY <1>2, <1>3, <1>6 DEF u, v

LEMMA StartsWithTake ==
    ASSUME NEW s \in Strings, NEW p \in Strings, StartsWith(s, p), NEW n \in 0 .. Len(s), Len(p) <= n
    PROVE  Take(s, n) \in Strings /\ StartsWith(Take(s, n), p)
<1>1. Len(p) <= Len(s) /\ (\A i \in 1 .. Len(p) : s[i] = p[i]) /\ Len(p) \in Nat
    BY StartsWithIs DEF Strings
<1> DEFINE u == Take(s, n)
<1>a. s \in Seq(Bytes) /\ n \in Nat
    BY DEF Strings
<1>2. u \in Strings /\ Len(u) = n /\ (\A i \in 1 .. n : u[i] = s[i]) /\ n \in Nat
    BY <1>a, CutParts DEF Strings
<1> HIDE DEF u
<1>3. Len(p) <= Len(u) /\ \A i \in 1 .. Len(p) : u[i] = p[i]
    BY <1>1, <1>2
<1>4. StartsWith(u, p)
    BY <1>2, <1>3, StartsWithIs
<1> QED
    BY <1>2, <1>4 DEF u

LEMMA TakePrefix ==
    ASSUME NEW s \in Strings, NEW n \in 0 .. Len(s)
    PROVE  StartsWith(s, Take(s, n))
<1>1. Take(s, n) \in Strings /\ Len(Take(s, n)) = n /\ (\A i \in 1 .. n : Take(s, n)[i] = s[i])
    BY CutParts DEF Strings
<1>2. n <= Len(s)
    OBVIOUS
<1> QED
    BY <1>1, <1>2, StartsWithIs

(* The two sides of a cut make the string again. *)
LEMMA CutWhole ==
    ASSUME NEW s \in Strings, NEW n \in 0 .. Len(s)
    PROVE  Take(s, n) \o Drop(s, n) = s
<1> DEFINE a == Take(s, n)
           b == Drop(s, n)
           u == a \o b
           m == Len(s)
<1>1. /\ a \in Seq(Bytes) /\ Len(a) = n /\ b \in Seq(Bytes) /\ Len(b) = m - n
      /\ \A i \in 1 .. n : a[i] = s[i]
      /\ \A i \in 1 .. (m - n) : b[i] = s[n + i]
    BY CutParts DEF Strings
<1>2. m \in Nat /\ n \in 0 .. m /\ s \in Seq(Bytes)
    BY DEF Strings
<1>a. a \in Seq(Bytes) /\ b \in Seq(Bytes)
    BY <1>1
<1> HIDE DEF a, b
<1>3. /\ u \in Seq(Bytes) /\ Len(u) = Len(a) + Len(b)
      /\ \A i \in 1 .. Len(a) : u[i] = a[i]
      /\ \A i \in 1 .. Len(b) : u[Len(a) + i] = b[i]
    BY <1>a, ConcatParts
<1> HIDE DEF u, m
<1>4. Len(u) = m
    BY <1>1, <1>2, <1>3
<1>5. \A i \in 1 .. m : u[i] = s[i]
  <2> TAKE i \in 1 .. m
  <2>1. CASE i \in 1 .. n
      BY <1>1, <1>3, <2>1
  <2>2. CASE i \notin 1 .. n
    <3> DEFINE j == i - n
    <3>1. j \in 1 .. (m - n) /\ i = n + j
        BY <1>2, <2>2
    <3> HIDE DEF j
    <3> QED
        BY <1>1, <1>3, <3>1
  <2> QED
      BY <2>1, <2>2
<1>6. u = s
    BY <1>2, <1>3, <1>4, <1>5, SeqEqual DEF m
<1> QED
    BY <1>6 DEF u, a, b

(* The common prefix of some names is the beginning of one of them. *)
LEMMA CommonPrefixOfOne ==
    ASSUME NEW names, names # {}, \A n \in names : Text(n, "whole"), NEW p \in Strings,
           \A n \in names : StartsWith(n, p), Len(CommonPrefix(names)) > Len(p)
    PROVE  CommonPrefix(names) \in Strings /\ StartsWith(CommonPrefix(names), p)
<1> DEFINE first == CHOOSE n \in names : TRUE
           shared == {k \in 0..Len(first) : \A n \in names : StartsWith(n, Take(first, k))}
           g == Greatest(shared)
           q == Greatest({k \in 0..g : Boundary(first, k)})
<1>1. first \in names
    OBVIOUS
<1>2. CommonPrefix(names) = Take(first, q)
    BY DEF CommonPrefix
<1>3. Text(first, "whole") /\ Len(first) \in Nat /\ first \in Strings
    BY <1>1, TextLen DEF Text
<1>4. 0 \in shared
  <2> SUFFICES ASSUME NEW n \in names PROVE StartsWith(n, Take(first, 0))
      BY <1>3
  <2>1. n \in Seq(Bytes) /\ first \in Seq(Bytes)
      BY <1>3 DEF Text, Strings
  <2> HIDE DEF first
  <2>2. Take(first, 0) = <<>> /\ Take(n, 0) = <<>>
      BY <2>1 DEF Take
  <2> QED
      BY <2>1, <2>2 DEF StartsWith
<1>5. shared \subseteq 0 .. Len(first)
    OBVIOUS
<1>6. g \in shared
  <2> HIDE DEF shared, first
  <2> QED
      BY <1>3, <1>4, <1>5, GreatestIn
<1>7. g \in 0 .. Len(first)
    BY <1>5, <1>6
<1>8. Line(first, q, "whole")
  <2> HIDE DEF first, g
  <2> QED
      BY <1>3, <1>7, FitPlace
<1>9. StartsWith(first, p)
    BY <1>1
<1> HIDE DEF first, q
<1>10. q \in 0 .. Len(first) /\ Len(Take(first, q)) = q
  <2>1. q \in 0 .. Len(first)
      BY <1>8 DEF Line
  <2>2. Len(Take(first, q)) = q
      BY <1>8, LineCut
  <2> QED
      BY <2>1, <2>2
<1>11. Len(p) <= q
  <2>1. Len(p) \in Nat /\ q \in Nat /\ q > Len(p)
      BY <1>2, <1>10 DEF Strings
  <2> QED
      BY <2>1
<1> QED
    BY <1>2, <1>3, <1>9, <1>10, <1>11, StartsWithTake

Adds(d, word) == d.kind = "single" => StartsWith(d.text, word)

LEMMA AddsCases ==
    ASSUME NEW word
    PROVE  /\ Adds(Nothing, word) /\ Adds(Ambiguous, word)
           /\ \A t, space : StartsWith(t, word) => Adds(Single(t, space), word)
<1>1. Adds(Nothing, word) /\ Adds(Ambiguous, word)
    BY DEF Adds, Nothing, Ambiguous
<1>2. ASSUME NEW t, NEW space, StartsWith(t, word) PROVE Adds(Single(t, space), word)
  <2>1. Single(t, space).text = t
      BY DEF Single
  <2> QED
      BY <1>2, <2>1 DEF Adds
<1> QED
    BY <1>1, <1>2

LEMMA CompleteCommandAdds ==
    ASSUME NEW word \in Strings PROVE Adds(CompleteCommand(word), word)
<1> DEFINE names == {n \in Programs : StartsWith(n, word)}
           lcp == CommonPrefix(names)
           n1 == CHOOSE n \in names : TRUE
<1>1. \A n \in names : Text(n, "whole") /\ StartsWith(n, word)
    BY NamesText
<1>2. \/ CompleteCommand(word) = Nothing
      \/ CompleteCommand(word) = Ambiguous
      \/ names # {} /\ CompleteCommand(word) = Single(n1, TRUE)
      \/ names # {} /\ Len(lcp) > Len(word) /\ CompleteCommand(word) = Single(lcp, FALSE)
  <2>1. names = {} => Cardinality(names) = 0
      BY FS_EmptySet
  <2>2. CompleteCommand(word) =
           CASE names = {} -> Nothing
             [] Cardinality(names) = 1 -> Single(n1, TRUE)
             [] Cardinality(names) > 1 /\ Len(lcp) > Len(word) -> Single(lcp, FALSE)
             [] OTHER -> Ambiguous
      BY DEF CompleteCommand
  <2> HIDE DEF names, lcp, n1
  <2> DEFINE more == Cardinality(names) > 1 /\ Len(lcp) > Len(word)
  <2>3. CASE names = {}
    <3>1. ~(Cardinality(names) = 1) /\ ~more
        BY <2>1, <2>3
    <3> HIDE DEF more
    <3> QED
        BY <2>2, <2>3, <3>1 DEF more
  <2>4. CASE names # {} /\ Cardinality(names) = 1
      BY <2>2, <2>4
  <2>5. CASE names # {} /\ Cardinality(names) # 1 /\ more
      BY <2>2, <2>5
  <2>6. CASE names # {} /\ Cardinality(names) # 1 /\ ~more
      BY <2>2, <2>6
  <2> QED
      BY <2>3, <2>4, <2>5, <2>6
<1>3. names # {} => StartsWith(n1, word)
  <2> HIDE DEF names
  <2> QED
      BY <1>1
<1> HIDE DEF names, n1
<1>4. names # {} /\ Len(lcp) > Len(word) => StartsWith(lcp, word)
    BY <1>1, CommonPrefixOfOne
<1> HIDE DEF lcp
<1> QED
    BY <1>2, <1>3, <1>4, AddsCases

LEMMA CompletePathAdds ==
    ASSUME NEW word, Text(word, "whole") PROVE Adds(CompletePath(word), word)
<1> DEFINE S == {0} \cup {i \in 1..Len(word) : word[i] = "/"}
           slash == Greatest(S)
           dirPart == Take(word, slash)
           base == Drop(word, slash)
           entries == IF dirPart \in DOMAIN Listing THEN Listing[dirPart] ELSE {}
           cands == {x \in entries : /\ StartsWith(x.name, base)
                                     /\ StartsWith(base, <<".">>) \/ ~StartsWith(x.name, <<".">>)}
           one == CHOOSE x \in cands : TRUE
           names == {x.name : x \in cands}
           lcp == CommonPrefix(names)
           last == IF one.dir THEN <<"/">> ELSE <<>>
<1>1. \/ CompletePath(word) = Nothing
      \/ CompletePath(word) = Ambiguous
      \/ cands # {} /\ CompletePath(word) = Single(dirPart \o one.name \o last, ~one.dir)
      \/ cands # {} /\ Len(lcp) > Len(base) /\ CompletePath(word) = Single(dirPart \o lcp, FALSE)
  <2>1. cands = {} => Cardinality(cands) = 0
      BY FS_EmptySet
  <2>2. CompletePath(word) =
           CASE cands = {} -> Nothing
             [] Cardinality(cands) = 1 -> Single(dirPart \o one.name \o last, ~one.dir)
             [] Cardinality(cands) > 1 /\ Len(lcp) > Len(base) -> Single(dirPart \o lcp, FALSE)
             [] OTHER -> Ambiguous
      BY DEF CompletePath
  <2> HIDE DEF cands, lcp, one, dirPart, last, base
  <2> DEFINE more == Cardinality(cands) > 1 /\ Len(lcp) > Len(base)
  <2>3. CASE cands = {}
    <3>1. ~(Cardinality(cands) = 1) /\ ~more
        BY <2>1, <2>3
    <3> HIDE DEF more
    <3> QED
        BY <2>2, <2>3, <3>1 DEF more
  <2>4. CASE cands # {} /\ Cardinality(cands) = 1
      BY <2>2, <2>4
  <2>5. CASE cands # {} /\ Cardinality(cands) # 1 /\ more
      BY <2>2, <2>5
  <2>6. CASE cands # {} /\ Cardinality(cands) # 1 /\ ~more
      BY <2>2, <2>6
  <2> QED
      BY <2>3, <2>4, <2>5, <2>6
<1>2. \A x \in cands : Text(x.name, "whole") /\ StartsWith(x.name, base)
  <2>1. \A x \in entries : Text(x.name, "whole")
    <3> HIDE DEF dirPart
    <3> QED
        BY NamesText
  <2> HIDE DEF entries, base
  <2> QED
      BY <2>1
<1>3. Len(word) \in Nat /\ word \in Strings
    BY TextLen DEF Text
<1>4. slash \in 0 .. Len(word)
  <2>1. S \subseteq 0 .. Len(word) /\ S # {}
      BY <1>3
  <2>2. slash \in S
    <3> HIDE DEF S
    <3> QED
        BY <1>3, <2>1, GreatestIn
  <2> HIDE DEF S
  <2> QED
      BY <2>1, <2>2
<1> HIDE DEF slash
<1>5. dirPart \in Strings /\ base \in Strings /\ dirPart \o base = word
    BY <1>3, <1>4, CutParts, CutWhole DEF Strings
<1>6. last \in Strings
  <2>1. "/" \in Bytes
      BY DEF Bytes, Printable
  <2> QED
      BY <2>1 DEF Strings
<1> HIDE DEF last, dirPart, base, cands
<1>7. ASSUME NEW t \in Strings, StartsWith(t, base)
      PROVE  dirPart \o t \in Strings /\ StartsWith(dirPart \o t, word)
  <2>1. dirPart \o t \in Strings /\ StartsWith(dirPart \o t, dirPart \o base)
      BY <1>5, <1>7, StartsWithAfter
  <2> QED
      BY <1>5, <2>1
<1>8. cands # {} => StartsWith(dirPart \o one.name \o last, word)
  <2> SUFFICES ASSUME cands # {} PROVE StartsWith(dirPart \o one.name \o last, word)
      OBVIOUS
  <2>1. one \in cands
      OBVIOUS
  <2> HIDE DEF one
  <2>2. one.name \in Strings /\ StartsWith(one.name, base)
      BY <1>2, <2>1 DEF Text
  <2>3. dirPart \o one.name \in Strings /\ StartsWith(dirPart \o one.name, word)
      BY <1>7, <2>2
  <2> QED
      BY <1>3, <1>6, <2>3, StartsWithMore
<1>9. cands # {} /\ Len(lcp) > Len(base) => StartsWith(dirPart \o lcp, word)
  <2> SUFFICES ASSUME cands # {}, Len(lcp) > Len(base) PROVE StartsWith(dirPart \o lcp, word)
      OBVIOUS
  <2>1. names # {} /\ \A n \in names : Text(n, "whole") /\ StartsWith(n, base)
      BY <1>2
  <2> HIDE DEF names
  <2>2. lcp \in Strings /\ StartsWith(lcp, base)
      BY <1>5, <2>1, CommonPrefixOfOne
  <2> HIDE DEF lcp
  <2> QED
      BY <1>7, <2>2
<1> DEFINE p == dirPart \o one.name \o last
           q == dirPart \o lcp
<1>10. CASE CompletePath(word) = Nothing \/ CompletePath(word) = Ambiguous
    BY <1>10, AddsCases
<1>11. CASE cands # {} /\ CompletePath(word) = Single(p, ~one.dir)
  <2>1. StartsWith(p, word)
      BY <1>8, <1>11
  <2> HIDE DEF p, one
  <2> QED
      BY <1>11, <2>1, AddsCases
<1>12. CASE cands # {} /\ Len(lcp) > Len(base) /\ CompletePath(word) = Single(q, FALSE)
  <2>1. StartsWith(q, word)
      BY <1>9, <1>12
  <2> HIDE DEF q, lcp
  <2> QED
      BY <1>12, <2>1, AddsCases
<1> HIDE DEF one, lcp
<1> QED
    BY <1>1, <1>10, <1>11, <1>12, Zenon

(* In a clean text a cut is at most two bytes from a place it may be made. *)
LEMMA FitIsTight ==
    ASSUME NEW s \in Strings, Clean(s), NEW r \in 0 .. Len(s)
    PROVE  LET p == Greatest({k \in 0..r : Boundary(s, k)})
           IN  p \in 0 .. r /\ p + 2 >= r /\ (r = Len(s) => p = r)
<1> DEFINE S == {k \in 0..r : Boundary(s, k)}
           p == Greatest(S)
<1>1. Len(s) \in Nat /\ S \subseteq 0 .. r /\ 0 \in S /\ r \in Nat
    BY DEF Boundary, Strings
<1>2. p \in S /\ \A k \in S : k <= p
  <2> HIDE DEF S
  <2> QED
      BY <1>1, GreatestIn
<1>3. p \in 0 .. r
  <2> HIDE DEF p
  <2> QED
      BY <1>2
<1>4. r = Len(s) => p = r
  <2>1. r = Len(s) => r \in S
      BY <1>1 DEF Boundary
  <2> HIDE DEF p, S
  <2> QED
      BY <1>1, <1>2, <1>3, <2>1
<1>5. p + 2 >= r
  <2>1. CASE r = Len(s)
    <3> HIDE DEF p
    <3> QED
        BY <1>1, <1>3, <1>4, <2>1
  <2>2. CASE r <= 2
    <3> HIDE DEF p
    <3> QED
        BY <1>1, <1>3, <2>2
  <2>3. CASE r # Len(s) /\ r > 2
    <3>1. r + 1 \in 1 .. Len(s)
        BY <1>1, <2>3
    <3>2. IsContinuation(s[r + 1]) => Follows(s, r + 1)
        BY <3>1 DEF Clean
    <3>3. r + 1 - 1 = r /\ r + 1 - 2 = r - 1
        BY <1>1
    <3>4. \/ ~IsContinuation(s[r + 1]) \/ ~IsContinuation(s[r]) \/ ~IsContinuation(s[r - 1])
        BY <3>2, <3>3 DEF Follows, Leads, IsContinuation, Continuation
    <3>5. PICK k \in {r, r - 1, r - 2} : ~IsContinuation(s[k + 1])
      <4>1. r - 1 + 1 = r /\ r - 2 + 1 = r - 1
          BY <1>1
      <4> QED
          BY <3>4, <4>1
    <3>6. k \in 0 .. r /\ k + 2 >= r
        BY <1>1, <2>3
    <3>7. k \in S
        BY <3>5, <3>6 DEF Boundary
    <3> HIDE DEF p, S
    <3>8. k <= p
        BY <1>2, <3>7
    <3> QED
        BY <1>1, <1>3, <3>6, <3>8
  <2> QED
      BY <1>1, <2>1, <2>2, <2>3
<1> QED
    BY <1>3, <1>4, <1>5

(* What a Tab must do to the line. *)
Extends(e, f) ==
    /\ Whole(Take(e.buf, e.cursor)) => StartsWith(Take(f.buf, f.cursor), Take(e.buf, e.cursor))
    /\ StartsWith(Drop(e.buf, e.cursor), Drop(f.buf, f.cursor))
    /\ Drop(f.buf, f.cursor) # Drop(e.buf, e.cursor) => Len(f.buf) + 2 >= MaxBuffer

LEMMA SameExtends ==
    ASSUME NEW w, NEW e, NEW f, Good(e, w), f.buf = e.buf, f.cursor = e.cursor
    PROVE  Extends(e, f)
<1>1. e.buf \in Strings /\ e.cursor \in 0 .. Len(e.buf)
    BY DEF Good, Line, Text
<1>2. Take(e.buf, e.cursor) \in Strings /\ Drop(e.buf, e.cursor) \in Strings
    BY <1>1, CutParts DEF Strings
<1>3. StartsWith(Take(e.buf, e.cursor), Take(e.buf, e.cursor))
      /\ StartsWith(Drop(e.buf, e.cursor), Drop(e.buf, e.cursor))
    BY <1>2, StartsWithSelf
<1> QED
    BY <1>3 DEF Extends

(* Cutting a concatenation where its parts meet. *)
LEMMA ConcatCut ==
    ASSUME NEW a \in Strings, NEW b \in Strings
    PROVE  Take(a \o b, Len(a)) = a /\ Drop(a \o b, Len(a)) = b /\ Len(a \o b) = Len(a) + Len(b)
<1> DEFINE u == a \o b
           m == Len(a)
           n == Len(b)
<1>1. /\ u \in Seq(Bytes) /\ Len(u) = m + n /\ m \in Nat /\ n \in Nat
      /\ \A i \in 1 .. m : u[i] = a[i]
      /\ \A i \in 1 .. n : u[m + i] = b[i]
    BY ConcatParts DEF Strings
<1>2. a \in Seq(Bytes) /\ b \in Seq(Bytes)
    BY DEF Strings
<1> HIDE DEF u
<1>3. m \in 0 .. Len(u) /\ Len(u) - m = n
    BY <1>1
<1>4. /\ Take(u, m) \in Seq(Bytes) /\ Len(Take(u, m)) = m
      /\ \A i \in 1 .. m : Take(u, m)[i] = u[i]
      /\ Drop(u, m) \in Seq(Bytes) /\ Len(Drop(u, m)) = Len(u) - m
      /\ \A i \in 1 .. (Len(u) - m) : Drop(u, m)[i] = u[m + i]
  <2>1. u \in Seq(Bytes)
      BY <1>1
  <2> HIDE DEF m
  <2> QED
      BY <1>3, <2>1, CutParts
<1>5. Take(u, m) = a
    BY <1>1, <1>2, <1>4, SeqEqual
<1>6. Drop(u, m) = b
  <2>1. Len(Drop(u, m)) = n /\ \A i \in 1 .. n : Drop(u, m)[i] = b[i]
      BY <1>1, <1>3, <1>4
  <2>2. Drop(u, m) \in Seq(Bytes)
      BY <1>4
  <2> QED
      BY <1>2, <2>1, <2>2, SeqEqual
<1> QED
    BY <1>1, <1>5, <1>6 DEF u

(* The completed word stands where the word stood, and what fits of the rest *)
(* behind it.                                                                *)
LEMMA ApplyCompletionExtends ==
    ASSUME NEW w, NEW e, Good(e, w), NEW text \in Strings, NEW space,
           Whole(Take(e.buf, e.cursor)) =>
               StartsWith(text, SubSeq(e.buf, WordStartAt(e) + 1, e.cursor))
    PROVE  Extends(e, ApplyCompletion(e, text, space))
<1> DEFINE start == WordStartAt(e)
           last == IF space THEN <<"sp">> ELSE <<>>
           before == Take(e.buf, start)
           head == before \o text \o last
           tail == Drop(e.buf, e.cursor)
           room == IF MaxBuffer > Len(head) THEN MaxBuffer - Len(head) ELSE 0
           top == Least(room, Len(tail))
           keep == Greatest({k \in 0..top : Boundary(tail, k)})
           rest == Take(tail, keep)
           t == head \o rest
           n == Len(head)
           g == [e EXCEPT !.buf = t, !.cursor = n]
           typed == Take(e.buf, e.cursor)
           word == SubSeq(e.buf, start + 1, e.cursor)
<1>0. ApplyCompletion(e, text, space) = Redraw(g)
    BY Zenon DEF ApplyCompletion
<1>1. /\ Line(e.buf, e.cursor, w) /\ Text(e.buf, w) /\ e.cursor \in 0 .. Len(e.buf)
      /\ e.buf \in Strings /\ Fields \subseteq DOMAIN e
    BY DEF Good, Kept, Line, Text
<1>2. Line(e.buf, start, w) /\ start <= e.cursor /\ start \in 0 .. Len(e.buf)
    BY <1>1, BlankPlace DEF WordStartAt, Line
<1>a. Whole(typed) => StartsWith(text, word)
    OBVIOUS
<1> HIDE DEF start
<1>3. before \in Strings /\ word \in Strings /\ last \in Strings /\ tail \in Strings /\ Clean(tail)
  <2>1. before \in Strings
      BY <1>1, <1>2, CutParts DEF Strings
  <2>2. word \in Strings
      BY <1>1, <1>2, LineBetween DEF Text
  <2>3. last \in Strings
    <3>1. "sp" \in Bytes
        BY DEF Bytes, Printable
    <3> QED
        BY <3>1 DEF Strings
  <2>4. tail \in Strings /\ Clean(tail)
      BY <1>1, LineCut DEF Text
  <2> QED
      BY <2>1, <2>2, <2>3, <2>4
<1>4. before \o word = typed
  <2>1. typed \in Strings /\ Len(typed) = e.cursor
      BY <1>1, CutParts DEF Strings
  <2>2. start \in 0 .. Len(typed)
      BY <1>1, <1>2, <2>1
  <2>3. Take(typed, start) \o Drop(typed, start) = typed
    <3> HIDE DEF typed
    <3> QED
        BY <2>1, <2>2, CutWhole
  <2>4. Take(typed, start) = before /\ Drop(typed, start) = word
      BY <1>1, <1>2, CutOfTake
  <2> QED
      BY <2>3, <2>4
<1> HIDE DEF before, word, last, tail, typed
<1>5. head \in Strings /\ before \o text \in Strings
    BY <1>3, ConcatStrings
<1>6. Whole(typed) => StartsWith(head, typed)
  <2> SUFFICES ASSUME Whole(typed) PROVE StartsWith(head, typed)
      OBVIOUS
  <2>1. StartsWith(text, word)
      BY <1>a
  <2>2. StartsWith(before \o text, before \o word) /\ before \o word \in Strings
      BY <1>3, <2>1, StartsWithAfter
  <2>3. StartsWith(head, before \o word)
      BY <1>3, <1>5, <2>2, StartsWithMore
  <2> QED
      BY <1>4, <2>3
<1> HIDE DEF head
<1>7. Len(head) \in Nat /\ Len(tail) \in Nat
    BY <1>3, <1>5 DEF Strings
<1>8. top \in 0 .. Len(tail) /\ room \in Nat /\ (top = room \/ top = Len(tail))
    BY <1>7, LineBounds DEF Least
<1>9. keep \in 0 .. top /\ keep + 2 >= top /\ (top = Len(tail) => keep = top)
  <2> HIDE DEF top
  <2> QED
      BY <1>3, <1>8, FitIsTight, Zenon
<1> HIDE DEF keep
<1>10. keep \in 0 .. Len(tail)
  <2> HIDE DEF top
  <2> QED
      BY <1>7, <1>8, <1>9
<1>11. rest \in Strings /\ Len(rest) = keep /\ StartsWith(tail, rest)
    BY <1>3, <1>10, CutParts, TakePrefix DEF Strings
<1>12. rest # tail => n + keep + 2 >= MaxBuffer
  <2> SUFFICES ASSUME rest # tail PROVE n + keep + 2 >= MaxBuffer
      OBVIOUS
  <2>1. keep # Len(tail)
    <3> SUFFICES ASSUME keep = Len(tail) PROVE FALSE
        OBVIOUS
    <3>1. tail \in Seq(Bytes)
        BY <1>3 DEF Strings
    <3> QED
        BY <3>1 DEF Take
  <2>2. top # Len(tail)
      BY <1>9, <2>1
  <2>3. top = room
      BY <1>8, <2>2
  <2>4. n + room >= MaxBuffer
      BY <1>7, LineBounds
  <2> HIDE DEF top, room, n
  <2>5. n \in Nat /\ keep \in Nat
      BY <1>7, <1>8, <1>10 DEF n
  <2> QED
      BY <1>8, <1>9, <2>3, <2>4, <2>5, LineBounds
<1> HIDE DEF rest
<1>13. Take(t, n) = head /\ Drop(t, n) = rest /\ Len(t) = n + keep
    BY <1>5, <1>11, ConcatCut
<1> HIDE DEF t, n
<1>14. Redraw(g).buf = t /\ Redraw(g).cursor = n
  <2>1. Fields \subseteq DOMAIN g /\ g.buf = t /\ g.cursor = n
      BY <1>1 DEF Fields
  <2> HIDE DEF g
  <2> QED
      BY <2>1, RedrawFields
<1> HIDE DEF g
<1>15. Extends(e, Redraw(g))
  <2>1. Whole(typed) => StartsWith(Take(t, n), typed)
      BY <1>6, <1>13
  <2>2. StartsWith(tail, Drop(t, n))
      BY <1>11, <1>13
  <2>3. Drop(t, n) # tail => Len(t) + 2 >= MaxBuffer
      BY <1>12, <1>13
  <2> QED
      BY <1>14, <2>1, <2>2, <2>3, Zenon DEF Extends, typed, tail
<1> QED
    BY <1>0, <1>15


(* When the text before the cursor decodes, so does its last word. *)
LEMMA LastWordWhole ==
    ASSUME NEW w, NEW e, Good(e, w), Whole(Take(e.buf, e.cursor))
    PROVE  LET raw == SubSeq(e.buf, WordStartAt(e) + 1, e.cursor)
           IN  Text(raw, "whole") /\ Lossy(raw) = raw
<1> DEFINE start == WordStartAt(e)
           typed == Take(e.buf, e.cursor)
           raw == SubSeq(e.buf, start + 1, e.cursor)
<1>1. /\ Text(e.buf, w) /\ e.cursor \in 0 .. Len(e.buf) /\ e.buf \in Strings
    BY DEF Good, Line, Text
<1>2. start <= e.cursor /\ start \in 0 .. Len(e.buf)
    BY <1>1, BlankPlace DEF WordStartAt, Line
<1>3. typed \in Strings /\ Len(typed) = e.cursor /\ \A i \in 1 .. e.cursor : typed[i] = e.buf[i]
    BY <1>1, CutParts DEF Strings
<1>4. Sound(typed)
    BY <1>3, WholeIsSound
<1>5. Text(typed, "whole")
    BY <1>3, <1>4, SoundText
<1>6. start = Greatest({0} \cup {k \in 1..e.cursor : typed[k] \in Blanks})
  <2>1. {k \in 1..e.cursor : typed[k] \in Blanks} = {k \in 1..e.cursor : e.buf[k] \in Blanks}
      BY <1>3
  <2> QED
      BY <2>1 DEF WordStartAt
<1>7. Drop(typed, start) = raw
    BY <1>1, <1>2, CutOfTake
<1> HIDE DEF typed, start
<1>8. e.cursor \in 0 .. Len(typed)
    BY <1>1, <1>3, TextLen
<1>9. Line(typed, start, "whole")
    BY <1>5, <1>6, <1>8, BlankPlace
<1>10. Text(Drop(typed, start), "whole")
    BY <1>9, LineCut
<1>11. Text(raw, "whole")
    BY <1>7, <1>10
<1> HIDE DEF raw
<1>12. Lossy(raw) = raw
    BY <1>11, SoundLossy DEF Text
<1> QED
    BY <1>11, <1>12 DEF raw, start

LEMMA CompleteWordExtends ==
    ASSUME NEW w, NEW e, Good(e, w)
    PROVE  Extends(e, CompleteCurrentWord(e))
<1> DEFINE start == WordStartAt(e)
           raw == SubSeq(e.buf, start + 1, e.cursor)
           word == Lossy(raw)
           isCommand == \A i \in 1..start : e.buf[i] \in Blanks
           done == Complete(word, isCommand)
<1>0. CompleteCurrentWord(e) =
        CASE done.kind = "none" -> e
          [] done.kind = "single" -> ApplyCompletion(e, done.text, done.space)
          [] done.kind = "listing" -> Redraw(e)
    BY Zenon DEF CompleteCurrentWord
<1>1. Line(e.buf, e.cursor, w) /\ Text(e.buf, w) /\ e.cursor \in 0 .. Len(e.buf)
    BY DEF Good, Line
<1>2. Line(e.buf, start, w) /\ start <= e.cursor
    BY <1>1, BlankPlace DEF WordStartAt
<1>a. Whole(Take(e.buf, e.cursor)) => Text(raw, "whole") /\ word = raw
    BY LastWordWhole
<1>b. raw = SubSeq(e.buf, WordStartAt(e) + 1, e.cursor)
    OBVIOUS
<1> HIDE DEF start
<1>3. Text(raw, w)
    BY <1>1, <1>2, LineBetween
<1> HIDE DEF raw
<1>4. Text(word, w)
    BY <1>3, LossySound, SoundText DEF Text
<1> HIDE DEF word
<1>5. Outcome(done, w)
    BY <1>4, CompleteOutcome
<1>6. Whole(Take(e.buf, e.cursor)) => Adds(done, raw)
  <2> SUFFICES ASSUME Whole(Take(e.buf, e.cursor)) PROVE Adds(done, raw)
      OBVIOUS
  <2>1. Text(raw, "whole") /\ word = raw /\ raw \in Strings
      BY <1>a DEF Text
  <2>2. done = CompleteCommand(word) \/ done = CompletePath(word)
      BY Zenon DEF Complete
  <2> HIDE DEF done
  <2>3. Adds(CompleteCommand(raw), raw) /\ Adds(CompletePath(raw), raw)
      BY <2>1, CompleteCommandAdds, CompletePathAdds
  <2> QED
      BY <2>1, <2>2, <2>3
<1> HIDE DEF done
<1>7. CASE done.kind = "none"
    BY <1>0, <1>7, SameExtends
<1>8. CASE done.kind = "single"
  <2>1. done.text \in Strings
      BY <1>5, <1>8 DEF Outcome, Text
  <2>2. Whole(Take(e.buf, e.cursor)) =>
            StartsWith(done.text, SubSeq(e.buf, WordStartAt(e) + 1, e.cursor))
      BY <1>6, <1>8, <1>b DEF Adds
  <2>3. Extends(e, ApplyCompletion(e, done.text, done.space))
      BY <2>1, <2>2, ApplyCompletionExtends
  <2> QED
      BY <1>0, <1>8, <2>3
<1>9. CASE done.kind = "listing"
  <2>1. Redraw(e).buf = e.buf /\ Redraw(e).cursor = e.cursor
      BY RedrawFields DEF Good, Kept
  <2> QED
      BY <1>0, <1>9, <2>1, SameExtends
<1> QED
    BY <1>5, <1>7, <1>8, <1>9 DEF Outcome


-----------------------------------------------------------------------------
(* A key, whatever state of the editor it meets. *)
LEMMA KeyFollows ==
    ASSUME NEW e, EditorState(e), Drew(e), NEW key,
           IsContinuation(key) <=> e.key = "L", key = "L" => e.esc = "none"
    PROVE  /\ Drew(Input(e, key))
           /\ ~(e.search # <<>> /\ key = "Tab") => Follow(e, Input(e, key))
           /\ key = "Tab" /\ e.search = <<>> /\ e.esc = "none" => Extends(e, Input(e, key))
<1>1. PICK w : IF e.key = "L" /\ e.search = <<>> THEN Half(e, w) ELSE Good(e, w)
    BY Zenon DEF EditorState
<1>2. CASE Good(e, w)
  <2>1. /\ Drew(Input(e, key))
        /\ ~(e.search # <<>> /\ key = "Tab") => Follow(e, Input(e, key))
      BY <1>2, InputFollows
  <2>2. ASSUME key = "Tab", e.search = <<>>, e.esc = "none" PROVE Extends(e, Input(e, key))
    <3>1. Input(e, key) = PlainKey(e, key)
        BY <2>2 DEF Input
    <3>2. PlainKey(e, "Tab") = CompleteCurrentWord(e)
        BY DEF PlainKey, Printable
    <3> QED
        BY <1>2, <2>2, <3>1, <3>2, CompleteWordExtends
  <2> QED
      BY <2>1, <2>2
<1>3. CASE e.key = "L" /\ e.search = <<>> /\ Half(e, w)
  <2>1. e.esc = "none" /\ key \in Continuation /\ key # "Tab" /\ key \in Bytes
      BY <1>3 DEF EditorState, IsContinuation, Continuation, Bytes, Printable
  <2>2. Input(e, key) = PlainKey(e, key)
      BY <1>3, <2>1 DEF Input
  <2>3. PlainKey(e, key) = Insert(e, key)
      BY <2>1, PlainByte
  <2>4. Fields \subseteq DOMAIN e /\ e.buf \in Strings /\ e.cursor \in 0 .. Len(e.buf)
      BY <1>3 DEF Half, Kept, HalfLine
  <2>5. Follow(e, Insert(e, key))
      BY <1>3, <2>1, <2>4, InsertFollows
  <2>6. Follow(e, Input(e, key))
      BY <2>2, <2>3, <2>5
  <2> QED
      BY <2>1, <2>6, Zenon DEF Follow
<1> QED
    BY <1>1, <1>2, <1>3

(* What the client sees of a key that takes e to f. *)
Seen(e, f, key) ==
    /\ Drew(f) /\ f.key = key
    /\ InStep(e) /\ ~(e.search # <<>> /\ key = "Tab") => InStep(f)
    /\ key = "Tab" /\ e.search = <<>> /\ e.esc = "none" => Extends(e, f)

LEMMA PressFollows ==
    ASSUME NEW e, EditorState(e), Drew(e), NEW key, NEW n,
           IsContinuation(key) <=> e.key = "L", key = "L" => e.esc = "none",
           NEW f, f = [Input(e, key) EXCEPT !.key = key, !.keys = n]
    PROVE  Seen(e, f, key)
<1> DEFINE g == Input(e, key)
<1>1. EditorState(f)
    BY PressKeeps
<1>2. Fields \subseteq DOMAIN f
    BY <1>1 DEF EditorState, Half, Good, Kept
<1>3. /\ Drew(g)
      /\ ~(e.search # <<>> /\ key = "Tab") => Follow(e, g)
      /\ key = "Tab" /\ e.search = <<>> /\ e.esc = "none" => Extends(e, g)
    BY KeyFollows
<1>4. f = [g EXCEPT !.key = key, !.keys = n]
    OBVIOUS
<1> HIDE DEF g
<1>5. Fields \subseteq DOMAIN g
    BY <1>2, <1>4
<1>6. /\ f.key = key /\ f.buf = g.buf /\ f.cursor = g.cursor /\ f.scr = g.scr
      /\ f.esc = g.esc /\ f.search = g.search
    BY <1>4, <1>5 DEF Fields
<1>7. Follow(g, f)
  <2>1. f.search # <<>> => f.esc = "none"
      BY <1>3, <1>6 DEF Drew
  <2> QED
      BY <1>3, <1>6, <2>1, SameFollows
<1>8. Drew(f)
    BY <1>7 DEF Follow
<1>9. InStep(e) /\ ~(e.search # <<>> /\ key = "Tab") => InStep(f)
    BY <1>3, <1>7, Zenon DEF Follow
<1>10. Extends(e, g) => Extends(e, f)
    BY <1>6, Zenon DEF Extends
<1> QED
    BY <1>3, <1>6, <1>8, <1>9, <1>10 DEF Seen

ScreenInv == EditorInv /\ Drew(ed)

LEMMA StepIsSeen ==
    ASSUME ScreenInv, NEW key, Press(key)
    PROVE  /\ ScreenInv'
           /\ InStep(ed) /\ ~(ed.search # <<>> /\ ed'.key = "Tab") => InStep(ed')
           /\ ed'.key = "Tab" /\ ed.search = <<>> /\ ed.esc = "none" => Extends(ed, ed')
<1>1. EditorState(ed) /\ Drew(ed)
    BY Zenon DEF ScreenInv, EditorInv
<1>2. /\ IsContinuation(key) <=> ed.key = "L"
      /\ key = "L" => ed.esc = "none"
      /\ ed' = [Input(ed, key) EXCEPT !.key = key, !.keys = ed.keys + 1]
    BY Zenon DEF Press
<1>3. EditorState(ed')
    BY <1>1, <1>2, PressKeeps, Zenon
<1>4. Seen(ed, ed', key)
    BY <1>1, <1>2, PressFollows, Zenon
<1>5. ScreenInv'
    BY <1>3, <1>4, Zenon DEF ScreenInv, EditorInv, Seen
<1> QED
    BY <1>4, <1>5, Zenon DEF Seen

(* Searching and an escape sequence exclude each other, and the screen is    *)
(* always drawn: what the lemmas on the screen ask of the state.             *)
THEOREM ScreenStateHolds == EditorSpec => []ScreenInv
<1>1. EditorInit => Drew(ed)
  <2> SUFFICES ASSUME EditorInit PROVE Drew(ed)
      OBVIOUS
  <2>1. ed.scr = Shows(<<>>, 0) /\ ed.search = <<>>
      BY DEF EditorInit
  <2> QED
      BY <2>1 DEF Drew, Drawn, Shows
<1>2. EditorInit /\ EditorInv => ScreenInv
    BY <1>1, Zenon DEF ScreenInv
<1>3. ScreenInv /\ [EditorNext]_ed => ScreenInv'
  <2> SUFFICES ASSUME ScreenInv, [EditorNext]_ed PROVE ScreenInv'
      OBVIOUS
  <2>1. CASE UNCHANGED ed
      BY <2>1, Zenon DEF ScreenInv, EditorInv
  <2>2. ASSUME NEW key \in Typeable \cup Controls, Press(key) PROVE ScreenInv'
      BY <2>2, StepIsSeen
  <2> QED
      BY <2>1, <2>2, Zenon DEF EditorNext
<1> QED
    BY <1>2, <1>3, EditorStateHolds, PTL DEF EditorSpec

(* After every key the terminal shows the line the editor holds, with the    *)
(* cursor on its column, but for the Tab that leaves a search; and a Tab     *)
(* takes nothing away: what decodes before the cursor still stands there,    *)
(* and only the cap cuts what follows, at most two bytes early.              *)
THEOREM EditorIsSeen == EditorSpec => EditsAreSeen
<1>1. ScreenInv /\ [EditorNext]_ed =>
        [InStep(ed) /\ ~(ed.search # <<>> /\ ed'.key = "Tab") => InStep(ed')]_ed
    BY StepIsSeen, Zenon DEF EditorNext
<1>2. ScreenInv /\ [EditorNext]_ed =>
        [(ed'.key = "Tab" /\ ed.search = <<>> /\ ed.esc = "none") =>
            /\ Whole(Take(ed.buf, ed.cursor)) =>
                  StartsWith(Take(ed'.buf, ed'.cursor), Take(ed.buf, ed.cursor))
            /\ StartsWith(Drop(ed.buf, ed.cursor), Drop(ed'.buf, ed'.cursor))
            /\ Drop(ed'.buf, ed'.cursor) # Drop(ed.buf, ed.cursor) => Len(ed'.buf) + 2 >= MaxBuffer]_ed
    BY StepIsSeen, Zenon DEF EditorNext, Extends
<1>3. EditorSpec => ScreenFollows
    BY <1>1, ScreenStateHolds, PTL DEF EditorSpec, ScreenFollows
<1>4. EditorSpec => CompletionExtends
    BY <1>2, ScreenStateHolds, PTL DEF EditorSpec, CompletionExtends
<1> QED
    BY <1>3, <1>4, PTL DEF EditsAreSeen
=============================================================================
