------------------------------ MODULE HookManagerProofs ------------------------------
(* Proofs about the hook manager, for any number of calls, hooks, configurations and   *)
(* faults: a call that answers has done to every hook what it says, and no line is     *)
(* lost that the user had put in a hook when it was read, but for bytes that are no    *)
(* UTF-8, whoever crashes.  First what the marked block of a body is and what reading, *)
(* writing and removing it keep of the rest, then the invariant of the call that holds *)
(* the lock, by how far it has come.                                                   *)
EXTENDS MCCommands, SequenceTheorems, TLAPS

-----------------------------------------------------------------------------
(* Bodies                                                                  *)

Mark == {"begin", "end"}

LEMMA ManagedParts ==
  ASSUME NEW b \in Seq(Hooks!Line), Hooks!IsManaged(b)
  PROVE  /\ Hooks!Begin(b) \in 1 .. Len(b) /\ Hooks!End(b) \in 1 .. Len(b)
         /\ Hooks!Begin(b) < Hooks!End(b)
         /\ b[Hooks!Begin(b)] = "begin" /\ b[Hooks!End(b)] = "end"
         /\ \A k \in 1 .. Len(b) : /\ b[k] = "begin" => k = Hooks!Begin(b)
                                   /\ b[k] = "end" => k = Hooks!End(b)
<1>1. DOMAIN b = 1 .. Len(b)
  BY LenProperties
<1>2. PICK i \in 1 .. Len(b), j \in 1 .. Len(b) :
        /\ Hooks!Positions(b, "begin") = {i}
        /\ Hooks!Positions(b, "end") = {j}
        /\ i < j
  BY <1>1 DEF Hooks!IsManaged
<1>3. \A k \in 1 .. Len(b) : (b[k] = "begin" <=> k = i) /\ (b[k] = "end" <=> k = j)
  BY <1>1, <1>2 DEF Hooks!Positions
<1>4. Hooks!Begin(b) = i /\ Hooks!End(b) = j
  BY <1>1, <1>3 DEF Hooks!Begin, Hooks!End
<1>5. QED
  BY <1>2, <1>3, <1>4

LEMMA AboveAndBelow ==
  ASSUME NEW b \in Seq(Hooks!Line), Hooks!IsManaged(b)
  PROVE  /\ Hooks!Above(b) \in Seq(Hooks!Line) /\ Len(Hooks!Above(b)) = Hooks!Begin(b) - 1
         /\ Hooks!Below(b) \in Seq(Hooks!Line) /\ Len(Hooks!Below(b)) = Len(b) - Hooks!End(b)
         /\ \A k \in 1 .. Len(Hooks!Above(b)) : Hooks!Above(b)[k] = b[k]
         /\ \A k \in 1 .. Len(Hooks!Below(b)) : Hooks!Below(b)[k] = b[Hooks!End(b) + k]
<1>1. /\ Len(b) \in Nat
      /\ Hooks!Begin(b) \in 1 .. Len(b) /\ Hooks!End(b) \in 1 .. Len(b)
      /\ \A k \in 1 .. Len(b) : b[k] \in Hooks!Line
  BY ManagedParts, LenProperties
<1>2. \A k \in 1 .. Hooks!Begin(b) - 1 : b[k] \in Hooks!Line
  BY <1>1
<1>3. \A k \in Hooks!End(b) + 1 .. Len(b) : b[k] \in Hooks!Line
  BY <1>1
<1>4. /\ Hooks!Above(b) \in Seq(Hooks!Line) /\ Len(Hooks!Above(b)) = Hooks!Begin(b) - 1
      /\ \A k \in 1 .. Hooks!Begin(b) - 1 : Hooks!Above(b)[k] = b[k]
  BY <1>1, <1>2, SubSeqProperties DEF Hooks!Above
<1>5. /\ Hooks!Below(b) \in Seq(Hooks!Line) /\ Len(Hooks!Below(b)) = Len(b) - Hooks!End(b)
      /\ \A k \in 1 .. Len(b) - Hooks!End(b) : Hooks!Below(b)[k] = b[Hooks!End(b) + k]
  <2>1. \A k \in 1 .. Len(b) - Hooks!End(b) : (Hooks!End(b) + 1) + k - 1 = Hooks!End(b) + k
    BY <1>1
  <2>2. QED
    BY <1>1, <1>3, <2>1, SubSeqProperties DEF Hooks!Below
<1>6. QED
  BY <1>4, <1>5

\* Above and below the block there are no marks.
LEMMA NoMarksOutside ==
  ASSUME NEW b \in Seq(Hooks!Line), Hooks!IsManaged(b)
  PROVE  /\ \A k \in 1 .. Len(Hooks!Above(b)) : Hooks!Above(b)[k] \notin Mark
         /\ \A k \in 1 .. Len(Hooks!Below(b)) : Hooks!Below(b)[k] \notin Mark
<1>1. Len(b) \in Nat
  BY LenProperties
<1>2. \A k \in 1 .. Len(Hooks!Above(b)) : Hooks!Above(b)[k] = b[k] /\ k \in 1 .. Len(b) /\ k < Hooks!Begin(b)
  BY <1>1, AboveAndBelow, ManagedParts
<1>3. \A k \in 1 .. Len(Hooks!Below(b)) : /\ Hooks!Below(b)[k] = b[Hooks!End(b) + k]
                                    /\ Hooks!End(b) + k \in 1 .. Len(b)
                                    /\ Hooks!End(b) + k > Hooks!End(b)
  BY <1>1, AboveAndBelow, ManagedParts
<1>4. Hooks!Begin(b) < Hooks!End(b) /\ Hooks!Begin(b) \in Int /\ Hooks!End(b) \in Int
  BY ManagedParts
<1>5. \A k \in 1 .. Len(Hooks!Above(b)) : Hooks!Above(b)[k] \notin Mark
  BY <1>2, <1>4, ManagedParts DEF Mark
<1>6. \A k \in 1 .. Len(Hooks!Below(b)) : Hooks!Below(b)[k] \notin Mark
  BY <1>3, <1>4, ManagedParts DEF Mark
<1>7. QED
  BY <1>5, <1>6

LEMMA ConcatLines ==
  \A s, t \in Seq(Hooks!Line) :
    /\ s \o t \in Seq(Hooks!Line) /\ Len(s \o t) = Len(s) + Len(t)
    /\ \A k \in 1 .. Len(s) + Len(t) :
         (s \o t)[k] = IF k <= Len(s) THEN s[k] ELSE t[k - Len(s)]
  BY ConcatProperties

\* A block between lines without marks is managed, and found again as it was put in.
LEMMA BlockBetween ==
  ASSUME HookConstants, NEW c \in Config, NEW a \in Seq(Hooks!Line), NEW z \in Seq(Hooks!Line),
         \A k \in 1 .. Len(a) : a[k] \notin Mark,
         \A k \in 1 .. Len(z) : z[k] \notin Mark
  PROVE  LET u == a \o Hooks!ManagedBlock(c) \o z
         IN /\ u \in Seq(Hooks!Line) /\ u # <<>>
            /\ Hooks!IsManaged(u)
            /\ u[Hooks!Begin(u) + 1] = c
            /\ Hooks!Above(u) = a /\ Hooks!Below(u) = z
<1> DEFINE m == Hooks!ManagedBlock(c)
           u == a \o m \o z
           n == Len(a)
<1>1. m \in Seq(Hooks!Line) /\ Len(m) = 3 /\ m[1] = "begin" /\ m[2] = c /\ m[3] = "end"
  BY DEF Hooks!ManagedBlock, Hooks!Line
<1>2. n \in Nat /\ Len(z) \in Nat
  BY LenProperties
<1> HIDE DEF m
<1>3. /\ a \o m \in Seq(Hooks!Line) /\ Len(a \o m) = n + 3
      /\ \A k \in 1 .. n : (a \o m)[k] = a[k]
      /\ \A k \in n + 1 .. n + 3 : (a \o m)[k] = m[k - n]
  <2>1. /\ a \o m \in Seq(Hooks!Line) /\ Len(a \o m) = n + 3
        /\ \A k \in 1 .. n + 3 : (a \o m)[k] = IF k <= n THEN a[k] ELSE m[k - n]
    <3>1. /\ a \o m \in Seq(Hooks!Line) /\ Len(a \o m) = Len(a) + Len(m)
          /\ \A k \in 1 .. Len(a) + Len(m) :
               (a \o m)[k] = IF k <= Len(a) THEN a[k] ELSE m[k - Len(a)]
      BY <1>1, ConcatLines
    <3>2. QED
      BY <1>1, <3>1
  <2>2. /\ \A k \in 1 .. n : k \in 1 .. n + 3 /\ k <= n
        /\ \A k \in n + 1 .. n + 3 : k \in 1 .. n + 3 /\ ~(k <= n)
    BY <1>2
  <2>3. QED
    BY <2>1, <2>2
<1>4. /\ u \in Seq(Hooks!Line) /\ Len(u) = n + 3 + Len(z)
      /\ \A k \in 1 .. n + 3 : u[k] = (a \o m)[k]
      /\ \A k \in n + 4 .. Len(u) : u[k] = z[k - (n + 3)]
  <2>1. /\ u \in Seq(Hooks!Line) /\ Len(u) = n + 3 + Len(z)
        /\ \A k \in 1 .. n + 3 + Len(z) :
             u[k] = IF k <= n + 3 THEN (a \o m)[k] ELSE z[k - (n + 3)]
    <3>1. /\ u \in Seq(Hooks!Line) /\ Len(u) = Len(a \o m) + Len(z)
          /\ \A k \in 1 .. Len(a \o m) + Len(z) :
               u[k] = IF k <= Len(a \o m) THEN (a \o m)[k] ELSE z[k - Len(a \o m)]
      BY <1>3, ConcatLines
    <3>2. QED
      BY <1>3, <3>1
  <2>2. /\ \A k \in 1 .. n + 3 : k \in 1 .. n + 3 + Len(z) /\ k <= n + 3
        /\ \A k \in n + 4 .. n + 3 + Len(z) : k \in 1 .. n + 3 + Len(z) /\ ~(k <= n + 3)
    BY <1>2
  <2>3. QED
    BY <2>1, <2>2
<1> HIDE DEF u
<1>5. \A k \in 1 .. n : u[k] = a[k]
  <2>1. \A k \in 1 .. n : k \in 1 .. n + 3
    BY <1>2
  <2>2. QED
    BY <1>3, <1>4, <2>1
<1>6. u[n + 1] = "begin" /\ u[n + 2] = c /\ u[n + 3] = "end"
  <2>1. \A k \in {n + 1, n + 2, n + 3} : u[k] = m[k - n]
    BY <1>2, <1>3, <1>4
  <2>2. (n + 1) - n = 1 /\ (n + 2) - n = 2 /\ (n + 3) - n = 3
    BY <1>2
  <2>3. QED
    BY <1>1, <2>1, <2>2
<1>7. c \notin Mark
  BY DEF HookConstants, Mark
<1>8. \A k \in 1 .. Len(u) : /\ u[k] = "begin" => k = n + 1
                             /\ u[k] = "end" => k = n + 3
  <2>1. ASSUME NEW k \in 1 .. Len(u)
        PROVE  \/ k \in 1 .. n \/ k = n + 1 \/ k = n + 2 \/ k = n + 3
               \/ k \in n + 4 .. Len(u) /\ k - (n + 3) \in 1 .. Len(z)
    BY <1>2, <1>4
  <2>2. ASSUME NEW k \in 1 .. Len(u)
        PROVE  k \notin {n + 1, n + 3} => u[k] \notin Mark
    BY <2>1, <1>4, <1>5, <1>6, <1>7
  <2>3. n + 1 # n + 3
    BY <1>2
  <2>4. QED
    BY <2>2, <2>3, <1>6 DEF Mark
<1>9. DOMAIN u = 1 .. Len(u) /\ n + 1 \in 1 .. Len(u) /\ n + 3 \in 1 .. Len(u)
  BY <1>2, <1>4, LenProperties
<1>10. Hooks!IsManaged(u)
  <2>1. Hooks!Positions(u, "begin") = {n + 1} /\ Hooks!Positions(u, "end") = {n + 3}
    BY <1>6, <1>8, <1>9 DEF Hooks!Positions
  <2>2. n + 1 < n + 3
    BY <1>2
  <2>3. QED
    BY <2>1, <2>2, <1>9 DEF Hooks!IsManaged
<1>11. Hooks!Begin(u) = n + 1 /\ Hooks!End(u) = n + 3
  BY <1>4, <1>6, <1>9, <1>10, ManagedParts
<1>12. Hooks!Above(u) = a
  <2>1. Hooks!Above(u) \in Seq(Hooks!Line) /\ Len(Hooks!Above(u)) = n
    BY <1>2, <1>4, <1>10, <1>11, AboveAndBelow
  <2>2. \A k \in 1 .. n : Hooks!Above(u)[k] = a[k]
    BY <2>1, <1>4, <1>5, <1>10, AboveAndBelow
  <2>3. QED
    BY <2>1, <2>2, SeqEqual
<1>13. Hooks!Below(u) = z
  <2>1. Hooks!Below(u) \in Seq(Hooks!Line) /\ Len(Hooks!Below(u)) = Len(z)
    BY <1>2, <1>4, <1>10, <1>11, AboveAndBelow
  <2>2. ASSUME NEW k \in 1 .. Len(z)
        PROVE  Hooks!Below(u)[k] = z[k]
    <3>1. Hooks!Below(u)[k] = u[n + 3 + k]
      BY <2>1, <1>4, <1>10, <1>11, AboveAndBelow
    <3>2. n + 3 + k \in n + 4 .. Len(u) /\ (n + 3 + k) - (n + 3) = k
      BY <1>2, <1>4
    <3>3. QED
      BY <3>1, <3>2, <1>4
  <2>3. QED
    BY <2>1, <2>2, SeqEqual
<1>14. u # <<>>
  BY <1>2, <1>4
<1>15. QED
  <2>1. u[Hooks!Begin(u) + 1] = c
    BY <1>2, <1>6, <1>11
  <2>2. QED
    BY <2>1, <1>4, <1>10, <1>12, <1>13, <1>14 DEF u, m

\* The d-th of the n - e positions after e.
LEMMA ShiftIsInside ==
  ASSUME NEW e \in Int, NEW n \in Int, NEW d \in Int, 1 <= e, 1 <= d, d <= n - e
  PROVE  e + d \in 1 .. n /\ e + d > e
  OBVIOUS

\* The lines of the user are those that stand outside the block.
LEMMA LinesOutside ==
  ASSUME HookConstants, NEW b \in Seq(Hooks!Line), NEW x \in UserLine
  PROVE  x \in Hooks!UserLines(b) <=>
           \E k \in 1 .. Len(b) :
             b[k] = x /\ (Hooks!IsManaged(b) => k < Hooks!Begin(b) \/ k > Hooks!End(b))
<1>1. Hooks!Body(b) = b
  BY DEF Hooks!Body, HookConstants
<1>2. CASE ~Hooks!IsManaged(b)
  <2>1. DOMAIN b = 1 .. Len(b)
    BY LenProperties
  <2>2. QED
    BY <1>1, <1>2, <2>1 DEF Hooks!UserLines, Hooks!ToSet
<1>3. CASE Hooks!IsManaged(b)
  <2> DEFINE a == Hooks!Above(b)
             z == Hooks!Below(b)
             r == Hooks!Removed(b)
  <2>1. /\ a \in Seq(Hooks!Line) /\ Len(a) = Hooks!Begin(b) - 1
        /\ z \in Seq(Hooks!Line) /\ Len(z) = Len(b) - Hooks!End(b)
        /\ \A k \in 1 .. Len(a) : a[k] = b[k]
        /\ \A k \in 1 .. Len(z) : z[k] = b[Hooks!End(b) + k]
        /\ Hooks!Begin(b) \in 1 .. Len(b) /\ Hooks!End(b) \in 1 .. Len(b)
        /\ Hooks!Begin(b) < Hooks!End(b)
        /\ Len(a) \in Nat /\ Len(z) \in Nat /\ Len(b) \in Nat
    BY <1>3, AboveAndBelow, ManagedParts, LenProperties
  <2>2. /\ r \in Seq(Hooks!Line) /\ Len(r) = Len(a) + Len(z)
        /\ \A k \in 1 .. Len(a) + Len(z) :
             r[k] = IF k <= Len(a) THEN a[k] ELSE z[k - Len(a)]
        /\ DOMAIN r = 1 .. Len(r)
    BY <2>1, ConcatLines, LenProperties DEF Hooks!Removed
  <2>3. x \in Hooks!UserLines(b) <=> \E k \in 1 .. Len(r) : r[k] = x
    BY <1>1, <1>3, <2>2 DEF Hooks!UserLines, Hooks!ToSet
  <2>b. /\ Len(a) = Hooks!Begin(b) - 1 /\ Len(z) = Len(b) - Hooks!End(b) /\ Len(r) = Len(a) + Len(z)
        /\ Hooks!Begin(b) \in Int /\ Hooks!End(b) \in Int /\ Len(a) \in Nat /\ Len(z) \in Nat
        /\ Hooks!Begin(b) >= 1 /\ Hooks!End(b) >= 1
        /\ Hooks!Begin(b) < Hooks!End(b) /\ Hooks!End(b) <= Len(b) /\ Len(b) \in Nat /\ Len(r) \in Nat
    BY <2>1, <2>2
  <2> HIDE DEF a, z, r
  <2>4. ASSUME NEW k \in 1 .. Len(r)
        PROVE  \E i \in 1 .. Len(b) : b[i] = r[k] /\ (i < Hooks!Begin(b) \/ i > Hooks!End(b))
    <3>1. CASE k <= Len(a)
      <4>1. k \in 1 .. Len(a) /\ k \in 1 .. Len(b) /\ k < Hooks!Begin(b)
        BY <2>1, <2>2, <3>1
      <4>2. QED
        BY <2>1, <2>2, <3>1, <4>1
    <3>2. CASE ~(k <= Len(a))
      <4>a. k \in Int /\ 1 <= k /\ k <= Len(a) + Len(z) /\ k \in 1 .. Len(a) + Len(z)
        BY <2>b
      <4>b. k - Len(a) \in Int /\ 1 <= k - Len(a) /\ k - Len(a) <= Len(z)
        BY <2>b, <3>2, <4>a
      <4>1. k - Len(a) \in 1 .. Len(z) /\ r[k] = z[k - Len(a)]
        BY <2>2, <3>2, <4>a, <4>b
      <4>2. Hooks!End(b) + (k - Len(a)) \in 1 .. Len(b) /\ Hooks!End(b) + (k - Len(a)) > Hooks!End(b)
        <5>1. /\ Hooks!End(b) \in Int /\ Len(b) \in Int /\ Len(z) = Len(b) - Hooks!End(b)
              /\ 1 <= Hooks!End(b)
          BY <2>b
        <5>2. QED
          BY <4>b, <5>1, ShiftIsInside
      <4>3. QED
        BY <2>1, <4>1, <4>2
    <3>3. QED
      BY <3>1, <3>2
  <2>5. ASSUME NEW i \in 1 .. Len(b), i < Hooks!Begin(b) \/ i > Hooks!End(b)
        PROVE  \E k \in 1 .. Len(r) : r[k] = b[i]
    <3>1. CASE i < Hooks!Begin(b)
      <4>1. i \in 1 .. Len(a) /\ i \in 1 .. Len(r) /\ i <= Len(a)
        BY <2>1, <2>2, <3>1
      <4>2. QED
        BY <2>1, <2>2, <4>1
    <3>2. CASE i > Hooks!End(b)
      <4>1. PICK d \in 1 .. Len(z) : Hooks!End(b) + d = i
        <5>1. i - Hooks!End(b) \in 1 .. Len(z) /\ Hooks!End(b) + (i - Hooks!End(b)) = i
          BY <2>b, <3>2
        <5>2. QED
          BY <5>1
      <4>2. d \in Int /\ 1 <= d /\ d <= Len(z)
        BY <2>b
      <4>3. Len(a) + d \in Int /\ Len(a) + d >= 1
        BY <2>b, <4>2
      <4>4. Len(a) + d <= Len(r)
        BY <2>b, <4>2
      <4>5. Len(a) + d \in 1 .. Len(r) /\ ~(Len(a) + d <= Len(a)) /\ (Len(a) + d) - Len(a) = d
        BY <2>b, <4>2, <4>3, <4>4
      <4>6. r[Len(a) + d] = z[d]
        BY <2>2, <2>b, <4>5
      <4>7. QED
        BY <2>1, <4>1, <4>5, <4>6
    <3>3. QED
      BY <2>5, <3>1, <3>2
  <2>6. QED
    BY <1>3, <2>3, <2>4, <2>5
<1>4. QED
  BY <1>2, <1>3

\* An update puts the block in, and leaves the lines of the user alone.
LEMMA UpdateIsSound ==
  ASSUME HookConstants, NEW c \in Config,
         NEW f \in Seq(Hooks!Line) \cup {None}, Hooks!Updatable(f)
  PROVE  /\ Hooks!Updated(f, c) \in Seq(Hooks!Line)
         /\ Hooks!IsManaged(Hooks!Updated(f, c))
         /\ Hooks!Updated(f, c)[Hooks!Begin(Hooks!Updated(f, c)) + 1] = c
         /\ Hooks!UserLines(Hooks!Updated(f, c)) = Hooks!UserLines(f)
<1> DEFINE u == Hooks!Updated(f, c)
<1>1. CASE Hooks!Body(f) = <<>>
  <2>1. <<"#!">> \in Seq(Hooks!Line) /\ <<>> \in Seq(Hooks!Line)
    BY DEF Hooks!Line
  <2>2. \A k \in 1 .. Len(<<"#!">>) : <<"#!">>[k] \notin Mark
    BY DEF Mark
  <2>3. Hooks!ManagedBlock(c) \in Seq(Hooks!Line)
    BY DEF Hooks!ManagedBlock, Hooks!Line
  <2>4. u = <<"#!">> \o Hooks!ManagedBlock(c) \o <<>>
    <3>1. <<"#!">> \o Hooks!ManagedBlock(c) \in Seq(Hooks!Line)
      BY <2>1, <2>3, ConcatLines
    <3>2. QED
      BY <1>1, <3>1, ConcatEmptySeq DEF Hooks!Updated
  <2>5. /\ u \in Seq(Hooks!Line) /\ Hooks!IsManaged(u) /\ u[Hooks!Begin(u) + 1] = c
        /\ Hooks!Above(u) = <<"#!">> /\ Hooks!Below(u) = <<>>
    <3>1. \A k \in 1 .. Len(<<>>) : <<>>[k] \notin Mark
      OBVIOUS
    <3> DEFINE a == <<"#!">>
               z == <<>>
    <3>2. /\ a \in Seq(Hooks!Line) /\ z \in Seq(Hooks!Line) /\ u = a \o Hooks!ManagedBlock(c) \o z
          /\ \A k \in 1 .. Len(a) : a[k] \notin Mark
          /\ \A k \in 1 .. Len(z) : z[k] \notin Mark
      BY <2>1, <2>2, <2>4, <3>1
    <3> HIDE DEF a, z, u
    <3>3. /\ u \in Seq(Hooks!Line) /\ Hooks!IsManaged(u) /\ u[Hooks!Begin(u) + 1] = c
          /\ Hooks!Above(u) = a /\ Hooks!Below(u) = z
      BY <3>2, BlockBetween
    <3>4. QED
      BY <3>3 DEF a, z
  <2>6. Hooks!UserLines(u) = {}
    <3>1. Hooks!Removed(u) = <<"#!">>
      BY <2>1, <2>5, ConcatEmptySeq DEF Hooks!Removed
    <3>2. Hooks!Body(u) = u
      BY <2>5 DEF Hooks!Body, HookConstants
    <3>3. Hooks!ToSet(<<"#!">>) = {"#!"}
      BY DEF Hooks!ToSet
    <3>4. QED
      BY <2>5, <3>1, <3>2, <3>3 DEF Hooks!UserLines, HookConstants
  <2>7. Hooks!UserLines(f) = {}
    <3>1. Hooks!ToSet(<<>>) = {} /\ ~Hooks!IsManaged(<<>>)
      BY DEF Hooks!ToSet, Hooks!IsManaged
    <3>2. QED
      BY <1>1, <3>1 DEF Hooks!UserLines
  <2>8. QED
    BY <2>5, <2>6, <2>7
<1>2. CASE Hooks!Body(f) # <<>>
  <2>1. f \in Seq(Hooks!Line) /\ Hooks!Body(f) = f /\ Hooks!IsManaged(f)
    BY <1>2 DEF Hooks!Body, Hooks!Updatable
  <2>2. u = Hooks!Above(f) \o Hooks!ManagedBlock(c) \o Hooks!Below(f)
    BY <1>2 DEF Hooks!Updated
  <2>3. /\ u \in Seq(Hooks!Line) /\ Hooks!IsManaged(u) /\ u[Hooks!Begin(u) + 1] = c
        /\ Hooks!Above(u) = Hooks!Above(f) /\ Hooks!Below(u) = Hooks!Below(f)
    <3> DEFINE a == Hooks!Above(f)
               z == Hooks!Below(f)
    <3>1. /\ a \in Seq(Hooks!Line) /\ z \in Seq(Hooks!Line) /\ u = a \o Hooks!ManagedBlock(c) \o z
          /\ \A k \in 1 .. Len(a) : a[k] \notin Mark
          /\ \A k \in 1 .. Len(z) : z[k] \notin Mark
      BY <2>1, <2>2, AboveAndBelow, NoMarksOutside
    <3> HIDE DEF a, z, u
    <3>2. /\ u \in Seq(Hooks!Line) /\ Hooks!IsManaged(u) /\ u[Hooks!Begin(u) + 1] = c
          /\ Hooks!Above(u) = a /\ Hooks!Below(u) = z
      BY <3>1, BlockBetween
    <3>3. QED
      BY <3>2 DEF a, z
  <2>4. Hooks!Removed(u) = Hooks!Removed(f) /\ Hooks!Body(u) = u
    BY <2>3 DEF Hooks!Removed, Hooks!Body, HookConstants
  <2>5. QED
    BY <2>1, <2>3, <2>4 DEF Hooks!UserLines
<1>3. QED
  BY <1>1, <1>2

\* A removal takes the block out, and leaves the lines of the user alone.
LEMMA RemovalIsSound ==
  ASSUME HookConstants, NEW f \in Seq(Hooks!Line), Hooks!IsManaged(f)
  PROVE  /\ Hooks!Removed(f) \in Seq(Hooks!Line)
         /\ ~Hooks!IsManaged(Hooks!Removed(f))
         /\ Hooks!UserLines(Hooks!Removed(f)) = Hooks!UserLines(f)
<1> DEFINE a == Hooks!Above(f)
           z == Hooks!Below(f)
           r == Hooks!Removed(f)
<1>1. /\ a \in Seq(Hooks!Line) /\ z \in Seq(Hooks!Line)
      /\ \A k \in 1 .. Len(a) : a[k] \notin Mark
      /\ \A k \in 1 .. Len(z) : z[k] \notin Mark
      /\ Len(a) \in Nat /\ Len(z) \in Nat
  BY AboveAndBelow, NoMarksOutside, LenProperties
<1>2. /\ r \in Seq(Hooks!Line) /\ Len(r) = Len(a) + Len(z) /\ DOMAIN r = 1 .. Len(r)
      /\ \A k \in 1 .. Len(r) : r[k] = IF k <= Len(a) THEN a[k] ELSE z[k - Len(a)]
  BY <1>1, ConcatLines, LenProperties DEF Hooks!Removed
<1> HIDE DEF a, z, r
<1>3. \A k \in 1 .. Len(r) : r[k] \notin Mark
  <2>1. ASSUME NEW k \in 1 .. Len(r)
        PROVE  k \in 1 .. Len(a) \/ (~(k <= Len(a)) /\ k - Len(a) \in 1 .. Len(z))
    BY <1>1, <1>2
  <2>2. QED
    BY <1>1, <1>2, <2>1
<1>4. ~Hooks!IsManaged(r)
  BY <1>2, <1>3 DEF Hooks!IsManaged, Hooks!Positions, Mark
<1>5. Hooks!UserLines(r) = Hooks!UserLines(f)
  <2>1. Hooks!Body(r) = r /\ Hooks!Body(f) = f
    BY <1>2 DEF Hooks!Body, HookConstants
  <2>2. QED
    BY <2>1, <1>4 DEF Hooks!UserLines, r
<1>6. QED
  BY <1>2, <1>4, <1>5 DEF r

\* A line that the user appends is added to the user's lines, and leaves the block alone.
LEMMA AppendIsSound ==
  ASSUME HookConstants, NEW f \in Seq(Hooks!Line), NEW l \in UserLine
  PROVE  /\ Append(f, l) \in Seq(Hooks!Line)
         /\ Hooks!UserLines(f) \subseteq Hooks!UserLines(Append(f, l))
         /\ Hooks!UserLines(Append(f, l)) \subseteq Hooks!UserLines(f) \cup {l}
         /\ Hooks!IsManaged(Append(f, l)) <=> Hooks!IsManaged(f)
         /\ Hooks!IsManaged(f) =>
              Append(f, l)[Hooks!Begin(Append(f, l)) + 1] = f[Hooks!Begin(f) + 1]
<1> DEFINE g == Append(f, l)
<1>1. l \in Hooks!Line /\ l \notin Mark
  BY DEF Hooks!Line, Mark, HookConstants
<1>2. /\ g \in Seq(Hooks!Line) /\ Len(g) = Len(f) + 1 /\ Len(f) \in Nat
      /\ \A k \in 1 .. Len(f) : g[k] = f[k]
      /\ g[Len(f) + 1] = l
  BY <1>1, AppendProperties, LenProperties
<1> HIDE DEF g
<1>3. \A k \in 1 .. Len(g) : k \in 1 .. Len(f) \/ (k = Len(f) + 1 /\ g[k] = l)
  BY <1>2
<1>4. 1 .. Len(f) \subseteq 1 .. Len(g)
  BY <1>2
<1>5. DOMAIN f = 1 .. Len(f) /\ DOMAIN g = 1 .. Len(g)
  BY <1>2, LenProperties
<1>6. \A m \in Mark : Hooks!Positions(g, m) = Hooks!Positions(f, m)
  BY <1>1, <1>2, <1>3, <1>4, <1>5 DEF Hooks!Positions
<1>7. Hooks!IsManaged(g) <=> Hooks!IsManaged(f)
  BY <1>4, <1>5, <1>6 DEF Hooks!IsManaged, Hooks!Positions, Mark
<1>8. Hooks!IsManaged(g) =>
        /\ Hooks!Begin(g) = Hooks!Begin(f) /\ Hooks!End(g) = Hooks!End(f)
        /\ g[Hooks!Begin(g) + 1] = f[Hooks!Begin(f) + 1]
  <2>1. SUFFICES ASSUME Hooks!IsManaged(g)
                 PROVE  /\ Hooks!Begin(g) = Hooks!Begin(f) /\ Hooks!End(g) = Hooks!End(f)
                        /\ g[Hooks!Begin(g) + 1] = f[Hooks!Begin(f) + 1]
    OBVIOUS
  <2>2. /\ Hooks!Begin(f) \in 1 .. Len(f) /\ Hooks!End(f) \in 1 .. Len(f)
        /\ Hooks!Begin(f) < Hooks!End(f)
        /\ f[Hooks!Begin(f)] = "begin" /\ f[Hooks!End(f)] = "end"
    BY <1>7, <2>1, ManagedParts
  <2>3. Hooks!Begin(f) \in 1 .. Len(g) /\ Hooks!End(f) \in 1 .. Len(g)
        /\ g[Hooks!Begin(f)] = "begin" /\ g[Hooks!End(f)] = "end"
    BY <1>2, <1>4, <2>2
  <2>4. Hooks!Begin(f) + 1 \in 1 .. Len(f)
    BY <1>2, <2>2
  <2>5. Hooks!Begin(g) = Hooks!Begin(f) /\ Hooks!End(g) = Hooks!End(f)
    BY <1>2, <2>1, <2>3, ManagedParts
  <2>6. QED
    BY <1>2, <2>4, <2>5
<1>9. ASSUME NEW x \in Hooks!UserLines(f)
      PROVE  x \in Hooks!UserLines(g)
  <2>1. x \in UserLine
    BY DEF Hooks!UserLines
  <2>2. PICK k \in 1 .. Len(f) :
          f[k] = x /\ (Hooks!IsManaged(f) => k < Hooks!Begin(f) \/ k > Hooks!End(f))
    BY <2>1, LinesOutside
  <2>3. k \in 1 .. Len(g) /\ g[k] = x /\ (Hooks!IsManaged(g) => k < Hooks!Begin(g) \/ k > Hooks!End(g))
    BY <1>2, <1>4, <1>7, <1>8, <2>2
  <2>4. QED
    BY <1>2, <2>1, <2>3, LinesOutside
<1>10. ASSUME NEW x \in Hooks!UserLines(g), x # l
       PROVE  x \in Hooks!UserLines(f)
  <2>1. x \in UserLine
    BY DEF Hooks!UserLines
  <2>2. PICK k \in 1 .. Len(g) :
          g[k] = x /\ (Hooks!IsManaged(g) => k < Hooks!Begin(g) \/ k > Hooks!End(g))
    BY <1>2, <2>1, LinesOutside
  <2>3. k \in 1 .. Len(f) /\ f[k] = x /\ (Hooks!IsManaged(f) => k < Hooks!Begin(f) \/ k > Hooks!End(f))
    BY <1>2, <1>3, <1>7, <1>8, <1>10, <2>2
  <2>4. QED
    BY <2>1, <2>3, LinesOutside
<1>11. QED
  BY <1>2, <1>7, <1>8, <1>9, <1>10 DEF g

\* Decoding keeps the block, and makes of each line of the user the one it is decoded to.
LEMMA DecodingIsSound ==
  ASSUME HookConstants, NEW f \in Seq(Hooks!Line)
  PROVE  /\ Hooks!Decoded(f) \in Seq(Hooks!Line)
         /\ Hooks!IsManaged(Hooks!Decoded(f)) <=> Hooks!IsManaged(f)
         /\ \A x \in Hooks!UserLines(f) : Decode[x] \in Hooks!UserLines(Hooks!Decoded(f))
         /\ Hooks!Decoded(Hooks!Decoded(f)) = Hooks!Decoded(f)
<1> DEFINE g == [i \in 1 .. Len(f) |-> IF f[i] \in UserLine THEN Decode[f[i]] ELSE f[i]]
<1>1. /\ DOMAIN f = 1 .. Len(f) /\ Len(f) \in Nat
      /\ \A k \in 1 .. Len(f) : f[k] \in Hooks!Line
  BY LenProperties
<1>2. \A x \in UserLine : Decode[x] \in UserLine /\ Decode[Decode[x]] = Decode[x]
  BY DEF HookConstants
<1>3. f # None
  BY DEF HookConstants
<1>4. Hooks!Decoded(f) = g
  BY <1>1, <1>3 DEF Hooks!Decoded
<1>5. g \in [1 .. Len(f) -> Hooks!Line]
  BY <1>1, <1>2 DEF Hooks!Line
<1>6. g \in Seq(Hooks!Line) /\ Len(g) = Len(f) /\ DOMAIN g = 1 .. Len(f)
  BY <1>1, <1>5
<1>7. \A k \in 1 .. Len(f) :
        /\ f[k] \in UserLine => g[k] = Decode[f[k]] /\ g[k] \in UserLine
        /\ f[k] \notin UserLine => g[k] = f[k]
  BY <1>2
<1> HIDE DEF g
<1>8. Mark \cap UserLine = {}
  BY DEF Mark, HookConstants
<1>9. \A m \in Mark : Hooks!Positions(g, m) = Hooks!Positions(f, m)
  BY <1>1, <1>6, <1>7, <1>8 DEF Hooks!Positions
<1>10. Hooks!IsManaged(g) <=> Hooks!IsManaged(f)
  BY <1>1, <1>6, <1>9 DEF Hooks!IsManaged, Mark
<1>11. Hooks!IsManaged(g) => Hooks!Begin(g) = Hooks!Begin(f) /\ Hooks!End(g) = Hooks!End(f)
  <2>1. SUFFICES ASSUME Hooks!IsManaged(g)
                 PROVE  Hooks!Begin(g) = Hooks!Begin(f) /\ Hooks!End(g) = Hooks!End(f)
    OBVIOUS
  <2>2. /\ Hooks!Begin(f) \in 1 .. Len(f) /\ Hooks!End(f) \in 1 .. Len(f)
        /\ f[Hooks!Begin(f)] = "begin" /\ f[Hooks!End(f)] = "end"
    BY <1>10, <2>1, ManagedParts
  <2>3. g[Hooks!Begin(f)] = "begin" /\ g[Hooks!End(f)] = "end"
    BY <1>7, <1>8, <2>2 DEF Mark
  <2>4. QED
    BY <1>6, <2>1, <2>2, <2>3, ManagedParts
<1>12. ASSUME NEW x \in Hooks!UserLines(f)
       PROVE  Decode[x] \in Hooks!UserLines(g)
  <2>1. x \in UserLine /\ Decode[x] \in UserLine
    BY <1>2 DEF Hooks!UserLines
  <2>2. PICK k \in 1 .. Len(f) :
          f[k] = x /\ (Hooks!IsManaged(f) => k < Hooks!Begin(f) \/ k > Hooks!End(f))
    BY <2>1, LinesOutside
  <2>3. /\ k \in 1 .. Len(g) /\ g[k] = Decode[x]
        /\ Hooks!IsManaged(g) => k < Hooks!Begin(g) \/ k > Hooks!End(g)
    BY <1>6, <1>7, <1>10, <1>11, <2>1, <2>2
  <2>4. QED
    BY <1>6, <2>1, <2>3, LinesOutside
<1>13. Hooks!Decoded(g) = g
  <2>1. g # None
    BY <1>6 DEF HookConstants
  <2>2. \A k \in 1 .. Len(f) : g[k] \in UserLine => Decode[g[k]] = g[k]
    BY <1>2, <1>7
  <2>3. Hooks!Decoded(g) = [k \in 1 .. Len(f) |-> g[k]]
    BY <1>6, <2>1, <2>2 DEF Hooks!Decoded
  <2>4. QED
    BY <1>6, <2>3
<1>14. QED
  BY <1>4, <1>6, <1>10, <1>12, <1>13

LEMMA NoLinesOfNothing ==
  ASSUME NEW f, Hooks!Body(f) = <<>>
  PROVE  Hooks!UserLines(f) = {} /\ ~Hooks!IsManaged(Hooks!Body(f))
<1>1. Hooks!ToSet(<<>>) = {} /\ ~Hooks!IsManaged(<<>>)
  BY DEF Hooks!ToSet, Hooks!IsManaged
<1>2. QED
  BY <1>1 DEF Hooks!UserLines

\* The same of a hook, which may be missing.
LEMMA ReadingIsSound ==
  ASSUME HookConstants, NEW f \in Seq(Hooks!Line) \cup {None}
  PROVE  /\ Hooks!Decoded(f) \in Seq(Hooks!Line) \cup {None}
         /\ Hooks!IsManaged(Hooks!Body(Hooks!Decoded(f))) <=> Hooks!IsManaged(Hooks!Body(f))
         /\ \A x \in Hooks!UserLines(f) : Decode[x] \in Hooks!UserLines(Hooks!Decoded(f))
         /\ Hooks!Decoded(Hooks!Decoded(f)) = Hooks!Decoded(f)
<1>1. CASE f = None
  <2>1. Hooks!Decoded(f) = None /\ Hooks!Body(f) = <<>>
    BY <1>1 DEF Hooks!Decoded, Hooks!Body
  <2>2. QED
    BY <1>1, <2>1, NoLinesOfNothing
<1>2. CASE f # None
  <2>1. f \in Seq(Hooks!Line)
    BY <1>2
  <2>2. Hooks!Decoded(f) # None
    BY <2>1, DecodingIsSound DEF HookConstants
  <2>3. Hooks!Body(f) = f /\ Hooks!Body(Hooks!Decoded(f)) = Hooks!Decoded(f)
    BY <1>2, <2>2 DEF Hooks!Body
  <2>4. QED
    BY <2>1, <2>3, DecodingIsSound
<1>3. QED
  BY <1>1, <1>2

\* What has been decoded is decoded to itself.
LEMMA DecodedLines ==
  ASSUME HookConstants, NEW f \in Seq(Hooks!Line) \cup {None}, Hooks!Decoded(f) = f
  PROVE  \A x \in Hooks!UserLines(f) : Decode[x] = x
<1>1. SUFFICES ASSUME NEW x \in Hooks!UserLines(f)
               PROVE  Decode[x] = x
  OBVIOUS
<1>2. f # None
  BY NoLinesOfNothing DEF Hooks!Body
<1>3. f \in Seq(Hooks!Line) /\ x \in UserLine /\ DOMAIN f = 1 .. Len(f)
  BY <1>2, LenProperties DEF Hooks!UserLines
<1>4. PICK k \in 1 .. Len(f) : f[k] = x
  BY <1>3, LinesOutside
<1>5. Hooks!Decoded(f)[k] = Decode[x]
  BY <1>2, <1>3, <1>4 DEF Hooks!Decoded
<1>6. QED
  BY <1>4, <1>5

-----------------------------------------------------------------------------
(* The invariant                                                           *)

Section == {"read", "stage", "apply", "rollback", "replace", "tidy", "unlock"}

SectionInv == \A p \in Proc : hookPc[p] \in Section => lock = p

\* What has been read has been decoded.
DecodedInv == \A p \in Proc, h \in Hooks!Hook : Hooks!Decoded(before[p][h]) = before[p][h]

\* Of h has been read what the user had put there by then.
LinesRead(p, h) ==
  \A l \in Hooks!UserLines(file[h]) \ added[h] : Decode[l] \in Hooks!UserLines(before[p][h])

\* h is what was read, if the user has not added to it since.
Unchanged(p, h) == added[h] = {} => Hooks!Decoded(file[h]) = before[p][h]

\* h is read, and nothing but the user has changed it; its copy is what the call makes of it.
Read(p, h) ==
  /\ LinesRead(p, h) /\ Unchanged(p, h)
  /\ IF cfg[p] = None THEN Hooks!IsManaged(Hooks!Body(before[p][h]))
                      ELSE Hooks!Updatable(before[p][h])
Copied(p, h) ==
  staged[p][h] =
    IF cfg[p] = None THEN Hooks!Removed(before[p][h]) ELSE Hooks!Updated(before[p][h], cfg[p])

\* h has the block of p, between the lines that were read.
Installed(p, h) ==
  Hooks!IsManaged(Hooks!Body(file[h])) /\ file[h][Hooks!Begin(file[h]) + 1] = cfg[p]
Replaced(p, h) == Installed(p, h) /\ LinesRead(p, h) /\ Hooks!Updatable(before[p][h])

\* What has been told, or is going to be, is so.
Answered(p) ==
  \A h \in Hooks!Hook :
    /\ hookAnswer[p] = "installed" => Installed(p, h)
    /\ hookAnswer[p] = "removed" => ~Hooks!IsManaged(Hooks!Body(file[h]))
    /\ hookAnswer[p] = "refused" /\ before[p][h] # None => Unchanged(p, h)
    /\ hookAnswer[p] = "restored" => Unchanged(p, h)

\* An installation has read and copied the hooks up to the one it is at; then it replaces
\* them in the same order, and when the second rename fails only the first is replaced.
InstallInv(p) ==
  LET one == "pre-commit"
      two == "pre-push"
  IN /\ hookPc[p] \in {"read", "stage"} =>
          \/ hookAt[p] = one /\ before[p][two] = None
          \/ hookAt[p] = two /\ Read(p, one) /\ Copied(p, one)
     /\ hookPc[p] = "stage" => Read(p, hookAt[p])
     /\ hookPc[p] = "apply" =>
          /\ Read(p, two) /\ Copied(p, two)
          /\ \/ hookAt[p] = one /\ Read(p, one) /\ Copied(p, one)
             \/ hookAt[p] = two /\ Replaced(p, one)
     /\ hookPc[p] \in {"rollback", "replace"} =>
          hookAnswer[p] = "restored" /\ Replaced(p, one) /\ Unchanged(p, two)
     /\ hookPc[p] = "replace" => before[p][one] # None

\* A removal deals with one hook after the other, and has no rollback.
UninstallInv(p) ==
  /\ hookPc[p] \in {"read", "stage", "apply"} =>
       \/ hookAt[p] = "pre-commit"
       \/ hookAt[p] = "pre-push" /\ ~Hooks!IsManaged(Hooks!Body(file["pre-commit"]))
  /\ hookPc[p] \in {"stage", "apply"} => Read(p, hookAt[p])
  /\ hookPc[p] = "apply" => Copied(p, hookAt[p])
  /\ hookPc[p] \notin {"rollback", "replace", "tidy"}

\* A call has read and told nothing before its section, and tells the truth at its end.
CallInv(p) ==
  /\ hookPc[p] \in {"idle", "wait"} => before[p] = Hooks!Nothing
  /\ hookPc[p] \in {"idle", "wait", "read", "stage", "apply"} => hookAnswer[p] = None
  /\ hookPc[p] \in Section =>
       /\ cfg[p] # None => InstallInv(p)
       /\ cfg[p] = None => UninstallInv(p)
       /\ hookPc[p] \in {"tidy", "unlock"} => Answered(p)

HookInv == Hooks!TypeOK /\ SectionInv /\ DecodedInv /\ \A p \in Proc : CallInv(p)

-----------------------------------------------------------------------------
(* Types and the section                                                   *)

LEMMA BodyTypes ==
  ASSUME HookConstants, NEW f \in Seq(Hooks!Line) \cup {None}
  PROVE  /\ f # None => f \in Seq(Hooks!Line) /\ Hooks!Body(f) = f
         /\ Hooks!IsManaged(Hooks!Body(f)) => f \in Seq(Hooks!Line) /\ Hooks!Body(f) = f
  <1>1. ~Hooks!IsManaged(<<>>)
    BY DEF Hooks!IsManaged
  <1>2. QED
    BY <1>1 DEF Hooks!Body, HookConstants

\* What a call that stages a hook is going to write.
LEMMA CopyType ==
  ASSUME HookConstants, HookInv, NEW p \in Proc, hookPc[p] = "stage"
  PROVE  /\ hookAt[p] \in Hooks!Hook
         /\ before[p][hookAt[p]] \in Seq(Hooks!Line) \cup {None}
         /\ cfg[p] = None => Hooks!Removed(before[p][hookAt[p]]) \in Seq(Hooks!Line)
         /\ cfg[p] # None => Hooks!Updated(before[p][hookAt[p]], cfg[p]) \in Seq(Hooks!Line)
<1> DEFINE h == hookAt[p]
           b == before[p][h]
<1>1. h \in Hooks!Hook
  BY DEF HookInv, CallInv, InstallInv, UninstallInv, Section, Hooks!Hook
<1>2. b \in Seq(Hooks!Line) \cup {None} /\ cfg[p] \in Config \cup {None}
  BY <1>1 DEF HookInv, Hooks!TypeOK
<1>3. Read(p, h)
  BY DEF HookInv, CallInv, InstallInv, UninstallInv, Section
<1>4. cfg[p] = None => Hooks!IsManaged(Hooks!Body(b))
  BY <1>3 DEF Read
<1>5. cfg[p] # None => Hooks!Updatable(b)
  BY <1>3 DEF Read
<1>6. cfg[p] = None => b \in Seq(Hooks!Line) /\ Hooks!IsManaged(b)
  BY <1>2, <1>4, BodyTypes
<1>7. cfg[p] = None => Hooks!Removed(b) \in Seq(Hooks!Line)
  BY <1>6, RemovalIsSound
<1>8. cfg[p] # None => Hooks!Updated(b, cfg[p]) \in Seq(Hooks!Line)
  BY <1>2, <1>5, UpdateIsSound
<1>9. QED
  BY <1>1, <1>2, <1>7, <1>8

LEMMA EntryType ==
  ASSUME NEW S, NEW p \in Proc, NEW h \in Hooks!Hook, NEW v \in S
  PROVE  /\ \A f \in [Hooks!Hook -> S] : [f EXCEPT ![h] = v] \in [Hooks!Hook -> S]
         /\ \A f \in [Proc -> [Hooks!Hook -> S]] : [f EXCEPT ![p][h] = v] \in [Proc -> [Hooks!Hook -> S]]
  OBVIOUS

\* What a step of the user makes of the hook.
LEMMA EditIsSound ==
  ASSUME HookConstants, HookInv, NEW h \in Hooks!Hook, Hooks!Edit(h)
  PROVE  /\ \A k \in Hooks!Hook : k # h => file'[k] = file[k] /\ added'[k] = added[k]
         /\ \E l \in UserLine :
              /\ added' = [added EXCEPT ![h] = @ \cup {l}]
              /\ file'[h] \in Seq(Hooks!Line)
              /\ Hooks!UserLines(file[h]) \subseteq Hooks!UserLines(file'[h])
              /\ Hooks!UserLines(file'[h]) \subseteq Hooks!UserLines(file[h]) \cup {l}
              /\ Hooks!IsManaged(Hooks!Body(file'[h])) <=> Hooks!IsManaged(Hooks!Body(file[h]))
              /\ Hooks!IsManaged(Hooks!Body(file[h])) =>
                   file'[h][Hooks!Begin(file'[h]) + 1] = file[h][Hooks!Begin(file[h]) + 1]
<1>1. PICK l \in UserLine :
        /\ file' = [file EXCEPT ![h] = IF Hooks!Body(@) = <<>> THEN <<l>> ELSE Append(@, l)]
        /\ added' = [added EXCEPT ![h] = @ \cup {l}]
  BY DEF Hooks!Edit
<1>2. /\ file[h] \in Seq(Hooks!Line) \cup {None}
      /\ DOMAIN file = Hooks!Hook /\ DOMAIN added = Hooks!Hook
  BY DEF HookInv, Hooks!TypeOK
<1>3. CASE Hooks!Body(file[h]) = <<>>
  <2>1. file'[h] = <<l>>
    BY <1>1, <1>2, <1>3
  <2>2. <<l>> \in Seq(Hooks!Line) /\ l \notin Mark /\ <<l>> # None
    <3>1. l \in Hooks!Line
      BY DEF Hooks!Line
    <3>2. <<l>> \in Seq(Hooks!Line)
      BY <3>1
    <3>3. l \notin Mark
      BY DEF Mark, HookConstants
    <3>4. QED
      BY <3>2, <3>3 DEF HookConstants
  <2>3. ~Hooks!IsManaged(<<l>>)
    BY <2>2 DEF Hooks!IsManaged, Hooks!Positions, Mark
  <2>4. Hooks!Body(<<l>>) = <<l>> /\ Hooks!ToSet(<<l>>) = {l}
    BY <2>2 DEF Hooks!Body, Hooks!ToSet
  <2>5. Hooks!UserLines(<<l>>) \subseteq {l}
    BY <2>3, <2>4 DEF Hooks!UserLines
  <2>6. QED
    BY <1>1, <1>2, <1>3, <2>1, <2>2, <2>3, <2>4, <2>5, NoLinesOfNothing
<1>4. CASE Hooks!Body(file[h]) # <<>>
  <2>1. file[h] \in Seq(Hooks!Line) /\ Hooks!Body(file[h]) = file[h]
    BY <1>2, <1>4 DEF Hooks!Body
  <2>2. file'[h] = Append(file[h], l)
    BY <1>1, <1>2, <1>4
  <2>3. file'[h] \in Seq(Hooks!Line)
    BY <2>1, <2>2, AppendIsSound
  <2>4. Hooks!Body(file'[h]) = file'[h]
    BY <2>3 DEF Hooks!Body, HookConstants
  <2>5. /\ Hooks!UserLines(file[h]) \subseteq Hooks!UserLines(file'[h])
        /\ Hooks!UserLines(file'[h]) \subseteq Hooks!UserLines(file[h]) \cup {l}
        /\ Hooks!IsManaged(file'[h]) <=> Hooks!IsManaged(file[h])
        /\ Hooks!IsManaged(file[h]) =>
             file'[h][Hooks!Begin(file'[h]) + 1] = file[h][Hooks!Begin(file[h]) + 1]
    <3> DEFINE f == file[h]
               g == file'[h]
    <3>1. f \in Seq(Hooks!Line) /\ g = Append(f, l)
      BY <2>1, <2>2
    <3> HIDE DEF f, g
    <3>2. /\ Hooks!UserLines(f) \subseteq Hooks!UserLines(g)
          /\ Hooks!UserLines(g) \subseteq Hooks!UserLines(f) \cup {l}
          /\ Hooks!IsManaged(g) <=> Hooks!IsManaged(f)
          /\ Hooks!IsManaged(f) => g[Hooks!Begin(g) + 1] = f[Hooks!Begin(f) + 1]
      BY <3>1, AppendIsSound
    <3>3. QED
      BY <3>2 DEF f, g
  <2>6. \A k \in Hooks!Hook : k # h => file'[k] = file[k] /\ added'[k] = added[k]
    BY <1>1, <1>2
  <2>7. QED
    BY <1>1, <2>1, <2>3, <2>4, <2>5, <2>6
<1>5. QED
  BY <1>3, <1>4

LEMMA HookTypeStep ==
  ASSUME HookConstants, HookInv, [Hooks!Next]_Hooks!vars
  PROVE  Hooks!TypeOK'
<1>a. Hooks!TypeOK
  BY DEF HookInv
<1>b. \A h \in Hooks!Hook : Hooks!NextHook(h) \in Hooks!Hook \cup {None}
  BY DEF Hooks!NextHook, Hooks!Hook
<1>c. {"pre-commit", "pre-push"} \subseteq Hooks!Hook
  BY DEF Hooks!Hook
<1>e. Hooks!Fault => hookFaults' \in 0 .. MaxHookFaults
  BY <1>a DEF Hooks!Fault, Hooks!TypeOK, HookConstants
<1>f. MaxHookEdits \in Nat
  BY DEF HookConstants
<1>g. ASSUME NEW p \in Proc, NEW h \in Hooks!Hook, Hooks!ReadHook(p, h)
      PROVE  /\ before' \in [Proc -> [Hooks!Hook -> Seq(Hooks!Line) \cup {None}]]
             /\ added' \in [Hooks!Hook -> SUBSET UserLine]
  <2>1. Hooks!Decoded(file[h]) \in Seq(Hooks!Line) \cup {None}
    BY <1>a, ReadingIsSound DEF Hooks!TypeOK
  <2>2. QED
    BY <1>a, <1>g, <2>1, EntryType DEF Hooks!TypeOK, Hooks!ReadHook
<1> USE <1>a, <1>e DEF Hooks!TypeOK, Hooks!Goto, Hooks!Answer
<1>1. ASSUME NEW p \in Proc, Hooks!Call(p) PROVE Hooks!TypeOK'
  BY <1>1 DEF Hooks!Call
<1>2. ASSUME NEW p \in Proc, Hooks!Acquire(p) PROVE Hooks!TypeOK'
  BY <1>2, <1>c DEF Hooks!Acquire
<1>3. ASSUME NEW p \in Proc, Hooks!GiveUp(p) PROVE Hooks!TypeOK'
  BY <1>3 DEF Hooks!GiveUp
<1>d. ASSUME NEW p \in Proc, hookPc[p] \in {"read", "apply"}
      PROVE  hookAt[p] \in Hooks!Hook
  BY <1>d DEF HookInv, CallInv, InstallInv, UninstallInv, Section, Hooks!Hook
<1>4. ASSUME NEW p \in Proc, Hooks!ReadForInstall(p) PROVE Hooks!TypeOK'
  <2>1. hookAt[p] \in Hooks!Hook
    BY <1>4, <1>d DEF Hooks!ReadForInstall
  <2>2. /\ before' \in [Proc -> [Hooks!Hook -> Seq(Hooks!Line) \cup {None}]]
        /\ added' \in [Hooks!Hook -> SUBSET UserLine]
    BY <1>4, <1>g, <2>1 DEF Hooks!ReadForInstall, Hooks!ReadFails
  <2>3. QED
    BY <1>4, <2>2 DEF Hooks!ReadForInstall, Hooks!ReadFails
<1>5. ASSUME NEW p \in Proc, Hooks!ReadForUninstall(p) PROVE Hooks!TypeOK'
  <2>1. hookAt[p] \in Hooks!Hook
    BY <1>5, <1>d DEF Hooks!ReadForUninstall
  <2>2. /\ before' \in [Proc -> [Hooks!Hook -> Seq(Hooks!Line) \cup {None}]]
        /\ added' \in [Hooks!Hook -> SUBSET UserLine]
    BY <1>5, <1>g, <2>1 DEF Hooks!ReadForUninstall, Hooks!ReadFails
  <2>3. hookAt' \in [Proc -> Hooks!Hook \cup {None}]
    <3>1. hookAt' = hookAt \/ hookAt' = [hookAt EXCEPT ![p] = Hooks!NextHook(hookAt[p])]
      BY <1>5 DEF Hooks!ReadForUninstall, Hooks!Proceed
    <3>2. QED
      BY <1>b, <2>1, <3>1
  <2>4. QED
    BY <1>5, <2>2, <2>3 DEF Hooks!ReadForUninstall, Hooks!ReadFails, Hooks!Proceed
<1>6. ASSUME NEW p \in Proc, Hooks!Stage(p) PROVE Hooks!TypeOK'
  <2> DEFINE written == IF cfg[p] = None THEN Hooks!Removed(before[p][hookAt[p]])
                     ELSE Hooks!Updated(before[p][hookAt[p]], cfg[p])
  <2>1. hookAt[p] \in Hooks!Hook /\ written \in Seq(Hooks!Line)
    BY <1>6, CopyType DEF Hooks!Stage
  <2>2. staged' = [staged EXCEPT ![p][hookAt[p]] = written]
    BY <1>6 DEF Hooks!Stage
  <2> HIDE DEF written
  <2>3. staged' \in [Proc -> [Hooks!Hook -> Seq(Hooks!Line) \cup {None}]]
    BY <2>1, <2>2
  <2>4. hookAt' \in [Proc -> Hooks!Hook \cup {None}]
    BY <1>6, <1>b, <1>c, <2>1 DEF Hooks!Stage
  <2>5. QED
    BY <1>6, <2>3, <2>4 DEF Hooks!Stage
<1>7. ASSUME NEW p \in Proc, Hooks!Apply(p) PROVE Hooks!TypeOK'
  <2>1. hookAt[p] \in Hooks!Hook
    BY <1>7, <1>d DEF Hooks!Apply
  <2>2. file' \in [Hooks!Hook -> Seq(Hooks!Line) \cup {None}]
    <3>1. file' = file \/ file' = [file EXCEPT ![hookAt[p]] = staged[p][hookAt[p]]]
      BY <1>7 DEF Hooks!Apply
    <3>2. staged[p][hookAt[p]] \in Seq(Hooks!Line) \cup {None}
      BY <2>1
    <3>3. QED
      BY <2>1, <3>1, <3>2, EntryType
  <2>3. staged' \in [Proc -> [Hooks!Hook -> Seq(Hooks!Line) \cup {None}]]
    <3>1. staged' = staged \/ staged' = [staged EXCEPT ![p][hookAt[p]] = None]
      BY <1>7 DEF Hooks!Apply
    <3>2. [staged EXCEPT ![p][hookAt[p]] = None] \in [Proc -> [Hooks!Hook -> Seq(Hooks!Line) \cup {None}]]
      BY <2>1
    <3>3. QED
      BY <3>1, <3>2
  <2>4. hookAt' \in [Proc -> Hooks!Hook \cup {None}]
    <3>1. hookAt' = hookAt \/ hookAt' = [hookAt EXCEPT ![p] = Hooks!NextHook(hookAt[p])]
      BY <1>7 DEF Hooks!Apply, Hooks!Proceed
    <3>2. QED
      BY <1>b, <2>1, <3>1
  <2>5. hookAnswer' \in [Proc -> {None, "installed", "restored", "refused", "removed", "failed"}]
    BY <1>7 DEF Hooks!Apply
  <2>6. hookPc' \in [Proc -> {"idle", "wait", "read", "stage", "apply", "rollback", "replace",
                          "tidy", "unlock", "ended", "crashed"}]
    BY <1>7 DEF Hooks!Apply, Hooks!Proceed
  <2>7. QED
    BY <1>7, <2>2, <2>3, <2>4, <2>5, <2>6 DEF Hooks!Apply
<1>14. ASSUME NEW p \in Proc, Hooks!ApplyRemoval(p) PROVE Hooks!TypeOK'
  <2>1. hookAt[p] \in Hooks!Hook
    BY <1>14, <1>d DEF Hooks!ApplyRemoval
  <2>2. file' \in [Hooks!Hook -> Seq(Hooks!Line) \cup {None}]
    <3>1. file' = file \/ file' = [file EXCEPT ![hookAt[p]] = staged[p][hookAt[p]]]
      BY <1>14 DEF Hooks!ApplyRemoval
    <3>2. staged[p][hookAt[p]] \in Seq(Hooks!Line) \cup {None}
      BY <2>1
    <3>3. QED
      BY <2>1, <3>1, <3>2, EntryType
  <2>3. staged' \in [Proc -> [Hooks!Hook -> Seq(Hooks!Line) \cup {None}]]
    <3>1. staged' = staged \/ staged' = [staged EXCEPT ![p][hookAt[p]] = None]
      BY <1>14 DEF Hooks!ApplyRemoval
    <3>2. [staged EXCEPT ![p][hookAt[p]] = None] \in [Proc -> [Hooks!Hook -> Seq(Hooks!Line) \cup {None}]]
      BY <2>1
    <3>3. QED
      BY <3>1, <3>2
  <2>4. hookAt' \in [Proc -> Hooks!Hook \cup {None}]
    <3>1. hookAt' = hookAt \/ hookAt' = [hookAt EXCEPT ![p] = Hooks!NextHook(hookAt[p])]
      BY <1>14 DEF Hooks!ApplyRemoval, Hooks!Proceed
    <3>2. QED
      BY <1>b, <2>1, <3>1
  <2>5. hookAnswer' \in [Proc -> {None, "installed", "restored", "refused", "removed", "failed"}]
    BY <1>14 DEF Hooks!ApplyRemoval
  <2>6. hookPc' \in [Proc -> {"idle", "wait", "read", "stage", "apply", "rollback", "replace",
                          "tidy", "unlock", "ended", "crashed"}]
    BY <1>14 DEF Hooks!ApplyRemoval, Hooks!Proceed
  <2>7. QED
    BY <1>14, <2>2, <2>3, <2>4, <2>5, <2>6 DEF Hooks!ApplyRemoval
<1>8. ASSUME NEW p \in Proc, Hooks!Restore(p) PROVE Hooks!TypeOK'
  <2>1. file' \in [Hooks!Hook -> Seq(Hooks!Line) \cup {None}]
    BY <1>8, <1>c DEF Hooks!Restore
  <2>2. QED
    BY <1>8, <2>1 DEF Hooks!Restore
<1>15. ASSUME NEW p \in Proc, Hooks!ReplaceByRollback(p) PROVE Hooks!TypeOK'
  <2>1. file' \in [Hooks!Hook -> Seq(Hooks!Line) \cup {None}]
    <3>1. file' = file \/ file' = [file EXCEPT !["pre-commit"] = before[p]["pre-commit"]]
      BY <1>15 DEF Hooks!ReplaceByRollback
    <3>2. before[p]["pre-commit"] \in Seq(Hooks!Line) \cup {None}
      BY <1>c
    <3>3. QED
      BY <1>c, <3>1, <3>2, EntryType
  <2>2. QED
    BY <1>15, <2>1 DEF Hooks!ReplaceByRollback
<1>9. ASSUME NEW p \in Proc, Hooks!Tidy(p) PROVE Hooks!TypeOK'
  <2>1. \/ staged' = [staged EXCEPT ![p] = Hooks!Nothing]
        \/ \E h \in Hooks!Hook :
             staged' = [staged EXCEPT ![p] = [Hooks!Nothing EXCEPT ![h] = staged[p][h]]]
    BY <1>9 DEF Hooks!Tidy
  <2>2. /\ Hooks!Nothing \in [Hooks!Hook -> Seq(Hooks!Line) \cup {None}]
        /\ \A h \in Hooks!Hook :
             [Hooks!Nothing EXCEPT ![h] = staged[p][h]] \in [Hooks!Hook -> Seq(Hooks!Line) \cup {None}]
    BY DEF Hooks!Nothing
  <2>3. staged' \in [Proc -> [Hooks!Hook -> Seq(Hooks!Line) \cup {None}]]
    <3>1. PICK rest \in [Hooks!Hook -> Seq(Hooks!Line) \cup {None}] :
            staged' = [staged EXCEPT ![p] = rest]
      BY <2>1, <2>2
    <3>2. QED
      BY <3>1
  <2>4. QED
    BY <1>9, <2>3 DEF Hooks!Tidy
<1>10. ASSUME NEW p \in Proc, Hooks!Unlock(p) \/ Hooks!Crash(p) PROVE Hooks!TypeOK'
  <2>1. Hooks!Nothing \in [Hooks!Hook -> Seq(Hooks!Line) \cup {None}]
    BY DEF Hooks!Nothing
  <2>2. /\ before' \in [Proc -> [Hooks!Hook -> Seq(Hooks!Line) \cup {None}]]
        /\ cfg' \in [Proc -> Config \cup {None}]
        /\ hookAt' \in [Proc -> Hooks!Hook \cup {None}]
    <3>1. Hooks!Over(p)
      BY <1>10 DEF Hooks!Unlock, Hooks!Crash
    <3>2. QED
      BY <2>1, <3>1 DEF Hooks!Over
  <2>3. QED
    BY <1>10, <2>2 DEF Hooks!Unlock, Hooks!Crash
<1>11. ASSUME NEW h \in Hooks!Hook, Hooks!Edit(h) PROVE Hooks!TypeOK'
  <2>1. /\ file'[h] \in Seq(Hooks!Line)
        /\ \E l \in UserLine : added' = [added EXCEPT ![h] = @ \cup {l}]
    BY <1>11, EditIsSound
  <2>2. \E b : file' = [file EXCEPT ![h] = b]
    BY <1>11 DEF Hooks!Edit
  <2>3. file' \in [Hooks!Hook -> Seq(Hooks!Line) \cup {None}]
    BY <2>1, <2>2
  <2>4. added' \in [Hooks!Hook -> SUBSET UserLine]
    BY <2>1
  <2>5. QED
    BY <1>11, <1>f, <2>3, <2>4 DEF Hooks!Edit
<1>12. CASE UNCHANGED Hooks!vars
  BY <1>12 DEF Hooks!vars
<1>13. QED
  BY <1>1, <1>2, <1>3, <1>4, <1>5, <1>6, <1>7, <1>8, <1>9, <1>10, <1>11, <1>12, <1>14, <1>15
     DEF Hooks!Next, Hooks!Step

\* A step moves the locals of one process, and none but who is in the section writes.
Kept(q) ==
  /\ hookPc'[q] = hookPc[q] /\ cfg'[q] = cfg[q] /\ staged'[q] = staged[q]
  /\ before'[q] = before[q] /\ hookAt'[q] = hookAt[q] /\ hookAnswer'[q] = hookAnswer[q]

LEMMA OthersAreKept ==
  ASSUME HookInv, NEW p \in Proc, Hooks!Step(p)
  PROVE  /\ \A q \in Proc : q # p => Kept(q)
         /\ hookPc[p] \notin Section => file' = file /\ added' = added
<1> USE DEF HookInv, Hooks!TypeOK, Kept, Section, Hooks!Goto, Hooks!Answer
<1>1. CASE Hooks!Call(p) \/ Hooks!Acquire(p) \/ Hooks!GiveUp(p)
  BY <1>1 DEF Hooks!Call, Hooks!Acquire, Hooks!GiveUp
<1>2. CASE Hooks!ReadForInstall(p) \/ Hooks!ReadForUninstall(p)
  BY <1>2 DEF Hooks!ReadForInstall, Hooks!ReadForUninstall, Hooks!ReadHook, Hooks!ReadFails,
  Hooks!Proceed
<1>3. CASE Hooks!Stage(p)
  BY <1>3 DEF Hooks!Stage
<1>4. CASE Hooks!Apply(p) \/ Hooks!ApplyRemoval(p)
  BY <1>4 DEF Hooks!Apply, Hooks!ApplyRemoval, Hooks!Proceed
<1>5. CASE Hooks!Restore(p) \/ Hooks!ReplaceByRollback(p) \/ Hooks!Tidy(p) \/ Hooks!Unlock(p) \/ Hooks!Crash(p)
  BY <1>5 DEF Hooks!Restore, Hooks!ReplaceByRollback, Hooks!Tidy, Hooks!Unlock, Hooks!Crash,
     Hooks!Over
<1>6. QED
  BY <1>1, <1>2, <1>3, <1>4, <1>5 DEF Hooks!Step

LEMMA SectionStep ==
  ASSUME HookConstants, HookInv, [Hooks!Next]_Hooks!vars
  PROVE  SectionInv'
<1> USE DEF HookInv, Hooks!TypeOK, SectionInv, Section, Hooks!Goto
<1>1. ASSUME NEW p \in Proc, Hooks!Step(p), ~Hooks!Acquire(p), ~Hooks!Unlock(p)
      PROVE  SectionInv'
  <2>1. lock' = lock /\ (hookPc'[p] \in Section => hookPc[p] \in Section)
    BY <1>1 DEF Hooks!Step, Hooks!Call, Hooks!GiveUp, Hooks!ReadForInstall,
    Hooks!ReadForUninstall, Hooks!ReadHook, Hooks!ReadFails, Hooks!Proceed, Hooks!Stage, Hooks!Apply,
       Hooks!ApplyRemoval, Hooks!Restore, Hooks!ReplaceByRollback, Hooks!Tidy, Hooks!Crash
  <2>2. \A q \in Proc : q # p => hookPc'[q] = hookPc[q]
    BY <1>1, OthersAreKept DEF Kept
  <2>3. QED
    BY <2>1, <2>2
<1>2. ASSUME NEW p \in Proc, Hooks!Acquire(p)
      PROVE  SectionInv'
  <2>1. \A q \in Proc : hookPc[q] \notin Section
    BY <1>2 DEF Hooks!Acquire, HookConstants
  <2>2. QED
    BY <1>2, <2>1 DEF Hooks!Acquire
<1>3. ASSUME NEW p \in Proc, Hooks!Unlock(p)
      PROVE  SectionInv'
  <2>1. \A q \in Proc : q # p => hookPc[q] \notin Section
    BY <1>3 DEF Hooks!Unlock
  <2>2. QED
    BY <1>3, <2>1 DEF Hooks!Unlock
<1>4. ASSUME NEW h \in Hooks!Hook, Hooks!Edit(h)
      PROVE  SectionInv'
  BY <1>4 DEF Hooks!Edit
<1>5. CASE UNCHANGED Hooks!vars
  BY <1>5 DEF Hooks!vars
<1>6. QED
  BY <1>1, <1>2, <1>3, <1>4, <1>5 DEF Hooks!Next

LEMMA DecodedInvStep ==
  ASSUME HookConstants, HookInv, [Hooks!Next]_Hooks!vars
  PROVE  DecodedInv'
<1> USE DEF HookInv, DecodedInv
<1>1. ASSUME before' = before
      PROVE  DecodedInv'
  BY <1>1 DEF Hooks!Decoded
<1>2. ASSUME NEW p \in Proc, Hooks!ReadHook(p, hookAt[p]), hookPc[p] = "read"
      PROVE  DecodedInv'
  <2>1. hookAt[p] \in Hooks!Hook
    BY <1>2 DEF CallInv, InstallInv, UninstallInv, Section, Hooks!Hook
  <2>2. /\ file[hookAt[p]] \in Seq(Hooks!Line) \cup {None}
        /\ before \in [Proc -> [Hooks!Hook -> Seq(Hooks!Line) \cup {None}]]
    BY <2>1 DEF Hooks!TypeOK
  <2> DEFINE read == Hooks!Decoded(file[hookAt[p]])
  <2>3. Hooks!Decoded(read) = read
    BY <2>2, ReadingIsSound
  <2>4. before' = [before EXCEPT ![p][hookAt[p]] = read]
    BY <1>2 DEF Hooks!ReadHook
  <2> HIDE DEF read
  <2>5. ASSUME NEW q \in Proc, NEW h \in Hooks!Hook
        PROVE  before'[q][h] = read \/ before'[q][h] = before[q][h]
    BY <2>1, <2>2, <2>4
  <2>6. ASSUME NEW q \in Proc, NEW h \in Hooks!Hook
        PROVE  Hooks!Decoded(before'[q][h]) = before'[q][h]
    BY <2>3, <2>5
  <2>7. QED
    BY <2>6 DEF Hooks!Decoded
<1>3. ASSUME NEW p \in Proc, Hooks!Over(p)
      PROVE  DecodedInv'
  <2>1. ASSUME NEW q \in Proc, NEW h \in Hooks!Hook
        PROVE  before'[q][h] = None \/ before'[q][h] = before[q][h]
    BY <1>3 DEF Hooks!Over, Hooks!Nothing, Hooks!TypeOK
  <2>2. QED
    BY <2>1 DEF Hooks!Decoded
<1>4. ASSUME NEW p \in Proc, Hooks!Step(p), ~Hooks!Over(p)
      PROVE  before' = before \/ (Hooks!ReadHook(p, hookAt[p]) /\ hookPc[p] = "read")
  <2>1. CASE Hooks!ReadForInstall(p) \/ Hooks!ReadForUninstall(p)
    BY <2>1 DEF Hooks!ReadForInstall, Hooks!ReadForUninstall, Hooks!ReadFails
  <2>2. CASE ~Hooks!ReadForInstall(p) /\ ~Hooks!ReadForUninstall(p)
    BY <1>4, <2>2 DEF Hooks!Step, Hooks!Call, Hooks!Acquire, Hooks!GiveUp, Hooks!Stage, Hooks!Apply,
       Hooks!ApplyRemoval, Hooks!Restore, Hooks!ReplaceByRollback, Hooks!Tidy, Hooks!Unlock,
       Hooks!Crash
  <2>3. QED
    BY <2>1, <2>2
<1>5. CASE (\E h \in Hooks!Hook : Hooks!Edit(h)) \/ UNCHANGED Hooks!vars
  BY <1>1, <1>5 DEF Hooks!Edit, Hooks!vars
<1>6. QED
  BY <1>1, <1>2, <1>3, <1>4, <1>5 DEF Hooks!Next

-----------------------------------------------------------------------------
(* What a call knows                                                       *)

one == "pre-commit"
two == "pre-push"

\* Between two steps of a call nobody else moves what it relies on.
LEMMA OtherCalls ==
  ASSUME HookInv, NEW p \in Proc, Hooks!Step(p), NEW q \in Proc, q # p
  PROVE  CallInv(q)'
<1>1. Kept(q)
  BY OthersAreKept
<1>2. CASE hookPc[q] \in Section
  <2>1. lock = q
    BY <1>2 DEF HookInv, SectionInv
  <2>2. hookPc[p] \notin Section
    BY <2>1 DEF HookInv, SectionInv
  <2>3. file' = file /\ added' = added
    BY <2>2, OthersAreKept
  <2>4. ASSUME NEW h \in Hooks!Hook
        PROVE  /\ Read(q, h) => Read(q, h)'
               /\ Copied(q, h) => Copied(q, h)'
               /\ Replaced(q, h) => Replaced(q, h)'
               /\ Installed(q, h) => Installed(q, h)'
               /\ Unchanged(q, h) => Unchanged(q, h)'
    <3>1. LinesRead(q, h) => LinesRead(q, h)'
      BY <1>1, <2>3 DEF Kept, LinesRead
    <3>2. Unchanged(q, h) => Unchanged(q, h)'
      BY <1>1, <2>3 DEF Kept, Unchanged
    <3>3. Installed(q, h) => Installed(q, h)'
      BY <1>1, <2>3 DEF Kept, Installed
    <3>4. QED
      BY <1>1, <3>1, <3>2, <3>3 DEF Kept, Read, Copied, Replaced
  <2>5. CallInv(q) /\ one \in Hooks!Hook /\ two \in Hooks!Hook
    BY DEF HookInv, Hooks!Hook, one, two
  <2>6. InstallInv(q) => InstallInv(q)'
    <3>1. hookPc[q] = "stage" /\ InstallInv(q) => hookAt[q] \in Hooks!Hook
      BY DEF InstallInv, Hooks!Hook
    <3>2. QED
      BY <1>1, <2>4, <2>5, <3>1 DEF InstallInv, Kept, one, two
  <2>7. UninstallInv(q) => UninstallInv(q)'
    <3>1. hookPc[q] \in {"stage", "apply"} /\ UninstallInv(q) => hookAt[q] \in Hooks!Hook
      BY DEF UninstallInv, Hooks!Hook
    <3>2. QED
      BY <1>1, <2>3, <2>4, <2>5, <3>1 DEF UninstallInv, Kept, one, two
  <2>8. Answered(q) => Answered(q)'
    BY <1>1, <2>3, <2>4 DEF Answered, Kept
  <2>9. QED
    BY <1>1, <2>5, <2>6, <2>7, <2>8 DEF CallInv, Kept, Section
<1>3. CASE hookPc[q] \notin Section
  <2>1. CallInv(q)
    BY DEF HookInv
  <2>2. QED
    BY <1>1, <1>3, <2>1 DEF CallInv, Kept, Section
<1>4. QED
  BY <1>2, <1>3

\* The user may edit a hook between any two steps of a call.
LEMMA EditKeepsHooks ==
  ASSUME HookConstants, HookInv, NEW h \in Hooks!Hook, Hooks!Edit(h), NEW q \in Proc,
         NEW k \in Hooks!Hook
  PROVE  /\ LinesRead(q, k) => LinesRead(q, k)'
         /\ Unchanged(q, k) => Unchanged(q, k)'
         /\ Read(q, k) => Read(q, k)'
         /\ Copied(q, k) => Copied(q, k)'
         /\ Installed(q, k) => Installed(q, k)'
         /\ Replaced(q, k) => Replaced(q, k)'
         /\ ~Hooks!IsManaged(Hooks!Body(file[k])) => ~Hooks!IsManaged(Hooks!Body(file'[k]))
<1>1. cfg' = cfg /\ staged' = staged /\ before' = before
  BY DEF Hooks!Edit
<1>2. /\ LinesRead(q, k) => LinesRead(q, k)'
      /\ Unchanged(q, k) => Unchanged(q, k)'
      /\ Installed(q, k) => Installed(q, k)'
      /\ ~Hooks!IsManaged(Hooks!Body(file[k])) => ~Hooks!IsManaged(Hooks!Body(file'[k]))
  <2>1. CASE k # h
    <3>1. file'[k] = file[k] /\ added'[k] = added[k]
      BY <2>1, EditIsSound
    <3>2. QED
      BY <1>1, <3>1 DEF LinesRead, Unchanged, Installed
  <2>2. CASE k = h
    <3>1. PICK l \in UserLine :
            /\ added' = [added EXCEPT ![h] = @ \cup {l}]
            /\ Hooks!UserLines(file'[h]) \subseteq Hooks!UserLines(file[h]) \cup {l}
            /\ Hooks!IsManaged(Hooks!Body(file'[h])) <=> Hooks!IsManaged(Hooks!Body(file[h]))
            /\ Hooks!IsManaged(Hooks!Body(file[h])) =>
                 file'[h][Hooks!Begin(file'[h]) + 1] = file[h][Hooks!Begin(file[h]) + 1]
      BY EditIsSound
    <3>2. added'[h] = added[h] \cup {l}
      BY <3>1 DEF HookInv, Hooks!TypeOK
    <3>3. LinesRead(q, k) => LinesRead(q, k)'
      BY <1>1, <2>2, <3>1, <3>2 DEF LinesRead
    <3>4. Unchanged(q, k)'
      BY <2>2, <3>2 DEF Unchanged
    <3>5. Installed(q, k) => Installed(q, k)'
      BY <1>1, <2>2, <3>1 DEF Installed
    <3>6. QED
      BY <2>2, <3>1, <3>3, <3>4, <3>5
  <2>3. QED
    BY <2>1, <2>2
<1>3. QED
  BY <1>1, <1>2 DEF Read, Copied, Replaced

LEMMA EditKeepsCalls ==
  ASSUME HookConstants, HookInv, NEW h \in Hooks!Hook, Hooks!Edit(h), NEW q \in Proc
  PROVE  CallInv(q)'
<1>1. /\ hookPc' = hookPc /\ before' = before /\ hookAnswer' = hookAnswer
      /\ cfg' = cfg /\ hookAt' = hookAt
  BY DEF Hooks!Edit
<1>2. CallInv(q)
  BY DEF HookInv
<1>3. one \in Hooks!Hook /\ two \in Hooks!Hook
  BY DEF Hooks!Hook, one, two
<1>4. InstallInv(q) => InstallInv(q)'
  <2>1. hookPc[q] = "stage" /\ InstallInv(q) => hookAt[q] \in Hooks!Hook
    BY DEF InstallInv, Hooks!Hook
  <2>2. QED
    BY <1>1, <1>3, <2>1, EditKeepsHooks DEF InstallInv, one, two
<1>5. UninstallInv(q) => UninstallInv(q)'
  <2>1. hookPc[q] \in {"stage", "apply"} /\ UninstallInv(q) => hookAt[q] \in Hooks!Hook
    BY DEF UninstallInv, Hooks!Hook
  <2>2. QED
    BY <1>1, <1>3, <2>1, EditKeepsHooks DEF UninstallInv, one, two
<1>6. Answered(q) => Answered(q)'
  BY <1>1, EditKeepsHooks DEF Answered
<1>7. QED
  BY <1>1, <1>2, <1>4, <1>5, <1>6 DEF CallInv

LEMMA CallBegins ==
  ASSUME HookConstants, HookInv, NEW p \in Proc, Hooks!Call(p) \/ Hooks!Acquire(p) \/ Hooks!GiveUp(p)
  PROVE  CallInv(p)'
<1> USE DEF HookInv, Hooks!TypeOK, Hooks!Goto, Hooks!Answer
<1>1. CASE Hooks!Call(p)
  BY <1>1 DEF Hooks!Call, CallInv, Section
<1>2. CASE Hooks!Acquire(p)
  BY <1>2 DEF Hooks!Acquire, CallInv, Section, InstallInv, UninstallInv, Hooks!Nothing,
  Hooks!Hook
<1>3. CASE Hooks!GiveUp(p)
  BY <1>3 DEF Hooks!GiveUp, CallInv, Section
<1>4. QED
  BY <1>1, <1>2, <1>3

\* What a call knows of a hook that it has just read; what it knew of the other stands.
LEMMA ReadIsSound ==
  ASSUME HookConstants, HookInv, NEW p \in Proc, NEW h \in Hooks!Hook, Hooks!ReadHook(p, h),
         file' = file, cfg' = cfg, staged' = staged
  PROVE  /\ LinesRead(p, h)' /\ Unchanged(p, h)'
         /\ before'[p][h] = Hooks!Decoded(file[h])
<1>1. /\ file[h] \in Seq(Hooks!Line) \cup {None} /\ DOMAIN added = Hooks!Hook
      /\ before \in [Proc -> [Hooks!Hook -> Seq(Hooks!Line) \cup {None}]]
  BY DEF HookInv, Hooks!TypeOK
<1>2. before'[p][h] = Hooks!Decoded(file[h]) /\ added'[h] = {}
  BY <1>1 DEF Hooks!ReadHook
<1>3. LinesRead(p, h)'
  BY <1>1, <1>2, ReadingIsSound DEF LinesRead
<1>4. Unchanged(p, h)'
  BY <1>2 DEF Unchanged
<1>5. QED
  BY <1>2, <1>3, <1>4

LEMMA OtherIsKept ==
  ASSUME HookConstants, HookInv, NEW p \in Proc, NEW h \in Hooks!Hook, Hooks!ReadHook(p, h),
         file' = file, cfg' = cfg, staged' = staged, NEW k \in Hooks!Hook, k # h
  PROVE  /\ before'[p][k] = before[p][k]
         /\ Read(p, k) => Read(p, k)'
         /\ Copied(p, k) => Copied(p, k)'
<1>1. before'[p][k] = before[p][k] /\ added'[k] = added[k]
  BY DEF Hooks!ReadHook, HookInv, Hooks!TypeOK
<1>2. LinesRead(p, k) => LinesRead(p, k)'
  BY <1>1 DEF LinesRead
<1>3. Unchanged(p, k) => Unchanged(p, k)'
  BY <1>1 DEF Unchanged
<1>4. QED
  BY <1>1, <1>2, <1>3 DEF Read, Copied

LEMMA CallReadsForInstall ==
  ASSUME HookConstants, HookInv, NEW p \in Proc, Hooks!ReadForInstall(p)
  PROVE  CallInv(p)'
<1>a. PICK h : h = hookAt[p]
  OBVIOUS
<1>1. /\ hookPc[p] = "read" /\ cfg[p] # None /\ InstallInv(p) /\ hookAnswer[p] = None
  BY DEF HookInv, CallInv, Hooks!ReadForInstall, Section
<1>2. h \in Hooks!Hook /\ one \in Hooks!Hook /\ two \in Hooks!Hook /\ one # two
  BY <1>a, <1>1 DEF InstallInv, Hooks!Hook, one, two
<1>3. file' = file /\ cfg' = cfg /\ staged' = staged /\ hookAt' = hookAt
  BY DEF Hooks!ReadForInstall
<1>4. \/ /\ Hooks!ReadHook(p, h) /\ Hooks!Updatable(Hooks!Decoded(file[h]))
         /\ hookPc'[p] = "stage" /\ hookAnswer'[p] = None
      \/ Hooks!ReadHook(p, h) /\ hookPc'[p] = "tidy" /\ hookAnswer'[p] = "refused"
      \/ hookPc'[p] = "tidy" /\ hookAnswer'[p] = "failed"
  BY <1>a, <1>1 DEF Hooks!ReadForInstall, Hooks!ReadFails, HookInv, Hooks!TypeOK, Hooks!Goto,
     Hooks!Answer
<1>5. CASE Hooks!ReadHook(p, h) /\ (hookPc'[p] = "stage" \/ hookAnswer'[p] = "refused")
  <2>1. /\ LinesRead(p, h)' /\ Unchanged(p, h)'
        /\ before'[p][h] = Hooks!Decoded(file[h])
    BY <1>2, <1>3, <1>5, ReadIsSound
  <2>2. h = two => Read(p, one)' /\ Copied(p, one)'
    <3>1. h = two => Read(p, one) /\ Copied(p, one)
      BY <1>a, <1>1, <1>2 DEF InstallInv, one, two
    <3>2. QED
      BY <1>2, <1>3, <1>5, <3>1, OtherIsKept
  <2>3. h = one => before'[p][two] = None
    <3>1. h = one => before[p][two] = None
      BY <1>a, <1>1, <1>2 DEF InstallInv, one, two
    <3>2. QED
      BY <1>2, <1>3, <1>5, <3>1, OtherIsKept
  <2>4. CASE hookPc'[p] = "stage"
    <3>1. Read(p, h)'
      BY <1>1, <1>3, <1>4, <2>1, <2>4 DEF Read
    <3>2. InstallInv(p)'
      BY <1>a, <1>2, <1>3, <2>2, <2>3, <2>4, <3>1 DEF InstallInv, Hooks!Hook, one, two
    <3>3. QED
      BY <1>1, <1>3, <1>4, <2>4, <3>2 DEF CallInv
  <2>5. CASE hookPc'[p] = "tidy" /\ hookAnswer'[p] = "refused"
    <3>1. InstallInv(p)'
      BY <2>5 DEF InstallInv
    <3>2. \A k \in Hooks!Hook : before'[p][k] # None => Unchanged(p, k)'
      BY <1>2, <2>1, <2>2, <2>3 DEF Hooks!Hook, one, two, Read
    <3>3. Answered(p)'
      BY <2>5, <3>2 DEF Answered
    <3>4. QED
      BY <1>1, <1>3, <2>5, <3>1, <3>3 DEF CallInv
  <2>6. QED
    BY <1>4, <1>5, <2>4, <2>5
<1>6. CASE hookPc'[p] = "tidy" /\ hookAnswer'[p] = "failed"
  <2>1. InstallInv(p)' /\ Answered(p)'
    BY <1>6 DEF InstallInv, Answered
  <2>2. QED
    BY <1>1, <1>3, <1>6, <2>1 DEF CallInv
<1>7. QED
  BY <1>4, <1>5, <1>6

LEMMA CallReadsForUninstall ==
  ASSUME HookConstants, HookInv, NEW p \in Proc, Hooks!ReadForUninstall(p)
  PROVE  CallInv(p)'
<1>a. PICK h : h = hookAt[p]
  OBVIOUS
<1>1. /\ hookPc[p] = "read" /\ cfg[p] = None /\ UninstallInv(p) /\ hookAnswer[p] = None
  BY DEF HookInv, CallInv, Hooks!ReadForUninstall, Section
<1>2. h \in Hooks!Hook /\ one \in Hooks!Hook /\ two \in Hooks!Hook /\ one # two
  BY <1>a, <1>1 DEF UninstallInv, Hooks!Hook, one, two
<1>3. /\ file' = file /\ cfg' = cfg /\ staged' = staged
      /\ file[h] \in Seq(Hooks!Line) \cup {None}
  BY <1>2 DEF Hooks!ReadForUninstall, HookInv, Hooks!TypeOK
<1>4. CASE /\ Hooks!ReadHook(p, h) /\ Hooks!IsManaged(Hooks!Body(Hooks!Decoded(file[h])))
           /\ hookPc'[p] = "stage" /\ hookAt' = hookAt /\ hookAnswer' = hookAnswer
  <2>1. Read(p, h)'
    <3>1. LinesRead(p, h)' /\ Unchanged(p, h)' /\ before'[p][h] = Hooks!Decoded(file[h])
      BY <1>2, <1>3, <1>4, ReadIsSound
    <3>2. QED
      BY <1>1, <1>3, <1>4, <3>1 DEF Read
  <2>2. UninstallInv(p)'
    BY <1>a, <1>1, <1>3, <1>4, <2>1 DEF UninstallInv
  <2>3. QED
    BY <1>1, <1>3, <1>4, <2>2 DEF CallInv
<1>5. CASE /\ ~Hooks!IsManaged(Hooks!Body(Hooks!Decoded(file[h])))
           /\ h = one /\ hookPc'[p] = "read" /\ hookAt'[p] = two /\ hookAnswer'[p] = None
  <2>1. ~Hooks!IsManaged(Hooks!Body(file'[one]))
    BY <1>3, <1>5, ReadingIsSound
  <2>2. UninstallInv(p)'
    BY <1>5, <2>1 DEF UninstallInv, one, two
  <2>3. QED
    BY <1>1, <1>3, <1>5, <2>2 DEF CallInv
<1>6. CASE /\ ~Hooks!IsManaged(Hooks!Body(Hooks!Decoded(file[h])))
           /\ h = two /\ hookPc'[p] = "unlock" /\ hookAnswer'[p] = "removed"
  <2>1. ~Hooks!IsManaged(Hooks!Body(file'[two]))
    BY <1>3, <1>6, ReadingIsSound
  <2>2. ~Hooks!IsManaged(Hooks!Body(file'[one]))
    BY <1>a, <1>1, <1>2, <1>3, <1>6 DEF UninstallInv, one, two
  <2>3. UninstallInv(p)'
    BY <1>6 DEF UninstallInv
  <2>4. Answered(p)'
    BY <1>6, <2>1, <2>2 DEF Answered, Hooks!Hook, one, two
  <2>5. QED
    BY <1>1, <1>3, <1>6, <2>3, <2>4 DEF CallInv
<1>7. CASE hookPc'[p] = "unlock" /\ hookAnswer'[p] = "failed"
  <2>1. UninstallInv(p)' /\ Answered(p)'
    BY <1>7 DEF UninstallInv, Answered
  <2>2. QED
    BY <1>1, <1>3, <1>7, <2>1 DEF CallInv
<1>8. QED
  <2>1. /\ h = one => Hooks!NextHook(h) = two
        /\ h = two => Hooks!NextHook(h) = None
        /\ two # None
    BY DEF Hooks!NextHook, one, two, HookConstants, Hooks!Hook
  <2>2. \/ /\ Hooks!ReadHook(p, h) /\ Hooks!IsManaged(Hooks!Body(Hooks!Decoded(file[h])))
           /\ hookPc'[p] = "stage" /\ hookAt' = hookAt /\ hookAnswer' = hookAnswer
        \/ /\ ~Hooks!IsManaged(Hooks!Body(Hooks!Decoded(file[h]))) /\ hookAt'[p] = Hooks!NextHook(h)
           /\ hookPc'[p] = IF Hooks!NextHook(h) = None THEN "unlock" ELSE "read"
           /\ hookAnswer'[p] = IF Hooks!NextHook(h) = None THEN "removed" ELSE None
        \/ hookPc'[p] = "unlock" /\ hookAnswer'[p] = "failed"
    BY <1>a DEF Hooks!ReadForUninstall, Hooks!ReadFails, Hooks!Proceed, Hooks!Goto, Hooks!Answer,
       HookInv, Hooks!TypeOK
  <2>3. h = one \/ h = two
    BY <1>2 DEF Hooks!Hook, one, two
  <2>4. QED
    BY <1>4, <1>5, <1>6, <1>7, <2>1, <2>2, <2>3

LEMMA CallStages ==
  ASSUME HookConstants, HookInv, NEW p \in Proc, Hooks!Stage(p)
  PROVE  CallInv(p)'
<1>a. PICK h : h = hookAt[p]
  OBVIOUS
<1> DEFINE written == IF cfg[p] = None THEN Hooks!Removed(before[p][h]) ELSE Hooks!Updated(before[p][h], cfg[p])
<1>1. /\ hookPc[p] = "stage" /\ hookAnswer[p] = None
      /\ cfg[p] # None => InstallInv(p)
      /\ cfg[p] = None => UninstallInv(p)
  BY DEF HookInv, CallInv, Hooks!Stage, Section
<1>2. h \in Hooks!Hook /\ one \in Hooks!Hook /\ two \in Hooks!Hook /\ one # two /\ two # None
  BY <1>a, <1>1 DEF InstallInv, UninstallInv, Hooks!Hook, one, two, HookConstants
<1>3. /\ file' = file /\ cfg' = cfg /\ before' = before /\ added' = added
      /\ staged'[p][h] = written
      /\ \A k \in Hooks!Hook : k # h => staged'[p][k] = staged[p][k]
  BY <1>a, <1>2 DEF Hooks!Stage, HookInv, Hooks!TypeOK
<1>4. Read(p, h)' /\ Copied(p, h)'
  <2>1. Read(p, h)
    BY <1>a, <1>1 DEF InstallInv, UninstallInv
  <2>2. Read(p, h)'
    BY <2>1, <1>3 DEF Read, LinesRead, Unchanged
  <2>3. Copied(p, h)'
    BY <1>3 DEF Copied
  <2>4. QED
    BY <2>2, <2>3
<1>5. CASE cfg[p] # None
  <2>1. h = two => Read(p, one)' /\ Copied(p, one)'
    BY <1>a, <1>1, <1>2, <1>3, <1>5
       DEF InstallInv, Read, LinesRead, Unchanged, Copied, one, two
  <2>2. h = one => before'[p][two] = None
    BY <1>a, <1>1, <1>2, <1>3, <1>5 DEF InstallInv, one, two
  <2>3. h = one \/ h = two
    BY <1>2 DEF Hooks!Hook, one, two
  <2>4. \/ h = one /\ hookAt'[p] = two /\ hookPc'[p] = "read" /\ hookAnswer'[p] = None
        \/ h = two /\ hookAt'[p] = one /\ hookPc'[p] = "apply" /\ hookAnswer'[p] = None
        \/ hookPc'[p] = "tidy" /\ hookAnswer'[p] = "failed"
    BY <1>a, <1>1, <1>2, <1>5, <2>3
       DEF Hooks!Stage, Hooks!Goto, Hooks!Answer, HookInv, Hooks!TypeOK, Hooks!NextHook, one,
       two
  <2>5. InstallInv(p)'
    BY <1>2, <1>4, <2>1, <2>4 DEF InstallInv, one, two
  <2>6. hookAnswer'[p] = "failed" => Answered(p)'
    BY DEF Answered
  <2>7. QED
    BY <1>3, <1>5, <2>4, <2>5, <2>6 DEF CallInv
<1>6. CASE cfg[p] = None
  <2>1. \/ hookPc'[p] = "apply" /\ hookAt'[p] = h /\ hookAnswer'[p] = None
        \/ hookPc'[p] = "unlock" /\ hookAnswer'[p] = "failed"
    BY <1>a, <1>1, <1>6 DEF Hooks!Stage, Hooks!Goto, Hooks!Answer, HookInv, Hooks!TypeOK
  <2>2. UninstallInv(p)'
    BY <1>a, <1>1, <1>3, <1>4, <1>6, <2>1 DEF UninstallInv
  <2>3. hookAnswer'[p] = "failed" => Answered(p)'
    BY DEF Answered
  <2>4. QED
    BY <1>3, <1>6, <2>1, <2>2, <2>3 DEF CallInv
<1>7. QED
  BY <1>5, <1>6

LEMMA CallApplies ==
  ASSUME HookConstants, HookInv, NEW p \in Proc, Hooks!Apply(p)
  PROVE  CallInv(p)'
<1>a. PICK h : h = hookAt[p]
  OBVIOUS
<1>1. hookPc[p] = "apply" /\ hookAnswer[p] = None /\ cfg[p] # None /\ InstallInv(p)
  BY DEF HookInv, CallInv, Hooks!Apply, Section
<1>2. /\ h \in Hooks!Hook /\ one \in Hooks!Hook /\ two \in Hooks!Hook /\ one # two /\ two # None
      /\ h = one \/ h = two
  BY <1>a, <1>1 DEF InstallInv, Hooks!Hook, one, two, HookConstants
<1>3. cfg' = cfg /\ before' = before /\ added' = added
  BY DEF Hooks!Apply
<1>4. /\ Read(p, two) /\ Copied(p, two)
      /\ h = one => Read(p, one) /\ Copied(p, one)
      /\ h = two => Replaced(p, one)
  BY <1>a, <1>1, <1>2 DEF InstallInv, one, two
<1>5. CASE /\ file'[h] = staged[p][h]
           /\ \A k \in Hooks!Hook : k # h => file'[k] = file[k] /\ staged'[p][k] = staged[p][k]
           /\ hookAt'[p] = Hooks!NextHook(h)
           /\ hookPc'[p] = IF Hooks!NextHook(h) = None THEN "tidy" ELSE "apply"
           /\ hookAnswer'[p] = IF Hooks!NextHook(h) = None THEN "installed" ELSE None
  <2>1. Replaced(p, h)'
    <3>1. /\ LinesRead(p, h) /\ Hooks!Updatable(before[p][h])
          /\ staged[p][h] = Hooks!Updated(before[p][h], cfg[p])
      BY <1>1, <1>2, <1>4 DEF Read, Copied
    <3>2. /\ cfg[p] \in Config /\ before[p][h] \in Seq(Hooks!Line) \cup {None}
          /\ file[h] \in Seq(Hooks!Line) \cup {None} /\ Hooks!Decoded(before[p][h]) = before[p][h]
      BY <1>1, <1>2 DEF HookInv, Hooks!TypeOK, DecodedInv
    <3>3. /\ file'[h] \in Seq(Hooks!Line) /\ Hooks!IsManaged(file'[h])
          /\ file'[h][Hooks!Begin(file'[h]) + 1] = cfg[p]
          /\ Hooks!UserLines(file'[h]) = Hooks!UserLines(before[p][h])
      BY <1>5, <3>1, <3>2, UpdateIsSound
    <3>4. Hooks!Body(file'[h]) = file'[h]
      BY <3>3 DEF Hooks!Body, HookConstants
    <3>5. Installed(p, h)'
      BY <1>3, <3>3, <3>4 DEF Installed
    <3>6. \A l \in Hooks!UserLines(before[p][h]) : Decode[l] = l
      BY <3>2, DecodedLines
    <3>7. LinesRead(p, h)'
      BY <1>3, <3>3, <3>6 DEF LinesRead
    <3>8. QED
      BY <1>3, <3>1, <3>5, <3>7 DEF Replaced
  <2>2. CASE h = one
    <3>1. hookAt'[p] = two /\ hookPc'[p] = "apply" /\ hookAnswer'[p] = None
      BY <1>2, <1>5, <2>2 DEF Hooks!NextHook, one, two
    <3>2. Read(p, two)' /\ Copied(p, two)'
      BY <1>1, <1>2, <1>3, <1>4, <1>5, <2>2 DEF Read, LinesRead, Unchanged, Copied
    <3>3. InstallInv(p)'
      BY <2>1, <2>2, <3>1, <3>2 DEF InstallInv, one, two
    <3>4. QED
      BY <1>1, <1>3, <3>1, <3>3 DEF CallInv
  <2>3. CASE h = two
    <3>1. hookPc'[p] = "tidy" /\ hookAnswer'[p] = "installed"
      BY <1>2, <1>5, <2>3 DEF Hooks!NextHook, one, two
    <3>2. Installed(p, one)'
      BY <1>2, <1>3, <1>4, <1>5, <2>3 DEF Replaced, Installed
    <3>3. Installed(p, two)'
      BY <2>1, <2>3 DEF Replaced
    <3>4. Answered(p)'
      BY <3>1, <3>2, <3>3 DEF Answered, Hooks!Hook, one, two
    <3>5. InstallInv(p)'
      BY <3>1 DEF InstallInv
    <3>6. QED
      BY <1>1, <1>3, <3>1, <3>4, <3>5 DEF CallInv
  <2>4. QED
    BY <1>2, <2>2, <2>3
<1>6. CASE /\ file' = file /\ staged' = staged /\ hookAt' = hookAt /\ hookAnswer'[p] = "restored"
           /\ hookPc'[p] = IF h = one THEN "tidy" ELSE "rollback"
  <2>1. Unchanged(p, two)'
    BY <1>3, <1>4, <1>6 DEF Read, Unchanged
  <2>2. CASE h = one
    <3>1. Unchanged(p, one)'
      BY <1>3, <1>4, <1>6, <2>2 DEF Read, Unchanged
    <3>2. Answered(p)'
      BY <1>6, <2>1, <3>1 DEF Answered, Hooks!Hook, one, two
    <3>3. InstallInv(p)'
      BY <1>6, <2>2 DEF InstallInv
    <3>4. QED
      BY <1>1, <1>3, <1>6, <2>2, <3>2, <3>3 DEF CallInv
  <2>3. CASE h = two
    <3>1. hookPc'[p] = "rollback"
      BY <1>2, <1>6, <2>3
    <3>2. Replaced(p, one)'
      BY <1>3, <1>4, <1>6, <2>3 DEF Replaced, Installed, LinesRead
    <3>3. InstallInv(p)'
      BY <1>6, <2>1, <3>1, <3>2 DEF InstallInv, one, two
    <3>4. QED
      BY <1>1, <1>3, <3>1, <3>3 DEF CallInv
  <2>4. QED
    BY <1>2, <2>2, <2>3
<1>7. QED
  <2>1. \/ /\ file' = [file EXCEPT ![h] = staged[p][h]]
           /\ staged' = [staged EXCEPT ![p][h] = None]
           /\ hookAt' = [hookAt EXCEPT ![p] = Hooks!NextHook(h)]
           /\ hookPc' = [hookPc EXCEPT ![p] = IF Hooks!NextHook(h) = None THEN "tidy" ELSE "apply"]
           /\ hookAnswer' = [hookAnswer EXCEPT ![p] = IF Hooks!NextHook(h) = None THEN "installed" ELSE None]
        \/ /\ file' = file /\ staged' = staged /\ hookAt' = hookAt
           /\ hookAnswer' = [hookAnswer EXCEPT ![p] = "restored"]
           /\ hookPc' = [hookPc EXCEPT ![p] = IF h = one THEN "tidy" ELSE "rollback"]
    BY <1>a DEF Hooks!Apply, Hooks!Proceed, Hooks!Goto, Hooks!Answer, one
  <2>2. /\ file \in [Hooks!Hook -> Seq(Hooks!Line) \cup {None}] /\ DOMAIN hookPc = Proc
        /\ DOMAIN hookAt = Proc
        /\ DOMAIN hookAnswer = Proc /\ staged \in [Proc -> [Hooks!Hook -> Seq(Hooks!Line) \cup {None}]]
    BY DEF HookInv, Hooks!TypeOK
  <2>3. QED
    BY <1>2, <1>5, <1>6, <2>1, <2>2

LEMMA CallAppliesRemoval ==
  ASSUME HookConstants, HookInv, NEW p \in Proc, Hooks!ApplyRemoval(p)
  PROVE  CallInv(p)'
<1> DEFINE h == hookAt[p]
<1>1. hookPc[p] = "apply" /\ hookAnswer[p] = None /\ cfg[p] = None /\ UninstallInv(p)
  BY DEF HookInv, CallInv, Hooks!ApplyRemoval, Section
<1>2. h \in Hooks!Hook /\ one \in Hooks!Hook /\ two \in Hooks!Hook /\ one # two /\ two # None
  BY <1>1 DEF UninstallInv, Hooks!Hook, one, two, HookConstants
<1>3. cfg' = cfg
  BY DEF Hooks!ApplyRemoval
<1>4. h = one \/ h = two
  BY <1>2 DEF Hooks!Hook, one, two
<1>5. CASE /\ file'[h] = staged[p][h] /\ \A k \in Hooks!Hook : k # h => file'[k] = file[k]
           /\ hookAt'[p] = Hooks!NextHook(h)
           /\ hookPc'[p] = IF Hooks!NextHook(h) = None THEN "unlock" ELSE "read"
           /\ hookAnswer'[p] = IF Hooks!NextHook(h) = None THEN "removed" ELSE None
  <2>1. ~Hooks!IsManaged(Hooks!Body(file'[h]))
    <3>1. before[p][h] \in Seq(Hooks!Line) \cup {None}
      BY <1>2 DEF HookInv, Hooks!TypeOK
    <3>2. Read(p, h) /\ Copied(p, h)
      BY <1>1 DEF UninstallInv
    <3>3. /\ Hooks!IsManaged(Hooks!Body(before[p][h]))
          /\ file'[h] = Hooks!Removed(before[p][h])
      BY <1>1, <1>5, <3>2 DEF Read, Copied
    <3>4. before[p][h] \in Seq(Hooks!Line) /\ Hooks!IsManaged(before[p][h])
      BY <3>1, <3>3, BodyTypes
    <3>5. file'[h] \in Seq(Hooks!Line) /\ ~Hooks!IsManaged(file'[h])
      BY <3>3, <3>4, RemovalIsSound
    <3>6. QED
      BY <3>5, BodyTypes
  <2>2. CASE h = one
    <3>1. hookAt'[p] = two /\ hookPc'[p] = "read" /\ hookAnswer'[p] = None
      BY <1>2, <1>5, <2>2 DEF Hooks!NextHook, one, two
    <3>2. UninstallInv(p)'
      BY <2>1, <2>2, <3>1 DEF UninstallInv, one, two
    <3>3. QED
      BY <1>1, <1>3, <3>1, <3>2 DEF CallInv
  <2>3. CASE h = two
    <3>1. hookPc'[p] = "unlock" /\ hookAnswer'[p] = "removed"
      BY <1>2, <1>5, <2>3 DEF Hooks!NextHook, one, two
    <3>2. ~Hooks!IsManaged(Hooks!Body(file'[one]))
      BY <1>1, <1>2, <1>5, <2>3 DEF UninstallInv, one, two
    <3>3. Answered(p)'
      BY <2>1, <2>3, <3>1, <3>2 DEF Answered, Hooks!Hook, one, two
    <3>4. UninstallInv(p)'
      BY <3>1 DEF UninstallInv
    <3>5. QED
      BY <1>1, <1>3, <3>1, <3>3, <3>4 DEF CallInv
  <2>4. QED
    BY <1>4, <2>2, <2>3
<1>6. CASE hookPc'[p] = "unlock" /\ hookAnswer'[p] = "failed"
  <2>1. UninstallInv(p)' /\ Answered(p)'
    BY <1>6 DEF UninstallInv, Answered
  <2>2. QED
    BY <1>1, <1>3, <1>6, <2>1 DEF CallInv
<1>7. QED
  <2>1. \/ /\ file' = [file EXCEPT ![h] = staged[p][h]]
           /\ hookAt' = [hookAt EXCEPT ![p] = Hooks!NextHook(h)]
           /\ hookPc' = [hookPc EXCEPT ![p] = IF Hooks!NextHook(h) = None THEN "unlock" ELSE "read"]
           /\ hookAnswer' = [hookAnswer EXCEPT ![p] = IF Hooks!NextHook(h) = None THEN "removed" ELSE None]
        \/ /\ hookAnswer' = [hookAnswer EXCEPT ![p] = "failed"]
           /\ hookPc' = [hookPc EXCEPT ![p] = "unlock"]
    BY DEF Hooks!ApplyRemoval, Hooks!Proceed, Hooks!Goto, Hooks!Answer
  <2>2. /\ DOMAIN file = Hooks!Hook /\ DOMAIN hookPc = Proc /\ DOMAIN hookAt = Proc
        /\ DOMAIN hookAnswer = Proc
    BY DEF HookInv, Hooks!TypeOK
  <2>3. QED
    BY <1>2, <1>5, <1>6, <2>1, <2>2

LEMMA CallRestores ==
  ASSUME HookConstants, HookInv, NEW p \in Proc, Hooks!Restore(p) \/ Hooks!ReplaceByRollback(p)
  PROVE  CallInv(p)'
<1>1. hookPc[p] \in {"rollback", "replace"} /\ cfg[p] # None /\ InstallInv(p)
  BY DEF HookInv, CallInv, UninstallInv, Hooks!Restore, Hooks!ReplaceByRollback, Section
<1>2. one \in Hooks!Hook /\ two \in Hooks!Hook /\ one # two
  BY DEF Hooks!Hook, one, two
<1>3. cfg' = cfg /\ before' = before /\ added' = added
  BY DEF Hooks!Restore, Hooks!ReplaceByRollback
<1>4. hookAnswer[p] = "restored" /\ Unchanged(p, two)
  BY <1>1 DEF InstallInv, two
<1>5. CASE /\ file'[one] = before[p][one] /\ file'[two] = file[two]
           /\ hookPc'[p] = "tidy" /\ hookAnswer' = hookAnswer
  <2>1. Unchanged(p, one)'
    <3>1. Hooks!Decoded(before[p][one]) = before[p][one]
      BY <1>2 DEF HookInv, DecodedInv
    <3>2. QED
      BY <1>3, <1>5, <3>1 DEF Unchanged
  <2>2. Unchanged(p, two)'
    BY <1>3, <1>4, <1>5 DEF Unchanged
  <2>3. Answered(p)'
    BY <1>4, <1>5, <2>1, <2>2 DEF Answered, Hooks!Hook, one, two
  <2>4. InstallInv(p)'
    BY <1>5 DEF InstallInv
  <2>5. QED
    BY <1>1, <1>3, <1>5, <2>3, <2>4 DEF CallInv
<1>6. CASE /\ hookPc'[p] = "replace" /\ file' = file /\ hookAnswer' = hookAnswer
           /\ before[p][one] # None
  <2>1. Replaced(p, one)' /\ Unchanged(p, two)'
    BY <1>1, <1>3, <1>4, <1>6 DEF InstallInv, Replaced, Installed, LinesRead, Unchanged, one
  <2>2. InstallInv(p)'
    BY <1>3, <1>4, <1>6, <2>1 DEF InstallInv, one, two
  <2>3. QED
    BY <1>1, <1>3, <1>6, <2>2 DEF CallInv
<1>7. CASE hookPc'[p] = "tidy" /\ hookAnswer'[p] = "failed"
  <2>1. InstallInv(p)' /\ Answered(p)'
    BY <1>7 DEF InstallInv, Answered
  <2>2. QED
    BY <1>1, <1>3, <1>7, <2>1 DEF CallInv
<1>8. QED
  <2>1. \/ /\ file' = [file EXCEPT ![one] = before[p][one]]
           /\ hookPc' = [hookPc EXCEPT ![p] = "tidy"] /\ hookAnswer' = hookAnswer
        \/ /\ hookPc' = [hookPc EXCEPT ![p] = "replace"] /\ file' = file /\ hookAnswer' = hookAnswer
           /\ before[p][one] # None
        \/ /\ hookAnswer' = [hookAnswer EXCEPT ![p] = "failed"]
           /\ hookPc' = [hookPc EXCEPT ![p] = "tidy"]
    BY DEF Hooks!Restore, Hooks!ReplaceByRollback, Hooks!Goto, Hooks!Answer, one
  <2>2. /\ DOMAIN file = Hooks!Hook /\ DOMAIN hookPc = Proc /\ DOMAIN hookAnswer = Proc
    BY DEF HookInv, Hooks!TypeOK
  <2>3. QED
    BY <1>2, <1>5, <1>6, <1>7, <2>1, <2>2

LEMMA CallEnds ==
  ASSUME HookConstants, HookInv, NEW p \in Proc, Hooks!Tidy(p) \/ Hooks!Unlock(p) \/ Hooks!Crash(p)
  PROVE  CallInv(p)'
<1>1. CallInv(p) /\ DOMAIN hookPc = Proc
  BY DEF HookInv, Hooks!TypeOK
<1>2. CASE Hooks!Tidy(p)
  <2>1. /\ hookPc[p] = "tidy" /\ hookPc'[p] = "unlock"
        /\ file' = file /\ cfg' = cfg /\ before' = before /\ added' = added
        /\ hookAnswer' = hookAnswer \/ hookAnswer'[p] = "failed"
    BY <1>1, <1>2 DEF Hooks!Tidy, Hooks!Goto, Hooks!Answer, HookInv, Hooks!TypeOK
  <2>2. cfg[p] # None /\ Answered(p)
    BY <1>1, <2>1 DEF CallInv, UninstallInv, Section
  <2>3. Answered(p)'
    BY <2>1, <2>2 DEF Answered, Installed, Unchanged
  <2>4. InstallInv(p)'
    BY <2>1 DEF InstallInv
  <2>5. QED
    BY <2>1, <2>2, <2>3, <2>4 DEF CallInv
<1>3. CASE Hooks!Unlock(p) \/ Hooks!Crash(p)
  <2>1. hookPc'[p] \in {"ended", "crashed"}
    BY <1>1, <1>3 DEF Hooks!Unlock, Hooks!Crash, Hooks!Goto
  <2>2. QED
    BY <2>1 DEF CallInv, Section
<1>4. QED
  BY <1>2, <1>3

LEMMA HookInvStep ==
  ASSUME HookConstants, HookInv, [Hooks!Next]_Hooks!vars
  PROVE  HookInv'
<1>1. Hooks!TypeOK' /\ SectionInv' /\ DecodedInv'
  BY HookTypeStep, SectionStep, DecodedInvStep
<1>2. ASSUME NEW q \in Proc
      PROVE  CallInv(q)'
  <2>1. ASSUME NEW p \in Proc, Hooks!Step(p), p # q
        PROVE  CallInv(q)'
    BY <2>1, OtherCalls
  <2>2. CASE Hooks!Step(q)
    BY <2>2, CallBegins, CallReadsForInstall, CallReadsForUninstall, CallStages, CallApplies,
       CallAppliesRemoval, CallRestores, CallEnds DEF Hooks!Step
  <2>3. ASSUME NEW h \in Hooks!Hook, Hooks!Edit(h)
        PROVE  CallInv(q)'
    BY <2>3, EditKeepsCalls
  <2>4. CASE UNCHANGED Hooks!vars
    <3>1. CallInv(q)
      BY DEF HookInv
    <3>2. QED
      BY <2>4, <3>1 DEF Hooks!vars, CallInv, InstallInv, UninstallInv, Answered, Read, Copied,
         Replaced, Installed, LinesRead, Unchanged
  <2>5. QED
    BY <2>1, <2>2, <2>3, <2>4 DEF Hooks!Next
<1>3. QED
  BY <1>1, <1>2 DEF HookInv

LEMMA HookInvInit ==
  ASSUME HookConstants, Hooks!Init
  PROVE  HookInv
<1>1. PICK l \in UserLine, c \in Config : file \in [Hooks!Hook -> Hooks!FoundBody(l, c) \cup {None}]
  BY DEF Hooks!Init
<1>2. Hooks!FoundBody(l, c) \subseteq Seq(Hooks!Line)
  <2>1. {l, c, "#!", "begin", "end"} \subseteq Hooks!Line
    BY DEF Hooks!Line
  <2>2. /\ <<>> \in Seq(Hooks!Line) /\ <<"#!", l>> \in Seq(Hooks!Line)
        /\ <<"#!", "begin", c, "end">> \in Seq(Hooks!Line)
        /\ <<"#!", l, "begin", c, "end">> \in Seq(Hooks!Line)
        /\ <<"begin", c, "end", l, "end">> \in Seq(Hooks!Line)
    BY <2>1
  <2>3. QED
    BY <2>2 DEF Hooks!FoundBody
<1>3. Hooks!TypeOK
  <2>1. file \in [Hooks!Hook -> Seq(Hooks!Line) \cup {None}]
    BY <1>1, <1>2
  <2>2. QED
    BY <2>1 DEF Hooks!Init, Hooks!TypeOK, Hooks!Nothing, HookConstants
<1>4. SectionInv /\ \A p \in Proc : CallInv(p)
  BY DEF Hooks!Init, SectionInv, CallInv, Section
<1>5. DecodedInv
  BY DEF Hooks!Init, DecodedInv, Hooks!Nothing, Hooks!Decoded
<1>6. QED
  BY <1>3, <1>4, <1>5 DEF HookInv

LEMMA AnswersOfCalls ==
  ASSUME HookInv
  PROVE  Hooks!AnswersAreTrue
<1>1. SUFFICES ASSUME HookInv, NEW p \in Proc, hookPc[p] = "unlock"
               PROVE  Answered(p)
  BY DEF Hooks!AnswersAreTrue, Answered, Installed, Unchanged
<1>2. QED
  BY <1>1 DEF HookInv, CallInv, Section

LEMMA KeepsLinesStep ==
  ASSUME HookConstants, HookInv, [Hooks!Next]_Hooks!vars
  PROVE  Hooks!KeepsUserLines
<1> USE DEF Hooks!KeepsUserLines
<1>1. ASSUME file' = file
      PROVE  Hooks!KeepsUserLines
  BY <1>1 DEF Hooks!UserLines, Hooks!Removed, Hooks!Above, Hooks!Below, Hooks!IsManaged
<1>2. ASSUME NEW p \in Proc, NEW h \in Hooks!Hook, NEW b, LinesRead(p, h),
             file' = [file EXCEPT ![h] = b], Hooks!UserLines(b) = Hooks!UserLines(before[p][h])
      PROVE  Hooks!KeepsUserLines
  <2>1. DOMAIN file = Hooks!Hook
    BY DEF HookInv, Hooks!TypeOK
  <2>2. file'[h] = b /\ \A k \in Hooks!Hook \ {h} : file'[k] = file[k]
    BY <1>2, <2>1
  <2>3. \A l \in Hooks!UserLines(file[h]) \ added[h] : Decode[l] \in Hooks!UserLines(file'[h])
    BY <1>2, <2>2 DEF LinesRead
  <2>4. ASSUME NEW k \in Hooks!Hook, k # h
        PROVE  Hooks!UserLines(file'[k]) = Hooks!UserLines(file[k])
    BY <2>2, <2>4
  <2>5. QED
    BY <2>3, <2>4
<1>3. ASSUME NEW p \in Proc, Hooks!Apply(p), file' # file
      PROVE  Hooks!KeepsUserLines
  <2>a. PICK h : h = hookAt[p]
    OBVIOUS
  <2>1. file' = [file EXCEPT ![h] = staged[p][h]] /\ cfg[p] # None /\ hookPc[p] = "apply"
    BY <1>3, <2>a DEF Hooks!Apply
  <2>2. InstallInv(p)
    BY <2>1 DEF HookInv, CallInv, Section
  <2>3. h \in Hooks!Hook /\ Read(p, h) /\ Copied(p, h)
    BY <2>a, <2>1, <2>2 DEF InstallInv, Hooks!Hook
  <2>4. /\ staged[p][h] = Hooks!Updated(before[p][h], cfg[p]) /\ Hooks!Updatable(before[p][h])
        /\ before[p][h] \in Seq(Hooks!Line) \cup {None} /\ cfg[p] \in Config /\ LinesRead(p, h)
    BY <2>1, <2>3 DEF Read, Copied, HookInv, Hooks!TypeOK
  <2>5. Hooks!UserLines(staged[p][h]) = Hooks!UserLines(before[p][h])
    BY <2>4, UpdateIsSound
  <2>6. QED
    BY <1>2, <2>1, <2>3, <2>4, <2>5
<1>4. ASSUME NEW p \in Proc, Hooks!ApplyRemoval(p), file' # file
      PROVE  Hooks!KeepsUserLines
  <2>a. PICK h : h = hookAt[p]
    OBVIOUS
  <2>1. file' = [file EXCEPT ![h] = staged[p][h]] /\ cfg[p] = None /\ hookPc[p] = "apply"
    BY <1>4, <2>a DEF Hooks!ApplyRemoval
  <2>2. UninstallInv(p)
    BY <2>1 DEF HookInv, CallInv, Section
  <2>3. h \in Hooks!Hook /\ Read(p, h) /\ Copied(p, h)
    BY <2>a, <2>1, <2>2 DEF UninstallInv, Hooks!Hook
  <2>4. /\ staged[p][h] = Hooks!Removed(before[p][h])
        /\ Hooks!IsManaged(Hooks!Body(before[p][h]))
        /\ before[p][h] \in Seq(Hooks!Line) \cup {None} /\ LinesRead(p, h)
    BY <2>1, <2>3 DEF Read, Copied, HookInv, Hooks!TypeOK
  <2>5. before[p][h] \in Seq(Hooks!Line) /\ Hooks!IsManaged(before[p][h])
    BY <2>4, BodyTypes
  <2>6. Hooks!UserLines(staged[p][h]) = Hooks!UserLines(before[p][h])
    BY <2>4, <2>5, RemovalIsSound
  <2>7. QED
    BY <1>2, <2>1, <2>3, <2>4, <2>6
<1>5. ASSUME NEW p \in Proc, Hooks!Restore(p) \/ Hooks!ReplaceByRollback(p), file' # file
      PROVE  Hooks!KeepsUserLines
  <2>1. file' = [file EXCEPT ![one] = before[p][one]] /\ hookPc[p] \in {"rollback", "replace"}
    BY <1>5 DEF Hooks!Restore, Hooks!ReplaceByRollback, one
  <2>2. cfg[p] # None /\ InstallInv(p)
    BY <2>1 DEF HookInv, CallInv, UninstallInv, Section
  <2>3. LinesRead(p, one) /\ one \in Hooks!Hook
    BY <2>1, <2>2 DEF InstallInv, Replaced, one, Hooks!Hook
  <2>4. QED
    BY <1>2, <2>1, <2>3
<1>6. ASSUME NEW h \in Hooks!Hook, Hooks!Edit(h)
      PROVE  Hooks!KeepsUserLines
  <2>1. Hooks!UserLines(file[h]) \subseteq Hooks!UserLines(file'[h])
    BY <1>6, EditIsSound
  <2>2. ASSUME NEW k \in Hooks!Hook, k # h
        PROVE  Hooks!UserLines(file'[k]) = Hooks!UserLines(file[k])
    <3>1. file'[k] = file[k]
      BY <1>6, <2>2, EditIsSound
    <3>2. QED
      BY <3>1
  <2>3. QED
    BY <2>1, <2>2
<1>7. CASE UNCHANGED Hooks!vars
  BY <1>1, <1>7 DEF Hooks!vars
<1>8. ASSUME NEW p \in Proc, Hooks!Step(p), file' # file
      PROVE  Hooks!Apply(p) \/ Hooks!ApplyRemoval(p) \/ Hooks!Restore(p) \/ Hooks!ReplaceByRollback(p)
  BY <1>8 DEF Hooks!Step, Hooks!Call, Hooks!Acquire, Hooks!GiveUp, Hooks!ReadForInstall,
  Hooks!ReadForUninstall, Hooks!Stage, Hooks!Tidy, Hooks!Unlock, Hooks!Crash
<1>9. QED
  BY <1>1, <1>3, <1>4, <1>5, <1>6, <1>7, <1>8 DEF Hooks!Next

-----------------------------------------------------------------------------
(* Theorems                                                                *)

\* The inductive invariant holds throughout the behaviours of this module.
LEMMA HooksInvariant == MCSpec => [](subject = "hooks" => HookInv)
<1> DEFINE Inv == subject = "hooks" => HookInv
<1>1. MCInit => Inv
  BY CommandsAssumption, HookInvInit DEF MCInit
<1>2. Inv /\ [MCNext]_all => Inv'
  <2>1. SUFFICES ASSUME Inv, [MCNext]_all, subject' = "hooks"
                 PROVE  HookInv'
    OBVIOUS
  <2>2. subject = "hooks" /\ [Hooks!Next]_Hooks!vars
    BY <2>1 DEF MCNext, all, hookVars, Hooks!vars
  <2>3. QED
    BY <2>1, <2>2, CommandsAssumption, HookInvStep
<1>3. QED
  BY <1>1, <1>2, PTL DEF MCSpec

\* What a call tells the user is true of both hooks when it leaves its section.
THEOREM AnswersTrue == MCSpec => []AnswersAreTrue
<1>1. (subject = "hooks" => HookInv) => AnswersAreTrue
  BY AnswersOfCalls DEF AnswersAreTrue
<1>2. QED
  BY <1>1, HooksInvariant, PTL

\* No step takes a line out of a hook that the user had put there when the hook was read:
\* it stands, or what it is decoded to.
THEOREM UserLinesStand == MCSpec => UserLinesSurvive
<1>1. (subject = "hooks" => HookInv) /\ [MCNext]_all
        => [subject = "hooks" => Hooks!KeepsUserLines]_all
  <2>1. SUFFICES ASSUME HookInv, MCNext, subject = "hooks"
                 PROVE  Hooks!KeepsUserLines
    OBVIOUS
  <2>2. [Hooks!Next]_Hooks!vars
    BY <2>1 DEF MCNext
  <2>3. QED
    BY <2>1, <2>2, CommandsAssumption, KeepsLinesStep DEF CommandsAssumption
<1>2. QED
  BY <1>1, HooksInvariant, PTL DEF MCSpec, UserLinesSurvive
================================================================================
